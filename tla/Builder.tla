------------------------------- MODULE Builder -------------------------------
(***************************************************************************)
(* Builder (string/builder.rs): strings made by concatenation, with a note *)
(* of whether the bytes so far are known to be UTF-8.  build() trusts the  *)
(* note.  The string type being built rejects " ".                         *)
(***************************************************************************)
EXTENDS Splitter

VARIABLE built  \* bytes, and utf8

BuilderStrings == UNION {[1..n -> Byte \ {" "}] : n \in 0..MaxString}
(* Strings as they are handed to the builder: the mark is honest. *)
Marked == {[bytes |-> s, utf8 |-> u] : s \in BuilderStrings, u \in BOOLEAN}
HonestMark(m) == m.utf8 => FromUtf8(m.bytes)

BInit(init) == built \in {m \in init : HonestMark(m)}

(* append_unchecked; the builder's length is bounded by MaxString. *)
AppendUnchecked(s, utf8) ==
  /\ Len(built.bytes) + Len(s) <= MaxString
  /\ built' = [bytes |-> built.bytes \o s, utf8 |-> built.utf8 /\ utf8]
AppendTo == \E m \in Marked : HonestMark(m) /\ AppendUnchecked(m.bytes, m.utf8)

CheckUtf8 ==
  /\ ~built.utf8 /\ FromUtf8(built.bytes)
  /\ built' = [built EXCEPT !.utf8 = TRUE]

(* try_append, and try_push for one byte: only ASCII is surely UTF-8. *)
TryAppend ==
  \E s \in BuilderStrings : AppendUnchecked(s, \A i \in DOMAIN s : s[i] \in Ascii)

(* try_append_str, and try_push_char for one character. *)
TryAppendStr == \E s \in BuilderStrings : FromUtf8(s) /\ AppendUnchecked(s, TRUE)

BNext == AppendTo \/ CheckUtf8 \/ TryAppend \/ TryAppendStr

(* What build() makes is marked UTF-8 only if it is: it is converted       *)
(* without a check.  No sequence of appends joins halves of characters to  *)
(* something wrongly marked.                                               *)
BuilderHonest == HonestMark(built)

(* Strings in the making and strings being taken apart: ranges within the  *)
(* string, and no bytes claimed to be UTF-8 that are not (string/          *)
(* splitter.rs, string/builder.rs).                                        *)
StringsHonest == RangeInString /\ EncodingHonest /\ BuilderHonest
=============================================================================
