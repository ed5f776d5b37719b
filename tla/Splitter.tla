------------------------------ MODULE Splitter ------------------------------
(***************************************************************************)
(* Splitter (string/splitter.rs): a range over a byte string that is       *)
(* narrowed from both ends, guards that restore one or both of its ends,   *)
(* and a note of what is known of its encoding.  Strings cut out of it     *)
(* inherit that note, and a string marked UTF-8 is later converted without *)
(* a check.  Bytes are "a" (an ASCII letter), " " (ASCII that the string   *)
(* types reject), and "L" and "C", the two bytes of a longer character.    *)
(***************************************************************************)
EXTENDS Naturals, Sequences

CONSTANTS MaxString, MaxSaved  \* bytes of a string, guards open at once

VARIABLES
  string,  \* what is being split
  range,   \* start, end and encoding
  saved,   \* the open SavedIndices, innermost last
  raised,  \* some guard restored one end after check_encoding in its scope
  got      \* the string the last call returned, and whether it is marked UTF-8

svars == <<string, range, saved, raised, got>>

Byte == {"a", " ", "L", "C"}
Ascii == {"a", " "}
Encoding == <<"Unknown", "Utf8", "Ascii">>
Rank(enc) == CHOOSE i \in DOMAIN Encoding : Encoding[i] = enc

(* std::str::from_utf8 *)
FromUtf8(s) ==
  \A i \in DOMAIN s : /\ s[i] = "L" => i < Len(s) /\ s[i + 1] = "C"
                      /\ s[i] = "C" => i > 1 /\ s[i - 1] = "L"

(* The string types: which bytes they accept, and whether they may be      *)
(* empty.  A type accepts all bytes that are not ASCII, or none of them.   *)
Newtype == [bytes : {{"a", "L", "C"}, {"a"}}, empty : BOOLEAN]
CheckOthers(U, s) == U.empty \/ s # << >>

RangeLen(r) == r.end - r.start
Constrain(r) == SubSeq(string, r.start + 1, r.end)
AsSlice == Constrain(range)
NoString == [bytes |-> << >>, utf8 |-> FALSE]
IsUtf8Lazy == Rank(range.enc) >= Rank("Utf8")

(* The offset of the first byte in S, or the length of the slice. *)
Position(S) ==
  LET n == RangeLen(range)
      hits == {i \in 0..(n - 1) : AsSlice[i + 1] \in S}
  IN IF hits = {} THEN n ELSE CHOOSE i \in hits : \A j \in hits : i <= j

SplitterStrings == UNION {[1..n -> Byte] : n \in 0..MaxString}

(* Splitter::new *)
SInit(strings) ==
  /\ string \in strings
  /\ \E enc \in {"Unknown"} \cup (IF FromUtf8(string) THEN {"Utf8"} ELSE {}) :
       range = [start |-> 0, end |-> Len(string), enc |-> enc]
  /\ saved = << >> /\ raised = FALSE
  /\ got = NoString

Moves(r) == range' = r /\ got' = NoString /\ UNCHANGED <<string, saved, raised>>
-----------------------------------------------------------------------------
Save(start, end) ==
  /\ Len(saved) < MaxSaved
  /\ saved' = Append(saved, [range |-> range, start |-> start, end |-> end])
  /\ got' = NoString
  /\ UNCHANGED <<string, range, raised>>

(* Range::restore, when the innermost guard is dropped. *)
Restore ==
  /\ saved # << >>
  /\ LET g == saved[Len(saved)]
     IN /\ range' = [start |-> IF g.start THEN g.range.start ELSE range.start,
                     end |-> IF g.end THEN g.range.end ELSE range.end,
                     enc |-> IF g.start /\ g.end THEN g.range.enc ELSE range.enc]
        /\ raised' = (raised \/ (g.start # g.end /\ Rank(range.enc) > Rank(g.range.enc)))
  /\ saved' = SubSeq(saved, 1, Len(saved) - 1)
  /\ got' = NoString
  /\ UNCHANGED string

CheckEncoding ==
  /\ Rank(range.enc) < Rank("Ascii")
  /\ \/ /\ \A i \in DOMAIN AsSlice : AsSlice[i] \in Ascii
        /\ Moves([range EXCEPT !.enc = "Ascii"])
     \/ /\ \E i \in DOMAIN AsSlice : AsSlice[i] \notin Ascii
        /\ FromUtf8(AsSlice)
        /\ Moves([range EXCEPT !.enc = "Utf8"])

(* next_byte and rnext_byte: half a character may be left behind. *)
AfterByte(byte) == IF byte \in Ascii THEN range.enc ELSE "Unknown"
NextByte ==
  /\ RangeLen(range) > 0
  /\ Moves([range EXCEPT !.start = @ + 1, !.enc = AfterByte(AsSlice[1])])
RNextByteKnowing(enc) ==
  /\ RangeLen(range) > 0
  /\ Moves([range EXCEPT !.end = @ - 1, !.enc = enc])
RNextByteSame == RNextByteKnowing(range.enc)  \* mutated: half a character is UTF-8
RNextByte == RNextByteKnowing(AfterByte(AsSlice[RangeLen(range)]))

(* consume_invalid and consume_whitespace *)
ConsumeInvalid(U) == Moves([range EXCEPT !.start = @ + Position(U.bytes)])
ConsumeWhitespace == Moves([range EXCEPT !.start = @ + Position(Byte \ {" "})])

(* Range::consume at the end, by until_count and until_byte: the predicate *)
(* of until_byte may be true of any byte.                                  *)
Consume(count) ==
  LET n == IF count < RangeLen(range) THEN count ELSE RangeLen(range) IN
  Moves([range EXCEPT !.end = range.start + n,
                      !.enc = IF n > 0 /\ @ = "Utf8" THEN "Unknown" ELSE @])
UntilCount == \E len \in 0..MaxString : Consume(len)
UntilByte == \E idx \in 0..(RangeLen(range) - 1) : Consume(idx)
UntilByteEq(byte) ==
  /\ Position({byte}) < RangeLen(range)
  /\ Moves([range EXCEPT !.end = range.start + Position({byte}),
                         !.enc = IF @ = "Utf8" /\ byte \notin Ascii THEN "Unknown" ELSE @])

(* peek_string and string; peek_rest and rest, which have no need to look  *)
(* at the bytes.  On an error nothing is consumed.                         *)
Yields(s, consumed) ==
  /\ got' = [bytes |-> s, utf8 |-> IsUtf8Lazy]
  /\ range' = [range EXCEPT !.start = @ + consumed]
  /\ UNCHANGED <<string, saved, raised>>
String(U, require_rest, peek) ==
  LET idx == Position(Byte \ U.bytes)
      s == SubSeq(AsSlice, 1, idx)
  IN /\ require_rest => idx = RangeLen(range)
     /\ CheckOthers(U, s)
     /\ Yields(s, IF peek THEN 0 ELSE Len(s))
Rest(U, peek) ==
  /\ CheckOthers(U, AsSlice)
  /\ Yields(AsSlice, IF peek THEN 0 ELSE RangeLen(range))

SNext ==
  \/ \E start, end \in BOOLEAN : Save(start, end)
  \/ Restore \/ CheckEncoding \/ NextByte \/ RNextByte \/ ConsumeWhitespace
  \/ \E U \in Newtype : ConsumeInvalid(U)
  \/ UntilCount \/ UntilByte
  \/ \E byte \in Byte : UntilByteEq(byte)
  \/ \E U \in Newtype, rest, peek \in BOOLEAN : String(U, rest, peek)
  \/ \E U \in Newtype, peek \in BOOLEAN : Rest(U, peek)

-----------------------------------------------------------------------------
(* The range never leaves the string, and its ends never cross, whatever   *)
(* guards restore: Range::constrain would panic.                           *)
RangeInString ==
  LET fits(r) == r.start <= r.end /\ r.end <= Len(string)
  IN fits(range) /\ \A i \in DOMAIN saved : fits(saved[i].range)

(* What is_utf8_lazy claims of the rest of the string is true, and so is   *)
(* the mark on every string that was returned: their conversion to str is  *)
(* unchecked.  The exception is a guard that restores one end only, in     *)
(* whose scope check_encoding was called: Range::restore keeps what was    *)
(* found out about the shorter string.                                     *)
EncodingHonest ==
  ~raised => /\ IsUtf8Lazy => FromUtf8(AsSlice)
             /\ range.enc = "Ascii" => \A i \in DOMAIN AsSlice : AsSlice[i] \in Ascii
             /\ got.utf8 => FromUtf8(got.bytes)
=============================================================================
