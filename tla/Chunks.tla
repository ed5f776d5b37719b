------------------------------- MODULE Chunks -------------------------------
(***************************************************************************)
(* AUTHENTICATE-style chunks (string/base64.rs) and the splitting of       *)
(* capability requests (client/cap.rs).  Base64 text is a sequence of "+"  *)
(* and "A", which stands for every other byte of it; its length is a       *)
(* multiple of 4.  A capability is its position in the list and its        *)
(* length.                                                                 *)
(***************************************************************************)
EXTENDS Naturals, Sequences
LOCAL INSTANCE SequencesExt

CONSTANTS ChunkMax,  \* the chunk size of encoder and decoder: 400 in AUTHENTICATE
          Room,      \* bytes a reply to CAP REQ has for the capabilities
          ServerLen  \* bytes of it that the server's source takes
ASSUME ChunkMaxAssumption == ChunkMax \in Nat \ {0} /\ ChunkMax % 4 = 0
ASSUME RoomAssumption == Room \in Nat /\ Room >= 2 /\ ServerLen \in Nat

VARIABLES
  encoded,  \* the whole Base64 text
  enc,      \* ChunkEncoder: max, and the text left, or << >> for Err
  sent,     \* how many chunks it has yielded
  dec,      \* ChunkDecoder: what it has collected
  decoded,  \* what it has decoded
  known,    \* req() is given the server's source
  caps,     \* the capabilities to request
  reqs,     \* the requests sent
  current,  \* cap_string
  done      \* req() has returned

kvars == <<encoded, enc, sent, dec, decoded, known, caps, reqs, current, done>>
-----------------------------------------------------------------------------
NoMore == [max |-> 0, rest |-> << >>]
NewEncoder(text) ==
  [max |-> ChunkMax, rest |-> IF text = << >> THEN << >> ELSE <<text>>]

(* Iterator::next: the chunk and the encoder after it. *)
NextChunkOf(e, full) ==
  IF e.rest = << >> THEN [chunk |-> <<"+">>, next |-> NoMore]
  ELSE LET text == e.rest[1]
           n == IF Len(text) < e.max THEN Len(text) ELSE e.max
           left == SubSeq(text, n + 1, Len(text))
       IN [chunk |-> SubSeq(text, 1, n),
           next |-> IF Len(text) < full THEN NoMore
                    ELSE [e EXCEPT !.rest = IF left = << >> THEN << >> ELSE <<left>>]]
NextChunkFull(e) ==  \* mutated: no "+" after a full last chunk
  NextChunkOf(e, e.max + 1)
NextChunk(e) == NextChunkOf(e, e.max)

EncoderLen(e) ==
  IF e.max = 0 THEN 0 ELSE IF e.rest = << >> THEN 1 ELSE Len(e.rest[1]) \div e.max + 1

(* One AUTHENTICATE message: the encoder's next chunk is added to the      *)
(* decoder of the other side.                                              *)
SendChunk ==
  /\ enc.max # 0
  /\ LET c == NextChunk(enc)
         all == IF c.chunk = <<"+">> THEN dec ELSE dec \o c.chunk
     IN /\ enc' = c.next /\ sent' = sent + 1
        /\ IF Len(c.chunk) < ChunkMax
           THEN decoded' = Append(decoded, all) /\ dec' = << >>
           ELSE dec' = dec \o c.chunk /\ UNCHANGED decoded
  /\ UNCHANGED <<encoded, known, caps, reqs, current, done>>
-----------------------------------------------------------------------------
(* The length of " " separated capabilities. *)
CapsLen(cs) == IF cs = << >> THEN 0 ELSE FoldLeft(LAMBDA n, c : n + c.len + 1, 0, cs) - 1
(* What is left as req() counts: two bytes less than there are, but with   *)
(* what a source takes that it does not know of.                           *)
Unseen == IF known THEN 0 ELSE ServerLen
BaseLen == Room - 2 + Unseen

(* One turn of the loop in req(), and its end. *)
ReqCap ==
  /\ caps # << >>
  /\ caps' = Tail(caps)
  /\ IF CapsLen(current) + Head(caps).len < BaseLen
     THEN current' = Append(current, Head(caps)) /\ UNCHANGED reqs
     ELSE /\ reqs' = IF current = << >> THEN reqs ELSE Append(reqs, current)
          /\ current' = <<Head(caps)>>
  /\ UNCHANGED <<encoded, enc, sent, dec, decoded, known, done>>
ReqDone ==
  /\ caps = << >> /\ ~done
  /\ reqs' = Append(reqs, current) /\ current' = << >> /\ done' = TRUE
  /\ UNCHANGED <<encoded, enc, sent, dec, decoded, known, caps>>
-----------------------------------------------------------------------------
KInit(texts, capLists, given) ==
  /\ encoded \in texts /\ enc = NewEncoder(encoded)
  /\ sent = 0 /\ dec = << >> /\ decoded = << >>
  /\ known \in given
  /\ caps \in {[i \in DOMAIN l |-> [pos |-> i, len |-> l[i]]] : l \in capLists}
  /\ reqs = << >> /\ current = << >> /\ done = FALSE

KNext == SendChunk \/ ReqCap \/ ReqDone

(* What was encoded is decoded, once and in one piece, whatever its length *)
(* is: also if the last chunk is full, when "+" has to follow, and if the  *)
(* text is empty.                                                          *)
ChunksRoundTrip ==
  IF enc.max = 0 THEN decoded = <<encoded>> /\ dec = << >>
  ELSE decoded = << >> /\ dec \o (IF enc.rest = << >> THEN << >> ELSE enc.rest[1]) = encoded

(* len(), which is exact by contract, is the number of chunks to come.     *)
LenIsExact == sent + EncoderLen(enc) = EncoderLen(NewEncoder(encoded))

(* The requests hold all the capabilities, each once and in order, and     *)
(* none is empty unless there is nothing to request; the reply to each     *)
(* fits in a line, but for the server's source where req() is not given    *)
(* it, unless it is for one capability that is too long by itself.         *)
RequestsFit ==
  LET all == FlattenSeq(reqs) \o current \o caps
  IN /\ \A i \in DOMAIN all : all[i].pos = i
     /\ \A i \in DOMAIN reqs : \/ Len(reqs[i]) = 1 \/ CapsLen(reqs[i]) \in 1..(Room + Unseen)
                               \/ reqs = <<<< >>>>

(* Text that has to be cut arrives whole: Base64 in AUTHENTICATE           *)
(* (string/base64.rs) and capabilities in CAP REQ (client/cap.rs).         *)
NothingCutShort == ChunksRoundTrip /\ LenIsExact /\ RequestsFit
=============================================================================
