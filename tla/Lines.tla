------------------------------- MODULE Lines -------------------------------
(***************************************************************************)
(* How a byte stream is cut into lines (ircmsg/codec.rs): by the functions *)
(* that read one message from a buffered reader, which may fail for want   *)
(* of data and are called again with what they had, and by the Decoder,    *)
(* which is called whenever bytes have arrived.  "x" is any byte that may  *)
(* be in a line; the bytes arrive in any fragments.                        *)
(***************************************************************************)
EXTENDS Naturals, Sequences
LOCAL INSTANCE SequencesExt

CONSTANT LineLimit  \* ServerMsg::MAX_LEN or ClientMsg::MAX_LEN
ASSUME LineLimitAssumption == LineLimit \in Nat \ {0}

VARIABLES
  stream,   \* all bytes the peer sends before it closes the connection
  arrived,  \* how many have arrived
  eof,      \* the end of the stream has arrived
  taken,    \* how many the reader has taken
  lbuf,     \* buf, the argument of read_owning_from
  lines,    \* what was handed to parse
  failed,   \* TooLong or InvalidLine was returned, and buf is not used again
  dsrc,     \* src, the argument of decode
  frames    \* what decode has split off, and whether Line::from_bytes took it

lvars == <<stream, arrived, eof, taken, lbuf, lines, failed, dsrc, frames>>

StreamByte == {"x", "\r", "\n", "0", " "}

LInit(streams) ==
  /\ stream \in streams
  /\ arrived = 0 /\ eof = FALSE /\ taken = 0 /\ failed = FALSE
  /\ lbuf = << >> /\ lines = << >> /\ dsrc = << >> /\ frames = << >>

(* The network.  The decoder's buffer is filled by the framed reader. *)
Arrive ==
  /\ arrived < Len(stream)
  /\ \E n \in (arrived + 1)..Len(stream) :
       /\ arrived' = n
       /\ dsrc' = dsrc \o SubSeq(stream, arrived + 1, n)
  /\ UNCHANGED <<stream, eof, taken, lbuf, lines, failed, frames>>
Close ==
  /\ arrived = Len(stream) /\ ~eof /\ eof' = TRUE
  /\ UNCHANGED <<stream, arrived, taken, lbuf, lines, failed, dsrc, frames>>
-----------------------------------------------------------------------------
(* read_until: up to a newline, what is there, or the limit set on read. *)
ReadCount ==
  LET there == SubSeq(stream, taken + 1, arrived)
      nl == SelectInSeq(there, LAMBDA b : b = "\n")
      upto == IF nl = 0 THEN Len(there) ELSE nl
  IN IF upto < LineLimit - Len(lbuf) THEN upto ELSE LineLimit - Len(lbuf)
Filled == lbuf \o SubSeq(stream, taken + 1, taken + ReadCount)

(* read_buf: the newline and the carriage returns before it are dropped.   *)
(* Without a newline the line was too long, or ended by the stream.        *)
LineOf(buf) ==
  LET end == SelectLastInSeq(buf, LAMBDA b : b \notin {"\r", "\n"}) IN SubSeq(buf, 1, end)
ReadBufFails(buf) ==
  Last(buf) # "\n" \/ (LineOf(buf) # << >> /\ Last(LineOf(buf)) = "0")

WholeLine == Len(Filled) = LineLimit \/ (Filled # << >> /\ Last(Filled) = "\n")

(* One turn of the loop in read_msg.  Without a whole line read_until      *)
(* fails, for WouldBlock or a timeout, or is cancelled; what it has read   *)
(* stays in buf.  At the end of the stream it returns what there is, and   *)
(* if that is nothing the call fails and changes nothing.                  *)
ReadPartKeeping(buf) ==
  /\ ~failed /\ ~WholeLine /\ ~eof /\ ReadCount > 0
  /\ lbuf' = buf /\ taken' = taken + ReadCount
  /\ UNCHANGED <<stream, arrived, eof, lines, failed, dsrc, frames>>
ReadPartLosing == ReadPartKeeping(<< >>)  \* mutated: a timeout loses what was read
ReadPart == ReadPartKeeping(Filled)

(* Without a newline, buf is left as it is; a line ending in NUL is left   *)
(* without its end.  An empty line is skipped.                             *)
ReadMsg ==
  /\ ~failed /\ (WholeLine \/ (eof /\ ReadCount > 0))
  /\ taken' = taken + ReadCount
  /\ failed' = ReadBufFails(Filled)
  /\ lbuf' = IF ~failed' THEN << >> ELSE IF Last(Filled) = "\n" THEN LineOf(Filled) ELSE Filled
  /\ lines' = IF failed' \/ LineOf(Filled) = << >> THEN lines ELSE Append(lines, LineOf(Filled))
  /\ UNCHANGED <<stream, arrived, eof, dsrc, frames>>
-----------------------------------------------------------------------------
(* scroll_buf: leading whitespace is dropped from src; the frame is what   *)
(* is left up to a newline, a NUL or the limit, if one of them is there.   *)
Blank == {" ", "\r", "\n"}
Scrolled(src) ==
  LET i == SelectInSeq(src, LAMBDA b : b \notin Blank)
  IN IF i = 0 THEN << >> ELSE SubSeq(src, i, Len(src))
SplitAt(s) ==
  LET end == SelectInSeq(s, LAMBDA b : b \in {"\n", "0"})
  IN IF end \in 1..LineLimit THEN end ELSE IF Len(s) >= LineLimit THEN LineLimit ELSE 0

(* A Line has no NUL, CR or LF.  With any of them, decode fails. *)
FromBytes(raw) ==
  [raw |-> raw, ok |-> \A i \in DOMAIN raw : raw[i] \notin {"0", "\r", "\n"}]

Decode ==
  /\ Scrolled(dsrc) # dsrc \/ SplitAt(Scrolled(dsrc)) # 0
  /\ LET s == Scrolled(dsrc)
         n == SplitAt(s)
     IN /\ dsrc' = SubSeq(s, n + 1, Len(s))
        /\ frames' = IF n = 0 THEN frames ELSE Append(frames, FromBytes(SubSeq(s, 1, n)))
  /\ UNCHANGED <<stream, arrived, eof, taken, lbuf, lines, failed>>

LNext == Arrive \/ Close \/ ReadPart \/ ReadMsg \/ Decode
-----------------------------------------------------------------------------
(* The lines of a text, by definition: what is between newlines, without   *)
(* the carriage returns at its end, unless nothing is left.                *)
LinesOf(text) ==
  LET ends == {i \in DOMAIN text : text[i] = "\n"}
      start(i) == IF \E j \in ends : j < i
                  THEN 1 + (CHOOSE j \in ends : j < i /\ \A k \in ends : k < i => k <= j) ELSE 1
      at == SetToSortSeq({i \in ends : LineOf(SubSeq(text, start(i), i)) # << >>}, <)
  IN [n \in DOMAIN at |-> LineOf(SubSeq(text, start(at[n]), at[n]))]

(* Until a call fails, the lines that were parsed are the lines of the     *)
(* bytes taken from the connection: however the bytes arrive, and however  *)
(* often a call times out in the middle of a line, none is lost, cut,      *)
(* joined with another or read twice.                                      *)
LinesAsSent == ~failed => lines = LinesOf(SubSeq(stream, 1, taken))

(* A call fails only because of what was sent since the last newline: the  *)
(* limit is reached without another, the stream ends in the middle of a    *)
(* line, or the line ends in NUL.  The limit counts all calls for the line *)
(* together.                                                               *)
FailsOnlyIfBad ==
  failed =>
    LET before == SelectLastInSeq(SubSeq(stream, 1, taken - 1), LAMBDA b : b = "\n")
        last == SubSeq(stream, before + 1, taken)
    IN IF Last(last) = "\n" THEN Last(LineOf(last)) = "0" ELSE eof \/ Len(last) = LineLimit

(* The frames, and whether they are decoded or refused, do not depend on   *)
(* how the bytes arrive: the frames so far, and those of the bytes that    *)
(* are not yet split, are what decode finds when everything is there at    *)
(* once.                                                                   *)
RECURSIVE FramesOf(_)
FramesOf(text) ==
  LET s == Scrolled(text) n == SplitAt(s)
  IN IF n = 0 THEN << >> ELSE <<FromBytes(SubSeq(s, 1, n))>> \o FramesOf(SubSeq(s, n + 1, Len(s)))
FramesAsSent == FramesOf(SubSeq(stream, 1, arrived)) = frames \o FramesOf(dsrc)

(* A codec "decodes [`ServerMsg`]s" (ircmsg/codec.rs:149): a line with     *)
(* nothing in it that a Line may not have is decoded.                      *)
DecodesLines ==
  \A k \in DOMAIN frames :
    LET line == LineOf(frames[k].raw) IN FromBytes(line).ok => frames[k].ok

(* The reading functions find in the stream the lines that were sent, and  *)
(* the Decoder splits it in one way (ircmsg/codec.rs:7-55, 454-502).  That *)
(* the Decoder decodes what it has split off is not said: it refuses every *)
(* frame that a newline ends, as the newline is still there.               *)
StreamAsSent == LinesAsSent /\ FailsOnlyIfBad /\ FramesAsSent
=============================================================================
