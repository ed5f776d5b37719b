-------------------------------- MODULE Sasl --------------------------------
(***************************************************************************)
(* SASL authentication, client/auth/handler.rs: a handler is a record of   *)
(* the current authenticator, a queue of the ones to try after it, and     *)
(* whether its ChunkDecoder holds data.  SaslHandle is handle: what one    *)
(* message makes of a handler, what is sent, and the result.               *)
(*                                                                         *)
(* A challenge is "+" (an empty chunk), "none" (no argument), "full" (a    *)
(* chunk of 400 bytes, more follows), "data" or "bad" (not base64).        *)
(***************************************************************************)
EXTENDS Naturals, Sequences, FiniteSets

CONSTANTS
  Mech,     \* names of mechanisms
  OneReply  \* those whose authenticator replies only once, as PLAIN

Logic(m) == [mech |-> m, spent |-> FALSE]
SaslQueue(mechs) == [i \in 1 .. Len(mechs) |-> Logic(mechs[i])]

Retain(queue, supported) == SelectSeq(queue, LAMBDA l : l.mech \in supported)

(* from_queue, of a queue that is not empty. *)
FromQueue(queue) == [logic |-> Head(queue), queue |-> Tail(queue), decoder |-> FALSE]

AuthMsg(auth) == [k |-> "AUTH", a |-> auth.logic.mech]
MsgAbort == [k |-> "ABORT"]
MsgReply == [k |-> "REPLY"]

Cycle(auth) == [auth EXCEPT !.logic = Head(auth.queue), !.queue = Tail(@)]

Outcome(auth, out, res) == [auth |-> auth, out |-> out, res |-> res]
-----------------------------------------------------------------------------
(* ChunkDecoder::add or decode, of the last chunk of a challenge. *)
Challenge(decoder, chunk) ==
  IF chunk = "bad" THEN "bad"
  ELSE IF chunk \in {"+", "none"} /\ ~decoder THEN "empty" ELSE "data"

(* SaslLogic::reply succeeds, for PLAIN and EXTERNAL. *)
CanReply(logic, chal) ==
  chal = "empty" /\ ~(logic.spent /\ logic.mech \in OneReply)

(* The mechanism is ruled out.  The next one starts after the server's 906. *)
OnBroken(auth) ==
  LET rest == [auth EXCEPT !.queue = Retain(@, Mech \ {auth.logic.mech})]
  IN IF rest.queue = << >> THEN Outcome(rest, <<MsgAbort>>, "Broken")
                           ELSE Outcome(Cycle(rest), <<MsgAbort>>, "more")

OnAuthenticate(auth, chunk) ==
  LET chal == Challenge(auth.decoder, chunk)
      taken == [auth EXCEPT !.decoder = FALSE]
  IN IF chunk = "full" THEN Outcome([auth EXCEPT !.decoder = TRUE], << >>, "more")
     ELSE IF chal = "bad" THEN Outcome(taken, <<MsgAbort>>, "Broken")
     ELSE IF ~CanReply(auth.logic, chal) THEN OnBroken(taken)
     ELSE Outcome([taken EXCEPT !.logic.spent = TRUE], <<MsgReply>>, "more")

(* 902 and 904 *)
OnFail(auth) ==
  IF auth.queue = << >> THEN Outcome(auth, << >>, "Fail")
  ELSE Outcome(Cycle(auth), <<AuthMsg(Cycle(auth))>>, "more")

(* 908 names the mechanisms in one argument, separated by commas; every    *)
(* argument is taken for the name of one mechanism.                        *)
Named(mechs) == IF Cardinality(mechs) = 1 THEN mechs ELSE {}

OnMechs(auth, set) ==
  LET rest == [auth EXCEPT !.queue = Retain(@, set)]
  IN Outcome(rest, << >>, IF rest.queue = << >> /\ auth.logic.mech \notin set
                            THEN "Unsupported" ELSE "more")

SaslHandle(auth, msg) ==
  CASE msg.k = "AUTHENTICATE" -> OnAuthenticate(auth, msg.a)
    [] msg.k \in {"902", "904"} -> OnFail(auth)
    [] msg.k = "905" -> Outcome(auth, << >>, "Broken")
    [] msg.k = "906" -> Outcome(auth, <<AuthMsg(auth)>>, "more")
    [] msg.k = "908" -> OnMechs(auth, Named(msg.a))
    [] msg.k \in {"900", "903", "907"} -> Outcome(auth, << >>, "done")
    [] OTHER -> Outcome(auth, << >>, "more")
=============================================================================
