------------------------------ MODULE MCUtil --------------------------------
(***************************************************************************)
(* What the client is built on, for TLC: Parkers, under two channels that  *)
(* one thread receives from in either order, the first with a sender that  *)
(* can be cloned; and FlatMaps.  A behaviour exercises one of the two.     *)
(***************************************************************************)
EXTENDS SyncChannel, FlatMap

CONSTANTS c1, c2, u1, u2, u3

VARIABLE part

MCOf == [u \in {u1, u2, u3} |-> IF u = u3 THEN c2 ELSE c1]
MCFirst == [c \in {c1, c2} |-> IF c = c1 THEN u1 ELSE u3]

MCElem == [key : {1, 3}, val : Val]
MCInput == UNION {[1 .. n -> MCElem] : n \in 0 .. 3}

UInit == part \in {"channels", "map"} /\ Init /\ FInit
UNext ==
  \/ part = "channels" /\ Next /\ UNCHANGED <<part, fvars>>
  \/ part = "map" /\ FNext /\ UNCHANGED <<part, vars>>

USpec == UInit /\ [][UNext]_<<part, vars, fvars>> /\ Scheduled
=============================================================================
