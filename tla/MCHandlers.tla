----------------------------- MODULE MCHandlers -----------------------------
(* Handlers with three handlers, enough for one to be swapped over another *)
(* while a third is still waiting for its turn.                            *)
EXTENDS Handlers, TLC

HandlerSymmetry == Permutations(Handler)
=============================================================================
