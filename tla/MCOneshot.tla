------------------------------ MODULE MCOneshot -----------------------------
(* Oneshot for TLC; the configurations give all the constants. *)
EXTENDS Oneshot
=============================================================================
