----------------------------- MODULE OneshotAbs -----------------------------
(***************************************************************************)
(* What a oneshot channel promises: of the values that its senders offer,  *)
(* at most one gets across, its receiver alone disposes of that one, and   *)
(* every other value goes back to its sender.  A sender is refused only    *)
(* when another one was faster or the receiver is leaving.                 *)
(***************************************************************************)
CONSTANT Sender

VARIABLES
  slot,  \* the sender whose value is in transit, as an Option
  rx,    \* the receiver: "open", "leaving" or "left"
  fate   \* of every sender's value

vars == <<slot, rx, fate>>

Init ==
  /\ slot = << >>
  /\ rx = "open"
  /\ fate = [s \in Sender |-> "kept"]

Accept(s) ==
  /\ fate[s] = "kept"
  /\ slot = << >> /\ rx # "left"
  /\ \A t \in Sender : fate[t] \in {"kept", "returned"}
  /\ slot' = <<s>>
  /\ fate' = [fate EXCEPT ![s] = "transit"]
  /\ UNCHANGED rx

Refuse(s) ==
  /\ fate[s] = "kept"
  /\ slot # << >> \/ rx # "open"
  /\ fate' = [fate EXCEPT ![s] = "returned"]
  /\ UNCHANGED <<slot, rx>>

Leave ==
  /\ rx = "open"
  /\ rx' = "leaving"
  /\ UNCHANGED <<slot, fate>>

(* The receiver is gone, and has disposed of the value if there was one. *)
Finish(how) ==
  /\ rx = "leaving"
  /\ rx' = "left"
  /\ slot' = << >>
  /\ fate' = [s \in Sender |-> IF slot = <<s>> THEN how ELSE fate[s]]

Next ==
  \/ \E s \in Sender : Accept(s) \/ Refuse(s)
  \/ Leave
  \/ \E how \in {"received", "dropped"} : Finish(how)

Spec == Init /\ [][Next]_vars
=============================================================================
