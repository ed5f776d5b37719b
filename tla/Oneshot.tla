------------------------------ MODULE Oneshot -------------------------------
(***************************************************************************)
(* The oneshot channel of client/handler/channel/oneshot.rs: senders and a *)
(* receiver, each in a thread of its own, that share a heap-allocated      *)
(* Inner without a reference count for it.  One step is one atomic access  *)
(* or one thing a thread does to the value.                                *)
(*                                                                         *)
(* The receiver announces that it leaves with a plain store.  With         *)
(* Buffered, other threads may see that store late, until the receiver     *)
(* next does an atomic read-modify-write, as on x86.                       *)
(*                                                                         *)
(* What a thread does after it has touched an Inner that is freed is       *)
(* undefined: it is marked and takes no more steps.                        *)
(***************************************************************************)
EXTENDS Integers

CONSTANTS Sender, Buffered

ASSUME BufferedAssumption == Buffered \in BOOLEAN

VARIABLES
  sender_count, recver, lock,  \* Inner; lock is "new", "running" or "done"
  value,      \* Inner: whose value is initialised, an Option
  freed,      \* how many times Inner was freed
  spc,        \* where every sender is; "none" has not been cloned yet
  rpc,        \* where the receiver is
  how,        \* what the receiver does with a value: "received" or "dropped"
  pending,    \* whether its store to recver is still in its store buffer
  undefined,  \* threads that have touched a freed Inner
  fate        \* history: of every sender's value

inner == <<sender_count, recver, lock, value>>
vars == <<inner, freed, spc, rpc, how, pending, undefined, fate>>

Receiver == "receiver"

(* channel() *)
Init ==
  /\ sender_count = 1 /\ recver = TRUE /\ lock = "new" /\ value = << >>
  /\ freed = 0
  /\ \E s \in Sender : spc = [t \in Sender |-> IF t = s THEN "have" ELSE "none"]
  /\ rpc = "have" /\ how \in {"received", "dropped"}
  /\ pending = FALSE
  /\ undefined = {}
  /\ fate = [s \in Sender |-> "kept"]

(* Thread p accesses Inner. *)
Touch(p) == freed = 0 /\ p \notin undefined
TouchFreed(p) ==
  /\ freed > 0 /\ p \notin undefined
  /\ undefined' = undefined \cup {p}
  /\ UNCHANGED <<inner, freed, spc, rpc, how, pending, fate>>

Goto(s, l) == spc' = [spc EXCEPT ![s] = l]
-----------------------------------------------------------------------------
Clone(s, t) ==
  /\ spc[s] = "have" /\ spc[t] = "none"
  /\ Touch(s)
  /\ sender_count' = sender_count + 1
  /\ Goto(t, "have")
  /\ UNCHANGED <<recver, lock, value, freed, rpc, how, pending, undefined, fate>>

(* send, as far as the check of recver. *)
SendLoad(s) ==
  /\ spc[s] = "have"
  /\ Touch(s)
  /\ Goto(s, IF recver THEN "once" ELSE "dropping")
  /\ fate' = [fate EXCEPT ![s] = IF recver THEN "kept" ELSE "returned"]
  /\ UNCHANGED <<inner, freed, rpc, how, pending, undefined>>

(* call_once, in the thread whose closure runs. *)
OnceEnterIf(s, free) ==
  /\ spc[s] = "once"
  /\ Touch(s)
  /\ free
  /\ lock' = "running"
  /\ Goto(s, "writing")
  /\ UNCHANGED <<sender_count, recver, value, freed, rpc, how, pending,
                 undefined, fate>>
OnceEnterAgain(s) == OnceEnterIf(s, lock # "running")  \* mutated: not once
OnceEnter(s) == OnceEnterIf(s, lock = "new")

OnceWriteThen(s, next_lock) ==
  /\ spc[s] = "writing"
  /\ Touch(s)
  /\ value' = <<s>>
  /\ lock' = next_lock
  /\ fate' = [fate EXCEPT ![s] = "transit"]
  /\ Goto(s, "dropping")
  /\ UNCHANGED <<sender_count, recver, freed, rpc, how, pending, undefined>>
OnceWriteStuck(s) == OnceWriteThen(s, "running")  \* mutated: never completes
OnceWrite(s) == OnceWriteThen(s, "done")

(* call_once, in a thread that finds it completed. *)
OnceSkip(s) ==
  /\ spc[s] = "once"
  /\ Touch(s)
  /\ lock = "done"
  /\ fate' = [fate EXCEPT ![s] = "returned"]
  /\ Goto(s, "dropping")
  /\ UNCHANGED <<inner, freed, rpc, how, pending, undefined>>

(* A sender that is not used is dropped. *)
DropUnused(s) ==
  /\ spc[s] = "have"
  /\ Goto(s, "dropping")
  /\ UNCHANGED <<inner, freed, rpc, how, pending, undefined, fate>>

FetchSub(s) ==
  /\ spc[s] = "dropping"
  /\ Touch(s)
  /\ sender_count' = sender_count - 1
  /\ Goto(s, IF sender_count = 1 THEN "last" ELSE "gone")
  /\ UNCHANGED <<recver, lock, value, freed, rpc, how, pending, undefined, fate>>

(* The last sender frees Inner if the receiver has left.  "missed" is also *)
(* gone: the receiver's store was still under way.                         *)
LastLoadFreeing(s, frees) ==
  /\ spc[s] = "last"
  /\ Touch(s)
  /\ Goto(s, IF frees THEN "free" ELSE IF pending THEN "missed" ELSE "gone")
  /\ UNCHANGED <<inner, freed, rpc, how, pending, undefined, fate>>
LastLoadNever(s) == LastLoadFreeing(s, FALSE)  \* mutated: left to the receiver
LastLoad(s) == LastLoadFreeing(s, ~recver)

Free(s) ==
  /\ spc[s] = "free"
  /\ freed' = freed + 1
  /\ Goto(s, "gone")
  /\ UNCHANGED <<inner, rpc, how, pending, undefined, fate>>

SenderStep(s) ==
  \/ \E t \in Sender : Clone(s, t)
  \/ SendLoad(s) \/ OnceEnter(s) \/ OnceWrite(s) \/ OnceSkip(s)
  \/ DropUnused(s) \/ FetchSub(s) \/ LastLoad(s) \/ Free(s)
  \/ spc[s] \in {"once", "writing", "dropping", "last"} /\ TouchFreed(s)
-----------------------------------------------------------------------------
(* Receiver::drop and recv_now. *)
RecvStore ==
  /\ rpc = "have"
  /\ Touch(Receiver)
  /\ rpc' = "once"
  /\ recver' = Buffered
  /\ pending' = Buffered
  /\ UNCHANGED <<sender_count, lock, value, freed, spc, how, undefined, fate>>

StoreDrains ==
  /\ pending
  /\ pending' = FALSE
  /\ recver' = FALSE
  /\ UNCHANGED <<sender_count, lock, value, freed, spc, rpc, how, undefined, fate>>

(* Its closure only notes that there was no value. *)
RecvCloses ==
  /\ rpc = "once"
  /\ Touch(Receiver)
  /\ lock = "new"
  /\ lock' = "done"
  /\ recver' = FALSE /\ pending' = FALSE
  /\ rpc' = "load"
  /\ UNCHANGED <<sender_count, value, freed, spc, how, undefined, fate>>

RecvFindsIf(ready) ==
  /\ rpc = "once"
  /\ Touch(Receiver)
  /\ ready
  /\ rpc' = "take"
  /\ UNCHANGED <<inner, freed, spc, how, pending, undefined, fate>>
RecvFindsRunning == RecvFindsIf(lock # "new")  \* mutated: no wait for a send
RecvFinds == RecvFindsIf(lock = "done")

RecvTake ==
  /\ rpc = "take"
  /\ Touch(Receiver)
  /\ value' = << >>
  /\ fate' = [s \in Sender |-> IF value = <<s>> THEN how ELSE fate[s]]
  /\ rpc' = "load"
  /\ UNCHANGED <<sender_count, recver, lock, freed, spc, how, pending, undefined>>

RecvLoad ==
  /\ rpc = "load"
  /\ Touch(Receiver)
  /\ rpc' = IF sender_count = 0 THEN "free" ELSE "gone"
  /\ UNCHANGED <<inner, freed, spc, how, pending, undefined, fate>>

RecvFree ==
  /\ rpc = "free"
  /\ freed' = freed + 1
  /\ rpc' = "gone"
  /\ UNCHANGED <<inner, spc, how, pending, undefined, fate>>

RecvStep ==
  \/ RecvStore \/ RecvCloses \/ RecvFinds \/ RecvTake \/ RecvLoad \/ RecvFree
  \/ rpc \in {"once", "take", "load"} /\ TouchFreed(Receiver)
-----------------------------------------------------------------------------
Next == (\E s \in Sender : SenderStep(s)) \/ RecvStep \/ StoreDrains

Spec == Init /\ [][Next]_vars

(* Every thread is scheduled, and does not keep its handle for ever. *)
FairSpec ==
  /\ Spec
  /\ \A s \in Sender : WF_vars(SenderStep(s))
  /\ WF_vars(RecvStep)
  /\ WF_vars(StoreDrains)
-----------------------------------------------------------------------------
(* Every variable has its type. *)
TypeOK ==
  /\ sender_count \in Nat
  /\ recver \in BOOLEAN
  /\ lock \in {"new", "running", "done"}
  /\ value \in {<< >>} \cup {<<s>> : s \in Sender}
  /\ freed \in Nat
  /\ spc \in [Sender -> {"none", "have", "once", "writing", "dropping", "last",
                        "free", "gone", "missed"}]
  /\ rpc \in {"have", "once", "take", "load", "free", "gone"}
  /\ how \in {"received", "dropped"}
  /\ pending \in BOOLEAN
  /\ undefined \subseteq Sender \cup {Receiver}
  /\ fate \in [Sender -> {"kept", "returned", "transit", "received", "dropped"}]

(* Of all the senders at most one value is ever written, and Inner holds   *)
(* it exactly while it is in transit (oneshot.rs:24-27, 162-175).          *)
OneValue ==
  /\ \A s \in Sender : fate[s] = "transit" <=> value = <<s>>
  /\ \A s, t \in Sender :
       fate[s] \in {"transit", "received", "dropped"}
         /\ fate[t] \in {"transit", "received", "dropped"} => s = t

(* assume_init_* is only reached for a value that is there: by peek        *)
(* (oneshot.rs:114-123), by recv_now and by drop, and a send in progress   *)
(* is waited for.                                                          *)
TakesWhatIsThere ==
  /\ rpc = "take" => value # << >>
  /\ rpc = "have" /\ lock = "done" => value # << >>

(* "The receiver owns an in-transit value and is responsible for cleaning  *)
(* it up" (oneshot.rs:26): once the receiver has left nothing is left in   *)
(* Inner, and nothing gets there any more from a sender that saw it alive. *)
ReceiverCleansUp ==
  rpc \in {"load", "free", "gone"} =>
    value = << >> /\ \A s \in Sender : spc[s] # "writing"

(* The value in transit: written once, read only when it is there, and not *)
(* left behind (oneshot.rs:24-27, 114-139, 162-175).                       *)
ValueSound == TypeOK /\ OneValue /\ TakesWhatIsThere /\ ReceiverCleansUp

Gone(s) == spc[s] \in {"none", "gone", "missed"}

(* Shared ownership (oneshot.rs:4-5): when the last handle is gone Inner   *)
(* has been freed, unless the last sender looked while the receiver's      *)
(* store, which nothing orders before its load (oneshot.rs:65, 131), was   *)
(* still under way: then both leave it to the other.                       *)
FreedInTheEnd ==
  rpc = "gone" /\ (\A s \in Sender : spc[s] \in {"none", "gone"})
    /\ undefined = {} => freed > 0

(* "We drop references to be absolutely sure they won't live at the same   *)
(* time as the memory they point to getting dropped" (oneshot.rs:10-12).   *)
ReferencesEnded ==
  freed > 0 => freed = 1 /\ rpc = "gone" /\ \A s \in Sender : Gone(s)

(* "It may briefly block to avoid data races, but should be unable to      *)
(* deadlock" (oneshot.rs:5-6): whoever waits in call_once gets out.        *)
NobodyStuck ==
  /\ \A s \in Sender : spc[s] = "once" ~> (Gone(s) \/ s \in undefined)
  /\ rpc = "once" ~> (rpc = "gone" \/ Receiver \in undefined)

(* The channel does what an abstract one does: a send takes effect when    *)
(* its closure has run, and the receiver leaves when it has closed the     *)
(* lock or taken the value.                                                *)
Abs == INSTANCE OneshotAbs
         WITH slot <- value,
              rx <- IF rpc = "have" THEN "open"
                    ELSE IF rpc \in {"once", "take"} THEN "leaving" ELSE "left"
AbsSpec == Abs!Spec
=============================================================================
