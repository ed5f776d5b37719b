---------------------------- MODULE SyncChannel -----------------------------
(***************************************************************************)
(* The oneshot channels of SyncChannels (client/handler/channel.rs): the   *)
(* sending half is an Unparker around an Option<oneshot::Sender>, the      *)
(* receiving half a oneshot::Receiver and a Parker, both used by one       *)
(* thread in recv.  Parker is taken step by step; the channel itself takes *)
(* the steps of OneshotAbs, which Oneshot implements.                      *)
(***************************************************************************)
EXTENDS Parker

VARIABLES
  slot, rx, fate,  \* of every channel, as in OneshotAbs; fate by Unparker
  some,   \* the Unparkers whose Option<oneshot::Sender> is Some
  must,   \* the Unparkers that are between the send and the unpark
  rpc     \* of every channel: "new", "empty", "parking", "ready" or "done"

cvars == <<slot, rx, fate, some, must, rpc>>
vars == <<pvars, cvars>>

(* new_oneshot, for every channel *)
Init ==
  /\ PInit
  /\ slot = [c \in Chan |-> << >>] /\ rx = [c \in Chan |-> "open"]
  /\ fate = [u \in Unparker |-> "kept"]
  /\ some = {First[c] : c \in Chan}
  /\ must = {}
  /\ rpc = [c \in Chan |-> "new"]
-----------------------------------------------------------------------------
CloneSender(u, v) ==
  /\ CloneUnparker(u, v)
  /\ u \notin must
  /\ some' = IF u \in some THEN some \cup {v} ELSE some
  /\ UNCHANGED <<slot, rx, fate, must, rpc>>

(* Unparker::send, with Option::take and the oneshot's send; unless that   *)
(* fails the Unparker goes on to unpark.                                   *)
SendAccepted(u, accepts, unparks) ==
  /\ upc[u] = "live" /\ u \in some
  /\ accepts
  /\ slot' = [slot EXCEPT ![Of[u]] = <<u>>]
  /\ fate' = [fate EXCEPT ![u] = "transit"]
  /\ some' = some \ {u}
  /\ must' = IF unparks THEN must \cup {u} ELSE must
  /\ UNCHANGED <<pvars, rx, rpc>>
CanAccept(c) ==
  /\ slot[c] = << >> /\ rx[c] # "left"
  /\ \A u \in Unparker : Of[u] = c => fate[u] \in {"kept", "returned"}
SendQuiet(u) == SendAccepted(u, CanAccept(Of[u]), FALSE)  \* mutated: only if Continue
SendOk(u) == SendAccepted(u, CanAccept(Of[u]), TRUE)

SendClosed(u) ==
  /\ upc[u] = "live" /\ u \in some
  /\ slot[Of[u]] # << >> \/ rx[Of[u]] # "open"
  /\ fate' = [fate EXCEPT ![u] = "returned"]
  /\ some' = some \ {u}
  /\ UNCHANGED <<pvars, slot, rx, must, rpc>>

Unpark(u) ==
  /\ u \in must
  /\ Swap(u)
  /\ must' = must \ {u}
  /\ UNCHANGED <<slot, rx, fate, some, rpc>>

(* Unparker::drop runs before the drop of its field, the Sender. *)
DropSender(u) ==
  /\ u \notin must
  /\ DropUnparker(u)
  /\ some' = some \ {u}
  /\ UNCHANGED <<slot, rx, fate, must, rpc>>

WakeReceiver(u) == UnparkThread(u) /\ UNCHANGED cvars
-----------------------------------------------------------------------------
(* recv: is_empty, then park; the thread is in one recv at a time. *)
RecvFinding(c, empty) ==
  /\ rpc[c] = "new" /\ pc = "out"
  /\ \A d \in Chan : rpc[d] \in {"new", "done"}
  /\ rpc' = [rpc EXCEPT ![c] = IF empty THEN "empty" ELSE "ready"]
  /\ UNCHANGED <<pvars, slot, rx, fate, some, must>>
RecvNoPark(c) == RecvFinding(c, FALSE)  \* mutated: recv_now
RecvIsEmpty(c) == RecvFinding(c, slot[c] = << >>)

RecvPark(c) ==
  /\ rpc[c] = "empty"
  /\ Park(c)
  /\ rpc' = [rpc EXCEPT ![c] = "parking"]
  /\ UNCHANGED <<slot, rx, fate, some, must>>

RecvParks == ParkStep /\ UNCHANGED cvars

(* recv_now: the receiver leaves, and takes the value if there is one. *)
RecvLeaves(c) ==
  /\ rpc[c] \in {"ready", "parking"} /\ pc = "out"
  /\ rx[c] = "open"
  /\ rpc' = [rpc EXCEPT ![c] = "ready"]
  /\ rx' = [rx EXCEPT ![c] = "leaving"]
  /\ UNCHANGED <<pvars, slot, fate, some, must>>

RecvTakes(c) ==
  /\ rx[c] = "leaving"
  /\ rx' = [rx EXCEPT ![c] = "left"]
  /\ slot' = [slot EXCEPT ![c] = << >>]
  /\ fate' = [u \in Unparker |-> IF slot[c] = <<u>> THEN "received" ELSE fate[u]]
  /\ rpc' = [rpc EXCEPT ![c] = "done"]
  /\ UNCHANGED <<pvars, some, must>>

ReceiverStep ==
  \/ Awake /\ UNCHANGED cvars
  \/ \E c \in Chan : RecvPark(c) \/ RecvLeaves(c) \/ RecvTakes(c)

Next ==
  \/ \E u, v \in Unparker : CloneSender(u, v)
  \/ \E u \in Unparker : SendOk(u) \/ SendClosed(u) \/ Unpark(u) \/ DropSender(u)
                           \/ WakeReceiver(u)
  \/ \E c \in Chan : RecvIsEmpty(c)
  \/ RecvParks \/ ReceiverStep

Spec == Init /\ [][Next]_vars

(* Threads inside recv, send and drop are scheduled. *)
Scheduled ==
  /\ WF_vars(ReceiverStep)
  /\ \A u \in Unparker : WF_vars(Unpark(u)) /\ WF_vars(WakeReceiver(u))
FairSpec == Spec /\ Scheduled
-----------------------------------------------------------------------------
(* Every variable has its type, and an Unparker that is to unpark is live. *)
TypeOK ==
  /\ PTypeOK
  /\ slot \in [Chan -> {<< >>} \cup {<<u>> : u \in Unparker}]
  /\ rx \in [Chan -> {"open", "leaving", "left"}]
  /\ fate \in [Unparker -> {"kept", "returned", "transit", "received"}]
  /\ some \subseteq Unparker
  /\ must \subseteq {u \in Unparker : upc[u] = "live"}
  /\ rpc \in [Chan -> {"new", "empty", "parking", "ready", "done"}]

(* The Parker of a channel: its types and counts, no wake-up lost, park    *)
(* returns for a reason, and no pointer to a Thread that is gone           *)
(* (parker.rs).                                                            *)
ParkerSound ==
  TypeOK /\ NoLostWakeup /\ ParkHonest /\ PointerAlive /\ PointerCleared

(* "spurious failure in blocking recv" (channel/tests.rs:85, 98) does not  *)
(* happen: recv returns None only if nobody is left who could have sent,   *)
(* or if park returned early because of another Parker's token or of       *)
(* nothing, as recv does not look again (oneshot.rs:149).                  *)
RecvHonest ==
  \A c \in Chan :
    rpc[c] = "done" /\ (\A u \in Unparker : Of[u] = c => fate[u] # "received")
      => Users(c) = {} \/ c \in stray

(* recv returns when a value has been sent or all senders are dropped.     *)
RecvEnds ==
  \A c \in Chan :
    (rpc[c] # "new" /\ (slot[c] # << >> \/ Users(c) = {})) ~> rpc[c] = "done"
=============================================================================
