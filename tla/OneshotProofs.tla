--------------------------- MODULE OneshotProofs ----------------------------
(***************************************************************************)
(* For any set of senders, and whether or not the receiver's store may be  *)
(* seen late, Oneshot implements OneshotAbs.  The argument rests on what   *)
(* the states of the Once mean for the value, and on a sender that is      *)
(* inside its closure being the only one.                                  *)
(***************************************************************************)
EXTENDS Oneshot, TLAPS

Sent == {"transit", "received", "dropped"}

(* The variables the argument is about have their types. *)
Typed ==
  /\ recver \in BOOLEAN
  /\ lock \in {"new", "running", "done"}
  /\ spc \in [Sender -> {"none", "have", "once", "writing", "dropping", "last",
                        "free", "gone", "missed"}]
  /\ rpc \in {"have", "once", "take", "load", "free", "gone"}
  /\ how \in {"received", "dropped"}
  /\ fate \in [Sender -> {"kept", "returned", "transit", "received", "dropped"}]

(* What lock says about the value, the writer and the receiver. *)
LockMeans ==
  /\ lock # "done" => /\ rpc \in {"have", "once"}
                      /\ value = << >>
                      /\ \A s \in Sender : fate[s] \notin Sent
  /\ lock = "done" => (rpc \in {"have", "once", "take"} <=> value # << >>)
  /\ \A s \in Sender : spc[s] = "writing" => lock = "running"
  /\ \A s, t \in Sender : spc[s] = "writing" /\ spc[t] = "writing" => s = t

(* A sender that has not sent yet keeps its value, and a sender sees the   *)
(* receiver gone only after it has started to leave.                       *)
Announced ==
  /\ \A s \in Sender : spc[s] \in {"none", "have", "once", "writing"} =>
                         fate[s] = "kept"
  /\ ~recver => rpc # "have"
  /\ pending => rpc # "have"

IInv == Typed /\ LockMeans /\ Announced /\ OneValue

LEMMA EmptyIsNotOne == ASSUME NEW s PROVE << >> # <<s>>
OBVIOUS

LEMMA OneInjective == ASSUME NEW s, NEW t, <<s>> = <<t>> PROVE s = t
OBVIOUS

LEMMA InitIInv == Init => IInv
BY EmptyIsNotOne DEF Init, IInv, Typed, LockMeans, Announced, OneValue, Sent

(* Every step preserves IInv, one action at a time. *)
LEMMA NextIInv == IInv /\ [Next]_vars => IInv'
<1> SUFFICES ASSUME IInv, [Next]_vars PROVE IInv'
  OBVIOUS
<1> USE BufferedAssumption, EmptyIsNotOne DEF IInv, Sent, Goto, inner
<1>1. ASSUME NEW s \in Sender, NEW t \in Sender, Clone(s, t) PROVE IInv'
  BY <1>1 DEF Clone, Touch, Typed, LockMeans, Announced, OneValue
<1>2. ASSUME NEW s \in Sender, SendLoad(s) PROVE IInv'
  BY <1>2 DEF SendLoad, Touch, Typed, LockMeans, Announced, OneValue
<1>3. ASSUME NEW s \in Sender, OnceEnter(s) PROVE IInv'
  BY <1>3 DEF OnceEnter, OnceEnterIf, Touch, Typed, LockMeans, Announced, OneValue
<1>4. ASSUME NEW s \in Sender, OnceWrite(s) PROVE IInv'
  BY <1>4, OneInjective
     DEF OnceWrite, OnceWriteThen, Touch, Typed, LockMeans, Announced, OneValue
<1>5. ASSUME NEW s \in Sender, OnceSkip(s) PROVE IInv'
  BY <1>5 DEF OnceSkip, Touch, Typed, LockMeans, Announced, OneValue
<1>6. ASSUME NEW s \in Sender, DropUnused(s) PROVE IInv'
  BY <1>6 DEF DropUnused, Typed, LockMeans, Announced, OneValue
<1>7. ASSUME NEW s \in Sender, FetchSub(s) PROVE IInv'
  BY <1>7 DEF FetchSub, Touch, Typed, LockMeans, Announced, OneValue
<1>8. ASSUME NEW s \in Sender, LastLoad(s) \/ Free(s) PROVE IInv'
  <2>1. /\ spc[s] \in {"last", "free"}
        /\ \E l \in {"free", "gone", "missed"} : Goto(s, l)
        /\ UNCHANGED <<inner, rpc, how, pending, fate>>
    BY <1>8 DEF LastLoad, LastLoadFreeing, Free
  <2> QED
    BY <2>1 DEF Typed, LockMeans, Announced, OneValue
<1>9. ASSUME NEW p, TouchFreed(p) PROVE IInv'
  BY <1>9 DEF TouchFreed, Typed, LockMeans, Announced, OneValue
<1>10. CASE RecvStore \/ StoreDrains
  BY <1>10 DEF RecvStore, StoreDrains, Touch, Typed, LockMeans, Announced, OneValue
<1>11. CASE RecvCloses
  BY <1>11 DEF RecvCloses, Touch, Typed, LockMeans, Announced, OneValue
<1>12. CASE RecvFinds
  BY <1>12 DEF RecvFinds, RecvFindsIf, Touch, Typed, LockMeans, Announced, OneValue
<1>13. CASE RecvTake
  BY <1>13 DEF RecvTake, Touch, Typed, LockMeans, Announced, OneValue
<1>14. CASE RecvLoad \/ RecvFree
  BY <1>14 DEF RecvLoad, RecvFree, Touch, Typed, LockMeans, Announced, OneValue
<1>15. CASE UNCHANGED vars
  BY <1>15 DEF vars, Typed, LockMeans, Announced, OneValue
<1> QED
  BY <1>1, <1>2, <1>3, <1>4, <1>5, <1>6, <1>7, <1>8, <1>9, <1>10, <1>11, <1>12,
     <1>13, <1>14, <1>15 DEF Next, SenderStep, RecvStep

LEMMA Invariance == Spec => []IInv
BY InitIInv, NextIInv, PTL DEF Spec

(* For any number of senders at most one value is ever written, and Inner  *)
(* holds it exactly while it is in transit (oneshot.rs:161-175).           *)
THEOREM OnlyOneValue == Spec => []OneValue
<1>1. IInv => OneValue
  BY DEF IInv
<1> QED
  BY <1>1, Invariance, PTL

(* Whoever reads the value finds it initialised (oneshot.rs:71, 122, 136). *)
THEOREM ValueIsInitialised == Spec => []TakesWhatIsThere
<1>1. IInv => TakesWhatIsThere
  BY DEF IInv, Typed, LockMeans, TakesWhatIsThere
<1> QED
  BY <1>1, Invariance, PTL

(* After the receiver has left nothing is in transit, and no sender is     *)
(* about to write (oneshot.rs:26, 62-79).                                  *)
THEOREM NothingLeftBehind == Spec => []ReceiverCleansUp
<1>1. IInv => ReceiverCleansUp
  BY DEF IInv, Typed, LockMeans, ReceiverCleansUp
<1> QED
  BY <1>1, Invariance, PTL

(* The detailed channel implements the abstract one: a send takes effect   *)
(* when its closure has written the value, a refusal when the sender       *)
(* learns of it, and the receiver leaves when it has closed the Once or    *)
(* has taken the value (oneshot.rs, all of it).                            *)
THEOREM ImplementsOneshot == Spec => AbsSpec
<1> USE EmptyIsNotOne DEF IInv, Sent, Goto, inner
<1>1. Init => Abs!Init
  BY DEF Init, Abs!Init
<1>2. ASSUME IInv, [Next]_vars PROVE [Abs!Next]_(Abs!vars)
  <2> USE <1>2 DEF Abs!vars, Abs!Next
  <2>1. ASSUME NEW s \in Sender, NEW t \in Sender, Clone(s, t)
        PROVE UNCHANGED Abs!vars
    BY <2>1 DEF Clone
  <2>2. ASSUME NEW s \in Sender, SendLoad(s)
        PROVE Abs!Refuse(s) \/ UNCHANGED Abs!vars
    BY <2>2 DEF SendLoad, Abs!Refuse, Typed, Announced
  <2>3. ASSUME NEW s \in Sender, OnceEnter(s) PROVE UNCHANGED Abs!vars
    BY <2>3 DEF OnceEnter, OnceEnterIf
  <2>4. ASSUME NEW s \in Sender, OnceWrite(s) PROVE Abs!Accept(s)
    BY <2>4 DEF OnceWrite, OnceWriteThen, Abs!Accept, Typed, LockMeans, Announced
  <2>5. ASSUME NEW s \in Sender, OnceSkip(s) PROVE Abs!Refuse(s)
    BY <2>5 DEF OnceSkip, Abs!Refuse, Typed, LockMeans, Announced
  <2>6. ASSUME NEW s \in Sender,
               DropUnused(s) \/ FetchSub(s) \/ LastLoad(s) \/ Free(s)
        PROVE UNCHANGED Abs!vars
    BY <2>6 DEF DropUnused, FetchSub, LastLoad, LastLoadFreeing, Free
  <2>7. ASSUME NEW p, TouchFreed(p) PROVE UNCHANGED Abs!vars
    BY <2>7 DEF TouchFreed
  <2>8. CASE RecvStore
    <3>1. Abs!Leave
      BY <2>8 DEF RecvStore, Abs!Leave
    <3> QED
      BY <3>1
  <2>9. CASE StoreDrains \/ RecvFinds \/ RecvLoad \/ RecvFree
    <3>1. UNCHANGED Abs!vars
      BY <2>9 DEF StoreDrains, RecvFinds, RecvFindsIf, RecvLoad, RecvFree
    <3> QED
      BY <3>1
  <2>10. CASE RecvCloses
    <3>1. fate = [s \in Sender |-> IF value = <<s>> THEN how ELSE fate[s]]
      BY <2>10 DEF RecvCloses, Typed, LockMeans
    <3>2. Abs!Finish(how)
      BY <2>10, <3>1 DEF RecvCloses, Abs!Finish, LockMeans
    <3> QED
      BY <3>2 DEF Typed
  <2>11. CASE RecvTake
    <3>1. Abs!Finish(how)
      BY <2>11 DEF RecvTake, Abs!Finish
    <3> QED
      BY <3>1 DEF Typed
  <2>12. CASE UNCHANGED vars
    BY <2>12 DEF vars
  <2> QED
    BY <2>1, <2>2, <2>3, <2>4, <2>5, <2>6, <2>7, <2>8, <2>9, <2>10, <2>11, <2>12
       DEF Next, SenderStep, RecvStep
<1> QED
  BY <1>1, <1>2, Invariance, PTL DEF Spec, AbsSpec, Abs!Spec
=============================================================================
