---------------------------- MODULE QueueProofs -----------------------------
(***************************************************************************)
(* Proofs about the queue and its rate limit, for all rate limits, all     *)
(* messages and however long the clock runs.                               *)
(***************************************************************************)
EXTENDS QueueRate, SequenceTheorems, TLAPS

Msg == [n : Nat, label : OptLabel]

(* The Options that label messages.                                        *)
LEMMA OptLabelType ==
  /\ None \in OptLabel
  /\ \A l \in Label : Some(l) \in OptLabel
  /\ \A o \in OptLabel : o # None => o[1] \in Label
<1>1. None \in OptLabel
  BY DEF None, OptLabel
<1>2. \A l \in Label : Some(l) \in OptLabel
  BY DEF Some, OptLabel
<1>3. ASSUME NEW o \in OptLabel, o # None PROVE o[1] \in Label
  BY <1>3, EmptySeq, ElementOfSeq DEF None, OptLabel
<1> QED
  BY <1>1, <1>2, <1>3

(* Saturating and checked arithmetic stays within the naturals.            *)
LEMMA ArithType ==
  ASSUME NEW a \in Nat, NEW b \in Nat
  PROVE  /\ SatDuration(a) \in Nat /\ SatSub(a, b) \in Nat
         /\ AddOrNow(a, b) \in Nat /\ Larger(a, b) \in Nat
         /\ a * b \in Nat
BY QueueAssumption DEF SatDuration, Smaller, SatSub, AddOrNow, Larger

(* The initial queue is well typed.                                        *)
LEMMA InitType == Init => TypeOK
<1> SUFFICES ASSUME Init PROVE TypeOK
  OBVIOUS
<1>1. queue \in Seq(Msg) /\ guards \in Seq(Nat)
  BY DEF Init
<1>2. labeler \in OptLabel
  BY OptLabelType DEF Init
<1>3. /\ delay \in Nat /\ sub \in Nat /\ timepoint \in Nat /\ labelers \in Nat
      /\ adjuster \in BOOLEAN /\ pushed \in Nat /\ now \in Nat
      /\ panicked \in BOOLEAN
  BY DEF Init
<1> QED
  BY <1>1, <1>2, <1>3 DEF TypeOK, Msg

(* set_rate_limit, pop and reset keep the types.                           *)
LEMMA LimiterType ==
  ASSUME TypeOK
  PROVE  /\ \A d \in Delays, b \in Bursts : SetRateLimit(d, b) => TypeOK'
         /\ \A t \in now .. MaxTime : Pop(t) => TypeOK'
         /\ Reset => TypeOK'
<1>1. ASSUME NEW d \in Delays, NEW b \in Bursts, SetRateLimit(d, b)
      PROVE  TypeOK'
  <2>1. d \in Nat /\ b \in Nat
    BY QueueAssumption
  <2>2. d * b \in Nat
    BY <2>1, ArithType
  <2>3. SatDuration(d * b) \in Nat
    BY <2>2, ArithType
  <2>4. SatDuration(d * b) + d \in Nat
    BY <2>1, <2>3
  <2>5. SatDuration(SatDuration(d * b) + d) \in Nat
    BY <2>4, ArithType
  <2>6. AddOrNow(now, SatDuration(SatDuration(d * b) + d)) \in Nat
    BY <2>5, ArithType DEF TypeOK
  <2> QED
    BY <1>1, <2>1, <2>3, <2>6 DEF TypeOK, SetRateLimit, SetRateLimitTo
<1>2. ASSUME NEW t \in now .. MaxTime, Pop(t)
      PROVE  TypeOK'
  <2>1. t \in Nat
    BY QueueAssumption DEF TypeOK
  <2>2. Larger(timepoint, t) \in Nat /\ Larger(timepoint, t) + delay \in Nat
    BY <2>1 DEF TypeOK, Larger
  <2>3. queue' \in Seq(Msg)
    BY <1>2, HeadTailProperties DEF Pop, PopFrom, TypeOK, Msg
  <2>4. timepoint' \in Nat /\ panicked' \in BOOLEAN /\ now' \in Nat
    BY <1>2, <2>1, <2>2 DEF Pop, PopFrom, TypeOK
  <2>5. UNCHANGED <<delay, sub, labeler, labelers, adjuster, guards, pushed>>
    BY <1>2 DEF Pop, PopFrom
  <2> QED
    BY <2>3, <2>4, <2>5 DEF TypeOK, Msg
<1>3. ASSUME Reset PROVE TypeOK'
  <2>1. queue' \in Seq(Msg) /\ labeler' \in OptLabel
    BY <1>3, OptLabelType DEF Reset
  <2>2. timepoint' = now
        /\ UNCHANGED <<delay, sub, labelers, adjuster, guards, pushed, now, panicked>>
    BY <1>3 DEF Reset
  <2> QED
    BY <2>1, <2>2 DEF TypeOK, Msg
<1> QED
  BY <1>1, <1>2, <1>3

(* Pushing a message keeps the types.                                      *)
LEMMA EnqueueType ==
  ASSUME TypeOK, NEW l \in OptLabel, Enqueue(l), labeler' \in OptLabel
  PROVE  TypeOK'
<1>1. [n |-> pushed + 1, label |-> l] \in Msg
  BY DEF Msg, TypeOK
<1>2. queue' \in Seq(Msg)
  BY <1>1, AppendProperties DEF Enqueue, TypeOK, Msg
<1>3. pushed' \in Nat
  BY DEF Enqueue, TypeOK
<1>4. UNCHANGED <<delay, sub, timepoint, labelers, adjuster, guards, now, panicked>>
  BY DEF Enqueue
<1> QED
  BY <1>2, <1>3, <1>4 DEF TypeOK, Msg

(* The next label of a labeler.                                            *)
LEMMA NextLabelType ==
  ASSUME TypeOK, labeler # None
  PROVE  Some([labeler[1] EXCEPT !.id = (@ + 1) % LabelModulus]) \in OptLabel
<1>1. labeler[1] \in Label
  BY OptLabelType DEF TypeOK
<1>2. (labeler[1].id + 1) % LabelModulus \in Nat
  BY <1>1, QueueAssumption DEF Label
<1>3. [labeler[1] EXCEPT !.id = (@ + 1) % LabelModulus] \in Label
  BY <1>1, <1>2 DEF Label
<1> QED
  BY <1>3, OptLabelType

(* adjust leaves a queue that selects from the old one.                    *)
LEMMA AdjustQueue ==
  ASSUME TypeOK, Adjust
  PROVE  /\ queue' \in Seq(Msg)
         /\ \E m \in 0 .. Len(queue) : \E f \in Selections(m, Len(queue)) :
              Len(queue') = m /\ \A k \in 1 .. m : queue'[k] = queue[f[k]]
<1>1. PICK m \in 0 .. Len(queue) : \E f \in Selections(m, Len(queue)) :
        queue' = [k \in 1 .. m |-> queue[f[k]]]
  BY DEF Adjust
<1>2. PICK f \in Selections(m, Len(queue)) :
        queue' = [k \in 1 .. m |-> queue[f[k]]]
  BY <1>1
<1>3. m \in Nat /\ \A k \in 1 .. m : f[k] \in 1 .. Len(queue)
  BY DEF Selections
<1>4. \A k \in 1 .. m : queue[f[k]] \in Msg
  BY <1>3, ElementOfSeq DEF TypeOK, Msg
<1>5. queue' \in [1 .. m -> Msg]
  BY <1>2, <1>4
<1>6. queue' \in Seq(Msg) /\ Len(queue') = m
  BY <1>3, <1>5
<1> QED
  BY <1>2, <1>6

(* The innermost guard's clear leaves what is older than the guard.        *)
LEMMA ClearQueue ==
  ASSUME TypeOK, GuardsNested, GuardClear
  PROVE  /\ queue' \in Seq(Msg)
         /\ Len(guards) \in Nat \ {0}
         /\ Len(queue') = guards[Len(guards)]
         /\ guards[Len(guards)] <= Len(queue)
         /\ \A j \in 1 .. guards[Len(guards)] : queue'[j] = queue[j]
<1> DEFINE n == guards[Len(guards)]
<1>1. Len(guards) \in Nat \ {0} /\ DOMAIN guards = 1 .. Len(guards)
  BY EmptySeq, LenProperties DEF GuardClear, GuardClearTo, TypeOK
<1>2. n \in Nat /\ Len(queue) \in Nat /\ queue \in Seq(Msg)
  BY <1>1, ElementOfSeq, LenProperties DEF TypeOK, Msg
<1>3. n <= Len(queue)
  BY <1>1, <1>2 DEF GuardsNested, GuardLen
<1>4. queue' = SubSeq(queue, 1, n)
  BY DEF GuardClear, GuardClearTo, Innermost
<1> HIDE DEF n
<1>5. queue' \in Seq(Msg) /\ Len(queue') = n
  BY <1>2, <1>3, <1>4
<1>6. ASSUME NEW j \in 1 .. n PROVE queue'[j] = queue[j]
  BY <1>2, <1>3, <1>4
<1> QED
  BY <1>1, <1>3, <1>5, <1>6 DEF n

(* The other operations keep the types.  `truncate` needs orig_len to be   *)
(* within the queue, which is GuardsNested.                                *)
LEMMA PassiveType == TypeOK /\ GuardsNested /\ Passive => TypeOK'
<1> SUFFICES ASSUME TypeOK, GuardsNested, Passive PROVE TypeOK'
  OBVIOUS
<1>1. CASE PopRefused
  <2>1. queue' \in Seq(Msg)
    <3>1. Head(queue) \in Msg /\ Tail(queue) \in Seq(Msg)
      BY <1>1, HeadTailProperties DEF PopRefused, TypeOK, Msg
    <3>2. <<Head(queue)>> \in Seq(Msg)
      BY <3>1
    <3> QED
      BY <1>1, <3>1, <3>2, ConcatProperties DEF PopRefused, PutBack
  <2>2. UNCHANGED <<delay, sub, timepoint, labeler, labelers, adjuster, guards,
                    pushed, now, panicked>>
    BY <1>1 DEF PopRefused
  <2> QED
    BY <2>1, <2>2 DEF TypeOK, Msg
<1>2. ASSUME NEW t \in now .. MaxTime, Tick(t) PROVE TypeOK'
  <2>1. t \in Nat
    BY QueueAssumption DEF TypeOK
  <2> QED
    BY <1>2, <2>1 DEF Tick, TypeOK
<1>3. CASE Adjust
  <2>1. queue' \in Seq(Msg)
    BY <1>3, AdjustQueue
  <2>2. UNCHANGED <<delay, sub, timepoint, labeler, labelers, adjuster, guards,
                    pushed, now, panicked>>
    BY <1>3 DEF Adjust
  <2> QED
    BY <2>1, <2>2 DEF TypeOK, Msg
<1>4. ASSUME NEW on \in Adjusting, UseAdjuster(on) PROVE TypeOK'
  <2>1. on \in BOOLEAN
    BY QueueAssumption
  <2> QED
    BY <1>4, <2>1 DEF UseAdjuster, TypeOK
<1>5. CASE UseLabeler
  <2>1. [gen |-> labelers + 1, id |-> 0] \in Label
    BY DEF TypeOK, Label
  <2>2. labeler' \in OptLabel /\ labelers' \in Nat
    BY <1>5, <2>1, OptLabelType DEF UseLabeler, TypeOK
  <2> QED
    BY <1>5, <2>2 DEF UseLabeler, TypeOK
<1>6. CASE UseNoLabeler
  BY <1>6, OptLabelType DEF UseNoLabeler, TypeOK
<1>7. CASE Clear
  <2>1. queue' \in Seq(Msg)
    BY <1>7 DEF Clear
  <2> QED
    BY <1>7, <2>1 DEF Clear, TypeOK, Msg
<1>8. CASE Edit
  <2>1. guards' \in Seq(Nat)
    BY <1>8, AppendProperties, LenProperties DEF Edit, TypeOK
  <2> QED
    BY <1>8, <2>1 DEF Edit, TypeOK
<1>9. CASE DropGuard
  <2> DEFINE n == Len(guards) - 1
  <2>1. n \in Nat /\ n <= Len(guards)
    BY <1>9, EmptySeq DEF DropGuard, TypeOK
  <2> HIDE DEF n
  <2>2. SubSeq(guards, 1, n) \in Seq(Nat)
    BY <2>1 DEF TypeOK
  <2>3. guards' \in Seq(Nat)
    BY <1>9, <2>2 DEF DropGuard, n
  <2> QED
    BY <1>9, <2>3 DEF DropGuard, TypeOK
<1>10. CASE Push
  BY <1>10, EnqueueType, OptLabelType DEF Push, TypeOK
<1>11. CASE PushLabeled
  <2>1. PICK l \in OptLabel : labeler' = l /\ Enqueue(l)
    <3>1. CASE labeler = None
      BY <1>11, <3>1, OptLabelType DEF PushLabeled
    <3>2. CASE labeler # None
      BY <1>11, <3>2, NextLabelType DEF PushLabeled
    <3> QED
      BY <3>1, <3>2
  <2> QED
    BY <2>1, EnqueueType
<1>12. CASE Extend
  BY <1>12, EnqueueType, OptLabelType DEF Extend, TypeOK
<1>13. CASE GuardClear
  <2>1. queue' \in Seq(Msg)
    BY <1>13, ClearQueue
  <2> QED
    BY <1>13, <2>1 DEF GuardClear, GuardClearTo, TypeOK, Msg
<1> QED
  BY <1>1, <1>2, <1>3, <1>4, <1>5, <1>6, <1>7, <1>8, <1>9, <1>10, <1>11, <1>12,
     <1>13 DEF Passive
-----------------------------------------------------------------------------
(* A queue that nobody edits has no guards to disturb.                     *)
LEMMA FreeNested == Free /\ UNCHANGED guards => GuardsNested'
<1> SUFFICES ASSUME guards' = << >> PROVE GuardsNested'
  BY DEF Free
<1> QED
  BY DEF GuardsNested

(* Every operation keeps the guards nested.                                *)
LEMMA NextNested == TypeOK /\ GuardsNested /\ [Next]_vars => GuardsNested'
<1> SUFFICES ASSUME TypeOK, GuardsNested, [Next]_vars PROVE GuardsNested'
  OBVIOUS
<1>0. /\ Len(queue) \in Nat /\ Len(guards) \in Nat
      /\ DOMAIN guards = 1 .. Len(guards)
      /\ \A k \in 1 .. Len(guards) : guards[k] \in Nat /\ guards[k] <= Len(queue)
      /\ \A j, k \in 1 .. Len(guards) : j <= k => guards[j] <= guards[k]
  <2>1. /\ Len(queue) \in Nat /\ Len(guards) \in Nat
        /\ DOMAIN guards = 1 .. Len(guards)
        /\ \A k \in 1 .. Len(guards) : guards[k] \in Nat
    BY LenProperties, ElementOfSeq DEF TypeOK
  <2>2. ASSUME NEW k \in 1 .. Len(guards) PROVE guards[k] <= Len(queue)
    <3>1. Len(queue) - guards[k] >= 0
      BY <2>1 DEF GuardsNested, GuardLen
    <3> QED
      BY <2>1, <3>1
  <2>3. \A j, k \in 1 .. Len(guards) : j <= k => guards[j] <= guards[k]
    BY <2>1 DEF GuardsNested
  <2> QED
    BY <2>1, <2>2, <2>3
<1>1. ASSUME Free, UNCHANGED guards PROVE GuardsNested'
  BY <1>1, FreeNested
<1>2. ASSUME UNCHANGED guards, Len(queue') \in Nat, Len(queue') >= Len(queue)
      PROVE  GuardsNested'
  BY <1>0, <1>2 DEF GuardsNested, GuardLen
<1>3. ASSUME NEW l, Enqueue(l) PROVE GuardsNested'
  <2>1. queue' = Append(queue, [n |-> pushed + 1, label |-> l])
        /\ UNCHANGED guards
    BY <1>3 DEF Enqueue
  <2>2. Len(queue') = Len(queue) + 1
    BY <2>1 DEF TypeOK
  <2> QED
    BY <1>0, <1>2, <2>1, <2>2
<1>4. CASE Edit
  <2>1. guards' = Append(guards, Len(queue)) /\ UNCHANGED queue
    BY <1>4 DEF Edit
  <2>2. /\ DOMAIN guards' = 1 .. Len(guards) + 1
        /\ \A k \in 1 .. Len(guards) : guards'[k] = guards[k]
        /\ guards'[Len(guards) + 1] = Len(queue)
    BY <1>0, <2>1, AppendProperties, LenProperties DEF TypeOK
  <2> QED
    BY <1>0, <2>1, <2>2 DEF GuardsNested, GuardLen
<1>5. CASE DropGuard
  <2> DEFINE n == Len(guards) - 1
  <2>1. n \in Nat /\ n <= Len(guards) /\ guards \in Seq(Nat)
    BY <1>5, EmptySeq DEF DropGuard, TypeOK
  <2>2. guards' = SubSeq(guards, 1, n) /\ UNCHANGED queue
    BY <1>5 DEF DropGuard
  <2> HIDE DEF n
  <2>3. guards' \in Seq(Nat) /\ Len(guards') = n
    BY <2>1, <2>2
  <2>4. ASSUME NEW k \in 1 .. n PROVE guards'[k] = guards[k]
    BY <2>1, <2>2
  <2>5. DOMAIN guards' = 1 .. n
    BY <2>3, LenProperties
  <2>6. \A k \in DOMAIN guards' : GuardLen(k)' >= 0
    BY <1>0, <2>1, <2>2, <2>4, <2>5 DEF GuardLen
  <2>7. \A j, k \in DOMAIN guards' : j <= k => guards'[j] <= guards'[k]
    BY <1>0, <2>1, <2>4, <2>5
  <2> QED
    BY <2>6, <2>7 DEF GuardsNested
<1>6. CASE GuardClear
  <2>1. UNCHANGED guards
    BY <1>6 DEF GuardClear, GuardClearTo
  <2>2. /\ Len(guards) \in Nat \ {0} /\ Len(queue') = guards[Len(guards)]
    BY <1>6, ClearQueue
  <2> QED
    BY <1>0, <2>1, <2>2 DEF GuardsNested, GuardLen
<1>7. (\E t \in now .. MaxTime : Tick(t)) => UNCHANGED <<queue, guards>>
  BY DEF Tick
<1>8. UNCHANGED vars => UNCHANGED <<queue, guards>>
  BY DEF vars
<1>9. (\/ \E d \in Delays, b \in Bursts : SetRateLimit(d, b)
       \/ \E t \in now .. MaxTime : Pop(t)
       \/ Reset \/ PopRefused \/ Adjust \/ UseLabeler \/ UseNoLabeler \/ Clear
       \/ \E on \in Adjusting : UseAdjuster(on))
        => Free /\ UNCHANGED guards
  BY DEF SetRateLimit, SetRateLimitTo, Pop, PopFrom, Reset, PopRefused,
         Adjust, UseLabeler, UseNoLabeler, Clear, UseAdjuster
<1>10. Push \/ PushLabeled \/ Extend => \E l : Enqueue(l)
  BY DEF Push, PushLabeled, Extend
<1>11. CASE UNCHANGED <<queue, guards>>
  BY <1>0, <1>2, <1>11
<1> QED
  BY <1>1, <1>3, <1>4, <1>5, <1>6, <1>7, <1>8, <1>9, <1>10, <1>11
  DEF Next, Passive

(* The queue is always well typed (queue.rs:17-25).                        *)
THEOREM TypeCorrect == Spec => []TypeOK
<1>1. Init => TypeOK /\ GuardsNested
  BY InitType DEF Init, GuardsNested
<1>2. TypeOK /\ GuardsNested /\ [Next]_vars => TypeOK' /\ GuardsNested'
  <2> SUFFICES ASSUME TypeOK, GuardsNested, [Next]_vars PROVE TypeOK'
    BY NextNested
  <2>1. CASE UNCHANGED vars
    BY <2>1 DEF TypeOK, vars
  <2> QED
    BY <2>1, LimiterType, PassiveType DEF Next
<1> QED
  BY <1>1, <1>2, PTL DEF Spec

(* A guard never sees the queue shrink below the length it remembers, so   *)
(* QueueEditGuard::len (queue.rs:238-240) does not underflow.              *)
THEOREM GuardLenNeverUnderflows == Spec => []GuardsNested
<1>1. Init => GuardsNested
  BY DEF Init, GuardsNested
<1>2. TypeOK /\ GuardsNested /\ [Next]_vars => GuardsNested'
  BY NextNested
<1> QED
  BY <1>1, <1>2, TypeCorrect, PTL DEF Spec

(* While a guard is open, no step disturbs what was queued before it       *)
(* (queue.rs:243-246).                                                     *)
THEOREM GuardsKeepOlder == Spec => GuardKeepsOlder
<1> DEFINE Keeps == \A k \in DOMAIN guards, j \in DOMAIN queue :
                      j <= guards[k] => j \in DOMAIN queue' /\ queue'[j] = queue[j]
<1>1. TypeOK /\ GuardsNested /\ [Next]_vars => [Keeps]_vars
  <2> SUFFICES ASSUME TypeOK, GuardsNested, Next PROVE Keeps
    OBVIOUS
  <2>1. CASE guards = << >>
    BY <2>1
  <2>2. CASE UNCHANGED queue
    BY <2>2
  <2>3. ASSUME NEW l, Enqueue(l) PROVE Keeps
    <3>1. queue' = Append(queue, [n |-> pushed + 1, label |-> l])
      BY <2>3 DEF Enqueue
    <3>2. /\ DOMAIN queue = 1 .. Len(queue) /\ DOMAIN queue' = 1 .. Len(queue) + 1
          /\ Len(queue) \in Nat
          /\ \A j \in 1 .. Len(queue) : queue'[j] = queue[j]
      BY <3>1 DEF TypeOK
    <3> QED
      BY <3>2
  <2>4. CASE GuardClear
    <3> DEFINE n == guards[Len(guards)]
    <3>1. /\ queue' \in Seq(Msg) /\ Len(guards) \in Nat \ {0} /\ Len(queue') = n
          /\ \A j \in 1 .. n : queue'[j] = queue[j]
      BY <2>4, ClearQueue
    <3>2. /\ DOMAIN queue' = 1 .. n /\ DOMAIN queue = 1 .. Len(queue)
          /\ DOMAIN guards = 1 .. Len(guards) /\ Len(queue) \in Nat
      BY <3>1, LenProperties DEF TypeOK
    <3>3. \A k \in DOMAIN guards : guards[k] \in Nat /\ guards[k] <= n /\ n \in Nat
      <4>1. \A k \in 1 .. Len(guards) : guards[k] \in Nat
        BY ElementOfSeq DEF TypeOK
      <4>2. \A k \in 1 .. Len(guards) : guards[k] <= n
        BY <3>1, <3>2 DEF GuardsNested
      <4> QED
        BY <3>1, <3>2, <4>1, <4>2
    <3> HIDE DEF n
    <3> QED
      BY <3>1, <3>2, <3>3
  <2>5. (\/ \E d \in Delays, b \in Bursts : SetRateLimit(d, b)
         \/ \E t \in now .. MaxTime : Pop(t)
         \/ Reset \/ PopRefused \/ Adjust \/ UseLabeler \/ UseNoLabeler \/ Clear
         \/ \E on \in Adjusting : UseAdjuster(on))
          => guards = << >>
    BY DEF SetRateLimit, SetRateLimitTo, Pop, PopFrom, Reset, PopRefused,
           Adjust, UseLabeler, UseNoLabeler, Clear, UseAdjuster, Free
  <2>6. Edit \/ DropGuard \/ (\E t \in now .. MaxTime : Tick(t)) => UNCHANGED queue
    BY DEF Edit, DropGuard, Tick
  <2>7. Push \/ PushLabeled \/ Extend => \E l : Enqueue(l)
    BY DEF Push, PushLabeled, Extend
  <2> QED
    BY <2>1, <2>2, <2>3, <2>4, <2>5, <2>6, <2>7 DEF Next, Passive
<1> QED
  BY <1>1, TypeCorrect, GuardLenNeverUnderflows, PTL DEF Spec, GuardKeepsOlder
-----------------------------------------------------------------------------
(* The history does not constrain the queue.                               *)
LEMMA RateImplements == RSpec => Spec
<1>1. RInit => Init
  BY DEF RInit
<1>2. [RNext]_rvars => [Next]_vars
  BY DEF RNext, Next, RSetRateLimit, RPop, RReset, RPassive, rvars
<1> QED
  BY <1>1, <1>2, PTL DEF RSpec, Spec

(* The types of the queue and of its history.                              *)
LEMMA RateTypeCorrect == RSpec => []RTypeOK
<1>1. RInit => RTypeOK
  <2> SUFFICES ASSUME RInit PROVE RTypeOK
    OBVIOUS
  <2>1. TypeOK /\ since \in Nat
    BY InitType DEF RInit, TypeOK
  <2>2. sent \in Seq([n : Nat, at : Nat]) /\ last \in Nat
    BY DEF RInit
  <2>3. origin \in {"fresh", "set"}
    BY DEF RInit
  <2> QED
    BY <2>1, <2>2, <2>3 DEF RTypeOK
<1>2. RTypeOK /\ TypeOK' /\ [RNext]_rvars => RTypeOK'
  <2> SUFFICES ASSUME RTypeOK, TypeOK', [RNext]_rvars PROVE RTypeOK'
    OBVIOUS
  <2>1. ASSUME NEW o \in {"fresh", "set"}, NewPeriod(o) PROVE RTypeOK'
    <3>1. sent' \in Seq([n : Nat, at : Nat])
      BY <2>1 DEF NewPeriod
    <3> QED
      BY <2>1, <3>1 DEF RTypeOK, TypeOK, NewPeriod
  <2>2. ASSUME NEW t \in now .. MaxTime, RPop(t) PROVE RTypeOK'
    <3>1. t \in Nat
      BY QueueAssumption DEF RTypeOK, TypeOK
    <3>2. Head(queue) \in Msg
      BY <2>2, HeadTailProperties DEF RPop, Pop, PopFrom, RTypeOK, TypeOK, Msg
    <3>3. [n |-> Head(queue).n, at |-> t] \in [n : Nat, at : Nat]
          /\ Head(queue).n \in Nat
      BY <3>1, <3>2 DEF Msg
    <3>4. Append(sent, [n |-> Head(queue).n, at |-> t]) \in Seq([n : Nat, at : Nat])
      BY <3>3, AppendProperties DEF RTypeOK
    <3>5. sent' \in Seq([n : Nat, at : Nat])
      BY <2>2, <3>4 DEF RPop, RTypeOK
    <3> QED
      BY <2>2, <3>3, <3>5 DEF RPop, RTypeOK
  <2>3. CASE UNCHANGED hist
    BY <2>3 DEF hist, RTypeOK
  <2>4. RPassive \/ UNCHANGED rvars => UNCHANGED hist
    BY DEF RPassive, rvars
  <2> QED
    BY <2>1, <2>2, <2>3, <2>4 DEF RNext, RSetRateLimit, RReset
<1> QED
  BY <1>1, <1>2, RateImplements, TypeCorrect, PTL DEF RSpec
-----------------------------------------------------------------------------
(* Every message popped has moved `timepoint` one delay further: it is     *)
(* ahead of each message of the period by the messages since, and in a     *)
(* period without credit to make up, by no more than all of them.          *)
Ahead ==
  \A k \in DOMAIN sent :
    /\ sent[k].at <= now
    /\ timepoint >= sent[k].at + delay * (Len(sent) - k + 1)
NotFurther == origin = "fresh" => timepoint <= now + delay * Len(sent)

(* One more of a delay.                                                    *)
LEMMA OneMore ==
  ASSUME NEW d \in Nat, NEW a \in Int PROVE d * (a + 1) = d * a + d
OBVIOUS

(* The wait is over iff `timepoint` is at most `sub` ahead.                *)
LEMMA WaitOver ==
  ASSUME TypeOK, NEW t \in Nat
  PROVE  WaitAt(t) = 0 <=> timepoint <= t + sub
BY DEF WaitAt, SatSub, TypeOK

(* What a pop does to `timepoint` and to the history.                      *)
LEMMA PopEffect ==
  ASSUME RTypeOK, NEW t \in now .. MaxTime, RPop(t)
  PROVE  /\ t \in Nat /\ now' = t /\ now <= t /\ timepoint <= now + sub
         /\ UNCHANGED <<delay, sub, origin>>
         /\ \/ panicked' /\ UNCHANGED <<sent, timepoint>>
            \/ /\ timepoint' \in Nat
               /\ timepoint' >= timepoint + delay /\ timepoint' >= t + delay
               /\ timepoint' = timepoint + delay \/ timepoint' = t + delay
               /\ Len(sent') = Len(sent) + 1
               /\ \A k \in 1 .. Len(sent) : sent'[k] = sent[k]
               /\ sent'[Len(sent) + 1].at = t
<1>0. TypeOK /\ sent \in Seq([n : Nat, at : Nat])
  BY DEF RTypeOK
<1>1. t \in Nat /\ now \in Nat /\ now <= t
  BY <1>0, QueueAssumption DEF TypeOK
<1>2. WaitAt(now) = 0 /\ now' = t /\ UNCHANGED <<delay, sub, origin>>
  BY DEF RPop, Pop, PopFrom
<1>3. timepoint <= now + sub
  BY <1>0, <1>1, <1>2, WaitOver
<1>4. CASE panicked'
  BY <1>1, <1>2, <1>3, <1>4 DEF RPop, Pop, PopFrom
<1>5. CASE ~panicked'
  <2>1. /\ timepoint' = Larger(timepoint, t) + delay
        /\ sent' = Append(sent, [n |-> Head(queue).n, at |-> t])
    BY <1>5 DEF RPop, Pop, PopFrom
  <2>2. /\ timepoint' \in Nat
        /\ timepoint' >= timepoint + delay /\ timepoint' >= t + delay
        /\ timepoint' = timepoint + delay \/ timepoint' = t + delay
    BY <1>0, <1>1, <2>1 DEF Larger, TypeOK
  <2>3. /\ Len(sent') = Len(sent) + 1
        /\ \A k \in 1 .. Len(sent) : sent'[k] = sent[k]
        /\ sent'[Len(sent) + 1].at = t
    BY <1>0, <2>1
  <2> QED
    BY <1>1, <1>2, <1>3, <2>2, <2>3
<1> QED
  BY <1>4, <1>5

(* What the other operations leave alone.                                  *)
LEMMA PassiveEffect ==
  ASSUME now \in Nat, RPassive
  PROVE  UNCHANGED <<delay, sub, timepoint, hist>> /\ now' >= now
BY DEF RPassive, Passive, PopRefused, Tick, Adjust, UseAdjuster, UseLabeler,
   UseNoLabeler, Clear, Edit, DropGuard, Push, PushLabeled,
   Extend, Enqueue, GuardClear, GuardClearTo

(* Every step keeps these facts, and the rate limit follows from them.     *)
LEMMA RateStep ==
  RTypeOK /\ RTypeOK' /\ Ahead /\ NotFurther /\ RateLimited /\ [RNext]_rvars =>
    Ahead' /\ NotFurther' /\ RateLimited'
<1> SUFFICES ASSUME RTypeOK, RTypeOK', Ahead, NotFurther, RateLimited,
                    [RNext]_rvars
             PROVE  Ahead' /\ NotFurther' /\ RateLimited'
  OBVIOUS
<1> DEFINE m == Len(sent)
<1>0. /\ delay \in Nat /\ sub \in Nat /\ timepoint \in Nat /\ now \in Nat
      /\ m \in Nat /\ DOMAIN sent = 1 .. m
      /\ \A k \in 1 .. m : sent[k].at \in Nat
      /\ DOMAIN sent' = 1 .. Len(sent')
  <2>1. sent \in Seq([n : Nat, at : Nat]) /\ sent' \in Seq([n : Nat, at : Nat])
    BY DEF RTypeOK
  <2>2. /\ m \in Nat /\ DOMAIN sent = 1 .. m
        /\ DOMAIN sent' = 1 .. Len(sent')
    BY <2>1, LenProperties
  <2>3. \A k \in 1 .. m : sent[k] \in [n : Nat, at : Nat]
    BY <2>1, ElementOfSeq
  <2>4. delay \in Nat /\ sub \in Nat /\ timepoint \in Nat /\ now \in Nat
    BY DEF RTypeOK, TypeOK
  <2> QED
    BY <2>2, <2>3, <2>4
<1>1. ASSUME NEW o, NewPeriod(o), o = "fresh" => timepoint' = now' /\ now' \in Nat
                                                /\ delay' \in Nat
      PROVE  Ahead' /\ NotFurther' /\ RateLimited'
  <2>1. sent' = << >> /\ origin' = o
    BY <1>1 DEF NewPeriod
  <2>2. Ahead' /\ RateLimited'
    BY <2>1 DEF Ahead, RateLimited
  <2>3. NotFurther'
    BY <1>1, <2>1 DEF NotFurther
  <2> QED
    BY <2>2, <2>3
<1>2. ASSUME NEW d \in Delays, NEW b \in Bursts, RSetRateLimit(d, b)
      PROVE  Ahead' /\ NotFurther' /\ RateLimited'
  BY <1>1, <1>2 DEF RSetRateLimit
<1>3. CASE RReset
  BY <1>0, <1>1, <1>3 DEF RReset, Reset
<1>4. ASSUME NEW t \in now .. MaxTime, RPop(t),
             panicked', UNCHANGED <<sent, timepoint>>
      PROVE  Ahead' /\ NotFurther' /\ RateLimited'
  <2>1. t \in Nat /\ now' = t /\ now <= t /\ UNCHANGED <<delay, sub, origin>>
    BY <1>4, PopEffect
  <2>2. delay * m \in Nat
    BY <1>0
  <2>3. Ahead'
    BY <1>0, <1>4, <2>1 DEF Ahead
  <2>4. NotFurther'
    BY <1>0, <1>4, <2>1, <2>2 DEF NotFurther
  <2>5. RateLimited'
    BY <1>4, <2>1 DEF RateLimited
  <2> QED
    BY <2>3, <2>4, <2>5
<1>5. ASSUME NEW t \in now .. MaxTime, RPop(t),
             ~(panicked' /\ UNCHANGED <<sent, timepoint>>)
      PROVE  Ahead' /\ NotFurther' /\ RateLimited'
  <2>1. /\ t \in Nat /\ now' = t /\ now <= t /\ timepoint <= now + sub
        /\ UNCHANGED <<delay, sub, origin>>
        /\ timepoint' \in Nat
        /\ timepoint' >= timepoint + delay /\ timepoint' >= t + delay
        /\ timepoint' = timepoint + delay \/ timepoint' = t + delay
        /\ Len(sent') = m + 1
        /\ \A k \in 1 .. m : sent'[k] = sent[k]
        /\ sent'[m + 1].at = t
    BY <1>5, PopEffect
  <2> HIDE DEF m
  <2>2. \A k \in 1 .. m : /\ sent[k].at <= now
                          /\ timepoint >= sent[k].at + delay * (m - k + 1)
                          /\ delay * (m - k + 1) \in Nat
    BY <1>0 DEF Ahead, m
  <2>3. DOMAIN sent' = 1 .. m + 1
    BY <1>0, <2>1
  <2>4. Ahead'
    <3>1. ASSUME NEW k \in 1 .. m
          PROVE  sent'[k].at <= now' /\ timepoint' >= sent'[k].at + delay * (m + 1 - k + 1)
      <4> DEFINE lag == delay * (m - k + 1)
      <4>1. delay * (m + 1 - k + 1) = lag + delay
        <5>1. m + 1 - k + 1 = (m - k + 1) + 1 /\ m - k + 1 \in Int
          BY <1>0
        <5> QED
          BY <1>0, <5>1, OneMore
      <4>2. sent[k].at <= now /\ timepoint >= sent[k].at + lag /\ lag \in Nat
        BY <2>2
      <4>3. sent'[k] = sent[k] /\ sent[k].at \in Nat
        BY <1>0, <2>1
      <4> HIDE DEF lag
      <4>4. timepoint' >= sent[k].at + (lag + delay)
        BY <1>0, <2>1, <4>2, <4>3
      <4>5. sent[k].at <= t
        BY <1>0, <2>1, <4>2, <4>3
      <4> QED
        BY <2>1, <4>1, <4>3, <4>4, <4>5
    <3>2. sent'[m + 1].at <= now' /\ timepoint' >= sent'[m + 1].at + delay * (m + 1 - (m + 1) + 1)
      BY <1>0, <2>1
    <3> SUFFICES ASSUME NEW k \in DOMAIN sent'
                 PROVE  /\ sent'[k].at <= now'
                        /\ timepoint' >= sent'[k].at + delay' * (Len(sent') - k + 1)
      BY DEF Ahead
    <3>3. delay' = delay /\ Len(sent') = m + 1
      BY <2>1
    <3>4. k \in 1 .. m \/ k = m + 1
      BY <1>0, <2>3
    <3> DEFINE lead == delay * (m + 1 - k + 1)
    <3>5. delay' * (Len(sent') - k + 1) = lead
      BY <1>0, <2>3, <3>3
    <3>6. sent'[k].at <= now' /\ timepoint' >= sent'[k].at + lead
      BY <3>1, <3>2, <3>4
    <3> HIDE DEF lead
    <3> QED
      BY <3>5, <3>6
  <2>5. NotFurther'
    <3> SUFFICES ASSUME origin = "fresh"
                 PROVE  timepoint' <= now' + delay * (m + 1)
      BY <2>1 DEF NotFurther
    <3>1. timepoint <= now + delay * m /\ delay * m \in Nat
      BY <1>0 DEF NotFurther, m
    <3>2. delay * (m + 1) = delay * m + delay
      BY <1>0, OneMore
    <3> QED
      BY <1>0, <2>1, <3>1, <3>2
  <2>6. RateLimited'
    <3>1. ASSUME NEW j \in 1 .. m, NEW k \in 1 .. m, j < k
          PROVE  delay * (k - j) <= sub + sent[k].at - sent[j].at
      BY <1>0, <3>1 DEF RateLimited
    <3>2. ASSUME NEW j \in 1 .. m
          PROVE  delay * (m + 1 - j) <= sub + t - sent[j].at
      <4>1. m + 1 - j = m - j + 1
        BY <1>0
      <4> QED
        BY <1>0, <2>1, <2>2, <4>1
    <3> SUFFICES ASSUME NEW j \in 1 .. m + 1, NEW k \in 1 .. m + 1, j < k
                 PROVE  delay * (k - j) <= sub + sent'[k].at - sent'[j].at
      BY <2>1, <2>3 DEF RateLimited
    <3>3. j \in 1 .. m /\ (k \in 1 .. m \/ k = m + 1)
      BY <1>0
    <3>4. CASE k \in 1 .. m
      BY <2>1, <3>1, <3>3, <3>4
    <3>5. CASE k = m + 1
      <4>1. sent'[k].at = t /\ sent'[j].at = sent[j].at
        BY <2>1, <3>3, <3>5
      <4> DEFINE cost == delay * (m + 1 - j)
      <4>2. delay * (k - j) = cost
        BY <1>0, <3>5
      <4>3. cost <= sub + t - sent[j].at
        BY <3>2, <3>3
      <4> HIDE DEF cost
      <4> QED
        BY <4>1, <4>2, <4>3
    <3> QED
      BY <3>3, <3>4, <3>5
  <2> QED
    BY <2>4, <2>5, <2>6
<1>6. ASSUME UNCHANGED <<delay, sub, timepoint, hist>>, now' \in Nat, now' >= now
      PROVE  Ahead' /\ NotFurther' /\ RateLimited'
  <2>1. UNCHANGED <<delay, sub, timepoint, sent, origin>>
    BY <1>6 DEF hist
  <2>2. delay * m \in Nat
    BY <1>0
  <2>3. Ahead'
    BY <1>0, <1>6, <2>1 DEF Ahead
  <2>4. NotFurther'
    BY <1>0, <1>6, <2>1, <2>2 DEF NotFurther
  <2>5. RateLimited'
    BY <2>1 DEF RateLimited
  <2> QED
    BY <2>3, <2>4, <2>5
<1>7. RPassive => UNCHANGED <<delay, sub, timepoint, hist>> /\ now' >= now
  BY <1>0, PassiveEffect
<1>8. UNCHANGED rvars => UNCHANGED <<delay, sub, timepoint, hist, now>>
  BY DEF rvars, vars
<1>9. now' \in Nat
  BY DEF RTypeOK, TypeOK
<1> QED
  BY <1>0, <1>2, <1>3, <1>4, <1>5, <1>6, <1>7, <1>8, <1>9 DEF RNext

(* What a period starts with.                                              *)
LEMMA RateInit == RInit => Ahead /\ NotFurther /\ RateLimited
<1> SUFFICES ASSUME RInit PROVE Ahead /\ NotFurther /\ RateLimited
  OBVIOUS
<1>1. sent = << >> /\ timepoint = now /\ now = 0 /\ delay = 2
  BY DEF RInit, Init
<1> QED
  BY <1>1 DEF Ahead, NotFurther, RateLimited

(* The rate limit holds within every period, for every delay and burst,    *)
(* whenever messages are pushed, popped, put back or taken back            *)
(* (queue.rs:105-121).                                                     *)
THEOREM RateIsLimited == RSpec => []RateLimited
BY RateInit, RateStep, RateTypeCorrect, PTL DEF RSpec

(* A new or reset queue grants its whole burst (queue.rs:85-89, 194-201).  *)
THEOREM BurstIsGranted == RSpec => []BurstGranted
<1>1. RSpec => [](RTypeOK /\ NotFurther)
  BY RateInit, RateStep, RateTypeCorrect, PTL DEF RSpec
<1>2. RTypeOK /\ NotFurther => BurstGranted
  <2> SUFFICES ASSUME RTypeOK, NotFurther, origin = "fresh",
                      delay * Len(sent) <= sub
               PROVE  WaitAt(now) = 0
    BY DEF BurstGranted
  <2> DEFINE cost == delay * Len(sent)
  <2>1. cost \in Nat /\ cost <= sub
    BY LenProperties DEF RTypeOK, TypeOK
  <2>2. timepoint <= now + cost
    BY DEF NotFurther
  <2> HIDE DEF cost
  <2>3. TypeOK /\ now \in Nat /\ timepoint \in Nat /\ sub \in Nat
    BY DEF RTypeOK, TypeOK
  <2>4. timepoint <= now + sub
    BY <2>1, <2>2, <2>3
  <2> QED
    BY <2>3, <2>4, WaitOver
<1> QED
  BY <1>1, <1>2, PTL

(* A later time is further on.                                             *)
LEMMA LaterStill ==
  ASSUME NEW a \in Nat, NEW b \in Nat, NEW s \in Nat, NEW d \in Nat, NEW m \in Nat,
         b >= a, a + s + d > m
  PROVE  b + s + d > m
OBVIOUS

(* pop panics only within a burst and a delay of the largest Instant       *)
(* (queue.rs:110).                                                         *)
THEOREM PanicsOnlyAtTheEnd == RSpec => []PanicOnlyAtTheEnd
<1>1. RInit => PanicOnlyAtTheEnd
  BY DEF RInit, Init, PanicOnlyAtTheEnd
<1>2. RTypeOK /\ RTypeOK' /\ PanicOnlyAtTheEnd /\ [RNext]_rvars
        => PanicOnlyAtTheEnd'
  <2> SUFFICES ASSUME RTypeOK, RTypeOK', PanicOnlyAtTheEnd, [RNext]_rvars, panicked'
               PROVE  now' + sub' + delay' > MaxInstant
    BY DEF PanicOnlyAtTheEnd
  <2>0. /\ delay \in Nat /\ sub \in Nat /\ timepoint \in Nat /\ now \in Nat
        /\ now' \in Nat /\ MaxInstant \in Nat
    BY QueueAssumption DEF RTypeOK, TypeOK
  <2>1. ASSUME NEW t \in now .. MaxTime, RPop(t)
        PROVE  now' + sub' + delay' > MaxInstant
    <3>1. t \in Nat /\ now' = t /\ now <= t /\ timepoint <= now + sub
          /\ UNCHANGED <<delay, sub>>
      BY <2>1, PopEffect
    <3>2. Larger(timepoint, t) + delay > MaxInstant
      BY <2>1 DEF RPop, Pop, PopFrom
    <3> QED
      BY <2>0, <3>1, <3>2 DEF Larger
  <2>2. ~(\/ \E d \in Delays, b \in Bursts : RSetRateLimit(d, b)
          \/ RReset)
    BY DEF RSetRateLimit, SetRateLimit, SetRateLimitTo, RReset, Reset, Free
  <2>3. ASSUME UNCHANGED <<delay, sub>>, now' >= now, now + sub + delay > MaxInstant
        PROVE  now' + sub' + delay' > MaxInstant
    <3>1. now' + sub + delay > MaxInstant
      BY <2>0, <2>3, LaterStill
    <3> QED
      BY <2>3, <3>1
  <2>4. RPassive => UNCHANGED <<delay, sub>> /\ now' >= now
    BY <2>0, PassiveEffect
  <2>5. UNCHANGED rvars => UNCHANGED <<delay, sub>> /\ now' >= now
    BY <2>0 DEF rvars, vars
  <2>6. RPassive \/ UNCHANGED rvars => now + sub + delay > MaxInstant
    <3>1. RPassive \/ UNCHANGED rvars => UNCHANGED panicked
      BY Zenon DEF RPassive, Passive, PopRefused, Tick, Adjust, UseAdjuster,
         UseLabeler, UseNoLabeler, Clear, Edit, DropGuard, Push, PushLabeled,
         Extend, Enqueue, GuardClear, GuardClearTo, rvars, vars
    <3> QED
      BY <3>1, Zenon DEF PanicOnlyAtTheEnd
  <2> QED
    BY <2>1, <2>2, <2>3, <2>4, <2>5, <2>6 DEF RNext
<1> QED
  BY <1>1, <1>2, RateTypeCorrect, PTL DEF RSpec
-----------------------------------------------------------------------------
(* The messages are numbered in order of pushing, and nothing is queued or *)
(* has left that was not pushed.                                           *)
Numbered ==
  /\ FifoOrder
  /\ \A k \in DOMAIN queue : queue[k].n <= pushed
  /\ last <= pushed

(* What is left of a queue in its order is as numbered as the queue.       *)
LEMMA SelectionNumbered ==
  ASSUME RTypeOK, Numbered, queue' \in Seq(Msg), UNCHANGED <<pushed, last>>,
         NEW m \in 0 .. Len(queue), NEW f \in Selections(m, Len(queue)),
         Len(queue') = m, \A k \in 1 .. m : queue'[k] = queue[f[k]]
  PROVE  Numbered'
<1>1. DOMAIN queue' = 1 .. m /\ DOMAIN queue = 1 .. Len(queue)
  BY LenProperties DEF RTypeOK, TypeOK, Msg
<1>2. /\ \A k \in 1 .. m : f[k] \in DOMAIN queue
      /\ \A j, k \in 1 .. m : j < k => f[j] < f[k]
  BY <1>1 DEF Selections
<1> QED
  BY <1>1, <1>2 DEF Numbered, FifoOrder

(* So is a prefix of it.                                                   *)
LEMMA PrefixNumbered ==
  ASSUME RTypeOK, Numbered, queue' \in Seq(Msg), UNCHANGED <<pushed, last>>,
         Len(queue') <= Len(queue),
         \A k \in 1 .. Len(queue') : queue'[k] = queue[k]
  PROVE  Numbered'
<1>1. /\ DOMAIN queue' = 1 .. Len(queue') /\ DOMAIN queue = 1 .. Len(queue)
      /\ Len(queue') \in Nat /\ Len(queue) \in Nat
  BY LenProperties DEF RTypeOK, TypeOK, Msg
<1>2. \A k \in DOMAIN queue' : k \in DOMAIN queue /\ queue'[k] = queue[k]
  BY <1>1
<1> QED
  BY <1>2 DEF Numbered, FifoOrder

(* pop takes the oldest, and puts it back where it was when it is early.   *)
LEMMA PutBackSame == ASSUME NEW S, NEW s \in Seq(S), s # << >>
                     PROVE  <<Head(s)>> \o Tail(s) = s
<1>1. Head(s) \in S /\ Tail(s) \in Seq(S) /\ Len(Tail(s)) = Len(s) - 1
      /\ Len(s) \in Nat \ {0}
  BY HeadTailProperties, EmptySeq
<1> DEFINE t == <<Head(s)>> \o Tail(s)
<1>2. t \in Seq(S) /\ Len(t) = Len(s)
  BY <1>1, ConcatProperties
<1>3. ASSUME NEW i \in 1 .. Len(s) PROVE t[i] = s[i]
  BY <1>1, <1>3
<1> QED
  BY <1>2, <1>3, SeqEqual

(* A message is pushed with the next number.                               *)
LEMMA EnqueueNumbered ==
  ASSUME RTypeOK, Numbered, NEW l, Enqueue(l), UNCHANGED last
  PROVE  Numbered'
<1> DEFINE m == Len(queue)
<1>1. /\ m \in Nat /\ pushed \in Nat /\ last \in Nat /\ queue \in Seq(Msg)
      /\ DOMAIN queue = 1 .. m
  BY LenProperties DEF RTypeOK, TypeOK, Msg
<1>2. \A k \in 1 .. m : queue[k].n \in Nat
  <2>1. \A k \in 1 .. m : queue[k] \in Msg
    BY <1>1, ElementOfSeq
  <2> QED
    BY <2>1 DEF Msg
<1>3. pushed' = pushed + 1 /\ queue' = Append(queue, [n |-> pushed + 1, label |-> l])
  BY DEF Enqueue
<1>4. /\ DOMAIN queue' = 1 .. m + 1
      /\ \A k \in 1 .. m : queue'[k] = queue[k]
      /\ queue'[m + 1].n = pushed + 1
  BY <1>1, <1>3
<1> HIDE DEF m
<1>5. last < pushed + 1 /\ \A k \in 1 .. m : queue[k].n < pushed + 1
  BY <1>1, <1>2 DEF Numbered
<1>6. \A k \in 1 .. m + 1 : k \in 1 .. m \/ k = m + 1
  BY <1>1
<1>7. \A k \in DOMAIN queue' : queue'[k].n > last'
  BY <1>1, <1>4, <1>5, <1>6 DEF Numbered, FifoOrder
<1>8. \A j, k \in DOMAIN queue' : j < k => queue'[j].n < queue'[k].n
  <2> SUFFICES ASSUME NEW j \in 1 .. m + 1, NEW k \in 1 .. m + 1, j < k
               PROVE  queue'[j].n < queue'[k].n
    BY <1>4
  <2>1. j \in 1 .. m
    BY <1>1
  <2>2. CASE k \in 1 .. m
    BY <1>1, <1>4, <2>1, <2>2 DEF Numbered, FifoOrder
  <2>3. CASE k = m + 1
    BY <1>4, <1>5, <2>1, <2>3
  <2> QED
    BY <1>6, <2>2, <2>3
<1>9. \A k \in DOMAIN queue' : queue'[k].n <= pushed'
  BY <1>1, <1>2, <1>3, <1>4, <1>5, <1>6
<1>10. last' <= pushed'
  BY <1>1, <1>3, <1>5
<1> QED
  BY <1>7, <1>8, <1>9, <1>10 DEF Numbered, FifoOrder

(* The head is the oldest.                                                 *)
LEMMA PopNumbered ==
  ASSUME RTypeOK, Numbered, NEW t, RPop(t)
  PROVE  Numbered'
<1> DEFINE m == Len(queue)
<1>1. queue \in Seq(Msg) /\ queue # << >> /\ pushed \in Nat
  BY DEF RPop, Pop, PopFrom, RTypeOK, TypeOK, Msg
<1>2. m \in Nat \ {0} /\ DOMAIN queue = 1 .. m
  BY <1>1, EmptySeq, LenProperties
<1>3. queue' = Tail(queue) /\ last' = Head(queue).n /\ UNCHANGED pushed
  BY DEF RPop, Pop, PopFrom
<1>4. /\ queue' \in Seq(Msg) /\ Len(queue') = m - 1
      /\ \A k \in 1 .. m - 1 : queue'[k] = queue[k + 1]
  BY <1>1, <1>2, <1>3, HeadTailProperties
<1>5. last' = queue[1].n
  BY <1>1, <1>3
<1>6. DOMAIN queue' = 1 .. m - 1
  BY <1>4, LenProperties
<1> HIDE DEF m
<1>7. \A k \in 1 .. m - 1 : k + 1 \in DOMAIN queue /\ 1 \in DOMAIN queue /\ 1 < k + 1
  BY <1>2
<1>8. \A j, k \in 1 .. m - 1 : j < k => j + 1 < k + 1
  BY <1>2
<1>9. FifoOrder'
  <2>1. ASSUME NEW k \in 1 .. m - 1 PROVE queue'[k].n > last'
    <3>1. queue[1].n < queue[k + 1].n
      BY <1>7 DEF Numbered, FifoOrder
    <3>2. queue[1] \in Msg /\ queue[k + 1] \in Msg
      BY <1>1, <1>2, <1>7, ElementOfSeq DEF m
    <3> QED
      BY <1>4, <1>5, <3>1, <3>2 DEF Msg
  <2> QED
    BY <1>4, <1>6, <1>7, <1>8, <2>1 DEF Numbered, FifoOrder
<1>10. last' <= pushed'
  BY <1>2, <1>3, <1>5 DEF Numbered
<1> QED
  BY <1>3, <1>4, <1>6, <1>7, <1>9, <1>10 DEF Numbered

(* Messages leave in the order they were pushed, each at most once         *)
(* (queue.rs:105-121).                                                     *)
THEOREM QueueIsFifo == RSpec => []FifoOrder
<1>1. RInit => Numbered
  <2> SUFFICES ASSUME RInit PROVE Numbered
    OBVIOUS
  <2>1. queue = << >> /\ last = 0 /\ pushed = 0
    BY DEF RInit, Init
  <2> QED
    BY <2>1 DEF Numbered, FifoOrder
<1>2. RTypeOK /\ GuardsNested /\ Numbered /\ [RNext]_rvars => Numbered'
  <2> SUFFICES ASSUME RTypeOK, GuardsNested, Numbered, [RNext]_rvars PROVE Numbered'
    OBVIOUS
  <2>0. TypeOK /\ queue \in Seq(Msg)
    BY DEF RTypeOK, TypeOK, Msg
  <2>1. CASE UNCHANGED <<queue, pushed, last>>
    BY <2>1 DEF Numbered, FifoOrder
  <2>2. ASSUME queue' = << >>, UNCHANGED <<pushed, last>> PROVE Numbered'
    BY <2>2 DEF Numbered, FifoOrder
  <2>3. ASSUME NEW l, Enqueue(l), UNCHANGED last PROVE Numbered'
    BY <2>3, EnqueueNumbered
  <2>4. CASE RPassive /\ Adjust
    <3>1. UNCHANGED <<pushed, last>>
      BY <2>4 DEF RPassive, Adjust, hist
    <3> QED
      BY <2>0, <2>4, <3>1, AdjustQueue, SelectionNumbered
  <2>5. CASE RPassive /\ GuardClear
    <3>1. UNCHANGED <<pushed, last>>
      BY <2>5 DEF RPassive, GuardClear, GuardClearTo, hist
    <3>2. /\ queue' \in Seq(Msg) /\ Len(queue') <= Len(queue)
          /\ \A k \in 1 .. Len(queue') : queue'[k] = queue[k]
      BY <2>0, <2>5, ClearQueue
    <3> QED
      BY <3>1, <3>2, PrefixNumbered
  <2>6. CASE RPassive /\ PopRefused
    <3>1. queue' = queue
      BY <2>0, <2>6, PutBackSame DEF PopRefused, PutBack
    <3> QED
      BY <2>1, <2>6, <3>1 DEF RPassive, PopRefused, hist
  <2>7. (\E d \in Delays, b \in Bursts : RSetRateLimit(d, b))
          => UNCHANGED <<queue, pushed, last>>
    BY DEF RSetRateLimit, SetRateLimit, SetRateLimitTo, NewPeriod
  <2>8. RReset \/ (RPassive /\ Clear) => queue' = << >> /\ UNCHANGED <<pushed, last>>
    BY DEF RReset, Reset, NewPeriod, RPassive, Clear, hist
  <2>9. RPassive /\ (Push \/ PushLabeled \/ Extend)
          => (\E l : Enqueue(l)) /\ UNCHANGED last
    BY DEF RPassive, Push, PushLabeled, Extend, hist
  <2>10. RPassive /\ (\/ \E t \in now .. MaxTime : Tick(t)
                      \/ \E on \in Adjusting : UseAdjuster(on)
                      \/ UseLabeler \/ UseNoLabeler \/ Edit \/ DropGuard)
           => UNCHANGED <<queue, pushed, last>>
    BY DEF RPassive, Tick, UseAdjuster, UseLabeler, UseNoLabeler, Edit, DropGuard, hist
  <2>11. UNCHANGED rvars => UNCHANGED <<queue, pushed, last>>
    BY DEF rvars, vars, hist
  <2>12. CASE RPassive
    BY <2>1, <2>2, <2>3, <2>4, <2>5, <2>6, <2>8, <2>9, <2>10, <2>12
    DEF RPassive, Passive
  <2> QED
    BY <2>1, <2>2, <2>7, <2>8, <2>11, <2>12, PopNumbered DEF RNext
<1>3. Numbered => FifoOrder
  BY DEF Numbered
<1> QED
  BY <1>1, <1>2, <1>3, RateTypeCorrect, RateImplements, GuardLenNeverUnderflows, PTL
  DEF RSpec
=============================================================================
