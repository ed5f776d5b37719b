------------------------------- MODULE Queue --------------------------------
(***************************************************************************)
(* The rate-limited message queue of a client: client/queue.rs.            *)
(*                                                                         *)
(* `timepoint` is a virtual finishing time.  Every message popped moves it *)
(* `delay` further, and a message may be popped while it is at most `sub`  *)
(* ahead of the clock, where sub = delay * burst.                          *)
(*                                                                         *)
(* One unit of time is one second.  Instants end at MaxInstant and         *)
(* durations at MaxDuration.  A message is its number in order of pushing, *)
(* and the label it was given, if any.  Options are sequences of length 0  *)
(* or 1.                                                                   *)
(***************************************************************************)
EXTENDS Integers, Sequences

CONSTANTS
  Delays, Bursts,   \* the arguments of set_rate_limit
  MaxInstant,       \* the largest Instant
  MaxDuration,      \* the largest Duration
  LabelModulus,     \* the number of labels before the default labeler wraps
  MaxTime,          \* bound: how far the clock runs
  MaxMsgs,          \* bound: how many messages are pushed
  MaxGuards,        \* bound: how many edit guards are nested
  MaxLabelers,      \* bound: how many labelers are installed
  Adjusting         \* bound: whether adjusters are used, a subset of BOOLEAN

ASSUME QueueAssumption ==
  /\ MaxInstant \in Nat /\ MaxDuration \in Nat
  /\ LabelModulus \in Nat \ {0}
  /\ MaxTime \in Nat /\ MaxTime <= MaxInstant
  /\ MaxMsgs \in Nat /\ MaxGuards \in Nat /\ MaxLabelers \in Nat
  /\ Delays \subseteq 0 .. MaxDuration /\ Bursts \subseteq Nat
  /\ Adjusting \subseteq BOOLEAN

VARIABLES
  queue,      \* Seq of [n, label]
  delay, sub, \* Durations
  timepoint,  \* Instant
  labeler,    \* the labeler, if any: its number and the last id it gave
  labelers,   \* how many labelers have been installed
  adjuster,   \* whether there is an adjuster
  guards,     \* orig_len of every open QueueEditGuard, the innermost last
  pushed,     \* how many messages have been pushed
  now,        \* the clock
  panicked    \* whether pop overflowed an Instant

vars == <<queue, delay, sub, timepoint, labeler, labelers, adjuster, guards,
          pushed, now, panicked>>

None == << >>
Some(x) == <<x>>

Larger(a, b) == IF a >= b THEN a ELSE b
Smaller(a, b) == IF a <= b THEN a ELSE b
SatSub(a, b) == IF a >= b THEN a - b ELSE 0
SatDuration(a) == Smaller(a, MaxDuration)

(* No guard borrows the queue, and the program is still running. *)
Free == guards = << >> /\ ~panicked
Innermost == guards[Len(guards)]
-----------------------------------------------------------------------------
Init ==
  /\ now = 0
  /\ queue = << >>
  /\ delay = 2
  /\ sub = 8
  /\ timepoint = now
  /\ labeler = None
  /\ labelers = 0
  /\ adjuster = FALSE
  /\ guards = << >>
  /\ pushed = 0
  /\ panicked = FALSE

(* now.checked_add(d).unwrap_or(now) *)
AddOrNow(t, d) == IF t + d <= MaxInstant THEN t + d ELSE t

SetRateLimitTo(d, b, lead) ==
  /\ Free
  /\ delay' = d
  /\ sub' = SatDuration(d * b)
  /\ timepoint' = AddOrNow(now, lead)
  /\ UNCHANGED <<queue, labeler, labelers, adjuster, guards, pushed, now,
                 panicked>>
SetRateLimitLax(d, b) ==   \* mutated: only `sub` ahead
  SetRateLimitTo(d, b, SatDuration(d * b))
SetRateLimit(d, b) ==
  SetRateLimitTo(d, b, SatDuration(SatDuration(d * b) + d))

(* How long after t the next message may leave. *)
WaitAtNoBurst(t) == SatSub(timepoint, t)                  \* mutated
WaitAtTwice(t) == SatSub(SatSub(timepoint, t), 2 * sub)   \* mutated
WaitAt(t) == SatSub(SatSub(timepoint, t), sub)

(* pop, when it removes a message: t is its second reading of the clock.   *)
(* The addition to an Instant panics on overflow, with the message gone.   *)
PopFrom(t, base) ==
  /\ Free
  /\ queue # << >>
  /\ WaitAt(now) = 0
  /\ now' = t
  /\ queue' = Tail(queue)
  /\ panicked' = (base + delay > MaxInstant)
  /\ timepoint' = IF panicked' THEN timepoint ELSE base + delay
  /\ UNCHANGED <<delay, sub, labeler, labelers, adjuster, guards, pushed>>
Pop(t) == PopFrom(t, Larger(timepoint, t))

(* pop, when it is too early: the message is put back. *)
PutBackLast == Append(Tail(queue), Head(queue))  \* mutated: push_back
PutBack == <<Head(queue)>> \o Tail(queue)
PopRefused ==
  /\ Free
  /\ queue # << >>
  /\ WaitAt(now) > 0
  /\ queue' = PutBack
  /\ UNCHANGED <<delay, sub, timepoint, labeler, labelers, adjuster, guards,
                 pushed, now, panicked>>

(* adjust, when the adjuster wants to: retain_mut drops any of the         *)
(* messages and leaves the others in their order.                          *)
Selections(m, n) ==
  {f \in [1 .. m -> 1 .. n] : \A j, k \in 1 .. m : j < k => f[j] < f[k]}
Adjust ==
  /\ Free
  /\ adjuster
  /\ \E m \in 0 .. Len(queue) : \E f \in Selections(m, Len(queue)) :
       queue' = [k \in 1 .. m |-> queue[f[k]]]
  /\ UNCHANGED <<delay, sub, timepoint, labeler, labelers, adjuster, guards,
                 pushed, now, panicked>>

(* use_adjuster, use_no_adjuster *)
UseAdjuster(on) ==
  /\ Free
  /\ adjuster' = on
  /\ UNCHANGED <<queue, delay, sub, timepoint, labeler, labelers, guards,
                 pushed, now, panicked>>

(* use_labeler, use_labeler_default: a new closure whose counter is zero. *)
UseLabeler ==
  /\ Free
  /\ labelers < MaxLabelers
  /\ labelers' = labelers + 1
  /\ labeler' = Some([gen |-> labelers + 1, id |-> 0])
  /\ UNCHANGED <<queue, delay, sub, timepoint, adjuster, guards, pushed, now,
                 panicked>>

UseNoLabeler ==
  /\ Free
  /\ labeler' = None
  /\ UNCHANGED <<queue, delay, sub, timepoint, labelers, adjuster, guards,
                 pushed, now, panicked>>

Clear ==
  /\ Free
  /\ queue' = << >>
  /\ UNCHANGED <<delay, sub, timepoint, labeler, labelers, adjuster, guards,
                 pushed, now, panicked>>

(* reset; the adjuster's own state is the adjuster's. *)
Reset ==
  /\ Free
  /\ queue' = << >>
  /\ labeler' = None
  /\ timepoint' = now
  /\ UNCHANGED <<delay, sub, labelers, adjuster, guards, pushed, now,
                 panicked>>
-----------------------------------------------------------------------------
(* Queue::edit and QueueEditGuard::edit. *)
Edit ==
  /\ ~panicked
  /\ Len(guards) < MaxGuards
  /\ guards' = Append(guards, Len(queue))
  /\ UNCHANGED <<queue, delay, sub, timepoint, labeler, labelers, adjuster,
                 pushed, now, panicked>>

DropGuard ==
  /\ guards # << >>
  /\ guards' = SubSeq(guards, 1, Len(guards) - 1)
  /\ UNCHANGED <<queue, delay, sub, timepoint, labeler, labelers, adjuster,
                 pushed, now, panicked>>

Enqueue(label) ==
  /\ pushed < MaxMsgs
  /\ pushed' = pushed + 1
  /\ queue' = Append(queue, [n |-> pushed + 1, label |-> label])
  /\ UNCHANGED <<delay, sub, timepoint, labelers, adjuster, guards, now,
                 panicked>>

Push ==
  /\ guards # << >>
  /\ Enqueue(None)
  /\ UNCHANGED labeler

(* The label is the labeler's next id; the counter is not taken back when  *)
(* the message is.                                                         *)
PushLabeled ==
  /\ guards # << >>
  /\ labeler' = IF labeler = None THEN None
                ELSE Some([labeler[1] EXCEPT !.id = (@ + 1) % LabelModulus])
  /\ Enqueue(labeler')

(* Queue::extend, which needs no guard. *)
Extend ==
  /\ Free
  /\ Enqueue(None)
  /\ UNCHANGED labeler

GuardClearTo(n) ==
  /\ guards # << >>
  /\ queue' = SubSeq(queue, 1, n)
  /\ UNCHANGED <<delay, sub, timepoint, labeler, labelers, adjuster, guards,
                 pushed, now, panicked>>
GuardClearOuter == GuardClearTo(guards[1])  \* mutated: the outermost guard's
GuardClear == GuardClearTo(Innermost)

(* QueueEditGuard::len; the subtraction is on usize. *)
GuardLen(k) == Len(queue) - guards[k]

Tick(t) ==
  /\ t > now
  /\ now' = t
  /\ UNCHANGED <<queue, delay, sub, timepoint, labeler, labelers, adjuster,
                 guards, pushed, panicked>>

(* The steps that leave the rate limiter alone. *)
Passive ==
  \/ PopRefused
  \/ \E t \in now .. MaxTime : Tick(t)
  \/ Adjust
  \/ \E on \in Adjusting : UseAdjuster(on)
  \/ UseLabeler
  \/ UseNoLabeler
  \/ Clear
  \/ Edit
  \/ DropGuard
  \/ Push
  \/ PushLabeled
  \/ Extend
  \/ GuardClear

Next ==
  \/ \E d \in Delays, b \in Bursts : SetRateLimit(d, b)
  \/ \E t \in now .. MaxTime : Pop(t)
  \/ Reset
  \/ Passive

Spec == Init /\ [][Next]_vars
-----------------------------------------------------------------------------
Label == [gen : Nat, id : Nat]
OptLabel == {l \in Seq(Label) : Len(l) <= 1}

(* Every variable has its type. *)
TypeOK ==
  /\ queue \in Seq([n : Nat, label : OptLabel])
  /\ delay \in Nat /\ sub \in Nat
  /\ timepoint \in Nat
  /\ labeler \in OptLabel
  /\ labelers \in Nat
  /\ adjuster \in BOOLEAN
  /\ guards \in Seq(Nat)
  /\ pushed \in Nat
  /\ now \in Nat
  /\ panicked \in BOOLEAN

(* A guard only touches what was pushed since it was created: guards nest, *)
(* so QueueEditGuard::len (queue.rs:238-240) never underflows.             *)
GuardsNested ==
  /\ \A k \in DOMAIN guards : GuardLen(k) >= 0
  /\ \A j, k \in DOMAIN guards : j <= k => guards[j] <= guards[k]

(* While a guard is open no step, a nested guard's clear included, loses,  *)
(* moves or replaces a message queued before it (queue.rs:243-246).        *)
GuardKeepsOlder ==
  [][\A k \in DOMAIN guards, j \in DOMAIN queue :
       j <= guards[k] => j \in DOMAIN queue' /\ queue'[j] = queue[j]]_vars

(* Messages queued under one labeler carry different labels (queue.rs:     *)
(* 160-167, 217-225), also after a guard has taken labelled messages back, *)
(* as long as fewer than LabelModulus labels have been given.              *)
LabelsDistinct ==
  \A j, k \in DOMAIN queue :
    j # k /\ queue[j].label = queue[k].label => queue[j].label = None
=============================================================================
