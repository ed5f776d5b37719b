----------------------------- MODULE QueueRate ------------------------------
(***************************************************************************)
(* The queue with a history of what left it, to state what its rate limit  *)
(* promises.  A period starts when the queue is made, with set_rate_limit  *)
(* and with reset; `sent` are the messages popped in the current one.      *)
(***************************************************************************)
EXTENDS Queue

VARIABLES
  sent,    \* history: Seq of [n, at], the messages popped in this period
  origin,  \* history: what began the period, "fresh" or "set"
  since,   \* history: when it began
  last     \* history: the number of the last message popped, or 0

hist == <<sent, origin, since, last>>
rvars == <<vars, hist>>

RInit ==
  /\ Init
  /\ sent = << >>
  /\ origin = "fresh"
  /\ since = now
  /\ last = 0

NewPeriod(o) ==
  /\ sent' = << >>
  /\ origin' = o
  /\ since' = now
  /\ UNCHANGED last

RSetRateLimit(d, b) == SetRateLimit(d, b) /\ NewPeriod("set")
RReset == Reset /\ NewPeriod("fresh")
RPop(t) ==
  /\ Pop(t)
  /\ sent' = IF panicked' THEN sent
             ELSE Append(sent, [n |-> Head(queue).n, at |-> t])
  /\ last' = Head(queue).n
  /\ UNCHANGED <<origin, since>>
RPassive == Passive /\ UNCHANGED hist

RNext ==
  \/ \E d \in Delays, b \in Bursts : RSetRateLimit(d, b)
  \/ \E t \in now .. MaxTime : RPop(t)
  \/ RReset
  \/ RPassive

RSpec == RInit /\ [][RNext]_rvars
-----------------------------------------------------------------------------
(* The history variables have their types. *)
RTypeOK ==
  /\ TypeOK
  /\ sent \in Seq([n : Nat, at : Nat])
  /\ origin \in {"fresh", "set"}
  /\ since \in Nat
  /\ last \in Nat

(* The rate limit itself (queue.rs:4-7, 85-89).  Within any stretch of one *)
(* period, messages after the first cost `delay` each, and only `sub`, a   *)
(* burst's worth, is ever advanced: k + 1 messages take at least           *)
(* delay * k - sub.                                                        *)
RateLimited ==
  \A j, k \in DOMAIN sent :
    j < k => delay * (k - j) <= sub + sent[k].at - sent[j].at

(* "a value of `4` results in a burst of five messages" (queue.rs:89): a   *)
(* new or reset queue never holds back a message while the messages before *)
(* it fit the burst, however they were spread over time.                   *)
BurstGranted ==
  origin = "fresh" /\ delay * Len(sent) <= sub => WaitAt(now) = 0

(* set_rate_limit "pessimistically sets the next-message delay to the      *)
(* longest possible under the new settings" (queue.rs:93-94): it grants no *)
(* burst, so the k-th message after it leaves k delays later at best.      *)
(* The one exception is a limit that reaches beyond the largest Instant:   *)
(* `unwrap_or(now)` (queue.rs:96) then grants the whole burst at once.     *)
Pessimistic ==
  origin = "set" /\ since + sub + delay <= MaxInstant =>
    \A k \in DOMAIN sent : sent[k].at >= since + delay * k

(* Messages leave in the order they were pushed, each at most once, also   *)
(* when pop puts one back (queue.rs:113), when messages are taken back or  *)
(* adjusted away, and across resets.                                       *)
FifoOrder ==
  /\ \A k \in DOMAIN queue : queue[k].n > last
  /\ \A j, k \in DOMAIN queue : j < k => queue[j].n < queue[k].n

(* pop panics (queue.rs:110) only where the clock is within one full burst *)
(* and one delay of the largest Instant; below that it never does.         *)
PanicOnlyAtTheEnd == panicked => now + sub + delay > MaxInstant

(* What the queue's own bookkeeping promises in every state: its types; no *)
(* guard remembers more messages than there are, so that len does not      *)
(* underflow (queue.rs:239); no two queued messages share a label          *)
(* (queue.rs:217-225); and set_rate_limit grants no burst.                 *)
QueueSound == RTypeOK /\ GuardsNested /\ LabelsDistinct /\ Pessimistic
=============================================================================
