---------------------------- MODULE MCQueueRate -----------------------------
(* QueueRate for TLC: no delay, a delay that fits a burst into the clock,  *)
(* and one whose burst reaches beyond the largest Instant.                 *)
EXTENDS QueueRate

MCDelays == {0, 3, 7}
MCBursts == {0, 2}
=============================================================================
