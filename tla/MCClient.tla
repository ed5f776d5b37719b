------------------------------ MODULE MCClient ------------------------------
(* Client with the values the configurations choose from.  A limit of 200  *)
(* is beyond the last Instant, 100.                                        *)
EXTENDS Client

MCDelays == {1}
MCReadLimits == {Some(2), Some(200)}
MCLiveDelays == {2}
MCLiveReadLimits == {Some(0), Some(3)}
MCBursts == {0}
MCWriteLimits == {Some(1)}
=============================================================================
