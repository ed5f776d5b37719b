CONSTANTS
  Handler = {h1}
  Delays <- MCDelays
  Bursts <- MCBursts
  MaxInstant = 100
  MaxDuration = 200
  MaxTime = 2
  MaxMsgs = 2
  Owning = {FALSE}
  Flavours = {TRUE, FALSE}
  ReadLimits <- MCReadLimits
  WriteLimits <- MCWriteLimits
  ClockRuns = "always"
  CancelAt = {"writing", "flushing", "sleep", "blocked"}
  MaxIn = 2
  MaxConns = 2
  MaxWire = 2
SPECIFICATION Spec
CHECK_DEADLOCK FALSE
INVARIANT LoopSound
INVARIANT MessagesInOrder
INVARIANT SentAsPushed
INVARIANT ReadTimeoutHonest
