CONSTANTS
  Handler = {h1}
  Delays <- MCLiveDelays
  Bursts <- MCBursts
  MaxInstant = 100
  MaxDuration = 200
  MaxTime = 5
  MaxMsgs = 2
  Owning = {FALSE}
  Flavours = {TRUE, FALSE}
  ReadLimits <- MCLiveReadLimits
  WriteLimits = {}
  ClockRuns = "waiting"
  CancelAt = {}
  MaxIn = 1
  MaxConns = 1
  MaxWire = 0
SPECIFICATION FairSpec
CHECK_DEADLOCK FALSE
PROPERTY QueueDrains
PROPERTY LimitedReadEnds
