CONSTANTS
  Delays <- MCDelays
  Bursts <- MCBursts
  MaxInstant = 14
  MaxDuration = 28
  LabelModulus = 6
  MaxTime = 4
  MaxMsgs = 4
  MaxGuards = 2
  MaxLabelers = 1
  Adjusting = {TRUE, FALSE}
SPECIFICATION RSpec
CHECK_DEADLOCK FALSE
INVARIANT QueueSound
INVARIANT RateLimited
INVARIANT BurstGranted
INVARIANT FifoOrder
INVARIANT PanicOnlyAtTheEnd
PROPERTY GuardKeepsOlder
