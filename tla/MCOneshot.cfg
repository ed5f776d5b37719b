CONSTANTS
  Sender = {s1, s2, s3}
  Buffered = TRUE
SPECIFICATION FairSpec
CHECK_DEADLOCK FALSE
INVARIANT ValueSound
INVARIANT FreedInTheEnd
PROPERTY AbsSpec
PROPERTY NobodyStuck
