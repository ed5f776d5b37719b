CONSTANTS
  Sender = {s1, s2}
  Buffered = FALSE
SPECIFICATION Spec
CHECK_DEADLOCK FALSE
INVARIANT ReferencesEnded
