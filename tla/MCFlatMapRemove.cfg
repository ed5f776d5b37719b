CONSTANTS
  c1 = c1
  c2 = c2
  u1 = u1
  u2 = u2
  u3 = u3
  Chan = {c1, c2}
  Unparker = {u1, u2, u3}
  Of <- MCOf
  First <- MCFirst
  Spurious = TRUE
  Key = {1, 2, 3}
  Val = {"a", "b"}
  Input <- MCInput
  MaxLen = 3
SPECIFICATION USpec
CHECK_DEADLOCK FALSE
INVARIANT NeverPanics
