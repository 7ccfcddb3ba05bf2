CONSTANTS
  c1 = c1
  c2 = c2
  c3 = c3
  Free = Free
  Calls = {c1, c2, c3}
  Waits = {c1, c2, c3}
  Switched = {c3}
SPECIFICATION FairSpec
INVARIANTS TypeOK Exclusive StrandedForCause
PROPERTY CallsEnd
CHECK_DEADLOCK FALSE
