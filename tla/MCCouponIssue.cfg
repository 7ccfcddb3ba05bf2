CONSTANTS
  r1 = r1
  r2 = r2
  r3 = r3
  u1 = u1
  u2 = u2
  u3 = u3
  gold = gold
  silver = silver
  seed = seed
  None = None
  Requests = {r1, r2, r3}
  Users = {u1, u2}
  Coupons = {gold, silver}
  Total <- MCTotal
  SeedIssued <- MCSeedIssued
  SeedRows <- MCSeedRows
  SeedPeriod <- MCSeedPeriod
SPECIFICATION Spec
SYMMETRY Symmetry
INVARIANTS TypeOK FreshCoupon ReturnedIsIssued TurnedAwayForCause NeverExceeded IssuedCounts
PROPERTY ImplementsPool
CHECK_DEADLOCK FALSE
