CONSTANTS
  r1 = r1
  r2 = r2
  black = black
  white = white
  other = other
  phone = phone
  laptop = laptop
  None = None
  Requests = {r1, r2}
  Options <- MCOptions
  Products = {phone, laptop}
  ProductOf <- MCProductOf
  Quantities = {0, 1, 2}
  Seed <- MCSeed
SPECIFICATION FairSpec
INVARIANTS TypeOK FreshAggregate Conservation Accounting ReturnedIsCommitted
PROPERTIES ImplementsLedger CallsEnd
CHECK_DEADLOCK FALSE
