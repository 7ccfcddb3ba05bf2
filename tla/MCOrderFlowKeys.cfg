CONSTANTS
  a = a
  b = b
  black = black
  white = white
  c1 = c1
  c2 = c2
  c3 = c3
  j1 = j1
  key1 = key1
  key2 = key2
  NoPayment = NoPayment
  Orders = {a, b}
  Options <- MCOptions
  Seed <- MCSeed
  Items <- MCItems
  Calls = {c1, c2}
  Jobs = {j1}
  Input <- MCDistinct
  Troubles = {"overlap", "expiry", "crash"}
SPECIFICATION FairSpec
INVARIANTS CompletedKeepsPayment ConfirmedOnce
PROPERTY Compensated
CHECK_DEADLOCK FALSE
