CONSTANTS
  a = a
  b = b
  black = black
  white = white
  c1 = c1
  c2 = c2
  c3 = c3
  j1 = j1
  key1 = key1
  key2 = key2
  NoPayment = NoPayment
  Orders = {a}
  Options <- MCOptions
  Seed <- MCSeed
  Items <- MCItems
  Calls = {c1, c2}
  Jobs = {}
  Input <- MCRepeated
  Troubles = {"overlap"}
SPECIFICATION Spec
INVARIANT ChargedOnce
CHECK_DEADLOCK FALSE
