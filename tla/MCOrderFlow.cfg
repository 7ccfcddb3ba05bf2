CONSTANTS
  a = a
  b = b
  black = black
  white = white
  c1 = c1
  c2 = c2
  c3 = c3
  j1 = j1
  key1 = key1
  key2 = key2
  NoPayment = NoPayment
  Orders = {a, b}
  Options <- MCOptions
  Seed <- MCSeed
  Items <- MCItems
  Calls = {c1, c2, c3}
  Jobs = {j1}
  Input <- MCRepeated
  Troubles = {"overlap", "expiry", "error", "lost"}
SPECIFICATION Spec
INVARIANTS TypeOK CompletedIsSold CompletedWasCharged
CHECK_DEADLOCK FALSE
