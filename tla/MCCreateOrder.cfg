CONSTANTS
  ann = ann
  bob = bob
  black = black
  white = white
  half = half
  gift = gift
  c1 = c1
  c2 = c2
  c3 = c3
  NoCart = NoCart
  NoCoupon = NoCoupon
  NoOrder = NoOrder
  Users = {ann, bob}
  Options <- MCOptions
  Seed <- MCScarce
  Carts <- MCCarts
  MaxFills = 1
  Coupons = {half, gift}
  CouponData <- MCCouponData
  Calls = {c1, c2, c3}
  Input <- MCTwice
  Troubles = {"overlap", "error", "lost", "swallow", "crash"}
SPECIFICATION FairSpec
INVARIANTS TypeOK ReturnedIsOrdered GivesBackOwn
PROPERTY CatchUndoes
CHECK_DEADLOCK FALSE
