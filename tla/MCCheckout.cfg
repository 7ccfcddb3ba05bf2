CONSTANTS
  Users <- MCUsers
  Goods <- MCGoods
  Options <- MCOptions
  Price <- MCPrice
  SeedStock <- MCSeedStock
  SeedOrders <- MCSeedOrders
  SeedPayments <- MCSeedPayments
  SeedCoupons <- MCSeedCoupons
  SeedWallet <- MCSeedWallet
  Never <- MCNever
  NoCoupon <- MCNoCoupon
  Additions <- MCAdditions
  Quantities = {0, 90}
  Instants <- MCInstants
  MaxInCart <- MCMaxInCart
  MaxCreates = 2
SPECIFICATION Spec
INVARIANTS TypeOK Books Money CouponBooks
PROPERTY SettledOnTime
CHECK_DEADLOCK FALSE
