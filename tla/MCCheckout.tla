----------------------------- MODULE MCCheckout -----------------------------
(***************************************************************************)
(* Checkout on the seeded shop.  One customer puts 90 phones into the cart *)
(* at a time: 90 phones cost more than an amount column holds, 180 are not *)
(* there.  Another buys laptops and has two kinds of coupons.              *)
(***************************************************************************)
EXTENDS Checkout, TLC

Data == INSTANCE Seed

\* What the seeded orders and the customers of this run touch.
MCGoods == {"001-black", "002-1tb", "003", "004-pink"}
MCOptions == MCGoods \cap Data!OptionIds
MCUsers == Data!UserIds \ {"user-003"}

\* (@@, and {w : ...} below, make TLC evaluate a value once.)
OnGoods(f) == [g \in MCGoods |-> f[g]] @@ <<>>
MCPrice == OnGoods(Data!PriceOf)
MCSeedStock == OnGoods(Data!StockCounters)
MCSeedOrders ==
  [x \in DOMAIN Data!OrderRows |->
     [Data!OrderRows[x] EXCEPT !.items = OnGoods(@)]]
MCSeedPayments == Data!PaymentRows
MCSeedCoupons == Data!CouponRows
MCSeedWallet == {w : w \in {w \in Data!UserCouponRows : w.user \in MCUsers}}
MCNever == Data!NoDate
MCNoCoupon == Data!WithoutCoupon

MCAdditions ==
  {[user |-> "user-001", option |-> "001-black", qty |-> 90],
   [user |-> "user-002", option |-> "002-1tb", qty |-> 1]}

MCMaxInCart == [g \in MCOptions |-> IF g = "001-black" THEN 180 ELSE 1]

\* The seeding; the last minute of an order made then, and the next; the
\* minute after the weekend coupon.
MCInstants == {0, 10, 11, 10081}
=============================================================================
