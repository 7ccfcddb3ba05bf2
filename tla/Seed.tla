-------------------------------- MODULE Seed --------------------------------
(***************************************************************************)
(* The data prisma/seed.ts puts into an empty database: the rows that      *)
(* amounts, counters, coupons and times are read from.  Names, texts,      *)
(* categories and pictures are left out.                                   *)
(*                                                                         *)
(* Amounts are in won; times are minutes since the seeding.  A stock row   *)
(* is named by its option, or by its product when that has no options.     *)
(***************************************************************************)
EXTENDS Integers, Sequences, FiniteSetsExt

UserIds == {"user-001", "user-002", "user-003"}

Day == 24 * 60
Yesterday == -Day
NextWeek == 7 * Day
NextMonth == 30 * Day
\* Dates of the past.
Past == Yesterday - 1
NoDate == Past - 1
WithoutCoupon == "none"

-----------------------------------------------------------------------------
Product(n, won) == [product |-> n, price |-> won]

Electronics ==
  {Product("001", 1200000), Product("002", 2500000), Product("003", 250000),
   Product("004", 800000), Product("005", 350000)}
Fashion ==
  {Product("006", 180000), Product("007", 89000), Product("008", 120000),
   Product("009", 250000), Product("010", 45000)}
Home ==
  {Product("011", 380000), Product("012", 550000), Product("013", 120000)}

Products == Electronics \cup Fashion \cup Home

\* An option and its stock.
Option(name, p, qty) == [good |-> name, product |-> p, total |-> qty]

PhoneOptions ==
  {Option("001-black", "001", 100), Option("001-white", "001", 50),
   Option("001-purple", "001", 50)}
LaptopOptions ==
  {Option("002-512gb", "002", 30), Option("002-1tb", "002", 30)}
TabletOptions ==
  {Option("004-gray", "004", 40), Option("004-pink", "004", 40)}
WatchOptions ==
  {Option("005-40mm", "005", 60), Option("005-44mm", "005", 60)}

OptionRows == PhoneOptions \cup LaptopOptions \cup TabletOptions \cup WatchOptions

\* Stock of products without options, which no cart can hold.
EarphoneStock == Option("003", "003", 200)
PlainStock ==
  {Option(p, p, 100) :
     p \in {"006", "007", "008", "009", "010", "011", "012", "013"}}

StockRows == OptionRows \cup {EarphoneStock} \cup PlainStock
StockIds == {r.good : r \in StockRows}
OptionIds == {r.good : r \in OptionRows}

RowOf(g) == CHOOSE r \in StockRows : r.good = g
\* The price of its product; what an option adds is in no total of the code.
PriceOf == [g \in StockIds |-> (CHOOSE p \in Products : p.product = RowOf(g).product).price]

-----------------------------------------------------------------------------
Units(some, qty) == [g \in StockIds |-> IF g \in some THEN qty ELSE 0]

\* A phone and earphones, paid, with a discount but no coupon.
Order001 ==
  [user |-> "user-001", items |-> Units({"001-black", "003"}, 1), coupon |-> WithoutCoupon,
   total |-> 1450000, discount |-> 50000, status |-> "PAID",
   expiresAt |-> 10, paidAt |-> Past]

\* A laptop with the bigger disk, which the seed adds to the price, waiting for
\* its payment.
Order002 ==
  [user |-> "user-002", items |-> Units({"002-1tb"}, 1), coupon |-> WithoutCoupon,
   total |-> 2800000, discount |-> 0, status |-> "PENDING",
   expiresAt |-> 8, paidAt |-> NoDate]

\* A tablet, cancelled.
Order003 ==
  [user |-> "user-001", items |-> Units({"004-pink"}, 1), coupon |-> WithoutCoupon,
   total |-> 820000, discount |-> 0, status |-> "CANCELLED",
   expiresAt |-> Past, paidAt |-> NoDate]

OrderRows == <<Order001, Order002, Order003>>

Payment001 == [order |-> 1, amount |-> 1400000, status |-> "COMPLETED"]
PaymentRows == {Payment001}

\* The stock updates that go with the first two orders.
StockCounters ==
  [g \in StockIds |->
     LET sold == Order001.items[g]
         reserved == Order002.items[g]
         total == RowOf(g).total
     IN [total |-> total, available |-> total - sold - reserved,
         reserved |-> reserved, sold |-> sold]]

-----------------------------------------------------------------------------
Coupon(type, value, min, total, issued, until) ==
  [type |-> type, value |-> value, min |-> min, total |-> total,
   issued |-> issued, from |-> IF until = Past THEN Past ELSE Yesterday,
   until |-> until]

\* A coupon without a minimal amount has minimum zero.
CouponRows ==
  [welcome |-> Coupon("FIXED", 10000, 50000, 1000, 3, NextMonth),
   weekend |-> Coupon("PERCENTAGE", 10, 100000, 500, 2, NextWeek),
   first |-> Coupon("FIXED", 5000, 0, 999999, 1, NextMonth),
   lastMonth |-> Coupon("FIXED", 20000, 100000, 100, 0, Past),
   rush |-> Coupon("PERCENTAGE", 20, 50000, 10, 10, NextWeek)]

UserCoupon(user, coupon, usedAt) ==
  [user |-> user, coupon |-> coupon, usedAt |-> usedAt,
   expiresAt |-> CouponRows[coupon].until]

UserCouponRows ==
  {UserCoupon("user-001", "welcome", NoDate), UserCoupon("user-001", "weekend", Past),
   UserCoupon("user-001", "first", NoDate), UserCoupon("user-002", "welcome", NoDate),
   UserCoupon("user-002", "weekend", NoDate), UserCoupon("user-003", "welcome", NoDate)}
=============================================================================
