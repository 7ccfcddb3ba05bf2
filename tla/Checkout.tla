------------------------------- MODULE Checkout -------------------------------
(***************************************************************************)
(* The shop from the catalogue to the paid order: cart, coupons, stock,    *)
(* orders, payments and the job that cancels expired orders, with amounts  *)
(* and a clock, on rows like those prisma/seed.ts creates.                 *)
(*                                                                         *)
(* A request is one step here: no two overlap and no step of one fails for *)
(* a reason outside the program.  What overlaps and failures do is the     *)
(* subject of the modules of the single components; this one says what     *)
(* their handlers add up to, one after the other.  Requests that are       *)
(* refused without effect are no steps; repeating a payment with its key   *)
(* is one of them, keys being made by clients, one per order.              *)
(***************************************************************************)
EXTENDS StockEntity, CouponRules, Sequences, FiniteSets, FiniteSetsExt

CONSTANTS
  Users,
  Goods,        \* the stock rows: options, and products without options
  Options,
  Price,        \* the price of the product of a row; no use case adds what the
                \* option costs more
  SeedStock, SeedOrders, SeedPayments, SeedCoupons, SeedWallet,
  Never, NoCoupon,
  Additions,    \* the AddCartItem requests: user, option and quantity
  Quantities,   \* the new quantities of UpdateCartItem requests
  Instants,     \* the minutes at which requests arrive
  MaxInCart,    \* bound on the quantity of a line of a cart, by option
  MaxCreates    \* bound on the number of CreateOrder requests

Coupons == DOMAIN SeedCoupons
Amounts == [Goods -> Nat]
OrderRow ==
  [user : Users, items : Amounts, coupon : Coupons \cup {NoCoupon},
   total : Nat, discount : Nat, expiresAt : Int, paidAt : Int,
   status : {"PENDING", "COMPLETED", "CANCELED", "PAID", "CANCELLED"}]
PaymentRow == [order : Nat, amount : Nat \ {0}, status : {"COMPLETED"}]
\* A coupon as issued to everybody, and to one user.  validate() bounds neither
\* a percentage nor the order of the dates.
CouponRow ==
  [type : {"PERCENTAGE", "FIXED"}, value : Nat \ {0}, min : Nat, total : Nat,
   issued : Nat, from : Int, until : Int]
UserCouponRow == [user : Users, coupon : Coupons, usedAt : Int, expiresAt : Int]

ASSUME CheckoutAssumption ==
  /\ IsFiniteSet(Goods) /\ Options \subseteq Goods
  /\ Price \in Amounts
  /\ SeedStock \in [Goods -> StockRow]
  /\ \A g \in Goods : Valid(SeedStock[g]) /\ Balanced(SeedStock[g])
  /\ SeedOrders \in Seq(OrderRow)
  /\ SeedPayments \subseteq PaymentRow
  /\ SeedCoupons \in [Coupons -> CouponRow]
  /\ SeedWallet \subseteq UserCouponRow /\ IsFiniteSet(SeedWallet)
  /\ Never \in Int /\ NoCoupon \notin Coupons
  /\ Additions \subseteq [user : Users, option : Options, qty : Nat \ {0}]
  /\ Quantities \subseteq Nat
  /\ Instants \subseteq Nat /\ 0 \in Instants
  /\ \A t \in Instants : t > Never
  /\ MaxInCart \in [Options -> Nat] /\ MaxCreates \in Nat

\* Order.RESERVATION_MINUTES
ReservationMinutes == 10
\* The largest whole amount a Decimal(10, 2) column holds.
MaxAmount == 99999999

VARIABLES
  now,       \* the clock
  stock,     \* stock rows
  cart,      \* the quantities in each user's cart
  orders,    \* order rows, in the order of their creation
  payments,  \* payment rows
  issued,    \* coupons.issuedQuantity
  wallet,    \* user coupon rows
  creates,   \* how many CreateOrder requests there were
  leaked,    \* history: units that failed CreateOrder requests left reserved
  forfeited  \* history: user coupons used up by orders that were then refused

history == <<leaked, forfeited>>
vars == <<now, stock, cart, orders, payments, issued, wallet, creates, history>>

Nothing == [g \in Goods |-> 0]
Plus(a, b) == [g \in Goods |-> a[g] + b[g]]
Only(units, some) == [g \in Goods |-> IF g \in some THEN units[g] ELSE 0]
\* What some of the orders contain together.
Contents(list, some) ==
  [g \in Goods |-> SumFunction([x \in some |-> list[x].items[g]])]

Init ==
  /\ now = 0
  /\ stock = SeedStock
  /\ cart = [u \in Users |-> Nothing]
  /\ orders = SeedOrders
  /\ payments = SeedPayments
  /\ issued = [c \in Coupons |-> SeedCoupons[c].issued]
  /\ wallet = SeedWallet
  /\ creates = 0
  /\ leaked = Nothing
  /\ forfeited = {}

-----------------------------------------------------------------------------
(***************************************************************************)
(* The cart.                                                               *)
(***************************************************************************)
\* validateStockAvailability
InStock(g, qty) == qty <= stock[g].available

SetLine(u, g, qty) ==
  /\ cart' = [cart EXCEPT ![u][g] = qty]
  /\ UNCHANGED <<now, stock, orders, payments, issued, wallet, creates, history>>

\* AddCartItem looks only at the quantity that is added.
AddItem(u, g, qty) ==
  /\ InStock(g, qty)
  /\ cart[u][g] + qty <= MaxInCart[g]
  /\ SetLine(u, g, cart[u][g] + qty)

\* UpdateCartItem looks at the stock for an increase; zero removes the line.
UpdateItem(u, g, qty) ==
  /\ cart[u][g] # 0
  /\ qty > cart[u][g] => InStock(g, qty)
  /\ SetLine(u, g, qty)

\* RemoveCartItem
RemoveItem(u, g) == cart[u][g] # 0 /\ SetLine(u, g, 0)

ClearCart(u) ==
  /\ cart' = [cart EXCEPT ![u] = Nothing]
  /\ UNCHANGED <<now, stock, orders, payments, issued, wallet, creates, history>>

-----------------------------------------------------------------------------
(***************************************************************************)
(* Coupons.                                                                *)
(***************************************************************************)
Fresh(u, c) ==
  [user |-> u, coupon |-> c, usedAt |-> Never, expiresAt |-> SeedCoupons[c].until]

IsValid(c) == SeedCoupons[c].from <= now /\ now <= SeedCoupons[c].until
CanBeAppliedTo(c, total) == total >= SeedCoupons[c].min

\* IssueCoupon: one per user, while there are some, within their time.
IssueCoupon(u, c) ==
  /\ \A w \in wallet : ~(w.user = u /\ w.coupon = c)
  /\ issued[c] < SeedCoupons[c].total
  /\ IsValid(c)
  /\ issued' = [issued EXCEPT ![c] = @ + 1]
  /\ wallet' = wallet \cup {Fresh(u, c)}
  /\ UNCHANGED <<now, stock, cart, orders, payments, creates, history>>

IsExpired(w) == now > w.expiresAt
IsUsed(w) == w.usedAt # Never

\* applyCoupon up to its save.
Accepted(u, w, total) ==
  /\ w.user = u
  /\ ~IsExpired(w)
  /\ ~IsUsed(w)
  /\ CanBeAppliedTo(w.coupon, total)

\* Mutant: the entity is marked, the row is not.
UsedForgotten(w) == wallet

\* ... and its save.
Used(w) == (wallet \ {w}) \cup {[w EXCEPT !.usedAt = now]}

-----------------------------------------------------------------------------
(***************************************************************************)
(* Orders.                                                                 *)
(***************************************************************************)
\* Units moved in every row, as the stock use cases do one row at a time.
Move(kind, rows, units) == [g \in Goods |-> Moved(kind, rows[g], units[g])]

\* The price a line is put into the cart with, and copied to the order with.
LinePrice(g) == Price[g]

Subtotal(g, qty) == LinePrice(g) * qty
Total(items) == SumFunction([g \in Goods |-> Subtotal(g, items[g])])

Wanted(u) == {g \in Goods : cart[u][g] > 0}

\* The lines ReserveStock refuses.
Short(u) == {g \in Wanted(u) : ~Allowed("reserve", stock[g], cart[u][g])}

\* The lines are reserved in the order the database returns them; those before
\* the first that is refused stay reserved, for the try begins after the loop.
ReserveSome(u) ==
  \E done \in SUBSET (Wanted(u) \ Short(u)) :
    /\ stock' = Move("reserve", stock, Only(cart[u], done))
    /\ leaked' = Plus(leaked, Only(cart[u], done))
    /\ UNCHANGED <<cart, orders, wallet, forfeited>>

\* Mutant: the catch forgets the reservations.
UndoNothing(rows, units) == rows

\* Mutant: it releases twice.
UndoTwice(rows, units) == Move("release", Move("release", rows, units), units)

\* The catch.
Undo(rows, units) == Move("release", rows, units)

\* Order.create insists on something to pay; the row must fit its columns.
Orderable(total, discount) == total - discount > 0 /\ total <= MaxAmount

NewOrder(u, coupon, discount) ==
  [user |-> u, items |-> cart[u], coupon |-> coupon, total |-> Total(cart[u]),
   discount |-> discount, status |-> "PENDING",
   expiresAt |-> now + ReservationMinutes, paidAt |-> Never]

\* The order is created and saved and the cart deleted; or it is refused, and
\* what was reserved is released, but a coupon stays used.
PlaceOrder(u, coupon, discount) ==
  LET reserved == Move("reserve", stock, cart[u]) IN
  IF Orderable(Total(cart[u]), discount)
  THEN /\ stock' = reserved
       /\ orders' = Append(orders, NewOrder(u, coupon, discount))
       /\ cart' = [cart EXCEPT ![u] = Nothing]
       /\ UNCHANGED history
  ELSE /\ stock' = Undo(reserved, cart[u])
       /\ forfeited' = forfeited \cup ({<<u, coupon>>} \ {<<u, NoCoupon>>})
       /\ UNCHANGED <<cart, orders, leaked>>

\* CreateOrder, without a coupon and with a user coupon that is accepted.  One
\* that is not only has the reservations undone.
CreateOrder(u) ==
  /\ creates < MaxCreates
  /\ creates' = creates + 1
  /\ Wanted(u) # {}
  /\ \/ Short(u) # {} /\ ReserveSome(u)
     \/ /\ Short(u) = {}
        /\ PlaceOrder(u, NoCoupon, 0)
        /\ UNCHANGED wallet
     \/ /\ Short(u) = {}
        /\ \E w \in wallet :
             /\ Accepted(u, w, Total(cart[u]))
             /\ wallet' = Used(w)
             /\ \E d \in Discounts(SeedCoupons[w.coupon], Total(cart[u])) :
                  PlaceOrder(u, w.coupon, d)
  /\ UNCHANGED <<now, payments, issued>>

-----------------------------------------------------------------------------
\* Mutant: the discount is forgotten.
AmountDueInFull(o) == o.total

\* finalAmount
AmountDue(o) == o.total - o.discount

NewPayment(x) ==
  [order |-> x, amount |-> AmountDue(orders[x]), status |-> "COMPLETED"]

\* completeOrder: charge, save the payment, confirm the stock, complete the
\* order.  Nothing in it is refused after the charge as long as the books are
\* right (Books), so there is nothing to compensate.
CompleteOrder(x) ==
  LET o == orders[x] IN
  /\ \A p \in payments : p.order # x
  /\ o.status = "PENDING"
  /\ ~(now > o.expiresAt)
  /\ AmountDue(o) > 0
  /\ \A g \in Goods : o.items[g] > 0 => Allowed("confirm", stock[g], o.items[g])
  /\ payments' = payments \cup {NewPayment(x)}
  /\ stock' = Move("confirm", stock, o.items)
  /\ orders' = [orders EXCEPT ![x].status = "COMPLETED", ![x].paidAt = now]
  /\ UNCHANGED <<now, cart, issued, wallet, creates, history>>

\* Mutant: an order that expires this very minute is cancelled.
DueEarly(x) == orders[x].status = "PENDING" /\ orders[x].expiresAt <= now

\* findExpiredPendingOrders
Due(x) == orders[x].status = "PENDING" /\ orders[x].expiresAt < now

\* A run of ReleaseExpiredReservationJob: release the items of every expired
\* order and cancel it.
RunJob ==
  LET due == {x \in DOMAIN orders : Due(x)} IN
  /\ due # {}
  /\ stock' = Move("release", stock, Contents(orders, due))
  /\ orders' = [x \in DOMAIN orders |->
                  IF x \in due THEN [orders[x] EXCEPT !.status = "CANCELED"]
                  ELSE orders[x]]
  /\ UNCHANGED <<now, cart, payments, issued, wallet, creates, history>>

Tick ==
  /\ now' \in {t \in Instants : t > now}
  /\ UNCHANGED <<stock, cart, orders, payments, issued, wallet, creates, history>>

Next ==
  \/ \E a \in Additions : AddItem(a.user, a.option, a.qty)
  \/ \E u \in Users :
       \/ \E g \in Options, q \in Quantities : UpdateItem(u, g, q)
       \/ \E g \in Options : RemoveItem(u, g)
       \/ ClearCart(u)
       \/ \E c \in Coupons : IssueCoupon(u, c)
       \/ CreateOrder(u)
  \/ \E x \in DOMAIN orders : CompleteOrder(x)
  \/ RunJob
  \/ Tick

Spec == Init /\ [][Next]_vars

-----------------------------------------------------------------------------
\* Types of the variables; no counter is negative and no row overbooked.
TypeOK ==
  /\ now \in Instants
  /\ stock \in [Goods -> StockRow] /\ \A g \in Goods : Valid(stock[g])
  /\ cart \in [Users -> Amounts]
  /\ orders \in Seq(OrderRow)
  /\ payments \subseteq PaymentRow
  /\ issued \in [Coupons -> Nat]
  /\ wallet \subseteq UserCouponRow
  /\ creates \in 0..MaxCreates
  /\ leaked \in Amounts
  /\ forfeited \subseteq Users \X Coupons

Having(list, statuses) == {x \in DOMAIN list : list[x].status \in statuses}

\* A unit sold belongs to a paid order, a unit reserved to a pending one or to a
\* request that leaked it.
BooksAgree(rows, list, lost) ==
  LET paid == Contents(list, Having(list, {"COMPLETED", "PAID"}))
      pending == Contents(list, Having(list, {"PENDING"}))
  IN \A g \in Goods :
       /\ Balanced(rows[g])
       /\ rows[g].sold = paid[g]
       /\ rows[g].reserved = pending[g] + lost[g]

\* The stock agrees with the orders: what is sold belongs to paid orders, what
\* is reserved to pending ones or to a CreateOrder that failed half way, and
\* nothing is lost or made on the way through cart, order, payment and job.
Books == BooksAgree(stock, orders, leaked)

PaymentsOf(x, rows) == {p \in rows : p.order = x}

\* An order with its payments: one payment, of what was due and in time, or none.
PaidOrNot(o, its) ==
  IF o.status \in {"COMPLETED", "PAID"}
  THEN /\ Cardinality(its) = 1
       /\ \A p \in its : p.amount = o.total - o.discount /\ p.amount > 0
       /\ Never < o.paidAt /\ o.paidAt <= o.expiresAt
  ELSE its = {} /\ o.paidAt = Never

PaidOnce(list, rows) ==
  \A x \in DOMAIN list : PaidOrNot(list[x], PaymentsOf(x, rows))

\* The discount of an order: none without a coupon, and none that is too high.
Discounted(o) ==
  /\ o.coupon = NoCoupon => o.discount = 0
  /\ o.coupon # NoCoupon =>
       LET k == SeedCoupons[o.coupon] IN
       /\ o.total >= k.min
       /\ o.discount <= (IF k.type = "FIXED" THEN k.value ELSE (o.total * k.value) \div 100)

\* Money: an order is paid if and only if it has one payment, of its total less
\* its discount and above zero, made in time; a discount is at most what the
\* coupon of the order is worth, and there is none without a coupon (the seed's
\* first order aside).
Money ==
  /\ PaidOnce(orders, payments)
  /\ \A x \in DOMAIN orders \ DOMAIN SeedOrders : Discounted(orders[x])

\* The rows the shop opens with agree with one another, as those of the seed do:
\* stock with orders, orders with payments, a coupon of a kind per user.
ASSUME SeedAssumption ==
  /\ BooksAgree(SeedStock, SeedOrders, Nothing)
  /\ PaidOnce(SeedOrders, SeedPayments)
  /\ \A p \in SeedPayments : p.order \in DOMAIN SeedOrders
  /\ \A x \in DOMAIN SeedOrders : SeedOrders[x].coupon = NoCoupon
  /\ \A v, w \in SeedWallet : v.user = w.user /\ v.coupon = w.coupon => v = w
  /\ \A c \in Coupons : SeedCoupons[c].issued <= SeedCoupons[c].total

OrdersWith(w) ==
  {x \in DOMAIN orders : orders[x].user = w.user /\ orders[x].coupon = w.coupon}

\* A user coupon is used if and only if it was when the shop opened, or one order
\* has it, or an order that was refused took it.
UsedOnce(w) ==
  LET before == w \in SeedWallet /\ IsUsed(w)
      forfeit == <<w.user, w.coupon>> \in forfeited
  IN Cardinality(OrdersWith(w)) + (IF before THEN 1 ELSE 0) + (IF forfeit THEN 1 ELSE 0)
       = (IF IsUsed(w) THEN 1 ELSE 0)

\* Every coupon handed out is counted, within its total.
Counted(c) ==
  LET handed(rows) == Cardinality({w \in rows : w.coupon = c})
  IN /\ issued[c] + handed(SeedWallet) = SeedCoupons[c].issued + handed(wallet)
     /\ issued[c] <= SeedCoupons[c].total

\* Coupons: a user coupon is used once and counted once, and nobody has two of a
\* kind.
CouponBooks ==
  /\ \A w \in wallet : UsedOnce(w)
  /\ \A c \in Coupons : Counted(c)
  /\ Cardinality({<<w.user, w.coupon>> : w \in wallet}) = Cardinality(wallet)

\* An order keeps what was ordered and at what price for good; it leaves PENDING
\* once, paid at the latest in the minute it expires in and cancelled only after
\* it, so that at any time either the customer or the job can have it, not both.
SettledOnTime ==
  [][\A x \in DOMAIN orders :
       /\ x \in DOMAIN orders'
       /\ orders'[x] # orders[x] =>
            LET o == orders[x]
                n == orders'[x]
            IN /\ o.status = "PENDING"
               /\ \/ n.status = "COMPLETED" /\ now <= o.expiresAt
                  \/ n.status = "CANCELED" /\ now > o.expiresAt
               /\ n = [o EXCEPT !.status = n.status, !.paidAt = n.paidAt]]_vars
=============================================================================
