----------------------------- MODULE CreateOrder -----------------------------
(***************************************************************************)
(* CreateOrderUseCase: read the cart, reserve its items one by one, use a  *)
(* coupon if one is given, save the order, delete the cart; when something *)
(* fails after the reservations, the catch releases them.                  *)
(*                                                                         *)
(* No lock and no transaction spans two steps. A movement of stock is one  *)
(* step of StockLedger, which StockTx is shown to implement; only other    *)
(* creations move the same rows here (payments and the job, which sell and *)
(* release what was reserved, are in OrderFlow). Products and options of   *)
(* cart items exist: no code deletes them, and conversions of cart items,  *)
(* which only read them, belong to the step that follows.                  *)
(***************************************************************************)
EXTENDS StockEntity, CouponRules, Sequences, FiniteSets

CONSTANTS
  Users, Options, Seed,
  Carts,       \* what each user puts into a cart: the items in order and the
               \* sum of their subtotals
  MaxFills,    \* bound: how often a user fills a cart
  Coupons,     \* user coupons
  CouponData,  \* owner, type, value and minimal amount of each of them
  Calls,       \* calls of the use case
  Input,       \* the user and the coupon (or NoCoupon) of each call
  Troubles,    \* which troubles can happen, a subset of
               \*   "overlap"  calls overlap
               \*   "error"    a step of a call fails without effect
               \*   "lost"     a step takes effect but its answer is lost
               \*   "swallow"  a release fails, which its use case only logs
               \*   "crash"    the process dies between two steps
  NoCart, NoCoupon, NoOrder

CartItem == [option : Options, qty : Nat]
CartContent == [items : Seq(CartItem), total : Nat]
CouponRow == [owner : Users, type : {"PERCENTAGE", "FIXED"}, value : Nat, min : Nat]
CartRow == [id : Nat, content : CartContent]
OrderRow == [items : Seq(CartItem), coupon : Coupons \cup {NoCoupon},
             total : Nat, discount : Int]
Movement == [who : Calls, kind : Kinds, item : Nat]

ASSUME CreateOrderAssumption ==
  /\ Carts \in [Users -> CartContent]
  /\ MaxFills \in Nat
  /\ CouponData \in [Coupons -> CouponRow]
  /\ Input \in [Calls -> [user : Users, coupon : Coupons \cup {NoCoupon}]]
  /\ Seed \in [Options -> StockRow]
  /\ \A o \in Options : Valid(Seed[o]) /\ Balanced(Seed[o])
  /\ NoCart \notin CartRow /\ NoCoupon \notin Coupons /\ NoOrder \notin OrderRow

VARIABLES
  stock, ledger,  \* StockLedger
  cart,      \* the cart row of each user, with its items, if any
  fills,     \* how many carts each user has filled
  used,      \* the user coupons that are marked used
  orders,    \* the order row each call has saved, if any
  pc,        \* where each call is
  item,      \* the item its loop is at
  basket,    \* its copy of the cart
  discount,  \* discountAmount
  swallowed  \* history: the items whose release failed and was only logged

stockVars == <<stock, ledger>>
cartVars == <<cart, fills>>
locals == <<basket, discount, swallowed>>
vars == <<stockVars, cartVars, used, orders, pc, item, locals>>

Stock == INSTANCE StockLedger WITH
           Requests <- Movement,
           Quantities <- Nat

CallSteps == {"findCart", "reserve", "useCoupon", "saveCoupon", "saveOrder",
              "clearCart", "release"}

User(c) == Input[c].user
Coupon(c) == Input[c].coupon
\* cartItems
Lines(c) == basket[c].content.items

Init ==
  /\ Stock!Init
  /\ cart = [u \in Users |-> NoCart]
  /\ fills = [u \in Users |-> 0]
  /\ used = {}
  /\ orders = [c \in Calls |-> NoOrder]
  /\ pc = [c \in Calls |-> "idle"]
  /\ item = [c \in Calls |-> 1]
  /\ basket = [c \in Calls |-> [id |-> 0, content |-> [items |-> <<>>, total |-> 0]]]
  /\ discount = [c \in Calls |-> 0]
  /\ swallowed = {}

-----------------------------------------------------------------------------
Running(c) == pc[c] \in CallSteps
Quiet == \A c \in Calls : ~Running(c)

Goto(c, from, to) == pc[c] = from /\ pc' = [pc EXCEPT ![c] = to]

\* Mutant: the reservations are made inside the try.
HandlerOfAll(step) == IF step = "findCart" THEN "threw" ELSE "release"

\* The try begins after the reservations.
Handler(step) == IF step \in {"findCart", "reserve"} THEN "threw" ELSE "release"

\* The step fails, without effect.
Raise(c, from) ==
  /\ Goto(c, from, Handler(from))
  /\ item' = [item EXCEPT ![c] = 1]

\* The step takes effect; its answer arrives, or is lost and reads as a failure.
Take(c, from, to, nextItem) ==
  \/ Goto(c, from, to) /\ item' = [item EXCEPT ![c] = nextItem]
  \/ "lost" \in Troubles /\ Raise(c, from)

Op(c, kind) ==
  [kind |-> kind, option |-> Lines(c)[item[c]].option, qty |-> Lines(c)[item[c]].qty]
Move(c, kind) ==
  Stock!Apply([who |-> c, kind |-> kind, item |-> item[c]], Op(c, kind))
Refused(c, kind) ==
  ~Allowed(kind, stock[Lines(c)[item[c]].option], Lines(c)[item[c]].qty)

-----------------------------------------------------------------------------
Call(c) ==
  /\ "overlap" \in Troubles \/ Quiet
  /\ Goto(c, "idle", "findCart")
  /\ UNCHANGED <<stockVars, cartVars, used, orders, item, locals>>

\* Mutant: a missing cart is not noticed.
FindCartUnchecked(c) ==
  /\ Goto(c, "findCart", "reserve")
  /\ basket' = [basket EXCEPT ![c] = cart[User(c)]]
  /\ UNCHANGED <<stockVars, cartVars, used, orders, item, discount, swallowed>>

\* findByUserId: a missing or an empty cart ends the call.
FindCart(c) ==
  LET row == cart[User(c)] IN
  /\ IF row = NoCart \/ row.content.items = <<>>
     THEN Goto(c, "findCart", "threw") /\ UNCHANGED basket
     ELSE /\ Goto(c, "findCart", "reserve")
          /\ basket' = [basket EXCEPT ![c] = row]
  /\ UNCHANGED <<stockVars, cartVars, used, orders, item, discount, swallowed>>

\* Mutant: off by one.
LastItemEarly(c) == item[c] >= Len(Lines(c)) - 1

LastItem(c) == item[c] = Len(Lines(c))

AfterReserve(c) == IF Coupon(c) = NoCoupon THEN "saveOrder" ELSE "useCoupon"

\* ReserveStockUseCase, one item per step.
ReserveItem(c) ==
  /\ pc[c] = "reserve"
  /\ \/ /\ Move(c, "reserve")
        /\ IF LastItem(c)
           THEN Take(c, "reserve", AfterReserve(c), 1)
           ELSE Take(c, "reserve", "reserve", item[c] + 1)
     \/ /\ Refused(c, "reserve")
        /\ Raise(c, "reserve")
        /\ UNCHANGED stockVars
  /\ UNCHANGED <<cartVars, used, orders, locals>>

\* applyCoupon up to its save: the user coupon is read and must be the caller's,
\* unused and unexpired (the clock is a choice), the amount high enough.
UseCoupon(c) ==
  LET k == CouponData[Coupon(c)]
      total == basket[c].content.total IN
  /\ pc[c] = "useCoupon"
  /\ \/ /\ k.owner = User(c) /\ Coupon(c) \notin used /\ total >= k.min
        /\ Goto(c, "useCoupon", "saveCoupon")
        /\ \E d \in Discounts(k, total) : discount' = [discount EXCEPT ![c] = d]
        /\ UNCHANGED item
     \/ Raise(c, "useCoupon") /\ UNCHANGED discount
  /\ UNCHANGED <<stockVars, cartVars, used, orders, basket, swallowed>>

\* ... and its save, an UPDATE of isUsed whatever the row says by now.
SaveCoupon(c) ==
  /\ Take(c, "saveCoupon", "saveOrder", 1)
  /\ used' = used \cup {Coupon(c)}
  /\ UNCHANGED <<stockVars, cartVars, orders, locals>>

NewOrder(c) == [items |-> Lines(c), coupon |-> Coupon(c),
                total |-> basket[c].content.total, discount |-> discount[c]]

\* Order.create, which insists on something to pay, and orderRepository.save.
SaveOrder(c) ==
  /\ pc[c] = "saveOrder"
  /\ \/ /\ NewOrder(c).total - NewOrder(c).discount > 0
        /\ orders' = [orders EXCEPT ![c] = NewOrder(c)]
        /\ Take(c, "saveOrder", "clearCart", 1)
     \/ /\ NewOrder(c).total - NewOrder(c).discount <= 0
        /\ Raise(c, "saveOrder")
        /\ UNCHANGED orders
  /\ UNCHANGED <<stockVars, cartVars, used, locals>>

\* clearByUserId: a DELETE that throws when the cart is gone.
ClearCart(c) ==
  /\ \/ /\ cart[User(c)] # NoCart
        /\ cart' = [cart EXCEPT ![User(c)] = NoCart]
        /\ Take(c, "clearCart", "returned", 1)
     \/ /\ cart[User(c)] = NoCart
        /\ Raise(c, "clearCart")
        /\ UNCHANGED cart
  /\ UNCHANGED <<stockVars, fills, used, orders, locals>>

\* One call of ReleaseStockUseCase, which logs its errors and returns: it can
\* be refused, and it can fail.
Release(c) ==
  \/ Move(c, "release") /\ UNCHANGED swallowed
  \/ Refused(c, "release") /\ UNCHANGED <<stockVars, swallowed>>
  \/ /\ "swallow" \in Troubles
     /\ swallowed' = swallowed \cup {<<c, item[c]>>}
     /\ UNCHANGED stockVars

\* Mutant: only the first item is released.
ReleaseFirst(c) ==
  /\ Goto(c, "release", "threw")
  /\ Release(c)
  /\ UNCHANGED <<cartVars, used, orders, item, basket, discount>>

\* The catch: one call of ReleaseStockUseCase per item of the cart.
ReleaseItem(c) ==
  /\ pc[c] = "release"
  /\ Release(c)
  /\ IF LastItem(c)
     THEN Goto(c, "release", "threw") /\ UNCHANGED item
     ELSE Goto(c, "release", "release") /\ item' = [item EXCEPT ![c] = @ + 1]
  /\ UNCHANGED <<cartVars, used, orders, basket, discount>>

\* An infrastructure error at a step.
StepFails(c) ==
  /\ "error" \in Troubles
  /\ \E step \in CallSteps \ {"release"} : Raise(c, step)
  /\ UNCHANGED <<stockVars, cartVars, used, orders, locals>>

\* The customer fills a new cart, through the cart use cases.
FillCart(u) ==
  /\ cart[u] = NoCart
  /\ fills[u] < MaxFills
  /\ "overlap" \in Troubles \/ Quiet
  /\ fills' = [fills EXCEPT ![u] = @ + 1]
  /\ cart' = [cart EXCEPT ![u] = [id |-> fills[u], content |-> Carts[u]]]
  /\ UNCHANGED <<stockVars, used, orders, pc, item, locals>>

Crash(c) ==
  /\ "crash" \in Troubles
  /\ Running(c)
  /\ pc' = [pc EXCEPT ![c] = "crashed"]
  /\ UNCHANGED <<stockVars, cartVars, used, orders, item, locals>>

CallStep(c) ==
  \/ FindCart(c) \/ ReserveItem(c) \/ UseCoupon(c) \/ SaveCoupon(c)
  \/ SaveOrder(c) \/ ClearCart(c) \/ ReleaseItem(c) \/ StepFails(c)

Next ==
  \/ \E c \in Calls : Call(c) \/ CallStep(c) \/ Crash(c)
  \/ \E u \in Users : FillCart(u)

Spec == Init /\ [][Next]_vars

\* A live process goes on with the call it runs.
FairSpec == Spec /\ \A c \in Calls : WF_vars(CallStep(c))

-----------------------------------------------------------------------------
\* Types of the variables.
TypeOK ==
  /\ stock \in [Options -> StockRow]
  /\ \A e \in ledger : e.by \in Movement /\ e.op \in Stock!Operation
  /\ cart \in [Users -> CartRow \cup {NoCart}]
  /\ fills \in [Users -> Nat]
  /\ used \subseteq Coupons
  /\ orders \in [Calls -> OrderRow \cup {NoOrder}]
  /\ pc \in [Calls -> CallSteps \cup {"idle", "returned", "threw", "crashed"}]
  /\ item \in [Calls -> Nat]
  /\ basket \in [Calls -> CartRow]
  /\ discount \in [Calls -> Int]
  /\ swallowed \subseteq Calls \X Nat

Moves(c, kind, i) ==
  {e \in ledger : e.by = [who |-> c, kind |-> kind, item |-> i]}

Reserved(c, i) == Moves(c, "reserve", i) # {}
Released(c, i) == Moves(c, "release", i) # {}

\* A call holds the units of an item it has reserved and not given back.
HoldsItem(c, i) == Reserved(c, i) /\ ~Released(c, i)

\* The customer who is told that the order is made has an order, the units of
\* all its items, and paid for the discount with the coupon: whatever fails,
\* overlaps or is lost in between, the call that swallowed it does not return.
ReturnedIsOrdered ==
  \A c \in Calls :
    pc[c] = "returned" =>
      /\ orders[c] # NoOrder
      /\ orders[c].items = Lines(c)
      /\ \A i \in DOMAIN Lines(c) : HoldsItem(c, i)
      /\ orders[c].coupon = Coupon(c)
      /\ Coupon(c) \in used \cup {NoCoupon}

\* What a call gives back it had reserved: the catch never hands out units that
\* belong to somebody else's order.
GivesBackOwn ==
  \A e \in ledger :
    e.by.kind = "release" =>
      \E d \in ledger : /\ d.by = [e.by EXCEPT !.kind = "reserve"]
                        /\ d.op = [e.op EXCEPT !.kind = "reserve"]

-----------------------------------------------------------------------------
(***************************************************************************)
(* The parts of the inductive invariant of the proofs.                     *)
(***************************************************************************)
\* Steps of a call that has reserved all the items of its cart.
AfterReservations ==
  {"useCoupon", "saveCoupon", "saveOrder", "clearCart", "release", "returned"}

\* A call in a loop is at an item of its cart, and has done the items before.
Loops ==
  \A c \in Calls :
    /\ pc[c] \notin {"reserve", "release", "threw", "crashed"} => item[c] = 1
    /\ pc[c] \in {"reserve", "release"} => item[c] \in 1..Len(Lines(c))
    /\ pc[c] = "reserve" => \A i \in 1..(item[c] - 1) : Reserved(c, i)
    /\ pc[c] \in AfterReservations =>
         Lines(c) # <<>> /\ \A i \in DOMAIN Lines(c) : Reserved(c, i)

\* Calls move the items of their carts, and give back only in the catch.
OwnMoves ==
  \A e \in ledger :
    /\ e.by.who \in Calls /\ e.by.kind \in {"reserve", "release"}
    /\ pc[e.by.who] \notin {"idle", "findCart"}
    /\ e.by.kind = "release" => pc[e.by.who] \in {"release", "threw", "crashed"}
    /\ e.op = [kind |-> e.by.kind,
               option |-> Lines(e.by.who)[e.by.item].option,
               qty |-> Lines(e.by.who)[e.by.item].qty]

\* What a call has done by the time it gets to a step after the reservations.
Done ==
  \A c \in Calls :
    /\ pc[c] \in {"useCoupon", "saveCoupon"} => Coupon(c) # NoCoupon
    /\ pc[c] \in {"saveOrder", "clearCart", "returned"} =>
         Coupon(c) \in used \cup {NoCoupon}
    /\ pc[c] \in {"clearCart", "returned"} =>
         /\ orders[c] # NoOrder
         /\ orders[c].items = Lines(c)
         /\ orders[c].coupon = Coupon(c)

Inv == TypeOK /\ Loops /\ OwnMoves /\ Done /\ GivesBackOwn

-----------------------------------------------------------------------------
\* A call that enters the catch ends with all its units given back, except those
\* whose release failed and was swallowed, unless its process dies.  Only other
\* creations move the rows meanwhile: that a payment or the job has released the
\* same units before, so that the release is refused, is not in this module.
CatchUndoes ==
  \A c \in Calls :
    pc[c] = "release" ~>
      \/ pc[c] = "crashed"
      \/ /\ pc[c] = "threw"
         /\ \A i \in DOMAIN Lines(c) : HoldsItem(c, i) => <<c, i>> \in swallowed
=============================================================================
