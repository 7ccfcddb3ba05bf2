------------------------- MODULE CreateOrderProofs -------------------------
(***************************************************************************)
(* Proofs about CreateOrder, for any users, carts, coupons, calls, seed,   *)
(* and whatever troubles happen.                                           *)
(***************************************************************************)
EXTENDS CreateOrder, BaseLemmas, SequenceTheorems

\* The item a loop of a call is at is an item of its cart.
LEMMA ItemType ==
  ASSUME TypeOK, NEW c \in Calls, item[c] \in 1..Len(Lines(c)), NEW kind \in Kinds
  PROVE  /\ Lines(c)[item[c]].option \in Options
         /\ Lines(c)[item[c]].qty \in Nat
         /\ Op(c, kind) \in Stock!Operation
<1>1. Lines(c) \in Seq(CartItem)
  BY DEF TypeOK, Lines, CartRow, CartContent
<1>2. Lines(c)[item[c]] \in CartItem
  BY <1>1, ElementOfSeq
<1>3. QED
  BY <1>2 DEF CartItem, Op, Stock!Operation, Kinds, Stock!Kinds

\* A movement keeps the rows typed and adds one entry to the ledger.
LEMMA MoveType ==
  ASSUME TypeOK, NEW c \in Calls, item[c] \in 1..Len(Lines(c)),
         NEW kind \in Kinds, Move(c, kind)
  PROVE  /\ stock' \in [Options -> StockRow]
         /\ \A e \in ledger' : e.by \in Movement /\ e.op \in Stock!Operation
         /\ ledger' = ledger \cup
              {[by |-> [who |-> c, kind |-> kind, item |-> item[c]], op |-> Op(c, kind)]}
<1> DEFINE by == [who |-> c, kind |-> kind, item |-> item[c]]
           op == Op(c, kind)
<1>1. /\ op \in Stock!Operation
      /\ op.kind = kind /\ op.option \in Options /\ op.qty \in Int
  BY ItemType DEF Op
<1>2. /\ Allowed(kind, stock[op.option], op.qty)
      /\ stock' = [stock EXCEPT ![op.option] = Moved(kind, @, op.qty)]
      /\ ledger' = ledger \cup {[by |-> by, op |-> op]}
  BY <1>1 DEF Move, Stock!Apply, Stock!Allowed, Stock!Source, Stock!Moved,
              Allowed, Source, Moved
<1>3. stock[op.option] \in StockRow
  BY <1>1 DEF TypeOK
<1>4. Moved(kind, stock[op.option], op.qty) \in StockRow
  BY <1>1, <1>2, <1>3, MovedIsValid
<1>5. by \in Movement
  BY DEF Movement, TypeOK
<1>6. QED
  BY <1>1, <1>2, <1>4, <1>5 DEF TypeOK

-----------------------------------------------------------------------------
\* Each part of the invariant survives a step of call c that establishes what
\* the part says of c.
LEMMA KeepsLoops ==
  ASSUME Inv, NEW c \in Calls, NEW to, NEW i,
         pc' = [pc EXCEPT ![c] = to], item' = [item EXCEPT ![c] = i],
         \A d \in Calls \ {c} : basket'[d] = basket[d],
         ledger \subseteq ledger',
         to \notin {"reserve", "release", "threw", "crashed"} => i = 1,
         to \in {"reserve", "release"} => i \in 1..Len(Lines(c)'),
         to = "reserve" => \A k \in 1..(i - 1) : Reserved(c, k)',
         to \in AfterReservations =>
           Lines(c)' # <<>> /\ \A k \in DOMAIN (Lines(c)') : Reserved(c, k)'
  PROVE  Loops'
<1>1. pc'[c] = to /\ item'[c] = i
  BY DEF Inv, TypeOK
<1>2. \A d \in Calls \ {c} :
        pc'[d] = pc[d] /\ item'[d] = item[d] /\ Lines(d)' = Lines(d)
  BY DEF Inv, TypeOK, Lines
<1>3. \A d \in Calls : \A k : Reserved(d, k) => Reserved(d, k)'
  BY DEF Reserved, Moves
<1>4. ASSUME NEW d \in Calls
      PROVE  /\ pc'[d] \notin {"reserve", "release", "threw", "crashed"} => item'[d] = 1
             /\ pc'[d] \in {"reserve", "release"} => item'[d] \in 1..Len(Lines(d)')
             /\ pc'[d] = "reserve" => \A k \in 1..(item'[d] - 1) : Reserved(d, k)'
             /\ pc'[d] \in AfterReservations =>
                  Lines(d)' # <<>> /\ \A k \in DOMAIN (Lines(d)') : Reserved(d, k)'
  <2>1. CASE d = c
    BY <1>1, <2>1
  <2>2. CASE d # c
    BY <1>2, <1>3, <2>2 DEF Inv, Loops
  <2>3. QED
    BY <2>1, <2>2
<1>5. QED
  BY <1>4 DEF Loops, AfterReservations

LEMMA KeepsDone ==
  ASSUME Inv, NEW c \in Calls, NEW to,
         pc' = [pc EXCEPT ![c] = to],
         \A d \in Calls \ {c} : basket'[d] = basket[d] /\ orders'[d] = orders[d],
         used \subseteq used',
         to \in {"useCoupon", "saveCoupon"} => Coupon(c) # NoCoupon,
         to \in {"saveOrder", "clearCart", "returned"} =>
           Coupon(c) \in used' \cup {NoCoupon},
         to \in {"clearCart", "returned"} =>
           /\ orders'[c] # NoOrder
           /\ orders'[c].items = Lines(c)'
           /\ orders'[c].coupon = Coupon(c)
  PROVE  Done'
<1>1. pc'[c] = to
  BY DEF Inv, TypeOK
<1>2. \A d \in Calls \ {c} :
        pc'[d] = pc[d] /\ orders'[d] = orders[d] /\ Lines(d)' = Lines(d)
  BY DEF Inv, TypeOK, Lines
<1>3. ASSUME NEW d \in Calls
      PROVE  /\ pc'[d] \in {"useCoupon", "saveCoupon"} => Coupon(d) # NoCoupon
             /\ pc'[d] \in {"saveOrder", "clearCart", "returned"} =>
                  Coupon(d) \in used' \cup {NoCoupon}
             /\ pc'[d] \in {"clearCart", "returned"} =>
                  /\ orders'[d] # NoOrder
                  /\ orders'[d].items = Lines(d)'
                  /\ orders'[d].coupon = Coupon(d)
  <2>1. CASE d = c
    BY <1>1, <2>1
  <2>2. CASE d # c
    BY <1>2, <2>2 DEF Inv, Done
  <2>3. QED
    BY <2>1, <2>2
<1>4. QED
  BY <1>3 DEF Done, Coupon

\* A step that moves no units.
LEMMA KeepsLedger ==
  ASSUME Inv, NEW c \in Calls, NEW to,
         pc' = [pc EXCEPT ![c] = to],
         \A d \in Calls \ {c} : basket'[d] = basket[d],
         UNCHANGED ledger,
         pc[c] \in {"idle", "findCart"} \/ basket'[c] = basket[c],
         pc[c] \in {"idle", "findCart"} \/ to \notin {"idle", "findCart"},
         pc[c] \in {"release", "threw", "crashed"} =>
           to \in {"release", "threw", "crashed"}
  PROVE  OwnMoves' /\ GivesBackOwn'
<1>1. pc'[c] = to
  BY DEF Inv, TypeOK
<1>2. \A d \in Calls \ {c} : pc'[d] = pc[d] /\ Lines(d)' = Lines(d)
  BY DEF Inv, TypeOK, Lines
<1>3. pc[c] \notin {"idle", "findCart"} => Lines(c)' = Lines(c)
  BY DEF Lines
<1>4. ASSUME NEW e \in ledger
      PROVE  /\ e.by.who \in Calls /\ e.by.kind \in {"reserve", "release"}
             /\ pc'[e.by.who] \notin {"idle", "findCart"}
             /\ e.by.kind = "release" =>
                  pc'[e.by.who] \in {"release", "threw", "crashed"}
             /\ Lines(e.by.who)' = Lines(e.by.who)
             /\ e.op = [kind |-> e.by.kind,
                        option |-> Lines(e.by.who)[e.by.item].option,
                        qty |-> Lines(e.by.who)[e.by.item].qty]
  <2>0. /\ e.by.who \in Calls /\ e.by.kind \in {"reserve", "release"}
        /\ pc[e.by.who] \notin {"idle", "findCart"}
        /\ e.by.kind = "release" => pc[e.by.who] \in {"release", "threw", "crashed"}
        /\ e.op = [kind |-> e.by.kind,
                   option |-> Lines(e.by.who)[e.by.item].option,
                   qty |-> Lines(e.by.who)[e.by.item].qty]
    BY DEF Inv, OwnMoves
  <2>1. CASE e.by.who = c
    BY <2>0, <2>1, <1>1, <1>3
  <2>2. CASE e.by.who # c
    BY <2>0, <2>2, <1>2
  <2>3. QED
    BY <2>1, <2>2
<1>5. OwnMoves'
  BY <1>4, Zenon DEF OwnMoves, Lines
<1>6. GivesBackOwn'
  BY Zenon DEF Inv, GivesBackOwn
<1>7. QED
  BY <1>5, <1>6

\* A step that moves the units of the item the call is at.
LEMMA MoveKeeps ==
  ASSUME Inv, NEW c \in Calls, NEW kind \in {"reserve", "release"}, NEW to,
         NEW i, i = item[c], pc[c] = kind, Move(c, kind),
         pc' = [pc EXCEPT ![c] = to],
         to \notin {"idle", "findCart"},
         kind = "release" => to \in {"release", "threw"},
         UNCHANGED basket
  PROVE  /\ OwnMoves' /\ GivesBackOwn'
         /\ ledger \subseteq ledger'
         /\ kind = "reserve" => Reserved(c, i)'
         /\ stock' \in [Options -> StockRow]
         /\ \A e \in ledger' : e.by \in Movement /\ e.op \in Stock!Operation
<1> DEFINE by == [who |-> c, kind |-> kind, item |-> item[c]]
           new == [by |-> by, op |-> Op(c, kind)]
<1>1. TypeOK /\ item[c] \in 1..Len(Lines(c)) /\ kind \in Kinds
  BY DEF Inv, Loops, Kinds
<1>2. /\ ledger' = ledger \cup {new}
      /\ stock' \in [Options -> StockRow]
      /\ \A e \in ledger' : e.by \in Movement /\ e.op \in Stock!Operation
  BY <1>1, MoveType
<1>3. /\ new.by = by /\ by.who = c /\ by.kind = kind /\ by.item = item[c]
      /\ new.op = [kind |-> kind, option |-> Lines(c)[item[c]].option,
                   qty |-> Lines(c)[item[c]].qty]
  BY DEF Op
<1>4. pc'[c] = to /\ \A d \in Calls \ {c} : pc'[d] = pc[d]
  BY DEF Inv, TypeOK
<1>5. OwnMoves'
  <2>1. ASSUME NEW e \in ledger'
        PROVE  /\ e.by.who \in Calls /\ e.by.kind \in {"reserve", "release"}
               /\ pc'[e.by.who] \notin {"idle", "findCart"}
               /\ e.by.kind = "release" =>
                    pc'[e.by.who] \in {"release", "threw", "crashed"}
               /\ e.op = [kind |-> e.by.kind,
                          option |-> Lines(e.by.who)[e.by.item].option,
                          qty |-> Lines(e.by.who)[e.by.item].qty]
    <3>1. CASE e = new
      BY <1>3, <1>4, <3>1
    <3>2. CASE e \in ledger
      <4>1. /\ e.by.who \in Calls /\ e.by.kind \in {"reserve", "release"}
            /\ pc[e.by.who] \notin {"idle", "findCart"}
            /\ e.by.kind = "release" =>
                 pc[e.by.who] \in {"release", "threw", "crashed"}
            /\ e.op = [kind |-> e.by.kind,
                       option |-> Lines(e.by.who)[e.by.item].option,
                       qty |-> Lines(e.by.who)[e.by.item].qty]
        BY <3>2 DEF Inv, OwnMoves
      <4>2. QED
        BY <4>1, <1>4
    <3>3. QED
      BY <3>1, <3>2, <1>2
  <2>2. QED
    BY <2>1, Zenon DEF OwnMoves, Lines
<1>6. GivesBackOwn'
  <2>1. ASSUME NEW e \in ledger', e.by.kind = "release"
        PROVE  \E d \in ledger' : /\ d.by = [e.by EXCEPT !.kind = "reserve"]
                                  /\ d.op = [e.op EXCEPT !.kind = "reserve"]
    <3>1. CASE e = new
      <4>1. kind = "release"
        BY <2>1, <3>1, <1>3
      <4>2. Reserved(c, item[c])
        <5>1. item[c] \in DOMAIN Lines(c)
          BY <1>1 DEF TypeOK, Lines, CartRow, CartContent
        <5>2. QED
          BY <4>1, <5>1 DEF Inv, Loops, AfterReservations
      <4>3. PICK d \in ledger : d.by = [who |-> c, kind |-> "reserve", item |-> item[c]]
        BY <4>2 DEF Reserved, Moves
      <4>4. d.op = [kind |-> "reserve", option |-> Lines(c)[item[c]].option,
                    qty |-> Lines(c)[item[c]].qty]
        BY <4>3 DEF Inv, OwnMoves
      <4>5. /\ d.by = [by EXCEPT !.kind = "reserve"]
            /\ d.op = [new.op EXCEPT !.kind = "reserve"]
        BY <4>3, <4>4, <1>3
      <4>6. QED
        BY <4>5, <3>1, <1>2, <1>3
    <3>2. CASE e \in ledger
      BY <2>1, <3>2, <1>2 DEF Inv, GivesBackOwn
    <3>3. QED
      BY <3>1, <3>2, <1>2
  <2>2. QED
    BY <2>1, Zenon DEF GivesBackOwn
<1>7. kind = "reserve" => Reserved(c, i)'
  BY <1>2, <1>3 DEF Reserved, Moves
<1>8. QED
  BY <1>2, <1>5, <1>6, <1>7

-----------------------------------------------------------------------------
\* What the steps of a call do to everything but pc and item.
Rest(c) ==
  /\ stock' \in [Options -> StockRow]
  /\ \A e \in ledger' : e.by \in Movement /\ e.op \in Stock!Operation
  /\ cart' \in [Users -> CartRow \cup {NoCart}]
  /\ used \subseteq used' /\ used' \subseteq Coupons
  /\ orders' \in [Calls -> OrderRow \cup {NoOrder}]
  /\ \A d \in Calls \ {c} : orders'[d] = orders[d]
  /\ discount' \in [Calls -> Int]
  /\ swallowed' \subseteq Calls \X Nat
  /\ ledger \subseteq ledger'
  /\ UNCHANGED <<fills, basket>>

LEMMA StepKeeps ==
  ASSUME Inv, NEW c \in Calls, Rest(c), OwnMoves', GivesBackOwn',
         NEW to \in CallSteps \cup {"returned", "threw", "crashed"}, NEW i \in Nat,
         pc' = [pc EXCEPT ![c] = to], item' = [item EXCEPT ![c] = i],
         to \notin {"reserve", "release", "threw", "crashed"} => i = 1,
         to \in {"reserve", "release"} => i \in 1..Len(Lines(c)),
         to = "reserve" => \A k \in 1..(i - 1) : Reserved(c, k)',
         to \in AfterReservations =>
           Lines(c) # <<>> /\ \A k \in DOMAIN Lines(c) : Reserved(c, k)',
         to \in {"useCoupon", "saveCoupon"} => Coupon(c) # NoCoupon,
         to \in {"saveOrder", "clearCart", "returned"} =>
           Coupon(c) \in used' \cup {NoCoupon},
         to \in {"clearCart", "returned"} =>
           /\ orders'[c] # NoOrder
           /\ orders'[c].items = Lines(c)
           /\ orders'[c].coupon = Coupon(c)
  PROVE  Inv'
<1>1. TypeOK'
  BY DEF Inv, TypeOK, Rest
<1>2. Lines(c)' = Lines(c) /\ \A d \in Calls \ {c} : basket'[d] = basket[d]
  BY DEF Rest, Lines
<1>3. Loops'
  BY <1>2, KeepsLoops DEF Rest
<1>4. Done'
  BY <1>2, KeepsDone DEF Rest
<1>5. QED
  BY <1>1, <1>3, <1>4 DEF Inv

\* A step that fails or whose answer is lost.
LEMMA RaiseKeeps ==
  ASSUME Inv, NEW c \in Calls, Rest(c), OwnMoves', GivesBackOwn',
         NEW from \in CallSteps \ {"release"}, Raise(c, from)
  PROVE  Inv'
<1>1. /\ pc[c] = from
      /\ pc' = [pc EXCEPT ![c] = Handler(from)]
      /\ item' = [item EXCEPT ![c] = 1]
  BY DEF Raise, Goto
<1>2. CASE from \in {"findCart", "reserve"}
  BY <1>1, <1>2, StepKeeps DEF Handler, AfterReservations
<1>3. CASE from \notin {"findCart", "reserve"}
  <2>1. Handler(from) = "release" /\ from \in AfterReservations
    BY <1>3 DEF Handler, AfterReservations, CallSteps
  <2>2. Lines(c) # <<>> /\ \A k \in DOMAIN Lines(c) : Reserved(c, k)
    BY <1>1, <2>1 DEF Inv, Loops
  <2>3. Lines(c) \in Seq(CartItem)
    BY DEF Inv, TypeOK, Lines, CartRow, CartContent
  <2>4. 1 \in 1..Len(Lines(c))
    BY <2>2, <2>3
  <2>5. \A k \in DOMAIN Lines(c) : Reserved(c, k)'
    BY <2>2 DEF Reserved, Moves, Rest
  <2>6. QED
    BY <1>1, <2>1, <2>2, <2>4, <2>5, StepKeeps DEF CallSteps
<1>4. QED
  BY <1>2, <1>3

\* A step that moves no units and fails or whose answer is lost.
LEMMA RaiseStill ==
  ASSUME Inv, NEW c \in Calls, Rest(c), UNCHANGED ledger,
         NEW from \in CallSteps \ {"release"}, Raise(c, from)
  PROVE  Inv'
<1>1. /\ pc[c] = from
      /\ pc' = [pc EXCEPT ![c] = Handler(from)]
      /\ Handler(from) \in {"threw", "release"}
  BY DEF Raise, Goto, Handler
<1>2. OwnMoves' /\ GivesBackOwn'
  BY <1>1, KeepsLedger DEF Rest, CallSteps
<1>3. QED
  BY <1>2, RaiseKeeps

\* A step of c that reads, and leaves the tables alone.
LEMMA StillRest ==
  ASSUME Inv, NEW c \in Calls, UNCHANGED <<stockVars, cart, used, orders, discount, swallowed>>,
         UNCHANGED <<fills, basket>>
  PROVE  Rest(c) /\ UNCHANGED ledger
BY DEF Inv, TypeOK, Rest, stockVars

\* What holds of a call that has reserved its items.
LEMMA HasReserved ==
  ASSUME Inv, NEW c \in Calls, pc[c] \in AfterReservations
  PROVE  /\ Lines(c) \in Seq(CartItem) /\ Lines(c) # <<>>
         /\ \A k \in DOMAIN Lines(c) : Reserved(c, k)
         /\ 1 \in 1..Len(Lines(c))
<1>1. Lines(c) \in Seq(CartItem)
  BY DEF Inv, TypeOK, Lines, CartRow, CartContent
<1>2. Lines(c) # <<>> /\ \A k \in DOMAIN Lines(c) : Reserved(c, k)
  BY DEF Inv, Loops
<1>3. QED
  BY <1>1, <1>2

LEMMA CallInv ==
  ASSUME Inv, NEW c \in Calls, Call(c)
  PROVE  Inv'
<1>1. /\ pc[c] = "idle" /\ pc' = [pc EXCEPT ![c] = "findCart"]
      /\ item' = [item EXCEPT ![c] = 1] /\ Rest(c) /\ UNCHANGED ledger
  BY StillRest DEF Call, Goto, Inv, TypeOK, Loops, cartVars, locals
<1>2. OwnMoves' /\ GivesBackOwn'
  BY <1>1, KeepsLedger DEF Rest
<1>3. QED
  BY <1>1, <1>2, StepKeeps DEF AfterReservations, CallSteps

LEMMA FindCartInv ==
  ASSUME Inv, NEW c \in Calls, FindCart(c)
  PROVE  Inv'
<1> DEFINE row == cart[User(c)]
<1>0. /\ pc[c] = "findCart" /\ item[c] = 1
      /\ UNCHANGED <<stock, ledger, cart, fills, used, orders, item, discount, swallowed>>
  BY DEF FindCart, Goto, Inv, Loops, cartVars, stockVars
<1>1. CASE row = NoCart \/ row.content.items = <<>>
  <2>1. /\ pc' = [pc EXCEPT ![c] = "threw"]
        /\ item' = [item EXCEPT ![c] = 1]
        /\ UNCHANGED basket
    BY <1>0, <1>1 DEF FindCart, Goto, Inv, TypeOK
  <2>2. Rest(c)
    BY <1>0, <2>1, StillRest DEF stockVars
  <2>3. OwnMoves' /\ GivesBackOwn'
    BY <1>0, <2>1, KeepsLedger
  <2>4. QED
    BY <2>1, <2>2, <2>3, StepKeeps DEF AfterReservations
<1>2. CASE ~(row = NoCart \/ row.content.items = <<>>)
  <2>0. row \in CartRow /\ row.content.items # <<>>
    BY <1>2, CreateOrderAssumption DEF Inv, TypeOK, User
  <2>1. /\ pc' = [pc EXCEPT ![c] = "reserve"]
        /\ item' = [item EXCEPT ![c] = 1]
        /\ basket' = [basket EXCEPT ![c] = row]
        /\ basket' \in [Calls -> CartRow]
        /\ \A d \in Calls \ {c} : basket'[d] = basket[d]
        /\ basket'[c] = row
    BY <1>0, <1>2, <2>0 DEF FindCart, Goto, Inv, TypeOK
  <2>2. 1 \in 1..Len(Lines(c)')
    <3>1. Lines(c)' = row.content.items
      BY <2>1 DEF Lines
    <3>2. row.content.items \in Seq(CartItem)
      BY <2>0 DEF CartRow, CartContent
    <3>3. QED
      BY <3>1, <3>2, <2>0
  <2>3. TypeOK'
    BY <1>0, <2>1 DEF Inv, TypeOK, CallSteps
  <2>4. Loops'
    <3>1. \A k \in 1..(1 - 1) : Reserved(c, k)'
      OBVIOUS
    <3>2. ledger \subseteq ledger'
      BY <1>0
    <3>3. QED
      BY <2>1, <2>2, <3>1, <3>2, KeepsLoops DEF AfterReservations
  <2>5. Done'
    BY <1>0, <2>1, KeepsDone
  <2>6. OwnMoves' /\ GivesBackOwn'
    BY <1>0, <2>1, KeepsLedger
  <2>7. QED
    BY <2>3, <2>4, <2>5, <2>6 DEF Inv
<1>3. QED
  BY <1>1, <1>2

LEMMA ReserveItemInv ==
  ASSUME Inv, NEW c \in Calls, ReserveItem(c)
  PROVE  Inv'
<1>0. /\ pc[c] = "reserve" /\ item[c] \in 1..Len(Lines(c)) /\ item[c] \in Nat
      /\ \A k \in 1..(item[c] - 1) : Reserved(c, k)
      /\ UNCHANGED <<cart, fills, used, orders, basket, discount, swallowed>>
      /\ Lines(c) \in Seq(CartItem) /\ Lines(c) # <<>>
  <2>1. Lines(c) \in Seq(CartItem)
    BY DEF Inv, TypeOK, Lines, CartRow, CartContent
  <2>2. /\ pc[c] = "reserve" /\ item[c] \in 1..Len(Lines(c)) /\ item[c] \in Nat
        /\ \A k \in 1..(item[c] - 1) : Reserved(c, k)
        /\ UNCHANGED <<cart, fills, used, orders, basket, discount, swallowed>>
    BY DEF ReserveItem, Inv, TypeOK, Loops, cartVars, locals
  <2>3. QED
    BY <2>1, <2>2
<1>1. CASE Refused(c, "reserve") /\ Raise(c, "reserve") /\ UNCHANGED stockVars
  BY <1>0, <1>1, StillRest, RaiseStill DEF CallSteps
<1>2. ASSUME Move(c, "reserve"), NEW to, pc' = [pc EXCEPT ![c] = to],
             to \in {"threw", "reserve", AfterReserve(c)}
      PROVE  /\ OwnMoves' /\ GivesBackOwn' /\ Rest(c)
             /\ \A i : i = item[c] => Reserved(c, i)'
  <2>1. to \notin {"idle", "findCart"}
    BY <1>2 DEF AfterReserve
  <2>2. /\ OwnMoves' /\ GivesBackOwn'
        /\ ledger \subseteq ledger'
        /\ stock' \in [Options -> StockRow]
        /\ \A e \in ledger' : e.by \in Movement /\ e.op \in Stock!Operation
    BY <1>0, <1>2, <2>1, MoveKeeps
  <2>3. ASSUME NEW i, i = item[c] PROVE Reserved(c, i)'
    BY <1>0, <1>2, <2>1, <2>3, MoveKeeps
  <2>4. Rest(c)
    BY <1>0, <2>2 DEF Rest, Inv, TypeOK
  <2>5. QED
    BY <2>2, <2>3, <2>4
<1>3. CASE Move(c, "reserve") /\ "lost" \in Troubles /\ Raise(c, "reserve")
  <2>1. pc' = [pc EXCEPT ![c] = "threw"]
    BY <1>3 DEF Raise, Goto, Handler
  <2>2. OwnMoves' /\ GivesBackOwn' /\ Rest(c)
    BY <1>2, <1>3, <2>1
  <2>3. QED
    BY <1>3, <2>2, RaiseKeeps DEF CallSteps
<1>4. CASE Move(c, "reserve") /\ LastItem(c) /\ Goto(c, "reserve", AfterReserve(c))
           /\ item' = [item EXCEPT ![c] = 1]
  <2>1. pc' = [pc EXCEPT ![c] = AfterReserve(c)]
    BY <1>4 DEF Goto
  <2>2. /\ OwnMoves' /\ GivesBackOwn' /\ Rest(c)
        /\ \A i : i = item[c] => Reserved(c, i)'
    BY <1>2, <1>4, <2>1
  <2>3. \A k \in DOMAIN Lines(c) : Reserved(c, k)'
    <3>1. \A k \in 1..(item[c] - 1) : Reserved(c, k)'
      BY <1>0, <2>2 DEF Reserved, Moves, Rest
    <3>2. DOMAIN Lines(c) = 1..item[c]
      BY <1>0, <1>4 DEF LastItem
    <3>3. \A k \in 1..item[c] : k \in 1..(item[c] - 1) \/ k = item[c]
      BY <1>0
    <3>4. QED
      BY <2>2, <3>1, <3>2, <3>3
  <2>4. /\ AfterReserve(c) \in {"saveOrder", "useCoupon"}
        /\ AfterReserve(c) = "saveOrder" <=> Coupon(c) = NoCoupon
    BY DEF AfterReserve
  <2>5. QED
    BY <1>0, <1>4, <2>1, <2>2, <2>3, <2>4, StepKeeps DEF CallSteps
<1>5. CASE Move(c, "reserve") /\ ~LastItem(c) /\ Goto(c, "reserve", "reserve")
           /\ item' = [item EXCEPT ![c] = item[c] + 1]
  <2>1. pc' = [pc EXCEPT ![c] = "reserve"]
    BY <1>5 DEF Goto
  <2>2. /\ OwnMoves' /\ GivesBackOwn' /\ Rest(c)
        /\ \A i : i = item[c] => Reserved(c, i)'
    BY <1>2, <1>5, <2>1
  <2>3. PICK n \in Nat : n = item[c]
    BY <1>0
  <2>4. item[c] + 1 \in 1..Len(Lines(c))
    BY <1>0, <1>5 DEF LastItem
  <2>5. PICK i \in Nat : i = n + 1
    BY <2>3
  <2>6. \A k \in 1..(i - 1) : Reserved(c, k)'
    <3>1. \A k \in 1..(n - 1) : Reserved(c, k)'
      BY <1>0, <2>2, <2>3 DEF Reserved, Moves, Rest
    <3>2. \A k \in 1..(i - 1) : k \in 1..(n - 1) \/ k = n
      BY <2>5
    <3>3. QED
      BY <2>2, <2>3, <3>1, <3>2
  <2>7. QED
    BY <1>0, <1>5, <2>1, <2>2, <2>3, <2>4, <2>5, <2>6, StepKeeps
       DEF CallSteps, AfterReservations
<1>6. QED
  BY <1>1, <1>3, <1>4, <1>5 DEF ReserveItem, Take

LEMMA UseCouponInv ==
  ASSUME Inv, NEW c \in Calls, UseCoupon(c)
  PROVE  Inv'
<1> DEFINE k == CouponData[Coupon(c)]
           total == basket[c].content.total
<1>0. /\ pc[c] = "useCoupon" /\ item[c] = 1 /\ Coupon(c) \in Coupons
      /\ UNCHANGED <<stockVars, cart, fills, used, orders, basket, swallowed>>
  BY CreateOrderAssumption
     DEF UseCoupon, Inv, Loops, Done, cartVars, Coupon
<1>1. CASE Raise(c, "useCoupon") /\ UNCHANGED discount
  BY <1>0, <1>1, StillRest, RaiseStill DEF CallSteps
<1>2. CASE /\ Goto(c, "useCoupon", "saveCoupon") /\ UNCHANGED item
           /\ \E d \in Discounts(k, total) : discount' = [discount EXCEPT ![c] = d]
  <2>1. k.value \in Nat /\ total \in Nat
    BY <1>0, CreateOrderAssumption
       DEF CouponRow, Inv, TypeOK, CartRow, CartContent
  <2>2. PICK d \in Discounts(k, total) : discount' = [discount EXCEPT ![c] = d]
    BY <1>2
  <2>3. d \in Int
    <3>1. total * k.value \in Nat
      BY <2>1
    <3>2. (total * k.value) \div 100 \in Int /\ (total * k.value) \div 100 - 1 \in Int
      BY <3>1
    <3>3. QED
      BY <2>1, <2>2, <3>2 DEF Discounts
  <2>4. Rest(c) /\ UNCHANGED ledger
    BY <1>0, <2>2, <2>3 DEF Rest, Inv, TypeOK, stockVars
  <2>5. /\ pc' = [pc EXCEPT ![c] = "saveCoupon"]
        /\ item' = [item EXCEPT ![c] = 1]
    BY <1>0, <1>2 DEF Goto, Inv, TypeOK
  <2>6. OwnMoves' /\ GivesBackOwn'
    BY <1>0, <2>4, <2>5, KeepsLedger DEF Rest
  <2>7. \A i \in DOMAIN Lines(c) : Reserved(c, i)'
    BY <1>0, <2>4, HasReserved DEF AfterReservations, Reserved, Moves
  <2>8. Coupon(c) # NoCoupon
    BY <1>0 DEF Inv, Done
  <2>9. Lines(c) # <<>>
    BY <1>0, HasReserved DEF AfterReservations
  <2>10. QED
    BY <2>4, <2>5, <2>6, <2>7, <2>8, <2>9, StepKeeps DEF CallSteps
<1>3. QED
  BY <1>1, <1>2 DEF UseCoupon

\* A step between the reservations and the return that changes tables and
\* either goes on or reads as a failure.
LEMMA TakeInv ==
  ASSUME Inv, NEW c \in Calls, Rest(c), UNCHANGED ledger,
         NEW from \in {"saveCoupon", "saveOrder", "clearCart"},
         NEW to \in {"saveOrder", "clearCart", "returned"},
         Take(c, from, to, 1),
         Coupon(c) \in used' \cup {NoCoupon},
         to \in {"clearCart", "returned"} =>
           /\ orders'[c] # NoOrder
           /\ orders'[c].items = Lines(c)
           /\ orders'[c].coupon = Coupon(c)
  PROVE  Inv'
<1>1. CASE Raise(c, from)
  BY <1>1, RaiseStill DEF CallSteps
<1>2. CASE Goto(c, from, to) /\ item' = [item EXCEPT ![c] = 1]
  <2>1. pc[c] = from /\ pc' = [pc EXCEPT ![c] = to]
    BY <1>2 DEF Goto
  <2>2. OwnMoves' /\ GivesBackOwn'
    BY <2>1, KeepsLedger DEF Rest
  <2>3. Lines(c) # <<>> /\ \A k \in DOMAIN Lines(c) : Reserved(c, k)'
    BY <2>1, HasReserved DEF AfterReservations, Reserved, Moves
  <2>4. QED
    BY <1>2, <2>1, <2>2, <2>3, StepKeeps DEF CallSteps
<1>3. QED
  BY <1>1, <1>2 DEF Take

LEMMA SaveCouponInv ==
  ASSUME Inv, NEW c \in Calls, SaveCoupon(c)
  PROVE  Inv'
<1>1. /\ pc[c] = "saveCoupon" /\ Take(c, "saveCoupon", "saveOrder", 1)
      /\ used' = used \cup {Coupon(c)}
      /\ UNCHANGED <<stock, ledger, cart, fills, orders, basket, discount, swallowed>>
  BY DEF SaveCoupon, Take, Raise, Goto, stockVars, cartVars, locals
<1>2. Coupon(c) \in Coupons
  BY <1>1, CreateOrderAssumption DEF Inv, Done, Coupon
<1>3. Rest(c)
  BY <1>1, <1>2 DEF Rest, Inv, TypeOK
<1>4. QED
  BY <1>1, <1>3, TakeInv

LEMMA SaveOrderInv ==
  ASSUME Inv, NEW c \in Calls, SaveOrder(c)
  PROVE  Inv'
<1>0. /\ pc[c] = "saveOrder"
      /\ UNCHANGED <<stockVars, cart, fills, used, basket, discount, swallowed>>
  BY DEF SaveOrder, cartVars, locals
<1>1. CASE Raise(c, "saveOrder") /\ UNCHANGED orders
  BY <1>0, <1>1, StillRest, RaiseStill DEF CallSteps
<1>2. CASE /\ orders' = [orders EXCEPT ![c] = NewOrder(c)]
           /\ Take(c, "saveOrder", "clearCart", 1)
  <2>1. NewOrder(c) \in OrderRow
    BY CreateOrderAssumption
       DEF NewOrder, OrderRow, Inv, TypeOK, Lines, CartRow, CartContent, Coupon
  <2>2. /\ orders'[c] = NewOrder(c) /\ NewOrder(c) # NoOrder
        /\ NewOrder(c).items = Lines(c) /\ NewOrder(c).coupon = Coupon(c)
    BY <1>2, <2>1, CreateOrderAssumption DEF NewOrder, Inv, TypeOK
  <2>3. Rest(c) /\ UNCHANGED ledger
    BY <1>0, <1>2, <2>1 DEF Rest, Inv, TypeOK, stockVars
  <2>4. Coupon(c) \in used' \cup {NoCoupon}
    BY <1>0 DEF Inv, Done
  <2>5. QED
    BY <1>2, <2>2, <2>3, <2>4, TakeInv
<1>3. QED
  BY <1>1, <1>2 DEF SaveOrder

LEMMA ClearCartInv ==
  ASSUME Inv, NEW c \in Calls, ClearCart(c)
  PROVE  Inv'
<1>0. UNCHANGED <<stock, ledger, fills, used, orders, basket, discount, swallowed>>
  BY DEF ClearCart, stockVars, locals
<1>1. CASE Raise(c, "clearCart") /\ UNCHANGED cart
  BY <1>0, <1>1, StillRest, RaiseStill DEF CallSteps, stockVars
<1>2. CASE /\ cart' = [cart EXCEPT ![User(c)] = NoCart]
           /\ Take(c, "clearCart", "returned", 1)
  <2>1. Rest(c)
    BY <1>0, <1>2 DEF Rest, Inv, TypeOK
  <2>2. pc[c] = "clearCart"
    BY <1>2 DEF Take, Raise, Goto
  <2>3. /\ Coupon(c) \in used' \cup {NoCoupon}
        /\ orders'[c] # NoOrder
        /\ orders'[c].items = Lines(c)
        /\ orders'[c].coupon = Coupon(c)
    BY <1>0, <2>2 DEF Inv, Done
  <2>4. QED
    BY <1>0, <1>2, <2>1, <2>3, TakeInv
<1>3. QED
  BY <1>1, <1>2 DEF ClearCart

LEMMA ReleaseItemInv ==
  ASSUME Inv, NEW c \in Calls, ReleaseItem(c)
  PROVE  Inv'
<1>0. /\ pc[c] = "release" /\ item[c] \in 1..Len(Lines(c)) /\ item[c] \in Nat
      /\ UNCHANGED <<cart, fills, used, orders, basket, discount>>
      /\ swallowed' = swallowed \/ swallowed' = swallowed \cup {<<c, item[c]>>}
      /\ swallowed' \subseteq Calls \X Nat
      /\ Lines(c) \in Seq(CartItem) /\ Lines(c) # <<>>
      /\ \A k \in DOMAIN Lines(c) : Reserved(c, k)
  BY HasReserved
     DEF ReleaseItem, Release, Move, Inv, TypeOK, Loops, cartVars, locals, AfterReservations
<1>1. PICK to \in {"release", "threw"}, i \in Nat :
        /\ pc' = [pc EXCEPT ![c] = to] /\ item' = [item EXCEPT ![c] = i]
        /\ to = "release" => i \in 1..Len(Lines(c))
  <2>1. CASE LastItem(c)
    <3>1. pc' = [pc EXCEPT ![c] = "threw"] /\ item' = [item EXCEPT ![c] = item[c]]
      BY <2>1 DEF ReleaseItem, Goto, Inv, TypeOK
    <3>2. QED
      BY <1>0, <3>1
  <2>2. CASE ~LastItem(c)
    <3>1. /\ pc' = [pc EXCEPT ![c] = "release"]
          /\ item' = [item EXCEPT ![c] = item[c] + 1]
      BY <2>2 DEF ReleaseItem, Goto
    <3>2. item[c] + 1 \in 1..Len(Lines(c)) /\ item[c] + 1 \in Nat
      BY <1>0, <2>2 DEF LastItem
    <3>3. QED
      BY <3>1, <3>2
  <2>3. QED
    BY <2>1, <2>2
<1>2. CASE Move(c, "release")
  <2>1. /\ OwnMoves' /\ GivesBackOwn' /\ ledger \subseteq ledger'
        /\ stock' \in [Options -> StockRow]
        /\ \A e \in ledger' : e.by \in Movement /\ e.op \in Stock!Operation
    BY <1>0, <1>1, <1>2, MoveKeeps
  <2>2. Rest(c)
    BY <1>0, <2>1 DEF Rest, Inv, TypeOK
  <2>3. \A k \in DOMAIN Lines(c) : Reserved(c, k)'
    BY <1>0, <2>1 DEF Reserved, Moves
  <2>4. QED
    BY <1>0, <1>1, <2>1, <2>2, <2>3, StepKeeps DEF CallSteps
<1>3. CASE UNCHANGED stockVars
  <2>1. Rest(c) /\ UNCHANGED ledger
    BY <1>0, <1>3 DEF Rest, Inv, TypeOK, stockVars
  <2>2. OwnMoves' /\ GivesBackOwn'
    BY <1>0, <1>1, <2>1, KeepsLedger DEF Rest
  <2>3. \A k \in DOMAIN Lines(c) : Reserved(c, k)'
    BY <1>0, <2>1 DEF Reserved, Moves
  <2>4. QED
    BY <1>0, <1>1, <2>1, <2>2, <2>3, StepKeeps DEF CallSteps
<1>4. QED
  BY <1>2, <1>3 DEF ReleaseItem, Release

LEMMA StepFailsInv ==
  ASSUME Inv, NEW c \in Calls, StepFails(c)
  PROVE  Inv'
<1>1. PICK from \in CallSteps \ {"release"} : Raise(c, from)
  BY DEF StepFails
<1>2. Rest(c) /\ UNCHANGED ledger
  BY StillRest DEF StepFails, cartVars, locals
<1>3. QED
  BY <1>1, <1>2, RaiseStill

LEMMA CrashInv ==
  ASSUME Inv, NEW c \in Calls, Crash(c)
  PROVE  Inv'
<1>1. Rest(c) /\ UNCHANGED ledger
  BY StillRest DEF Crash, cartVars, locals
<1>2. /\ pc' = [pc EXCEPT ![c] = "crashed"]
      /\ item' = [item EXCEPT ![c] = item[c]] /\ item[c] \in Nat
      /\ pc[c] \in CallSteps
  BY DEF Crash, Running, Inv, TypeOK
<1>3. OwnMoves' /\ GivesBackOwn'
  BY <1>1, <1>2, KeepsLedger DEF Rest
<1>4. QED
  BY <1>1, <1>2, <1>3, StepKeeps DEF AfterReservations

LEMMA FillCartInv ==
  ASSUME Inv, NEW u \in Users, FillCart(u)
  PROVE  Inv'
<1>1. /\ UNCHANGED <<stock, ledger, used, orders, pc, item, basket, discount, swallowed>>
      /\ fills' = [fills EXCEPT ![u] = @ + 1]
      /\ cart' = [cart EXCEPT ![u] = [id |-> fills[u], content |-> Carts[u]]]
  BY DEF FillCart, stockVars, locals
<1>2. [id |-> fills[u], content |-> Carts[u]] \in CartRow /\ fills[u] + 1 \in Nat
  BY CreateOrderAssumption DEF CartRow, Inv, TypeOK
<1>3. TypeOK'
  BY <1>1, <1>2 DEF Inv, TypeOK
<1>4. Loops' /\ OwnMoves' /\ Done' /\ GivesBackOwn'
  BY <1>1 DEF Inv, Loops, OwnMoves, Done, GivesBackOwn, Lines, Reserved, Moves
<1>5. QED
  BY <1>3, <1>4 DEF Inv

-----------------------------------------------------------------------------
LEMMA InitInv == Init => Inv
<1> SUFFICES ASSUME Init PROVE Inv
  OBVIOUS
<1>1. TypeOK
  <2>1. <<>> \in Seq(CartItem)
    OBVIOUS
  <2>2. QED
    BY <2>1, CreateOrderAssumption
       DEF Init, TypeOK, Stock!Init, CartRow, CartContent
<1>2. Loops /\ OwnMoves /\ Done /\ GivesBackOwn
  BY DEF Init, Stock!Init, Loops, OwnMoves, Done, GivesBackOwn, AfterReservations
<1>3. QED
  BY <1>1, <1>2 DEF Inv

LEMMA NextInv == Inv /\ [Next]_vars => Inv'
<1> SUFFICES ASSUME Inv, [Next]_vars PROVE Inv'
  OBVIOUS
<1>1. ASSUME NEW c \in Calls, CallStep(c) PROVE Inv'
  BY <1>1, FindCartInv, ReserveItemInv, UseCouponInv, SaveCouponInv,
     SaveOrderInv, ClearCartInv, ReleaseItemInv, StepFailsInv DEF CallStep
<1>2. CASE UNCHANGED vars
  <2>1. UNCHANGED <<stock, ledger, cart, fills, used, orders, pc, item, basket, discount, swallowed>>
    BY <1>2 DEF vars, stockVars, cartVars, locals
  <2>2. TypeOK'
    BY <2>1 DEF Inv, TypeOK
  <2>3. Loops' /\ OwnMoves' /\ Done' /\ GivesBackOwn'
    BY <2>1 DEF Inv, Loops, OwnMoves, Done, GivesBackOwn, Lines, Reserved, Moves
  <2>4. QED
    BY <2>2, <2>3 DEF Inv
<1>3. QED
  BY <1>1, <1>2, CallInv, CrashInv, FillCartInv DEF Next

LEMMA Invariance == Spec => []Inv
BY InitInv, NextInv, PTL DEF Spec

\* The variables keep their types.
THEOREM TypeCorrect == Spec => []TypeOK
<1>1. Inv => TypeOK
  BY DEF Inv
<1>2. QED
  BY <1>1, Invariance, PTL

\* Whatever fails, overlaps or is lost, the catch gives back only what its own
\* call has reserved.
THEOREM GivesBackOwnHolds == Spec => []GivesBackOwn
<1>1. Inv => GivesBackOwn
  BY DEF Inv
<1>2. QED
  BY <1>1, Invariance, PTL

\* A call that returns has saved its order, still holds the units of all its
\* items, and has used its coupon.
THEOREM ReturnedIsOrderedHolds == Spec => []ReturnedIsOrdered
<1>1. ASSUME Inv PROVE ReturnedIsOrdered
  <2>1. ASSUME NEW c \in Calls, pc[c] = "returned", NEW i \in DOMAIN Lines(c)
        PROVE  HoldsItem(c, i)
    <3>1. Reserved(c, i)
      BY <1>1, <2>1, HasReserved DEF AfterReservations
    <3>2. \A e \in ledger : e.by.who = c => e.by.kind # "release"
      BY <1>1, <2>1 DEF Inv, OwnMoves
    <3>3. \A e \in ledger : e.by # [who |-> c, kind |-> "release", item |-> i]
      BY <3>2
    <3>4. ~Released(c, i)
      BY <3>3 DEF Released, Moves
    <3>5. QED
      BY <3>1, <3>4 DEF HoldsItem
  <2>2. QED
    BY <1>1, <2>1 DEF ReturnedIsOrdered, Inv, Done
<1>2. QED
  BY <1>1, Invariance, PTL

-----------------------------------------------------------------------------
(***************************************************************************)
(* What the catch gives back.  The reserved counter of an option is what   *)
(* it was seeded with and the units that calls hold, so the units of an    *)
(* item that its call holds are there to be released.                      *)
(***************************************************************************)
\* The reservations of option o that have not been given back, and their units.
Held(o) ==
  {d \in ledger : /\ d.op.option = o /\ d.by.kind = "reserve"
                  /\ ~Released(d.by.who, d.by.item)}
UnitsHeld(o) == SumFunction([d \in Held(o) |-> d.op.qty])

HoldInv ==
  /\ IsFiniteSet(ledger)
  /\ \A d, e \in ledger : d.by = e.by => d = e
  /\ \A d \in ledger : d.op.qty \in Nat \ {0}
  /\ \A o \in Options : stock[o].reserved = Seed[o].reserved + UnitsHeld(o)

\* The items the catch is past have been given back or swallowed; those it has
\* still to come to have not been given back.
CaughtUpTo(c, n) ==
  \A i \in DOMAIN Lines(c) :
    /\ i > n => ~Released(c, i)
    /\ i <= n /\ HoldsItem(c, i) => <<c, i>> \in swallowed

CatchInv == \A c \in Calls : pc[c] = "release" => CaughtUpTo(c, item[c] - 1)

\* The sum of the units held is a natural number, at least those of each entry.
LEMMA HeldType ==
  ASSUME HoldInv, NEW o
  PROVE  /\ IsFiniteSet(Held(o))
         /\ UnitsHeld(o) = SumFunctionOnSet([d \in Held(o) |-> d.op.qty], Held(o))
         /\ UnitsHeld(o) \in Nat
         /\ \A d \in Held(o) : d.op.qty <= UnitsHeld(o)
<1> DEFINE f == [d \in Held(o) |-> d.op.qty]
<1>1. IsFiniteSet(Held(o))
  BY FS_Subset DEF HoldInv, Held
<1>2. \A d \in Held(o) : f[d] \in Nat /\ f[d] = d.op.qty
  BY DEF HoldInv, Held
<1>3. UnitsHeld(o) = SumFunctionOnSet(f, Held(o))
  BY DEF UnitsHeld, SumFunction
<1>4. UnitsHeld(o) \in Nat
  BY <1>1, <1>2, <1>3, SumNat
<1>5. ASSUME NEW d \in Held(o) PROVE d.op.qty <= UnitsHeld(o)
  <2>1. SumFunctionOnSet(f, Held(o)) = f[d] + SumFunctionOnSet(f, Held(o) \ {d})
    BY <1>1, <1>2, SumNat
  <2>2. IsFiniteSet(Held(o) \ {d})
    BY <1>1, FS_RemoveElement
  <2>3. SumFunctionOnSet(f, Held(o) \ {d}) \in Nat
    BY <1>2, <2>2, SumNat
  <2>4. QED
    BY <1>2, <1>3, <2>1, <2>3
<1>6. QED
  BY <1>1, <1>3, <1>4, <1>5

\* The entry of an item that a call holds.
LEMMA OwnEntry ==
  ASSUME Inv, NEW c \in Calls
  PROVE  \A i : HoldsItem(c, i) =>
           \E d \in Held(Lines(c)[i].option) :
             /\ d.by = [who |-> c, kind |-> "reserve", item |-> i]
             /\ d.op = [kind |-> "reserve", option |-> Lines(c)[i].option,
                        qty |-> Lines(c)[i].qty]
<1> SUFFICES ASSUME NEW i, Reserved(c, i), ~Released(c, i)
             PROVE  \E d \in Held(Lines(c)[i].option) :
                      /\ d.by = [who |-> c, kind |-> "reserve", item |-> i]
                      /\ d.op = [kind |-> "reserve", option |-> Lines(c)[i].option,
                                 qty |-> Lines(c)[i].qty]
  BY DEF HoldsItem
<1>1. PICK d \in ledger : d.by = [who |-> c, kind |-> "reserve", item |-> i]
  BY DEF Reserved, Moves
<1>2. d.by.who = c /\ d.by.kind = "reserve" /\ d.by.item = i
  BY <1>1
<1>3. d.op = [kind |-> "reserve", option |-> Lines(c)[i].option,
              qty |-> Lines(c)[i].qty]
  BY <1>2 DEF Inv, OwnMoves
<1>4. d \in Held(Lines(c)[i].option)
  BY <1>2, <1>3 DEF Held
<1>5. QED
  BY <1>1, <1>3, <1>4

\* Units that a call holds can be released, when only creations move the row.
LEMMA NotRefused ==
  ASSUME Inv, HoldInv, NEW c \in Calls, pc[c] = "release", ~Released(c, item[c])
  PROVE  ~Refused(c, "release")
<1> DEFINE o == Lines(c)[item[c]].option
           n == Lines(c)[item[c]].qty
<1>1. item[c] \in 1..Len(Lines(c)) /\ item[c] \in DOMAIN Lines(c)
  BY HasReserved DEF Inv, Loops, AfterReservations
<1>2. HoldsItem(c, item[c])
  BY <1>1, HasReserved DEF AfterReservations, HoldsItem
<1>3. PICK d \in Held(o) :
        /\ d.by = [who |-> c, kind |-> "reserve", item |-> item[c]]
        /\ d.op = [kind |-> "reserve", option |-> o, qty |-> n]
  BY <1>2, OwnEntry
<1>4. n \in Nat \ {0} /\ n <= UnitsHeld(o) /\ UnitsHeld(o) \in Nat
  <2>1. d \in ledger
    BY DEF Held
  <2>2. d.op.qty \in Nat \ {0}
    BY <2>1 DEF HoldInv
  <2>3. d.op.qty <= UnitsHeld(o) /\ UnitsHeld(o) \in Nat
    BY HeldType
  <2>4. d.op.qty = n
    BY <1>3
  <2>5. QED
    BY <2>2, <2>3, <2>4
<1>5. o \in Options
  BY <1>1, ItemType DEF Inv, Kinds
<1>6. /\ stock[o].reserved = Seed[o].reserved + UnitsHeld(o)
      /\ Seed[o].reserved \in Int /\ Seed[o].reserved >= 0
  BY <1>5, CreateOrderAssumption DEF HoldInv, Valid, StockRow
<1>7. Allowed("release", stock[o], n)
  BY <1>4, <1>6 DEF Allowed, Source
<1>8. QED
  BY <1>7 DEF Refused
\* One entry more adds its units to a sum.
LEMMA OneMore ==
  ASSUME NEW S, IsFiniteSet(S), NEW e, e \notin S,
         \A d \in S \cup {e} : d.op.qty \in Nat
  PROVE  SumFunction([d \in S \cup {e} |-> d.op.qty])
           = SumFunction([d \in S |-> d.op.qty]) + e.op.qty
<1> DEFINE f == [d \in S |-> d.op.qty]
           g == [d \in S \cup {e} |-> d.op.qty]
<1>1. \A d \in S : f[d] \in Nat /\ g[d] = f[d]
  OBVIOUS
<1>2. (\A d \in S \cup {e} : g[d] \in Nat) /\ g[e] = e.op.qty
  OBVIOUS
<1>3. DOMAIN f = S /\ DOMAIN g = S \cup {e}
  OBVIOUS
<1>4. SumFunction(f) = SumFunctionOnSet(f, S)
  BY <1>3 DEF SumFunction
<1>5. SumFunction(g) = SumFunctionOnSet(g, S \cup {e})
  BY <1>3 DEF SumFunction
<1> HIDE DEF f, g
<1>6. IsFiniteSet(S \cup {e})
  BY FS_AddElement
<1>7. SumFunctionOnSet(g, S \cup {e})
        = g[e] + SumFunctionOnSet(g, (S \cup {e}) \ {e})
  BY <1>2, <1>6, SumNat
<1>8. (S \cup {e}) \ {e} = S
  OBVIOUS
<1>9. SumFunctionOnSet(g, S) = SumFunctionOnSet(f, S)
  BY <1>1, SumSame
<1>10. SumFunctionOnSet(f, S) \in Nat /\ g[e] \in Nat
  BY <1>1, <1>2, SumNat
<1>11. SumFunctionOnSet(g, S \cup {e}) = g[e] + SumFunctionOnSet(g, S)
  BY <1>7, <1>8, Zenon
<1>12. SumFunction(g) = SumFunction(f) + e.op.qty
  BY <1>2, <1>4, <1>5, <1>9, <1>10, <1>11
<1>13. QED
  BY <1>12 DEF f, g

\* A reservation adds the units of its entry to those that are held.
LEMMA ReserveHolds ==
  ASSUME Inv, HoldInv, NEW c \in Calls, pc[c] = "reserve", Move(c, "reserve")
  PROVE  HoldInv'
<1> DEFINE by == [who |-> c, kind |-> "reserve", item |-> item[c]]
           new == [by |-> by, op |-> Op(c, "reserve")]
<1>1. item[c] \in 1..Len(Lines(c)) /\ "reserve" \in Kinds
  BY DEF Inv, Loops, Kinds
<1>0. PICK o \in Options, n \in Nat :
        o = Lines(c)[item[c]].option /\ n = Lines(c)[item[c]].qty
  BY <1>1, ItemType DEF Inv
<1>2. /\ \A e \in ledger : e.by # by
      /\ ledger' = ledger \cup {new}
      /\ new.by = by /\ by.who = c /\ by.kind = "reserve" /\ by.item = item[c]
      /\ new.op.option = o /\ new.op.qty = n
  BY <1>0, <1>1, MoveType DEF Inv, Move, Stock!Apply, Op
<1>3. /\ stock' = [stock EXCEPT ![o] = Moved("reserve", @, n)]
      /\ Allowed("reserve", stock[o], n)
      /\ n \in Nat \ {0}
  <2>1. /\ Allowed("reserve", stock[o], n)
        /\ stock' = [stock EXCEPT ![o] = Moved("reserve", @, n)]
    BY <1>0 DEF Move, Op, Stock!Apply, Stock!Allowed, Stock!Source, Stock!Moved,
                Allowed, Source, Moved
  <2>2. QED
    BY <2>1 DEF Allowed
<1>4. /\ new \notin ledger
      /\ \A e \in ledger' : e = new \/ e \in ledger
  BY <1>2
<1> HIDE DEF by, new
<1>5. \A w, i : Released(w, i)' <=> Released(w, i)
  <2>1. \A w, i : by # [who |-> w, kind |-> "release", item |-> i]
    BY <1>2
  <2>2. QED
    BY <1>2, <2>1 DEF Released, Moves
<1>6. ~Released(c, item[c])
  <2>1. \A e \in ledger : e.by.who = c => e.by.kind # "release"
    BY DEF Inv, OwnMoves
  <2>2. QED
    BY <2>1 DEF Released, Moves
<1>7. Held(o)' = Held(o) \cup {new} /\ new \notin Held(o)
  BY <1>2, <1>4, <1>5, <1>6, Zenon DEF Held
<1>8. \A p \in Options \ {o} : Held(p)' = Held(p)
  BY <1>2, <1>4, <1>5, Zenon DEF Held
<1>9. \A p \in Options \ {o} : UnitsHeld(p)' = UnitsHeld(p)
  BY <1>8, Zenon DEF UnitsHeld
<1>10. UnitsHeld(o)' = UnitsHeld(o) + n
  <2>1. IsFiniteSet(Held(o)) /\ \A d \in Held(o) \cup {new} : d.op.qty \in Nat
    BY <1>2, <1>3, HeldType DEF HoldInv, Held
  <2>2. SumFunction([d \in Held(o) \cup {new} |-> d.op.qty])
          = SumFunction([d \in Held(o) |-> d.op.qty]) + new.op.qty
    BY <2>1, <1>7, OneMore
  <2>3. UnitsHeld(o)' = SumFunction([d \in Held(o) \cup {new} |-> d.op.qty])
    BY <1>7, Zenon DEF UnitsHeld
  <2>4. QED
    BY <1>2, <2>2, <2>3 DEF UnitsHeld
<1>11. \A p \in Options : stock'[p].reserved = Seed[p].reserved + UnitsHeld(p)'
  <2>1. stock[o] \in StockRow /\ Seed[o] \in StockRow
    BY CreateOrderAssumption DEF Inv, TypeOK
  <2>2. Moved("reserve", stock[o], n).reserved = stock[o].reserved + n
    BY <2>1, MovedRow
  <2>3. /\ stock'[o] = Moved("reserve", stock[o], n)
        /\ \A p \in Options \ {o} : stock'[p] = stock[p]
    BY <1>3 DEF Inv, TypeOK
  <2>4. stock'[o].reserved = Seed[o].reserved + UnitsHeld(o)'
    <3>1. stock[o].reserved = Seed[o].reserved + UnitsHeld(o)
      BY <1>3 DEF HoldInv
    <3>2. UnitsHeld(o) \in Nat /\ Seed[o].reserved \in Int
      BY <2>1, HeldType DEF StockRow
    <3>3. QED
      BY <1>3, <1>10, <2>2, <2>3, <3>1, <3>2
  <2>5. ASSUME NEW p \in Options \ {o}
        PROVE  stock'[p].reserved = Seed[p].reserved + UnitsHeld(p)'
    BY <2>3, <1>9 DEF HoldInv
  <2>6. QED
    BY <2>4, <2>5
<1>12. IsFiniteSet(ledger')
  BY <1>2, FS_AddElement DEF HoldInv
<1>13. /\ \A d, e \in ledger' : d.by = e.by => d = e
       /\ \A d \in ledger' : d.op.qty \in Nat \ {0}
  BY <1>2, <1>3, <1>4 DEF HoldInv
<1>14. QED
  BY <1>11, <1>12, <1>13 DEF HoldInv

\* A release takes the units of its own reservation out of those that are held.
LEMMA ReleaseHolds ==
  ASSUME Inv, HoldInv, NEW c \in Calls, pc[c] = "release", Move(c, "release")
  PROVE  /\ HoldInv'
         /\ \A d \in Calls : \A i : Reserved(d, i)' <=> Reserved(d, i)
         /\ \A d \in Calls : \A i :
              Released(d, i)' <=> Released(d, i) \/ (d = c /\ i = item[c])
<1> DEFINE by == [who |-> c, kind |-> "release", item |-> item[c]]
           new == [by |-> by, op |-> Op(c, "release")]
<1>1. item[c] \in 1..Len(Lines(c)) /\ "release" \in Kinds
  BY DEF Inv, Loops, Kinds
<1>0. PICK o \in Options, n \in Nat :
        o = Lines(c)[item[c]].option /\ n = Lines(c)[item[c]].qty
  BY <1>1, ItemType DEF Inv
<1>2. /\ \A e \in ledger : e.by # by
      /\ ledger' = ledger \cup {new}
      /\ new.by = by /\ by.who = c /\ by.kind = "release" /\ by.item = item[c]
      /\ new.op.option = o /\ new.op.qty = n
  BY <1>0, <1>1, MoveType DEF Inv, Move, Stock!Apply, Op
<1>3. /\ stock' = [stock EXCEPT ![o] = Moved("release", @, n)]
      /\ Allowed("release", stock[o], n)
      /\ n \in Nat \ {0}
  <2>1. /\ Allowed("release", stock[o], n)
        /\ stock' = [stock EXCEPT ![o] = Moved("release", @, n)]
    BY <1>0 DEF Move, Op, Stock!Apply, Stock!Allowed, Stock!Source, Stock!Moved,
                Allowed, Source, Moved
  <2>2. QED
    BY <2>1 DEF Allowed
<1>4. \A w, i : by = [who |-> w, kind |-> "release", item |-> i] <=> w = c /\ i = item[c]
  OBVIOUS
<1>5. \A w, i : by # [who |-> w, kind |-> "reserve", item |-> i]
  BY <1>2
<1> HIDE DEF by, new
<1>6. \A w, i : Reserved(w, i)' <=> Reserved(w, i)
  BY <1>2, <1>5 DEF Reserved, Moves
<1>7. \A w, i : Released(w, i)' <=> Released(w, i) \/ (w = c /\ i = item[c])
  BY <1>2, <1>4 DEF Released, Moves
<1>8. PICK e \in Held(o) : /\ e.by = [who |-> c, kind |-> "reserve", item |-> item[c]]
                           /\ e.op = [kind |-> "reserve", option |-> o, qty |-> n]
  <2>1. item[c] \in DOMAIN Lines(c)
    BY <1>1, HasReserved DEF AfterReservations
  <2>2. Reserved(c, item[c])
    BY <2>1, HasReserved DEF AfterReservations
  <2>3. ~Released(c, item[c])
    BY <1>2 DEF Released, Moves, by
  <2>4. QED
    BY <1>0, <2>2, <2>3, OwnEntry DEF HoldsItem
<1>9. /\ e.by.who = c /\ e.by.kind = "reserve" /\ e.by.item = item[c]
      /\ e.op.option = o /\ e.op.qty = n
      /\ e \in ledger
  BY <1>8 DEF Held
<1>10. ASSUME NEW d \in ledger, d.by.kind = "reserve"
       PROVE  d.by.who = c /\ d.by.item = item[c] <=> d = e
  <2>1. d.by \in Movement
    BY DEF Inv, TypeOK
  <2>2. d.by.who = c /\ d.by.item = item[c] => d.by = e.by
    BY <1>8, <1>10, <2>1 DEF Movement
  <2>3. QED
    BY <1>9, <2>2 DEF HoldInv
<1>11. \A d \in ledger' : d.by.kind = "reserve" => d \in ledger
  BY <1>2
<1>12. Held(o)' = Held(o) \ {e}
  <2>1. ASSUME NEW d \in Held(o)' PROVE d \in Held(o) \ {e}
    <3>1. /\ d \in ledger /\ d.op.option = o /\ d.by.kind = "reserve"
          /\ ~(Released(d.by.who, d.by.item)')
      BY <1>11 DEF Held
    <3>2. ~Released(d.by.who, d.by.item) /\ ~(d.by.who = c /\ d.by.item = item[c])
      BY <1>7, <3>1
    <3>3. QED
      BY <1>10, <3>1, <3>2 DEF Held
  <2>2. ASSUME NEW d \in Held(o) \ {e} PROVE d \in Held(o)'
    <3>1. /\ d \in ledger /\ d.op.option = o /\ d.by.kind = "reserve"
          /\ ~Released(d.by.who, d.by.item) /\ d # e
      BY DEF Held
    <3>2. ~(Released(d.by.who, d.by.item)')
      BY <1>7, <1>10, <3>1
    <3>3. d \in ledger'
      BY <1>2, <3>1
    <3>4. QED
      BY <3>1, <3>2, <3>3 DEF Held
  <2>3. QED
    BY <2>1, <2>2
<1>13. /\ \A p \in Options \ {o} : Held(p)' = Held(p)
       /\ e \notin Held(o)' /\ Held(o) = Held(o)' \cup {e}
  <2>1. ASSUME NEW p \in Options \ {o} PROVE Held(p)' = Held(p)
    <3>1. \A d \in ledger' : d.by.kind = "reserve" /\ d.op.option = p =>
            d \in ledger /\ d # e
      BY <1>9, <1>11
    <3>2. \A d \in ledger : d.by.kind = "reserve" /\ d.op.option = p =>
            (Released(d.by.who, d.by.item)' <=> Released(d.by.who, d.by.item))
      BY <1>7, <1>9, <1>10
    <3>3. QED
      BY <1>2, <3>1, <3>2, Zenon DEF Held
  <2>2. QED
    BY <1>8, <1>12, <2>1
<1>14. \A p \in Options \ {o} : UnitsHeld(p)' = UnitsHeld(p)
  BY <1>13, Zenon DEF UnitsHeld
<1>15. UnitsHeld(o) = UnitsHeld(o)' + n
  <2>1. IsFiniteSet(Held(o)') /\ \A d \in Held(o)' \cup {e} : d.op.qty \in Nat
    <3>1. IsFiniteSet(Held(o))
      BY HeldType
    <3>2. \A d \in Held(o) : d.op.qty \in Nat
      BY DEF HoldInv, Held
    <3>3. QED
      BY <1>13, <3>1, <3>2, FS_Subset
  <2>2. SumFunction([d \in Held(o)' \cup {e} |-> d.op.qty])
          = SumFunction([d \in Held(o)' |-> d.op.qty]) + e.op.qty
    BY <2>1, <1>13, OneMore
  <2>3. UnitsHeld(o) = SumFunction([d \in Held(o)' \cup {e} |-> d.op.qty])
    BY <1>13, Zenon DEF UnitsHeld
  <2>4. UnitsHeld(o)' = SumFunction([d \in Held(o)' |-> d.op.qty])
    BY Zenon DEF UnitsHeld
  <2>5. QED
    BY <1>9, <2>2, <2>3, <2>4
<1>16. \A p \in Options : stock'[p].reserved = Seed[p].reserved + UnitsHeld(p)'
  <2>1. stock[o] \in StockRow /\ Seed[o] \in StockRow
    BY CreateOrderAssumption DEF Inv, TypeOK
  <2>2. Moved("release", stock[o], n).reserved = stock[o].reserved - n
    BY <2>1, MovedRow
  <2>3. /\ stock'[o] = Moved("release", stock[o], n)
        /\ \A p \in Options \ {o} : stock'[p] = stock[p]
    BY <1>3 DEF Inv, TypeOK
  <2>4. stock'[o].reserved = Seed[o].reserved + UnitsHeld(o)'
    <3>1. stock[o].reserved = Seed[o].reserved + UnitsHeld(o)
      BY DEF HoldInv
    <3>2. UnitsHeld(o)' \in Nat /\ Seed[o].reserved \in Int
      <4>1. \A d \in Held(o)' : [x \in Held(o)' |-> x.op.qty][d] \in Nat
        BY <1>13 DEF HoldInv, Held
      <4>2. IsFiniteSet(Held(o)')
        BY <1>13, HeldType, FS_Subset
      <4>3. SumFunctionOnSet([x \in Held(o)' |-> x.op.qty], Held(o)') \in Nat
        BY <4>1, <4>2, SumNat
      <4>4. UnitsHeld(o)' = SumFunctionOnSet([x \in Held(o)' |-> x.op.qty], Held(o)')
        BY DEF UnitsHeld, SumFunction
      <4>5. QED
        BY <2>1, <4>3, <4>4 DEF StockRow
    <3>3. QED
      BY <1>15, <2>2, <2>3, <3>1, <3>2
  <2>5. \A p \in Options \ {o} :
          stock'[p].reserved = Seed[p].reserved + UnitsHeld(p)'
    BY <2>3, <1>14 DEF HoldInv
  <2>6. QED
    BY <2>4, <2>5
<1>17. IsFiniteSet(ledger')
  BY <1>2, FS_AddElement DEF HoldInv
<1>18. /\ \A d, f \in ledger' : d.by = f.by => d = f
       /\ \A d \in ledger' : d.op.qty \in Nat \ {0}
  BY <1>2, <1>3 DEF HoldInv
<1>19. QED
  BY <1>6, <1>7, <1>16, <1>17, <1>18 DEF HoldInv

\* Every step of a call but a reservation and a release leaves the rows alone;
\* the catch is entered at its first item.
LEMMA StepEffect ==
  ASSUME Inv, NEW c \in Calls, Call(c) \/ CallStep(c) \/ Crash(c)
  PROVE  /\ \A d \in Calls \ {c} :
              pc'[d] = pc[d] /\ item'[d] = item[d] /\ basket'[d] = basket[d]
         /\ \/ /\ UNCHANGED <<stock, ledger, swallowed>>
               /\ pc'[c] = "release" =>
                    item'[c] = 1 /\ pc[c] \in CallSteps \ {"release"}
               /\ pc[c] = "release" => pc'[c] = "crashed"
            \/ /\ pc[c] = "reserve" /\ Move(c, "reserve")
               /\ pc'[c] # "release" /\ UNCHANGED <<basket, swallowed>>
            \/ ReleaseItem(c)
<1>1. pc \in [Calls -> CallSteps \cup {"idle", "returned", "threw", "crashed"}]
      /\ item \in [Calls -> Nat] /\ basket \in [Calls -> CartRow]
  BY DEF Inv, TypeOK
<1>2. ASSUME Call(c) \/ FindCart(c) \/ Crash(c)
      PROVE  /\ \A d \in Calls \ {c} :
                  pc'[d] = pc[d] /\ item'[d] = item[d] /\ basket'[d] = basket[d]
             /\ UNCHANGED <<stock, ledger, swallowed>>
             /\ pc'[c] # "release"
             /\ pc[c] = "release" => pc'[c] = "crashed"
  BY <1>1, <1>2 DEF Call, FindCart, Crash, Goto, stockVars, cartVars, locals
<1>3. ASSUME NEW from \in CallSteps \ {"release"}, NEW to, to # "release", NEW i,
             Take(c, from, to, i) \/ Raise(c, from)
      PROVE  /\ \A d \in Calls \ {c} : pc'[d] = pc[d] /\ item'[d] = item[d]
             /\ pc[c] = from
             /\ pc'[c] = "release" => item'[c] = 1
             /\ from = "reserve" => pc'[c] # "release"
  BY <1>1, <1>3 DEF Take, Raise, Goto, Handler
<1>4. CASE ReserveItem(c)
  <2>1. pc[c] = "reserve" /\ UNCHANGED <<basket, swallowed>>
    BY <1>4 DEF ReserveItem, locals
  <2>2. PICK to \in {"reserve", "useCoupon", "saveOrder"}, i \in Nat :
          Take(c, "reserve", to, i) \/ Raise(c, "reserve")
    <3>1. item[c] + 1 \in Nat
      BY <1>1
    <3>2. QED
      BY <1>4, <3>1 DEF ReserveItem, AfterReserve
  <2>3. /\ \A d \in Calls \ {c} : pc'[d] = pc[d] /\ item'[d] = item[d]
        /\ pc'[c] # "release"
    BY <2>2, <1>3 DEF CallSteps
  <2>4. Move(c, "reserve") \/ UNCHANGED stockVars
    BY <1>4 DEF ReserveItem
  <2>5. QED
    BY <2>1, <2>3, <2>4 DEF stockVars
<1>5. CASE UseCoupon(c)
  <2>1. /\ pc[c] = "useCoupon" /\ UNCHANGED <<stock, ledger, swallowed, basket>>
    BY <1>5 DEF UseCoupon, Goto, Raise, stockVars
  <2>2. \/ Goto(c, "useCoupon", "saveCoupon") /\ UNCHANGED item
        \/ Raise(c, "useCoupon")
    BY <1>5 DEF UseCoupon
  <2>3. QED
    BY <1>1, <2>1, <2>2 DEF Goto, Raise, CallSteps
<1>6. CASE SaveCoupon(c)
  BY <1>6, <1>3 DEF SaveCoupon, CallSteps, stockVars, locals
<1>7. CASE SaveOrder(c)
  BY <1>7, <1>3 DEF SaveOrder, CallSteps, stockVars, locals
<1>8. CASE ClearCart(c)
  BY <1>8, <1>3 DEF ClearCart, CallSteps, stockVars, locals
<1>9. CASE ReleaseItem(c)
  <2>1. \A d \in Calls \ {c} :
          pc'[d] = pc[d] /\ item'[d] = item[d] /\ basket'[d] = basket[d]
    BY <1>1, <1>9 DEF ReleaseItem, Goto
  <2>2. QED
    BY <1>9, <2>1
<1>10. CASE StepFails(c)
  <2>1. PICK from \in CallSteps \ {"release"} : Raise(c, from)
    BY <1>10 DEF StepFails
  <2>2. UNCHANGED <<stock, ledger, swallowed, basket>>
    BY <1>10 DEF StepFails, stockVars, locals
  <2>3. QED
    BY <2>1, <2>2, <1>3
<1>11. QED
  BY <1>2, <1>4, <1>5, <1>6, <1>7, <1>8, <1>9, <1>10 DEF CallStep

\* The rows and the ledger are all HoldInv is about.
LEMMA HoldSame ==
  ASSUME HoldInv, UNCHANGED <<stock, ledger>>
  PROVE  HoldInv'
<1>1. \A w, i : Released(w, i)' <=> Released(w, i)
  BY DEF Released, Moves
<1>2. \A o : Held(o)' = Held(o)
  BY <1>1 DEF Held
<1>3. \A o : UnitsHeld(o)' = UnitsHeld(o)
  BY <1>2, Zenon DEF UnitsHeld
<1>4. QED
  BY <1>3 DEF HoldInv

\* A step of the catch deals with the item it is at.
LEMMA ReleaseEffect ==
  ASSUME Inv, HoldInv, CatchInv, NEW c \in Calls, ReleaseItem(c),
         NEW k \in Nat, k = item[c]
  PROVE  /\ HoldInv' /\ CaughtUpTo(c, k)'
         /\ swallowed \subseteq swallowed' /\ UNCHANGED basket
         /\ \A d \in Calls \ {c} : \A i : Reserved(d, i)' <=> Reserved(d, i)
         /\ \A d \in Calls \ {c} : \A i : Released(d, i)' <=> Released(d, i)
         /\ pc'[c] = "release" => item'[c] = k + 1
<1>1. /\ pc[c] = "release" /\ UNCHANGED basket
      /\ pc'[c] = "release" => item'[c] = k + 1
      /\ Release(c)
  BY DEF ReleaseItem, Goto, Inv, TypeOK
<1>2. /\ k \in 1..Len(Lines(c)) /\ Lines(c) \in Seq(CartItem)
      /\ k \in DOMAIN Lines(c) /\ DOMAIN Lines(c) \subseteq Nat
      /\ Lines(c)' = Lines(c)
  BY <1>1, HasReserved DEF Inv, Loops, AfterReservations, Lines
<1>3. \A i \in DOMAIN Lines(c) :
        /\ i >= k => ~Released(c, i)
        /\ i < k /\ HoldsItem(c, i) => <<c, i>> \in swallowed
  BY <1>1, <1>2 DEF CatchInv, CaughtUpTo
<1>4. CASE Move(c, "release") /\ UNCHANGED swallowed
  <2>1. /\ HoldInv'
        /\ \A d \in Calls : \A i : Reserved(d, i)' <=> Reserved(d, i)
        /\ \A d \in Calls : \A i :
             Released(d, i)' <=> Released(d, i) \/ (d = c /\ i = k)
    BY <1>1, <1>4, ReleaseHolds
  <2>2. CaughtUpTo(c, k)'
    <3>1. ASSUME NEW i \in DOMAIN Lines(c)
          PROVE  /\ i > k => ~(Released(c, i)')
                 /\ i <= k /\ HoldsItem(c, i)' => <<c, i>> \in swallowed'
      BY <1>2, <1>3, <1>4, <2>1 DEF HoldsItem
    <3>2. QED
      BY <1>2, <3>1 DEF CaughtUpTo
  <2>3. QED
    BY <1>1, <1>4, <2>1, <2>2
<1>5. CASE UNCHANGED stockVars /\ swallowed' = swallowed \cup {<<c, k>>}
  <2>1. UNCHANGED <<stock, ledger>>
    BY <1>5 DEF stockVars
  <2>2. \A d, i : /\ Reserved(d, i)' <=> Reserved(d, i)
                  /\ Released(d, i)' <=> Released(d, i)
    BY <2>1 DEF Reserved, Released, Moves
  <2>3. CaughtUpTo(c, k)'
    <3>1. ASSUME NEW i \in DOMAIN Lines(c)
          PROVE  /\ i > k => ~(Released(c, i)')
                 /\ i <= k /\ HoldsItem(c, i)' => <<c, i>> \in swallowed'
      BY <1>2, <1>3, <1>5, <2>2 DEF HoldsItem
    <3>2. QED
      BY <1>2, <3>1 DEF CaughtUpTo
  <2>4. QED
    BY <1>1, <1>5, <2>1, <2>2, <2>3, HoldSame
<1>6. ~Refused(c, "release")
  <2>1. k >= k
    OBVIOUS
  <2>2. ~Released(c, k)
    BY <1>2, <1>3, <2>1, Zenon
  <2>3. QED
    BY <1>1, <2>2, NotRefused, Zenon
<1>7. QED
  BY <1>1, <1>4, <1>5, <1>6 DEF Release

LEMMA CatchNext ==
  ASSUME Inv, Inv', HoldInv, CatchInv, [Next]_vars
  PROVE  HoldInv' /\ CatchInv'
<1>1. ASSUME UNCHANGED <<stock, ledger, swallowed, pc, item, basket>>
      PROVE  HoldInv' /\ CatchInv'
  <2>1. HoldInv'
    BY <1>1, HoldSame
  <2>2. CatchInv'
    BY <1>1 DEF CatchInv, CaughtUpTo, HoldsItem, Reserved, Released, Moves, Lines
  <2>3. QED
    BY <2>1, <2>2
<1>2. ASSUME NEW c \in Calls, Call(c) \/ CallStep(c) \/ Crash(c)
      PROVE  HoldInv' /\ CatchInv'
  <2>1. \A d \in Calls \ {c} :
          pc'[d] = pc[d] /\ item'[d] = item[d] /\ Lines(d)' = Lines(d)
    BY <1>2, StepEffect DEF Lines
  <2>2. ASSUME \A d \in Calls \ {c} : \A i : /\ Reserved(d, i)' <=> Reserved(d, i)
                                             /\ Released(d, i)' <=> Released(d, i),
               swallowed \subseteq swallowed',
               pc'[c] = "release" => CaughtUpTo(c, item[c] - 1)'
        PROVE  CatchInv'
    <3>1. ASSUME NEW d \in Calls \ {c}, pc'[d] = "release"
          PROVE  CaughtUpTo(d, item[d] - 1)'
      BY <2>1, <2>2, <3>1 DEF CatchInv, CaughtUpTo, HoldsItem
    <3>2. QED
      BY <2>2, <3>1 DEF CatchInv
  <2>3. CASE /\ UNCHANGED <<stock, ledger, swallowed>>
             /\ pc'[c] = "release" =>
                  item'[c] = 1 /\ pc[c] \in CallSteps \ {"release"}
    <3>1. \A d, i : /\ Reserved(d, i)' <=> Reserved(d, i)
                    /\ Released(d, i)' <=> Released(d, i)
      BY <2>3 DEF Reserved, Released, Moves
    <3>2. ASSUME pc'[c] = "release"
          PROVE  CaughtUpTo(c, item[c] - 1)'
      <4>1. \A e \in ledger : e.by.who = c => e.by.kind # "release"
        BY <2>3, <3>2 DEF Inv, OwnMoves, CallSteps
      <4>2. \A i : ~(Released(c, i)')
        BY <3>1, <4>1 DEF Released, Moves
      <4>3. DOMAIN (Lines(c)') \subseteq Nat \ {0}
        BY DEF Inv, TypeOK, Lines, CartRow, CartContent
      <4>4. item'[c] - 1 = 0
        BY <2>3, <3>2
      <4>5. QED
        BY <4>2, <4>3, <4>4 DEF CaughtUpTo
    <3>3. QED
      BY <2>2, <2>3, <3>1, <3>2, HoldSame
  <2>4. CASE /\ pc[c] = "reserve" /\ Move(c, "reserve")
             /\ pc'[c] # "release" /\ UNCHANGED <<basket, swallowed>>
    <3>1. HoldInv'
      BY <2>4, ReserveHolds
    <3>2. ledger' = ledger \cup {[by |-> [who |-> c, kind |-> "reserve", item |-> item[c]],
                                  op |-> Op(c, "reserve")]}
      BY <2>4, MoveType DEF Inv, Loops, Kinds
    <3>3. \A d \in Calls \ {c} : \A i : /\ Reserved(d, i)' <=> Reserved(d, i)
                                        /\ Released(d, i)' <=> Released(d, i)
      BY <3>2 DEF Reserved, Released, Moves
    <3>4. QED
      BY <2>2, <2>4, <3>1, <3>3
  <2>5. CASE ReleaseItem(c)
    <3>1. PICK k \in Nat : k = item[c]
      BY DEF Inv, TypeOK
    <3>2. /\ HoldInv' /\ CaughtUpTo(c, k)'
          /\ swallowed \subseteq swallowed'
          /\ \A d \in Calls \ {c} : \A i : Reserved(d, i)' <=> Reserved(d, i)
          /\ \A d \in Calls \ {c} : \A i : Released(d, i)' <=> Released(d, i)
          /\ pc'[c] = "release" => item'[c] = k + 1
      BY <2>5, <3>1, ReleaseEffect
    <3>3. pc'[c] = "release" => CaughtUpTo(c, item[c] - 1)'
      <4>1. pc'[c] = "release" => item'[c] - 1 = k
        BY <3>2
      <4>2. QED
        BY <3>2, <4>1 DEF CaughtUpTo
    <3>4. QED
      BY <2>2, <3>2, <3>3
  <2>6. QED
    BY <1>2, <2>3, <2>4, <2>5, StepEffect
<1>3. ASSUME NEW u \in Users, FillCart(u) PROVE HoldInv' /\ CatchInv'
  BY <1>3, <1>1 DEF FillCart, stockVars, locals
<1>4. CASE UNCHANGED vars
  BY <1>4, <1>1 DEF vars, stockVars, locals
<1>5. QED
  BY <1>2, <1>3, <1>4 DEF Next

LEMMA CatchInit == Init => HoldInv /\ CatchInv
<1> SUFFICES ASSUME Init PROVE HoldInv /\ CatchInv
  OBVIOUS
<1>1. ledger = {} /\ stock = Seed /\ \A c \in Calls : pc[c] = "idle"
  BY DEF Init, Stock!Init
<1>2. \A o \in Options : UnitsHeld(o) = 0
  <2>1. ASSUME NEW o \in Options PROVE UnitsHeld(o) = 0
    <3> DEFINE f == [d \in Held(o) |-> d.op.qty]
    <3>1. Held(o) = {}
      BY <1>1 DEF Held
    <3>2. SumFunctionOnSet(f, {}) = 0
      BY FS_EmptySet, SumNat
    <3>3. QED
      BY <3>1, <3>2 DEF UnitsHeld, SumFunction
  <2>2. QED
    BY <2>1
<1>3. \A o \in Options : Seed[o].reserved \in Int
  BY CreateOrderAssumption DEF StockRow
<1>4. HoldInv
  BY <1>1, <1>2, <1>3, FS_EmptySet DEF HoldInv
<1>5. QED
  BY <1>1, <1>4 DEF CatchInv

LEMMA CatchInvariance == Spec => [](Inv /\ HoldInv /\ CatchInv)
<1>1. Init => Inv /\ HoldInv /\ CatchInv
  BY InitInv, CatchInit
<1>2. Inv /\ HoldInv /\ CatchInv /\ [Next]_vars => (Inv /\ HoldInv /\ CatchInv)'
  BY NextInv, CatchNext
<1>3. QED
  BY <1>1, <1>2, PTL DEF Spec

\* Creations alone account for every reserved unit: however they overlap, fail
\* or crash, the reserved counter of an option is the seed's and the units that
\* calls have reserved and not given back.  Payments and the job, which release
\* and sell units too, are not in this module.
THEOREM ReservedIsHeld ==
  Spec => [](\A o \in Options : stock[o].reserved = Seed[o].reserved + UnitsHeld(o))
<1>1. Inv /\ HoldInv /\ CatchInv =>
        \A o \in Options : stock[o].reserved = Seed[o].reserved + UnitsHeld(o)
  BY DEF HoldInv
<1>2. QED
  BY <1>1, CatchInvariance, PTL

\* When the catch throws on, every unit that its call reserved has been given
\* back, except those whose release failed and was only logged: the safety half
\* of CatchUndoes, among creations.  A release refused because a payment or the
\* job has released the same units is outside this module.
THEOREM CatchGivesBack ==
  Spec => [][\A c \in Calls :
               pc[c] = "release" /\ pc'[c] = "threw" =>
                 \A i \in DOMAIN Lines(c) :
                   HoldsItem(c, i)' => <<c, i>> \in swallowed']_vars
<1>1. ASSUME Inv, HoldInv, CatchInv, Next, NEW c \in Calls,
             pc[c] = "release", pc'[c] = "threw", NEW i \in DOMAIN Lines(c),
             HoldsItem(c, i)'
      PROVE  <<c, i>> \in swallowed'
  <2>1. ReleaseItem(c)
    <3>1. PICK d \in Calls : Call(d) \/ CallStep(d) \/ Crash(d)
      BY <1>1 DEF Next, FillCart
    <3>2. d = c
      BY <1>1, <3>1, StepEffect
    <3>3. QED
      BY <1>1, <3>1, <3>2, StepEffect
  <2>2. PICK k \in Nat : k = item[c]
    BY <1>1 DEF Inv, TypeOK
  <2>3. CaughtUpTo(c, k)' /\ Lines(c)' = Lines(c)
    BY <1>1, <2>1, <2>2, ReleaseEffect DEF Lines
  <2>4. k = Len(Lines(c)) /\ i <= k
    <3>1. Lines(c) \in Seq(CartItem)
      BY <1>1, HasReserved DEF AfterReservations
    <3>2. LastItem(c)
      BY <1>1, <2>1 DEF ReleaseItem, Goto, Inv, TypeOK
    <3>3. QED
      BY <2>2, <3>1, <3>2 DEF LastItem
  <2>5. QED
    BY <1>1, <2>3, <2>4 DEF CaughtUpTo
<1>2. Inv /\ HoldInv /\ CatchInv /\ [Next]_vars =>
        [\A c \in Calls :
           pc[c] = "release" /\ pc'[c] = "threw" =>
             \A i \in DOMAIN Lines(c) :
               HoldsItem(c, i)' => <<c, i>> \in swallowed']_vars
  BY <1>1
<1>3. QED
  BY <1>2, CatchInvariance, PTL DEF Spec
=============================================================================
