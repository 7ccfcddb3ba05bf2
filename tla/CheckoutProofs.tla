---------------------------- MODULE CheckoutProofs ----------------------------
(***************************************************************************)
(* Proofs about Checkout, for any catalogue, customers, coupons, prices    *)
(* and times, and any rows to begin with that agree with one another.      *)
(***************************************************************************)
EXTENDS Checkout, BaseLemmas, SequenceTheorems

-----------------------------------------------------------------------------
(***************************************************************************)
(* What orders contain.                                                    *)
(***************************************************************************)
\* The units of one row, order by order.
Column(list, g) == [x \in DOMAIN list |-> list[x].items[g]]

LEMMA ColumnType ==
  ASSUME NEW list \in Seq(OrderRow), NEW g \in Goods
  PROVE  \A x \in DOMAIN list : /\ list[x] \in OrderRow
                                /\ list[x].items[g] \in Nat
                                /\ Column(list, g)[x] = list[x].items[g]
<1>1. \A x \in DOMAIN list : list[x] \in OrderRow
  BY ElementOfSeq, LenProperties
<1>2. QED
  BY <1>1 DEF Column, OrderRow, Amounts

LEMMA SomeOrdersFinite ==
  ASSUME NEW list \in Seq(OrderRow), NEW some \in SUBSET DOMAIN list
  PROVE  IsFiniteSet(some)
<1>1. DOMAIN list = 1..Len(list) /\ Len(list) \in Nat
  BY LenProperties
<1>2. IsFiniteSet(1..Len(list))
  BY <1>1, FS_Interval
<1>3. QED
  BY <1>1, <1>2, FS_Subset

LEMMA ContentsIsSum ==
  ASSUME NEW list \in Seq(OrderRow), NEW some \in SUBSET DOMAIN list, NEW g \in Goods
  PROVE  /\ Contents(list, some)[g] = SumFunctionOnSet(Column(list, g), some)
         /\ \A x \in some : Column(list, g)[x] \in Nat
<1> DEFINE f == [x \in some |-> list[x].items[g]]
<1>1. \A x \in some : Column(list, g)[x] \in Nat /\ f[x] = Column(list, g)[x]
  BY ColumnType
<1>2. SumFunctionOnSet(f, some) = SumFunctionOnSet(Column(list, g), some)
  BY <1>1, SomeOrdersFinite, SumSame
<1>3. Contents(list, some)[g] = SumFunctionOnSet(f, some)
  BY DEF Contents, SumFunction
<1>4. QED
  BY <1>1, <1>2, <1>3

\* Amounts, one for every row.
LEMMA ContentsType ==
  ASSUME NEW list \in Seq(OrderRow), NEW some \in SUBSET DOMAIN list
  PROVE  Contents(list, some) \in Amounts
<1>1. ASSUME NEW g \in Goods
      PROVE  Contents(list, some)[g] \in Nat
  BY ContentsIsSum, SomeOrdersFinite, SumNat
<1>2. QED
  BY <1>1 DEF Contents, Amounts

\* One order contains its items, and none nothing.
LEMMA ContentsOne ==
  ASSUME NEW list \in Seq(OrderRow), NEW x \in DOMAIN list, NEW g \in Goods
  PROVE  /\ Contents(list, {x})[g] = list[x].items[g]
         /\ Contents(list, {})[g] = 0
<1>1. /\ IsFiniteSet({x}) /\ IsFiniteSet({})
      /\ {x} \ {x} = {}
  BY FS_Singleton, FS_EmptySet
<1>2. Column(list, g)[x] = list[x].items[g] /\ list[x].items[g] \in Nat
  BY ColumnType
<1>3. SumFunctionOnSet(Column(list, g), {}) = 0
  BY <1>1, SumNat
<1>4. SumFunctionOnSet(Column(list, g), {x})
        = Column(list, g)[x] + SumFunctionOnSet(Column(list, g), {})
  <2>1. \A y \in {x} : Column(list, g)[y] \in Nat
    BY <1>2
  <2>2. SumFunctionOnSet(Column(list, g), {x})
          = Column(list, g)[x] + SumFunctionOnSet(Column(list, g), {x} \ {x})
    BY <1>1, <2>1, SumNat
  <2>3. QED
    BY <1>1, <2>2
<1>5. {x} \in SUBSET DOMAIN list /\ {} \in SUBSET DOMAIN list
  OBVIOUS
<1>6. /\ Contents(list, {x})[g] = SumFunctionOnSet(Column(list, g), {x})
      /\ Contents(list, {})[g] = SumFunctionOnSet(Column(list, g), {})
  BY <1>5, ContentsIsSum
<1>7. QED
  BY <1>1, <1>2, <1>3, <1>4, <1>6

\* Different orders add up.
LEMMA ContentsParts ==
  ASSUME NEW list \in Seq(OrderRow), NEW S \in SUBSET DOMAIN list,
         NEW T \in SUBSET DOMAIN list, S \cap T = {}, NEW g \in Goods
  PROVE  Contents(list, S \cup T)[g] = Contents(list, S)[g] + Contents(list, T)[g]
<1>1. /\ \A x \in S \cup T : Column(list, g)[x] \in Nat
      /\ IsFiniteSet(S) /\ IsFiniteSet(T)
  BY ColumnType, SomeOrdersFinite
<1>2. SumFunctionOnSet(Column(list, g), S \cup T)
        = SumFunctionOnSet(Column(list, g), S) + SumFunctionOnSet(Column(list, g), T)
  BY <1>1, SumParts
<1>3. QED
  BY <1>2, ContentsIsSum

\* Nothing but the items matters.
LEMMA ContentsSame ==
  ASSUME NEW list \in Seq(OrderRow), NEW other \in Seq(OrderRow),
         NEW some \in SUBSET DOMAIN list, some \subseteq DOMAIN other,
         \A x \in some : other[x].items = list[x].items,
         NEW g \in Goods
  PROVE  Contents(other, some)[g] = Contents(list, some)[g]
BY DEF Contents

-----------------------------------------------------------------------------
(***************************************************************************)
(* The books.                                                              *)
(***************************************************************************)
\* The rows after a movement.
LEMMA MoveIs ==
  ASSUME NEW rows \in [Goods -> StockRow], NEW units \in Amounts,
         NEW kind \in Kinds
  PROVE  /\ Move(kind, rows, units) \in [Goods -> StockRow]
         /\ \A g \in Goods : Move(kind, rows, units)[g] = Moved(kind, rows[g], units[g])
<1>1. ASSUME NEW g \in Goods
      PROVE  Moved(kind, rows[g], units[g]) \in StockRow
  <2>1. rows[g] \in StockRow /\ units[g] \in Int
    BY DEF Amounts
  <2>2. QED
    BY <2>1, MovedRow
<1>2. QED
  BY <1>1 DEF Move

\* What each movement does to the numbers of one row.
LEMMA MoveOfRow ==
  ASSUME NEW rows \in [Goods -> StockRow], NEW units \in Amounts, NEW g \in Goods
  PROVE  LET s == rows[g]
             reserved == Move("reserve", rows, units)[g]
             released == Move("release", rows, units)[g]
             confirmed == Move("confirm", rows, units)[g]
         IN  /\ units[g] \in Nat
             /\ s.total \in Int /\ s.available \in Int /\ s.reserved \in Int /\ s.sold \in Int
             /\ reserved.total = s.total /\ reserved.available = s.available - units[g]
             /\ reserved.reserved = s.reserved + units[g] /\ reserved.sold = s.sold
             /\ released.total = s.total /\ released.available = s.available + units[g]
             /\ released.reserved = s.reserved - units[g] /\ released.sold = s.sold
             /\ confirmed.total = s.total /\ confirmed.available = s.available
             /\ confirmed.reserved = s.reserved - units[g]
             /\ confirmed.sold = s.sold + units[g]
<1> DEFINE s == rows[g]
           n == units[g]
<1>1. s \in StockRow /\ n \in Nat
  BY DEF Amounts
<1>2. s.total \in Int /\ s.available \in Int /\ s.reserved \in Int /\ s.sold \in Int
  BY <1>1 DEF StockRow
<1>3. \A kind \in Kinds : Move(kind, rows, units)[g] = Moved(kind, s, n)
  BY MoveIs
<1> HIDE DEF s, n
<1>4. /\ Moved("reserve", s, n) =
           [total |-> s.total, available |-> s.available - n,
            reserved |-> s.reserved + n, sold |-> s.sold]
      /\ Moved("release", s, n) =
           [total |-> s.total, available |-> s.available + n,
            reserved |-> s.reserved - n, sold |-> s.sold]
      /\ Moved("confirm", s, n) =
           [total |-> s.total, available |-> s.available,
            reserved |-> s.reserved - n, sold |-> s.sold + n]
  BY <1>1, MovedRow
<1>5. /\ Move("reserve", rows, units)[g] = Moved("reserve", s, n)
      /\ Move("release", rows, units)[g] = Moved("release", s, n)
      /\ Move("confirm", rows, units)[g] = Moved("confirm", s, n)
  BY <1>3 DEF Kinds
<1>6. QED
  BY <1>1, <1>2, <1>4, <1>5 DEF s, n

\* A row that has the units to move stays a good row.
LEMMA MoveKeepsValid ==
  ASSUME NEW rows \in [Goods -> StockRow], NEW units \in Amounts,
         NEW kind \in Kinds,
         \A g \in Goods : /\ Valid(rows[g]) /\ Balanced(rows[g])
                          /\ units[g] <= Source(kind, rows[g])
  PROVE  \A g \in Goods : LET new == Move(kind, rows, units)[g]
                          IN Valid(new) /\ Balanced(new)
<1> TAKE g \in Goods
<1>1. Valid(rows[g]) /\ Balanced(rows[g]) /\ units[g] <= Source(kind, rows[g])
  OBVIOUS
<1>2. CASE kind = "reserve"
  BY <1>1, <1>2, MoveOfRow DEF Source, Valid, Balanced
<1>3. CASE kind = "release"
  BY <1>1, <1>3, MoveOfRow DEF Source, Valid, Balanced
<1>4. CASE kind = "confirm"
  BY <1>1, <1>4, MoveOfRow DEF Source, Valid, Balanced
<1>5. QED
  BY <1>2, <1>3, <1>4 DEF Kinds

\* What BooksAgree says of one row, with amounts as numbers.
LEMMA BooksOfRow ==
  ASSUME NEW rows \in [Goods -> StockRow], NEW list \in Seq(OrderRow),
         NEW lost \in Amounts, BooksAgree(rows, list, lost), NEW g \in Goods
  PROVE  /\ rows[g] \in StockRow /\ lost[g] \in Nat
         /\ Contents(list, Having(list, {"COMPLETED", "PAID"}))[g] \in Nat
         /\ Contents(list, Having(list, {"PENDING"}))[g] \in Nat
         /\ Balanced(rows[g])
         /\ rows[g].sold = Contents(list, Having(list, {"COMPLETED", "PAID"}))[g]
         /\ rows[g].reserved =
              Contents(list, Having(list, {"PENDING"}))[g] + lost[g]
<1>1. /\ Having(list, {"COMPLETED", "PAID"}) \in SUBSET DOMAIN list
      /\ Having(list, {"PENDING"}) \in SUBSET DOMAIN list
  BY DEF Having
<1>2. /\ Contents(list, Having(list, {"COMPLETED", "PAID"})) \in Amounts
      /\ Contents(list, Having(list, {"PENDING"})) \in Amounts
  BY <1>1, ContentsType
<1>3. QED
  BY <1>2 DEF BooksAgree, Amounts

LEMMA Appended ==
  ASSUME NEW list \in Seq(OrderRow), NEW o \in OrderRow
  PROVE  LET n == Len(list) + 1
         IN  /\ Append(list, o) \in Seq(OrderRow)
             /\ DOMAIN Append(list, o) = DOMAIN list \cup {n}
             /\ n \notin DOMAIN list /\ n \in Nat
             /\ Append(list, o)[n] = o
             /\ \A x \in DOMAIN list : Append(list, o)[x] = list[x]
<1>1. Len(list) \in Nat /\ DOMAIN list = 1..Len(list)
  BY LenProperties
<1>2. /\ Append(list, o) \in Seq(OrderRow)
      /\ Len(Append(list, o)) = Len(list) + 1
      /\ \A x \in 1..Len(list) : Append(list, o)[x] = list[x]
      /\ Append(list, o)[Len(list) + 1] = o
  BY AppendProperties
<1>3. DOMAIN Append(list, o) = 1..(Len(list) + 1)
  BY <1>2, LenProperties
<1>4. 1..(Len(list) + 1) = 1..Len(list) \cup {Len(list) + 1}
  BY <1>1
<1>5. Len(list) + 1 \notin 1..Len(list) /\ Len(list) + 1 \in Nat
  BY <1>1
<1>6. QED
  BY <1>1, <1>2, <1>3, <1>4, <1>5

\* An order is placed and its items are reserved (PlaceOrder).
LEMMA NewOrderBooks ==
  ASSUME NEW rows \in [Goods -> StockRow], NEW list \in Seq(OrderRow),
         NEW lost \in Amounts, BooksAgree(rows, list, lost),
         NEW o \in OrderRow, o.status = "PENDING"
  PROVE  BooksAgree(Move("reserve", rows, o.items), Append(list, o), lost)
<1> DEFINE n == Len(list) + 1
           new == Append(list, o)
           paid == Having(list, {"COMPLETED", "PAID"})
           pending == Having(list, {"PENDING"})
<1>1. /\ new \in Seq(OrderRow) /\ DOMAIN new = DOMAIN list \cup {n}
      /\ n \notin DOMAIN list /\ new[n] = o
      /\ \A x \in DOMAIN list : new[x] = list[x]
  BY Appended
<1>2. paid \in SUBSET DOMAIN list /\ pending \in SUBSET DOMAIN list
  BY DEF Having
<1>3. /\ Having(new, {"COMPLETED", "PAID"}) = paid
      /\ Having(new, {"PENDING"}) = pending \cup {n}
  BY <1>1 DEF Having
<1> HIDE DEF n, new, paid, pending
<1>4. ASSUME NEW g \in Goods
      PROVE  LET row == Move("reserve", rows, o.items)[g]
             IN  /\ Balanced(row)
                 /\ row.sold = Contents(new, paid)[g]
                 /\ row.reserved = Contents(new, pending \cup {n})[g] + lost[g]
  <2>1. Contents(new, paid)[g] = Contents(list, paid)[g]
    BY <1>1, <1>2, ContentsSame
  <2>2. Contents(new, pending)[g] = Contents(list, pending)[g]
    BY <1>1, <1>2, ContentsSame
  <2>3. Contents(new, {n})[g] = o.items[g]
    BY <1>1, ContentsOne
  <2>4. Contents(new, pending \cup {n})[g] = Contents(new, pending)[g] + Contents(new, {n})[g]
    <3>1. pending \in SUBSET DOMAIN new /\ {n} \in SUBSET DOMAIN new /\ pending \cap {n} = {}
      BY <1>1, <1>2
    <3>2. QED
      BY <1>1, <3>1, ContentsParts
  <2>5. /\ rows[g] \in StockRow /\ lost[g] \in Nat /\ Contents(list, pending)[g] \in Nat
        /\ Balanced(rows[g]) /\ rows[g].sold = Contents(list, paid)[g]
        /\ rows[g].reserved = Contents(list, pending)[g] + lost[g]
    BY BooksOfRow DEF paid, pending
  <2>6. o.items \in Amounts /\ o.items[g] \in Nat
    BY DEF OrderRow, Amounts
  <2> DEFINE row == Move("reserve", rows, o.items)[g]
  <2>7. /\ row.total = rows[g].total /\ row.available = rows[g].available - o.items[g]
        /\ row.reserved = rows[g].reserved + o.items[g] /\ row.sold = rows[g].sold
        /\ rows[g].total \in Int /\ rows[g].available \in Int
        /\ rows[g].reserved \in Int /\ rows[g].sold \in Int
    BY <2>6, MoveOfRow
  <2> HIDE DEF row
  <2>8. Balanced(row) /\ row.sold = Contents(new, paid)[g]
    BY <2>1, <2>5, <2>6, <2>7 DEF Balanced
  <2>9. row.reserved = Contents(new, pending \cup {n})[g] + lost[g]
    <3>1. Contents(new, pending \cup {n})[g] = Contents(list, pending)[g] + o.items[g]
      BY <2>2, <2>3, <2>4
    <3>2. row.reserved = Contents(list, pending)[g] + lost[g] + o.items[g]
      BY <2>5, <2>7
    <3>3. QED
      BY <2>5, <2>6, <3>1, <3>2
  <2>10. QED
    BY <2>8, <2>9 DEF row
<1>5. QED
  BY <1>3, <1>4 DEF BooksAgree, new

\* Units are reserved that no order will have (ReserveSome).
LEMMA LeakedBooks ==
  ASSUME NEW rows \in [Goods -> StockRow], NEW list \in Seq(OrderRow),
         NEW lost \in Amounts, BooksAgree(rows, list, lost), NEW units \in Amounts
  PROVE  BooksAgree(Move("reserve", rows, units), list, Plus(lost, units))
<1> DEFINE paid == Having(list, {"COMPLETED", "PAID"})
           pending == Having(list, {"PENDING"})
<1>1. ASSUME NEW g \in Goods
      PROVE  LET row == Move("reserve", rows, units)[g]
             IN  /\ Balanced(row)
                 /\ row.sold = Contents(list, paid)[g]
                 /\ row.reserved = Contents(list, pending)[g] + Plus(lost, units)[g]
  <2>1. /\ rows[g] \in StockRow /\ lost[g] \in Nat /\ Contents(list, pending)[g] \in Nat
        /\ Balanced(rows[g]) /\ rows[g].sold = Contents(list, paid)[g]
        /\ rows[g].reserved = Contents(list, pending)[g] + lost[g]
    BY BooksOfRow
  <2>2. units[g] \in Nat /\ Plus(lost, units)[g] = lost[g] + units[g]
    BY DEF Amounts, Plus
  <2> DEFINE row == Move("reserve", rows, units)[g]
  <2>3. /\ row.total = rows[g].total /\ row.available = rows[g].available - units[g]
        /\ row.reserved = rows[g].reserved + units[g] /\ row.sold = rows[g].sold
        /\ rows[g].total \in Int /\ rows[g].available \in Int
        /\ rows[g].reserved \in Int /\ rows[g].sold \in Int
    BY MoveOfRow
  <2> HIDE DEF row, paid, pending
  <2>4. Balanced(row) /\ row.sold = Contents(list, paid)[g]
    BY <2>1, <2>2, <2>3 DEF Balanced
  <2>5. row.reserved = Contents(list, pending)[g] + Plus(lost, units)[g]
    BY <2>1, <2>2, <2>3
  <2>6. QED
    BY <2>4, <2>5 DEF row
<1>2. QED
  BY <1>1 DEF BooksAgree

\* A pending order is paid and its items are sold (CompleteOrder).
LEMMA PaidBooks ==
  ASSUME NEW rows \in [Goods -> StockRow], NEW list \in Seq(OrderRow),
         NEW lost \in Amounts, BooksAgree(rows, list, lost),
         NEW x \in DOMAIN list, list[x].status = "PENDING",
         NEW new \in Seq(OrderRow), DOMAIN new = DOMAIN list,
         \A y \in DOMAIN list : /\ new[y].items = list[y].items
                                /\ y # x => new[y].status = list[y].status,
         new[x].status = "COMPLETED"
  PROVE  BooksAgree(Move("confirm", rows, list[x].items), new, lost)
<1> DEFINE units == list[x].items
           paid == Having(list, {"COMPLETED", "PAID"})
           pending == Having(list, {"PENDING"})
           rest == pending \ {x}
<1>1. /\ paid \in SUBSET DOMAIN list /\ rest \in SUBSET DOMAIN list
      /\ {x} \in SUBSET DOMAIN list /\ paid \cap {x} = {} /\ rest \cap {x} = {}
      /\ pending = rest \cup {x}
  BY DEF Having
<1>2. /\ Having(new, {"COMPLETED", "PAID"}) = paid \cup {x}
      /\ Having(new, {"PENDING"}) = rest
  BY DEF Having
<1>3. list[x] \in OrderRow
  BY LenProperties
<1>4. units \in Amounts
  BY <1>3 DEF OrderRow
<1>5. ASSUME NEW g \in Goods
      PROVE  LET row == Move("confirm", rows, units)[g]
             IN  /\ Balanced(row)
                 /\ row.sold = Contents(new, paid \cup {x})[g]
                 /\ row.reserved = Contents(new, rest)[g] + lost[g]
  <2> DEFINE row == Move("confirm", rows, units)[g]
  <2>1. /\ rows[g] \in StockRow /\ lost[g] \in Nat /\ Contents(list, pending)[g] \in Nat
        /\ Contents(list, paid)[g] \in Nat
        /\ Balanced(rows[g]) /\ rows[g].sold = Contents(list, paid)[g]
        /\ rows[g].reserved = Contents(list, pending)[g] + lost[g]
    BY BooksOfRow
  <2>2. /\ row.total = rows[g].total /\ row.available = rows[g].available
        /\ row.reserved = rows[g].reserved - units[g] /\ row.sold = rows[g].sold + units[g]
        /\ rows[g].total \in Int /\ rows[g].available \in Int
        /\ rows[g].reserved \in Int /\ rows[g].sold \in Int /\ units[g] \in Nat
    BY <1>4, MoveOfRow
  <2> HIDE DEF row, paid, pending, rest, units
  <2>3. Contents(list, {x})[g] = units[g]
    BY ContentsOne DEF units
  <2>4. /\ Contents(list, pending)[g] = Contents(list, rest)[g] + Contents(list, {x})[g]
        /\ Contents(list, paid \cup {x})[g] = Contents(list, paid)[g] + Contents(list, {x})[g]
    BY <1>1, ContentsParts
  <2>5. paid \cup {x} \in SUBSET DOMAIN list
    BY <1>1
  <2>6. /\ Contents(new, paid \cup {x})[g] = Contents(list, paid \cup {x})[g]
        /\ Contents(new, rest)[g] = Contents(list, rest)[g]
    <3>1. /\ paid \cup {x} \subseteq DOMAIN new /\ rest \subseteq DOMAIN new
          /\ \A y \in paid \cup {x} : new[y].items = list[y].items
          /\ \A y \in rest : new[y].items = list[y].items
      BY <1>1, <2>5
    <3>2. Contents(new, paid \cup {x})[g] = Contents(list, paid \cup {x})[g]
      BY <2>5, <3>1, ContentsSame
    <3>3. Contents(new, rest)[g] = Contents(list, rest)[g]
      BY <1>1, <3>1, ContentsSame
    <3>4. QED
      BY <3>2, <3>3
  <2>7. Contents(list, rest)[g] \in Nat
    BY <1>1, ContentsType DEF Amounts
  <2>8. Balanced(row)
    <3>1. rows[g].available + rows[g].reserved + rows[g].sold = rows[g].total
      BY <2>1 DEF Balanced
    <3>2. row.available + row.reserved + row.sold = row.total
      BY <2>2, <3>1
    <3>3. QED
      BY <3>2 DEF Balanced
  <2>9. row.sold = Contents(new, paid \cup {x})[g]
    BY <2>1, <2>2, <2>3, <2>4, <2>6
  <2>10. row.reserved = Contents(new, rest)[g] + lost[g]
    <3>1. row.reserved = Contents(list, pending)[g] + lost[g] - units[g]
      BY <2>1, <2>2
    <3>2. Contents(list, pending)[g] = Contents(new, rest)[g] + units[g]
      BY <2>3, <2>4, <2>6
    <3>3. Contents(new, rest)[g] \in Nat /\ units[g] \in Nat /\ lost[g] \in Nat
      BY <2>1, <2>2, <2>6, <2>7
    <3>4. QED
      BY <3>1, <3>2, <3>3
  <2>11. QED
    BY <2>8, <2>9, <2>10 DEF row
<1>6. QED
  BY <1>2, <1>5 DEF BooksAgree

\* Pending orders are cancelled and their items are released (RunJob): they have
\* them reserved.
LEMMA JobBooks ==
  ASSUME NEW rows \in [Goods -> StockRow], NEW list \in Seq(OrderRow),
         NEW lost \in Amounts, BooksAgree(rows, list, lost),
         NEW due \in SUBSET Having(list, {"PENDING"}),
         NEW new \in Seq(OrderRow), DOMAIN new = DOMAIN list,
         \A y \in DOMAIN list :
           /\ new[y].items = list[y].items
           /\ new[y].status = IF y \in due THEN "CANCELED" ELSE list[y].status
  PROVE  /\ BooksAgree(Move("release", rows, Contents(list, due)), new, lost)
         /\ \A g \in Goods : Contents(list, due)[g] <= rows[g].reserved
<1> DEFINE units == Contents(list, due)
           paid == Having(list, {"COMPLETED", "PAID"})
           pending == Having(list, {"PENDING"})
           rest == pending \ due
<1>1. /\ paid \in SUBSET DOMAIN list /\ rest \in SUBSET DOMAIN list
      /\ due \in SUBSET DOMAIN list /\ rest \cap due = {}
      /\ pending = rest \cup due
  BY DEF Having
<1>2. /\ Having(new, {"COMPLETED", "PAID"}) = paid
      /\ Having(new, {"PENDING"}) = rest
  BY DEF Having
<1>3. units \in Amounts
  BY <1>1, ContentsType
<1>4. ASSUME NEW g \in Goods
      PROVE  LET row == Move("release", rows, units)[g]
             IN  /\ Balanced(row)
                 /\ row.sold = Contents(new, paid)[g]
                 /\ row.reserved = Contents(new, rest)[g] + lost[g]
                 /\ units[g] <= rows[g].reserved
  <2> DEFINE row == Move("release", rows, units)[g]
  <2>1. /\ rows[g] \in StockRow /\ lost[g] \in Nat /\ Contents(list, pending)[g] \in Nat
        /\ Contents(list, paid)[g] \in Nat
        /\ Balanced(rows[g]) /\ rows[g].sold = Contents(list, paid)[g]
        /\ rows[g].reserved = Contents(list, pending)[g] + lost[g]
    BY BooksOfRow
  <2>2. /\ row.total = rows[g].total /\ row.available = rows[g].available + units[g]
        /\ row.reserved = rows[g].reserved - units[g] /\ row.sold = rows[g].sold
        /\ rows[g].total \in Int /\ rows[g].available \in Int
        /\ rows[g].reserved \in Int /\ rows[g].sold \in Int /\ units[g] \in Nat
    BY <1>3, MoveOfRow
  <2> HIDE DEF row, paid, pending, rest
  <2>3. Contents(list, pending)[g] = Contents(list, rest)[g] + units[g]
    BY <1>1, ContentsParts
  <2> HIDE DEF units
  <2>4. /\ Contents(new, paid)[g] = Contents(list, paid)[g]
        /\ Contents(new, rest)[g] = Contents(list, rest)[g]
    BY <1>1, ContentsSame
  <2>5. Contents(list, rest)[g] \in Nat
    BY <1>1, ContentsType DEF Amounts
  <2>6. Balanced(row) /\ row.sold = Contents(new, paid)[g]
    BY <2>1, <2>2, <2>4 DEF Balanced
  <2>7. /\ row.reserved = Contents(new, rest)[g] + lost[g]
        /\ units[g] <= rows[g].reserved
    <3>1. /\ row.reserved = rows[g].reserved - units[g]
          /\ rows[g].reserved = Contents(list, pending)[g] + lost[g]
      BY <2>1, <2>2
    <3>2. Contents(list, pending)[g] = Contents(new, rest)[g] + units[g]
      BY <2>3, <2>4
    <3>3. Contents(new, rest)[g] \in Nat /\ units[g] \in Nat /\ lost[g] \in Nat
      BY <2>1, <2>2, <2>4, <2>5
    <3>4. QED
      BY <3>1, <3>2, <3>3
  <2>8. QED
    BY <2>6, <2>7 DEF row
<1>5. QED
  BY <1>2, <1>4 DEF BooksAgree

-----------------------------------------------------------------------------
(***************************************************************************)
(* What the requests do to the order rows.                                 *)
(***************************************************************************)
LEMMA OrderType ==
  ASSUME TypeOK, NEW x \in DOMAIN orders
  PROVE  /\ orders \in Seq(OrderRow) /\ orders[x] \in OrderRow
         /\ orders[x].items \in Amounts
<1>1. orders \in Seq(OrderRow)
  BY DEF TypeOK
<1>2. orders[x] \in OrderRow
  BY <1>1, LenProperties
<1>3. QED
  BY <1>1, <1>2 DEF OrderRow

\* Other rows in the same places.
LEMMA SamePlaces ==
  ASSUME NEW list \in Seq(OrderRow), NEW new,
         new = [x \in DOMAIN list |-> new[x]],
         \A x \in DOMAIN list : new[x] \in OrderRow
  PROVE  new \in Seq(OrderRow)
<1>1. DOMAIN list = 1..Len(list) /\ Len(list) \in Nat
  BY LenProperties
<1>2. new \in [1..Len(list) -> OrderRow]
  BY <1>1
<1>3. QED
  BY <1>1, <1>2, SeqDef

LEMMA CompletedOrder ==
  ASSUME TypeOK, NEW x \in DOMAIN orders, CompleteOrder(x)
  PROVE  LET new == [orders[x] EXCEPT !.status = "COMPLETED", !.paidAt = now]
         IN  /\ orders' \in Seq(OrderRow) /\ DOMAIN orders' = DOMAIN orders
             /\ orders'[x] = new /\ new \in OrderRow
             /\ new.status = "COMPLETED" /\ new.paidAt = now
             /\ \A y \in DOMAIN orders : y # x => orders'[y] = orders[y]
             /\ \A y \in DOMAIN orders : orders'[y].items = orders[y].items
<1> DEFINE new == [orders[x] EXCEPT !.status = "COMPLETED", !.paidAt = now]
<1>1. orders \in Seq(OrderRow) /\ \A y \in DOMAIN orders : orders[y] \in OrderRow
  BY OrderType DEF TypeOK
<1>2. now \in Int
  BY CheckoutAssumption DEF TypeOK
<1>3. /\ new \in OrderRow /\ new.status = "COMPLETED" /\ new.paidAt = now
      /\ new.items = orders[x].items
  BY <1>1, <1>2 DEF OrderRow
<1>4. orders' = [orders EXCEPT ![x] = new]
  BY DEF CompleteOrder
<1> HIDE DEF new
<1>5. /\ DOMAIN orders' = DOMAIN orders /\ orders'[x] = new
      /\ \A y \in DOMAIN orders : y # x => orders'[y] = orders[y]
  BY <1>4
<1>6. orders' \in Seq(OrderRow)
  BY <1>1, <1>3, <1>4, SamePlaces
<1>7. QED
  BY <1>3, <1>5, <1>6 DEF new

LEMMA CancelledOrders ==
  ASSUME TypeOK, RunJob
  PROVE  LET due == {x \in DOMAIN orders : Due(x)}
         IN  /\ orders' \in Seq(OrderRow) /\ DOMAIN orders' = DOMAIN orders
             /\ \A y \in DOMAIN orders :
                  orders'[y] = IF y \in due THEN [orders[y] EXCEPT !.status = "CANCELED"]
                               ELSE orders[y]
             /\ \A y \in DOMAIN orders :
                  /\ orders'[y].items = orders[y].items
                  /\ orders'[y].paidAt = orders[y].paidAt
                  /\ orders'[y].status = IF y \in due THEN "CANCELED" ELSE orders[y].status
<1> DEFINE due == {x \in DOMAIN orders : Due(x)}
<1>1. orders \in Seq(OrderRow) /\ \A y \in DOMAIN orders : orders[y] \in OrderRow
  BY OrderType DEF TypeOK
<1>2. orders' = [y \in DOMAIN orders |->
                   IF y \in due THEN [orders[y] EXCEPT !.status = "CANCELED"]
                   ELSE orders[y]]
  BY DEF RunJob
<1> HIDE DEF due
<1>3. ASSUME NEW y \in DOMAIN orders
      PROVE  LET new == [orders[y] EXCEPT !.status = "CANCELED"]
             IN  /\ new \in OrderRow /\ new.items = orders[y].items
                 /\ new.paidAt = orders[y].paidAt /\ new.status = "CANCELED"
  BY <1>1 DEF OrderRow
<1>4. /\ DOMAIN orders' = DOMAIN orders
      /\ \A y \in DOMAIN orders :
           orders'[y] = IF y \in due THEN [orders[y] EXCEPT !.status = "CANCELED"]
                        ELSE orders[y]
  BY <1>2
<1>5. \A y \in DOMAIN orders : orders'[y] \in OrderRow
  BY <1>1, <1>3, <1>4
<1>6. orders' \in Seq(OrderRow)
  BY <1>1, <1>2, <1>5, SamePlaces
<1>7. \A y \in DOMAIN orders :
        /\ orders'[y].items = orders[y].items
        /\ orders'[y].paidAt = orders[y].paidAt
        /\ orders'[y].status = IF y \in due THEN "CANCELED" ELSE orders[y].status
  BY <1>3, <1>4
<1>8. QED
  BY <1>4, <1>6, <1>7 DEF due

-----------------------------------------------------------------------------
(***************************************************************************)
(* Types and books, one request at a time.                                 *)
(***************************************************************************)
Rows == TypeOK /\ Books

LEMMA RowIsGood ==
  ASSUME Rows, NEW g \in Goods
  PROVE  stock[g] \in StockRow /\ Valid(stock[g]) /\ Balanced(stock[g])
BY DEF Rows, TypeOK, Books, BooksAgree

\* Only the cart changes.
LEMMA LineRows ==
  ASSUME Rows, NEW u \in Users, NEW g \in Options, NEW qty \in Nat, SetLine(u, g, qty)
  PROVE  Rows'
<1>1. g \in Goods
  BY CheckoutAssumption
<1>2. cart' \in [Users -> Amounts]
  BY <1>1 DEF Rows, TypeOK, SetLine, Amounts
<1>3. QED
  BY <1>2 DEF Rows, TypeOK, Books, SetLine, history

LEMMA CartRows ==
  ASSUME Rows, NEW u \in Users, ClearCart(u)
  PROVE  Rows'
<1>1. cart' \in [Users -> Amounts]
  BY DEF Rows, TypeOK, ClearCart, Nothing, Amounts
<1>2. QED
  BY <1>1 DEF Rows, TypeOK, Books, ClearCart, history

LEMMA UserCouponType ==
  ASSUME TypeOK, NEW w \in wallet
  PROVE  /\ w \in UserCouponRow
         /\ w.user \in Users /\ w.coupon \in Coupons /\ w.usedAt \in Int
         /\ SeedCoupons[w.coupon] \in CouponRow
<1>1. w \in UserCouponRow
  BY DEF TypeOK
<1>2. w.user \in Users /\ w.coupon \in Coupons /\ w.usedAt \in Int
  BY <1>1 DEF UserCouponRow
<1>3. QED
  BY <1>1, <1>2, CheckoutAssumption

LEMMA IssueRows ==
  ASSUME Rows, NEW u \in Users, NEW c \in Coupons, IssueCoupon(u, c)
  PROVE  Rows'
<1>1. SeedCoupons[c] \in CouponRow
  BY CheckoutAssumption
<1>2. SeedCoupons[c].until \in Int
  BY <1>1 DEF CouponRow
<1>3. Never \in Int
  BY CheckoutAssumption
<1>4. Fresh(u, c) \in UserCouponRow
  BY <1>2, <1>3 DEF Fresh, UserCouponRow
<1>5. issued' \in [Coupons -> Nat] /\ wallet' \subseteq UserCouponRow
  BY <1>4 DEF Rows, TypeOK, IssueCoupon
<1>6. QED
  BY <1>5 DEF Rows, TypeOK, Books, IssueCoupon, history

LEMMA TickRows ==
  ASSUME Rows, Tick
  PROVE  Rows'
BY DEF Rows, TypeOK, Books, Tick, history

LEMMA TotalType ==
  ASSUME NEW items \in Amounts
  PROVE  Total(items) \in Nat
<1> DEFINE f == [g \in Goods |-> Subtotal(g, items[g])]
<1>1. ASSUME NEW g \in Goods
      PROVE  f[g] \in Nat
  <2>1. Price[g] \in Nat /\ items[g] \in Nat
    BY CheckoutAssumption DEF Amounts
  <2>2. QED
    BY <2>1 DEF Subtotal, LinePrice
<1>2. IsFiniteSet(Goods)
  BY CheckoutAssumption
<1> HIDE DEF f
<1>3. SumFunctionOnSet(f, Goods) \in Nat
  BY <1>1, <1>2, SumNat
<1>4. DOMAIN f = Goods
  BY DEF f
<1>5. QED
  BY <1>3, <1>4 DEF Total, SumFunction, f

\* What is reserved and released again is back where it was.
LEMMA UndoReserve ==
  ASSUME NEW rows \in [Goods -> StockRow], NEW units \in Amounts
  PROVE  Undo(Move("reserve", rows, units), units) = rows
<1> DEFINE reserved == Move("reserve", rows, units)
           undone == Move("release", reserved, units)
<1>1. reserved \in [Goods -> StockRow] /\ undone \in [Goods -> StockRow]
  BY MoveIs DEF Kinds
<1>2. ASSUME NEW g \in Goods
      PROVE  undone[g] = rows[g]
  <2>1. /\ units[g] \in Nat
        /\ rows[g].available \in Int /\ rows[g].reserved \in Int
        /\ reserved[g].total = rows[g].total /\ reserved[g].sold = rows[g].sold
        /\ reserved[g].available = rows[g].available - units[g]
        /\ reserved[g].reserved = rows[g].reserved + units[g]
    BY MoveOfRow
  <2>2. /\ undone[g].total = reserved[g].total /\ undone[g].sold = reserved[g].sold
        /\ undone[g].available = reserved[g].available + units[g]
        /\ undone[g].reserved = reserved[g].reserved - units[g]
    BY <1>1, MoveOfRow
  <2>3. undone[g] \in StockRow /\ rows[g] \in StockRow
    BY <1>1
  <2> HIDE DEF undone, reserved
  <2>4. /\ undone[g].available = rows[g].available
        /\ undone[g].reserved = rows[g].reserved
    BY <2>1, <2>2
  <2>5. /\ undone[g].total = rows[g].total
        /\ undone[g].sold = rows[g].sold
    BY <2>1, <2>2
  <2>6. QED
    BY <2>3, <2>4, <2>5 DEF StockRow
<1> HIDE DEF undone
<1>3. undone = rows
  BY <1>1, <1>2
<1>4. QED
  BY <1>3 DEF Undo, undone

\* A discount is an amount, at most what the coupon is worth.
LEMMA DiscountType ==
  ASSUME NEW k \in CouponRow, NEW total \in Nat, NEW d \in Discounts(k, total)
  PROVE  /\ d \in Nat
         /\ d <= (IF k.type = "FIXED" THEN k.value ELSE (total * k.value) \div 100)
<1> DEFINE h == total * k.value
<1>1. k.value \in Nat
  BY DEF CouponRow
<1>2. h \in Nat
  BY <1>1
<1>3. CASE k.type = "FIXED"
  BY <1>1, <1>3 DEF Discounts
<1>4. CASE k.type # "FIXED"
  <2>1. d \in {h \div 100} \cup {e \in {h \div 100 - 1} : h > 0 /\ h % 100 = 0}
    BY <1>4 DEF Discounts
  <2> HIDE DEF h
  <2>2. h \div 100 \in Nat
    BY <1>2
  <2>3. h > 0 /\ h % 100 = 0 => h \div 100 >= 1
    BY <1>2
  <2>4. d \in Nat /\ d <= h \div 100
    BY <2>1, <2>2, <2>3
  <2>5. QED
    BY <1>4, <2>4 DEF h
<1>5. QED
  BY <1>3, <1>4

\* Everything a cart asks for is there.
LEMMA NothingShort ==
  ASSUME TypeOK, NEW u \in Users, Short(u) = {}, NEW g \in Goods, Valid(stock[g])
  PROVE  cart[u] \in Amounts /\ cart[u][g] <= Source("reserve", stock[g])
<1>1. cart[u] \in Amounts /\ cart[u][g] \in Nat
  BY DEF TypeOK, Amounts
<1>2. stock[g].available \in Int /\ stock[g].available >= 0
  BY DEF TypeOK, StockRow, Valid
<1>3. ASSUME cart[u][g] > 0
      PROVE  cart[u][g] <= Source("reserve", stock[g])
  BY <1>3 DEF Short, Wanted, Allowed
<1>4. ASSUME cart[u][g] = 0
      PROVE  cart[u][g] <= Source("reserve", stock[g])
  BY <1>2, <1>4 DEF Source
<1>5. QED
  BY <1>1, <1>3, <1>4

LEMMA NewOrderType ==
  ASSUME TypeOK, NEW u \in Users, NEW coupon \in Coupons \cup {NoCoupon},
         NEW discount \in Nat
  PROVE  LET o == NewOrder(u, coupon, discount)
         IN  /\ o \in OrderRow /\ o.status = "PENDING" /\ o.items = cart[u]
             /\ o.user = u /\ o.coupon = coupon /\ o.discount = discount
             /\ o.total = Total(cart[u]) /\ o.paidAt = Never
<1>1. cart[u] \in Amounts
  BY DEF TypeOK
<1>2. Total(cart[u]) \in Nat
  BY <1>1, TotalType
<1>3. now + ReservationMinutes \in Int /\ Never \in Int
  BY CheckoutAssumption DEF TypeOK, ReservationMinutes
<1>4. QED
  BY <1>1, <1>2, <1>3 DEF NewOrder, OrderRow

\* The rows an order request writes when nothing is short.
LEMMA PlaceRows ==
  ASSUME Rows, NEW u \in Users, Short(u) = {},
         NEW coupon \in Coupons \cup {NoCoupon}, NEW discount \in Nat,
         PlaceOrder(u, coupon, discount)
  PROVE  /\ stock' \in [Goods -> StockRow] /\ \A g \in Goods : Valid(stock'[g])
         /\ cart' \in [Users -> Amounts] /\ orders' \in Seq(OrderRow)
         /\ leaked' \in Amounts /\ forfeited' \subseteq Users \X Coupons
         /\ Books'
<1> DEFINE o == NewOrder(u, coupon, discount)
           reserved == Move("reserve", stock, cart[u])
<1>1. /\ stock \in [Goods -> StockRow] /\ orders \in Seq(OrderRow)
      /\ leaked \in Amounts /\ cart \in [Users -> Amounts] /\ cart[u] \in Amounts
      /\ forfeited \subseteq Users \X Coupons
  BY DEF Rows, TypeOK
<1>2. o \in OrderRow /\ o.status = "PENDING" /\ o.items = cart[u]
  BY NewOrderType DEF Rows
<1>3. \A g \in Goods : /\ Valid(stock[g]) /\ Balanced(stock[g])
                       /\ cart[u][g] <= Source("reserve", stock[g])
  BY RowIsGood, NothingShort DEF Rows
<1>4. reserved \in [Goods -> StockRow] /\ \A g \in Goods : Valid(reserved[g])
  BY <1>1, <1>3, MoveIs, MoveKeepsValid DEF Kinds
<1>5. CASE Orderable(Total(cart[u]), discount)
  <2>1. /\ stock' = reserved /\ orders' = Append(orders, o)
        /\ cart' = [cart EXCEPT ![u] = Nothing] /\ UNCHANGED history
    BY <1>5 DEF PlaceOrder
  <2>2. cart' \in [Users -> Amounts]
    BY <1>1, <2>1 DEF Nothing, Amounts
  <2>3. orders' \in Seq(OrderRow)
    BY <1>1, <1>2, <2>1, Appended
  <2>4. BooksAgree(Move("reserve", stock, o.items), Append(orders, o), leaked)
    BY <1>1, <1>2, NewOrderBooks DEF Rows, Books
  <2>5. Books'
    BY <1>2, <2>1, <2>4 DEF Books, history
  <2>6. QED
    BY <1>1, <1>4, <2>1, <2>2, <2>3, <2>5 DEF history
<1>6. CASE ~Orderable(Total(cart[u]), discount)
  <2>1. /\ stock' = Undo(reserved, cart[u]) /\ UNCHANGED <<cart, orders, leaked>>
        /\ forfeited' = forfeited \cup ({<<u, coupon>>} \ {<<u, NoCoupon>>})
    BY <1>6 DEF PlaceOrder
  <2>2. stock' = stock
    BY <1>1, <2>1, UndoReserve
  <2>3. forfeited' \subseteq Users \X Coupons
    BY <1>1, <2>1
  <2>4. QED
    BY <1>1, <1>3, <2>1, <2>2, <2>3 DEF Rows, Books
<1>7. QED
  BY <1>5, <1>6

LEMMA LeakRows ==
  ASSUME Rows, NEW u \in Users, ReserveSome(u)
  PROVE  /\ stock' \in [Goods -> StockRow] /\ \A g \in Goods : Valid(stock'[g])
         /\ leaked' \in Amounts /\ UNCHANGED <<cart, orders, wallet, forfeited>>
         /\ Books'
<1>1. PICK done \in SUBSET (Wanted(u) \ Short(u)) :
        /\ stock' = Move("reserve", stock, Only(cart[u], done))
        /\ leaked' = Plus(leaked, Only(cart[u], done))
        /\ UNCHANGED <<cart, orders, wallet, forfeited>>
  BY DEF ReserveSome
<1> DEFINE units == Only(cart[u], done)
<1>2. /\ stock \in [Goods -> StockRow] /\ orders \in Seq(OrderRow)
      /\ leaked \in Amounts /\ cart[u] \in Amounts
  BY DEF Rows, TypeOK
<1>3. units \in Amounts
  BY <1>2 DEF Only, Amounts
<1>4. ASSUME NEW g \in Goods
      PROVE  units[g] <= Source("reserve", stock[g])
  <2>1. stock[g].available \in Int /\ stock[g].available >= 0
    BY RowIsGood DEF StockRow, Valid
  <2>2. CASE g \in done
    <3>1. Allowed("reserve", stock[g], cart[u][g])
      BY <2>2 DEF Short
    <3>2. units[g] = cart[u][g]
      BY <2>2 DEF Only
    <3>3. QED
      BY <3>1, <3>2 DEF Allowed
  <2>3. CASE g \notin done
    BY <2>1, <2>3 DEF Only, Source
  <2>4. QED
    BY <2>2, <2>3
<1> HIDE DEF units
<1>5. stock' = Move("reserve", stock, units) /\ leaked' = Plus(leaked, units)
  BY <1>1 DEF units
<1>6. stock' \in [Goods -> StockRow] /\ \A g \in Goods : Valid(stock'[g])
  BY <1>2, <1>3, <1>4, <1>5, RowIsGood, MoveIs, MoveKeepsValid DEF Kinds
<1>7. leaked' \in Amounts
  BY <1>2, <1>3, <1>5 DEF Plus, Amounts
<1>8. BooksAgree(Move("reserve", stock, units), orders, Plus(leaked, units))
  BY <1>2, <1>3, LeakedBooks DEF Rows, Books
<1>9. QED
  BY <1>1, <1>5, <1>6, <1>7, <1>8 DEF Books

\* The coupon of an order is used.
LEMMA UsedType ==
  ASSUME TypeOK, NEW w \in wallet
  PROVE  LET w2 == [w EXCEPT !.usedAt = now]
         IN  /\ Used(w) = (wallet \ {w}) \cup {w2}
             /\ w2 \in UserCouponRow /\ w2.user = w.user /\ w2.coupon = w.coupon
             /\ w2.usedAt = now /\ w2.usedAt # Never
             /\ Used(w) \subseteq UserCouponRow
<1>1. now \in Int /\ now # Never
  BY CheckoutAssumption DEF TypeOK
<1>2. w \in UserCouponRow
  BY UserCouponType
<1>3. QED
  BY <1>1, <1>2 DEF Used, UserCouponRow, TypeOK

LEMMA CreateRows ==
  ASSUME Rows, NEW u \in Users, CreateOrder(u)
  PROVE  Rows'
<1>1. /\ creates' \in 0..MaxCreates /\ UNCHANGED <<now, payments, issued>>
  BY CheckoutAssumption DEF CreateOrder, Rows, TypeOK
<1>2. CASE Short(u) # {} /\ ReserveSome(u)
  BY <1>1, <1>2, LeakRows DEF Rows, TypeOK
<1>3. CASE Short(u) = {} /\ PlaceOrder(u, NoCoupon, 0) /\ UNCHANGED wallet
  BY <1>1, <1>3, PlaceRows DEF Rows, TypeOK
<1>4. ASSUME Short(u) = {}, NEW w \in wallet, wallet' = Used(w),
             NEW d \in Discounts(SeedCoupons[w.coupon], Total(cart[u])),
             PlaceOrder(u, w.coupon, d)
      PROVE  Rows'
  <2>1. w.coupon \in Coupons /\ SeedCoupons[w.coupon] \in CouponRow
    BY UserCouponType DEF Rows
  <2>2. Total(cart[u]) \in Nat
    BY TotalType DEF Rows, TypeOK
  <2>3. d \in Nat
    BY <2>1, <2>2, DiscountType
  <2>4. wallet' \subseteq UserCouponRow
    BY <1>4, UsedType DEF Rows
  <2>5. QED
    BY <1>1, <1>4, <2>1, <2>3, <2>4, PlaceRows DEF Rows, TypeOK
<1>5. QED
  BY <1>2, <1>3, <1>4 DEF CreateOrder

LEMMA CompleteRows ==
  ASSUME Rows, NEW x \in DOMAIN orders, CompleteOrder(x)
  PROVE  Rows'
<1> DEFINE units == orders[x].items
<1>1. /\ stock \in [Goods -> StockRow] /\ orders \in Seq(OrderRow) /\ leaked \in Amounts
      /\ units \in Amounts /\ orders[x] \in OrderRow
  BY OrderType DEF Rows, TypeOK
<1>2. /\ orders' \in Seq(OrderRow) /\ DOMAIN orders' = DOMAIN orders
      /\ orders'[x].status = "COMPLETED"
      /\ \A y \in DOMAIN orders : /\ orders'[y].items = orders[y].items
                                  /\ y # x => orders'[y].status = orders[y].status
  BY CompletedOrder DEF Rows
<1>3. /\ stock' = Move("confirm", stock, units)
      /\ payments' = payments \cup {NewPayment(x)}
      /\ orders[x].status = "PENDING" /\ AmountDue(orders[x]) > 0
      /\ \A g \in Goods : units[g] > 0 => Allowed("confirm", stock[g], units[g])
      /\ UNCHANGED <<now, cart, issued, wallet, creates, leaked, forfeited>>
  BY DEF CompleteOrder, history
<1>4. ASSUME NEW g \in Goods
      PROVE  units[g] <= Source("confirm", stock[g])
  <2>1. stock[g].reserved \in Int /\ stock[g].reserved >= 0 /\ units[g] \in Nat
    BY <1>1, RowIsGood DEF StockRow, Valid, Amounts
  <2>2. CASE units[g] > 0
    BY <1>3, <2>2 DEF Allowed
  <2>3. CASE units[g] = 0
    BY <2>1, <2>3 DEF Source
  <2>4. QED
    BY <2>1, <2>2, <2>3
<1>5. NewPayment(x) \in PaymentRow
  <2>1. x \in Nat
    BY <1>1, LenProperties
  <2>2. AmountDue(orders[x]) \in Nat \ {0}
    BY <1>1, <1>3 DEF AmountDue, OrderRow
  <2>3. QED
    BY <2>1, <2>2 DEF NewPayment, PaymentRow
<1>6. BooksAgree(Move("confirm", stock, units), orders', leaked)
  BY <1>1, <1>2, <1>3, PaidBooks DEF Rows, Books
<1> HIDE DEF units
<1>7. stock' \in [Goods -> StockRow] /\ \A g \in Goods : Valid(stock'[g])
  BY <1>1, <1>3, <1>4, RowIsGood, MoveIs, MoveKeepsValid DEF Kinds
<1>8. QED
  BY <1>2, <1>3, <1>5, <1>6, <1>7 DEF Rows, TypeOK, Books

LEMMA JobRows ==
  ASSUME Rows, RunJob
  PROVE  Rows'
<1> DEFINE due == {x \in DOMAIN orders : Due(x)}
           units == Contents(orders, due)
<1>1. stock \in [Goods -> StockRow] /\ orders \in Seq(OrderRow) /\ leaked \in Amounts
  BY DEF Rows, TypeOK
<1>2. /\ orders' \in Seq(OrderRow) /\ DOMAIN orders' = DOMAIN orders
      /\ \A y \in DOMAIN orders :
           /\ orders'[y].items = orders[y].items
           /\ orders'[y].status = IF y \in due THEN "CANCELED" ELSE orders[y].status
  BY CancelledOrders DEF Rows
<1>3. /\ stock' = Move("release", stock, units)
      /\ UNCHANGED <<now, cart, payments, issued, wallet, creates, leaked, forfeited>>
  BY DEF RunJob, history
<1>4. due \in SUBSET Having(orders, {"PENDING"}) /\ due \in SUBSET DOMAIN orders
  BY DEF Due, Having
<1>5. units \in Amounts
  BY <1>1, <1>4, ContentsType
<1> HIDE DEF due
<1>6. /\ BooksAgree(Move("release", stock, units), orders', leaked)
      /\ \A g \in Goods : units[g] <= stock[g].reserved
  BY <1>1, <1>2, <1>4, JobBooks DEF Rows, Books
<1> HIDE DEF units
<1>7. stock' \in [Goods -> StockRow] /\ \A g \in Goods : Valid(stock'[g])
  <2>1. \A g \in Goods : units[g] <= Source("release", stock[g])
    BY <1>6 DEF Source
  <2>2. QED
    BY <1>1, <1>3, <1>5, <2>1, RowIsGood, MoveIs, MoveKeepsValid DEF Kinds
<1>8. QED
  BY <1>2, <1>3, <1>6, <1>7 DEF Rows, TypeOK, Books

-----------------------------------------------------------------------------
LEMMA InitRows == Init => Rows
<1> SUFFICES ASSUME Init PROVE Rows
  OBVIOUS
<1>1. \A c \in Coupons : SeedCoupons[c].issued \in Nat
  BY CheckoutAssumption DEF CouponRow
<1>2. TypeOK
  BY <1>1, CheckoutAssumption DEF Init, TypeOK, Nothing, Amounts
<1>3. Books
  BY SeedAssumption DEF Init, Books
<1>4. QED
  BY <1>2, <1>3 DEF Rows

\* The requests, listed.
LEMMA NextRows == Rows /\ [Next]_vars => Rows'
<1> SUFFICES ASSUME Rows, [Next]_vars PROVE Rows'
  OBVIOUS
<1>1. ASSUME NEW a \in Additions, AddItem(a.user, a.option, a.qty)
      PROVE  Rows'
  <2>1. a.user \in Users /\ a.option \in Options /\ a.qty \in Nat
    BY CheckoutAssumption
  <2>2. a.option \in Goods
    BY <2>1, CheckoutAssumption
  <2>3. cart[a.user][a.option] + a.qty \in Nat
    BY <2>1, <2>2 DEF Rows, TypeOK, Amounts
  <2>4. QED
    BY <1>1, <2>1, <2>3, LineRows DEF AddItem
<1>2. ASSUME NEW u \in Users, NEW g \in Options, NEW q \in Quantities, UpdateItem(u, g, q)
      PROVE  Rows'
  BY <1>2, CheckoutAssumption, LineRows DEF UpdateItem
<1>3. ASSUME NEW u \in Users, NEW g \in Options, RemoveItem(u, g)
      PROVE  Rows'
  BY <1>3, LineRows DEF RemoveItem
<1>4. CASE UNCHANGED vars
  BY <1>4 DEF Rows, TypeOK, Books, vars, history
<1>5. QED
  BY <1>1, <1>2, <1>3, <1>4, CartRows, IssueRows, CreateRows, CompleteRows, JobRows, TickRows
     DEF Next

LEMMA RowsHold == Spec => []Rows
BY InitRows, NextRows, PTL DEF Spec

\* No counter is negative and no row overbooked, whatever is ordered, paid and
\* cancelled, for any catalogue, customers and coupons.
THEOREM TypeCorrect == Spec => []TypeOK
BY RowsHold, PTL DEF Rows

\* The stock counters are what the orders add up to (the handlers of the whole
\* shop, one after the other): nothing is lost or made on the way.
THEOREM BooksHold == Spec => []Books
BY RowsHold, PTL DEF Rows

-----------------------------------------------------------------------------
(***************************************************************************)
(* Orders are settled once, in time.                                       *)
(***************************************************************************)
\* The ways a CreateOrder ends: nothing is ordered; an order without a coupon; a
\* user coupon is used, for an order or for nothing.
LEMMA CreateCases ==
  ASSUME TypeOK, NEW u \in Users, CreateOrder(u)
  PROVE  \/ orders' = orders /\ UNCHANGED <<wallet, forfeited>>
         \/ /\ orders' = Append(orders, NewOrder(u, NoCoupon, 0))
            /\ UNCHANGED <<wallet, forfeited>>
         \/ \E w \in wallet, d \in Nat :
              /\ w.coupon \in Coupons /\ d \in Discounts(SeedCoupons[w.coupon], Total(cart[u]))
              /\ Accepted(u, w, Total(cart[u]))
              /\ wallet' = Used(w)
              /\ \/ /\ orders' = Append(orders, NewOrder(u, w.coupon, d))
                    /\ UNCHANGED forfeited
                 \/ orders' = orders /\ forfeited' = forfeited \cup {<<u, w.coupon>>}
<1>1. ASSUME NEW w \in wallet, NEW d \in Discounts(SeedCoupons[w.coupon], Total(cart[u]))
      PROVE  w.coupon \in Coupons /\ d \in Nat
  <2>1. w.coupon \in Coupons /\ SeedCoupons[w.coupon] \in CouponRow
    BY UserCouponType
  <2>2. Total(cart[u]) \in Nat
    BY TotalType DEF TypeOK
  <2>3. QED
    BY <2>1, <2>2, DiscountType
<1>2. CASE ReserveSome(u)
  BY <1>2 DEF ReserveSome
<1>3. CASE PlaceOrder(u, NoCoupon, 0) /\ UNCHANGED wallet
  <2>1. {<<u, NoCoupon>>} \ {<<u, NoCoupon>>} = {}
    OBVIOUS
  <2>2. QED
    BY <1>3, <2>1 DEF PlaceOrder, history
<1>4. ASSUME NEW w \in wallet, Accepted(u, w, Total(cart[u])), wallet' = Used(w),
             NEW d \in Discounts(SeedCoupons[w.coupon], Total(cart[u])),
             PlaceOrder(u, w.coupon, d)
      PROVE  /\ w.coupon \in Coupons /\ d \in Nat
             /\ \/ /\ orders' = Append(orders, NewOrder(u, w.coupon, d))
                   /\ UNCHANGED forfeited
                \/ orders' = orders /\ forfeited' = forfeited \cup {<<u, w.coupon>>}
  <2>1. w.coupon \in Coupons /\ w.coupon # NoCoupon /\ d \in Nat
    BY <1>1, CheckoutAssumption
  <2>2. {<<u, w.coupon>>} \ {<<u, NoCoupon>>} = {<<u, w.coupon>>}
    BY <2>1
  <2>3. QED
    BY <1>4, <2>1, <2>2 DEF PlaceOrder, history
<1>5. QED
  BY <1>2, <1>3, <1>4 DEF CreateOrder

\* CreateOrder only appends.
LEMMA OrdersAppended ==
  ASSUME TypeOK, NEW u \in Users, CreateOrder(u)
  PROVE  \/ orders' = orders
         \/ \E coupon \in Coupons \cup {NoCoupon}, d \in Nat :
              orders' = Append(orders, NewOrder(u, coupon, d))
BY CreateCases

LEMMA StepSettles ==
  ASSUME TypeOK, [Next]_vars, NEW x \in DOMAIN orders
  PROVE  /\ x \in DOMAIN orders'
         /\ orders'[x] # orders[x] =>
              LET o == orders[x]
                  n == orders'[x]
              IN /\ o.status = "PENDING"
                 /\ \/ n.status = "COMPLETED" /\ now <= o.expiresAt
                    \/ n.status = "CANCELED" /\ now > o.expiresAt
                 /\ n = [o EXCEPT !.status = n.status, !.paidAt = n.paidAt]
<1>0. orders[x] \in OrderRow
  BY OrderType
<1>1. ASSUME NEW u \in Users, CreateOrder(u)
      PROVE  x \in DOMAIN orders' /\ orders'[x] = orders[x]
  <2>1. CASE orders' = orders
    BY <2>1
  <2>2. ASSUME NEW coupon \in Coupons \cup {NoCoupon}, NEW d \in Nat,
               orders' = Append(orders, NewOrder(u, coupon, d))
        PROVE  x \in DOMAIN orders' /\ orders'[x] = orders[x]
    <3>1. NewOrder(u, coupon, d) \in OrderRow /\ orders \in Seq(OrderRow)
      BY NewOrderType DEF TypeOK
    <3>2. QED
      BY <2>2, <3>1, Appended
  <2>3. QED
    BY <1>1, <2>1, <2>2, OrdersAppended
<1>2. ASSUME NEW y \in DOMAIN orders, CompleteOrder(y), orders'[x] # orders[x]
      PROVE  /\ x = y /\ orders[x].status = "PENDING" /\ now <= orders[x].expiresAt
             /\ orders'[x] = [orders[x] EXCEPT !.status = "COMPLETED", !.paidAt = now]
             /\ orders'[x].status = "COMPLETED" /\ orders'[x].paidAt = now
  <2>1. x = y
    BY <1>2, CompletedOrder
  <2>2. orders[x].status = "PENDING" /\ ~(now > orders[x].expiresAt)
    BY <1>2, <2>1 DEF CompleteOrder
  <2>3. now \in Int /\ orders[x].expiresAt \in Int
    BY <1>0, CheckoutAssumption DEF TypeOK, OrderRow
  <2>4. now <= orders[x].expiresAt
    BY <2>2, <2>3
  <2>5. QED
    BY <1>2, <2>1, <2>2, <2>4, CompletedOrder
<1>3. ASSUME RunJob, orders'[x] # orders[x]
      PROVE  /\ orders[x].status = "PENDING" /\ now > orders[x].expiresAt
             /\ orders'[x] = [orders[x] EXCEPT !.status = "CANCELED"]
             /\ orders'[x].status = "CANCELED" /\ orders'[x].paidAt = orders[x].paidAt
  <2>1. Due(x)
    BY <1>3, CancelledOrders
  <2>2. now \in Int /\ orders[x].expiresAt \in Int
    BY <1>0, CheckoutAssumption DEF TypeOK, OrderRow
  <2>3. QED
    BY <1>3, <2>1, <2>2, CancelledOrders DEF Due
<1>4. ASSUME orders' # orders
      PROVE  \/ \E u \in Users : CreateOrder(u)
             \/ \E y \in DOMAIN orders : CompleteOrder(y)
             \/ RunJob
  BY <1>4 DEF Next, vars, AddItem, UpdateItem, RemoveItem, SetLine, ClearCart, IssueCoupon, Tick
<1>5. x \in DOMAIN orders'
  BY <1>1, <1>4, CompletedOrder, CancelledOrders
<1>6. ASSUME orders'[x] # orders[x]
      PROVE  LET o == orders[x]
                 n == orders'[x]
             IN /\ o.status = "PENDING"
                /\ \/ n.status = "COMPLETED" /\ now <= o.expiresAt
                   \/ n.status = "CANCELED" /\ now > o.expiresAt
                /\ n = [o EXCEPT !.status = n.status, !.paidAt = n.paidAt]
  <2>1. CASE \E y \in DOMAIN orders : CompleteOrder(y)
    BY <1>2, <1>6, <2>1
  <2>2. CASE RunJob
    <3>1. [orders[x] EXCEPT !.status = "CANCELED"] =
            [orders[x] EXCEPT !.status = "CANCELED", !.paidAt = orders[x].paidAt]
      BY <1>0 DEF OrderRow
    <3>2. QED
      BY <1>3, <1>6, <2>2, <3>1
  <2>3. QED
    BY <1>1, <1>4, <1>6, <2>1, <2>2
<1>7. QED
  BY <1>5, <1>6

\* An order leaves PENDING once, for COMPLETED until the minute it expires in and
\* for CANCELED after it, and nothing else about it changes
\* (completeOrder, ReleaseExpiredReservationJob).
THEOREM SettledOnTimeHolds == Spec => SettledOnTime
<1>1. TypeOK /\ [Next]_vars =>
        [\A x \in DOMAIN orders :
           /\ x \in DOMAIN orders'
           /\ orders'[x] # orders[x] =>
                LET o == orders[x]
                    n == orders'[x]
                IN /\ o.status = "PENDING"
                   /\ \/ n.status = "COMPLETED" /\ now <= o.expiresAt
                      \/ n.status = "CANCELED" /\ now > o.expiresAt
                   /\ n = [o EXCEPT !.status = n.status, !.paidAt = n.paidAt]]_vars
  BY StepSettles
<1>2. QED
  BY <1>1, TypeCorrect, PTL DEF Spec, SettledOnTime

-----------------------------------------------------------------------------
(***************************************************************************)
(* Money.                                                                  *)
(***************************************************************************)
\* Every payment is of an order there is, and the seed's orders stay.
MoneyInv ==
  /\ Money
  /\ \A p \in payments : p.order \in DOMAIN orders
  /\ DOMAIN SeedOrders \subseteq DOMAIN orders

LEMMA InitMoney == Init => MoneyInv
BY SeedAssumption DEF Init, MoneyInv, Money

\* An order that is placed is not paid yet.
LEMMA AppendedMoney ==
  ASSUME TypeOK, MoneyInv, UNCHANGED payments,
         NEW o \in OrderRow, o.status = "PENDING", o.paidAt = Never, Discounted(o),
         orders' = Append(orders, o)
  PROVE  MoneyInv'
<1> DEFINE n == Len(orders) + 1
<1>1. /\ DOMAIN orders' = DOMAIN orders \cup {n}
      /\ n \notin DOMAIN orders /\ orders'[n] = o
      /\ \A x \in DOMAIN orders : orders'[x] = orders[x]
  BY Appended DEF TypeOK
<1> HIDE DEF n
<1>2. PaymentsOf(n, payments) = {}
  BY <1>1 DEF MoneyInv, PaymentsOf
<1>3. PaidOrNot(o, {})
  BY DEF PaidOrNot
<1>4. PaidOnce(orders', payments')
  BY <1>1, <1>2, <1>3 DEF MoneyInv, Money, PaidOnce
<1>5. \A x \in DOMAIN orders' \ DOMAIN SeedOrders : Discounted(orders'[x])
  BY <1>1 DEF MoneyInv, Money
<1>6. QED
  BY <1>1, <1>4, <1>5 DEF MoneyInv, Money

LEMMA CreateMoney ==
  ASSUME TypeOK, MoneyInv, NEW u \in Users, CreateOrder(u)
  PROVE  MoneyInv'
<1>1. UNCHANGED payments
  BY DEF CreateOrder
<1>2. CASE orders' = orders
  BY <1>1, <1>2 DEF MoneyInv, Money
<1>3. CASE orders' = Append(orders, NewOrder(u, NoCoupon, 0))
  <2> DEFINE o == NewOrder(u, NoCoupon, 0)
  <2>1. /\ o \in OrderRow /\ o.status = "PENDING" /\ o.paidAt = Never
        /\ o.coupon = NoCoupon /\ o.discount = 0
    BY NewOrderType
  <2> HIDE DEF o
  <2>2. Discounted(o)
    BY <2>1 DEF Discounted
  <2>3. orders' = Append(orders, o)
    BY <1>3 DEF o
  <2>4. QED
    BY <1>1, <2>1, <2>2, <2>3, AppendedMoney
<1>4. ASSUME NEW w \in wallet, NEW d \in Nat, w.coupon \in Coupons,
             d \in Discounts(SeedCoupons[w.coupon], Total(cart[u])),
             Accepted(u, w, Total(cart[u])),
             orders' = Append(orders, NewOrder(u, w.coupon, d))
      PROVE  MoneyInv'
  <2> DEFINE o == NewOrder(u, w.coupon, d)
             k == SeedCoupons[w.coupon]
  <2>1. /\ o \in OrderRow /\ o.status = "PENDING" /\ o.paidAt = Never
        /\ o.coupon = w.coupon /\ o.discount = d /\ o.total = Total(cart[u])
    BY <1>4, NewOrderType
  <2>2. k \in CouponRow /\ Total(cart[u]) \in Nat
    BY <1>4, CheckoutAssumption, TotalType DEF TypeOK
  <2>3. d <= (IF k.type = "FIXED" THEN k.value ELSE (Total(cart[u]) * k.value) \div 100)
    BY <1>4, <2>2, DiscountType
  <2>4. Total(cart[u]) >= k.min
    BY <1>4 DEF Accepted, CanBeAppliedTo
  <2>5. w.coupon # NoCoupon
    BY <1>4, CheckoutAssumption
  <2> HIDE DEF o
  <2>6. Discounted(o)
    BY <2>1, <2>3, <2>4, <2>5 DEF Discounted
  <2>7. orders' = Append(orders, o)
    BY <1>4 DEF o
  <2>8. QED
    BY <1>1, <2>1, <2>6, <2>7, AppendedMoney
<1>5. QED
  BY <1>2, <1>3, <1>4, CreateCases

LEMMA CompleteMoney ==
  ASSUME TypeOK, MoneyInv, NEW x \in DOMAIN orders, CompleteOrder(x)
  PROVE  MoneyInv'
<1> DEFINE o == orders[x]
           n == [orders[x] EXCEPT !.status = "COMPLETED", !.paidAt = now]
<1>1. /\ DOMAIN orders' = DOMAIN orders /\ orders'[x] = n
      /\ \A y \in DOMAIN orders : y # x => orders'[y] = orders[y]
      /\ n.status = "COMPLETED" /\ n.paidAt = now
  BY CompletedOrder
<1>2. o \in OrderRow
  BY OrderType
<1>3. /\ n.total = o.total /\ n.discount = o.discount /\ n.coupon = o.coupon
      /\ n.expiresAt = o.expiresAt
  BY <1>2 DEF OrderRow
<1>4. /\ payments' = payments \cup {NewPayment(x)}
      /\ \A p \in payments : p.order # x
      /\ ~(now > o.expiresAt) /\ AmountDue(o) > 0
  BY DEF CompleteOrder
<1>5. NewPayment(x).order = x /\ NewPayment(x).amount = AmountDue(o)
  BY DEF NewPayment
<1>6. now > Never /\ now <= o.expiresAt
  BY <1>2, <1>4, CheckoutAssumption DEF TypeOK, OrderRow
<1> HIDE DEF n
<1>7. PaymentsOf(x, payments') = {NewPayment(x)}
  BY <1>4, <1>5 DEF PaymentsOf
<1>8. \A y \in DOMAIN orders : y # x => PaymentsOf(y, payments') = PaymentsOf(y, payments)
  BY <1>4, <1>5 DEF PaymentsOf
<1>9. PaidOrNot(n, PaymentsOf(x, payments'))
  <2>1. Cardinality(PaymentsOf(x, payments')) = 1
    BY <1>7, FS_Singleton
  <2>2. \A p \in PaymentsOf(x, payments') : p.amount = n.total - n.discount /\ p.amount > 0
    BY <1>3, <1>4, <1>5, <1>7 DEF AmountDue
  <2>3. Never < n.paidAt /\ n.paidAt <= n.expiresAt
    BY <1>1, <1>3, <1>6, CheckoutAssumption DEF TypeOK
  <2>4. QED
    BY <1>1, <2>1, <2>2, <2>3 DEF PaidOrNot
<1>10. PaidOnce(orders', payments')
  BY <1>1, <1>8, <1>9 DEF MoneyInv, Money, PaidOnce
<1>11. \A y \in DOMAIN orders' \ DOMAIN SeedOrders : Discounted(orders'[y])
  BY <1>1, <1>3 DEF MoneyInv, Money, Discounted
<1>12. \A p \in payments' : p.order \in DOMAIN orders'
  BY <1>1, <1>4, <1>5 DEF MoneyInv
<1>13. QED
  BY <1>1, <1>10, <1>11, <1>12 DEF MoneyInv, Money

LEMMA JobMoney ==
  ASSUME TypeOK, MoneyInv, RunJob
  PROVE  MoneyInv'
<1>1. DOMAIN orders' = DOMAIN orders /\ UNCHANGED payments
  BY CancelledOrders DEF RunJob
<1>2. ASSUME NEW y \in DOMAIN orders
      PROVE  /\ PaidOrNot(orders'[y], PaymentsOf(y, payments))
             /\ y \notin DOMAIN SeedOrders => Discounted(orders'[y])
  <2>1. /\ PaidOrNot(orders[y], PaymentsOf(y, payments))
        /\ y \notin DOMAIN SeedOrders => Discounted(orders[y])
    BY DEF MoneyInv, Money, PaidOnce
  <2>2. CASE Due(y)
    <3> DEFINE n == [orders[y] EXCEPT !.status = "CANCELED"]
    <3>1. orders'[y] = n /\ orders[y].status = "PENDING"
      BY <2>2, CancelledOrders DEF Due
    <3>2. orders[y] \in OrderRow
      BY OrderType
    <3>3. /\ n.status = "CANCELED" /\ n.paidAt = orders[y].paidAt
          /\ n.coupon = orders[y].coupon /\ n.total = orders[y].total
          /\ n.discount = orders[y].discount
      BY <3>2 DEF OrderRow
    <3> HIDE DEF n
    <3>4. PaidOrNot(n, PaymentsOf(y, payments))
      BY <2>1, <3>1, <3>3 DEF PaidOrNot
    <3>5. Discounted(orders[y]) => Discounted(n)
      BY <3>3 DEF Discounted
    <3>6. QED
      BY <2>1, <3>1, <3>4, <3>5
  <2>3. CASE ~Due(y)
    BY <2>1, <2>3, CancelledOrders
  <2>4. QED
    BY <2>2, <2>3
<1>3. QED
  BY <1>1, <1>2 DEF MoneyInv, Money, PaidOnce

LEMMA NextMoney == TypeOK /\ MoneyInv /\ [Next]_vars => MoneyInv'
<1> SUFFICES ASSUME TypeOK, MoneyInv, [Next]_vars PROVE MoneyInv'
  OBVIOUS
<1>1. ASSUME UNCHANGED <<orders, payments>>
      PROVE  MoneyInv'
  BY <1>1 DEF MoneyInv, Money
<1>2. \/ UNCHANGED <<orders, payments>>
      \/ \E u \in Users : CreateOrder(u)
      \/ \E x \in DOMAIN orders : CompleteOrder(x)
      \/ RunJob
  BY DEF Next, vars, AddItem, UpdateItem, RemoveItem, SetLine, ClearCart, IssueCoupon, Tick
<1>3. QED
  BY <1>1, <1>2, CreateMoney, CompleteMoney, JobMoney

\* An order is paid if and only if it has its one payment, of what was due and in
\* time, and no discount exceeds what its coupon is worth (createOrder,
\* completeOrder), for any coupons, prices and times.
THEOREM MoneyHolds == Spec => []Money
<1>1. Spec => []MoneyInv
  BY InitMoney, NextMoney, TypeCorrect, PTL DEF Spec
<1>2. QED
  BY <1>1, PTL DEF MoneyInv

-----------------------------------------------------------------------------
(***************************************************************************)
(* Coupons.                                                                *)
(***************************************************************************)
\* A row for the user and the coupon of an order, or of a refused one, stays in
\* the wallet; so do the rows that were used when the shop opened.
CouponInv ==
  /\ IsFiniteSet(wallet)
  /\ \A v, w \in wallet : v.user = w.user /\ v.coupon = w.coupon => v = w
  /\ \A v \in SeedWallet : IsUsed(v) => v \in wallet
  /\ \A x \in DOMAIN orders :
       orders[x].coupon # NoCoupon =>
         \E w \in wallet : orders[x].user = w.user /\ orders[x].coupon = w.coupon
  /\ \A p \in forfeited : \E w \in wallet : p = <<w.user, w.coupon>>
  /\ \A w \in wallet : UsedOnce(w)
  /\ \A c \in Coupons : Counted(c)

\* What CouponBooks says follows from it: two rows of a pair are one, so pairs
\* count rows.
LEMMA CouponInvSays == TypeOK /\ CouponInv => CouponBooks
<1> SUFFICES ASSUME TypeOK, CouponInv PROVE CouponBooks
  OBVIOUS
<1> DEFINE pairs == {<<w.user, w.coupon>> : w \in wallet}
           f == [w \in wallet |-> <<w.user, w.coupon>>]
<1>1. f \in Bijection(wallet, pairs)
  <2>1. f \in [wallet -> pairs] /\ \A p \in pairs : \E w \in wallet : f[w] = p
    OBVIOUS
  <2>2. \A v, w \in wallet : f[v] = f[w] => v = w
    BY DEF CouponInv
  <2> HIDE DEF f, pairs
  <2>3. QED
    BY <2>1, <2>2 DEF Bijection, Injection, Surjection, IsInjective
<1> HIDE DEF f
<1>2. Cardinality(pairs) = Cardinality(wallet)
  BY <1>1, FS_Bijection DEF CouponInv, ExistsBijection
<1>3. QED
  BY <1>2 DEF CouponInv, CouponBooks

LEMMA InitCoupons == Init => CouponInv
<1> SUFFICES ASSUME Init PROVE CouponInv
  OBVIOUS
<1>1. /\ wallet = SeedWallet /\ orders = SeedOrders /\ forfeited = {}
      /\ issued = [c \in Coupons |-> SeedCoupons[c].issued]
  BY DEF Init
<1>2. ASSUME NEW w \in wallet
      PROVE  UsedOnce(w)
  <2>1. w.coupon # NoCoupon
    BY <1>1, CheckoutAssumption DEF UserCouponRow
  <2>2. OrdersWith(w) = {}
    BY <1>1, <2>1, SeedAssumption DEF OrdersWith
  <2>3. QED
    BY <1>1, <2>2, FS_EmptySet DEF UsedOnce
<1>3. ASSUME NEW c \in Coupons
      PROVE  Counted(c)
  <2>1. issued[c] = SeedCoupons[c].issued /\ issued[c] <= SeedCoupons[c].total
    BY <1>1, SeedAssumption
  <2>2. QED
    BY <1>1, <2>1 DEF Counted
<1>4. QED
  BY <1>1, <1>2, <1>3, CheckoutAssumption, SeedAssumption DEF CouponInv

\* A coupon in the wallet that is not used has no order and was not forfeited.
LEMMA UnusedIsFree ==
  ASSUME TypeOK, CouponInv, NEW w \in wallet, ~IsUsed(w)
  PROVE  OrdersWith(w) = {} /\ <<w.user, w.coupon>> \notin forfeited
<1>1. IsFiniteSet(OrdersWith(w))
  <2>1. orders \in Seq(OrderRow) /\ OrdersWith(w) \subseteq DOMAIN orders
    BY DEF TypeOK, OrdersWith
  <2>2. QED
    BY <2>1, SomeOrdersFinite
<1>2. Cardinality(OrdersWith(w)) \in Nat
  BY <1>1, FS_CardinalityType
<1>3. Cardinality(OrdersWith(w)) + 0 + (IF <<w.user, w.coupon>> \in forfeited THEN 1 ELSE 0) = 0
  BY DEF CouponInv, UsedOnce
<1>4. Cardinality(OrdersWith(w)) = 0 /\ <<w.user, w.coupon>> \notin forfeited
  BY <1>2, <1>3
<1>5. QED
  BY <1>1, <1>4, FS_EmptySet

\* The orders are the same as far as their users and coupons go.
LEMMA SameOwners ==
  ASSUME CouponInv, UNCHANGED <<wallet, issued, forfeited>>,
         DOMAIN orders' = DOMAIN orders,
         \A x \in DOMAIN orders :
           orders'[x].user = orders[x].user /\ orders'[x].coupon = orders[x].coupon
  PROVE  CouponInv'
<1>1. \A w : OrdersWith(w)' = OrdersWith(w)
  BY DEF OrdersWith
<1>2. \A w \in wallet : UsedOnce(w)'
  BY <1>1 DEF CouponInv, UsedOnce
<1>3. \A c \in Coupons : Counted(c)'
  BY DEF CouponInv, Counted
<1>4. QED
  BY <1>2, <1>3 DEF CouponInv

LEMMA CompleteCoupons ==
  ASSUME TypeOK, CouponInv, NEW x \in DOMAIN orders, CompleteOrder(x)
  PROVE  CouponInv'
<1> DEFINE n == [orders[x] EXCEPT !.status = "COMPLETED", !.paidAt = now]
<1>1. /\ DOMAIN orders' = DOMAIN orders /\ orders'[x] = n
      /\ \A y \in DOMAIN orders : y # x => orders'[y] = orders[y]
  BY CompletedOrder
<1>2. n.user = orders[x].user /\ n.coupon = orders[x].coupon
  BY OrderType DEF OrderRow
<1> HIDE DEF n
<1>3. \A y \in DOMAIN orders :
        orders'[y].user = orders[y].user /\ orders'[y].coupon = orders[y].coupon
  BY <1>1, <1>2
<1>4. UNCHANGED <<wallet, issued, forfeited>>
  BY DEF CompleteOrder, history
<1>5. QED
  BY <1>1, <1>3, <1>4, SameOwners

LEMMA JobCoupons ==
  ASSUME TypeOK, CouponInv, RunJob
  PROVE  CouponInv'
<1>1. ASSUME NEW y \in DOMAIN orders
      PROVE  LET n == [orders[y] EXCEPT !.status = "CANCELED"]
             IN  n.user = orders[y].user /\ n.coupon = orders[y].coupon
  BY OrderType DEF OrderRow
<1>2. /\ DOMAIN orders' = DOMAIN orders
      /\ \A y \in DOMAIN orders :
           \/ orders'[y] = [orders[y] EXCEPT !.status = "CANCELED"]
           \/ orders'[y] = orders[y]
  BY CancelledOrders
<1>3. \A y \in DOMAIN orders :
        orders'[y].user = orders[y].user /\ orders'[y].coupon = orders[y].coupon
  BY <1>1, <1>2
<1>4. UNCHANGED <<wallet, issued, forfeited>>
  BY DEF RunJob, history
<1>5. QED
  BY <1>2, <1>3, <1>4, SameOwners

\* A coupon is handed out: nobody had it, so no order or forfeit has its pair.
LEMMA IssueCoupons ==
  ASSUME TypeOK, CouponInv, NEW u \in Users, NEW c \in Coupons, IssueCoupon(u, c)
  PROVE  CouponInv'
<1> DEFINE f == Fresh(u, c)
<1>1. f.user = u /\ f.coupon = c /\ ~IsUsed(f)
  BY DEF Fresh, IsUsed
<1>2. /\ \A w \in wallet : ~(w.user = u /\ w.coupon = c)
      /\ issued[c] < SeedCoupons[c].total
      /\ issued' = [issued EXCEPT ![c] = @ + 1]
      /\ wallet' = wallet \cup {f}
      /\ UNCHANGED <<orders, forfeited>>
  BY DEF IssueCoupon, history
<1> HIDE DEF f
<1>3. IsFiniteSet(wallet')
  BY <1>2, FS_AddElement DEF CouponInv
<1>4. \A w : OrdersWith(w)' = OrdersWith(w)
  BY <1>2 DEF OrdersWith
<1>5. UsedOnce(f)'
  <2>1. c # NoCoupon
    BY CheckoutAssumption
  <2>2. OrdersWith(f)' = {}
    BY <1>1, <1>2, <1>4, <2>1 DEF CouponInv, OrdersWith
  <2>3. Cardinality(OrdersWith(f)') = 0
    BY <2>2, FS_EmptySet
  <2>4. <<f.user, f.coupon>> \notin forfeited'
    BY <1>1, <1>2 DEF CouponInv
  <2>5. QED
    BY <1>1, <2>3, <2>4 DEF UsedOnce, IsUsed
<1>6. \A w \in wallet : UsedOnce(w)'
  BY <1>2, <1>4 DEF CouponInv, UsedOnce
<1>7. ASSUME NEW k \in Coupons
      PROVE  Counted(k)'
  <2> DEFINE of(rows) == {w \in rows : w.coupon = k}
  <2>1. /\ issued[k] + Cardinality(of(SeedWallet)) = SeedCoupons[k].issued + Cardinality(of(wallet))
        /\ issued[k] <= SeedCoupons[k].total
    BY DEF CouponInv, Counted
  <2>2. issued[k] \in Nat /\ SeedCoupons[k].issued \in Nat /\ SeedCoupons[k].total \in Nat
    BY CheckoutAssumption DEF TypeOK, CouponRow
  <2>3. /\ IsFiniteSet(of(wallet)) /\ Cardinality(of(wallet)) \in Nat
        /\ Cardinality(of(SeedWallet)) \in Nat
    <3>1. of(wallet) \subseteq wallet /\ of(SeedWallet) \subseteq SeedWallet
      OBVIOUS
    <3> HIDE DEF of
    <3>2. QED
      BY <3>1, CheckoutAssumption, FS_Subset, FS_CardinalityType DEF CouponInv
  <2>4. CASE k = c
    <3>1. of(wallet') = of(wallet) \cup {f} /\ f \notin of(wallet)
      BY <1>1, <1>2, <2>4
    <3> HIDE DEF of
    <3>2. Cardinality(of(wallet')) = Cardinality(of(wallet)) + 1
      BY <2>3, <3>1, FS_AddElement
    <3>3. issued'[k] = issued[k] + 1 /\ issued[k] < SeedCoupons[k].total
      BY <1>2, <2>4 DEF TypeOK
    <3>4. /\ issued'[k] + Cardinality(of(SeedWallet)) = SeedCoupons[k].issued + Cardinality(of(wallet'))
          /\ issued'[k] <= SeedCoupons[k].total
      BY <2>1, <2>2, <2>3, <3>2, <3>3
    <3>5. QED
      BY <3>4 DEF Counted, of
  <2>5. CASE k # c
    <3>1. of(wallet') = of(wallet) /\ issued'[k] = issued[k]
      BY <1>1, <1>2, <2>5 DEF TypeOK
    <3>2. QED
      BY <2>1, <3>1 DEF Counted
  <2>6. QED
    BY <2>4, <2>5
<1>8. \A v, w \in wallet' : v.user = w.user /\ v.coupon = w.coupon => v = w
  BY <1>1, <1>2 DEF CouponInv
<1>9. QED
  BY <1>2, <1>3, <1>5, <1>6, <1>7, <1>8 DEF CouponInv

\* An order without a coupon is added.
LEMMA PlainCoupons ==
  ASSUME TypeOK, CouponInv, UNCHANGED <<wallet, issued, forfeited>>,
         NEW o \in OrderRow, o.coupon = NoCoupon, orders' = Append(orders, o)
  PROVE  CouponInv'
<1> DEFINE n == Len(orders) + 1
<1>1. /\ DOMAIN orders' = DOMAIN orders \cup {n}
      /\ n \notin DOMAIN orders /\ orders'[n] = o
      /\ \A x \in DOMAIN orders : orders'[x] = orders[x]
  BY Appended DEF TypeOK
<1> HIDE DEF n
<1>2. ASSUME NEW w \in wallet
      PROVE  OrdersWith(w)' = OrdersWith(w)
  <2>1. w.coupon # NoCoupon
    BY UserCouponType, CheckoutAssumption
  <2>2. QED
    BY <1>1, <2>1 DEF OrdersWith
<1>3. \A w \in wallet : UsedOnce(w)'
  BY <1>2 DEF CouponInv, UsedOnce
<1>4. \A c \in Coupons : Counted(c)'
  BY DEF CouponInv, Counted
<1>5. QED
  BY <1>1, <1>3, <1>4 DEF CouponInv

\* A user coupon is used up, for an order or for nothing: nothing had it before,
\* and one thing has it now.
LEMMA UseCoupons ==
  ASSUME TypeOK, CouponInv, UNCHANGED issued,
         NEW w \in wallet, ~IsUsed(w), wallet' = Used(w),
         \/ /\ UNCHANGED forfeited
            /\ \E o \in OrderRow : /\ o.user = w.user /\ o.coupon = w.coupon
                                   /\ orders' = Append(orders, o)
         \/ orders' = orders /\ forfeited' = forfeited \cup {<<w.user, w.coupon>>}
  PROVE  CouponInv'
<1> DEFINE n == Len(orders) + 1
<1>1. PICK w2 : /\ wallet' = (wallet \ {w}) \cup {w2}
                /\ w2.user = w.user /\ w2.coupon = w.coupon /\ IsUsed(w2)
  BY UsedType DEF IsUsed
<1>2. OrdersWith(w) = {} /\ <<w.user, w.coupon>> \notin forfeited
  BY UnusedIsFree
<1>3. w2 \notin wallet /\ w2 \notin SeedWallet
  BY <1>1 DEF CouponInv
<1>4. \A v \in wallet : v # w => ~(v.user = w.user /\ v.coupon = w.coupon)
  BY DEF CouponInv
<1>5. \/ /\ UNCHANGED forfeited
         /\ \E o \in OrderRow :
              /\ o.user = w.user /\ o.coupon = w.coupon
              /\ DOMAIN orders' = DOMAIN orders \cup {n}
              /\ n \notin DOMAIN orders /\ orders'[n] = o
              /\ \A x \in DOMAIN orders : orders'[x] = orders[x]
      \/ orders' = orders /\ forfeited' = forfeited \cup {<<w.user, w.coupon>>}
  <2>1. ASSUME NEW o \in OrderRow, orders' = Append(orders, o)
        PROVE  /\ DOMAIN orders' = DOMAIN orders \cup {n}
               /\ n \notin DOMAIN orders /\ orders'[n] = o
               /\ \A x \in DOMAIN orders : orders'[x] = orders[x]
    BY <2>1, Appended DEF TypeOK
  <2> HIDE DEF n
  <2>2. QED
    BY <2>1
<1> HIDE DEF n
<1>6. ASSUME NEW v \in wallet, v # w
      PROVE  UsedOnce(v)'
  <2>1. OrdersWith(v)' = OrdersWith(v)
    BY <1>4, <1>5, <1>6 DEF OrdersWith
  <2>2. <<v.user, v.coupon>> \in forfeited' <=> <<v.user, v.coupon>> \in forfeited
    BY <1>4, <1>5, <1>6
  <2>3. QED
    BY <2>1, <2>2 DEF CouponInv, UsedOnce
<1>7. UsedOnce(w2)'
  <2>1. CASE /\ UNCHANGED forfeited
             /\ \E o \in OrderRow :
                  /\ o.user = w.user /\ o.coupon = w.coupon
                  /\ DOMAIN orders' = DOMAIN orders \cup {n}
                  /\ n \notin DOMAIN orders /\ orders'[n] = o
                  /\ \A x \in DOMAIN orders : orders'[x] = orders[x]
    <3>1. OrdersWith(w2)' = {n}
      BY <1>1, <1>2, <2>1 DEF OrdersWith
    <3>2. Cardinality(OrdersWith(w2)') = 1
      BY <3>1, FS_Singleton
    <3>3. <<w2.user, w2.coupon>> \notin forfeited'
      BY <1>1, <1>2, <2>1
    <3>4. QED
      BY <1>1, <1>3, <3>2, <3>3 DEF UsedOnce, IsUsed
  <2>2. CASE orders' = orders /\ forfeited' = forfeited \cup {<<w.user, w.coupon>>}
    <3>1. OrdersWith(w2)' = {}
      BY <1>1, <1>2, <2>2 DEF OrdersWith
    <3>2. Cardinality(OrdersWith(w2)') = 0
      BY <3>1, FS_EmptySet
    <3>3. <<w2.user, w2.coupon>> \in forfeited'
      BY <1>1, <2>2
    <3>4. QED
      BY <1>1, <1>3, <3>2, <3>3 DEF UsedOnce, IsUsed
  <2>3. QED
    BY <1>5, <2>1, <2>2
<1>8. ASSUME NEW c \in Coupons
      PROVE  Counted(c)'
  <2> DEFINE of(rows) == {v \in rows : v.coupon = c}
  <2>1. Cardinality(of(wallet')) = Cardinality(of(wallet))
    <3>1. IsFiniteSet(of(wallet))
      <4>1. of(wallet) \subseteq wallet
        OBVIOUS
      <4> HIDE DEF of
      <4>2. QED
        BY <4>1, FS_Subset DEF CouponInv
    <3>2. CASE w.coupon = c
      <4>1. of(wallet') = (of(wallet) \ {w}) \cup {w2}
        BY <1>1, <3>2
      <4>2. w \in of(wallet) /\ w2 \notin of(wallet) \ {w}
        BY <1>3, <3>2
      <4> HIDE DEF of
      <4>3. /\ IsFiniteSet(of(wallet) \ {w})
            /\ Cardinality(of(wallet) \ {w}) = Cardinality(of(wallet)) - 1
        BY <3>1, <4>2, FS_RemoveElement
      <4>4. Cardinality(of(wallet')) = Cardinality(of(wallet)) - 1 + 1
        BY <4>1, <4>2, <4>3, FS_AddElement
      <4>5. Cardinality(of(wallet)) \in Nat
        BY <3>1, FS_CardinalityType
      <4>6. QED
        BY <4>4, <4>5
    <3>3. CASE w.coupon # c
      <4>1. of(wallet') = of(wallet)
        BY <1>1, <3>3
      <4>2. QED
        BY <4>1
    <3>4. QED
      BY <3>2, <3>3
  <2>2. /\ issued[c] + Cardinality(of(SeedWallet)) = SeedCoupons[c].issued + Cardinality(of(wallet))
        /\ issued[c] <= SeedCoupons[c].total
    BY DEF CouponInv, Counted
  <2>3. QED
    BY <2>1, <2>2 DEF Counted
<1>9. IsFiniteSet(wallet')
  <2>1. IsFiniteSet(wallet \ {w})
    BY FS_RemoveElement DEF CouponInv
  <2>2. QED
    BY <1>1, <2>1, FS_AddElement
<1>10. \A v1, v2 \in wallet' : v1.user = v2.user /\ v1.coupon = v2.coupon => v1 = v2
  BY <1>1, <1>4 DEF CouponInv
<1>11. \A v \in SeedWallet : IsUsed(v) => v \in wallet'
  BY <1>1 DEF CouponInv
<1>12. \A v \in wallet : \E v2 \in wallet' : v2.user = v.user /\ v2.coupon = v.coupon
  BY <1>1
<1>13. \A x \in DOMAIN orders' :
         orders'[x].coupon # NoCoupon =>
           \E v \in wallet' : orders'[x].user = v.user /\ orders'[x].coupon = v.coupon
  BY <1>1, <1>5, <1>12 DEF CouponInv
<1>14. \A p \in forfeited' : \E v \in wallet' : p = <<v.user, v.coupon>>
  BY <1>1, <1>5, <1>12 DEF CouponInv
<1>15. \A v \in wallet' : UsedOnce(v)'
  BY <1>1, <1>6, <1>7
<1>16. QED
  BY <1>8, <1>9, <1>10, <1>11, <1>13, <1>14, <1>15 DEF CouponInv

LEMMA CreateCoupons ==
  ASSUME TypeOK, CouponInv, NEW u \in Users, CreateOrder(u)
  PROVE  CouponInv'
<1>1. UNCHANGED issued
  BY DEF CreateOrder
<1>2. CASE orders' = orders /\ UNCHANGED <<wallet, forfeited>>
  BY <1>1, <1>2, SameOwners
<1>3. CASE orders' = Append(orders, NewOrder(u, NoCoupon, 0)) /\ UNCHANGED <<wallet, forfeited>>
  <2> DEFINE o == NewOrder(u, NoCoupon, 0)
  <2>1. o \in OrderRow /\ o.coupon = NoCoupon
    BY NewOrderType
  <2>2. orders' = Append(orders, o)
    BY <1>3
  <2> HIDE DEF o
  <2>3. QED
    BY <1>1, <1>3, <2>1, <2>2, PlainCoupons
<1>4. ASSUME NEW w \in wallet, NEW d \in Nat, w.coupon \in Coupons,
             Accepted(u, w, Total(cart[u])), wallet' = Used(w),
             \/ /\ orders' = Append(orders, NewOrder(u, w.coupon, d))
                /\ UNCHANGED forfeited
             \/ orders' = orders /\ forfeited' = forfeited \cup {<<u, w.coupon>>}
      PROVE  CouponInv'
  <2>1. w.user = u /\ ~IsUsed(w)
    BY <1>4 DEF Accepted
  <2>2. /\ NewOrder(u, w.coupon, d) \in OrderRow
        /\ NewOrder(u, w.coupon, d).user = u
        /\ NewOrder(u, w.coupon, d).coupon = w.coupon
    BY <1>4, NewOrderType
  <2>3. QED
    BY <1>1, <1>4, <2>1, <2>2, UseCoupons
<1>5. QED
  BY <1>2, <1>3, <1>4, CreateCases

LEMMA NextCoupons == TypeOK /\ CouponInv /\ [Next]_vars => CouponInv'
<1> SUFFICES ASSUME TypeOK, CouponInv, [Next]_vars PROVE CouponInv'
  OBVIOUS
<1>1. ASSUME UNCHANGED <<orders, wallet, issued, forfeited>>
      PROVE  CouponInv'
  BY <1>1, SameOwners
<1>2. \/ UNCHANGED <<orders, wallet, issued, forfeited>>
      \/ \E u \in Users, c \in Coupons : IssueCoupon(u, c)
      \/ \E u \in Users : CreateOrder(u)
      \/ \E x \in DOMAIN orders : CompleteOrder(x)
      \/ RunJob
  BY DEF Next, vars, history, AddItem, UpdateItem, RemoveItem, SetLine, ClearCart, Tick
<1>3. QED
  BY <1>1, <1>2, IssueCoupons, CreateCoupons, CompleteCoupons, JobCoupons

\* A user coupon is used by one order at the most, counted when it is handed out,
\* and worth what the list of available ones says (IssueCoupon, applyCoupon,
\* GetUserCoupons), for any coupons and customers.
THEOREM CouponBooksHold == Spec => []CouponBooks
<1>1. Spec => []CouponInv
  BY InitCoupons, NextCoupons, TypeCorrect, PTL DEF Spec
<1>2. QED
  BY <1>1, CouponInvSays, TypeCorrect, PTL
=============================================================================
