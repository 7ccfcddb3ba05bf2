-------------------------- MODULE OrderFlowProofs --------------------------
(***************************************************************************)
(* Proofs about OrderFlow, for any orders, items, calls, job runs, seed,   *)
(* and whatever troubles happen.                                           *)
(***************************************************************************)
EXTENDS OrderFlow, BaseLemmas, SequenceTheorems

LEMMA ItemsNotEmpty ==
  \A x \in Orders : Len(Items[x]) \in Nat \ {0} /\ 1 \in 1..Len(Items[x])
BY OrderFlowAssumption

LEMMA ItemType ==
  ASSUME NEW x \in Orders, NEW i \in 1..Len(Items[x]), NEW kind \in Kinds
  PROVE  /\ Items[x] \in Seq([option : Options, qty : Nat])
         /\ Len(Items[x]) \in Nat \ {0}
         /\ Items[x][i].option \in Options
         /\ Items[x][i].qty \in Nat
         /\ Op(kind, x, i) \in Stock!Operation
         /\ Op(kind, x, i).kind = kind
<1>1. Items[x] \in Seq([option : Options, qty : Nat]) /\ Items[x] # <<>>
  BY OrderFlowAssumption
<1>2. Len(Items[x]) \in Nat \ {0}
  BY <1>1
<1>3. Items[x][i] \in [option : Options, qty : Nat]
  BY <1>1, ElementOfSeq
<1>4. QED
  BY <1>1, <1>2, <1>3 DEF Op, Stock!Operation, Kinds, Stock!Kinds

\* A movement keeps the rows typed and adds one entry to the ledger.
LEMMA MoveType ==
  ASSUME TypeOK, NEW a \in Activities, NEW kind \in Kinds, NEW x \in Orders,
         NEW i \in 1..Len(Items[x]), Move(a, kind, x, i)
  PROVE  /\ stock' \in [Options -> StockRow]
         /\ \A e \in ledger' : e.by \in Movement /\ e.op \in Stock!Operation
         /\ ledger' = ledger \cup
              {[by |-> [who |-> a, kind |-> kind, order |-> x, item |-> i],
                op |-> Op(kind, x, i)]}
         /\ \A e \in ledger :
              e.by # [who |-> a, kind |-> kind, order |-> x, item |-> i]
<1> DEFINE by == [who |-> a, kind |-> kind, order |-> x, item |-> i]
           op == Op(kind, x, i)
<1>1. /\ op \in Stock!Operation
      /\ op.kind = kind /\ op.option \in Options /\ op.qty \in Int
  BY ItemType DEF Op
<1>2. /\ Allowed(kind, stock[op.option], op.qty)
      /\ stock' = [stock EXCEPT ![op.option] = Moved(kind, @, op.qty)]
      /\ ledger' = ledger \cup {[by |-> by, op |-> op]}
      /\ \A e \in ledger : e.by # by
  BY <1>1 DEF Move, Stock!Apply, Stock!Allowed, Stock!Source, Stock!Moved,
              Allowed, Source, Moved
<1>3. stock[op.option] \in StockRow
  BY <1>1 DEF TypeOK
<1>4. Moved(kind, stock[op.option], op.qty) \in StockRow
  BY <1>1, <1>2, <1>3, MovedIsValid
<1>5. by \in Movement
  BY ItemType DEF Movement
<1>6. QED
  BY <1>1, <1>2, <1>4, <1>5 DEF TypeOK

-----------------------------------------------------------------------------
LEMMA InitTyped == Init => TypeOK /\ Positions
<1> SUFFICES ASSUME Init PROVE TypeOK /\ Positions
  OBVIOUS
<1>1. TypeOK
  BY OrderFlowAssumption
     DEF Init, TypeOK, Stock!Init, Statuses, Ended, CallSteps
<1>2. \A c \in Calls : Len(Items[Order(c)]) \in Nat \ {0}
  BY OrderFlowAssumption DEF Order
<1>3. Positions
  BY <1>2 DEF Init, Positions, Activities, AfterPayment, CallSteps, JobSteps
<1>4. QED
  BY <1>1, <1>3

\* The value of pc and item after a step, and what it says of the others.
LEMMA RaiseStep ==
  ASSUME TypeOK, NEW c \in Calls, NEW from \in CallSteps \ {"release", "refund"},
         Raise(c, from)
  PROVE  /\ pc[c] = from
         /\ pc' = [pc EXCEPT ![c] = Handler(from)]
         /\ item' = [item EXCEPT ![c] = 1]
         /\ Handler(from) \in {"threw", "refund", "release"}
         /\ Handler(from) \in {"refund", "release"} => from \in AfterPayment
BY DEF Raise, Goto, Handler, CallSteps, AfterPayment

\* What a step of a call leaves to show: nothing about the other activities.
LEMMA CallTyped ==
  ASSUME TypeOK, Positions, NEW c \in Calls, NEW to, NEW i,
         pc' = [pc EXCEPT ![c] = to], item' = [item EXCEPT ![c] = i],
         to \in CallSteps \cup Ended, i \in 1..Len(Items[Order(c)]),
         to \notin {"confirm", "release", "crashed"} => i = 1,
         stock' \in [Options -> StockRow],
         \A e \in ledger' : e.by \in Movement /\ e.op \in Stock!Operation,
         status' \in [Orders -> Statuses],
         charged' \in [Orders -> Nat],
         payment' \in [Orders -> PaymentRow \cup {NoPayment}],
         \A x \in Orders : payment[x] # NoPayment => payment'[x] # NoPayment,
         paid' \in [Calls -> Orders \cup {NoPayment}],
         \A d \in Calls \ {c} : paid'[d] = paid[d],
         to \in AfterPayment => paid'[c] \in Orders /\ payment'[paid'[c]] # NoPayment,
         UNCHANGED <<expired, jobVars>>
  PROVE  TypeOK' /\ Positions'
<1>0. /\ Calls \cap Jobs = {}
      /\ c \in Activities /\ c \notin Jobs
      /\ to \notin JobSteps
      /\ item[c] \in Nat /\ i \in Nat
  BY OrderFlowAssumption DEF Activities, CallSteps, JobSteps, Ended, TypeOK
<1>1. TypeOK'
  BY <1>0 DEF TypeOK, jobVars, Activities
<1>2. Positions'
  <2>1. /\ \A d \in Calls \ {c} : pc'[d] = pc[d] /\ item'[d] = item[d]
        /\ \A j \in Jobs : pc'[j] = pc[j] /\ item'[j] = item[j]
        /\ pc'[c] = to /\ item'[c] = i
        /\ current' = current
    BY <1>0 DEF TypeOK, Activities, jobVars
  <2>2. ASSUME NEW d \in Calls
        PROVE  /\ pc'[d] \notin JobSteps
               /\ item'[d] \in 1..Len(Items[Order(d)])
               /\ pc'[d] \notin {"confirm", "release", "crashed"} => item'[d] = 1
               /\ pc'[d] \in AfterPayment =>
                    paid'[d] \in Orders /\ payment'[paid'[d]] # NoPayment
    <3>1. CASE d = c
      BY <1>0, <2>1, <3>1
    <3>2. CASE d # c
      <4>1. /\ pc'[d] = pc[d] /\ item'[d] = item[d] /\ paid'[d] = paid[d]
        BY <2>1, <3>2
      <4>2. QED
        BY <4>1 DEF Positions
    <3>3. QED
      BY <3>1, <3>2
  <2>3. ASSUME NEW j \in Jobs
        PROVE  /\ pc'[j] \notin CallSteps
               /\ pc'[j] \notin {"releaseExpired", "crashed"} => item'[j] = 1
               /\ pc'[j] \in {"releaseExpired", "cancel"} => current'[j] \in Orders
               /\ pc'[j] = "releaseExpired" => item'[j] \in 1..Len(Items[current'[j]])
    BY <2>1 DEF Positions
  <2>4. QED
    BY <2>2, <2>3 DEF Positions
<1>3. QED
  BY <1>1, <1>2

LEMMA JobTyped ==
  ASSUME TypeOK, Positions, NEW j \in Jobs, NEW to, NEW i,
         pc' = [pc EXCEPT ![j] = to], item' = [item EXCEPT ![j] = i],
         to \in JobSteps \cup Ended, i \in Nat,
         to \notin {"releaseExpired", "crashed"} => i = 1,
         stock' \in [Options -> StockRow],
         \A e \in ledger' : e.by \in Movement /\ e.op \in Stock!Operation,
         status' \in [Orders -> Statuses],
         current' \in [Jobs -> Orders \cup {NoPayment}],
         \A k \in Jobs \ {j} : current'[k] = current[k],
         to \in {"releaseExpired", "cancel"} => current'[j] \in Orders,
         to = "releaseExpired" => i \in 1..Len(Items[current'[j]]),
         todo' \in [Jobs -> SUBSET Orders],
         UNCHANGED <<expired, callVars>>
  PROVE  TypeOK' /\ Positions'
<1>0. /\ Calls \cap Jobs = {}
      /\ j \in Activities /\ j \notin Calls
      /\ to \notin CallSteps
  BY OrderFlowAssumption DEF Activities, CallSteps, JobSteps, Ended
<1>1. TypeOK'
  BY <1>0 DEF TypeOK, callVars, Activities
<1>2. Positions'
  <2>1. /\ \A c \in Calls : pc'[c] = pc[c] /\ item'[c] = item[c]
        /\ \A k \in Jobs \ {j} : pc'[k] = pc[k] /\ item'[k] = item[k]
        /\ pc'[j] = to /\ item'[j] = i
        /\ paid' = paid /\ payment' = payment
    BY <1>0 DEF TypeOK, Activities, callVars
  <2>2. ASSUME NEW d \in Calls
        PROVE  /\ pc'[d] \notin JobSteps
               /\ item'[d] \in 1..Len(Items[Order(d)])
               /\ pc'[d] \notin {"confirm", "release", "crashed"} => item'[d] = 1
               /\ pc'[d] \in AfterPayment =>
                    paid'[d] \in Orders /\ payment'[paid'[d]] # NoPayment
    BY <2>1 DEF Positions
  <2>3. ASSUME NEW k \in Jobs
        PROVE  /\ pc'[k] \notin CallSteps
               /\ pc'[k] \notin {"releaseExpired", "crashed"} => item'[k] = 1
               /\ pc'[k] \in {"releaseExpired", "cancel"} => current'[k] \in Orders
               /\ pc'[k] = "releaseExpired" => item'[k] \in 1..Len(Items[current'[k]])
    BY <1>0, <2>1 DEF Positions
  <2>4. QED
    BY <2>2, <2>3 DEF Positions
<1>3. QED
  BY <1>1, <1>2

\* An exception, or a lost answer.
LEMMA RaiseTyped ==
  ASSUME TypeOK, Positions, NEW c \in Calls,
         NEW from \in CallSteps \ {"release", "refund"}, Raise(c, from),
         stock' \in [Options -> StockRow],
         \A e \in ledger' : e.by \in Movement /\ e.op \in Stock!Operation,
         status' \in [Orders -> Statuses],
         charged' \in [Orders -> Nat],
         payment' \in [Orders -> PaymentRow \cup {NoPayment}],
         \A x \in Orders : payment[x] # NoPayment => payment'[x] # NoPayment,
         paid' \in [Calls -> Orders \cup {NoPayment}],
         \A d \in Calls \ {c} : paid'[d] = paid[d],
         from \in AfterPayment => paid'[c] = paid[c],
         UNCHANGED <<expired, jobVars>>
  PROVE  TypeOK' /\ Positions'
<1>1. /\ pc[c] = from
      /\ pc' = [pc EXCEPT ![c] = Handler(from)]
      /\ item' = [item EXCEPT ![c] = 1]
      /\ Handler(from) \in {"threw", "refund", "release"}
      /\ Handler(from) \in {"refund", "release"} => from \in AfterPayment
  BY RaiseStep
<1>2. 1 \in 1..Len(Items[Order(c)])
  BY DEF Positions
<1>3. Handler(from) \in AfterPayment =>
        paid'[c] \in Orders /\ payment'[paid'[c]] # NoPayment
  BY <1>1 DEF Positions, AfterPayment
<1>4. QED
  BY <1>1, <1>2, <1>3, CallTyped DEF CallSteps, Ended

LEMMA CallStepTyped ==
  ASSUME TypeOK, Positions, NEW c \in Calls, CallStep(c)
  PROVE  TypeOK' /\ Positions'
<1> DEFINE x == Order(c)
<1>0. /\ x \in Orders
      /\ Len(Items[x]) \in Nat \ {0}
      /\ 1 \in 1..Len(Items[x])
      /\ item[c] \in 1..Len(Items[x])
      /\ pc[c] \in AfterPayment => paid[c] \in Orders /\ payment[paid[c]] # NoPayment
      /\ c \in Activities
      /\ item = [item EXCEPT ![c] = item[c]]
      /\ pc[c] \notin {"confirm", "release", "crashed"} => item[c] = 1
      /\ Key(c) \in {Input[d].key : d \in Calls}
  BY OrderFlowAssumption, ItemType DEF Order, Key, Positions, TypeOK, Activities
<1>t. /\ stock \in [Options -> StockRow]
      /\ \A e \in ledger : e.by \in Movement /\ e.op \in Stock!Operation
      /\ status \in [Orders -> Statuses]
      /\ payment \in [Orders -> PaymentRow \cup {NoPayment}]
      /\ charged \in [Orders -> Nat]
      /\ paid \in [Calls -> Orders \cup {NoPayment}]
  BY DEF TypeOK
<1>1. CASE CheckKey(c)
  <2>1. PICK to \in {"validate", "findOrder"} :
          /\ Goto(c, "checkKey", to)
          /\ to = "validate" => UNCHANGED paid
          /\ to = "findOrder" =>
               \E y \in PaymentsWith(Key(c)) : paid' = [paid EXCEPT ![c] = y]
    BY <1>1 DEF CheckKey
  <2>2. to = "findOrder" => paid'[c] \in Orders /\ payment[paid'[c]] # NoPayment
    BY <2>1, <1>t DEF PaymentsWith
  <2>3. paid' \in [Calls -> Orders \cup {NoPayment}]
        /\ \A d \in Calls \ {c} : paid'[d] = paid[d]
    BY <2>1, <1>t DEF PaymentsWith
  <2>4. UNCHANGED <<stock, ledger, status, expired, charged, payment, item, jobVars>>
    BY <1>1 DEF CheckKey, stockVars
  <2>5. /\ pc' = [pc EXCEPT ![c] = to]
        /\ item[c] = 1 /\ item' = [item EXCEPT ![c] = 1]
        /\ to \in CallSteps \cup Ended /\ to \notin {"confirm", "release", "crashed"}
        /\ to \in AfterPayment => to = "findOrder"
    BY <1>0, <1>t, <2>1, <2>4 DEF Goto, CallSteps, AfterPayment, Positions
  <2>6. QED
    BY <1>0, <1>t, <2>2, <2>3, <2>4, <2>5, CallTyped
<1>2. CASE ValidateOrder(c)
  <2>1. PICK to \in {"charge", "threw"} : Goto(c, "validate", to)
    BY <1>2 DEF ValidateOrder
  <2>2. UNCHANGED <<stock, ledger, status, expired, charged, payment, paid, item, jobVars>>
    BY <1>2 DEF ValidateOrder, stockVars, callVars
  <2>3. QED
    BY <1>0, <1>t, <2>1, <2>2, CallTyped DEF Goto, CallSteps, Ended, AfterPayment
<1>3. CASE Charge(c)
  <2>1. /\ UNCHANGED <<stock, ledger, status, expired, payment, paid, jobVars>>
        /\ charged' \in [Orders -> Nat]
    BY <1>3, <1>t DEF Charge, stockVars
  <2>2. CASE Goto(c, "charge", "savePayment") /\ item' = [item EXCEPT ![c] = 1]
    BY <1>0, <1>t, <2>1, <2>2, CallTyped DEF Goto, CallSteps, AfterPayment
  <2>3. CASE Raise(c, "charge")
    BY <1>t, <2>1, <2>3, RaiseTyped DEF CallSteps, AfterPayment
  <2>4. QED
    BY <1>3, <2>2, <2>3 DEF Charge, Take
<1>4. CASE SavePayment(c)
  <2>1. UNCHANGED <<stock, ledger, status, expired, charged, jobVars>>
    BY <1>4 DEF SavePayment, stockVars
  <2>2. CASE /\ payment[x] = NoPayment
             /\ payment' = [payment EXCEPT ![x] =
                              [key |-> Key(c), status |-> "COMPLETED"]]
             /\ paid' = [paid EXCEPT ![c] = x]
             /\ Take(c, "savePayment", "findOrder", 1)
    <3>1. [key |-> Key(c), status |-> "COMPLETED"] \in PaymentRow
      BY <1>0 DEF PaymentRow
    <3>2. NoPayment \notin PaymentRow
      BY OrderFlowAssumption
    <3>3. /\ payment' \in [Orders -> PaymentRow \cup {NoPayment}]
          /\ \A y \in Orders : payment[y] # NoPayment => payment'[y] # NoPayment
          /\ paid' \in [Calls -> Orders \cup {NoPayment}]
          /\ \A d \in Calls \ {c} : paid'[d] = paid[d]
          /\ paid'[c] \in Orders /\ payment'[paid'[c]] # NoPayment
      BY <1>0, <1>t, <2>2, <3>1, <3>2
    <3>4. CASE Goto(c, "savePayment", "findOrder") /\ item' = [item EXCEPT ![c] = 1]
      BY <1>0, <1>t, <2>1, <3>3, <3>4, CallTyped DEF Goto, CallSteps, AfterPayment
    <3>5. CASE Raise(c, "savePayment")
      BY <1>t, <2>1, <3>3, <3>5, RaiseTyped DEF CallSteps, AfterPayment
    <3>6. QED
      BY <2>2, <3>4, <3>5 DEF Take
  <2>3. CASE Raise(c, "savePayment") /\ UNCHANGED <<payment, paid>>
    BY <1>t, <2>1, <2>3, RaiseTyped DEF CallSteps, AfterPayment
  <2>4. QED
    BY <1>4, <2>2, <2>3 DEF SavePayment
<1>5. CASE FindOrder(c)
  <2>1. PICK to \in {"returned", "confirm"} : Goto(c, "findOrder", to)
    BY <1>5 DEF FindOrder
  <2>2. UNCHANGED <<stock, ledger, status, expired, charged, payment, paid, item, jobVars>>
    BY <1>5 DEF FindOrder, stockVars, callVars
  <2>3. QED
    BY <1>0, <1>t, <2>1, <2>2, CallTyped DEF Goto, CallSteps, Ended, AfterPayment
<1>6. CASE ConfirmItem(c)
  <2>1. UNCHANGED <<status, expired, charged, payment, paid, jobVars>>
    BY <1>6 DEF ConfirmItem, callVars
  <2>2. CASE Move(c, "confirm", x, item[c])
    <3>1. /\ stock' \in [Options -> StockRow]
          /\ \A e \in ledger' : e.by \in Movement /\ e.op \in Stock!Operation
      BY <1>0, <2>2, MoveType DEF Kinds
    <3>2. CASE Goto(c, "confirm", "loadOrder") /\ item' = [item EXCEPT ![c] = 1]
      BY <1>0, <1>t, <2>1, <3>1, <3>2, CallTyped DEF Goto, CallSteps, AfterPayment
    <3>3. CASE /\ Goto(c, "confirm", "confirm")
               /\ item' = [item EXCEPT ![c] = item[c] + 1]
               /\ ~LastItem(c, x)
      <4>1. PICK i \in 1..Len(Items[x]) : i = item[c] + 1
        BY <1>0, <3>3 DEF LastItem
      <4>2. QED
        BY <1>0, <1>t, <2>1, <3>1, <3>3, <4>1, CallTyped
           DEF Goto, CallSteps, AfterPayment
    <3>4. CASE Raise(c, "confirm")
      BY <1>t, <2>1, <3>1, <3>4, RaiseTyped DEF CallSteps, AfterPayment
    <3>5. QED
      BY <1>6, <3>2, <3>3, <3>4 DEF ConfirmItem, Take, Raise, Goto
  <2>3. CASE Raise(c, "confirm") /\ UNCHANGED <<stock, ledger>>
    BY <1>t, <2>1, <2>3, RaiseTyped DEF CallSteps, AfterPayment
  <2>4. QED
    BY <1>6, <2>2, <2>3 DEF ConfirmItem, stockVars
<1>7. CASE LoadOrder(c)
  <2>1. PICK to \in {"saveOrder", "release"} : Goto(c, "loadOrder", to)
    BY <1>7 DEF LoadOrder, Handler
  <2>2. UNCHANGED <<stock, ledger, status, expired, charged, payment, paid, item, jobVars>>
    BY <1>7 DEF LoadOrder, stockVars, callVars
  <2>3. QED
    BY <1>0, <1>t, <2>1, <2>2, CallTyped DEF Goto, CallSteps, AfterPayment
<1>8. CASE SaveOrder(c)
  <2>1. /\ UNCHANGED <<stock, ledger, expired, charged, payment, paid, jobVars>>
        /\ status' \in [Orders -> Statuses]
    BY <1>8, <1>t DEF SaveOrder, stockVars, callVars, Statuses
  <2>2. CASE Goto(c, "saveOrder", "returned") /\ item' = [item EXCEPT ![c] = 1]
    BY <1>0, <1>t, <2>1, <2>2, CallTyped DEF Goto, Ended, AfterPayment
  <2>3. CASE Raise(c, "saveOrder")
    BY <1>t, <2>1, <2>3, RaiseTyped DEF CallSteps, AfterPayment
  <2>4. QED
    BY <1>8, <2>2, <2>3 DEF SaveOrder, Take
<1>9. CASE CompensateStock(c)
  <2>1. /\ UNCHANGED <<status, expired, charged, payment, paid, jobVars>>
        /\ pc[c] = "release"
    BY <1>9 DEF CompensateStock, Release, callVars
  <2>2. /\ stock' \in [Options -> StockRow]
        /\ \A e \in ledger' : e.by \in Movement /\ e.op \in Stock!Operation
    <3>1. CASE Move(c, "release", x, item[c])
      BY <1>0, <3>1, MoveType DEF Kinds
    <3>2. CASE UNCHANGED <<stock, ledger>>
      BY <1>t, <3>2
    <3>3. QED
      BY <1>9, <3>1, <3>2 DEF CompensateStock, Release, stockVars
  <2>3. CASE Goto(c, "release", "refund") /\ item' = [item EXCEPT ![c] = 1]
    BY <1>0, <1>t, <2>1, <2>2, <2>3, CallTyped DEF Goto, CallSteps, AfterPayment
  <2>4. CASE /\ Goto(c, "release", "release")
             /\ item' = [item EXCEPT ![c] = item[c] + 1]
             /\ ~LastItem(c, x)
    <3>1. PICK i \in 1..Len(Items[x]) : i = item[c] + 1
      BY <1>0, <2>4 DEF LastItem
    <3>2. QED
      BY <1>0, <1>t, <2>1, <2>2, <2>4, <3>1, CallTyped
         DEF Goto, CallSteps, AfterPayment
  <2>5. QED
    BY <1>9, <2>3, <2>4 DEF CompensateStock, Release
<1>10. CASE Refund(c)
  <2>1. /\ UNCHANGED <<stock, ledger, status, expired, charged, paid, item, jobVars>>
        /\ Goto(c, "refund", "threw")
    BY <1>10 DEF Refund, stockVars
  <2>2. /\ paid[c] \in Orders
        /\ payment[paid[c]] \in PaymentRow
    BY <1>0, <1>t, <2>1 DEF Goto, AfterPayment
  <2>3. [payment[paid[c]] EXCEPT !.status = "REFUNDED"] \in PaymentRow
    BY <2>2 DEF PaymentRow
  <2>4. NoPayment \notin PaymentRow
    BY OrderFlowAssumption
  <2>5. /\ payment' \in [Orders -> PaymentRow \cup {NoPayment}]
        /\ \A y \in Orders : payment[y] # NoPayment => payment'[y] # NoPayment
    BY <1>10, <1>t, <2>2, <2>3, <2>4 DEF Refund
  <2>6. QED
    BY <1>0, <1>t, <2>1, <2>5, CallTyped DEF Goto, Ended, AfterPayment
<1>11. CASE StepFails(c)
  <2>1. UNCHANGED <<stock, ledger, status, expired, charged, payment, paid, jobVars>>
    BY <1>11 DEF StepFails, stockVars, callVars
  <2>2. PICK step \in CallSteps \ {"release", "refund"} : Raise(c, step)
    BY <1>11 DEF StepFails
  <2>3. QED
    BY <1>t, <2>1, <2>2, RaiseTyped
<1>12. QED
  BY <1>1, <1>2, <1>3, <1>4, <1>5, <1>6, <1>7, <1>8, <1>9, <1>10, <1>11
     DEF CallStep

LEMMA NextOfTyped ==
  ASSUME TypeOK, Positions, NEW j \in Jobs, NEW orders \in SUBSET Orders,
         NEW from \in {"findExpired", "cancel"}, NextOf(j, orders, from),
         status' \in [Orders -> Statuses],
         UNCHANGED <<stock, ledger, expired, callVars, item>>
  PROVE  TypeOK' /\ Positions'
<1>0. /\ j \in Activities
      /\ stock \in [Options -> StockRow]
      /\ \A e \in ledger : e.by \in Movement /\ e.op \in Stock!Operation
      /\ current \in [Jobs -> Orders \cup {NoPayment}]
      /\ todo \in [Jobs -> SUBSET Orders]
      /\ NextOf(j, orders, from) => item[j] = 1
      /\ item = [item EXCEPT ![j] = item[j]]
  BY DEF TypeOK, Activities, NextOf, Goto, Positions
<1>1. CASE Goto(j, from, "done") /\ UNCHANGED <<current, todo>>
  BY <1>0, <1>1, JobTyped DEF Goto, Ended
<1>2. ASSUME NEW x \in orders,
             Goto(j, from, "releaseExpired"),
             current' = [current EXCEPT ![j] = x],
             todo' = [todo EXCEPT ![j] = orders \ {x}]
      PROVE  TypeOK' /\ Positions'
  <2>1. x \in Orders /\ 1 \in 1..Len(Items[x])
    BY ItemsNotEmpty
  <2>2. /\ current' \in [Jobs -> Orders \cup {NoPayment}]
        /\ current'[j] = x
        /\ \A k \in Jobs \ {j} : current'[k] = current[k]
        /\ todo' \in [Jobs -> SUBSET Orders]
    BY <1>0, <1>2
  <2>3. /\ pc' = [pc EXCEPT ![j] = "releaseExpired"]
        /\ item[j] = 1 /\ item' = [item EXCEPT ![j] = 1]
        /\ "releaseExpired" \in JobSteps \cup Ended
        /\ \A e \in ledger' : e.by \in Movement /\ e.op \in Stock!Operation
        /\ UNCHANGED <<expired, callVars>>
    BY <1>0, <1>2 DEF Goto, JobSteps
  <2>4. /\ current'[j] \in Orders
        /\ 1 \in 1..Len(Items[current'[j]])
        /\ stock' \in [Options -> StockRow]
    BY <1>0, <2>1, <2>2
  <2>5. QED
    BY <2>2, <2>3, <2>4, JobTyped
<1>3. QED
  BY <1>1, <1>2 DEF NextOf, jobVars

LEMMA NextTyped == TypeOK /\ Positions /\ [Next]_vars => TypeOK' /\ Positions'
<1> SUFFICES ASSUME TypeOK, Positions, [Next]_vars PROVE TypeOK' /\ Positions'
  OBVIOUS
<1>t. /\ stock \in [Options -> StockRow]
      /\ \A e \in ledger : e.by \in Movement /\ e.op \in Stock!Operation
      /\ status \in [Orders -> Statuses]
      /\ payment \in [Orders -> PaymentRow \cup {NoPayment}]
      /\ charged \in [Orders -> Nat]
      /\ paid \in [Calls -> Orders \cup {NoPayment}]
      /\ current \in [Jobs -> Orders \cup {NoPayment}]
      /\ todo \in [Jobs -> SUBSET Orders]
      /\ \A a \in Activities : item = [item EXCEPT ![a] = item[a]]
      /\ \A a \in Activities : item[a] \in Nat
  BY DEF TypeOK
<1>1. ASSUME NEW c \in Calls, Call(c) PROVE TypeOK' /\ Positions'
  <2>1. /\ Goto(c, "idle", "checkKey")
        /\ UNCHANGED <<stock, ledger, status, expired, charged, payment, paid, item, jobVars>>
    BY <1>1 DEF Call, stockVars, callVars
  <2>2. item[c] \in 1..Len(Items[Order(c)]) /\ item[c] = 1 /\ c \in Activities
    BY <2>1 DEF Positions, Goto, Activities
  <2>3. QED
    BY <1>t, <2>1, <2>2, CallTyped DEF Goto, CallSteps, AfterPayment
<1>2. ASSUME NEW c \in Calls, CallStep(c) PROVE TypeOK' /\ Positions'
  BY <1>2, CallStepTyped
<1>3. ASSUME NEW j \in Jobs, StartJob(j) PROVE TypeOK' /\ Positions'
  <2>1. /\ Goto(j, "idle", "findExpired")
        /\ UNCHANGED <<stock, ledger, status, expired, callVars, item, current, todo>>
    BY <1>3 DEF StartJob, stockVars, jobVars
  <2>2. item[j] = 1 /\ j \in Activities
    BY <2>1 DEF Positions, Goto, Activities
  <2>3. QED
    BY <1>t, <2>1, <2>2, JobTyped DEF Goto, JobSteps
<1>4. ASSUME NEW j \in Jobs, FindExpired(j) PROVE TypeOK' /\ Positions'
  <2>1. {x \in expired : status[x] = "PENDING"} \in SUBSET Orders
    BY DEF TypeOK
  <2>2. QED
    BY <1>4, <1>t, <2>1, NextOfTyped DEF FindExpired, stockVars
<1>5. ASSUME NEW j \in Jobs, ReleaseExpired(j) PROVE TypeOK' /\ Positions'
  <2> DEFINE x == current[j]
  <2>1. /\ UNCHANGED <<status, expired, callVars, current, todo>>
        /\ pc[j] = "releaseExpired"
    BY <1>5 DEF ReleaseExpired, Release, jobVars
  <2>2. x \in Orders /\ item[j] \in 1..Len(Items[x]) /\ j \in Activities
    BY <2>1 DEF Positions, Activities
  <2>3. /\ stock' \in [Options -> StockRow]
        /\ \A e \in ledger' : e.by \in Movement /\ e.op \in Stock!Operation
    <3>1. CASE Move(j, "release", x, item[j])
      BY <2>2, <3>1, MoveType DEF Kinds
    <3>2. CASE UNCHANGED <<stock, ledger>>
      BY <1>t, <3>2
    <3>3. QED
      BY <1>5, <3>1, <3>2 DEF ReleaseExpired, Release, stockVars
  <2>4. CASE Goto(j, "releaseExpired", "cancel") /\ item' = [item EXCEPT ![j] = 1]
    BY <1>t, <2>1, <2>2, <2>3, <2>4, JobTyped DEF Goto, JobSteps
  <2>5. CASE /\ Goto(j, "releaseExpired", "releaseExpired")
             /\ item' = [item EXCEPT ![j] = item[j] + 1]
             /\ ~LastItem(j, x)
    <3>1. Len(Items[x]) \in Nat
      BY <2>2, ItemsNotEmpty
    <3>2. PICK i \in 1..Len(Items[x]) : i = item[j] + 1
      BY <2>2, <2>5, <3>1 DEF LastItem
    <3>3. /\ current'[j] = x
          /\ current' \in [Jobs -> Orders \cup {NoPayment}]
          /\ \A k \in Jobs \ {j} : current'[k] = current[k]
          /\ todo' \in [Jobs -> SUBSET Orders]
          /\ status' \in [Orders -> Statuses]
          /\ UNCHANGED <<expired, callVars>>
      BY <1>t, <2>1
    <3>4. /\ pc' = [pc EXCEPT ![j] = "releaseExpired"]
          /\ item' = [item EXCEPT ![j] = i]
      BY <2>5, <3>2 DEF Goto
    <3>5. i \in Nat /\ i \in 1..Len(Items[current'[j]])
      BY <3>1, <3>2, <3>3
    <3>6. QED
      BY <2>2, <2>3, <3>3, <3>4, <3>5, JobTyped DEF JobSteps
  <2>6. QED
    BY <1>5, <2>4, <2>5 DEF ReleaseExpired, Release
<1>6. ASSUME NEW j \in Jobs, CancelOrder(j) PROVE TypeOK' /\ Positions'
  <2>1. /\ status' \in [Orders -> Statuses]
        /\ NextOf(j, todo[j], "cancel")
        /\ UNCHANGED <<stock, ledger, expired, callVars, item>>
    BY <1>6, <1>t DEF CancelOrder, Statuses, stockVars
  <2>2. PICK orders \in SUBSET Orders : orders = todo[j]
    BY <1>t
  <2>3. QED
    BY <2>1, <2>2, NextOfTyped
<1>7. ASSUME NEW a \in Activities, Crash(a) PROVE TypeOK' /\ Positions'
  <2>1. /\ pc' = [pc EXCEPT ![a] = "crashed"]
        /\ UNCHANGED <<stock, ledger, status, expired, charged, payment, paid, item,
                      current, todo>>
    BY <1>7 DEF Crash, stockVars, callVars, jobVars
  <2>2. CASE a \in Calls
    <3>1. item[a] \in 1..Len(Items[Order(a)])
      BY <2>2 DEF Positions
    <3>2. QED
      BY <1>t, <2>1, <2>2, <3>1, CallTyped DEF Ended, AfterPayment, jobVars
  <2>3. CASE a \in Jobs
    BY <1>t, <2>1, <2>3, JobTyped DEF Ended, callVars
  <2>4. QED
    BY <2>2, <2>3 DEF Activities
<1>8. ASSUME NEW x \in Orders, Expire(x) PROVE TypeOK' /\ Positions'
  BY <1>8 DEF Expire, TypeOK, Positions, stockVars, callVars, jobVars
<1>9. CASE UNCHANGED vars
  <2>1. UNCHANGED <<stock, ledger, status, expired, charged, payment, paid, pc,
                    item, current, todo>>
    BY <1>9 DEF vars, stockVars, callVars, jobVars
  <2>2. TypeOK'
    BY <2>1 DEF TypeOK
  <2>3. Positions'
    BY <2>1 DEF Positions
  <2>4. QED
    BY <2>2, <2>3
<1>10. QED
  BY <1>1, <1>2, <1>3, <1>4, <1>5, <1>6, <1>7, <1>8, <1>9
     DEF Next, JobStep

\* Every behaviour keeps the variables in their types.
THEOREM TypeCorrect == Spec => []TypeOK
<1>1. Init => TypeOK /\ Positions
  BY InitTyped
<1>2. TypeOK /\ Positions /\ [Next]_vars => (TypeOK /\ Positions)'
  BY NextTyped
<1>3. QED
  BY <1>1, <1>2, PTL DEF Spec

LEMMA AlwaysTyped == Spec => [](TypeOK /\ Positions)
<1>1. TypeOK /\ Positions /\ [Next]_vars => (TypeOK /\ Positions)'
  BY NextTyped
<1>2. QED
  BY InitTyped, <1>1, PTL DEF Spec

-----------------------------------------------------------------------------
LEMMA LedgerGrows ==
  ASSUME [Next]_vars
  PROVE  ledger \subseteq ledger'
<1>1. ASSUME NEW a, NEW kind, NEW x, NEW i, Move(a, kind, x, i)
      PROVE  ledger \subseteq ledger'
  BY <1>1 DEF Move, Stock!Apply
<1>2. ASSUME NEW a, NEW x, NEW from, NEW after, Release(a, x, from, after)
      PROVE  ledger \subseteq ledger'
  BY <1>1, <1>2 DEF Release, stockVars
<1>3. ASSUME NEW c \in Calls, ConfirmItem(c) PROVE ledger \subseteq ledger'
  BY <1>1, <1>3 DEF ConfirmItem, stockVars
<1>4. ASSUME NEW c \in Calls, CompensateStock(c) PROVE ledger \subseteq ledger'
  BY <1>2, <1>4 DEF CompensateStock
<1>5. ASSUME NEW j \in Jobs, ReleaseExpired(j) PROVE ledger \subseteq ledger'
  BY <1>2, <1>5 DEF ReleaseExpired
<1>6. CASE UNCHANGED stockVars
  BY <1>6 DEF stockVars
<1>7. QED
  BY <1>3, <1>4, <1>5, <1>6
     DEF Next, CallStep, JobStep, Call, CheckKey, ValidateOrder, Charge,
         SavePayment, FindOrder, LoadOrder, SaveOrder, Refund, StepFails,
         StartJob, FindExpired, CancelOrder, Crash, Expire, vars

LEMMA InitSold == Init => SoldSoFar /\ CompletedIsSold
BY DEF Init, SoldSoFar, CompletedIsSold, Activities

\* The step of a call that is, after it, at no step past a confirmation.
LEMMA SoldKept ==
  ASSUME SoldSoFar, ledger \subseteq ledger', NEW a,
         \A d \in Calls \ {a} : pc'[d] = pc[d] /\ item'[d] = item[d],
         a \in Calls => pc'[a] \notin {"confirm", "loadOrder", "saveOrder"}
  PROVE  SoldSoFar'
<1>1. \A kind, x, i : Moves(kind, x, i) # {} => Moves(kind, x, i)' # {}
  BY DEF Moves
<1>2. QED
  BY <1>1 DEF SoldSoFar

\* What was sold stays sold.
LEMMA CompletedKept ==
  ASSUME CompletedIsSold, ledger \subseteq ledger',
         \A x \in Orders : status'[x] = "COMPLETED" => status[x] = "COMPLETED"
  PROVE  CompletedIsSold'
BY DEF Moves, CompletedIsSold

LEMMA ConfirmSold ==
  ASSUME TypeOK, Positions, SoldSoFar, ledger \subseteq ledger',
         NEW c \in Calls, ConfirmItem(c)
  PROVE  SoldSoFar'
<1> DEFINE x == Order(c)
           k == Len(Items[x])
<1>0. /\ x \in Orders /\ c \in Activities
      /\ item[c] \in 1..k /\ k \in Nat
      /\ pc[c] = "confirm"
      /\ pc \in [Activities -> {"idle"} \cup CallSteps \cup JobSteps \cup Ended]
      /\ item \in [Activities -> Nat]
  BY OrderFlowAssumption, ItemsNotEmpty
     DEF Order, Positions, Activities, ConfirmItem, Take, Raise, Goto, TypeOK
<1>1. \A kind, y, i : Moves(kind, y, i) # {} => Moves(kind, y, i)' # {}
  BY DEF Moves
<1>2. PICK n : n = item[c]
  OBVIOUS
<1>3. \A i \in 1..k : i < n => Moves("confirm", x, i)' # {}
  BY <1>0, <1>1, <1>2 DEF SoldSoFar
<1>4. ASSUME NEW to, NEW m,
             pc' = [pc EXCEPT ![c] = to], item' = [item EXCEPT ![c] = m]
      PROVE  \A d \in Calls \ {c} : pc'[d] = pc[d] /\ item'[d] = item[d]
  BY <1>4, <1>0 DEF Activities
<1>5. CASE Raise(c, "confirm")
  <2>1. pc' = [pc EXCEPT ![c] = "refund"] /\ item' = [item EXCEPT ![c] = 1]
    BY <1>5 DEF Raise, Goto, Handler
  <2>2. pc'[c] = "refund"
    BY <2>1, <1>0
  <2>3. QED
    BY <2>1, <2>2, <1>4, SoldKept
<1>6. CASE Move(c, "confirm", x, item[c]) /\ ~Raise(c, "confirm")
  <2>1. ledger' = ledger \cup
          {[by |-> [who |-> c, kind |-> "confirm", order |-> x, item |-> n],
            op |-> Op("confirm", x, n)]}
    BY <1>0, <1>2, <1>6, MoveType DEF Kinds
  <2>2. Moves("confirm", x, n)' # {}
    <3> DEFINE e == [by |-> [who |-> c, kind |-> "confirm", order |-> x, item |-> n],
                     op |-> Op("confirm", x, n)]
    <3>1. e \in ledger'
      BY <2>1
    <3>2. e.by.kind = "confirm" /\ e.by.order = x /\ e.by.item = n
      OBVIOUS
    <3>3. QED
      BY <3>1, <3>2 DEF Moves
  <2>3. \A i \in 1..k : i <= n => Moves("confirm", x, i)' # {}
    BY <1>0, <1>2, <1>3, <2>2
  <2>4. CASE LastItem(c, x)
    <3>1. pc' = [pc EXCEPT ![c] = "loadOrder"] /\ item' = [item EXCEPT ![c] = 1]
      BY <1>6, <1>0, <2>4 DEF ConfirmItem, Take, Goto, LastItem, Refused
    <3>2. \A i \in 1..k : Moves("confirm", x, i)' # {}
      BY <2>3, <2>4, <1>2, <1>0 DEF LastItem
    <3>3. QED
      BY <3>1, <3>2, <1>4, <1>1 DEF SoldSoFar
  <2>5. CASE ~LastItem(c, x)
    <3>1. pc' = [pc EXCEPT ![c] = "confirm"] /\ item' = [item EXCEPT ![c] = n + 1]
      BY <1>6, <1>0, <1>2, <2>5 DEF ConfirmItem, Take, Goto, LastItem, Refused
    <3>2. pc'[c] = "confirm" /\ item'[c] = n + 1
      BY <3>1, <1>0
    <3>3. \A i \in 1..k : i < n + 1 => Moves("confirm", x, i)' # {}
      BY <2>3, <1>0, <1>2
    <3>4. QED
      BY <3>1, <3>2, <3>3, <1>4, <1>1 DEF SoldSoFar
  <2>6. QED
    BY <2>4, <2>5
<1>7. QED
  BY <1>5, <1>6 DEF ConfirmItem

LEMMA FindSold ==
  ASSUME TypeOK, Positions, SoldSoFar, ledger \subseteq ledger',
         NEW c \in Calls, FindOrder(c) \/ LoadOrder(c)
  PROVE  SoldSoFar'
<1>0. /\ c \in Activities /\ item' = item
      /\ pc \in [Activities -> {"idle"} \cup CallSteps \cup JobSteps \cup Ended]
  BY DEF TypeOK, Activities, FindOrder, LoadOrder
<1>1. \A kind, y, i : Moves(kind, y, i) # {} => Moves(kind, y, i)' # {}
  BY DEF Moves
<1>2. CASE pc' = [pc EXCEPT ![c] = "confirm"] /\ item[c] = 1
  BY <1>0, <1>1, <1>2 DEF SoldSoFar, Activities
<1>3. CASE pc' = [pc EXCEPT ![c] = "saveOrder"] /\ pc[c] = "loadOrder"
  BY <1>0, <1>1, <1>3 DEF SoldSoFar, Activities
<1>4. CASE \E to \in {"returned", "release"} : pc' = [pc EXCEPT ![c] = to]
  BY <1>0, <1>1, <1>4 DEF SoldSoFar, Activities
<1>5. QED
  BY <1>2, <1>3, <1>4 DEF FindOrder, LoadOrder, Goto, Handler, Positions

LEMMA NextSold ==
  ASSUME TypeOK, Positions, SoldSoFar, CompletedIsSold, [Next]_vars
  PROVE  SoldSoFar' /\ CompletedIsSold'
<1>0. ledger \subseteq ledger'
  BY LedgerGrows
<1>t. /\ pc \in [Activities -> {"idle"} \cup CallSteps \cup JobSteps \cup Ended]
      /\ item \in [Activities -> Nat]
      /\ status \in [Orders -> Statuses]
      /\ Calls \cap Jobs = {} /\ Activities = Calls \cup Jobs
  BY OrderFlowAssumption DEF TypeOK, Activities
\* An activity goes to a step that confirms nothing.
<1>a. ASSUME NEW a \in Activities, NEW to, NEW n,
             pc' = [pc EXCEPT ![a] = to],
             item' = item \/ item' = [item EXCEPT ![a] = n],
             to \notin {"confirm", "loadOrder", "saveOrder"}
      PROVE  SoldSoFar'
  <2>1. \A d \in Calls \ {a} : pc'[d] = pc[d] /\ item'[d] = item[d]
    BY <1>a, <1>t
  <2>2. a \in Calls => pc'[a] \notin {"confirm", "loadOrder", "saveOrder"}
    BY <1>a, <1>t
  <2>3. QED
    BY <1>0, <2>1, <2>2, SoldKept
<1>b. ASSUME status' = status PROVE CompletedIsSold'
  BY <1>b, <1>0, CompletedKept
<1>1. ASSUME NEW c \in Calls,
             Call(c) \/ CheckKey(c) \/ ValidateOrder(c) \/ Refund(c)
      PROVE  SoldSoFar' /\ CompletedIsSold'
  <2>1. status' = status /\ item' = item /\ c \in Activities
    BY <1>1 DEF Call, CheckKey, ValidateOrder, Refund, Activities
  <2>2. PICK to \in {"checkKey", "validate", "findOrder", "charge", "threw"} :
          pc' = [pc EXCEPT ![c] = to]
    BY <1>1 DEF Call, CheckKey, ValidateOrder, Refund, Goto
  <2>3. QED
    BY <1>a, <1>b, <2>1, <2>2
<1>2. ASSUME NEW c \in Calls, Charge(c) \/ SavePayment(c) \/ StepFails(c)
      PROVE  SoldSoFar' /\ CompletedIsSold'
  <2>1. status' = status /\ item' = [item EXCEPT ![c] = 1] /\ c \in Activities
    BY <1>2 DEF Charge, SavePayment, StepFails, Take, Raise, Activities
  <2>2. PICK to \in {"savePayment", "findOrder", "threw", "refund", "release"} :
          pc' = [pc EXCEPT ![c] = to]
    BY <1>2 DEF Charge, SavePayment, StepFails, Take, Raise, Goto, Handler, CallSteps
  <2>3. QED
    BY <1>a, <1>b, <2>1, <2>2
<1>3. ASSUME NEW c \in Calls, FindOrder(c) \/ LoadOrder(c)
      PROVE  SoldSoFar' /\ CompletedIsSold'
  <2>1. status' = status
    BY <1>3 DEF FindOrder, LoadOrder
  <2>2. QED
    BY <1>0, <1>3, <2>1, <1>b, FindSold
<1>4. ASSUME NEW c \in Calls, ConfirmItem(c)
      PROVE  SoldSoFar' /\ CompletedIsSold'
  <2>1. status' = status
    BY <1>4 DEF ConfirmItem
  <2>2. QED
    BY <1>0, <1>4, <2>1, <1>b, ConfirmSold
<1>5. ASSUME NEW c \in Calls, SaveOrder(c)
      PROVE  SoldSoFar' /\ CompletedIsSold'
  <2>1. /\ item' = [item EXCEPT ![c] = 1] /\ c \in Activities
        /\ ledger' = ledger /\ pc[c] = "saveOrder"
        /\ status' = [status EXCEPT ![Order(c)] = "COMPLETED"]
    BY <1>5 DEF SaveOrder, Take, Raise, Goto, Activities, stockVars
  <2>2. PICK to \in {"returned", "release"} : pc' = [pc EXCEPT ![c] = to]
    BY <1>5 DEF SaveOrder, Take, Raise, Goto, Handler
  <2>3. \A i \in 1..Len(Items[Order(c)]) : Moves("confirm", Order(c), i) # {}
    BY <2>1 DEF SoldSoFar
  <2>4. CompletedIsSold'
    BY <1>t, <2>1, <2>3 DEF CompletedIsSold, Moves
  <2>5. QED
    BY <1>a, <2>1, <2>2, <2>4
<1>6. ASSUME NEW c \in Calls, CompensateStock(c)
      PROVE  SoldSoFar' /\ CompletedIsSold'
  <2>1. status' = status /\ c \in Activities
    BY <1>6 DEF CompensateStock, Activities
  <2>2. PICK to \in {"release", "refund"}, n \in {1, item[c] + 1} :
          pc' = [pc EXCEPT ![c] = to] /\ item' = [item EXCEPT ![c] = n]
    BY <1>6 DEF CompensateStock, Release, Goto
  <2>3. QED
    BY <1>a, <1>b, <2>1, <2>2
<1>7. ASSUME NEW j \in Jobs, StartJob(j) \/ FindExpired(j)
      PROVE  SoldSoFar' /\ CompletedIsSold'
  <2>1. status' = status /\ item' = item /\ j \in Activities
    BY <1>7 DEF StartJob, FindExpired, Activities
  <2>2. PICK to \in {"findExpired", "done", "releaseExpired"} :
          pc' = [pc EXCEPT ![j] = to]
    BY <1>7 DEF StartJob, FindExpired, NextOf, Goto
  <2>3. QED
    BY <1>a, <1>b, <2>1, <2>2
<1>8. ASSUME NEW j \in Jobs, ReleaseExpired(j)
      PROVE  SoldSoFar' /\ CompletedIsSold'
  <2>1. status' = status /\ j \in Activities
    BY <1>8 DEF ReleaseExpired, Activities
  <2>2. PICK to \in {"releaseExpired", "cancel"}, n \in {1, item[j] + 1} :
          pc' = [pc EXCEPT ![j] = to] /\ item' = [item EXCEPT ![j] = n]
    BY <1>8 DEF ReleaseExpired, Release, Goto
  <2>3. QED
    BY <1>a, <1>b, <2>1, <2>2
<1>9. ASSUME NEW j \in Jobs, CancelOrder(j)
      PROVE  SoldSoFar' /\ CompletedIsSold'
  <2>1. item' = item /\ j \in Activities
    BY <1>9 DEF CancelOrder, Activities
  <2>2. PICK to \in {"done", "releaseExpired"} : pc' = [pc EXCEPT ![j] = to]
    BY <1>9 DEF CancelOrder, NextOf, Goto
  <2>3. \A y \in Orders : status'[y] = "COMPLETED" => status[y] = "COMPLETED"
    BY <1>9, <1>t DEF CancelOrder
  <2>4. QED
    BY <1>0, <1>a, <2>1, <2>2, <2>3, CompletedKept
<1>10. ASSUME NEW a \in Activities, Crash(a)
       PROVE  SoldSoFar' /\ CompletedIsSold'
  <2>1. status' = status /\ item' = item /\ pc' = [pc EXCEPT ![a] = "crashed"]
    BY <1>10 DEF Crash
  <2>2. QED
    BY <1>a, <1>b, <2>1
<1>11. CASE UNCHANGED <<ledger, status, pc, item>>
  BY <1>11 DEF SoldSoFar, CompletedIsSold, Moves
<1>12. ASSUME NEW y \in Orders, Expire(y)
       PROVE  SoldSoFar' /\ CompletedIsSold'
  BY <1>11, <1>12 DEF Expire, stockVars
<1>13. CASE UNCHANGED vars
  BY <1>11, <1>13 DEF vars, stockVars
<1>14. QED
  BY <1>1, <1>2, <1>3, <1>4, <1>5, <1>6, <1>7, <1>8, <1>9, <1>10, <1>12, <1>13
     DEF Next, CallStep, JobStep

\* Whatever calls and job runs overlap, fail, lose answers or die between two
\* steps, an order becomes COMPLETED only after every one of its items was
\* moved from reserved to sold for it (order.facade.ts, completeOrder).
THEOREM CompletedIsSoldHolds == Spec => []CompletedIsSold
<1>1. Init => SoldSoFar /\ CompletedIsSold
  BY InitSold
<1>2. /\ TypeOK /\ Positions /\ SoldSoFar /\ CompletedIsSold /\ [Next]_vars
      => (SoldSoFar /\ CompletedIsSold)'
  BY NextSold
<1>3. QED
  BY AlwaysTyped, <1>1, <1>2, PTL DEF Spec

-----------------------------------------------------------------------------
(***************************************************************************)
(* Payments, when no idempotency key is used for two orders.               *)
(***************************************************************************)
PaidFor == OwnPayment /\ ChargedFirst

\* A step that takes no payment and gets no call past the payment step.
LEMMA PaidKept ==
  ASSUME TypeOK, PaidFor,
         \A x \in Orders :
           /\ payment[x] # NoPayment <=> payment'[x] # NoPayment
           /\ payment[x] # NoPayment => payment'[x].key = payment[x].key
           /\ charged[x] > 0 => charged'[x] > 0
           /\ status'[x] = "COMPLETED" => status[x] = "COMPLETED" \/ payment[x] # NoPayment,
         \A c \in Calls :
           /\ pc'[c] \in AfterPayment => pc[c] \in AfterPayment
           /\ pc'[c] = "savePayment" => pc[c] = "savePayment" \/ charged'[Order(c)] > 0,
         \/ ledger' = ledger
         \/ \E e : /\ ledger' = ledger \cup {e}
                   /\ \A d \in ledger : d.by # e.by
                   /\ e.by.kind = "confirm" => /\ e.by.who \in Calls
                                               /\ e.by.order = Order(e.by.who)
                                               /\ pc[e.by.who] \in AfterPayment
  PROVE  PaidFor'
<1> USE DEF PaidFor
<1>0. \A c \in Calls : Order(c) \in Orders
  BY OrderFlowAssumption DEF Order
<1>1. ChargedFirst'
  BY <1>0 DEF ChargedFirst
<1>2. \A x \in Orders : payment'[x] # NoPayment =>
        \E c \in Calls : Order(c) = x /\ Key(c) = payment'[x].key
  BY DEF OwnPayment
<1>3. \A c \in Calls : pc'[c] \in AfterPayment =>
        payment'[Order(c)] # NoPayment /\ payment'[Order(c)].key = Key(c)
  BY <1>0 DEF OwnPayment
<1>4. \A e \in ledger : e.by.kind = "confirm" =>
        /\ e.by.who \in Calls
        /\ payment'[e.by.order] # NoPayment
        /\ payment'[e.by.order].key = Key(e.by.who)
  BY DEF OwnPayment, TypeOK, Movement
<1> DEFINE Entries == /\ \A e \in ledger' : e.by.kind = "confirm" =>
                          /\ e.by.who \in Calls
                          /\ payment'[e.by.order] # NoPayment
                          /\ payment'[e.by.order].key = Key(e.by.who)
                      /\ \A d, e \in ledger' : d.by = e.by => d = e
<1>5. Entries
  <2>1. CASE ledger' = ledger
    BY <1>4, <2>1 DEF OwnPayment
  <2>2. ASSUME NEW e, ledger' = ledger \cup {e}, \A d \in ledger : d.by # e.by,
               e.by.kind = "confirm" => /\ e.by.who \in Calls
                                        /\ e.by.order = Order(e.by.who)
                                        /\ pc[e.by.who] \in AfterPayment
        PROVE  Entries
    <3>1. e.by.kind = "confirm" => /\ e.by.who \in Calls
                                   /\ payment'[e.by.order] # NoPayment
                                   /\ payment'[e.by.order].key = Key(e.by.who)
      BY <1>0, <2>2 DEF OwnPayment
    <3>2. QED
      BY <1>4, <2>2, <3>1 DEF OwnPayment
  <2>3. QED
    BY <2>1, <2>2
<1>6. QED
  BY <1>1, <1>2, <1>3, <1>5 DEF OwnPayment

\* One movement, as an entry of the ledger.
LEMMA MoveEntry ==
  ASSUME TypeOK, NEW a \in Activities, NEW kind \in Kinds, NEW x \in Orders,
         NEW i \in 1..Len(Items[x]), Move(a, kind, x, i)
  PROVE  \E e : /\ ledger' = ledger \cup {e}
                /\ \A d \in ledger : d.by # e.by
                /\ e.by = [who |-> a, kind |-> kind, order |-> x, item |-> i]
<1> DEFINE by == [who |-> a, kind |-> kind, order |-> x, item |-> i]
           e == [by |-> by, op |-> Op(kind, x, i)]
<1>1. /\ ledger' = ledger \cup {e}
      /\ \A d \in ledger : d.by # by
  BY MoveType
<1>2. e.by = by
  OBVIOUS
<1> HIDE DEF e
<1>3. QED
  BY <1>1, <1>2

\* A release leaves the payments alone, whoever makes it.
LEMMA ReleasePaid ==
  ASSUME TypeOK, PaidFor, NEW a \in Activities, NEW x \in Orders,
         item[a] \in 1..Len(Items[x]),
         NEW from, NEW after, Release(a, x, from, after),
         UNCHANGED <<status, callVars>>,
         \A c \in Calls : /\ pc'[c] \in AfterPayment => pc[c] \in AfterPayment
                          /\ pc'[c] = "savePayment" => pc[c] = "savePayment"
  PROVE  PaidFor'
<1>1. \/ ledger' = ledger
      \/ \E e : /\ ledger' = ledger \cup {e}
                /\ \A d \in ledger : d.by # e.by
                /\ e.by.kind # "confirm"
  <2>1. CASE Move(a, "release", x, item[a])
    <3>1. "release" \in Kinds
      BY DEF Kinds
    <3>2. PICK e : /\ ledger' = ledger \cup {e}
                   /\ \A d \in ledger : d.by # e.by
                   /\ e.by = [who |-> a, kind |-> "release", order |-> x, item |-> item[a]]
      BY <2>1, <3>1, MoveEntry
    <3>3. e.by.kind # "confirm"
      BY <3>2
    <3>4. QED
      BY <3>2, <3>3
  <2>2. CASE UNCHANGED stockVars
    BY <2>2 DEF stockVars
  <2>3. QED
    BY <2>1, <2>2 DEF Release
<1>2. QED
  BY <1>1, PaidKept DEF callVars

\* A known key leads to the order it was used for.
LEMMA CheckKeyPaid ==
  ASSUME KeysOfOneOrder, TypeOK, PaidFor, NEW c \in Calls, CheckKey(c)
  PROVE  PaidFor'
<1>1. c \in Activities /\ pc \in [Activities -> {"idle"} \cup CallSteps \cup JobSteps \cup Ended]
  BY DEF TypeOK, Activities
<1>2. UNCHANGED <<stock, ledger, status, charged, payment>>
  BY DEF CheckKey, stockVars
<1>3. CASE PaymentsWith(Key(c)) = {}
  <2>1. pc' = [pc EXCEPT ![c] = "validate"]
    BY <1>3 DEF CheckKey, Goto
  <2>2. QED
    BY <1>1, <1>2, <2>1, PaidKept DEF Activities, AfterPayment
<1>4. CASE PaymentsWith(Key(c)) # {}
  <2>1. PICK x \in Orders : payment[x] # NoPayment /\ payment[x].key = Key(c)
    BY <1>4 DEF PaymentsWith
  <2>2. PICK d \in Calls : Order(d) = x /\ Key(d) = Key(c)
    BY <2>1 DEF PaidFor, OwnPayment
  <2>3. Order(d) = Order(c)
    BY <2>2 DEF KeysOfOneOrder
  <2>4. payment[Order(c)] # NoPayment /\ payment[Order(c)].key = Key(c)
    BY <2>1, <2>2, <2>3
  <2>5. pc' = [pc EXCEPT ![c] = "findOrder"]
    BY <1>4 DEF CheckKey, Goto
  <2>6. \A b \in Calls \ {c} : pc'[b] = pc[b]
    BY <1>1, <2>5 DEF Activities
  <2>7. pc'[c] = "findOrder"
    BY <1>1, <2>5
  <2>8. ChargedFirst'
    BY <1>2, <2>6, <2>7 DEF PaidFor, ChargedFirst
  <2>9. OwnPayment'
    BY <1>2, <2>4, <2>6 DEF PaidFor, OwnPayment
  <2>10. QED
    BY <2>8, <2>9 DEF PaidFor
<1>5. QED
  BY <1>3, <1>4

\* The one payment row of an order is inserted.
LEMMA SavePaymentPaid ==
  ASSUME TypeOK, PaidFor, NEW c \in Calls, SavePayment(c)
  PROVE  PaidFor'
<1>1. /\ c \in Activities /\ Order(c) \in Orders
      /\ pc \in [Activities -> {"idle"} \cup CallSteps \cup JobSteps \cup Ended]
      /\ payment \in [Orders -> PaymentRow \cup {NoPayment}]
  BY OrderFlowAssumption DEF TypeOK, Activities, Order
<1>2. UNCHANGED <<stock, ledger, status, charged>> /\ pc[c] = "savePayment"
  BY DEF SavePayment, stockVars, Take, Raise, Goto
<1>3. CASE Raise(c, "savePayment") /\ UNCHANGED <<payment, paid>>
  <2>1. pc' = [pc EXCEPT ![c] = "threw"]
    BY <1>3 DEF Raise, Goto, Handler
  <2>2. QED
    BY <1>1, <1>2, <1>3, <2>1, PaidKept DEF Activities, AfterPayment
<1>4. CASE /\ payment[Order(c)] = NoPayment
           /\ payment' = [payment EXCEPT ![Order(c)] = [key |-> Key(c), status |-> "COMPLETED"]]
           /\ Take(c, "savePayment", "findOrder", 1)
  <2>1. PICK to \in {"findOrder", "threw"} : pc' = [pc EXCEPT ![c] = to]
    BY <1>4 DEF Take, Raise, Goto, Handler
  <2>2. pc'[c] = to /\ \A b \in Calls \ {c} : pc'[b] = pc[b]
    BY <1>1, <2>1 DEF Activities
  <2>3. [key |-> Key(c), status |-> "COMPLETED"] # NoPayment
    BY OrderFlowAssumption DEF PaymentRow, Key
  <2>4. /\ payment'[Order(c)] # NoPayment /\ payment'[Order(c)].key = Key(c)
        /\ \A x \in Orders \ {Order(c)} : payment'[x] = payment[x]
    BY <1>1, <1>4, <2>3
  <2>5. charged'[Order(c)] > 0
    BY <1>2 DEF PaidFor, ChargedFirst
  <2>6. ChargedFirst'
    BY <1>2, <2>2, <2>4, <2>5 DEF PaidFor, ChargedFirst
  <2>7. \A x \in Orders : payment[x] # NoPayment => payment'[x] = payment[x]
    BY <1>4, <2>4
  <2>8. \A b \in Calls : Order(b) \in Orders
    BY OrderFlowAssumption DEF Order
  <2>9. \A e \in ledger : e.by.order \in Orders
    BY DEF TypeOK, Movement
  <2>10. OwnPayment'
    BY <1>2, <2>2, <2>4, <2>7, <2>8, <2>9 DEF PaidFor, OwnPayment
  <2>11. QED
    BY <2>6, <2>10 DEF PaidFor
<1>5. QED
  BY <1>3, <1>4 DEF SavePayment

LEMMA ConfirmPaid ==
  ASSUME TypeOK, Positions, PaidFor, NEW c \in Calls, ConfirmItem(c)
  PROVE  PaidFor'
<1>1. /\ c \in Activities /\ Order(c) \in Orders /\ pc[c] = "confirm"
      /\ pc \in [Activities -> {"idle"} \cup CallSteps \cup JobSteps \cup Ended]
      /\ item[c] \in 1..Len(Items[Order(c)])
      /\ UNCHANGED <<status, charged, payment>>
  BY OrderFlowAssumption
     DEF TypeOK, Activities, Order, Positions, ConfirmItem, Take, Raise, Goto, callVars
<1>2. PICK to \in {"confirm", "loadOrder", "refund"} : pc' = [pc EXCEPT ![c] = to]
  BY DEF ConfirmItem, Take, Raise, Goto, Handler
<1>3. \A b \in Calls : /\ pc'[b] \in AfterPayment => pc[b] \in AfterPayment
                       /\ pc'[b] = "savePayment" => pc[b] = "savePayment"
  BY <1>1, <1>2 DEF Activities, AfterPayment
<1>4. CASE Move(c, "confirm", Order(c), item[c])
  <2>1. PICK e : /\ ledger' = ledger \cup {e}
                 /\ \A d \in ledger : d.by # e.by
                 /\ e.by = [who |-> c, kind |-> "confirm", order |-> Order(c), item |-> item[c]]
    BY <1>1, <1>4, MoveEntry DEF Kinds
  <2>2. /\ e.by.who \in Calls /\ e.by.order = Order(e.by.who)
        /\ pc[e.by.who] \in AfterPayment
    BY <1>1, <2>1 DEF AfterPayment
  <2>3. QED
    BY <1>1, <1>3, <2>1, <2>2, PaidKept
<1>5. CASE UNCHANGED stockVars
  BY <1>1, <1>3, <1>5, PaidKept DEF stockVars
<1>6. QED
  BY <1>4, <1>5 DEF ConfirmItem

LEMMA NextPaid ==
  ASSUME KeysOfOneOrder, TypeOK, Positions, PaidFor, [Next]_vars
  PROVE  PaidFor'
<1>t. /\ pc \in [Activities -> {"idle"} \cup CallSteps \cup JobSteps \cup Ended]
      /\ status \in [Orders -> Statuses] /\ charged \in [Orders -> Nat]
      /\ payment \in [Orders -> PaymentRow \cup {NoPayment}]
      /\ Calls \cap Jobs = {} /\ Activities = Calls \cup Jobs
      /\ \A c \in Calls : Order(c) \in Orders
  BY OrderFlowAssumption DEF TypeOK, Activities, Order
\* An activity that stays on its side of the payment step.
<1>a. ASSUME NEW a \in Activities, NEW to, pc' = [pc EXCEPT ![a] = to],
             to \in AfterPayment => pc[a] \in AfterPayment,
             to # "savePayment"
      PROVE  \A c \in Calls : /\ pc'[c] \in AfterPayment => pc[c] \in AfterPayment
                              /\ pc'[c] = "savePayment" => pc[c] = "savePayment"
  BY <1>a, <1>t
<1>1. ASSUME NEW c \in Calls,
             Call(c) \/ ValidateOrder(c) \/ FindOrder(c) \/ LoadOrder(c) \/ StepFails(c)
      PROVE  PaidFor'
  <2>1. UNCHANGED <<ledger, status, charged, payment>>
    BY <1>1 DEF Call, ValidateOrder, FindOrder, LoadOrder, StepFails, stockVars, callVars
  <2>2. PICK to \in {"checkKey", "charge", "threw", "returned", "confirm", "saveOrder",
                     "release", "refund"} :
          /\ pc' = [pc EXCEPT ![c] = to]
          /\ to \in AfterPayment => pc[c] \in AfterPayment
    BY <1>1 DEF Call, ValidateOrder, FindOrder, LoadOrder, StepFails, Raise, Goto,
               Handler, CallSteps, AfterPayment
  <2>3. QED
    BY <1>t, <1>a, <2>1, <2>2, PaidKept
<1>2. ASSUME NEW c \in Calls, CheckKey(c) PROVE PaidFor'
  BY <1>2, CheckKeyPaid
<1>3. ASSUME NEW c \in Calls, Charge(c) PROVE PaidFor'
  <2>1. UNCHANGED <<ledger, status, payment>>
    BY <1>3 DEF Charge, stockVars
  <2>2. \/ charged' = [charged EXCEPT ![Order(c)] = @ + 1]
           /\ \E to \in {"savePayment", "threw"} : pc' = [pc EXCEPT ![c] = to]
        \/ charged' = charged /\ pc' = [pc EXCEPT ![c] = "threw"]
    BY <1>3 DEF Charge, Take, Raise, Goto, Handler
  <2>3. \A x \in Orders : charged[x] > 0 => charged'[x] > 0
    BY <1>t, <2>2
  <2>4. \A b \in Calls :
          /\ pc'[b] \in AfterPayment => pc[b] \in AfterPayment
          /\ pc'[b] = "savePayment" => pc[b] = "savePayment" \/ charged'[Order(b)] > 0
    BY <1>t, <2>2 DEF AfterPayment
  <2>5. QED
    BY <2>1, <2>3, <2>4, PaidKept
<1>4. ASSUME NEW c \in Calls, SavePayment(c) PROVE PaidFor'
  BY <1>4, SavePaymentPaid
<1>5. ASSUME NEW c \in Calls, ConfirmItem(c) PROVE PaidFor'
  BY <1>5, ConfirmPaid
<1>6. ASSUME NEW c \in Calls, SaveOrder(c) PROVE PaidFor'
  <2>1. /\ UNCHANGED <<ledger, charged, payment>> /\ pc[c] = "saveOrder"
        /\ status' = [status EXCEPT ![Order(c)] = "COMPLETED"]
    BY <1>6 DEF SaveOrder, Take, Raise, Goto, stockVars, callVars
  <2>2. PICK to \in {"returned", "release"} : pc' = [pc EXCEPT ![c] = to]
    BY <1>6 DEF SaveOrder, Take, Raise, Goto, Handler
  <2>3. payment[Order(c)] # NoPayment
    BY <2>1 DEF PaidFor, OwnPayment, AfterPayment
  <2>4. \A x \in Orders : status'[x] = "COMPLETED" =>
                          status[x] = "COMPLETED" \/ payment[x] # NoPayment
    BY <1>t, <2>1, <2>3
  <2>5. \A b \in Calls : /\ pc'[b] \in AfterPayment => pc[b] \in AfterPayment
                         /\ pc'[b] = "savePayment" => pc[b] = "savePayment"
    BY <1>t, <1>a, <2>1, <2>2 DEF AfterPayment
  <2>6. QED
    BY <2>1, <2>4, <2>5, PaidKept
<1>7. ASSUME NEW c \in Calls, CompensateStock(c) PROVE PaidFor'
  <2>1. /\ Release(c, Order(c), "release", "refund") /\ UNCHANGED <<status, callVars>>
        /\ pc[c] = "release" /\ c \in Activities
    BY <1>7 DEF CompensateStock, Release, Activities
  <2>2. PICK to \in {"release", "refund"} : pc' = [pc EXCEPT ![c] = to]
    BY <2>1 DEF Release, Goto
  <2>3. item[c] \in 1..Len(Items[Order(c)])
    BY DEF Positions
  <2>4. QED
    BY <1>t, <1>a, <2>1, <2>2, <2>3, ReleasePaid DEF AfterPayment
<1>8. ASSUME NEW c \in Calls, Refund(c) PROVE PaidFor'
  <2>1. /\ UNCHANGED <<ledger, status, charged>> /\ pc[c] = "refund"
        /\ pc' = [pc EXCEPT ![c] = "threw"]
        /\ payment' = payment \/ payment' = [payment EXCEPT ![paid[c]].status = "REFUNDED"]
    BY <1>8 DEF Refund, Goto, stockVars
  <2>2. paid[c] \in Orders /\ payment[paid[c]] \in PaymentRow
    BY <1>t, <2>1 DEF Positions, AfterPayment
  <2>3. /\ [payment[paid[c]] EXCEPT !.status = "REFUNDED"] \in PaymentRow
        /\ [payment[paid[c]] EXCEPT !.status = "REFUNDED"].key = payment[paid[c]].key
    BY <2>2 DEF PaymentRow
  <2>4. \A x \in Orders :
          /\ payment[x] # NoPayment <=> payment'[x] # NoPayment
          /\ payment[x] # NoPayment => payment'[x].key = payment[x].key
    BY <1>t, <2>1, <2>2, <2>3, OrderFlowAssumption
  <2>5. \A b \in Calls : /\ pc'[b] \in AfterPayment => pc[b] \in AfterPayment
                         /\ pc'[b] = "savePayment" => pc[b] = "savePayment"
    BY <1>t, <2>1 DEF AfterPayment
  <2>6. QED
    BY <2>1, <2>4, <2>5, PaidKept
<1>9. ASSUME NEW j \in Jobs, StartJob(j) \/ FindExpired(j) \/ CancelOrder(j)
      PROVE  PaidFor'
  <2>1. /\ UNCHANGED <<ledger, charged, payment>>
        /\ \A x \in Orders : status'[x] = "COMPLETED" => status[x] = "COMPLETED"
    BY <1>9, <1>t DEF StartJob, FindExpired, CancelOrder, stockVars, callVars
  <2>2. PICK to \in {"findExpired", "done", "releaseExpired"} : pc' = [pc EXCEPT ![j] = to]
    BY <1>9 DEF StartJob, FindExpired, CancelOrder, NextOf, Goto
  <2>3. QED
    BY <1>t, <1>a, <2>1, <2>2, PaidKept DEF AfterPayment
<1>10. ASSUME NEW j \in Jobs, ReleaseExpired(j) PROVE PaidFor'
  <2>1. /\ Release(j, current[j], "releaseExpired", "cancel") /\ UNCHANGED <<status, callVars>>
        /\ pc[j] = "releaseExpired" /\ j \in Activities
    BY <1>10 DEF ReleaseExpired, Release, Activities
  <2>2. PICK to \in {"releaseExpired", "cancel"} : pc' = [pc EXCEPT ![j] = to]
    BY <2>1 DEF Release, Goto
  <2>3. current[j] \in Orders /\ item[j] \in 1..Len(Items[current[j]])
    BY <2>1 DEF Positions
  <2>4. QED
    BY <1>t, <1>a, <2>1, <2>2, <2>3, ReleasePaid DEF AfterPayment
<1>11. ASSUME NEW a \in Activities, Crash(a) PROVE PaidFor'
  <2>1. /\ UNCHANGED <<ledger, status, charged, payment>>
        /\ pc' = [pc EXCEPT ![a] = "crashed"]
    BY <1>11 DEF Crash, stockVars, callVars
  <2>2. QED
    BY <1>t, <1>a, <2>1, PaidKept DEF AfterPayment
<1>12. CASE UNCHANGED <<ledger, status, charged, payment, pc>>
  BY <1>12, PaidKept
<1>13. ASSUME NEW x \in Orders, Expire(x) PROVE PaidFor'
  BY <1>12, <1>13 DEF Expire, stockVars, callVars
<1>14. CASE UNCHANGED vars
  BY <1>12, <1>14 DEF vars, stockVars, callVars
<1>15. QED
  BY <1>1, <1>2, <1>3, <1>4, <1>5, <1>6, <1>7, <1>8, <1>9, <1>10, <1>11, <1>13, <1>14
     DEF Next, CallStep, JobStep

LEMMA InitPaid == Init => PaidFor
BY DEF Init, Stock!Init, PaidFor, OwnPayment, ChargedFirst, Activities, AfterPayment

LEMMA AlwaysPaid == ASSUME KeysOfOneOrder PROVE Spec => []PaidFor
<1>1. TypeOK /\ Positions /\ PaidFor /\ [Next]_vars => PaidFor'
  BY NextPaid
<1>2. QED
  BY AlwaysTyped, InitPaid, <1>1, PTL DEF Spec

\* When no idempotency key is used for two orders, an order is COMPLETED only
\* after the gateway charged for it and its payment was recorded, however often
\* payments are repeated and whatever overlaps, expires, fails, is lost or crashes
\* (processPayment).
THEOREM CompletedWasChargedHolds ==
  ASSUME KeysOfOneOrder
  PROVE  Spec => []CompletedWasCharged
<1>1. PaidFor => CompletedWasCharged
  BY DEF PaidFor, ChargedFirst, CompletedWasCharged
<1>2. QED
  BY <1>1, AlwaysPaid, PTL

LEMMA DistinctAreOfOneOrder == DistinctKeys => KeysOfOneOrder
BY DEF DistinctKeys, KeysOfOneOrder

\* When no key is used twice, the units of an item are confirmed at most once: the
\* one payment row of an order lets one call through (completeOrder).
THEOREM ConfirmedOnceHolds ==
  ASSUME DistinctKeys
  PROVE  Spec => []ConfirmedOnce
<1>1. TypeOK /\ PaidFor => ConfirmedOnce
  <2> SUFFICES ASSUME TypeOK, PaidFor, NEW x \in Orders, NEW i \in 1..Len(Items[x]),
                      NEW d \in Moves("confirm", x, i), NEW e \in Moves("confirm", x, i)
               PROVE  d = e
    BY DEF ConfirmedOnce
  <2>1. /\ d \in ledger /\ d.by.kind = "confirm" /\ d.by.order = x /\ d.by.item = i
        /\ e \in ledger /\ e.by.kind = "confirm" /\ e.by.order = x /\ e.by.item = i
    BY DEF Moves
  <2>2. d.by.who \in Calls /\ e.by.who \in Calls /\ Key(d.by.who) = Key(e.by.who)
    BY <2>1 DEF PaidFor, OwnPayment
  <2>3. d.by.who = e.by.who
    BY <2>2 DEF DistinctKeys
  <2>4. d.by \in Movement /\ e.by \in Movement
    BY <2>1 DEF TypeOK
  <2>5. d.by = e.by
    BY <2>1, <2>3, <2>4 DEF Movement
  <2>6. QED
    BY <2>1, <2>5 DEF PaidFor, OwnPayment
<1>2. QED
  BY <1>1, AlwaysPaid, AlwaysTyped, DistinctAreOfOneOrder, PTL

-----------------------------------------------------------------------------
(***************************************************************************)
(* Refunds, when no idempotency key is used twice and no answer is lost.   *)
(***************************************************************************)
BeforePayment == {"idle", "checkKey", "validate", "charge", "savePayment"}

\* The payment of an order belongs to the one call past the payment step, which
\* alone may complete the order or refund the payment, and does only one of them.
KeepsInv ==
  /\ \A c \in Calls :
       /\ pc[c] \in BeforePayment => PaymentsWith(Key(c)) = {}
       /\ pc[c] \in AfterPayment => /\ paid[c] = Order(c)
                                    /\ payment[Order(c)].status = "COMPLETED"
                                    /\ status[Order(c)] # "COMPLETED"
  /\ CompletedKeepsPayment

LEMMA InitKeeps == Init => KeepsInv
BY OrderFlowAssumption
   DEF Init, KeepsInv, PaymentsWith, CompletedKeepsPayment, Activities, AfterPayment

\* A step that touches no payment, completes no order and moves no call over the
\* payment step.
LEMMA KeepsKept ==
  ASSUME KeepsInv, UNCHANGED <<payment, paid>>,
         \A x \in Orders : status'[x] = "COMPLETED" => status[x] = "COMPLETED",
         \A c \in Calls : /\ pc'[c] \in BeforePayment => pc[c] \in BeforePayment
                          /\ pc'[c] \in AfterPayment => pc[c] \in AfterPayment
  PROVE  KeepsInv'
<1>1. CompletedKeepsPayment'
  BY DEF KeepsInv, CompletedKeepsPayment
<1>2. \A c \in Calls : Order(c) \in Orders
  BY OrderFlowAssumption DEF Order
<1>3. \A c \in Calls : PaymentsWith(Key(c))' = PaymentsWith(Key(c))
  BY DEF PaymentsWith, Key
<1>4. ASSUME NEW c \in Calls
      PROVE  /\ pc'[c] \in BeforePayment => PaymentsWith(Key(c))' = {}
             /\ pc'[c] \in AfterPayment => /\ paid'[c] = Order(c)
                                           /\ payment'[Order(c)].status = "COMPLETED"
                                           /\ status'[Order(c)] # "COMPLETED"
  BY <1>2, <1>3 DEF KeepsInv
<1>5. QED
  BY <1>1, <1>4 DEF KeepsInv, Order

\* The payment row of an order is new, and so is the key.
LEMMA SavePaymentKeeps ==
  ASSUME DistinctKeys, TypeOK, PaidFor, KeepsInv, NEW c \in Calls, SavePayment(c)
  PROVE  KeepsInv'
<1>1. /\ c \in Activities /\ Order(c) \in Orders
      /\ \A d \in Calls : Order(d) \in Orders
      /\ pc \in [Activities -> {"idle"} \cup CallSteps \cup JobSteps \cup Ended]
      /\ payment \in [Orders -> PaymentRow \cup {NoPayment}]
      /\ paid \in [Calls -> Orders \cup {NoPayment}]
      /\ status' = status
  BY OrderFlowAssumption DEF TypeOK, Activities, Order, SavePayment
<1>2. CASE Raise(c, "savePayment") /\ UNCHANGED <<payment, paid>>
  <2>1. pc' = [pc EXCEPT ![c] = "threw"]
    BY <1>2 DEF Raise, Goto, Handler
  <2>2. QED
    BY <1>1, <1>2, <2>1, KeepsKept DEF Activities, AfterPayment, BeforePayment
<1>3. CASE /\ payment[Order(c)] = NoPayment
           /\ payment' = [payment EXCEPT ![Order(c)] = [key |-> Key(c), status |-> "COMPLETED"]]
           /\ paid' = [paid EXCEPT ![c] = Order(c)]
           /\ Take(c, "savePayment", "findOrder", 1)
  <2>1. PICK to \in {"findOrder", "threw"} : pc' = [pc EXCEPT ![c] = to]
    BY <1>3 DEF Take, Raise, Goto, Handler
  <2>2. /\ pc'[c] = to /\ paid'[c] = Order(c)
        /\ \A d \in Calls \ {c} : pc'[d] = pc[d] /\ paid'[d] = paid[d]
    BY <1>1, <1>3, <2>1 DEF Activities
  <2>3. /\ payment'[Order(c)].status = "COMPLETED" /\ payment'[Order(c)].key = Key(c)
        /\ payment'[Order(c)] # NoPayment
        /\ \A x \in Orders \ {Order(c)} : payment'[x] = payment[x]
    BY <1>1, <1>3, OrderFlowAssumption DEF PaymentRow, Key
  <2>4. status[Order(c)] # "COMPLETED"
    BY <1>1, <1>3 DEF PaidFor, ChargedFirst
  <2>5. CompletedKeepsPayment'
    BY <1>1, <2>3, <2>4 DEF KeepsInv, CompletedKeepsPayment
  <2>6. ASSUME NEW d \in Calls
        PROVE  /\ pc'[d] \in BeforePayment => PaymentsWith(Key(d))' = {}
               /\ pc'[d] \in AfterPayment => /\ paid'[d] = Order(d)
                                             /\ payment'[Order(d)].status = "COMPLETED"
                                             /\ status'[Order(d)] # "COMPLETED"
    <3>1. CASE d = c
      BY <1>1, <2>1, <2>2, <2>3, <2>4, <3>1 DEF BeforePayment
    <3>2. CASE d # c
      <4>1. Key(d) # Key(c)
        BY <3>2 DEF DistinctKeys
      <4>2. PaymentsWith(Key(d)) = {} => PaymentsWith(Key(d))' = {}
        BY <2>3, <4>1 DEF PaymentsWith, Key
      <4>3. pc[d] \in AfterPayment => Order(d) # Order(c)
        BY <1>3 DEF PaidFor, OwnPayment
      <4>4. QED
        BY <1>1, <2>2, <2>3, <3>2, <4>2, <4>3 DEF KeepsInv
    <3>3. QED
      BY <3>1, <3>2
  <2>7. QED
    BY <2>5, <2>6 DEF KeepsInv, Order
<1>4. QED
  BY <1>2, <1>3 DEF SavePayment

\* Of the calls past the payment step, only one is for an order.
LEMMA OneForOrder ==
  ASSUME DistinctKeys, PaidFor, NEW c \in Calls, NEW d \in Calls,
         pc[c] \in AfterPayment, pc[d] \in AfterPayment, Order(c) = Order(d)
  PROVE  c = d
BY DEF PaidFor, OwnPayment, DistinctKeys

\* A call that completes the order ends with that.
LEMMA SaveOrderKeeps ==
  ASSUME DistinctKeys, "lost" \notin Troubles, TypeOK, PaidFor, KeepsInv,
         NEW c \in Calls, SaveOrder(c)
  PROVE  KeepsInv'
<1>1. /\ c \in Activities /\ Order(c) \in Orders
      /\ \A d \in Calls : Order(d) \in Orders
      /\ pc \in [Activities -> {"idle"} \cup CallSteps \cup JobSteps \cup Ended]
      /\ status \in [Orders -> Statuses]
      /\ UNCHANGED <<payment, paid>>
  BY OrderFlowAssumption DEF TypeOK, Activities, Order, SaveOrder, callVars
<1>2. /\ pc[c] = "saveOrder" /\ pc' = [pc EXCEPT ![c] = "returned"]
      /\ status' = [status EXCEPT ![Order(c)] = "COMPLETED"]
  BY DEF SaveOrder, Take, Goto
<1>3. /\ pc'[c] = "returned" /\ \A d \in Calls \ {c} : pc'[d] = pc[d]
      /\ \A x \in Orders \ {Order(c)} : status'[x] = status[x]
  BY <1>1, <1>2 DEF Activities
<1>4. pc[c] \in AfterPayment
  BY <1>2 DEF AfterPayment
<1>5. payment[Order(c)] # NoPayment /\ payment[Order(c)].status = "COMPLETED"
  BY <1>4 DEF PaidFor, OwnPayment, KeepsInv
<1>6. CompletedKeepsPayment'
  BY <1>1, <1>3, <1>5 DEF KeepsInv, CompletedKeepsPayment
<1>7. ASSUME NEW d \in Calls
      PROVE  /\ pc'[d] \in BeforePayment => PaymentsWith(Key(d))' = {}
             /\ pc'[d] \in AfterPayment => /\ paid'[d] = Order(d)
                                           /\ payment'[Order(d)].status = "COMPLETED"
                                           /\ status'[Order(d)] # "COMPLETED"
  <2>1. CASE d = c
    BY <1>3, <2>1 DEF BeforePayment, AfterPayment
  <2>2. CASE d # c
    <3>1. pc[d] \in AfterPayment => Order(d) # Order(c)
      BY <1>4, <2>2, OneForOrder
    <3>2. PaymentsWith(Key(d))' = PaymentsWith(Key(d))
      BY <1>1 DEF PaymentsWith, Key
    <3>3. QED
      BY <1>1, <1>3, <2>2, <3>1, <3>2 DEF KeepsInv
  <2>3. QED
    BY <2>1, <2>2
<1>8. QED
  BY <1>6, <1>7 DEF KeepsInv, Order

\* A refund is the last step of its call, of an order that is not COMPLETED.
LEMMA RefundKeeps ==
  ASSUME DistinctKeys, TypeOK, PaidFor, KeepsInv, NEW c \in Calls, Refund(c)
  PROVE  KeepsInv'
<1>1. /\ c \in Activities /\ Order(c) \in Orders
      /\ \A d \in Calls : Order(d) \in Orders
      /\ pc \in [Activities -> {"idle"} \cup CallSteps \cup JobSteps \cup Ended]
      /\ payment \in [Orders -> PaymentRow \cup {NoPayment}]
      /\ UNCHANGED <<status, paid>>
  BY OrderFlowAssumption DEF TypeOK, Activities, Order, Refund
<1>2. /\ pc[c] = "refund" /\ pc' = [pc EXCEPT ![c] = "threw"]
      /\ payment' = payment \/ payment' = [payment EXCEPT ![paid[c]].status = "REFUNDED"]
  BY DEF Refund, Goto
<1>3. pc'[c] = "threw" /\ \A d \in Calls \ {c} : pc'[d] = pc[d]
  BY <1>1, <1>2 DEF Activities
<1>4. pc[c] \in AfterPayment
  BY <1>2 DEF AfterPayment
<1>5. /\ paid[c] = Order(c) /\ status[Order(c)] # "COMPLETED"
      /\ payment[Order(c)] \in PaymentRow
  BY <1>1, <1>4 DEF PaidFor, OwnPayment, KeepsInv
<1>6. \A x \in Orders \ {Order(c)} : payment'[x] = payment[x]
  BY <1>1, <1>2, <1>5
<1>7. /\ payment'[Order(c)] \in PaymentRow
      /\ payment'[Order(c)].key = payment[Order(c)].key
  <2>1. /\ [payment[Order(c)] EXCEPT !.status = "REFUNDED"] \in PaymentRow
        /\ [payment[Order(c)] EXCEPT !.status = "REFUNDED"].key = payment[Order(c)].key
    BY <1>5 DEF PaymentRow
  <2>2. QED
    BY <1>1, <1>2, <1>5, <2>1
<1>8. CompletedKeepsPayment'
  BY <1>1, <1>5, <1>6 DEF KeepsInv, CompletedKeepsPayment
<1>9. ASSUME NEW d \in Calls
      PROVE  /\ pc'[d] \in BeforePayment => PaymentsWith(Key(d))' = {}
             /\ pc'[d] \in AfterPayment => /\ paid'[d] = Order(d)
                                           /\ payment'[Order(d)].status = "COMPLETED"
                                           /\ status'[Order(d)] # "COMPLETED"
  <2>1. CASE d = c
    BY <1>3, <2>1 DEF BeforePayment, AfterPayment
  <2>2. CASE d # c
    <3>1. pc[d] \in AfterPayment => Order(d) # Order(c)
      BY <1>4, <2>2, OneForOrder
    <3>2. \A x \in Orders : payment'[x] # NoPayment => /\ payment[x] # NoPayment
                                                       /\ payment'[x].key = payment[x].key
      BY <1>5, <1>6, <1>7, OrderFlowAssumption
    <3>3. PaymentsWith(Key(d)) = {} => PaymentsWith(Key(d))' = {}
      BY <3>2 DEF PaymentsWith, Key
    <3>4. QED
      BY <1>1, <1>3, <1>6, <2>2, <3>1, <3>3 DEF KeepsInv
  <2>3. QED
    BY <2>1, <2>2
<1>10. QED
  BY <1>8, <1>9 DEF KeepsInv, Order

LEMMA NextKeeps ==
  ASSUME DistinctKeys, "lost" \notin Troubles, TypeOK, PaidFor, KeepsInv, [Next]_vars
  PROVE  KeepsInv'
<1>t. /\ pc \in [Activities -> {"idle"} \cup CallSteps \cup JobSteps \cup Ended]
      /\ status \in [Orders -> Statuses]
      /\ Calls \cap Jobs = {} /\ Activities = Calls \cup Jobs
  BY OrderFlowAssumption DEF TypeOK, Activities
\* An activity that stays on its side of the payment step.
<1>a. ASSUME NEW a \in Activities, NEW to, pc' = [pc EXCEPT ![a] = to],
             to \in AfterPayment => pc[a] \in AfterPayment,
             to \in BeforePayment => a \notin Calls \/ pc[a] \in BeforePayment
      PROVE  \A c \in Calls : /\ pc'[c] \in BeforePayment => pc[c] \in BeforePayment
                              /\ pc'[c] \in AfterPayment => pc[c] \in AfterPayment
  BY <1>a, <1>t
<1>1. ASSUME NEW c \in Calls,
             \/ Call(c) \/ ValidateOrder(c) \/ Charge(c) \/ FindOrder(c)
             \/ ConfirmItem(c) \/ LoadOrder(c) \/ CompensateStock(c) \/ StepFails(c)
      PROVE  KeepsInv'
  <2>1. UNCHANGED <<status, payment, paid>>
    BY <1>1 DEF Call, ValidateOrder, Charge, FindOrder, ConfirmItem, LoadOrder,
               CompensateStock, StepFails, callVars
  <2>2. PICK to \in {"checkKey", "charge", "savePayment", "threw", "returned", "confirm",
                     "loadOrder", "saveOrder", "release", "refund"} :
          /\ pc' = [pc EXCEPT ![c] = to]
          /\ to \in AfterPayment => pc[c] \in AfterPayment
          /\ to \in BeforePayment => pc[c] \in BeforePayment
    BY <1>1 DEF Call, ValidateOrder, Charge, FindOrder, ConfirmItem, LoadOrder,
               CompensateStock, StepFails, Release, Take, Raise, Goto, Handler, CallSteps,
               AfterPayment, BeforePayment
  <2>3. QED
    BY <1>t, <1>a, <2>1, <2>2, KeepsKept
<1>2. ASSUME NEW c \in Calls, CheckKey(c) PROVE KeepsInv'
  <2>1. pc[c] = "checkKey"
    BY <1>2 DEF CheckKey, Goto
  <2>2. PaymentsWith(Key(c)) = {}
    BY <2>1 DEF KeepsInv, BeforePayment
  <2>3. pc' = [pc EXCEPT ![c] = "validate"] /\ UNCHANGED <<status, payment, paid>>
    BY <1>2, <2>2 DEF CheckKey, Goto
  <2>4. QED
    BY <1>t, <1>a, <2>1, <2>3, KeepsKept DEF AfterPayment, BeforePayment
<1>3. ASSUME NEW c \in Calls, SavePayment(c) PROVE KeepsInv'
  BY <1>3, SavePaymentKeeps
<1>4. ASSUME NEW c \in Calls, SaveOrder(c) PROVE KeepsInv'
  BY <1>4, SaveOrderKeeps
<1>5. ASSUME NEW c \in Calls, Refund(c) PROVE KeepsInv'
  BY <1>5, RefundKeeps
<1>6. ASSUME NEW j \in Jobs, StartJob(j) \/ JobStep(j) PROVE KeepsInv'
  <2>1. /\ UNCHANGED <<payment, paid>>
        /\ \A x \in Orders : status'[x] = "COMPLETED" => status[x] = "COMPLETED"
    BY <1>6, <1>t DEF StartJob, JobStep, FindExpired, ReleaseExpired, CancelOrder, callVars
  <2>2. PICK to \in JobSteps \cup {"done"} : pc' = [pc EXCEPT ![j] = to]
    BY <1>6 DEF StartJob, JobStep, FindExpired, ReleaseExpired, CancelOrder, NextOf,
               Release, Goto, JobSteps
  <2>3. to \notin AfterPayment \cup BeforePayment
    BY DEF JobSteps, AfterPayment, BeforePayment
  <2>4. QED
    BY <1>t, <1>a, <2>1, <2>2, <2>3, KeepsKept
<1>7. ASSUME NEW a \in Activities, Crash(a) PROVE KeepsInv'
  <2>1. /\ UNCHANGED <<status, payment, paid>>
        /\ pc' = [pc EXCEPT ![a] = "crashed"]
    BY <1>7 DEF Crash, callVars
  <2>2. QED
    BY <1>t, <1>a, <2>1, KeepsKept DEF AfterPayment, BeforePayment
<1>8. CASE UNCHANGED <<status, payment, paid, pc>>
  BY <1>8, KeepsKept
<1>9. ASSUME NEW x \in Orders, Expire(x) PROVE KeepsInv'
  BY <1>8, <1>9 DEF Expire, callVars
<1>10. CASE UNCHANGED vars
  BY <1>8, <1>10 DEF vars, callVars
<1>11. QED
  BY <1>1, <1>2, <1>3, <1>4, <1>5, <1>6, <1>7, <1>9, <1>10 DEF Next, CallStep

\* When no key is used twice and no answer is lost, no COMPLETED order is
\* refunded: the compensation of a failing call never meets an order that it, or
\* another call, completed (compensate).
THEOREM CompletedKeepsPaymentHolds ==
  ASSUME DistinctKeys, "lost" \notin Troubles
  PROVE  Spec => []CompletedKeepsPayment
<1>1. TypeOK /\ PaidFor /\ KeepsInv /\ [Next]_vars => KeepsInv'
  BY NextKeeps
<1>2. KeepsInv => CompletedKeepsPayment
  BY DEF KeepsInv
<1>3. QED
  BY AlwaysTyped, AlwaysPaid, DistinctAreOfOneOrder, InitKeeps, <1>1, <1>2, PTL DEF Spec
=============================================================================
