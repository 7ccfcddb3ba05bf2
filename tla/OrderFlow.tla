------------------------------ MODULE OrderFlow ------------------------------
(***************************************************************************)
(* What happens to an order after CreateOrder has reserved its stock:      *)
(*   - OrderFacade.completeOrder, a saga of four steps (charge and record  *)
(*     the payment, confirm the stock item by item, complete the order)    *)
(*     with its compensation (release the stock, refund the payment);      *)
(*   - ReleaseExpiredReservationJob, which releases the stock of expired   *)
(*     PENDING orders and cancels them.                                    *)
(*                                                                         *)
(* No lock and no transaction spans two steps: each step is one call to    *)
(* MySQL, to the payment gateway or to a stock use case, and calls and job *)
(* runs interleave between them.  A movement of stock is one step of       *)
(* StockLedger, which StockTx is shown to implement; the ledger records    *)
(* for whom every movement was made.                                       *)
(*                                                                         *)
(* Callers own the orders they pay for, and an order always exists: no     *)
(* code deletes one.  Amounts are constant and left out.                   *)
(***************************************************************************)
EXTENDS StockEntity, Sequences, FiniteSets

CONSTANTS
  Orders, Options, Seed,
  Items,      \* the items of each order, with the option and quantity of each
  Calls,      \* calls of completeOrder
  Input,      \* the order and the idempotency key each call is made with
  Jobs,       \* runs of the job
  Troubles,   \* which troubles can happen, a subset of
              \*   "overlap"  calls and job runs overlap
              \*   "expiry"   a reservation expires while one of them runs
              \*   "error"    a step fails without effect
              \*   "lost"     a step takes effect but its answer is lost
              \*   "crash"    the process dies between two steps
  NoPayment

Activities == Calls \cup Jobs
PaymentRow == [key : {Input[c].key : c \in Calls},
               status : {"COMPLETED", "REFUNDED"}]
Statuses == {"PENDING", "COMPLETED", "CANCELED"}

\* A movement is named by who makes it, for which item of which order.
Movement == [who : Activities, kind : Kinds, order : Orders, item : Nat]

ASSUME OrderFlowAssumption ==
  /\ Items \in [Orders -> Seq([option : Options, qty : Nat])]
  /\ \A x \in Orders : Items[x] # <<>>
  /\ \A c \in Calls : Input[c].order \in Orders
  /\ Calls \cap Jobs = {}
  /\ Seed \in [Options -> StockRow]
  /\ \A o \in Options : Valid(Seed[o]) /\ Balanced(Seed[o])
  /\ NoPayment \notin PaymentRow

VARIABLES
  stock,    \* the committed stock rows
  ledger,   \* history: the movements made (StockLedger)
  status,   \* [Orders -> Statuses]
  expired,  \* the orders whose reservationExpiresAt has passed
  payment,  \* the payment row of each order, if any (orderId is unique)
  charged,  \* history: how often the gateway charged for each order
  pc,       \* where each call and each job run is
  item,     \* the item it is at
  paid,     \* the payment a call goes by, named by the order it belongs to
  current,  \* the order a job run works on
  todo      \* the orders it will work on later

callVars == <<charged, payment, paid>>
jobVars == <<current, todo>>
stockVars == <<stock, ledger>>
vars == <<stockVars, status, expired, callVars, pc, item, jobVars>>

Stock == INSTANCE StockLedger WITH
           Requests <- Movement,
           Quantities <- Nat

CallSteps == {"checkKey", "validate", "charge", "savePayment", "findOrder",
              "confirm", "loadOrder", "saveOrder", "release", "refund"}
JobSteps == {"findExpired", "releaseExpired", "cancel"}
Ended == {"returned", "threw", "done", "crashed"}

Order(c) == Input[c].order
Key(c) == Input[c].key

\* CreateOrder leaves PENDING orders whose units are in the reserved counters
\* of Seed.
Init ==
  /\ Stock!Init
  /\ status = [x \in Orders |-> "PENDING"]
  /\ expired = {}
  /\ payment = [x \in Orders |-> NoPayment]
  /\ charged = [x \in Orders |-> 0]
  /\ pc = [a \in Activities |-> "idle"]
  /\ item = [a \in Activities |-> 1]
  /\ paid = [c \in Calls |-> NoPayment]
  /\ current = [j \in Jobs |-> NoPayment]
  /\ todo = [j \in Jobs |-> {}]

-----------------------------------------------------------------------------
Running(a) == pc[a] \in CallSteps \cup JobSteps
Quiet == \A a \in Activities : ~Running(a)

Goto(a, from, to) == pc[a] = from /\ pc' = [pc EXCEPT ![a] = to]

\* Where completeOrder's catch takes an exception raised at a step: what it
\* compensates depends on the local variables set by then.
Handler(step) ==
  CASE step \in {"checkKey", "validate", "charge", "savePayment"} -> "threw"
    [] step \in {"findOrder", "confirm"} -> "refund"
    [] step \in {"loadOrder", "saveOrder"} -> "release"

\* The step fails, without effect.
Raise(c, from) ==
  /\ Goto(c, from, Handler(from))
  /\ item' = [item EXCEPT ![c] = 1]

\* The step takes effect; its answer arrives, or is lost and reads as a failure.
Take(c, from, to, nextItem) ==
  \/ Goto(c, from, to) /\ item' = [item EXCEPT ![c] = nextItem]
  \/ "lost" \in Troubles /\ Raise(c, from)

\* One movement of stock for an item of order x, on behalf of a.
Op(kind, x, i) ==
  [kind |-> kind, option |-> Items[x][i].option, qty |-> Items[x][i].qty]
Move(a, kind, x, i) ==
  Stock!Apply([who |-> a, kind |-> kind, order |-> x, item |-> i],
              Op(kind, x, i))
Refused(kind, x, i) == ~Allowed(kind, stock[Items[x][i].option], Items[x][i].qty)

-----------------------------------------------------------------------------
Call(c) ==
  /\ "overlap" \in Troubles \/ Quiet
  /\ Goto(c, "idle", "checkKey")
  /\ UNCHANGED <<stockVars, status, expired, callVars, item, jobVars>>

PaymentsWith(key) ==
  {x \in Orders : payment[x] # NoPayment /\ payment[x].key = key}

\* findByIdempotencyKey: a payment already made is returned as it is, whatever
\* its status and its order, and the order checks are skipped.
CheckKey(c) ==
  /\ IF PaymentsWith(Key(c)) = {}
     THEN Goto(c, "checkKey", "validate") /\ UNCHANGED paid
     ELSE /\ Goto(c, "checkKey", "findOrder")
          /\ \E x \in PaymentsWith(Key(c)) : paid' = [paid EXCEPT ![c] = x]
  /\ UNCHANGED <<stockVars, status, expired, charged, payment, item, jobVars>>

\* The order must be PENDING and not expired, as of now.
ValidateOrder(c) ==
  /\ IF status[Order(c)] = "PENDING" /\ Order(c) \notin expired
     THEN Goto(c, "validate", "charge")
     ELSE Goto(c, "validate", "threw")
  /\ UNCHANGED <<stockVars, status, expired, callVars, item, jobVars>>

\* Mutant: success of the response is not looked at.
ChargeIgnoresDecline(c) ==
  /\ Take(c, "charge", "savePayment", 1)
  /\ charged' \in {charged, [charged EXCEPT ![Order(c)] = @ + 1]}
  /\ UNCHANGED <<stockVars, status, expired, payment, paid, jobVars>>

\* paymentAdapter.processPayment: charged, or declined.
Charge(c) ==
  /\ \/ /\ Take(c, "charge", "savePayment", 1)
        /\ charged' = [charged EXCEPT ![Order(c)] = @ + 1]
     \/ Raise(c, "charge") /\ UNCHANGED charged
  /\ UNCHANGED <<stockVars, status, expired, payment, paid, jobVars>>

\* Mutant: the row of the order is overwritten.
SavePaymentUpserts(c) ==
  /\ payment' = [payment EXCEPT ![Order(c)] =
                   [key |-> Key(c), status |-> "COMPLETED"]]
  /\ paid' = [paid EXCEPT ![c] = Order(c)]
  /\ Take(c, "savePayment", "findOrder", 1)
  /\ UNCHANGED <<stockVars, status, expired, charged, jobVars>>

\* paymentRepository.save: an INSERT under two unique constraints.
SavePayment(c) ==
  /\ \/ /\ payment[Order(c)] = NoPayment /\ PaymentsWith(Key(c)) = {}
        /\ payment' = [payment EXCEPT ![Order(c)] =
                         [key |-> Key(c), status |-> "COMPLETED"]]
        /\ paid' = [paid EXCEPT ![c] = Order(c)]
        /\ Take(c, "savePayment", "findOrder", 1)
     \/ /\ payment[Order(c)] # NoPayment \/ PaymentsWith(Key(c)) # {}
        /\ Raise(c, "savePayment")
        /\ UNCHANGED <<payment, paid>>
  /\ UNCHANGED <<stockVars, status, expired, charged, jobVars>>

\* completeOrder loads the order; one already COMPLETED ends the call.
FindOrder(c) ==
  /\ IF status[Order(c)] = "COMPLETED"
     THEN Goto(c, "findOrder", "returned")
     ELSE Goto(c, "findOrder", "confirm")
  /\ UNCHANGED <<stockVars, status, expired, callVars, item, jobVars>>

\* Mutant: off by one.
LastItemEarly(a, x) == item[a] >= Len(Items[x]) - 1

LastItem(a, x) == item[a] = Len(Items[x])

\* ConfirmStockUseCase, one item per step.
ConfirmItem(c) ==
  LET x == Order(c) IN
  /\ \/ /\ Move(c, "confirm", x, item[c])
        /\ IF LastItem(c, x)
           THEN Take(c, "confirm", "loadOrder", 1)
           ELSE Take(c, "confirm", "confirm", item[c] + 1)
     \/ /\ Refused("confirm", x, item[c])
        /\ Raise(c, "confirm")
        /\ UNCHANGED stockVars
  /\ UNCHANGED <<status, expired, callVars, jobVars>>

\* CompleteOrderUseCase loads the order and checks complete().
LoadOrder(c) ==
  /\ IF status[Order(c)] = "PENDING" /\ Order(c) \notin expired
     THEN Goto(c, "loadOrder", "saveOrder")
     ELSE Goto(c, "loadOrder", Handler("loadOrder"))
  /\ UNCHANGED <<stockVars, status, expired, callVars, item, jobVars>>

\* ... and saves it, whatever its row says by now.
SaveOrder(c) ==
  /\ Take(c, "saveOrder", "returned", 1)
  /\ status' = [status EXCEPT ![Order(c)] = "COMPLETED"]
  /\ UNCHANGED <<stockVars, expired, callVars, jobVars>>

-----------------------------------------------------------------------------
\* One call of ReleaseStockUseCase, which logs its errors and returns.
Release(a, x, from, after) ==
  /\ pc[a] = from
  /\ \/ Move(a, "release", x, item[a])
     \/ /\ Refused("release", x, item[a]) \/ "error" \in Troubles
        /\ UNCHANGED stockVars
  /\ IF LastItem(a, x)
     THEN Goto(a, from, after) /\ item' = [item EXCEPT ![a] = 1]
     ELSE Goto(a, from, from) /\ item' = [item EXCEPT ![a] = @ + 1]

\* Mutant: a refused release ends the compensation.
CompensateStockStops(c) ==
  /\ \/ Release(c, Order(c), "release", "refund")
     \/ /\ Refused("release", Order(c), item[c])
        /\ Goto(c, "release", "threw")
        /\ UNCHANGED <<stockVars, item>>
  /\ UNCHANGED <<status, expired, callVars, jobVars>>

\* compensate, first half: only when all items were confirmed.
CompensateStock(c) ==
  /\ Release(c, Order(c), "release", "refund")
  /\ UNCHANGED <<status, expired, callVars, jobVars>>

\* Mutant: the payment gets a status of the order's enum.
RefundAsCanceled(c) ==
  /\ Goto(c, "refund", "threw")
  /\ payment' = [payment EXCEPT ![paid[c]].status = "CANCELED"]
  /\ UNCHANGED <<stockVars, status, expired, charged, paid, item, jobVars>>

\* compensate, second half: the payment row is marked REFUNDED (a no-op when it
\* already is); an error is logged.  The gateway is not called.
Refund(c) ==
  /\ Goto(c, "refund", "threw")
  /\ \/ payment' = [payment EXCEPT ![paid[c]].status = "REFUNDED"]
     \/ "error" \in Troubles /\ UNCHANGED payment
  /\ UNCHANGED <<stockVars, status, expired, charged, paid, item, jobVars>>

\* An infrastructure error at a step of the saga.
StepFails(c) ==
  /\ "error" \in Troubles
  /\ \E step \in CallSteps \ {"release", "refund"} : Raise(c, step)
  /\ UNCHANGED <<stockVars, status, expired, callVars, jobVars>>

-----------------------------------------------------------------------------
StartJob(j) ==
  /\ "overlap" \in Troubles \/ Quiet
  /\ Goto(j, "idle", "findExpired")
  /\ UNCHANGED <<stockVars, status, expired, callVars, item, jobVars>>

\* The job goes on with one of the orders of its list, or ends.
NextOf(j, orders, from) ==
  \/ /\ orders = {}
     /\ Goto(j, from, "done")
     /\ UNCHANGED jobVars
  \/ \E x \in orders :
       /\ Goto(j, from, "releaseExpired")
       /\ current' = [current EXCEPT ![j] = x]
       /\ todo' = [todo EXCEPT ![j] = orders \ {x}]

\* findExpiredPendingOrders: the list is read once.
FindExpired(j) ==
  /\ NextOf(j, {x \in expired : status[x] = "PENDING"}, "findExpired")
  /\ UNCHANGED <<stockVars, status, expired, callVars, item>>

ReleaseExpired(j) ==
  /\ Release(j, current[j], "releaseExpired", "cancel")
  /\ UNCHANGED <<status, expired, callVars, jobVars>>

\* order.cancel() on the entity loaded by FindExpired, which is PENDING, and a
\* save that overwrites the row; an error only moves on to the next order.
CancelOrder(j) ==
  /\ NextOf(j, todo[j], "cancel")
  /\ \/ status' = [status EXCEPT ![current[j]] = "CANCELED"]
     \/ "error" \in Troubles /\ UNCHANGED status
  /\ UNCHANGED <<stockVars, expired, callVars, item>>

-----------------------------------------------------------------------------
Crash(a) ==
  /\ "crash" \in Troubles
  /\ Running(a)
  /\ pc' = [pc EXCEPT ![a] = "crashed"]
  /\ UNCHANGED <<stockVars, status, expired, callVars, item, jobVars>>

\* The ten minutes of a reservation pass.
Expire(x) ==
  /\ x \notin expired
  /\ "expiry" \in Troubles \/ Quiet
  /\ expired' = expired \cup {x}
  /\ UNCHANGED <<stockVars, status, callVars, pc, item, jobVars>>

CallStep(c) ==
  \/ CheckKey(c) \/ ValidateOrder(c) \/ Charge(c) \/ SavePayment(c)
  \/ FindOrder(c) \/ ConfirmItem(c) \/ LoadOrder(c) \/ SaveOrder(c)
  \/ CompensateStock(c) \/ Refund(c) \/ StepFails(c)

JobStep(j) == FindExpired(j) \/ ReleaseExpired(j) \/ CancelOrder(j)

Next ==
  \/ \E c \in Calls : Call(c) \/ CallStep(c)
  \/ \E j \in Jobs : StartJob(j) \/ JobStep(j)
  \/ \E a \in Activities : Crash(a)
  \/ \E x \in Orders : Expire(x)

Spec == Init /\ [][Next]_vars

\* A live process goes on with the call it runs; nothing is assumed of
\* callers, of whoever starts the job, of the clock or of crashes.
FairSpec == Spec /\ \A c \in Calls : WF_vars(CallStep(c))

-----------------------------------------------------------------------------
\* Types of the variables.
TypeOK ==
  /\ stock \in [Options -> StockRow]
  /\ \A e \in ledger : e.by \in Movement /\ e.op \in Stock!Operation
  /\ status \in [Orders -> Statuses]
  /\ expired \subseteq Orders
  /\ payment \in [Orders -> PaymentRow \cup {NoPayment}]
  /\ charged \in [Orders -> Nat]
  /\ pc \in [Activities -> {"idle"} \cup CallSteps \cup JobSteps \cup Ended]
  /\ item \in [Activities -> Nat]
  /\ paid \in [Calls -> Orders \cup {NoPayment}]
  /\ current \in [Jobs -> Orders \cup {NoPayment}]
  /\ todo \in [Jobs -> SUBSET Orders]

Moves(kind, x, i) ==
  {e \in ledger : e.by.kind = kind /\ e.by.order = x /\ e.by.item = i}

\* An order is COMPLETED only after the units of every one of its items have
\* been moved from reserved to sold for it, whatever fails, overlaps or
\* crashes.
CompletedIsSold ==
  \A x \in Orders :
    status[x] = "COMPLETED" =>
      \A i \in 1..Len(Items[x]) : Moves("confirm", x, i) # {}

\* An order is COMPLETED only after the gateway charged for it and its payment
\* row was written, also when it is a retry with the same key that completes it.
\* This needs idempotency keys that belong to one order.
CompletedWasCharged ==
  \A x \in Orders :
    status[x] = "COMPLETED" => charged[x] > 0 /\ payment[x] # NoPayment

\* The units of an item are confirmed at most once, as long as every call has a
\* key of its own: a retry with the same key confirms again.
ConfirmedOnce ==
  \A x \in Orders : \A i \in 1..Len(Items[x]) :
    \A d, e \in Moves("confirm", x, i) : d = e

\* The payment of a COMPLETED order is not refunded, as long as every call has a
\* key of its own: a retry with the key of a refunded payment completes its order.
CompletedKeepsPayment ==
  \A x \in Orders :
    status[x] = "COMPLETED" => payment[x] # NoPayment /\ payment[x].status = "COMPLETED"

\* The customer is charged at most once for an order.
ChargedOnce == \A x \in Orders : charged[x] <= 1

-----------------------------------------------------------------------------
(***************************************************************************)
(* The parts of the inductive invariants of the proofs.                    *)
(***************************************************************************)
AfterPayment == {"findOrder", "confirm", "loadOrder", "saveOrder", "release",
                 "refund"}

\* Every activity is at an item of its order, and goes by a payment that exists.
Positions ==
  /\ \A c \in Calls :
       /\ pc[c] \notin JobSteps
       /\ item[c] \in 1..Len(Items[Order(c)])
       /\ pc[c] \notin {"confirm", "release", "crashed"} => item[c] = 1
       /\ pc[c] \in AfterPayment => paid[c] \in Orders /\ payment[paid[c]] # NoPayment
  /\ \A j \in Jobs :
       /\ pc[j] \notin CallSteps
       /\ pc[j] \notin {"releaseExpired", "crashed"} => item[j] = 1
       /\ pc[j] \in {"releaseExpired", "cancel"} => current[j] \in Orders
       /\ pc[j] = "releaseExpired" => item[j] \in 1..Len(Items[current[j]])

\* A call has confirmed the items before the one it is at.
SoldSoFar ==
  \A c \in Calls : \A i \in 1..Len(Items[Order(c)]) :
    \/ pc[c] = "confirm" /\ i < item[c]
    \/ pc[c] \in {"loadOrder", "saveOrder"}
    => Moves("confirm", Order(c), i) # {}

\* Keys that are used for one order, however often, and keys never used twice.
KeysOfOneOrder == \A c, d \in Calls : Key(c) = Key(d) => Order(c) = Order(d)
DistinctKeys == \A c, d \in Calls : Key(c) = Key(d) => c = d

\* The payment row of an order has the key of one of its calls, and only calls
\* with that key get past the payment step.
OwnPayment ==
  /\ \A x \in Orders :
       payment[x] # NoPayment =>
         \E c \in Calls : Order(c) = x /\ Key(c) = payment[x].key
  /\ \A c \in Calls :
       pc[c] \in AfterPayment =>
         payment[Order(c)] # NoPayment /\ payment[Order(c)].key = Key(c)
  /\ \A e \in ledger :
       e.by.kind = "confirm" =>
         /\ e.by.who \in Calls
         /\ payment[e.by.order] # NoPayment
         /\ payment[e.by.order].key = Key(e.by.who)
  /\ \A d, e \in ledger : d.by = e.by => d = e

\* Charging comes before the payment row, the row before completion.
ChargedFirst ==
  /\ \A c \in Calls : pc[c] = "savePayment" => charged[Order(c)] > 0
  /\ \A x \in Orders : payment[x] # NoPayment => charged[x] > 0
  /\ \A x \in Orders : status[x] = "COMPLETED" => payment[x] # NoPayment

-----------------------------------------------------------------------------
\* A call that starts compensating ends with its payment refunded, unless its
\* process dies.
Compensated ==
  \A c \in Calls :
    pc[c] \in {"release", "refund"} ~>
      \/ pc[c] = "crashed"
      \/ /\ pc[c] = "threw"
         /\ paid[c] # NoPayment
         /\ payment[paid[c]].status = "REFUNDED"
=============================================================================
