--------------------------- MODULE StockTxProofs ---------------------------
(***************************************************************************)
(* Proofs about StockTx, for any number of requests, products and options, *)
(* any quantities and any valid, balanced seed.                            *)
(***************************************************************************)
EXTENDS StockTx, BaseLemmas

\* Every behaviour keeps the variables in their types.
LEMMA InitTypeOK == Init => TypeOK
BY StockTxAssumption
   DEF Init, TypeOK, NoAggregate, ZeroRow, StockRow, Steps, InTx, AfterRowLock

LEMMA LoadedType ==
  ASSUME TypeOK, NEW r \in Requests
  PROVE  Loaded(r) \in [Options -> StockRow]
BY DEF TypeOK, Loaded, ZeroRow, StockRow

LEMMA NextTypeOK == TypeOK /\ [Next]_vars => TypeOK'
<1> SUFFICES ASSUME TypeOK, [Next]_vars PROVE TypeOK'
  OBVIOUS
<1> USE DEF TypeOK, Goto, Option, Product, Operation, Steps, InTx,
            AfterRowLock, Terminal
<1>0. NoAggregate \in [Options -> StockRow]
  BY DEF NoAggregate, ZeroRow, StockRow
<1>1. ASSUME NEW r \in Requests, Call(r) PROVE TypeOK'
  BY <1>1 DEF Call
<1>2. ASSUME NEW r \in Requests, Acquire(r) PROVE TypeOK'
  BY <1>2 DEF Acquire
<1>3. ASSUME NEW r \in Requests, Wait(r) PROVE TypeOK'
  BY <1>3 DEF Wait
<1>4. ASSUME NEW r \in Requests, GiveUp(r) PROVE TypeOK'
  BY <1>4, ZenonT(30) DEF GiveUp, Thrown
<1>5. ASSUME NEW r \in Requests, LockRow(r) PROVE TypeOK'
  BY <1>5 DEF LockRow
<1>6. ASSUME NEW r \in Requests, ReadOptions(r) PROVE TypeOK'
  <2>1. Loaded(r) \in [Options -> StockRow]
    BY LoadedType
  <2> QED
    BY <1>6, <2>1 DEF ReadOptions
<1>7. ASSUME NEW r \in Requests, DomainOp(r) PROVE TypeOK'
  <2>1. /\ req[r].kind \in Kinds
        /\ req[r].qty \in Int
        /\ aggregate[r][Option(r)] \in StockRow
        /\ Allowed(req[r].kind, aggregate[r][Option(r)], req[r].qty)
    BY <1>7, StockTxAssumption DEF DomainOp
  <2>2. Moved(req[r].kind, aggregate[r][Option(r)], req[r].qty) \in StockRow
    BY <2>1, MovedIsValid
  <2> QED
    BY <1>7, <2>2 DEF DomainOp
<1>8. ASSUME NEW r \in Requests, SaveAndCommit(r) PROVE TypeOK'
  <2>1. pc' \in [Requests -> Steps]
    BY <1>8 DEF SaveAndCommit
  <2>2. /\ Written(r) \in [Options -> StockRow]
        /\ Unlocked(r) \in [Products -> Requests \cup {None}]
    BY DEF Written, Unlocked
  <2> QED
    BY <1>8, <1>0, <2>1, <2>2 DEF SaveAndCommit
<1>9. ASSUME NEW r \in Requests, Rollback(r) PROVE TypeOK'
  BY <1>9, <1>0 DEF Rollback, Unlocked
<1>10. ASSUME NEW r \in Requests, ReleaseLock(r) PROVE TypeOK'
  BY <1>10, SMTT(30) DEF ReleaseLock, KeyDeleted, Thrown
<1>11. ASSUME NEW r \in Requests, InvalidateProductCache(r) PROVE TypeOK'
  BY <1>11 DEF InvalidateProductCache, Thrown
<1>12. ASSUME NEW r \in Requests, Crash(r) PROVE TypeOK'
  BY <1>12, <1>0 DEF Crash, Unlocked
<1>13. ASSUME NEW o \in Options, Expire(o) PROVE TypeOK'
  BY <1>13 DEF Expire
<1>14. CASE UNCHANGED vars
  BY <1>14 DEF vars
<1>15. QED
  BY <1>1, <1>2, <1>3, <1>4, <1>5, <1>6, <1>7, <1>8, <1>9, <1>10, <1>11,
     <1>12, <1>13, <1>14 DEF Next, Run

THEOREM TypeCorrect == Spec => []TypeOK
BY InitTypeOK, NextTypeOK, PTL DEF Spec

-----------------------------------------------------------------------------
\* The steps that open, extend or end no transaction and change no row.
LEMMA OutsideTx ==
  ASSUME Inv, TypeOK', UNCHANGED <<stock, rowLock, req, aggregate, committed>>,
         \A r \in Requests :
           pc'[r] # pc[r] =>
             /\ pc[r] \notin AfterRowLock
             /\ pc'[r] \notin AfterRowLock
             /\ r \in committed =>
                  pc'[r] \in {"unlock", "unlockFailed", "invalidate"} \cup Terminal
             /\ \/ pc'[r] = "invalidate"
                \/ pc'[r] = "returned" /\ req[r].kind # "release"
                => r \in committed
             /\ pc'[r] # "unlock"
  PROVE  Inv'
<1> USE DEF Inv
<1>0. \A r \in Requests :
        /\ pc'[r] \in AfterRowLock \/ pc[r] \in AfterRowLock => pc'[r] = pc[r]
        /\ Product(r)' = Product(r)
        /\ Loaded(r)' = Loaded(r)
        /\ Option(r)' = Option(r)
  BY DEF Product, Option, Loaded
<1>1. RowLockHeld'
  BY <1>0 DEF RowLockHeld, AfterRowLock
<1>2. FreshAggregate'
  BY <1>0 DEF FreshAggregate, AfterRowLock
<1>3. CommittedOnce'
  BY DEF CommittedOnce, TypeOK
<1>4. Conservation'
  BY DEF Conservation, Ledger!Conservation
<1>5. ReturnedIsCommitted'
  BY DEF ReturnedIsCommitted, TypeOK
<1>6. QED
  BY <1>1, <1>2, <1>3, <1>4, <1>5

\* The steps that end r's transaction without writing.
LEMMA TxAbandoned ==
  ASSUME Inv, TypeOK', NEW r \in Requests,
         UNCHANGED <<stock, req, committed>>,
         rowLock' = Unlocked(r),
         aggregate' = [aggregate EXCEPT ![r] = NoAggregate],
         NEW to \in {"unlockFailed", "crashed"},
         pc' = [pc EXCEPT ![r] = to],
         r \in committed => to \in Terminal
  PROVE  Inv'
<1> USE DEF Inv
<1>0. \A q \in Requests :
        /\ pc'[q] \in AfterRowLock => q # r /\ pc'[q] = pc[q]
        /\ q # r => pc'[q] = pc[q] /\ aggregate'[q] = aggregate[q]
        /\ Product(q)' = Product(q)
        /\ Loaded(q)' = Loaded(q)
        /\ Option(q)' = Option(q)
  BY DEF Product, Option, Loaded, TypeOK, AfterRowLock
<1>1. RowLockHeld'
  <2>1. \A p \in Products : rowLock'[p] = IF rowLock[p] = r THEN None ELSE rowLock[p]
    BY DEF Unlocked
  <2>2. QED
    BY <1>0, <2>1, StockTxAssumption DEF RowLockHeld, AfterRowLock
<1>2. FreshAggregate'
  BY <1>0 DEF FreshAggregate, AfterRowLock
<1>3. CommittedOnce'
  BY DEF CommittedOnce, TypeOK
<1>4. Conservation'
  BY DEF Conservation, Ledger!Conservation
<1>5. ReturnedIsCommitted'
  BY DEF ReturnedIsCommitted, TypeOK
<1>6. QED
  BY <1>1, <1>2, <1>3, <1>4, <1>5

\* The rows a commit writes: the movement of one option, at the rows of now.
LEMMA CommitIsOneMovement ==
  ASSUME Inv, NEW r \in Requests, pc[r] = "save"
  PROVE  /\ Allowed(req[r].kind, stock[Option(r)], req[r].qty)
         /\ Written(r) = [stock EXCEPT ![Option(r)] =
                            Moved(req[r].kind, @, req[r].qty)]
<1>1. /\ Option(r) \in Options
      /\ stock \in [Options -> StockRow]
  BY DEF Inv, TypeOK, Option, Operation
<1>2. /\ Allowed(req[r].kind, stock[Option(r)], req[r].qty)
      /\ aggregate[r] = [Loaded(r) EXCEPT ![Option(r)] =
                           Moved(req[r].kind, @, req[r].qty)]
  BY DEF Inv, FreshAggregate
<1>3. ASSUME NEW o \in Options
      PROVE  Written(r)[o] =
               [stock EXCEPT ![Option(r)] = Moved(req[r].kind, @, req[r].qty)][o]
  BY <1>1, <1>2 DEF Written, Loaded, Product
<1>4. QED
  BY <1>1, <1>2, <1>3 DEF Written

LEMMA CommitKeepsInv ==
  ASSUME Inv, TypeOK', NEW r \in Requests, SaveAndCommit(r)
  PROVE  Inv'
<1> USE DEF Inv
<1>1. /\ pc[r] = "save"
      /\ \/ pc' = [pc EXCEPT ![r] = "unlock"]
         \/ pc' = [pc EXCEPT ![r] = "unlockFailed"]
      /\ stock' = Written(r)
      /\ rowLock' = Unlocked(r)
      /\ committed' = committed \cup {r}
      /\ aggregate' = [aggregate EXCEPT ![r] = NoAggregate]
      /\ UNCHANGED <<lock, req>>
  BY DEF SaveAndCommit, Goto
<1>2. RowLockHeld'
  <2>1. \A q \in Requests :
          /\ Product(q)' = Product(q)
          /\ pc'[q] \in AfterRowLock => q # r /\ pc'[q] = pc[q]
          /\ q # r => pc'[q] = pc[q]
    BY <1>1 DEF Product, Option, TypeOK, AfterRowLock
  <2>2. \A p \in Products : rowLock'[p] = IF rowLock[p] = r THEN None ELSE rowLock[p]
    BY <1>1 DEF Unlocked
  <2>3. QED
    BY <2>1, <2>2, StockTxAssumption DEF RowLockHeld, AfterRowLock
<1>3. FreshAggregate'
  \* A second transaction past its read would hold the row lock of another
  \* product, whose rows Written(r) leaves alone.
  <2>1. ASSUME NEW q \in Requests, pc'[q] \in {"domainOp", "save"}
        PROVE  /\ q # r
               /\ pc[q] = pc'[q]
               /\ Product(q) # Product(r)
    <3>1. q # r /\ pc[q] = pc'[q]
      BY <1>1, <2>1 DEF TypeOK
    <3>2. Product(r) \in Products
      BY StockTxAssumption DEF Product, Option, TypeOK, Operation
    <3>3. QED
      BY <1>1, <2>1, <3>1, <3>2 DEF RowLockHeld, AfterRowLock
  <2>2. ASSUME NEW q \in Requests, pc'[q] \in {"domainOp", "save"}
        PROVE  /\ Loaded(q)' = Loaded(q)
               /\ stock'[Option(q)] = stock[Option(q)]
               /\ Option(q)' = Option(q)
               /\ aggregate'[q] = aggregate[q]
    BY <1>1, <2>1, <2>2
       DEF Loaded, Written, Product, Option, TypeOK, Operation
  <2>3. QED
    BY <1>1, <2>1, <2>2 DEF FreshAggregate
<1>4. CommittedOnce'
  BY <1>1 DEF CommittedOnce, TypeOK
<1>5. Conservation'
  <2>1. /\ Option(r) \in Options
        /\ req[r].kind \in Kinds
        /\ req[r].qty \in Int
        /\ stock[Option(r)] \in StockRow
    BY StockTxAssumption DEF TypeOK, Option, Operation
  <2>2. /\ Allowed(req[r].kind, stock[Option(r)], req[r].qty)
        /\ stock' = [stock EXCEPT ![Option(r)] =
                       Moved(req[r].kind, @, req[r].qty)]
    BY <1>1, CommitIsOneMovement
  <2>3. \A o \in Options : Valid(stock[o]) /\ Balanced(stock[o])
    BY DEF Conservation, Ledger!Conservation, Ledger!Valid, Ledger!Balanced,
           Valid, Balanced
  <2>4. \A o \in Options : Valid(stock'[o]) /\ Balanced(stock'[o])
    BY <2>1, <2>2, <2>3, MovedIsValid DEF TypeOK
  <2>5. QED
    BY <2>4 DEF Conservation, Ledger!Conservation, Ledger!Valid,
                Ledger!Balanced, Valid, Balanced
<1>6. ReturnedIsCommitted'
  BY <1>1 DEF ReturnedIsCommitted, TypeOK
<1>7. QED
  BY <1>2, <1>3, <1>4, <1>5, <1>6

LEMMA InitInv == Init => Inv
<1> SUFFICES ASSUME Init PROVE Inv
  OBVIOUS
<1>1. TypeOK
  BY InitTypeOK
<1>2. RowLockHeld /\ FreshAggregate /\ CommittedOnce /\ ReturnedIsCommitted
  BY StockTxAssumption
     DEF Init, RowLockHeld, FreshAggregate, CommittedOnce, ReturnedIsCommitted,
         AfterRowLock
<1>3. Conservation
  BY StockTxAssumption DEF Init, Conservation, Ledger!Conservation,
     Ledger!Valid, Ledger!Balanced, Valid, Balanced
<1>4. QED
  BY <1>1, <1>2, <1>3 DEF Inv

\* One step per action; most leave the transactions alone or abandon one.
LEMMA NextInv == Inv /\ [Next]_vars => Inv'
<1> SUFFICES ASSUME Inv, [Next]_vars PROVE Inv'
  OBVIOUS
<1>0. TypeOK'
  BY NextTypeOK DEF Inv
<1>a. TypeOK /\ CommittedOnce /\ ReturnedIsCommitted
  BY DEF Inv
<1> USE DEF Goto, AfterRowLock, InTx, Terminal
<1>1. ASSUME NEW r \in Requests, Call(r) PROVE Inv'
  BY <1>0, <1>a, <1>1, OutsideTx DEF Call, TypeOK, CommittedOnce
<1>2. ASSUME NEW r \in Requests, Acquire(r) PROVE Inv'
  BY <1>0, <1>a, <1>2, OutsideTx DEF Acquire, TypeOK, CommittedOnce
<1>3. ASSUME NEW r \in Requests, Wait(r) PROVE Inv'
  BY <1>0, <1>a, <1>3, OutsideTx DEF Wait, TypeOK, CommittedOnce
<1>4. ASSUME NEW r \in Requests, GiveUp(r) PROVE Inv'
  BY <1>0, <1>a, <1>4, OutsideTx DEF GiveUp, Thrown, TypeOK
<1>5. ASSUME NEW r \in Requests, LockRow(r) PROVE Inv'
  <2>1. RowLockHeld'
    BY <1>5, <1>a, StockTxAssumption
       DEF Inv, LockRow, RowLockHeld, Product, Option, TypeOK, Operation
  <2>2. FreshAggregate'
    BY <1>5, <1>a DEF Inv, LockRow, FreshAggregate, Loaded, Product, Option, TypeOK
  <2>3. CommittedOnce'
    BY <1>5, <1>a DEF LockRow, CommittedOnce, TypeOK
  <2>4. Conservation'
    BY <1>5 DEF Inv, LockRow, Conservation, Ledger!Conservation
  <2>5. ReturnedIsCommitted'
    BY <1>5, <1>a DEF Inv, LockRow, ReturnedIsCommitted, TypeOK
  <2>6. QED
    BY <1>0, <2>1, <2>2, <2>3, <2>4, <2>5 DEF Inv
<1>6. ASSUME NEW r \in Requests, ReadOptions(r) PROVE Inv'
  <2>1. RowLockHeld'
    BY <1>6, <1>a, StockTxAssumption
       DEF Inv, ReadOptions, RowLockHeld, Product, Option, TypeOK
  <2>2. FreshAggregate'
    BY <1>6, <1>a DEF Inv, ReadOptions, FreshAggregate, Loaded, Product, Option, TypeOK
  <2>3. CommittedOnce'
    BY <1>6, <1>a DEF ReadOptions, CommittedOnce, TypeOK
  <2>4. Conservation'
    BY <1>6 DEF Inv, ReadOptions, Conservation, Ledger!Conservation
  <2>5. ReturnedIsCommitted'
    BY <1>6, <1>a DEF Inv, ReadOptions, ReturnedIsCommitted, TypeOK
  <2>6. QED
    BY <1>0, <2>1, <2>2, <2>3, <2>4, <2>5 DEF Inv
<1>7. ASSUME NEW r \in Requests, DomainOp(r) PROVE Inv'
  <2>1. RowLockHeld'
    BY <1>7, <1>a, StockTxAssumption
       DEF Inv, DomainOp, RowLockHeld, Product, Option, TypeOK
  <2>2. FreshAggregate'
    <3>1. \A q \in Requests :
            /\ q # r => pc'[q] = pc[q] /\ aggregate'[q] = aggregate[q]
            /\ Loaded(q)' = Loaded(q)
            /\ Option(q)' = Option(q)
      BY <1>7, <1>a DEF DomainOp, Loaded, Product, Option, TypeOK
    <3>2. /\ pc'[r] = "save"
          /\ Option(r) \in Options
          /\ aggregate[r] = Loaded(r)
          /\ Loaded(r)[Option(r)] = stock[Option(r)]
      BY <1>7, <1>a
         DEF Inv, DomainOp, FreshAggregate, Loaded, Product, Option, TypeOK, Operation
    <3>3. /\ Allowed(req[r].kind, stock[Option(r)], req[r].qty)
          /\ aggregate'[r] = [Loaded(r) EXCEPT ![Option(r)] =
                                Moved(req[r].kind, @, req[r].qty)]
      BY <1>7, <1>a, <3>2 DEF DomainOp, TypeOK
    <3>4. UNCHANGED <<stock, req>>
      BY <1>7 DEF DomainOp
    <3>5. QED
      BY <3>1, <3>2, <3>3, <3>4 DEF Inv, FreshAggregate
  <2>3. CommittedOnce'
    BY <1>7, <1>a DEF DomainOp, CommittedOnce, TypeOK
  <2>4. Conservation'
    BY <1>7 DEF Inv, DomainOp, Conservation, Ledger!Conservation
  <2>5. ReturnedIsCommitted'
    BY <1>7, <1>a DEF Inv, DomainOp, ReturnedIsCommitted, TypeOK
  <2>6. QED
    BY <1>0, <2>1, <2>2, <2>3, <2>4, <2>5 DEF Inv
<1>8. ASSUME NEW r \in Requests, SaveAndCommit(r) PROVE Inv'
  BY <1>0, <1>8, CommitKeepsInv
<1>9. ASSUME NEW r \in Requests, Rollback(r) PROVE Inv'
  BY <1>0, <1>a, <1>9, TxAbandoned DEF Rollback, Steps, CommittedOnce
<1>10. ASSUME NEW r \in Requests, ReleaseLock(r) PROVE Inv'
  BY <1>0, <1>a, <1>10, OutsideTx
     DEF ReleaseLock, Thrown, ReturnedIsCommitted, TypeOK
<1>11. ASSUME NEW r \in Requests, InvalidateProductCache(r) PROVE Inv'
  BY <1>0, <1>a, <1>11, OutsideTx
     DEF InvalidateProductCache, Thrown, ReturnedIsCommitted, TypeOK
<1>12. ASSUME NEW r \in Requests, Crash(r) PROVE Inv'
  BY <1>0, <1>a, <1>12, TxAbandoned DEF Crash, Steps
<1>13. ASSUME NEW o \in Options, Expire(o) PROVE Inv'
  BY <1>0, <1>13, OutsideTx DEF Expire
<1>14. CASE UNCHANGED vars
  BY <1>0, <1>14, OutsideTx DEF vars
<1>15. QED
  BY <1>1, <1>2, <1>3, <1>4, <1>5, <1>6, <1>7, <1>8, <1>9, <1>10, <1>11,
     <1>12, <1>13, <1>14 DEF Next, Run

THEOREM Invariance == Spec => []Inv
BY InitInv, NextInv, PTL DEF Spec

\* The counters of every option add up to its total and none is negative,
\* whatever the calls, their interleaving, their crashes and the expiry of
\* their Redis locks.
THEOREM ConservationHolds == Spec => []Conservation
<1>1. Inv => Conservation
  BY DEF Inv
<1>2. QED
  BY Invariance, <1>1, PTL

\* Between its read and its commit a call's copy of the product is never stale:
\* no update of the option or of a sibling is lost.
THEOREM FreshAggregateHolds == Spec => []FreshAggregate
<1>1. Inv => FreshAggregate
  BY DEF Inv
<1>2. QED
  BY Invariance, <1>1, PTL

\* A reserve or confirm call that returned normally has moved its units.
THEOREM ReturnedIsCommittedHolds == Spec => []ReturnedIsCommitted
<1>1. Inv => ReturnedIsCommitted
  BY DEF Inv
<1>2. QED
  BY Invariance, <1>1, PTL

-----------------------------------------------------------------------------
\* A commit is the atomic movement of StockLedger, for a call not applied yet.
LEMMA CommitRefines ==
  ASSUME Inv, NEW r \in Requests, SaveAndCommit(r)
  PROVE  Ledger!Next
<1> DEFINE entries == {[by |-> q, op |-> req[q]] : q \in committed}
<1>1. /\ pc[r] = "save"
      /\ stock' = Written(r)
      /\ committed' = committed \cup {r}
      /\ req' = req
  BY DEF SaveAndCommit, Goto
<1>2. r \notin committed
  BY <1>1 DEF Inv, CommittedOnce, Terminal
<1>3. \A e \in entries : e.by # r
  BY <1>2
<1>4. entries' = entries \cup {[by |-> r, op |-> req[r]]}
  BY <1>1
<1>5. /\ Allowed(req[r].kind, stock[Option(r)], req[r].qty)
      /\ stock' = [stock EXCEPT ![Option(r)] =
                     Moved(req[r].kind, @, req[r].qty)]
  BY <1>1, CommitIsOneMovement
<1>6. Ledger!Apply(r, req[r])
  BY <1>3, <1>4, <1>5
     DEF Ledger!Apply, Ledger!Allowed, Ledger!Source, Ledger!Moved,
         Allowed, Source, Moved, Option
<1>7. req[r] \in Ledger!Operation
  BY DEF Inv, TypeOK, Operation, Ledger!Operation, Kinds, Ledger!Kinds
<1>8. QED
  BY <1>6, <1>7 DEF Ledger!Next, Ledger!Apply

\* Row-locked transactions implement the ledger of atomic movements: every step
\* is one movement applied to the current rows, or changes no row.
THEOREM RefinesLedger == Spec => ImplementsLedger
<1>1. Init => Ledger!Init
  BY DEF Init, Ledger!Init
<1>2. Inv /\ [Next]_vars => [Ledger!Next]_(Ledger!vars)
  <2> SUFFICES ASSUME Inv, [Next]_vars PROVE [Ledger!Next]_(Ledger!vars)
    OBVIOUS
  <2>1. ASSUME NEW r \in Requests, SaveAndCommit(r)
        PROVE  Ledger!Next
    BY <2>1, CommitRefines
  <2>2. CASE UNCHANGED <<stock, req, committed>>
    BY <2>2 DEF Ledger!vars
  <2>3. QED
    BY <2>1, <2>2
       DEF Next, Run, vars, Call, Acquire, Wait, GiveUp, LockRow,
           ReadOptions, DomainOp, Rollback, ReleaseLock,
           InvalidateProductCache, Crash, Expire
<1>3. QED
  BY <1>1, <1>2, Invariance, PTL DEF Spec, ImplementsLedger, Ledger!Spec

-----------------------------------------------------------------------------
(***************************************************************************)
(* The counters are the seed plus the committed movements.                 *)
(***************************************************************************)
\* The ledger of some calls, and the units of one kind and option in it.
Entries(done, ops) == {[by |-> r, op |-> ops[r]] : r \in done}
Movements(done, ops, o, kind) ==
  {e \in Entries(done, ops) : e.op.option = o /\ e.op.kind = kind}
UnitsMoved(done, ops, o, kind) ==
  SumFunction([e \in Movements(done, ops, o, kind) |-> e.op.qty])

\* The calls that committed are finitely many, and each moved something.
AccountingInv ==
  /\ IsFiniteSet(committed)
  /\ \A r \in committed : req[r].qty > 0
  /\ Accounting

LEMMA LedgerUnits ==
  ASSUME NEW o, NEW kind
  PROVE  /\ Ledger!Units(o, kind) = UnitsMoved(committed, req, o, kind)
         /\ Ledger!Units(o, kind)' = UnitsMoved(committed', req', o, kind)
BY DEF Ledger!Units, Ledger!SumFunction, SumFunction, Ledger!SumFunctionOnSet,
       SumFunctionOnSet, Ledger!FoldFunctionOnSet, FoldFunctionOnSet,
       Ledger!MapThenFoldSet, MapThenFoldSet, UnitsMoved, Movements, Entries

LEMMA EntriesCounted ==
  ASSUME NEW ops \in [Requests -> Operation], NEW done \in SUBSET Requests,
         IsFiniteSet(done), \A r \in done : ops[r].qty > 0
  PROVE  /\ IsFiniteSet(Entries(done, ops))
         /\ \A e \in Entries(done, ops) : e.op.qty \in Nat
<1>1. IsFiniteSet(Entries(done, ops))
  <2> DEFINE f == [r \in done |-> [by |-> r, op |-> ops[r]]]
  <2>1. f \in Surjection(done, Entries(done, ops))
    BY DEF Surjection, Entries
  <2>2. QED
    BY <2>1, FS_Surjection
<1>2. ASSUME NEW r \in done
      PROVE  ops[r].qty \in Nat
  <2>1. ops[r].qty \in Quantities /\ ops[r].qty > 0
    BY DEF Operation
  <2>2. ops[r].qty \in Int
    BY <2>1, StockTxAssumption
  <2>3. QED
    BY <2>1, <2>2
<1>3. QED
  BY <1>1, <1>2 DEF Entries

\* One call more adds its units to its own option and kind.
LEMMA UnitsOfOneMore ==
  ASSUME NEW ops \in [Requests -> Operation], NEW done \in SUBSET Requests,
         IsFiniteSet(done), NEW r \in Requests \ done,
         \A q \in done : ops[q].qty > 0, ops[r].qty > 0,
         NEW o \in Options, NEW kind \in Kinds
  PROVE  /\ UnitsMoved(done, ops, o, kind) \in Nat
         /\ ops[r].qty \in Nat
         /\ UnitsMoved(done \cup {r}, ops, o, kind) =
              UnitsMoved(done, ops, o, kind)
                + (IF ops[r].option = o /\ ops[r].kind = kind THEN ops[r].qty ELSE 0)
<1> DEFINE all == done \cup {r}
           e == [by |-> r, op |-> ops[r]]
           M == Movements(done, ops, o, kind)
           N == Movements(all, ops, o, kind)
           f == [m \in M |-> m.op.qty]
           g == [m \in N |-> m.op.qty]
<1>1. IsFiniteSet(all)
  BY FS_AddElement
<1>2. IsFiniteSet(Entries(all, ops)) /\ \A m \in Entries(all, ops) : m.op.qty \in Nat
  BY <1>1, EntriesCounted
<1>3. /\ M \subseteq N /\ N \subseteq Entries(all, ops)
      /\ e \in Entries(all, ops) /\ e \notin M
      /\ N = IF ops[r].option = o /\ ops[r].kind = kind THEN M \cup {e} ELSE M
  <2>1. Entries(all, ops) = Entries(done, ops) \cup {e}
    BY DEF Entries
  <2>2. e \notin Entries(done, ops)
    BY DEF Entries
  <2>3. e.op = ops[r]
    OBVIOUS
  <2> HIDE DEF e, all
  <2>4. QED
    BY <2>1, <2>2, <2>3 DEF Movements
<1>4. IsFiniteSet(N) /\ IsFiniteSet(M)
  BY <1>2, <1>3, FS_Subset
<1>5. /\ \A m \in N : g[m] \in Nat /\ g[m] = m.op.qty
      /\ \A m \in M : f[m] \in Nat /\ g[m] = f[m]
  BY <1>2, <1>3
<1>6. /\ UnitsMoved(done, ops, o, kind) = SumFunctionOnSet(f, M)
      /\ UnitsMoved(all, ops, o, kind) = SumFunctionOnSet(g, N)
  BY DEF UnitsMoved, SumFunction
<1>7. ops[r].qty \in Nat
  <2>1. e.op.qty \in Nat
    BY <1>2, <1>3
  <2>2. QED
    BY <2>1
<1>e. e.op.qty = ops[r].qty
  OBVIOUS
<1> HIDE DEF e, f, g, M, N
<1>8. SumFunctionOnSet(g, M) = SumFunctionOnSet(f, M)
  BY <1>4, <1>5, SumSame
<1>9. SumFunctionOnSet(f, M) \in Nat
  BY <1>4, <1>5, SumNat
<1>10. CASE ops[r].option = o /\ ops[r].kind = kind
  <2>1. e \in N /\ M = N \ {e}
    BY <1>3, <1>10
  <2>2. SumFunctionOnSet(g, N) = g[e] + SumFunctionOnSet(g, M)
    <3>1. SumFunctionOnSet(g, N) = g[e] + SumFunctionOnSet(g, N \ {e})
      BY <1>4, <1>5, <2>1, SumNat
    <3>2. QED
      BY <2>1, <3>1, Zenon
  <2>3. g[e] = ops[r].qty
    BY <1>5, <1>e, <2>1
  <2>4. SumFunctionOnSet(g, N) = SumFunctionOnSet(f, M) + ops[r].qty
    BY <1>7, <1>8, <1>9, <2>2, <2>3
  <2>5. QED
    BY <1>6, <1>7, <1>9, <1>10, <2>4
<1>11. CASE ~(ops[r].option = o /\ ops[r].kind = kind)
  <2>1. N = M
    BY <1>3, <1>11
  <2>2. QED
    BY <1>6, <1>7, <1>8, <1>9, <1>11, <2>1
<1>12. QED
  BY <1>10, <1>11

LEMMA InitAccounting == Init => AccountingInv
<1> SUFFICES ASSUME Init PROVE AccountingInv
  OBVIOUS
<1>1. committed = {} /\ stock = Seed
  BY DEF Init
<1>2. ASSUME NEW o, NEW kind
      PROVE  Ledger!Units(o, kind) = 0
  <2> DEFINE M == Movements({}, req, o, kind)
             f == [e \in M |-> e.op.qty]
  <2>1. M = {}
    BY DEF Movements, Entries
  <2>2. Ledger!Units(o, kind) = SumFunctionOnSet(f, M)
    BY <1>1, LedgerUnits DEF UnitsMoved, SumFunction
  <2> HIDE DEF f, M
  <2>3. QED
    BY <2>1, <2>2, FS_EmptySet, SumNat
<1>3. \A o \in Options :
        /\ Seed[o].total \in Int /\ Seed[o].available \in Int
        /\ Seed[o].reserved \in Int /\ Seed[o].sold \in Int
  BY StockTxAssumption DEF StockRow
<1>4. Accounting
  BY <1>1, <1>2, <1>3 DEF Accounting, Ledger!Accounting
<1>5. QED
  BY <1>1, <1>4, FS_EmptySet DEF AccountingInv

\* A commit adds one call to the ledger and its units to one row.
LEMMA CommitAccounting ==
  ASSUME Inv, AccountingInv, NEW r \in Requests, SaveAndCommit(r)
  PROVE  AccountingInv'
<1> DEFINE op == req[r]
           s == stock[op.option]
<1>1. /\ pc[r] = "save" /\ stock' = Written(r)
      /\ committed' = committed \cup {r} /\ req' = req
  BY DEF SaveAndCommit, Goto
<1>2. r \notin committed
  BY <1>1 DEF Inv, CommittedOnce, Terminal
<1>3. /\ Allowed(op.kind, s, op.qty)
      /\ stock' = [stock EXCEPT ![op.option] = Moved(op.kind, s, op.qty)]
  BY <1>1, CommitIsOneMovement DEF Option
<1>4. /\ req \in [Requests -> Operation] /\ stock \in [Options -> StockRow]
      /\ op.option \in Options /\ op.kind \in Kinds /\ op.qty \in Int
      /\ committed \subseteq Requests
  BY StockTxAssumption DEF Inv, TypeOK, Operation
<1>5. op.qty > 0
  BY <1>3 DEF Allowed
<1>6. IsFiniteSet(committed') /\ \A q \in committed' : req'[q].qty > 0
  BY <1>1, <1>5, FS_AddElement DEF AccountingInv
<1>7. ASSUME NEW o \in Options, NEW kind \in Kinds
      PROVE  /\ Ledger!Units(o, kind) \in Nat
             /\ Ledger!Units(o, kind)' =
                  Ledger!Units(o, kind)
                    + (IF op.option = o /\ op.kind = kind THEN op.qty ELSE 0)
  <2>1. /\ IsFiniteSet(committed) /\ r \in Requests \ committed
        /\ \A q \in committed : req[q].qty > 0
        /\ req[r].qty > 0
    BY <1>2, <1>5 DEF AccountingInv
  <2> HIDE DEF op
  <2>a. committed \in SUBSET Requests /\ req \in [Requests -> Operation]
    BY <1>4
  <2>2. /\ UnitsMoved(committed, req, o, kind) \in Nat
        /\ UnitsMoved(committed \cup {r}, req, o, kind) =
             UnitsMoved(committed, req, o, kind)
               + (IF req[r].option = o /\ req[r].kind = kind THEN req[r].qty ELSE 0)
    BY <2>a, <2>1, UnitsOfOneMore
  <2>3. QED
    BY <1>1, <2>2, LedgerUnits DEF op
<1>8. ASSUME NEW o \in Options
      PROVE  /\ stock'[o].total = Seed[o].total
             /\ stock'[o].available =
                  Seed[o].available - Ledger!Units(o, "reserve")' + Ledger!Units(o, "release")'
             /\ stock'[o].sold = Seed[o].sold + Ledger!Units(o, "confirm")'
             /\ stock'[o].reserved = Seed[o].reserved + Ledger!Units(o, "reserve")'
                  - Ledger!Units(o, "release")' - Ledger!Units(o, "confirm")'
  <2>1. /\ stock[o].total = Seed[o].total
        /\ stock[o].available =
             Seed[o].available - Ledger!Units(o, "reserve") + Ledger!Units(o, "release")
        /\ stock[o].sold = Seed[o].sold + Ledger!Units(o, "confirm")
        /\ stock[o].reserved = Seed[o].reserved + Ledger!Units(o, "reserve")
             - Ledger!Units(o, "release") - Ledger!Units(o, "confirm")
    BY DEF AccountingInv, Accounting, Ledger!Accounting
  <2>2. /\ Seed[o].total \in Int /\ Seed[o].available \in Int
        /\ Seed[o].reserved \in Int /\ Seed[o].sold \in Int
    BY StockTxAssumption DEF StockRow
  <2> DEFINE add(kind) == IF op.option = o /\ op.kind = kind THEN op.qty ELSE 0
  <2>3. /\ stock'[o].total = stock[o].total
        /\ stock'[o].available = stock[o].available - add("reserve") + add("release")
        /\ stock'[o].sold = stock[o].sold + add("confirm")
        /\ stock'[o].reserved =
             stock[o].reserved + add("reserve") - add("release") - add("confirm")
    <3>1. /\ stock[o].total \in Int /\ stock[o].available \in Int
          /\ stock[o].reserved \in Int /\ stock[o].sold \in Int
      BY <1>4 DEF StockRow
    <3>2. CASE op.option = o
      <4>1. stock'[o] = Moved(op.kind, stock[o], op.qty) /\ stock[o] \in StockRow
        BY <1>3, <1>4, <3>2
      <4>2. /\ op.kind = "reserve" => stock'[o] =
                 [total |-> stock[o].total, available |-> stock[o].available - op.qty,
                  reserved |-> stock[o].reserved + op.qty, sold |-> stock[o].sold]
            /\ op.kind = "release" => stock'[o] =
                 [total |-> stock[o].total, available |-> stock[o].available + op.qty,
                  reserved |-> stock[o].reserved - op.qty, sold |-> stock[o].sold]
            /\ op.kind = "confirm" => stock'[o] =
                 [total |-> stock[o].total, available |-> stock[o].available,
                  reserved |-> stock[o].reserved - op.qty, sold |-> stock[o].sold + op.qty]
        BY <1>4, <4>1, MovedRow
      <4>3. op.kind \in {"reserve", "release", "confirm"}
        BY <1>4 DEF Kinds
      <4> HIDE DEF op
      <4>4. QED
        BY <1>4, <3>1, <3>2, <4>2, <4>3
    <3>3. CASE op.option # o
      <4>1. stock'[o] = stock[o]
        BY <1>3, <1>4, <3>3
      <4>2. QED
        BY <3>1, <3>3, <4>1
    <3>4. QED
      BY <3>2, <3>3
  <2>4. \A kind \in Kinds : add(kind) \in Int
    BY <1>4
  <2>5. \A kind \in Kinds : /\ Ledger!Units(o, kind) \in Nat
                            /\ Ledger!Units(o, kind)' = Ledger!Units(o, kind) + add(kind)
    BY <1>7
  <2>6. /\ "reserve" \in Kinds /\ "release" \in Kinds /\ "confirm" \in Kinds
    BY DEF Kinds
  <2> HIDE DEF add, op
  <2>7. QED
    BY <2>1, <2>2, <2>3, <2>4, <2>5, <2>6
<1>9. Accounting'
  BY <1>8 DEF Accounting, Ledger!Accounting
<1>10. QED
  BY <1>6, <1>9 DEF AccountingInv

\* The rows are the seed plus exactly the movements of the calls that committed,
\* each once (saveWithTx), for any calls, interleavings and crashes.
THEOREM AccountingHolds == Spec => []Accounting
<1>1. Inv /\ AccountingInv /\ [Next]_vars => AccountingInv'
  <2> SUFFICES ASSUME Inv, AccountingInv, [Next]_vars PROVE AccountingInv'
    OBVIOUS
  <2>1. ASSUME UNCHANGED <<stock, req, committed>>
        PROVE  AccountingInv'
    <3>1. Ledger!Accounting'
      BY <2>1, LedgerUnits DEF AccountingInv, Accounting, Ledger!Accounting
    <3>2. QED
      BY <2>1, <3>1 DEF AccountingInv, Accounting
  <2>2. \/ UNCHANGED <<stock, req, committed>>
        \/ \E r \in Requests : SaveAndCommit(r)
    BY DEF Next, Run, vars, Call, Acquire, Wait, GiveUp, LockRow,
           ReadOptions, DomainOp, Rollback, ReleaseLock,
           InvalidateProductCache, Crash, Expire
  <2>3. QED
    BY <2>1, <2>2, CommitAccounting
<1>2. Spec => []AccountingInv
  BY InitAccounting, Invariance, <1>1, PTL DEF Spec
<1>3. QED
  BY <1>2, PTL DEF AccountingInv
=============================================================================
