------------------------------ MODULE StockTx ------------------------------
(***************************************************************************)
(* ReserveStockUseCase, ReleaseStockUseCase and ConfirmSaleUseCase as the  *)
(* server processes run them concurrently.  Each call                      *)
(*   - takes the distributed lock `stock:{productId}:{optionId}` in Redis, *)
(*     which protects ONE option and can expire under its holder,          *)
(*   - opens a transaction, locks the PRODUCT row with FOR UPDATE, loads   *)
(*     the rows of all its options, moves the counters of one in memory,   *)
(*     and writes ALL of them back with absolute values,                   *)
(*   - releases the lock and invalidates the product's cache entries.      *)
(*                                                                         *)
(* The writes of a transaction reach the other transactions together, at   *)
(* commit.  A transaction can be rolled back at any point (Prisma's 5 s    *)
(* limit, a lost connection), and a process can die at any point.          *)
(*                                                                         *)
(* The branches for a product or option that does not exist are left out:  *)
(* callers pass the ids of cart and order items, which foreign keys tie to *)
(* rows that no code deletes.  The distributed lock's waiting protocol is  *)
(* the subject of its own module; here a waiter may find the lock free or  *)
(* give up.                                                                *)
(***************************************************************************)
EXTENDS StockEntity, FiniteSets

CONSTANTS
  Requests, Options, Quantities, Seed,
  Products,    \* product rows
  ProductOf,   \* the product each option belongs to
  None         \* no holder

Operation == [kind : Kinds, option : Options, qty : Quantities]

ASSUME StockTxAssumption ==
  /\ ProductOf \in [Options -> Products]
  /\ Quantities \subseteq Int
  /\ None \notin Requests
  /\ Seed \in [Options -> StockRow]
  /\ \A o \in Options : Valid(Seed[o]) /\ Balanced(Seed[o])

VARIABLES
  stock,      \* [Options -> StockRow], the committed rows
  rowLock,    \* [Products -> Requests or None], the FOR UPDATE locks
  lock,       \* [Options -> Requests or None], the Redis lock keys
  pc,         \* where each request is
  req,        \* the operation each request was called with
  aggregate,  \* the Product aggregate each request has in memory
  committed   \* history: the requests whose transaction committed

vars == <<stock, rowLock, lock, pc, req, aggregate, committed>>

AfterRowLock == {"readOptions", "domainOp", "save"}
InTx == {"lockRow"} \cup AfterRowLock
Terminal == {"returned", "threw", "crashed"}
Steps == {"idle", "acquire", "waiting", "unlock"} \cup InTx
           \cup {"unlockFailed", "invalidate"} \cup Terminal

Option(r) == req[r].option
Product(r) == ProductOf[Option(r)]

\* Rows of other products are no part of an aggregate.
NoAggregate == [o \in Options |-> ZeroRow]

Init ==
  /\ stock = Seed
  /\ rowLock = [p \in Products |-> None]
  /\ lock = [o \in Options |-> None]
  /\ pc = [r \in Requests |-> "idle"]
  /\ req \in [Requests -> Operation]
  /\ aggregate = [r \in Requests |-> NoAggregate]
  /\ committed = {}

-----------------------------------------------------------------------------
Goto(r, from, to) == pc[r] = from /\ pc' = [pc EXCEPT ![r] = to]

\* An exception leaves the use case: ReleaseStock logs it and returns, the
\* other two let it through to their caller.
Thrown(r) == IF req[r].kind = "release" THEN "returned" ELSE "threw"

Call(r) ==
  /\ Goto(r, "idle", "acquire")
  /\ UNCHANGED <<stock, rowLock, lock, req, aggregate, committed>>

\* redlock.acquire: SET NX on the key, at once or when a waiter is woken.
Acquire(r) ==
  /\ pc[r] \in {"acquire", "waiting"}
  /\ lock[Option(r)] = None
  /\ lock' = [lock EXCEPT ![Option(r)] = r]
  /\ pc' = [pc EXCEPT ![r] = "lockRow"]
  /\ UNCHANGED <<stock, rowLock, req, aggregate, committed>>

Wait(r) ==
  /\ Goto(r, "acquire", "waiting")
  /\ lock[Option(r)] # None
  /\ UNCHANGED <<stock, rowLock, lock, req, aggregate, committed>>

\* Mutant: a waiter gives up only when it is woken by a release.
GiveUpWhenWoken(r) ==
  /\ \/ Goto(r, "acquire", Thrown(r))
     \/ Goto(r, "waiting", Thrown(r))
  /\ lock[Option(r)] = None
  /\ UNCHANGED <<stock, rowLock, lock, req, aggregate, committed>>

\* waitTimeoutMs passes (LockAcquisitionException), or Redis is unreachable
\* (RedisConnectionException).  An attempt answered too late has set the key
\* all the same: it stays, held by no running call, until it expires.
GiveUp(r) ==
  /\ \/ Goto(r, "acquire", Thrown(r))
     \/ Goto(r, "waiting", Thrown(r))
  /\ \/ UNCHANGED lock
     \/ lock[Option(r)] = None /\ lock' = [lock EXCEPT ![Option(r)] = r]
  /\ UNCHANGED <<stock, rowLock, req, aggregate, committed>>

\* The key's TTL passes while the holder is slow, paused or dead.
Expire(o) ==
  /\ lock[o] # None
  /\ lock' = [lock EXCEPT ![o] = None]
  /\ UNCHANGED <<stock, rowLock, pc, req, aggregate, committed>>

-----------------------------------------------------------------------------
\* Mutant: the product is read without FOR UPDATE.
LockRowPlain(r) ==
  /\ Goto(r, "lockRow", "readOptions")
  /\ UNCHANGED <<stock, rowLock, lock, req, aggregate, committed>>

\* findByIdForUpdate, first statement: SELECT ... FROM products FOR UPDATE.
LockRow(r) ==
  /\ Goto(r, "lockRow", "readOptions")
  /\ rowLock[Product(r)] = None
  /\ rowLock' = [rowLock EXCEPT ![Product(r)] = r]
  /\ UNCHANGED <<stock, lock, req, aggregate, committed>>

\* The committed rows of the options of r's product.
Loaded(r) ==
  [o \in Options |-> IF ProductOf[o] = Product(r) THEN stock[o] ELSE ZeroRow]

\* findByIdForUpdate, second statement: the stock rows of every option of the
\* product, as committed when the row lock was granted.
ReadOptions(r) ==
  /\ Goto(r, "readOptions", "domainOp")
  /\ aggregate' = [aggregate EXCEPT ![r] = Loaded(r)]
  /\ UNCHANGED <<stock, rowLock, lock, req, committed>>

\* reserveStock / releaseStock / confirmSale of StockManagementService, which
\* change one row of the aggregate in memory.
DomainOp(r) ==
  /\ Goto(r, "domainOp", "save")
  /\ Allowed(req[r].kind, aggregate[r][Option(r)], req[r].qty)
  /\ aggregate' =
       [aggregate EXCEPT ![r][Option(r)] = Moved(req[r].kind, @, req[r].qty)]
  /\ UNCHANGED <<stock, rowLock, lock, req, committed>>

\* saveWithTx writes the absolute counters of all options of the aggregate.
Written(r) ==
  [o \in Options |->
     IF ProductOf[o] = Product(r) THEN aggregate[r][o] ELSE stock[o]]

Unlocked(r) ==
  [p \in Products |-> IF rowLock[p] = r THEN None ELSE rowLock[p]]

\* saveWithTx and the commit of the transaction, whose answer can be lost.
SaveAndCommit(r) ==
  /\ \/ Goto(r, "save", "unlock")
     \/ Goto(r, "save", "unlockFailed")
  /\ stock' = Written(r)
  /\ rowLock' = Unlocked(r)
  /\ committed' = committed \cup {r}
  /\ aggregate' = [aggregate EXCEPT ![r] = NoAggregate]
  /\ UNCHANGED <<lock, req>>

\* The transaction fails: the entity refuses the movement, a statement or the
\* row-lock wait fails, or the 5 s limit passes.
Rollback(r) ==
  /\ pc[r] \in InTx
  /\ pc' = [pc EXCEPT ![r] = "unlockFailed"]
  /\ rowLock' = Unlocked(r)
  /\ aggregate' = [aggregate EXCEPT ![r] = NoAggregate]
  /\ UNCHANGED <<stock, lock, req, committed>>

-----------------------------------------------------------------------------
\* Mutant: the key is overwritten with an empty token instead of deleted.
KeyEmptied(r) ==
  [lock EXCEPT ![Option(r)] = IF @ = r THEN "" ELSE @]

\* releaseLock deletes the key only if it still holds this holder's token.
KeyDeleted(r) ==
  [lock EXCEPT ![Option(r)] = IF @ = r THEN None ELSE @]

\* Mutant: withLockExtended swallows the callback's error.
ReleaseLockSwallows(r) ==
  /\ \/ Goto(r, "unlock", "invalidate")
     \/ Goto(r, "unlockFailed", "invalidate")
  /\ lock' \in {lock, KeyDeleted(r)}
  /\ UNCHANGED <<stock, rowLock, req, aggregate, committed>>

\* The finally of withLockExtended: an error of the release is swallowed.
ReleaseLock(r) ==
  /\ \/ Goto(r, "unlock", "invalidate")
     \/ Goto(r, "unlockFailed", Thrown(r))
  /\ lock' \in {lock, KeyDeleted(r)}
  /\ UNCHANGED <<stock, rowLock, req, aggregate, committed>>

\* invalidateProductCache, which may fail after the commit.
InvalidateProductCache(r) ==
  /\ \/ Goto(r, "invalidate", "returned")
     \/ Goto(r, "invalidate", Thrown(r))
  /\ UNCHANGED <<stock, rowLock, lock, req, aggregate, committed>>

\* The server process dies: the database rolls its transaction back, the
\* Redis key stays until it expires.
Crash(r) ==
  /\ pc[r] \notin Terminal \cup {"idle"}
  /\ pc' = [pc EXCEPT ![r] = "crashed"]
  /\ rowLock' = Unlocked(r)
  /\ aggregate' = [aggregate EXCEPT ![r] = NoAggregate]
  /\ UNCHANGED <<stock, lock, req, committed>>

-----------------------------------------------------------------------------
\* The steps a running call takes by itself, its timers included.
Run(r) ==
  \/ Acquire(r) \/ Wait(r) \/ GiveUp(r)
  \/ LockRow(r) \/ ReadOptions(r) \/ DomainOp(r)
  \/ SaveAndCommit(r) \/ Rollback(r)
  \/ ReleaseLock(r) \/ InvalidateProductCache(r)

Next ==
  \/ \E r \in Requests : Call(r) \/ Run(r) \/ Crash(r)
  \/ \E o \in Options : Expire(o)

Spec == Init /\ [][Next]_vars

\* A live process keeps executing: its own steps, its timers and the answers
\* of Redis and MySQL arrive.  Nothing is assumed of the Redis TTL, of crashes
\* or of callers.
FairSpec == Spec /\ \A r \in Requests : WF_vars(Run(r))

-----------------------------------------------------------------------------
\* Types of the variables.
TypeOK ==
  /\ stock \in [Options -> StockRow]
  /\ rowLock \in [Products -> Requests \cup {None}]
  /\ lock \in [Options -> Requests \cup {None}]
  /\ pc \in [Requests -> Steps]
  /\ req \in [Requests -> Operation]
  /\ aggregate \in [Requests -> [Options -> StockRow]]
  /\ committed \subseteq Requests

\* A transaction is the only one of its product from the moment its SELECT ...
\* FOR UPDATE returns until it ends, although it began under the Redis lock of
\* one option only.
RowLockHeld ==
  \A r \in Requests, p \in Products :
    rowLock[p] = r <=> pc[r] \in AfterRowLock /\ Product(r) = p

\* What a call is about to write is still the committed rows of the product
\* with its own movement applied: no sibling option was changed since it read
\* them, so the absolute values of saveWithTx overwrite nothing.
FreshAggregate ==
  \A r \in Requests :
    /\ pc[r] = "domainOp" => aggregate[r] = Loaded(r)
    /\ pc[r] = "save" =>
         /\ Allowed(req[r].kind, stock[Option(r)], req[r].qty)
         /\ aggregate[r] = [Loaded(r) EXCEPT ![Option(r)] =
                              Moved(req[r].kind, @, req[r].qty)]

\* A call commits at most once: it is counted as committed from its commit on.
CommittedOnce ==
  \A r \in committed :
    pc[r] \in {"unlock", "unlockFailed", "invalidate"} \cup Terminal

\* What the rows look like to a caller who knows nothing of transactions: the
\* ledger holds one entry per committed call.
Ledger == INSTANCE StockLedger WITH
            ledger <- {[by |-> r, op |-> req[r]] : r \in committed}

\* The row-locked transactions implement atomic movements: every commit is one
\* movement of one option, applied to the rows as they are at that moment, by
\* a call that had not been applied before, and no other step changes a row.
\* This holds although the Redis lock covers a single option, can expire under
\* its holder, and every commit rewrites the sibling options too.
ImplementsLedger == Ledger!Spec

\* The committed rows are always valid and balanced (StockLedger).
Conservation == Ledger!Conservation

\* The rows are the seed plus exactly the committed movements (StockLedger).
Accounting == Ledger!Accounting

\* A reserve or confirm call that returns has been committed, whatever expired
\* or crashed meanwhile.  The converse fails: one that throws may have been
\* committed too, when the commit's answer was lost or the cache invalidation
\* failed after it.
ReturnedIsCommitted ==
  \A r \in Requests :
    \/ pc[r] \in {"unlock", "invalidate"}
    \/ pc[r] = "returned" /\ req[r].kind # "release"
    => r \in committed

\* The inductive invariant of the proofs.
Inv ==
  /\ TypeOK
  /\ RowLockHeld
  /\ FreshAggregate
  /\ CommittedOnce
  /\ Conservation
  /\ ReturnedIsCommitted

\* No call waits forever, not even for the key of a dead process that never
\* expires or for a row lock whose holder is stuck.
CallsEnd == \A r \in Requests : pc[r] # "idle" ~> pc[r] \in Terminal
=============================================================================
