---------------------------- MODULE CouponIssue ----------------------------
(***************************************************************************)
(* IssueCouponUseCase as the server processes run it concurrently.  A call *)
(* takes the Redis lock `coupon:issue:{couponId}`, which can expire under  *)
(* its holder, opens a transaction, reads the coupon row with FOR UPDATE,  *)
(* looks for a row of the user, counts the coupon in memory, and writes    *)
(* the coupon and the new user coupon, which become visible at commit.     *)
(*                                                                         *)
(* Waiting for the Redis lock is either getting it or giving up.  A        *)
(* transaction can be rolled back and a process can die at any point.      *)
(* Only seeds create coupons, and no code deletes one.                     *)
(***************************************************************************)
EXTENDS Integers, FiniteSets

CONSTANTS
  Requests, Users, Coupons, Total, SeedIssued, SeedRows,
  SeedPeriod,  \* [Coupons -> Periods], what the clock says at first
  None         \* no holder

Periods == {"before", "within", "after"}

ASSUME CouponIssueAssumption ==
  /\ Total \in [Coupons -> Int]
  /\ SeedIssued \in [Coupons -> Int]
  /\ SeedPeriod \in [Coupons -> Periods]
  /\ IsFiniteSet(SeedRows)
  /\ \A x \in SeedRows : x.by \notin Requests
  /\ \A x, y \in SeedRows : x.user = y.user /\ x.coupon = y.coupon => x = y
  /\ None \notin Requests

VARIABLES
  issued,    \* [Coupons -> Int], the committed counts
  rows,      \* the committed user_coupons rows
  rowLock,   \* [Coupons -> Requests or None], the FOR UPDATE locks
  lock,      \* [Coupons -> Requests or None], the Redis lock keys
  period,    \* [Coupons -> Periods], where now is in validFrom .. validUntil
  pc,        \* where each call is
  input,     \* the user and the coupon of each call
  counted,   \* issuedQuantity of the coupon each call has in memory
  error      \* the exception each call is about to throw

vars == <<issued, rows, rowLock, lock, period, pc, input, counted, error>>

AfterRowLock == {"checkIssued", "issue", "save"}
InTx == {"lockCoupon"} \cup AfterRowLock
Terminal == {"returned", "threw", "crashed"}
Steps == {"idle", "acquire", "unlock", "unlockFailed"} \cup InTx \cup Terminal
Errors == {"none", "alreadyIssued", "exhausted", "expired", "failed"}

User(r) == input[r].user
Coupon(r) == input[r].coupon

\* Mutant: swapped arguments.
NewRowSwapped(r) == [by |-> r, user |-> Coupon(r), coupon |-> User(r)]

NewRow(r) == [by |-> r, user |-> User(r), coupon |-> Coupon(r)]

Init ==
  /\ issued = SeedIssued
  /\ rows = SeedRows
  /\ rowLock = [c \in Coupons |-> None]
  /\ lock = [c \in Coupons |-> None]
  /\ period = SeedPeriod
  /\ pc = [r \in Requests |-> "idle"]
  /\ input \in [Requests -> [user : Users, coupon : Coupons]]
  /\ counted = [r \in Requests |-> 0]
  /\ error = [r \in Requests |-> "none"]

-----------------------------------------------------------------------------
Goto(r, from, to) == pc[r] = from /\ pc' = [pc EXCEPT ![r] = to]

Call(r) ==
  /\ Goto(r, "idle", "acquire")
  /\ UNCHANGED <<issued, rows, rowLock, lock, period, input, counted, error>>

\* SET NX on the key, at once or after a wait.
Acquire(r) ==
  /\ Goto(r, "acquire", "lockCoupon")
  /\ lock[Coupon(r)] = None
  /\ lock' = [lock EXCEPT ![Coupon(r)] = r]
  /\ UNCHANGED <<issued, rows, rowLock, period, input, counted, error>>

\* The wait ends without the lock, or Redis is unreachable.  An attempt
\* answered too late has set the key all the same.
GiveUp(r) ==
  /\ Goto(r, "acquire", "threw")
  /\ error' = [error EXCEPT ![r] = "failed"]
  /\ \/ UNCHANGED lock
     \/ lock[Coupon(r)] = None /\ lock' = [lock EXCEPT ![Coupon(r)] = r]
  /\ UNCHANGED <<issued, rows, rowLock, period, input, counted>>

\* The key's TTL passes while the holder is slow, paused or dead.
Expire(c) ==
  /\ lock[c] # None
  /\ lock' = [lock EXCEPT ![c] = None]
  /\ UNCHANGED <<issued, rows, rowLock, period, pc, input, counted, error>>

\* The clock passes validFrom or validUntil.
ClockPasses(c) ==
  /\ \/ period[c] = "before" /\ period' = [period EXCEPT ![c] = "within"]
     \/ period[c] = "within" /\ period' = [period EXCEPT ![c] = "after"]
  /\ UNCHANGED <<issued, rows, rowLock, lock, pc, input, counted, error>>

-----------------------------------------------------------------------------
\* Mutant: the coupon is read without FOR UPDATE.
LockCouponPlain(r) ==
  /\ Goto(r, "lockCoupon", "checkIssued")
  /\ counted' = [counted EXCEPT ![r] = issued[Coupon(r)]]
  /\ UNCHANGED <<issued, rows, rowLock, lock, period, input, error>>

\* findByIdForUpdate.
LockCoupon(r) ==
  /\ Goto(r, "lockCoupon", "checkIssued")
  /\ rowLock[Coupon(r)] = None
  /\ rowLock' = [rowLock EXCEPT ![Coupon(r)] = r]
  /\ counted' = [counted EXCEPT ![r] = issued[Coupon(r)]]
  /\ UNCHANGED <<issued, rows, lock, period, input, error>>

\* The business checks throw inside the transaction, which is rolled back.
Refuse(r, from, why) ==
  /\ Goto(r, from, "unlockFailed")
  /\ error' = [error EXCEPT ![r] = why]
  /\ counted' = [counted EXCEPT ![r] = 0]

Unlocked(r) == [c \in Coupons |-> IF rowLock[c] = r THEN None ELSE rowLock[c]]

\* Mutant: the query forgets the coupon.
IssuedToUserAny(r) == \E x \in rows : x.user = User(r)

\* existsByUserIdAndCouponId.
IssuedToUser(r) == \E x \in rows : x.user = User(r) /\ x.coupon = Coupon(r)

CheckIssued(r) ==
  /\ \/ /\ IssuedToUser(r)
        /\ Refuse(r, "checkIssued", "alreadyIssued")
        /\ rowLock' = Unlocked(r)
     \/ /\ ~IssuedToUser(r)
        /\ Goto(r, "checkIssued", "issue")
        /\ UNCHANGED <<rowLock, counted, error>>
  /\ UNCHANGED <<issued, rows, lock, period, input>>

\* Mutant: off by one.
ExhaustedLate(r) == counted[r] > Total[Coupon(r)]

Exhausted(r) == counted[r] >= Total[Coupon(r)]

\* decreaseQuantity: the quantity first, then the period.
IssueCoupon(r) ==
  /\ \/ /\ Exhausted(r)
        /\ Refuse(r, "issue", "exhausted")
        /\ rowLock' = Unlocked(r)
     \/ /\ ~Exhausted(r) /\ period[Coupon(r)] # "within"
        /\ Refuse(r, "issue", "expired")
        /\ rowLock' = Unlocked(r)
     \/ /\ ~Exhausted(r) /\ period[Coupon(r)] = "within"
        /\ Goto(r, "issue", "save")
        /\ counted' = [counted EXCEPT ![r] = @ + 1]
        /\ UNCHANGED <<rowLock, error>>
  /\ UNCHANGED <<issued, rows, lock, period, input>>

\* Mutant: the user coupon is saved outside the transaction and fails.
SaveCouponOnly(r) ==
  /\ Goto(r, "save", "unlock")
  /\ issued' = [issued EXCEPT ![Coupon(r)] = counted[r]]
  /\ rowLock' = Unlocked(r)
  /\ counted' = [counted EXCEPT ![r] = 0]
  /\ UNCHANGED <<rows, lock, period, input, error>>

\* Both saves and the commit, whose answer can be lost.  The insert is subject
\* to the unique key on the user and the coupon.
SaveAndCommit(r) ==
  /\ \/ Goto(r, "save", "unlock") /\ UNCHANGED error
     \/ Goto(r, "save", "unlockFailed") /\ error' = [error EXCEPT ![r] = "failed"]
  /\ ~ \E x \in rows : x.user = User(r) /\ x.coupon = Coupon(r)
  /\ issued' = [issued EXCEPT ![Coupon(r)] = counted[r]]
  /\ rows' = rows \cup {NewRow(r)}
  /\ rowLock' = Unlocked(r)
  /\ counted' = [counted EXCEPT ![r] = 0]
  /\ UNCHANGED <<lock, period, input>>

\* The transaction fails: a statement, a wait or Prisma's time limit.
Rollback(r) ==
  /\ \E from \in InTx : Refuse(r, from, "failed")
  /\ rowLock' = Unlocked(r)
  /\ UNCHANGED <<issued, rows, lock, period, input>>

\* Mutant: withLockExtended swallows the callback's error.
ReleaseLockSwallows(r) ==
  /\ \/ Goto(r, "unlock", "returned")
     \/ Goto(r, "unlockFailed", "returned")
  /\ lock' \in {lock, [lock EXCEPT ![Coupon(r)] = IF @ = r THEN None ELSE @]}
  /\ UNCHANGED <<issued, rows, rowLock, period, input, counted, error>>

\* The finally of withLockExtended: only the own key is deleted, and an error of
\* the release is swallowed.
ReleaseLock(r) ==
  /\ \/ Goto(r, "unlock", "returned")
     \/ Goto(r, "unlockFailed", "threw")
  /\ lock' \in {lock, [lock EXCEPT ![Coupon(r)] = IF @ = r THEN None ELSE @]}
  /\ UNCHANGED <<issued, rows, rowLock, period, input, counted, error>>

\* The server process dies.
Crash(r) ==
  /\ pc[r] \notin Terminal \cup {"idle"}
  /\ pc' = [pc EXCEPT ![r] = "crashed"]
  /\ rowLock' = Unlocked(r)
  /\ counted' = [counted EXCEPT ![r] = 0]
  /\ UNCHANGED <<issued, rows, lock, period, input, error>>

-----------------------------------------------------------------------------
Run(r) ==
  \/ Acquire(r) \/ GiveUp(r) \/ LockCoupon(r) \/ CheckIssued(r)
  \/ IssueCoupon(r) \/ SaveAndCommit(r) \/ Rollback(r) \/ ReleaseLock(r)

Next ==
  \/ \E r \in Requests : Call(r) \/ Run(r) \/ Crash(r)
  \/ \E c \in Coupons : Expire(c) \/ ClockPasses(c)

Spec == Init /\ [][Next]_vars

-----------------------------------------------------------------------------
\* Types of the variables.
TypeOK ==
  /\ issued \in [Coupons -> Int]
  /\ rows \subseteq SeedRows \cup [by : Requests, user : Users, coupon : Coupons]
  /\ rowLock \in [Coupons -> Requests \cup {None}]
  /\ lock \in [Coupons -> Requests \cup {None}]
  /\ period \in [Coupons -> Periods]
  /\ pc \in [Requests -> Steps]
  /\ input \in [Requests -> [user : Users, coupon : Coupons]]
  /\ counted \in [Requests -> Int]
  /\ error \in [Requests -> Errors]

\* A transaction holds the row lock of its coupon, and no other, from the
\* SELECT ... FOR UPDATE to its end.
RowLockHeld ==
  \A r \in Requests, c \in Coupons :
    rowLock[c] = r <=> pc[r] \in AfterRowLock /\ Coupon(r) = c

\* What a call found is still so when it writes: the count it increments, the
\* absence of a coupon of its user (so that the unique key never has to refuse
\* the insert), and that some are left.
FreshCoupon ==
  \A r \in Requests :
    /\ pc[r] \in {"checkIssued", "issue"} => counted[r] = issued[Coupon(r)]
    /\ pc[r] = "save" => /\ counted[r] = issued[Coupon(r)] + 1
                         /\ counted[r] <= Total[Coupon(r)]
    /\ pc[r] \in {"issue", "save"} =>
         ~ \E x \in rows : x.user = User(r) /\ x.coupon = Coupon(r)

\* A call that inserted its row is past its commit, and one that returns has
\* inserted it.
ReturnedIsIssued ==
  \A r \in Requests :
    /\ pc[r] \in {"unlock", "returned"} => NewRow(r) \in rows
    /\ \A x \in rows :
         x.by = r => x = NewRow(r) /\ pc[r] \in {"unlock", "unlockFailed"} \cup Terminal

\* Who is turned away for a reason finds it true in the database, and for good:
\* the user has the coupon, or all of them are gone.
TurnedAwayForCause ==
  \A r \in Requests :
    /\ error[r] = "alreadyIssued" =>
         \E x \in rows : x.user = User(r) /\ x.coupon = Coupon(r)
    /\ error[r] = "exhausted" => issued[Coupon(r)] >= Total[Coupon(r)]

Pool == INSTANCE CouponPool

\* The row-locked transactions implement the pool: counting a coupon and handing
\* it out are one step, whose conditions hold at that moment.
ImplementsPool == Pool!Spec

\* No more coupons are counted than there are (CouponPool).
NeverExceeded == Pool!NeverExceeded

\* Every coupon that was counted since the start was handed out, and the other
\* way round: a lost update of the count or a count without a row would show.
IssuedCounts ==
  \A c \in Coupons :
    issued[c] = SeedIssued[c]
                  + Cardinality({x \in rows \ SeedRows : x.coupon = c})

\* Nobody has a coupon twice (CouponPool).
OnePerUser == Pool!OnePerUser

\* The inductive invariant of the proofs.
Inv ==
  /\ TypeOK
  /\ RowLockHeld
  /\ FreshCoupon
  /\ ReturnedIsIssued
  /\ TurnedAwayForCause
  /\ OnePerUser
  /\ NeverExceeded
=============================================================================
