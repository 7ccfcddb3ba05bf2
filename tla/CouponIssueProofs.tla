------------------------- MODULE CouponIssueProofs -------------------------
(***************************************************************************)
(* Proofs about CouponIssue, for any number of requests, users and         *)
(* coupons, any quantities and any seed without double coupons.            *)
(***************************************************************************)
EXTENDS CouponIssue, TLAPS, FiniteSetTheorems

LEMMA InitTypeOK == Init => TypeOK
BY CouponIssueAssumption DEF Init, TypeOK, Steps, InTx, AfterRowLock, Errors

LEMMA NextTypeOK == TypeOK /\ [Next]_vars => TypeOK'
<1> SUFFICES ASSUME TypeOK, [Next]_vars PROVE TypeOK'
  OBVIOUS
<1> USE DEF TypeOK, Goto, User, Coupon, Steps, InTx, AfterRowLock, Terminal,
            Errors, Periods
<1>1. ASSUME NEW r \in Requests, Call(r) PROVE TypeOK'
  BY <1>1 DEF Call
<1>2. ASSUME NEW r \in Requests, Acquire(r) PROVE TypeOK'
  BY <1>2 DEF Acquire
<1>3. ASSUME NEW r \in Requests, GiveUp(r) PROVE TypeOK'
  BY <1>3 DEF GiveUp
<1>4. ASSUME NEW r \in Requests, LockCoupon(r) PROVE TypeOK'
  BY <1>4 DEF LockCoupon
<1>5. ASSUME NEW r \in Requests, CheckIssued(r) PROVE TypeOK'
  BY <1>5 DEF CheckIssued, Refuse, Unlocked
<1>6. ASSUME NEW r \in Requests, IssueCoupon(r) PROVE TypeOK'
  BY <1>6 DEF IssueCoupon, Refuse, Unlocked
<1>7. ASSUME NEW r \in Requests, SaveAndCommit(r) PROVE TypeOK'
  BY <1>7, SMTT(30) DEF SaveAndCommit, Unlocked, NewRow
<1>8. ASSUME NEW r \in Requests, Rollback(r) PROVE TypeOK'
  <2>1. PICK from \in InTx : Refuse(r, from, "failed")
    BY <1>8 DEF Rollback
  <2>2. pc' \in [Requests -> Steps] /\ error' \in [Requests -> Errors]
        /\ counted' \in [Requests -> Int]
    BY <2>1 DEF Refuse
  <2>3. rowLock' \in [Coupons -> Requests \cup {None}]
        /\ UNCHANGED <<issued, rows, lock, period, input>>
    BY <1>8 DEF Rollback, Unlocked
  <2>4. QED
    BY <2>2, <2>3
<1>9. ASSUME NEW r \in Requests, ReleaseLock(r) PROVE TypeOK'
  <2>1. pc' \in [Requests -> Steps]
    BY <1>9 DEF ReleaseLock
  <2>2. lock' \in [Coupons -> Requests \cup {None}]
    BY <1>9 DEF ReleaseLock
  <2>3. QED
    BY <1>9, <2>1, <2>2 DEF ReleaseLock
<1>10. ASSUME NEW r \in Requests, Crash(r) PROVE TypeOK'
  BY <1>10 DEF Crash, Unlocked
<1>11. ASSUME NEW c \in Coupons, Expire(c) PROVE TypeOK'
  BY <1>11 DEF Expire
<1>12. ASSUME NEW c \in Coupons, ClockPasses(c) PROVE TypeOK'
  BY <1>12 DEF ClockPasses
<1>13. CASE UNCHANGED vars
  BY <1>13 DEF vars
<1>14. QED
  BY <1>1, <1>2, <1>3, <1>4, <1>5, <1>6, <1>7, <1>8, <1>9, <1>10, <1>11,
     <1>12, <1>13 DEF Next, Run

\* The variables of issuing keep their types (issue-coupon.use-case.ts).
THEOREM TypeCorrect == Spec => []TypeOK
BY InitTypeOK, NextTypeOK, PTL DEF Spec

-----------------------------------------------------------------------------
LEMMA InitInv == Init => Inv
<1> SUFFICES ASSUME Init PROVE Inv
  OBVIOUS
<1>1. TypeOK
  BY InitTypeOK
<1>2. RowLockHeld
  BY CouponIssueAssumption DEF Init, RowLockHeld, AfterRowLock
<1>3. FreshCoupon /\ ReturnedIsIssued /\ TurnedAwayForCause
  BY CouponIssueAssumption
     DEF Init, FreshCoupon, ReturnedIsIssued, TurnedAwayForCause
<1>4. OnePerUser
  BY CouponIssueAssumption DEF Init, OnePerUser, Pool!OnePerUser
<1>5. NeverExceeded
  BY DEF Init, NeverExceeded, Pool!NeverExceeded
<1>6. QED
  BY <1>1, <1>2, <1>3, <1>4, <1>5 DEF Inv

\* The steps of a call that is in no transaction before or after, and of the
\* clocks.
LEMMA OutsideTx ==
  ASSUME Inv, TypeOK', UNCHANGED <<issued, rows, rowLock, input, counted>>,
         \A q \in Requests :
           /\ pc'[q] \in AfterRowLock <=> pc[q] \in AfterRowLock
           /\ pc[q] \in AfterRowLock => pc'[q] = pc[q]
           /\ pc'[q] \in {"unlock", "returned"} => pc[q] \in {"unlock", "returned"}
           /\ pc[q] \in {"unlock", "unlockFailed"} \cup Terminal =>
                pc'[q] \in {"unlock", "unlockFailed"} \cup Terminal
           /\ error'[q] \in {error[q], "failed"}
  PROVE  Inv'
<1> USE DEF Inv, User, Coupon
<1>1. RowLockHeld'
  BY DEF RowLockHeld
<1>2. FreshCoupon'
  BY DEF FreshCoupon, AfterRowLock
<1>3. ReturnedIsIssued'
  BY DEF ReturnedIsIssued, NewRow
<1>4. TurnedAwayForCause'
  BY DEF TurnedAwayForCause
<1>5. OnePerUser' /\ NeverExceeded'
  BY DEF OnePerUser, NeverExceeded, Pool!OnePerUser, Pool!NeverExceeded
<1>6. QED
  BY <1>1, <1>2, <1>3, <1>4, <1>5

\* A transaction ends without a commit, for a reason that holds.
LEMMA EndsTx ==
  ASSUME Inv, TypeOK', NEW r \in Requests, NEW to \in {"unlockFailed", "crashed"},
         pc' = [pc EXCEPT ![r] = to],
         pc[r] \notin {"idle"} \cup Terminal,
         rowLock' = Unlocked(r),
         UNCHANGED <<issued, rows, input>>,
         counted' = [counted EXCEPT ![r] = 0],
         \A q \in Requests : error'[q] = error[q] \/ q = r,
         error'[r] = "alreadyIssued" =>
           \/ error[r] = "alreadyIssued"
           \/ \E x \in rows : x.user = User(r) /\ x.coupon = Coupon(r),
         error'[r] = "exhausted" =>
           \/ error[r] = "exhausted"
           \/ issued[Coupon(r)] >= Total[Coupon(r)]
  PROVE  Inv'
<1>0. /\ pc'[r] = to
      /\ \A q \in Requests \ {r} : pc'[q] = pc[q] /\ counted'[q] = counted[q]
  BY DEF Inv, TypeOK
<1> USE DEF Inv, User, Coupon
<1>1. RowLockHeld'
  BY <1>0, CouponIssueAssumption DEF RowLockHeld, Unlocked, AfterRowLock, TypeOK
<1>2. FreshCoupon'
  BY <1>0 DEF FreshCoupon
<1>3. ReturnedIsIssued'
  BY <1>0 DEF ReturnedIsIssued, NewRow, Terminal
<1>4. TurnedAwayForCause'
  BY DEF TurnedAwayForCause
<1>5. OnePerUser' /\ NeverExceeded'
  BY DEF OnePerUser, NeverExceeded, Pool!OnePerUser, Pool!NeverExceeded
<1>6. QED
  BY <1>1, <1>2, <1>3, <1>4, <1>5

LEMMA LockKeepsInv ==
  ASSUME Inv, TypeOK', NEW r \in Requests, LockCoupon(r)
  PROVE  Inv'
<1>0. /\ pc' = [pc EXCEPT ![r] = "checkIssued"] /\ pc[r] = "lockCoupon"
      /\ rowLock' = [rowLock EXCEPT ![Coupon(r)] = r]
      /\ rowLock[Coupon(r)] = None
      /\ counted' = [counted EXCEPT ![r] = issued[Coupon(r)]]
      /\ UNCHANGED <<issued, rows, lock, period, input, error>>
  BY DEF LockCoupon, Goto
<1>t. /\ Coupon(r) \in Coupons
      /\ pc'[r] = "checkIssued" /\ counted'[r] = issued[Coupon(r)]
      /\ \A q \in Requests \ {r} : pc'[q] = pc[q] /\ counted'[q] = counted[q]
  BY <1>0 DEF Inv, TypeOK, Coupon
<1> USE DEF Inv, User, Coupon
<1>1. RowLockHeld'
  BY <1>0, <1>t, CouponIssueAssumption DEF RowLockHeld, AfterRowLock, TypeOK
<1>2. FreshCoupon'
  BY <1>0, <1>t DEF FreshCoupon
<1>3. ReturnedIsIssued'
  BY <1>0, <1>t DEF ReturnedIsIssued, NewRow, Terminal
<1>4. TurnedAwayForCause' /\ OnePerUser' /\ NeverExceeded'
  BY <1>0 DEF TurnedAwayForCause, OnePerUser, NeverExceeded, Pool!OnePerUser,
              Pool!NeverExceeded
<1>5. QED
  BY <1>1, <1>2, <1>3, <1>4

\* The two steps of a transaction between its row lock and its writes.
LEMMA InsideTx ==
  ASSUME Inv, TypeOK', NEW r \in Requests,
         \/ /\ Goto(r, "checkIssued", "issue")
            /\ ~ \E x \in rows : x.user = User(r) /\ x.coupon = Coupon(r)
            /\ counted' = counted
         \/ /\ Goto(r, "issue", "save")
            /\ counted[r] < Total[Coupon(r)]
            /\ counted' = [counted EXCEPT ![r] = @ + 1],
         UNCHANGED <<issued, rows, rowLock, input, error>>
  PROVE  Inv'
<1>t. /\ Coupon(r) \in Coupons
      /\ pc[r] \in {"checkIssued", "issue"} /\ pc'[r] \in {"issue", "save"}
      /\ counted[r] \in Int /\ issued[Coupon(r)] \in Int
      /\ Total[Coupon(r)] \in Int
      /\ \A q \in Requests \ {r} : pc'[q] = pc[q] /\ counted'[q] = counted[q]
  BY CouponIssueAssumption DEF Inv, TypeOK, Coupon, Goto
<1> USE DEF Inv, User, Coupon
<1>1. RowLockHeld'
  BY <1>t DEF RowLockHeld, AfterRowLock
<1>2. FreshCoupon'
  <2>1. CASE Goto(r, "checkIssued", "issue") /\ counted' = counted
             /\ ~ \E x \in rows : x.user = User(r) /\ x.coupon = Coupon(r)
    BY <1>t, <2>1 DEF FreshCoupon, Goto, TypeOK
  <2>2. CASE Goto(r, "issue", "save") /\ counted[r] < Total[Coupon(r)]
             /\ counted' = [counted EXCEPT ![r] = @ + 1]
    BY <1>t, <2>2 DEF FreshCoupon, Goto, TypeOK
  <2>3. QED
    BY <2>1, <2>2, <1>t DEF Goto
<1>3. ReturnedIsIssued'
  BY <1>t DEF ReturnedIsIssued, NewRow, Terminal
<1>4. TurnedAwayForCause' /\ OnePerUser' /\ NeverExceeded'
  BY DEF TurnedAwayForCause, OnePerUser, NeverExceeded, Pool!OnePerUser,
         Pool!NeverExceeded
<1>5. QED
  BY <1>1, <1>2, <1>3, <1>4

LEMMA CommitKeepsInv ==
  ASSUME Inv, TypeOK', NEW r \in Requests, SaveAndCommit(r)
  PROVE  Inv'
<1> DEFINE k == Coupon(r)
<1>0. PICK to \in {"unlock", "unlockFailed"} :
        /\ pc' = [pc EXCEPT ![r] = to]
        /\ pc[r] = "save"
  BY DEF SaveAndCommit, Goto
<1>1. /\ ~ \E x \in rows : x.user = User(r) /\ x.coupon = k
      /\ issued' = [issued EXCEPT ![k] = counted[r]]
      /\ rows' = rows \cup {NewRow(r)}
      /\ rowLock' = Unlocked(r)
      /\ counted' = [counted EXCEPT ![r] = 0]
      /\ UNCHANGED <<lock, period, input>>
      /\ error' = error \/ error' = [error EXCEPT ![r] = "failed"]
  BY DEF SaveAndCommit
<1>c. /\ k \in Coupons /\ issued[k] \in Int /\ Total[k] \in Int
      /\ counted[r] = issued[k] + 1 /\ counted[r] <= Total[k]
  BY <1>0, CouponIssueAssumption DEF Inv, TypeOK, Coupon, FreshCoupon
<1>t. /\ k \in Coupons /\ issued[k] \in Int /\ Total[k] \in Int
      /\ counted[r] = issued[k] + 1 /\ counted[r] <= Total[k]
      /\ issued'[k] = issued[k] + 1
      /\ \A c \in Coupons \ {k} : issued'[c] = issued[c]
      /\ pc'[r] = to
      /\ \A q \in Requests \ {r} : pc'[q] = pc[q] /\ counted'[q] = counted[q]
  BY <1>0, <1>1, <1>c DEF Inv, TypeOK
\* Another call in a transaction has another coupon.
<1>d. \A q \in Requests \ {r} : pc[q] \in AfterRowLock => Coupon(q) # k
  BY <1>0, <1>t, CouponIssueAssumption DEF Inv, RowLockHeld, AfterRowLock
<1>2. RowLockHeld'
  BY <1>0, <1>1, <1>t, CouponIssueAssumption
     DEF Inv, RowLockHeld, Unlocked, AfterRowLock, Coupon, TypeOK
<1>3. FreshCoupon'
  <2> SUFFICES ASSUME NEW q \in Requests, pc'[q] \in AfterRowLock
               PROVE  /\ q # r /\ pc[q] = pc'[q]
                      /\ Coupon(q) # k
                      /\ counted'[q] = counted[q]
                      /\ issued'[Coupon(q)] = issued[Coupon(q)]
                      /\ \A x \in rows' : x \in rows \/ x.coupon # Coupon(q)
    BY <1>1 DEF FreshCoupon, AfterRowLock, User, Coupon, Inv
  <2>1. q # r /\ pc[q] = pc'[q]
    BY <1>0, <1>t DEF AfterRowLock
  <2>2. Coupon(q) # k /\ Coupon(q) \in Coupons
    BY <2>1, <1>d DEF Inv, TypeOK, Coupon
  <2>3. QED
    BY <2>1, <2>2, <1>1, <1>t DEF NewRow
<1>4. ReturnedIsIssued'
  <2>1. NewRow(r)' = NewRow(r) /\ \A q \in Requests : NewRow(q)' = NewRow(q)
    BY <1>1 DEF NewRow, User, Coupon
  <2>2. NewRow(r).by = r
    BY DEF NewRow
  <2>3. QED
    BY <1>0, <1>1, <1>t, <2>1, <2>2 DEF Inv, ReturnedIsIssued, Terminal
<1>5. TurnedAwayForCause'
  <2>1. \A q \in Requests : error'[q] = error[q] \/ error'[q] = "failed"
    BY <1>1 DEF Inv, TypeOK
  <2>2. \A q \in Requests : issued[Coupon(q)] \in Int /\ Total[Coupon(q)] \in Int
                            /\ Coupon(q) \in Coupons
    BY CouponIssueAssumption DEF Inv, TypeOK, Coupon
  <2>3. \A c \in Coupons : issued[c] \in Int => issued'[c] >= issued[c]
    BY <1>t
  <2>4. \A q \in Requests : issued[Coupon(q)] >= Total[Coupon(q)]
                              => issued'[Coupon(q)] >= Total[Coupon(q)]
    <3> SUFFICES ASSUME NEW q \in Requests, issued[Coupon(q)] >= Total[Coupon(q)]
                 PROVE  issued'[Coupon(q)] >= Total[Coupon(q)]
      OBVIOUS
    <3>1. issued'[Coupon(q)] \in Int
      BY <2>2, <1>t DEF Inv, TypeOK
    <3>2. QED
      BY <2>2, <2>3, <3>1
  <2>5. QED
    BY <1>1, <2>1, <2>4 DEF Inv, TurnedAwayForCause, User, Coupon
<1>6. OnePerUser'
  BY <1>1 DEF Inv, OnePerUser, Pool!OnePerUser, NewRow
<1>7. NeverExceeded'
  BY <1>t DEF Inv, NeverExceeded, Pool!NeverExceeded
<1>8. QED
  BY <1>2, <1>3, <1>4, <1>5, <1>6, <1>7 DEF Inv

LEMMA NextInv == Inv /\ [Next]_vars => Inv'
<1> SUFFICES ASSUME Inv, [Next]_vars PROVE Inv'
  OBVIOUS
<1>0. TypeOK /\ TypeOK'
  BY NextTypeOK DEF Inv
<1>1. ASSUME NEW r \in Requests,
             Call(r) \/ Acquire(r) \/ GiveUp(r) \/ ReleaseLock(r)
      PROVE  Inv'
  BY <1>0, <1>1, OutsideTx
     DEF Call, Acquire, GiveUp, ReleaseLock, Goto, TypeOK, AfterRowLock, Terminal
<1>2. ASSUME NEW c \in Coupons, Expire(c) \/ ClockPasses(c) PROVE Inv'
  BY <1>0, <1>2, OutsideTx DEF Expire, ClockPasses
<1>3. ASSUME NEW r \in Requests, LockCoupon(r) PROVE Inv'
  BY <1>0, <1>3, LockKeepsInv
<1>4. ASSUME NEW r \in Requests, NEW from \in InTx, NEW why \in Errors,
             Refuse(r, from, why), rowLock' = Unlocked(r),
             UNCHANGED <<issued, rows, input>>,
             why = "alreadyIssued" =>
               \E x \in rows : x.user = User(r) /\ x.coupon = Coupon(r),
             why = "exhausted" => issued[Coupon(r)] >= Total[Coupon(r)]
      PROVE  Inv'
  <2>1. /\ pc' = [pc EXCEPT ![r] = "unlockFailed"]
        /\ pc[r] \notin {"idle"} \cup Terminal
        /\ counted' = [counted EXCEPT ![r] = 0]
    BY <1>4 DEF Refuse, Goto, InTx, AfterRowLock, Terminal
  <2>2. /\ error'[r] = why
        /\ \A q \in Requests : error'[q] = error[q] \/ q = r
    BY <1>0, <1>4 DEF Refuse, TypeOK
  <2>3. QED
    BY <1>0, <1>4, <2>1, <2>2, EndsTx
<1>5. ASSUME NEW r \in Requests, CheckIssued(r) PROVE Inv'
  <2>1. CASE IssuedToUser(r)
    BY <1>4, <1>5, <2>1 DEF CheckIssued, IssuedToUser, InTx, AfterRowLock, Errors
  <2>2. CASE ~IssuedToUser(r)
    BY <1>0, <1>5, <2>2, InsideTx DEF CheckIssued, IssuedToUser
  <2>3. QED
    BY <2>1, <2>2
<1>6. ASSUME NEW r \in Requests, IssueCoupon(r) PROVE Inv'
  <2>1. /\ pc[r] = "issue" /\ counted[r] = issued[Coupon(r)]
        /\ counted[r] \in Int /\ Total[Coupon(r)] \in Int
    BY <1>0, <1>6, CouponIssueAssumption
       DEF IssueCoupon, Refuse, Goto, Inv, FreshCoupon, TypeOK, Coupon
  <2>2. CASE Refuse(r, "issue", "exhausted") /\ Exhausted(r)
    BY <1>4, <1>6, <2>1, <2>2
       DEF IssueCoupon, Exhausted, InTx, AfterRowLock, Errors, Refuse, Goto
  <2>3. CASE Refuse(r, "issue", "expired")
    <3>1. rowLock' = Unlocked(r) /\ UNCHANGED <<issued, rows, input>>
      BY <1>0, <1>6, <2>3 DEF IssueCoupon, Refuse, Goto, TypeOK
    <3>2. "issue" \in InTx /\ "expired" \in Errors
      BY DEF InTx, AfterRowLock, Errors
    <3>3. QED
      BY <1>4, <2>3, <3>1, <3>2
  <2>4. CASE /\ Goto(r, "issue", "save") /\ ~Exhausted(r)
             /\ counted' = [counted EXCEPT ![r] = @ + 1]
             /\ UNCHANGED <<rowLock, error>>
    <3>1. counted[r] < Total[Coupon(r)]
      BY <2>1, <2>4 DEF Exhausted
    <3>2. UNCHANGED <<issued, rows, rowLock, input, error>>
      BY <1>6, <2>4 DEF IssueCoupon
    <3>3. QED
      BY <1>0, <2>4, <3>1, <3>2, InsideTx
  <2>5. QED
    BY <1>6, <2>2, <2>3, <2>4 DEF IssueCoupon
<1>7. ASSUME NEW r \in Requests, SaveAndCommit(r) PROVE Inv'
  BY <1>0, <1>7, CommitKeepsInv
<1>8. ASSUME NEW r \in Requests, Rollback(r) PROVE Inv'
  BY <1>4, <1>8 DEF Rollback, Errors
<1>9. ASSUME NEW r \in Requests, Crash(r) PROVE Inv'
  BY <1>0, <1>9, EndsTx DEF Crash
<1>10. CASE UNCHANGED vars
  BY <1>0, <1>10, OutsideTx DEF vars
<1>11. QED
  BY <1>1, <1>2, <1>3, <1>5, <1>6, <1>7, <1>8, <1>9, <1>10 DEF Next, Run

LEMMA Invariance == Spec => []Inv
BY InitInv, NextInv, PTL DEF Spec

\* What a call found under the row lock is still so when it writes, although
\* the Redis lock can expire under it: the unique key refuses no insert.
THEOREM FreshCouponHolds == Spec => []FreshCoupon
<1>1. Inv => FreshCoupon
  BY DEF Inv
<1>2. QED
  BY <1>1, Invariance, PTL

\* BR-COUPON-02: no more coupons are issued than there are.
THEOREM NeverExceededHolds == Spec => []NeverExceeded
<1>1. Inv => NeverExceeded
  BY DEF Inv
<1>2. QED
  BY <1>1, Invariance, PTL

\* BR-COUPON-01: nobody has a coupon twice.
THEOREM OnePerUserHolds == Spec => []OnePerUser
<1>1. Inv => OnePerUser
  BY DEF Inv
<1>2. QED
  BY <1>1, Invariance, PTL

\* A call that returns has its coupon in the database: no error after the
\* commit, no crash and no lost answer lets it return without (IssueCoupon's
\* execute).
THEOREM ReturnedIsIssuedHolds == Spec => []ReturnedIsIssued
<1>1. Inv => ReturnedIsIssued
  BY DEF Inv
<1>2. QED
  BY <1>1, Invariance, PTL

\* Whoever is told that the coupon is exhausted or already issued finds that
\* true in the database.
THEOREM TurnedAwayForCauseHolds == Spec => []TurnedAwayForCause
<1>1. Inv => TurnedAwayForCause
  BY DEF Inv
<1>2. QED
  BY <1>1, Invariance, PTL

-----------------------------------------------------------------------------
\* Only a commit changes the coupons and the user coupons.
LEMMA OnlyCommits ==
  ASSUME [Next]_vars
  PROVE  \/ \E r \in Requests : SaveAndCommit(r)
         \/ UNCHANGED <<issued, rows>>
BY DEF Next, Run, Call, Acquire, GiveUp, LockCoupon, CheckIssued, IssueCoupon,
       Rollback, ReleaseLock, Crash, Expire, ClockPasses, vars

LEMMA CommitIsIssue ==
  ASSUME Inv, NEW r \in Requests, SaveAndCommit(r)
  PROVE  /\ NewRow(r) \in Pool!Row
         /\ Pool!Issue(NewRow(r))
<1>1. /\ NewRow(r).by = r
      /\ NewRow(r).user = User(r)
      /\ NewRow(r).coupon = Coupon(r)
      /\ NewRow(r) \in Pool!Row
  BY DEF NewRow, Pool!Row, Inv, TypeOK, User, Coupon
<1>2. /\ pc[r] = "save"
      /\ counted[r] = issued[Coupon(r)] + 1
      /\ counted[r] <= Total[Coupon(r)]
      /\ issued[Coupon(r)] \in Int /\ Total[Coupon(r)] \in Int
  BY CouponIssueAssumption
     DEF SaveAndCommit, Goto, Inv, FreshCoupon, TypeOK, Coupon
<1>3. \A x \in rows : x.by # r
  BY <1>2 DEF Inv, ReturnedIsIssued, Terminal
<1>4. QED
  BY <1>1, <1>2, <1>3 DEF Pool!Issue, SaveAndCommit

\* The transactions of IssueCouponUseCase implement the atomic pool of coupons.
THEOREM RefinesPool == Spec => ImplementsPool
<1>1. Init => Pool!Init
  BY DEF Init, Pool!Init
<1>2. Inv /\ [Next]_vars => [Pool!Next]_(Pool!vars)
  <2> SUFFICES ASSUME Inv, [Next]_vars PROVE [Pool!Next]_(Pool!vars)
    OBVIOUS
  <2>1. CASE \E r \in Requests : SaveAndCommit(r)
    BY <2>1, CommitIsIssue DEF Pool!Next
  <2>2. CASE UNCHANGED <<issued, rows>>
    BY <2>2 DEF Pool!vars
  <2>3. QED
    BY <2>1, <2>2, OnlyCommits
<1>3. QED
  BY <1>1, <1>2, Invariance, PTL DEF Spec, ImplementsPool, Pool!Spec

-----------------------------------------------------------------------------
NewRows(c) == {x \in rows \ SeedRows : x.coupon = c}

Counts == IsFiniteSet(rows) /\ SeedRows \subseteq rows /\ IssuedCounts

LEMMA InitCounts == Init => Counts
<1> SUFFICES ASSUME Init PROVE Counts
  OBVIOUS
<1>1. \A c \in Coupons : NewRows(c) = {}
  BY DEF Init, NewRows
<1>2. \A c \in Coupons : Cardinality(NewRows(c)) = 0 /\ SeedIssued[c] \in Int
  BY <1>1, FS_EmptySet, CouponIssueAssumption
<1>3. QED
  BY <1>2, CouponIssueAssumption
     DEF Init, Counts, IssuedCounts, NewRows

LEMMA NextCounts == Inv /\ Counts /\ [Next]_vars => Counts'
<1> SUFFICES ASSUME Inv, Counts, [Next]_vars PROVE Counts'
  OBVIOUS
<1>1. ASSUME NEW r \in Requests, SaveAndCommit(r) PROVE Counts'
  <2>a. PICK k \in Coupons : k = Coupon(r)
    BY DEF Inv, TypeOK, Coupon
  <2>b. PICK y : y = NewRow(r)
    OBVIOUS
  <2>1. /\ rows' = rows \cup {y}
        /\ y.coupon = k /\ y.by = r
        /\ y \notin rows
        /\ k \in Coupons
        /\ issued' = [issued EXCEPT ![k] = issued[k] + 1]
        /\ issued \in [Coupons -> Int]
    BY <1>1, <2>a, <2>b DEF SaveAndCommit, NewRow, Inv, FreshCoupon, TypeOK, Goto, Coupon
  <2>2. y \notin SeedRows
    BY <2>1, CouponIssueAssumption
  <2>3. IsFiniteSet(rows') /\ SeedRows \subseteq rows'
    BY <2>1, FS_AddElement DEF Counts
  <2>4. \A c \in Coupons : IsFiniteSet(NewRows(c)) /\ Cardinality(NewRows(c)) \in Nat
    BY FS_Subset, FS_CardinalityType DEF Counts, NewRows
  <2>5. NewRows(k)' = NewRows(k) \cup {y} /\ y \notin NewRows(k)
    BY <2>1, <2>2 DEF NewRows
  <2>6. Cardinality(NewRows(k)') = Cardinality(NewRows(k)) + 1
    BY <2>1, <2>4, <2>5, FS_AddElement
  <2>7. \A c \in Coupons \ {k} : NewRows(c)' = NewRows(c) /\ issued'[c] = issued[c]
    BY <2>1 DEF NewRows
  <2>8. \A c \in Coupons : issued[c] = SeedIssued[c] + Cardinality(NewRows(c))
    BY DEF Counts, IssuedCounts, NewRows
  <2>9. \A c \in Coupons : issued'[c] = SeedIssued[c] + Cardinality(NewRows(c)')
    <3>1. issued'[k] = SeedIssued[k] + Cardinality(NewRows(k)')
      <4>1. issued'[k] = issued[k] + 1
        BY <2>1
      <4>2. issued[k] = SeedIssued[k] + Cardinality(NewRows(k))
        BY <2>8
      <4>3. SeedIssued[k] \in Int /\ Cardinality(NewRows(k)) \in Int
        BY <2>4, CouponIssueAssumption
      <4>4. QED
        BY <4>1, <4>2, <4>3, <2>6
    <3>2. QED
      BY <3>1, <2>7, <2>8
  <2>10. QED
    BY <2>3, <2>9 DEF Counts, IssuedCounts, NewRows
<1>2. CASE UNCHANGED <<issued, rows>>
  BY <1>2 DEF Counts, IssuedCounts
<1>3. QED
  BY <1>1, <1>2, OnlyCommits

\* The count of a coupon is the number of user coupons handed out: a lost
\* update, or a count without its row, would show.
THEOREM IssuedCountsHolds == Spec => []IssuedCounts
<1>1. Counts => IssuedCounts
  BY DEF Counts
<1>2. QED
  BY <1>1, InitCounts, NextCounts, Invariance, PTL DEF Spec
=============================================================================
