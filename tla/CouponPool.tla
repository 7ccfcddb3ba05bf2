---------------------------- MODULE CouponPool ----------------------------
(***************************************************************************)
(* What issuing coupons promises, without locks or transactions: a coupon  *)
(* goes to a user at most once, in one step with its count, and only while *)
(* some are left.  CouponIssue implements this specification.              *)
(***************************************************************************)
EXTENDS Integers

CONSTANTS
  Requests,    \* calls of IssueCouponUseCase
  Users, Coupons,
  Total,       \* [Coupons -> Int], how many of each there are
  SeedIssued,  \* [Coupons -> Int], the counts the database starts with
  SeedRows     \* the user coupons it starts with

VARIABLES
  issued,      \* [Coupons -> Int], issuedQuantity
  rows         \* the user_coupons rows, named by the call that inserted them

vars == <<issued, rows>>

Row == [by : Requests, user : Users, coupon : Coupons]

Init == issued = SeedIssued /\ rows = SeedRows

Issue(row) ==
  /\ \A other \in rows :
       /\ other.by # row.by
       /\ ~(other.user = row.user /\ other.coupon = row.coupon)
  /\ issued[row.coupon] < Total[row.coupon]
  /\ rows' = rows \cup {row}
  /\ issued' = [issued EXCEPT ![row.coupon] = @ + 1]

Next == \E row \in Row : Issue(row)

Spec == Init /\ [][Next]_vars

-----------------------------------------------------------------------------
\* BR-COUPON-01: nobody has a coupon twice.
OnePerUser ==
  \A x, y \in rows : x.user = y.user /\ x.coupon = y.coupon => x = y

\* BR-COUPON-02: no more than there are, or than the seed already counted.
NeverExceeded ==
  \A c \in Coupons : issued[c] <= Total[c] \/ issued[c] = SeedIssued[c]
=============================================================================
