--------------------------- MODULE MCCouponIssue ---------------------------
(***************************************************************************)
(* Three calls by two users for two coupons: of gold two are left, of      *)
(* silver one.  The user the seed gave gold to calls no more; the others   *)
(* silver was counted for have no row, as in prisma/seed.ts.               *)
(***************************************************************************)
EXTENDS CouponIssue, TLC

CONSTANTS r1, r2, r3, u1, u2, u3, gold, silver, seed

MCTotal == [c \in Coupons |-> 3]
MCSeedIssued == [c \in Coupons |-> IF c = gold THEN 1 ELSE 2]
MCSeedRows == {[by |-> seed, user |-> u3, coupon |-> gold]}
MCSeedPeriod == [c \in Coupons |-> IF c = gold THEN "before" ELSE "within"]

Symmetry == Permutations(Requests) \cup Permutations(Users)
=============================================================================
