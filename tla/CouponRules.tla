----------------------------- MODULE CouponRules -----------------------------
(***************************************************************************)
(* What a coupon is worth (CouponService.calculateDiscount), for the       *)
(* modules in which a coupon is used.                                      *)
(***************************************************************************)
EXTENDS Integers

\* calculateDiscount.  The rate is divided by 100 in floating point before it
\* is multiplied and cut, so a percentage that is a whole amount can come out
\* one lower.
Discounts(k, total) ==
  LET hundredfold == total * k.value IN
  IF k.type = "FIXED"
  THEN {IF k.value < total THEN k.value ELSE total}
  ELSE {hundredfold \div 100} \cup
       {d \in {hundredfold \div 100 - 1} : hundredfold > 0 /\ hundredfold % 100 = 0}
=============================================================================
