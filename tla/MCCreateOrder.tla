--------------------------- MODULE MCCreateOrder ---------------------------
(***************************************************************************)
(* A small instance of CreateOrder: ann's cart has two options, bob's one   *)
(* of them, and there are not enough units for everybody.                  *)
(***************************************************************************)
EXTENDS CreateOrder, TLC

CONSTANTS ann, bob, black, white, half, gift, c1, c2, c3

MCOptions == {black, white}

Line(o) == [option |-> o, qty |-> 1]
MCCarts == [u \in Users |->
  IF u = ann THEN [items |-> <<Line(black), Line(white)>>, total |-> 4]
             ELSE [items |-> <<Line(white)>>, total |-> 1]]

Row(n) == [total |-> n, available |-> n, reserved |-> 0, sold |-> 0]
\* Two units of each: the third reservation of the white option is refused.
MCScarce == [o \in MCOptions |-> Row(2)]

\* Half the price of ann's cart; a gift that is worth more than bob's.
MCCouponData == [k \in Coupons |->
  IF k = half THEN [owner |-> ann, type |-> "PERCENTAGE", value |-> 50, min |-> 2]
              ELSE [owner |-> bob, type |-> "FIXED", value |-> 5, min |-> 0]]

From(u, k) == [user |-> u, coupon |-> k]

\* Ann orders twice with the same coupon.
MCTwice == [c \in Calls |-> IF c = c3 THEN From(bob, gift) ELSE From(ann, half)]
=============================================================================
