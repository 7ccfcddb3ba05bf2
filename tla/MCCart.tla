------------------------------- MODULE MCCart -------------------------------
(***************************************************************************)
(* A small instance of Cart: one customer, a cart that is missing or holds *)
(* one line, and requests of every kind.                                   *)
(***************************************************************************)
EXTENDS Cart, TLC

CONSTANTS ann, black, white, old, r1, r2, r3

MCSeedLines == {[id |-> old, option |-> black, qty |-> 2]}

Symmetry == Permutations({r1, r2, r3})
=============================================================================
