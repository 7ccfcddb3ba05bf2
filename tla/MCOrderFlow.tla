---------------------------- MODULE MCOrderFlow ----------------------------
(***************************************************************************)
(* Small instances of OrderFlow: order a of two options and order b, which *)
(* reserves units of one of them, so that units taken from the wrong       *)
(* reservation are missed by somebody.                                     *)
(***************************************************************************)
EXTENDS OrderFlow, TLC

CONSTANTS a, b, black, white, c1, c2, c3, j1, key1, key2

MCOptions == {black, white}
MCItems == [x \in Orders |->
             IF x = a THEN << [option |-> black, qty |-> 1],
                              [option |-> white, qty |-> 1] >>
                      ELSE << [option |-> black, qty |-> 1] >>]

Wants(x, o) == \E i \in DOMAIN MCItems[x] : MCItems[x][i].option = o

\* Every order holds its reservation.
MCSeed == [o \in MCOptions |->
            LET held == Cardinality({x \in Orders : Wants(x, o)})
            IN [total |-> held, available |-> 0, reserved |-> held, sold |-> 0]]

On(x, key) == [order |-> x, key |-> key]
\* Two calls for order a, with keys of their own.
MCDistinct == [c \in Calls |-> IF c = c1 THEN On(a, key1) ELSE On(a, key2)]
\* The call for order a is repeated with its key; another call is for order b.
MCRepeated == [c \in Calls |-> IF c = c3 THEN On(b, key2) ELSE On(a, key1)]
=============================================================================
