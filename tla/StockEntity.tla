---------------------------- MODULE StockEntity ----------------------------
(***************************************************************************)
(* The Stock entity (src/product/domain/entities/stock.entity.ts): one row *)
(* of counters per product option and the three movements between them.    *)
(*                                                                         *)
(* The entity's version counter is left out: every movement increments it  *)
(* and saveWithTx writes it, but nothing reads it to decide anything.      *)
(***************************************************************************)
EXTENDS Integers

StockRow == [total : Int, available : Int, reserved : Int, sold : Int]

ZeroRow == [total |-> 0, available |-> 0, reserved |-> 0, sold |-> 0]

\* validate(): what the constructor, hence Stock.create, insists on.
Valid(s) ==
  /\ s.total >= 0
  /\ s.available >= 0
  /\ s.reserved >= 0
  /\ s.sold >= 0
  /\ s.available + s.reserved + s.sold <= s.total

\* Stock.initialize and every seed row start balanced; no movement is meant
\* to create or destroy a unit.
Balanced(s) == s.available + s.reserved + s.sold = s.total

Kinds == {"reserve", "release", "confirm"}

\* The counter a movement takes its units from.
Source(kind, s) == IF kind = "reserve" THEN s.available ELSE s.reserved

\* The two checks at the head of reserve, restoreReserved and sell.
Allowed(kind, s, qty) == qty > 0 /\ qty <= Source(kind, s)

\* Mutant: sell() forgets to take the units out of the reserved counter.
MovedSellKeepsReserved(kind, s, qty) ==
  CASE kind = "reserve" ->
         [s EXCEPT !.available = @ - qty, !.reserved = @ + qty]
    [] kind = "release" ->
         [s EXCEPT !.reserved = @ - qty, !.available = @ + qty]
    [] kind = "confirm" ->
         [s EXCEPT !.sold = @ + qty]

\* The assignments that follow them.
Moved(kind, s, qty) ==
  CASE kind = "reserve" ->
         [s EXCEPT !.available = @ - qty, !.reserved = @ + qty]
    [] kind = "release" ->
         [s EXCEPT !.reserved = @ - qty, !.available = @ + qty]
    [] kind = "confirm" ->
         [s EXCEPT !.reserved = @ - qty, !.sold = @ + qty]
=============================================================================
