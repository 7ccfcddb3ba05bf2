----------------------------- MODULE MCStockTx -----------------------------
(***************************************************************************)
(* A small instance of StockTx: two options of one product and one option  *)
(* of another, with part of the units reserved or sold, as the seeded      *)
(* orders of prisma/seed.ts leave them.                                    *)
(***************************************************************************)
EXTENDS StockTx

CONSTANTS r1, r2, black, white, other, phone, laptop

MCOptions == {black, white, other}
MCProductOf == [o \in MCOptions |-> IF o = other THEN laptop ELSE phone]

Row(available, reserved, sold) ==
  [total |-> available + reserved + sold,
   available |-> available, reserved |-> reserved, sold |-> sold]

MCSeed == [o \in MCOptions |-> IF o = black THEN Row(2, 1, 1) ELSE Row(1, 1, 0)]
=============================================================================
