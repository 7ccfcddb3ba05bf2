---------------------------- MODULE StockLedger ----------------------------
(***************************************************************************)
(* What the stock use cases promise their callers, without locks or        *)
(* transactions: each request moves its units of one option, at once, at   *)
(* most once, and only when the entity allows it.  StockTx implements this *)
(* specification; OrderFlow uses its operations as single steps.           *)
(***************************************************************************)
EXTENDS StockEntity, FiniteSets, FiniteSetsExt

CONSTANTS
  Requests,    \* calls of the three use cases
  Options,     \* product options, each with one stock row
  Quantities,  \* quantities a caller may ask for
  Seed         \* [Options -> StockRow], the rows the database starts with,
               \* each of them valid and balanced

Operation == [kind : Kinds, option : Options, qty : Quantities]

VARIABLES
  stock,       \* the committed rows
  ledger       \* the requests applied so far, with what each one did

vars == <<stock, ledger>>

Init == stock = Seed /\ ledger = {}

Apply(r, op) ==
  /\ \A e \in ledger : e.by # r
  /\ Allowed(op.kind, stock[op.option], op.qty)
  /\ stock' = [stock EXCEPT ![op.option] = Moved(op.kind, @, op.qty)]
  /\ ledger' = ledger \cup {[by |-> r, op |-> op]}

Next == \E r \in Requests, op \in Operation : Apply(r, op)

Spec == Init /\ [][Next]_vars

-----------------------------------------------------------------------------
\* No unit of any option is ever created, destroyed or borrowed: the counters
\* of a row always add up to its total and none is negative, so Stock.create
\* can rehydrate every row the database holds.
Conservation == \A o \in Options : Valid(stock[o]) /\ Balanced(stock[o])

\* The units the ledger moved from or to option o by movements of one kind.
Units(o, kind) ==
  SumFunction([e \in {e \in ledger : e.op.option = o /\ e.op.kind = kind} |-> e.op.qty])

\* The counters are exactly the seed plus every movement that was applied: a
\* lost update, a sibling row overwritten with an old copy or a movement that
\* is applied twice shows up here even when the row still balances.
Accounting ==
  \A o \in Options :
    /\ stock[o].total = Seed[o].total
    /\ stock[o].available =
         Seed[o].available - Units(o, "reserve") + Units(o, "release")
    /\ stock[o].sold = Seed[o].sold + Units(o, "confirm")
    /\ stock[o].reserved = Seed[o].reserved + Units(o, "reserve")
                             - Units(o, "release") - Units(o, "confirm")
=============================================================================
