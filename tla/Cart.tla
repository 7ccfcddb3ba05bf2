-------------------------------- MODULE Cart --------------------------------
(***************************************************************************)
(* The cart of a customer and the requests that change it: add an item,    *)
(* change its quantity, remove it, empty the cart, and the order that      *)
(* takes the whole cart away.                                              *)
(*                                                                         *)
(* Every request reads the cart with its lines, changes the copy in memory *)
(* and writes the copy back in one transaction; nothing locks the cart     *)
(* between the read and the write.  CartPrismaRepository.save finds the    *)
(* row by user but replaces the lines by cart id, so a copy of a cart that *)
(* was deleted meanwhile brings the cart back when there is no other, and  *)
(* breaks the foreign key of its lines when there is.                      *)
(*                                                                         *)
(* Names, prices and time stamps of a line are constant and left out.  The *)
(* stock check of AddCartItem and UpdateCartItem reads counters that other *)
(* customers change at any time: it passes or fails.                       *)
(***************************************************************************)
EXTENDS Integers, FiniteSets, FiniteSetsExt

CONSTANTS
  Users, Options, Requests,
  Quantities,  \* the quantities requests are made with
  SeedLines,   \* the lines a cart can hold to begin with
  NoCart

\* A line is named by the request that created it, or is one of SeedLines.
LineIds == Requests \cup {l.id : l \in SeedLines}
Line == [id : LineIds, option : Options, qty : Nat \ {0}]
\* A cart row is named by the request that created it, or by its user.
CartRow == [id : Requests \cup Users, lines : SUBSET Line]

\* The requests DTOs and entities let through: an added quantity is at least
\* one, a new quantity may be zero.
Operation ==
  [kind : {"add"}, user : Users, option : Options, qty : Quantities \ {0}]
  \cup [kind : {"update"}, user : Users, line : LineIds, qty : Quantities]
  \cup [kind : {"remove"}, user : Users, line : LineIds]
  \cup [kind : {"clear", "order"}, user : Users]

OnePerOption(lines) == \A k, l \in lines : k.option = l.option => k = l

ASSUME CartAssumption ==
  /\ Quantities \subseteq Nat
  /\ SeedLines \subseteq [id : LineIds \ Requests, option : Options, qty : Nat \ {0}]
  /\ OnePerOption(SeedLines)
  /\ \A k, l \in SeedLines : k.id = l.id => k = l
  /\ Requests \cap Users = {}
  /\ NoCart \notin CartRow

VARIABLES
  cart,      \* [Users -> CartRow or NoCart], the committed rows
  pc,        \* where each request is
  req,       \* the operation each request was made with
  copy,      \* the Cart entity each request has in memory
  saved,     \* history: the requests whose write took effect
  expected,  \* history: the quantities the operations add up to, one by one
  disturbed  \* history: the users two of whose requests overlapped

history == <<saved, expected, disturbed>>
vars == <<cart, pc, req, copy, history>>

Steps == {"idle", "validate", "find", "check", "save", "answer", "clear",
          "returned", "threw"}
Running(r) == pc[r] \notin {"idle", "returned", "threw"}

User(r) == req[r].user
Mine(r) == cart[User(r)]
Fresh(r) == [id |-> r, lines |-> {}]

SeedCart(u) == [id |-> u, lines |-> SeedLines]
\* The quantity of every option.
Units(lines) ==
  [o \in Options |-> IF \E l \in lines : l.option = o
                     THEN (CHOOSE l \in lines : l.option = o).qty ELSE 0]

Init ==
  /\ cart \in [Users -> {NoCart} \cup {SeedCart(u) : u \in Users}]
  /\ \A u \in Users : cart[u] \in {NoCart, SeedCart(u)}
  /\ pc = [r \in Requests |-> "idle"]
  /\ req \in [Requests -> Operation]
  /\ copy = [r \in Requests |-> Fresh(r)]
  /\ saved = {}
  /\ expected = [u \in Users |-> Units(IF cart[u] = NoCart THEN {} ELSE SeedLines)]
  /\ disturbed = {}

-----------------------------------------------------------------------------
(***************************************************************************)
(* The Cart entity, on the set of its lines.                               *)
(***************************************************************************)
HasLine(lines, i) == \E l \in lines : l.id = i
LineOf(lines, i) == CHOOSE l \in lines : l.id = i

\* Mutant: every addition becomes a line of its own.
AddItemUnmerged(lines, r, o, q) == lines \cup {[id |-> r, option |-> o, qty |-> q]}

\* addItem: more of an option that is in the cart increases its line.
AddItem(lines, r, o, q) ==
  IF \E l \in lines : l.option = o
  THEN {IF l.option = o THEN [l EXCEPT !.qty = @ + q] ELSE l : l \in lines}
  ELSE lines \cup {[id |-> r, option |-> o, qty |-> q]}

RemoveItem(lines, i) == {l \in lines : l.id # i}

\* Mutant: a line of quantity zero stays.
UpdateItemKeepsZero(lines, i, q) ==
  {IF l.id = i THEN [l EXCEPT !.qty = q] ELSE l : l \in lines}

\* Mutant: the new quantity is added to the old one.
UpdateItemAdds(lines, i, q) ==
  IF q = 0 THEN RemoveItem(lines, i)
  ELSE {IF l.id = i THEN [l EXCEPT !.qty = @ + q] ELSE l : l \in lines}

\* updateItemQuantity: zero removes the line.
UpdateItem(lines, i, q) ==
  IF q = 0 THEN RemoveItem(lines, i)
  ELSE {IF l.id = i THEN [l EXCEPT !.qty = q] ELSE l : l \in lines}

-----------------------------------------------------------------------------
Goto(r, from, to) == pc[r] = from /\ pc' = [pc EXCEPT ![r] = to]
Becomes(r, lines) == copy' = [copy EXCEPT ![r] = [Mine(r) EXCEPT !.lines = lines]]

\* A controller calls the use case.
Call(r) ==
  LET others == {s \in Requests : Running(s) /\ User(s) = User(r)} IN
  /\ Goto(r, "idle", IF req[r].kind = "add" THEN "validate" ELSE "find")
  /\ disturbed' = IF others = {} THEN disturbed ELSE disturbed \cup {User(r)}
  /\ UNCHANGED <<cart, req, copy, saved, expected>>

\* findById and ValidateStockUseCase for the quantity that is added, whatever
\* the cart holds already.
ValidateStock(r) ==
  /\ Goto(r, "validate", "find") \/ Goto(r, "validate", "threw")
  /\ UNCHANGED <<cart, req, copy, history>>

\* AddCartItem: the cart is read, or made, and the item added to it.
FindToAdd(r) ==
  /\ req[r].kind = "add"
  /\ Goto(r, "find", "save")
  /\ LET found == IF Mine(r) = NoCart THEN Fresh(r) ELSE Mine(r) IN
     copy' = [copy EXCEPT ![r] =
                [found EXCEPT !.lines = AddItem(@, r, req[r].option, req[r].qty)]]
  /\ UNCHANGED <<cart, req, history>>

\* UpdateCartItem: only an increase is checked against the stock.
FindToUpdate(r) ==
  /\ req[r].kind = "update"
  /\ IF Mine(r) # NoCart /\ HasLine(Mine(r).lines, req[r].line)
     THEN LET lines == Mine(r).lines IN
          /\ Becomes(r, UpdateItem(lines, req[r].line, req[r].qty))
          /\ Goto(r, "find", IF req[r].qty > LineOf(lines, req[r].line).qty
                             THEN "check" ELSE "save")
     ELSE Goto(r, "find", "threw") /\ UNCHANGED copy
  /\ UNCHANGED <<cart, req, history>>

CheckIncrease(r) ==
  /\ Goto(r, "check", "save") \/ Goto(r, "check", "threw")
  /\ UNCHANGED <<cart, req, copy, history>>

FindToRemove(r) ==
  /\ req[r].kind = "remove"
  /\ IF Mine(r) # NoCart /\ HasLine(Mine(r).lines, req[r].line)
     THEN Becomes(r, RemoveItem(Mine(r).lines, req[r].line)) /\ Goto(r, "find", "save")
     ELSE Goto(r, "find", "threw") /\ UNCHANGED copy
  /\ UNCHANGED <<cart, req, history>>

\* ClearCart: no cart is as good as an empty one.
FindToClear(r) ==
  /\ req[r].kind = "clear"
  /\ IF Mine(r) # NoCart
     THEN Becomes(r, {}) /\ Goto(r, "find", "save")
     ELSE Goto(r, "find", "returned") /\ UNCHANGED copy
  /\ UNCHANGED <<cart, req, history>>

\* CreateOrder reads the cart it will order, and deletes it if all goes well.
FindToOrder(r) ==
  /\ req[r].kind = "order"
  /\ IF Mine(r) # NoCart /\ Mine(r).lines # {}
     THEN Becomes(r, Mine(r).lines) /\ Goto(r, "find", "clear")
     ELSE Goto(r, "find", "threw") /\ UNCHANGED copy
  /\ UNCHANGED <<cart, req, history>>

Find(r) ==
  \/ FindToAdd(r) \/ FindToUpdate(r) \/ FindToRemove(r) \/ FindToClear(r)
  \/ FindToOrder(r)

-----------------------------------------------------------------------------
\* The option of a line, which the line keeps for good.
OptionOf(i) ==
  IF i \in Requests THEN req[i].option ELSE LineOf(SeedLines, i).option

\* What the operation of r does to the quantities, when nothing is in its way.
Effect(r, units) ==
  CASE req[r].kind = "add" -> [units EXCEPT ![req[r].option] = @ + req[r].qty]
    [] req[r].kind = "update" -> [units EXCEPT ![OptionOf(req[r].line)] = req[r].qty]
    [] req[r].kind = "remove" -> [units EXCEPT ![OptionOf(req[r].line)] = 0]
    [] req[r].kind \in {"clear", "order"} -> [o \in Options |-> 0]

TookEffect(r) ==
  /\ saved' = saved \cup {r}
  /\ expected' = IF User(r) \in disturbed THEN expected
                 ELSE [expected EXCEPT ![User(r)] = Effect(r, @)]

\* Mutant: the quantities of the copy are added to those of the rows.
ReplacedAdding(row, mine) ==
  [row EXCEPT !.lines =
     {IF \E k \in row.lines : k.id = l.id
      THEN [l EXCEPT !.qty = @ + LineOf(row.lines, l.id).qty] ELSE l : l \in mine.lines}]

\* deleteMany and createMany, for a row with the id of the copy.
Replaced(row, mine) == [row EXCEPT !.lines = mine.lines]

\* CartPrismaRepository.save: upsert by user, delete and create the lines by
\* cart id, one transaction.  Its answer can be lost.
Save(r) ==
  LET row == Mine(r)
      mine == copy[r] IN
  /\ \/ Goto(r, "save", IF req[r].kind = "add" THEN "answer" ELSE "returned")
     \/ Goto(r, "save", "threw")
  /\ \/ /\ row = NoCart
        /\ cart' = [cart EXCEPT ![User(r)] = mine]
     \/ /\ row # NoCart /\ row.id = mine.id
        /\ cart' = [cart EXCEPT ![User(r)] = Replaced(row, mine)]
     \/ /\ row # NoCart /\ row.id # mine.id /\ mine.lines = {}
        /\ UNCHANGED cart
  /\ TookEffect(r)
  /\ UNCHANGED <<req, copy, disturbed>>

\* The transaction fails and is rolled back: on the foreign key, on the unique
\* user, or for any other reason.
SaveFails(r) ==
  /\ Goto(r, "save", "threw")
  /\ UNCHANGED <<cart, req, copy, history>>

\* The saved cart is read again, and must still hold the line of the answer.
Answer(r) ==
  /\ pc[r] = "answer"
  /\ IF Mine(r) # NoCart /\ \E k \in copy[r].lines : /\ k.option = req[r].option
                                                     /\ HasLine(Mine(r).lines, k.id)
     THEN Goto(r, "answer", "returned")
     ELSE Goto(r, "answer", "threw")
  /\ UNCHANGED <<cart, req, copy, history>>

\* clearByUserId deletes the cart the user has by now; a step of CreateOrder
\* before it can fail.
ClearByUserId(r) ==
  /\ \/ /\ Mine(r) # NoCart
        /\ Goto(r, "clear", "returned") \/ Goto(r, "clear", "threw")
        /\ cart' = [cart EXCEPT ![User(r)] = NoCart]
        /\ TookEffect(r)
     \/ /\ Goto(r, "clear", "threw")
        /\ UNCHANGED <<cart, saved, expected>>
  /\ UNCHANGED <<req, copy, disturbed>>

Next ==
  \E r \in Requests :
    \/ Call(r) \/ ValidateStock(r) \/ Find(r) \/ CheckIncrease(r)
    \/ Save(r) \/ SaveFails(r) \/ Answer(r) \/ ClearByUserId(r)

Spec == Init /\ [][Next]_vars

-----------------------------------------------------------------------------
\* Types of the variables.
TypeOK ==
  /\ cart \in [Users -> CartRow \cup {NoCart}]
  /\ pc \in [Requests -> Steps]
  /\ req \in [Requests -> Operation]
  /\ copy \in [Requests -> CartRow]
  /\ saved \subseteq Requests
  /\ expected \in [Users -> [Options -> Nat]]
  /\ disturbed \subseteq Users

Lines(u) == IF cart[u] = NoCart THEN {} ELSE cart[u].lines

\* A cart holds one line per option, and a line has one id, whatever stale
\* copies were written: the merge of equal options survives every interleaving.
OneLinePerOption ==
  \A u \in Users : \A k, l \in Lines(u) : k.option = l.option \/ k.id = l.id => k = l

\* The lines are these quantities, and none for nothing.
Amounts(lines, units) ==
  \A o \in Options :
    \/ units[o] = 0 /\ \A l \in lines : l.option # o
    \/ \E l \in lines : l.option = o /\ l.qty = units[o]

\* As long as no two requests of a user overlapped, the cart holds exactly what
\* the operations that took effect add up to, lost answers and failed saves
\* included; and an order or a clear leaves nothing behind.
AloneIsExact ==
  \A u \in Users \ disturbed : Amounts(Lines(u), expected[u])

\* The additions of an option, and the changes of its quantity, among requests.
Added(done, u, o) ==
  {r \in done : req[r].kind = "add" /\ User(r) = u /\ req[r].option = o}
Updated(done, u, o) ==
  {r \in done : req[r].kind = "update" /\ User(r) = u /\ OptionOf(req[r].line) = o}

\* A quantity that was there or was set once, and every addition once.
Limit(done, u, o) ==
  LET bases == {0} \cup {s.qty : s \in {s \in SeedLines : s.option = o}}
                   \cup {req[r].qty : r \in Updated(done, u, o)}
  IN Max(bases) + SumFunction([r \in Added(done, u, o) |-> req[r].qty])

\* However requests overlap, no addition is counted twice: a line holds at most
\* what the requests that took effect can have put into it.
NothingInvented ==
  \A u \in Users : \A l \in Lines(u) : l.qty <= Limit(saved, u, l.option)
=============================================================================
