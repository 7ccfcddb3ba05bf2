----------------------------- MODULE CartProofs -----------------------------
(***************************************************************************)
(* Proofs about Cart, for any customers, options, requests, quantities and *)
(* seeds.                                                                  *)
(***************************************************************************)
EXTENDS Cart, BaseLemmas

-----------------------------------------------------------------------------
(***************************************************************************)
(* The operators of the entity, on sets of lines with one line per option. *)
(***************************************************************************)
OneEach(lines) ==
  \A k, l \in lines : k.option = l.option \/ k.id = l.id => k = l

LEMMA AddItemLines ==
  ASSUME NEW lines \in SUBSET Line, OneEach(lines),
         NEW r \in Requests, \A l \in lines : l.id # r,
         NEW o \in Options, NEW q \in Nat \ {0}
  PROVE  /\ AddItem(lines, r, o, q) \in SUBSET Line
         /\ OneEach(AddItem(lines, r, o, q))
         /\ \A l \in AddItem(lines, r, o, q) : l.id = r \/ \E k \in lines : k.id = l.id
<1> DEFINE new == [id |-> r, option |-> o, qty |-> q]
           more(l) == IF l.option = o THEN [l EXCEPT !.qty = @ + q] ELSE l
<1>1. new \in Line /\ new.id = r /\ new.option = o
  BY DEF Line, LineIds
<1>2. \A l \in lines : /\ more(l) \in Line
                       /\ more(l).id = l.id /\ more(l).option = l.option
  BY DEF Line
<1>3. CASE \E l \in lines : l.option = o
  <2>1. AddItem(lines, r, o, q) = {more(l) : l \in lines}
    BY <1>3 DEF AddItem
  <2> HIDE DEF more
  <2>2. QED
    BY <1>2, <2>1 DEF OneEach
<1>4. CASE ~\E l \in lines : l.option = o
  <2>1. AddItem(lines, r, o, q) = lines \cup {new}
    BY <1>4 DEF AddItem
  <2> HIDE DEF new
  <2>2. QED
    BY <1>1, <1>4, <2>1 DEF OneEach
<1>5. QED
  BY <1>3, <1>4

LEMMA RemoveItemLines ==
  ASSUME NEW lines \in SUBSET Line, OneEach(lines), NEW i
  PROVE  /\ RemoveItem(lines, i) \in SUBSET lines
         /\ OneEach(RemoveItem(lines, i))
BY DEF RemoveItem, OneEach

LEMMA UpdateItemLines ==
  ASSUME NEW lines \in SUBSET Line, OneEach(lines), NEW i, NEW q \in Nat
  PROVE  /\ UpdateItem(lines, i, q) \in SUBSET Line
         /\ OneEach(UpdateItem(lines, i, q))
         /\ \A l \in UpdateItem(lines, i, q) : \E k \in lines : k.id = l.id
<1> DEFINE new(l) == IF l.id = i THEN [l EXCEPT !.qty = q] ELSE l
<1>1. CASE q = 0
  BY <1>1, RemoveItemLines DEF UpdateItem
<1>2. CASE q # 0
  <2>1. \A l \in lines : new(l) \in Line /\ new(l).id = l.id /\ new(l).option = l.option
    BY <1>2 DEF Line
  <2>2. UpdateItem(lines, i, q) = {new(l) : l \in lines}
    BY <1>2 DEF UpdateItem
  <2> HIDE DEF new
  <2>3. QED
    BY <2>1, <2>2 DEF OneEach
<1>3. QED
  BY <1>1, <1>2

-----------------------------------------------------------------------------
(***************************************************************************)
(* The inductive invariant: the copies in memory are as good as the rows,  *)
(* and a request that has not read the cart has left no line anywhere.     *)
(***************************************************************************)
Early == {"idle", "validate", "find"}

\* Rows and copies hold one line per option, made by requests that add and have
\* read their cart (made and at are req and pc).
Sound(lines, made, at) ==
  /\ OneEach(lines)
  /\ \A l \in lines : l.id \in Requests => made[l.id].kind = "add" /\ at[l.id] \notin Early

\* A request that found its line knows the line's option, and only an order
\* deletes a cart.
Known(r) ==
  /\ pc[r] \in {"check", "save"} /\ req[r].kind \in {"update", "remove"} =>
       OptionOf(req[r].line) \in Options
  /\ pc[r] = "clear" => req[r].kind = "order"

IInv ==
  /\ TypeOK
  /\ \A u \in Users : Sound(Lines(u), req, pc)
  /\ \A r \in Requests : Sound(copy[r].lines, req, pc) /\ Known(r)

\* What a request is made with.
LEMMA RequestType ==
  ASSUME TypeOK, NEW r \in Requests
  PROVE  /\ req[r] \in Operation
         /\ User(r) \in Users
         /\ req[r].kind \in {"add", "update", "remove", "clear", "order"}
         /\ req[r].kind = "add" => req[r].option \in Options /\ req[r].qty \in Nat \ {0}
         /\ req[r].kind = "update" => req[r].line \in LineIds /\ req[r].qty \in Nat
         /\ req[r].kind = "remove" => req[r].line \in LineIds
<1>1. req[r] \in Operation
  BY DEF TypeOK
<1>2. QED
  BY <1>1, CartAssumption DEF Operation, User

LEMMA RowType ==
  ASSUME TypeOK, NEW u \in Users, cart[u] # NoCart
  PROVE  /\ cart[u] \in CartRow /\ cart[u].lines \in SUBSET Line
         /\ Lines(u) = cart[u].lines
BY DEF TypeOK, CartRow, Lines

\* The option of a line that is in a sound set.
LEMMA OptionType ==
  ASSUME TypeOK, NEW lines \in SUBSET Line, Sound(lines, req, pc), NEW i, HasLine(lines, i)
  PROVE  OptionOf(i) \in Options
<1>1. PICK l \in lines : l.id = i
  BY DEF HasLine
<1>2. CASE i \in Requests
  BY <1>1, <1>2, RequestType DEF Sound, OptionOf
<1>3. CASE i \notin Requests
  <2>1. \E s \in SeedLines : s.id = i
    BY <1>1, <1>3 DEF Line, LineIds
  <2>2. LineOf(SeedLines, i) \in SeedLines
    BY <2>1 DEF LineOf
  <2>3. QED
    BY <1>3, <2>2, CartAssumption DEF OptionOf
<1>4. QED
  BY <1>2, <1>3

\* What is expected stays a quantity per option.
LEMMA EffectType ==
  ASSUME IInv, NEW r \in Requests, TookEffect(r),
         pc[r] \in {"save", "clear"}
  PROVE  saved' \subseteq Requests /\ expected' \in [Users -> [Options -> Nat]]
<1>1. \A units \in [Options -> Nat] : Effect(r, units) \in [Options -> Nat]
  <2> TAKE units \in [Options -> Nat]
  <2>1. CASE req[r].kind = "add"
    BY <2>1, RequestType DEF Effect, IInv
  <2>2. CASE req[r].kind \in {"update", "remove"}
    <3>1. OptionOf(req[r].line) \in Options
      BY <2>2 DEF IInv, Known
    <3>2. req[r].kind = "update" => req[r].qty \in Nat
      BY RequestType DEF IInv
    <3>3. QED
      BY <2>2, <3>1, <3>2 DEF Effect
  <2>3. CASE req[r].kind \in {"clear", "order"}
    BY <2>3 DEF Effect
  <2>4. QED
    BY <2>1, <2>2, <2>3, RequestType DEF IInv
<1>2. QED
  BY <1>1, RequestType DEF TookEffect, IInv, TypeOK

-----------------------------------------------------------------------------
(***************************************************************************)
(* Types.                                                                  *)
(***************************************************************************)
LEMMA InitTypeOK == Init => TypeOK
<1> SUFFICES ASSUME Init PROVE TypeOK
  OBVIOUS
<1>1. \A s \in SeedLines : s \in Line
  BY CartAssumption DEF Line, LineIds
<1>2. \A u \in Users : SeedCart(u) \in CartRow
  BY <1>1 DEF SeedCart, CartRow
<1>3. \A lines \in SUBSET Line : Units(lines) \in [Options -> Nat]
  <2> TAKE lines \in SUBSET Line
  <2>1. \A o \in Options : (\E l \in lines : l.option = o) =>
                           (CHOOSE l \in lines : l.option = o).qty \in Nat
    BY DEF Line
  <2>2. QED
    BY <2>1 DEF Units
<1>4. {} \in SUBSET Line /\ SeedLines \in SUBSET Line
  BY <1>1
<1>5. expected \in [Users -> [Options -> Nat]]
  <2>1. \A u \in Users :
          Units(IF cart[u] = NoCart THEN {} ELSE SeedLines) \in [Options -> Nat]
    BY <1>3, <1>4
  <2>2. expected = [u \in Users |-> Units(IF cart[u] = NoCart THEN {} ELSE SeedLines)]
    BY DEF Init
  <2> HIDE DEF Units
  <2>3. QED
    BY <2>1, <2>2
<1>6. copy \in [Requests -> CartRow]
  BY DEF Init, Fresh, CartRow
<1>7. cart \in [Users -> CartRow \cup {NoCart}]
  BY <1>2 DEF Init
<1>8. QED
  BY <1>5, <1>6, <1>7 DEF Init, TypeOK, Steps

\* A copy with other lines.
LEMMA BecomesType ==
  ASSUME TypeOK, NEW r \in Requests, Mine(r) # NoCart,
         NEW lines \in SUBSET Line, Becomes(r, lines)
  PROVE  /\ copy' \in [Requests -> CartRow]
         /\ copy'[r].lines = lines
         /\ \A q \in Requests \ {r} : copy'[q] = copy[q]
<1>1. Mine(r) \in CartRow
  BY RequestType, RowType DEF Mine
<1>2. [Mine(r) EXCEPT !.lines = lines] \in CartRow
  BY <1>1 DEF CartRow
<1>3. [Mine(r) EXCEPT !.lines = lines].lines = lines
  BY <1>1 DEF CartRow
<1>4. QED
  BY <1>2, <1>3 DEF TypeOK, Becomes

-----------------------------------------------------------------------------
(***************************************************************************)
(* Steps.                                                                  *)
(***************************************************************************)
LEMMA SoundKept ==
  ASSUME NEW lines, Sound(lines, req, pc),
         \A q \in Requests : pc'[q] \in Early => pc[q] \in Early
  PROVE  Sound(lines, req, pc')
BY DEF Sound

\* A step that leaves the rows and the copies alone.
LEMMA StillInv ==
  ASSUME IInv, TypeOK', UNCHANGED <<cart, req, copy>>,
         \A q \in Requests :
           /\ pc'[q] \in Early => pc[q] \in Early
           /\ pc'[q] \in {"check", "save"} => pc[q] \in {"check", "save"}
           /\ pc'[q] = "clear" => pc[q] = "clear"
  PROVE  IInv'
<1>1. \A u \in Users : Sound(Lines(u)', req, pc')
  BY SoundKept DEF IInv, Lines
<1>2. \A r \in Requests : Sound(copy'[r].lines, req, pc')
  BY SoundKept DEF IInv
<1>3. \A r \in Requests : Known(r)'
  BY DEF IInv, Known, OptionOf
<1>4. QED
  BY <1>1, <1>2, <1>3 DEF IInv

\* A request reads the cart and changes its copy.
LEMMA ReadInv ==
  ASSUME IInv, NEW r \in Requests, copy' \in [Requests -> CartRow],
         NEW to \in {"check", "save", "clear"}, pc[r] = "find",
         pc' = [pc EXCEPT ![r] = to], UNCHANGED <<cart, req, history>>,
         \A q \in Requests \ {r} : copy'[q] = copy[q],
         OneEach(copy'[r].lines),
         \A l \in copy'[r].lines :
           \/ l.id = r /\ req[r].kind = "add"
           \/ \E k \in Lines(User(r)) : k.id = l.id,
         req[r].kind \in {"update", "remove"} => OptionOf(req[r].line) \in Options,
         to = "clear" => req[r].kind = "order"
  PROVE  IInv'
<1>1. TypeOK'
  BY DEF IInv, TypeOK, history, Steps
<1>2. /\ pc'[r] = to /\ to \notin Early
      /\ \A q \in Requests \ {r} : pc'[q] = pc[q]
  BY DEF IInv, TypeOK, Early
<1>3. \A q \in Requests : pc'[q] \in Early => pc[q] \in Early
  BY <1>2
<1>4. \A u \in Users : Sound(Lines(u)', req, pc')
  BY <1>3, SoundKept DEF IInv, Lines
<1>5. Sound(copy'[r].lines, req, pc')
  <2>1. Sound(Lines(User(r)), req, pc')
    BY <1>3, SoundKept, RequestType DEF IInv
  <2>2. QED
    BY <1>2, <2>1 DEF Sound
<1>6. \A q \in Requests : Sound(copy'[q].lines, req, pc')
  BY <1>3, <1>5, SoundKept DEF IInv
<1>7. \A q \in Requests : Known(q)'
  BY <1>2 DEF IInv, Known, OptionOf
<1>8. QED
  BY <1>1, <1>4, <1>6, <1>7 DEF IInv

\* ... the lines of which come from the cart.
LEMMA ChangeInv ==
  ASSUME IInv, NEW r \in Requests, Mine(r) # NoCart,
         NEW lines \in SUBSET Line, Becomes(r, lines), OneEach(lines),
         \A l \in lines : \E k \in Mine(r).lines : k.id = l.id,
         NEW to \in {"check", "save", "clear"}, pc[r] = "find",
         pc' = [pc EXCEPT ![r] = to], UNCHANGED <<cart, req, history>>,
         req[r].kind \in {"update", "remove"} => OptionOf(req[r].line) \in Options,
         to = "clear" => req[r].kind = "order"
  PROVE  IInv'
<1>1. /\ copy' \in [Requests -> CartRow] /\ copy'[r].lines = lines
      /\ \A q \in Requests \ {r} : copy'[q] = copy[q]
  BY BecomesType DEF IInv
<1>2. Lines(User(r)) = Mine(r).lines
  BY RequestType, RowType DEF IInv, Mine
<1>3. OneEach(copy'[r].lines)
  BY <1>1
<1>4. \A l \in copy'[r].lines : \E k \in Lines(User(r)) : k.id = l.id
  BY <1>1, <1>2
<1>5. QED
  BY <1>1, <1>3, <1>4, ReadInv

LEMMA FindInv ==
  ASSUME IInv, NEW r \in Requests, Find(r)
  PROVE  IInv'
<1> USE DEF Goto
<1>0. TypeOK /\ Mine(r) = cart[User(r)] /\ User(r) \in Users
  BY RequestType DEF IInv, Mine
<1>1. Mine(r) # NoCart => /\ Mine(r).lines \in SUBSET Line
                          /\ Sound(Mine(r).lines, req, pc)
                          /\ Lines(User(r)) = Mine(r).lines
  BY <1>0, RowType DEF IInv
<1>2. CASE FindToAdd(r)
  <2> DEFINE found == IF Mine(r) = NoCart THEN Fresh(r) ELSE Mine(r)
             lines == AddItem(found.lines, r, req[r].option, req[r].qty)
  <2>1. found \in CartRow
    BY <1>0, RowType DEF Fresh, CartRow
  <2>2. /\ found.lines \in SUBSET Line
        /\ found.lines = Lines(User(r))
        /\ Sound(found.lines, req, pc)
    BY <1>0, <1>1 DEF Fresh, Lines, Sound, OneEach
  <2>3. pc[r] = "find" /\ req[r].kind = "add" /\ pc' = [pc EXCEPT ![r] = "save"]
    BY <1>2 DEF FindToAdd
  <2>4. \A l \in found.lines : l.id # r
    BY <2>2, <2>3 DEF Sound, Early
  <2>5. /\ lines \in SUBSET Line /\ OneEach(lines)
        /\ \A l \in lines : l.id = r \/ \E k \in found.lines : k.id = l.id
    <3>1. req[r].option \in Options /\ req[r].qty \in Nat \ {0}
      BY <1>0, <2>3, RequestType
    <3> HIDE DEF found
    <3>2. QED
      BY <2>2, <2>4, <3>1, AddItemLines DEF Sound
  <2>6. copy' = [copy EXCEPT ![r] = [found EXCEPT !.lines = lines]]
    BY <1>2 DEF FindToAdd
  <2> HIDE DEF found, lines
  <2>7. [found EXCEPT !.lines = lines] \in CartRow /\ [found EXCEPT !.lines = lines].lines = lines
    BY <2>1, <2>5 DEF CartRow
  <2>8. /\ copy' \in [Requests -> CartRow] /\ copy'[r].lines = lines
        /\ \A q \in Requests \ {r} : copy'[q] = copy[q]
    BY <1>0, <2>6, <2>7 DEF TypeOK
  <2>9. UNCHANGED <<cart, req, history>>
    BY <1>2 DEF FindToAdd
  <2>10. OneEach(copy'[r].lines)
    BY <2>5, <2>8
  <2>11. \A l \in copy'[r].lines : \/ l.id = r /\ req[r].kind = "add"
                                   \/ \E k \in Lines(User(r)) : k.id = l.id
    BY <2>2, <2>3, <2>5, <2>8
  <2>12. QED
    BY <2>3, <2>8, <2>9, <2>10, <2>11, ReadInv
<1>3. CASE FindToUpdate(r)
  <2>1. CASE Mine(r) # NoCart /\ HasLine(Mine(r).lines, req[r].line)
    <3> DEFINE lines == UpdateItem(Mine(r).lines, req[r].line, req[r].qty)
    <3>1. PICK to \in {"check", "save"} : pc[r] = "find" /\ pc' = [pc EXCEPT ![r] = to]
      BY <1>3, <2>1 DEF FindToUpdate
    <3>2. /\ lines \in SUBSET Line /\ OneEach(lines)
          /\ \A l \in lines : \E k \in Mine(r).lines : k.id = l.id
      <4>1. req[r].qty \in Nat
        BY <1>0, <1>3, RequestType DEF FindToUpdate
      <4>2. QED
        BY <1>1, <2>1, <4>1, UpdateItemLines DEF Sound
    <3>3. OptionOf(req[r].line) \in Options
      BY <1>0, <1>1, <2>1, OptionType
    <3>4. Becomes(r, lines) /\ UNCHANGED <<cart, req, history>> /\ req[r].kind = "update"
      BY <1>3, <2>1 DEF FindToUpdate
    <3> HIDE DEF lines
    <3>5. QED
      BY <2>1, <3>1, <3>2, <3>3, <3>4, ChangeInv
  <2>2. CASE ~(Mine(r) # NoCart /\ HasLine(Mine(r).lines, req[r].line))
    <3>1. /\ pc' = [pc EXCEPT ![r] = "threw"]
          /\ UNCHANGED <<cart, req, copy, history>>
      BY <1>3, <2>2 DEF FindToUpdate
    <3>2. TypeOK'
      BY <1>0, <3>1 DEF TypeOK, history, Steps
    <3>3. QED
      BY <1>0, <3>1, <3>2, StillInv DEF TypeOK, Early
  <2>3. QED
    BY <2>1, <2>2
<1>4. CASE FindToRemove(r)
  <2>1. CASE Mine(r) # NoCart /\ HasLine(Mine(r).lines, req[r].line)
    <3> DEFINE lines == RemoveItem(Mine(r).lines, req[r].line)
    <3>1. pc[r] = "find" /\ pc' = [pc EXCEPT ![r] = "save"]
      BY <1>4, <2>1 DEF FindToRemove
    <3>2. lines \in SUBSET Mine(r).lines /\ OneEach(lines)
      BY <1>1, <2>1, RemoveItemLines DEF Sound
    <3>3. OptionOf(req[r].line) \in Options
      BY <1>0, <1>1, <2>1, OptionType
    <3>4. Becomes(r, lines) /\ UNCHANGED <<cart, req, history>> /\ req[r].kind = "remove"
      BY <1>4, <2>1 DEF FindToRemove
    <3>5. lines \in SUBSET Line /\ \A l \in lines : \E k \in Mine(r).lines : k.id = l.id
      BY <1>1, <2>1, <3>2
    <3> HIDE DEF lines
    <3>6. QED
      BY <2>1, <3>1, <3>2, <3>3, <3>4, <3>5, ChangeInv
  <2>2. CASE ~(Mine(r) # NoCart /\ HasLine(Mine(r).lines, req[r].line))
    <3>1. /\ pc' = [pc EXCEPT ![r] = "threw"]
          /\ UNCHANGED <<cart, req, copy, history>>
      BY <1>4, <2>2 DEF FindToRemove
    <3>2. TypeOK'
      BY <1>0, <3>1 DEF TypeOK, history, Steps
    <3>3. QED
      BY <1>0, <3>1, <3>2, StillInv DEF TypeOK, Early
  <2>3. QED
    BY <2>1, <2>2
<1>5. CASE FindToClear(r)
  <2>1. CASE Mine(r) # NoCart
    <3>1. /\ pc[r] = "find" /\ pc' = [pc EXCEPT ![r] = "save"]
          /\ Becomes(r, {}) /\ UNCHANGED <<cart, req, history>> /\ req[r].kind = "clear"
      BY <1>5, <2>1 DEF FindToClear
    <3>2. OneEach({}) /\ {} \in SUBSET Line
      BY DEF OneEach
    <3>3. QED
      BY <2>1, <3>1, <3>2, ChangeInv
  <2>2. CASE Mine(r) = NoCart
    <3>1. /\ pc' = [pc EXCEPT ![r] = "returned"]
          /\ UNCHANGED <<cart, req, copy, history>>
      BY <1>5, <2>2 DEF FindToClear
    <3>2. TypeOK'
      BY <1>0, <3>1 DEF TypeOK, history, Steps
    <3>3. QED
      BY <1>0, <3>1, <3>2, StillInv DEF TypeOK, Early
  <2>3. QED
    BY <2>1, <2>2
<1>6. CASE FindToOrder(r)
  <2>1. CASE Mine(r) # NoCart /\ Mine(r).lines # {}
    <3>1. /\ pc[r] = "find" /\ pc' = [pc EXCEPT ![r] = "clear"]
          /\ Becomes(r, Mine(r).lines) /\ UNCHANGED <<cart, req, history>>
          /\ req[r].kind = "order"
      BY <1>6, <2>1 DEF FindToOrder
    <3>2. OneEach(Mine(r).lines)
      BY <1>1, <2>1 DEF Sound
    <3>3. QED
      BY <1>1, <2>1, <3>1, <3>2, ChangeInv
  <2>2. CASE ~(Mine(r) # NoCart /\ Mine(r).lines # {})
    <3>1. /\ pc' = [pc EXCEPT ![r] = "threw"]
          /\ UNCHANGED <<cart, req, copy, history>>
      BY <1>6, <2>2 DEF FindToOrder
    <3>2. TypeOK'
      BY <1>0, <3>1 DEF TypeOK, history, Steps
    <3>3. QED
      BY <1>0, <3>1, <3>2, StillInv DEF TypeOK, Early
  <2>3. QED
    BY <2>1, <2>2
<1>7. QED
  BY <1>2, <1>3, <1>4, <1>5, <1>6 DEF Find

LEMMA SaveInv ==
  ASSUME IInv, NEW r \in Requests, Save(r)
  PROVE  IInv'
<1>0. /\ TypeOK /\ Mine(r) = cart[User(r)] /\ User(r) \in Users
      /\ copy[r] \in CartRow /\ copy[r].lines \in SUBSET Line
  BY RequestType DEF IInv, Mine, TypeOK, CartRow
<1>1. PICK to \in {"answer", "returned", "threw"} :
        pc[r] = "save" /\ pc' = [pc EXCEPT ![r] = to]
  BY DEF Save, Goto
<1>2. UNCHANGED <<req, copy, disturbed>> /\ TookEffect(r)
  BY DEF Save
<1>3. \/ UNCHANGED cart
      \/ \E row \in CartRow : row.lines = copy[r].lines /\ cart' = [cart EXCEPT ![User(r)] = row]
  <2>1. CASE Mine(r) = NoCart
    BY <1>0, <2>1 DEF Save
  <2>2. CASE Mine(r) # NoCart
    <3>1. Mine(r) \in CartRow
      BY <1>0, <2>2, RowType
    <3>2. /\ Replaced(Mine(r), copy[r]) \in CartRow
          /\ Replaced(Mine(r), copy[r]).lines = copy[r].lines
      BY <1>0, <3>1 DEF Replaced, CartRow
    <3>3. QED
      BY <2>2, <3>2 DEF Save
  <2>3. QED
    BY <2>1, <2>2
<1>4. cart' \in [Users -> CartRow \cup {NoCart}]
  BY <1>0, <1>3 DEF TypeOK
<1>5. saved' \subseteq Requests /\ expected' \in [Users -> [Options -> Nat]]
  BY <1>1, <1>2, EffectType
<1>6. TypeOK'
  BY <1>0, <1>1, <1>2, <1>4, <1>5 DEF TypeOK, Steps
<1>7. \A q \in Requests :
        /\ pc'[q] \in Early => pc[q] \in Early
        /\ pc'[q] \in {"check", "save"} => pc[q] \in {"check", "save"}
        /\ pc'[q] = "clear" => pc[q] = "clear"
  BY <1>0, <1>1 DEF TypeOK, Early
<1>8. \A u \in Users : Lines(u)' \in {Lines(u), copy[r].lines}
  BY <1>0, <1>3, CartAssumption DEF TypeOK, Lines
<1>9. \A u \in Users : Sound(Lines(u)', req, pc')
  BY <1>7, <1>8, SoundKept DEF IInv
<1>10. \A q \in Requests : Sound(copy'[q].lines, req, pc')
  BY <1>2, <1>7, SoundKept DEF IInv
<1>11. \A q \in Requests : Known(q)'
  BY <1>2, <1>7 DEF IInv, Known, OptionOf
<1>12. QED
  BY <1>2, <1>6, <1>9, <1>10, <1>11 DEF IInv

LEMMA ClearInv ==
  ASSUME IInv, NEW r \in Requests, ClearByUserId(r)
  PROVE  IInv'
<1>0. TypeOK /\ User(r) \in Users
  BY RequestType DEF IInv
<1>1. PICK to \in {"returned", "threw"} : pc[r] = "clear" /\ pc' = [pc EXCEPT ![r] = to]
  BY DEF ClearByUserId, Goto
<1>2. UNCHANGED <<req, copy, disturbed>>
  BY DEF ClearByUserId
<1>3. \/ UNCHANGED cart
      \/ cart' = [cart EXCEPT ![User(r)] = NoCart]
  BY DEF ClearByUserId
<1>4. saved' \subseteq Requests /\ expected' \in [Users -> [Options -> Nat]]
  <2>1. CASE TookEffect(r)
    BY <1>1, <2>1, EffectType
  <2>2. CASE UNCHANGED <<saved, expected>>
    BY <1>0, <2>2 DEF TypeOK
  <2>3. QED
    BY <2>1, <2>2 DEF ClearByUserId
<1>5. TypeOK'
  BY <1>0, <1>1, <1>2, <1>3, <1>4 DEF TypeOK, Steps
<1>6. \A q \in Requests :
        /\ pc'[q] \in Early => pc[q] \in Early
        /\ pc'[q] \in {"check", "save"} => pc[q] \in {"check", "save"}
        /\ pc'[q] = "clear" => pc[q] = "clear"
  BY <1>0, <1>1 DEF TypeOK, Early
<1>7. \A u \in Users : Lines(u)' \in {Lines(u), {}}
  BY <1>0, <1>3 DEF TypeOK, Lines
<1>8. Sound({}, req, pc')
  BY DEF Sound, OneEach
<1>9. \A u \in Users : Sound(Lines(u)', req, pc')
  BY <1>6, <1>7, <1>8, SoundKept DEF IInv
<1>10. \A q \in Requests : Sound(copy'[q].lines, req, pc')
  BY <1>2, <1>6, SoundKept DEF IInv
<1>11. \A q \in Requests : Known(q)'
  BY <1>2, <1>6 DEF IInv, Known, OptionOf
<1>12. QED
  BY <1>2, <1>5, <1>9, <1>10, <1>11 DEF IInv

LEMMA InitInv == Init => IInv
<1> SUFFICES ASSUME Init PROVE IInv
  OBVIOUS
<1>1. \A u \in Users : Sound(Lines(u), req, pc)
  <2> TAKE u \in Users
  <2>1. Lines(u) \in {{}, SeedLines}
    BY CartAssumption DEF Init, Lines, SeedCart
  <2>2. Sound({}, req, pc)
    BY DEF Sound, OneEach
  <2>3. Sound(SeedLines, req, pc)
    BY CartAssumption DEF Sound, OneEach, OnePerOption
  <2>4. QED
    BY <2>1, <2>2, <2>3
<1>2. \A r \in Requests : Sound(copy[r].lines, req, pc) /\ Known(r)
  BY DEF Init, Fresh, Sound, OneEach, Known
<1>3. QED
  BY <1>1, <1>2, InitTypeOK DEF IInv

LEMMA NextInv == IInv /\ [Next]_vars => IInv'
<1> SUFFICES ASSUME IInv, [Next]_vars PROVE IInv'
  OBVIOUS
<1> USE DEF Goto
<1>0. TypeOK
  BY DEF IInv
<1>1. ASSUME NEW r \in Requests, Call(r) PROVE IInv'
  <2>1. TypeOK'
    BY <1>0, <1>1, RequestType DEF Call, TypeOK, Steps
  <2>2. QED
    BY <1>0, <1>1, <2>1, StillInv DEF Call, TypeOK, Early
<1>2. ASSUME NEW r \in Requests, ValidateStock(r) \/ CheckIncrease(r) \/ SaveFails(r) \/ Answer(r)
      PROVE  IInv'
  <2>1. /\ UNCHANGED <<cart, req, copy, history>>
        /\ \E to \in {"find", "save", "returned", "threw"} : pc' = [pc EXCEPT ![r] = to]
        /\ pc'[r] = "find" => pc[r] = "validate"
        /\ pc'[r] = "save" => pc[r] = "check"
    BY <1>0, <1>2 DEF ValidateStock, CheckIncrease, SaveFails, Answer, TypeOK
  <2>2. TypeOK'
    BY <1>0, <2>1 DEF TypeOK, Steps, history
  <2>3. QED
    BY <1>0, <2>1, <2>2, StillInv DEF TypeOK, Early
<1>3. ASSUME NEW r \in Requests, Find(r) PROVE IInv'
  BY <1>3, FindInv
<1>4. ASSUME NEW r \in Requests, Save(r) PROVE IInv'
  BY <1>4, SaveInv
<1>5. ASSUME NEW r \in Requests, ClearByUserId(r) PROVE IInv'
  BY <1>5, ClearInv
<1>6. CASE UNCHANGED vars
  BY <1>0, <1>6, StillInv DEF vars, history, TypeOK
<1>7. QED
  BY <1>1, <1>2, <1>3, <1>4, <1>5, <1>6 DEF Next

LEMMA Invariance == Spec => []IInv
BY InitInv, NextInv, PTL DEF Spec

\* The variables of the cart keep their types (the cart use cases).
THEOREM TypeCorrect == Spec => []TypeOK
<1>1. IInv => TypeOK
  BY DEF IInv
<1>2. QED
  BY <1>1, Invariance, PTL

\* A cart holds one line per option, whatever stale copies were written
\* (Cart.addItem, CartPrismaRepository.save).
THEOREM OneLinePerOptionHolds == Spec => []OneLinePerOption
<1>1. IInv => OneLinePerOption
  BY DEF IInv, Sound, OneEach, OneLinePerOption
<1>2. QED
  BY <1>1, Invariance, PTL

-----------------------------------------------------------------------------
(***************************************************************************)
(* What a request makes of the lines it reads.                             *)
(***************************************************************************)
\* Lines keep the option they were made with.
OfTheirOption(lines) == \A l \in lines : l.option = OptionOf(l.id)

NewLines(r) ==
  LET lines == Lines(User(r)) IN
  CASE req[r].kind = "add" -> AddItem(lines, r, req[r].option, req[r].qty)
    [] req[r].kind = "update" -> UpdateItem(lines, req[r].line, req[r].qty)
    [] req[r].kind = "remove" -> RemoveItem(lines, req[r].line)
    [] req[r].kind = "clear" -> {}
    [] req[r].kind = "order" -> lines

LEMMA FindOutcome ==
  ASSUME IInv, NEW r \in Requests, Find(r)
  PROVE  /\ pc[r] = "find" /\ UNCHANGED <<cart, req, history>>
         /\ \A q \in Requests \ {r} : copy'[q] = copy[q] /\ pc'[q] = pc[q]
         /\ \/ pc'[r] \in {"returned", "threw"} /\ copy' = copy
            \/ /\ pc'[r] \in {"check", "save", "clear"}
               /\ pc'[r] = "clear" <=> req[r].kind = "order"
               /\ req[r].kind \in {"update", "remove"} =>
                    HasLine(Lines(User(r)), req[r].line)
               /\ copy'[r].lines = NewLines(r)
               /\ Mine(r) = NoCart \/ Mine(r).id = copy'[r].id
<1> USE DEF Goto
<1>0. TypeOK /\ Mine(r) = cart[User(r)] /\ User(r) \in Users
  BY RequestType DEF IInv, Mine
<1>1. Mine(r) # NoCart => Mine(r) \in CartRow /\ Lines(User(r)) = Mine(r).lines
  BY <1>0, RowType
<1>2. Mine(r) = NoCart => Lines(User(r)) = {}
  BY <1>0 DEF Lines
<1>3. ASSUME NEW to, pc' = [pc EXCEPT ![r] = to]
      PROVE  pc'[r] = to /\ \A q \in Requests \ {r} : pc'[q] = pc[q]
  BY <1>0, <1>3 DEF TypeOK
<1>4. ASSUME NEW row \in CartRow, NEW lines, copy' = [copy EXCEPT ![r] = [row EXCEPT !.lines = lines]]
      PROVE  /\ copy'[r].lines = lines /\ copy'[r].id = row.id
             /\ \A q \in Requests \ {r} : copy'[q] = copy[q]
  BY <1>0, <1>4 DEF TypeOK, CartRow
<1>5. CASE FindToAdd(r)
  <2> DEFINE found == IF Mine(r) = NoCart THEN Fresh(r) ELSE Mine(r)
  <2>1. found \in CartRow /\ found.lines = Lines(User(r)) /\ (Mine(r) = NoCart \/ Mine(r).id = found.id)
    BY <1>1, <1>2 DEF Fresh, CartRow
  <2>2. /\ pc[r] = "find" /\ req[r].kind = "add" /\ pc' = [pc EXCEPT ![r] = "save"]
        /\ UNCHANGED <<cart, req, history>>
        /\ copy' = [copy EXCEPT ![r] =
             [found EXCEPT !.lines = AddItem(found.lines, r, req[r].option, req[r].qty)]]
    BY <1>5 DEF FindToAdd
  <2> HIDE DEF found
  <2>3. NewLines(r) = AddItem(found.lines, r, req[r].option, req[r].qty)
    BY <2>1, <2>2 DEF NewLines
  <2>4. /\ copy'[r].lines = NewLines(r) /\ copy'[r].id = found.id
        /\ \A q \in Requests \ {r} : copy'[q] = copy[q]
    BY <1>4, <2>1, <2>2, <2>3
  <2>5. pc'[r] = "save" /\ \A q \in Requests \ {r} : pc'[q] = pc[q]
    BY <1>3, <2>2
  <2>6. QED
    BY <2>1, <2>2, <2>4, <2>5
<1>6. ASSUME NEW lines, Mine(r) # NoCart, Becomes(r, lines), lines = NewLines(r),
             NEW to, pc[r] = "find", pc' = [pc EXCEPT ![r] = to],
             to \in {"check", "save", "clear"}, to = "clear" <=> req[r].kind = "order",
             UNCHANGED <<cart, req, history>>,
             req[r].kind \in {"update", "remove"} => HasLine(Lines(User(r)), req[r].line)
      PROVE  /\ pc[r] = "find" /\ UNCHANGED <<cart, req, history>>
             /\ \A q \in Requests \ {r} : copy'[q] = copy[q] /\ pc'[q] = pc[q]
             /\ pc'[r] \in {"check", "save", "clear"}
             /\ pc'[r] = "clear" <=> req[r].kind = "order"
             /\ req[r].kind \in {"update", "remove"} => HasLine(Lines(User(r)), req[r].line)
             /\ copy'[r].lines = NewLines(r)
             /\ Mine(r) = NoCart \/ Mine(r).id = copy'[r].id
  BY <1>1, <1>3, <1>4, <1>6 DEF Becomes
<1>7. CASE FindToUpdate(r)
  <2>1. CASE Mine(r) # NoCart /\ HasLine(Mine(r).lines, req[r].line)
    <3>1. PICK to \in {"check", "save"} : pc[r] = "find" /\ pc' = [pc EXCEPT ![r] = to]
      BY <1>7, <2>1 DEF FindToUpdate
    <3>2. /\ req[r].kind = "update" /\ UNCHANGED <<cart, req, history>>
          /\ Becomes(r, UpdateItem(Mine(r).lines, req[r].line, req[r].qty))
      BY <1>7, <2>1 DEF FindToUpdate
    <3>3. NewLines(r) = UpdateItem(Mine(r).lines, req[r].line, req[r].qty)
      BY <1>1, <2>1, <3>2 DEF NewLines
    <3>4. QED
      BY <1>1, <1>6, <2>1, <3>1, <3>2, <3>3
  <2>2. CASE ~(Mine(r) # NoCart /\ HasLine(Mine(r).lines, req[r].line))
    BY <1>3, <1>7, <2>2 DEF FindToUpdate
  <2>3. QED
    BY <2>1, <2>2
<1>8. CASE FindToRemove(r)
  <2>1. CASE Mine(r) # NoCart /\ HasLine(Mine(r).lines, req[r].line)
    <3>1. /\ pc[r] = "find" /\ pc' = [pc EXCEPT ![r] = "save"]
          /\ req[r].kind = "remove" /\ UNCHANGED <<cart, req, history>>
          /\ Becomes(r, RemoveItem(Mine(r).lines, req[r].line))
      BY <1>8, <2>1 DEF FindToRemove
    <3>2. NewLines(r) = RemoveItem(Mine(r).lines, req[r].line)
      BY <1>1, <2>1, <3>1 DEF NewLines
    <3>3. QED
      BY <1>1, <1>6, <2>1, <3>1, <3>2
  <2>2. CASE ~(Mine(r) # NoCart /\ HasLine(Mine(r).lines, req[r].line))
    BY <1>3, <1>8, <2>2 DEF FindToRemove
  <2>3. QED
    BY <2>1, <2>2
<1>9. CASE FindToClear(r)
  <2>1. CASE Mine(r) # NoCart
    <3>1. /\ pc[r] = "find" /\ pc' = [pc EXCEPT ![r] = "save"]
          /\ Becomes(r, {}) /\ UNCHANGED <<cart, req, history>> /\ req[r].kind = "clear"
      BY <1>9, <2>1 DEF FindToClear
    <3>2. NewLines(r) = {}
      BY <3>1 DEF NewLines
    <3>3. QED
      BY <1>6, <2>1, <3>1, <3>2
  <2>2. CASE Mine(r) = NoCart
    BY <1>3, <1>9, <2>2 DEF FindToClear
  <2>3. QED
    BY <2>1, <2>2
<1>10. CASE FindToOrder(r)
  <2>1. CASE Mine(r) # NoCart /\ Mine(r).lines # {}
    <3>1. /\ pc[r] = "find" /\ pc' = [pc EXCEPT ![r] = "clear"]
          /\ Becomes(r, Mine(r).lines) /\ UNCHANGED <<cart, req, history>>
          /\ req[r].kind = "order"
      BY <1>10, <2>1 DEF FindToOrder
    <3>2. NewLines(r) = Mine(r).lines
      BY <1>1, <2>1, <3>1 DEF NewLines
    <3>3. QED
      BY <1>6, <2>1, <3>1, <3>2
  <2>2. CASE ~(Mine(r) # NoCart /\ Mine(r).lines # {})
    BY <1>3, <1>10, <2>2 DEF FindToOrder
  <2>3. QED
    BY <2>1, <2>2
<1>11. QED
  BY <1>5, <1>7, <1>8, <1>9, <1>10 DEF Find

\* A save writes the copy, unless the cart is another one by now and the copy is
\* empty.
LEMMA SaveOutcome ==
  ASSUME IInv, NEW r \in Requests, Save(r)
  PROVE  /\ pc[r] = "save" /\ pc'[r] \in {"answer", "returned", "threw"}
         /\ \A q \in Requests \ {r} : pc'[q] = pc[q]
         /\ UNCHANGED <<req, copy, disturbed>> /\ TookEffect(r)
         /\ \A u \in Users \ {User(r)} : cart'[u] = cart[u]
         /\ \/ Lines(User(r))' = copy[r].lines
            \/ cart' = cart /\ Mine(r) # NoCart /\ Mine(r).id # copy[r].id
<1>0. /\ TypeOK /\ Mine(r) = cart[User(r)] /\ User(r) \in Users
      /\ copy[r] \in CartRow /\ copy[r].lines \in SUBSET Line
  BY RequestType DEF IInv, Mine, TypeOK, CartRow
<1>1. PICK to \in {"answer", "returned", "threw"} :
        pc[r] = "save" /\ pc' = [pc EXCEPT ![r] = to]
  BY DEF Save, Goto
<1>2. UNCHANGED <<req, copy, disturbed>> /\ TookEffect(r)
  BY DEF Save
<1>3. \/ cart' = cart /\ Mine(r) # NoCart /\ Mine(r).id # copy[r].id
      \/ \E row \in CartRow : row.lines = copy[r].lines /\ cart' = [cart EXCEPT ![User(r)] = row]
  <2>1. CASE Mine(r) = NoCart
    BY <1>0, <2>1 DEF Save
  <2>2. CASE Mine(r) # NoCart
    <3>1. Mine(r) \in CartRow
      BY <1>0, <2>2, RowType
    <3>2. /\ Replaced(Mine(r), copy[r]) \in CartRow
          /\ Replaced(Mine(r), copy[r]).lines = copy[r].lines
      BY <1>0, <3>1 DEF Replaced, CartRow
    <3>3. QED
      BY <2>2, <3>2 DEF Save
  <2>3. QED
    BY <2>1, <2>2
<1>4. User(r)' = User(r)
  BY <1>2 DEF User
<1>5. \/ Lines(User(r))' = copy[r].lines
      \/ cart' = cart /\ Mine(r) # NoCart /\ Mine(r).id # copy[r].id
  BY <1>0, <1>3, <1>4, CartAssumption DEF TypeOK, Lines
<1>6. \A u \in Users \ {User(r)} : cart'[u] = cart[u]
  BY <1>0, <1>3 DEF TypeOK
<1>7. /\ pc'[r] \in {"answer", "returned", "threw"}
      /\ \A q \in Requests \ {r} : pc'[q] = pc[q]
  BY <1>0, <1>1 DEF TypeOK
<1>8. QED
  BY <1>1, <1>2, <1>5, <1>6, <1>7

LEMMA ClearOutcome ==
  ASSUME IInv, NEW r \in Requests, ClearByUserId(r)
  PROVE  /\ pc[r] = "clear" /\ pc'[r] \in {"returned", "threw"} /\ req[r].kind = "order"
         /\ \A q \in Requests \ {r} : pc'[q] = pc[q]
         /\ UNCHANGED <<req, copy, disturbed>>
         /\ \A u \in Users \ {User(r)} : cart'[u] = cart[u]
         /\ \/ UNCHANGED <<cart, saved, expected>>
            \/ Lines(User(r))' = {} /\ TookEffect(r)
<1>0. TypeOK /\ User(r) \in Users
  BY RequestType DEF IInv
<1>1. /\ pc[r] = "clear" /\ pc'[r] \in {"returned", "threw"}
      /\ \A q \in Requests \ {r} : pc'[q] = pc[q]
  BY <1>0 DEF ClearByUserId, Goto, TypeOK
<1>2. UNCHANGED <<req, copy, disturbed>>
  BY DEF ClearByUserId
<1>3. \/ UNCHANGED <<cart, saved, expected>>
      \/ cart' = [cart EXCEPT ![User(r)] = NoCart] /\ TookEffect(r)
  BY DEF ClearByUserId
<1>4. User(r)' = User(r)
  BY <1>2 DEF User
<1>5. req[r].kind = "order"
  BY <1>1 DEF IInv, Known
<1>6. QED
  BY <1>0, <1>1, <1>2, <1>3, <1>4, <1>5 DEF TypeOK, Lines

-----------------------------------------------------------------------------
(***************************************************************************)
(* A user whose requests do not overlap: the cart is what they add up to.  *)
(***************************************************************************)
\* addItem, updateItemQuantity and removeItem do to the lines what Effect does to
\* the quantities.
LEMMA AddItemAmounts ==
  ASSUME NEW lines \in SUBSET Line, OneEach(lines), NEW r \in Requests,
         NEW o \in Options, NEW q \in Nat \ {0},
         NEW units \in [Options -> Nat], Amounts(lines, units)
  PROVE  Amounts(AddItem(lines, r, o, q), [units EXCEPT ![o] = @ + q])
<1> DEFINE new == [id |-> r, option |-> o, qty |-> q]
           more(l) == IF l.option = o THEN [l EXCEPT !.qty = @ + q] ELSE l
<1>1. new.option = o /\ new.qty = q
  OBVIOUS
<1>2. \A l \in lines : /\ more(l).option = l.option
                       /\ more(l).qty = IF l.option = o THEN l.qty + q ELSE l.qty
  BY DEF Line
<1>3. CASE \E l \in lines : l.option = o
  <2>1. AddItem(lines, r, o, q) = {more(l) : l \in lines}
    BY <1>3 DEF AddItem
  <2> HIDE DEF more
  <2>2. ASSUME NEW p \in Options
        PROVE  \/ [units EXCEPT ![o] = @ + q][p] = 0
                    /\ \A l \in AddItem(lines, r, o, q) : l.option # p
               \/ \E l \in AddItem(lines, r, o, q) :
                    l.option = p /\ l.qty = [units EXCEPT ![o] = @ + q][p]
    <3>1. CASE \A l \in lines : l.option # p
      <4>1. p # o /\ units[p] = 0
        BY <1>3, <3>1 DEF Amounts
      <4>2. QED
        BY <1>2, <2>1, <3>1, <4>1
    <3>2. ASSUME NEW l \in lines, l.option = p, l.qty = units[p]
          PROVE  \E k \in AddItem(lines, r, o, q) :
                    k.option = p /\ k.qty = [units EXCEPT ![o] = @ + q][p]
      <4>1. more(l) \in AddItem(lines, r, o, q)
        BY <2>1
      <4>2. more(l).option = p /\ more(l).qty = [units EXCEPT ![o] = @ + q][p]
        BY <1>2, <3>2
      <4>3. QED
        BY <4>1, <4>2
    <3>3. QED
      BY <3>1, <3>2 DEF Amounts
  <2>3. QED
    BY <2>2 DEF Amounts
<1>4. CASE ~\E l \in lines : l.option = o
  <2>1. AddItem(lines, r, o, q) = lines \cup {new}
    BY <1>4 DEF AddItem
  <2>2. units[o] = 0
    BY <1>4 DEF Amounts
  <2> HIDE DEF new
  <2>3. QED
    BY <1>1, <1>4, <2>1, <2>2 DEF Amounts
<1>5. QED
  BY <1>3, <1>4

LEMMA RemoveItemAmounts ==
  ASSUME NEW lines \in SUBSET Line, OneEach(lines), NEW k \in lines,
         NEW units \in [Options -> Nat], Amounts(lines, units)
  PROVE  Amounts(RemoveItem(lines, k.id), [units EXCEPT ![k.option] = 0])
<1>1. RemoveItem(lines, k.id) = lines \ {k}
  BY DEF RemoveItem, OneEach
<1>2. \A l \in lines \ {k} : l.option # k.option
  BY DEF OneEach
<1>3. QED
  BY <1>1, <1>2 DEF Amounts

LEMMA UpdateItemAmounts ==
  ASSUME NEW lines \in SUBSET Line, OneEach(lines), NEW k \in lines, NEW q \in Nat,
         NEW units \in [Options -> Nat], Amounts(lines, units)
  PROVE  Amounts(UpdateItem(lines, k.id, q), [units EXCEPT ![k.option] = q])
<1> DEFINE new == [k EXCEPT !.qty = q]
<1>1. CASE q = 0
  BY <1>1, RemoveItemAmounts DEF UpdateItem
<1>2. CASE q # 0
  <2>1. new.option = k.option /\ new.qty = q
    BY DEF Line
  <2>2. UpdateItem(lines, k.id, q) = (lines \ {k}) \cup {new}
    BY <1>2 DEF UpdateItem, OneEach
  <2>3. \A l \in lines \ {k} : l.option # k.option
    BY DEF OneEach
  <2> HIDE DEF new
  <2>4. QED
    BY <2>1, <2>2, <2>3 DEF Amounts
<1>3. QED
  BY <1>1, <1>2

\* Operations do not change the option of a line, and add up as Effect says.
LEMMA NewLinesExact ==
  ASSUME IInv, NEW r \in Requests, pc[r] = "find",
         req[r].kind \in {"update", "remove"} => HasLine(Lines(User(r)), req[r].line),
         OfTheirOption(Lines(User(r)))
  PROVE  /\ OfTheirOption(NewLines(r))
         /\ \A units \in [Options -> Nat] :
              Amounts(Lines(User(r)), units) /\ req[r].kind # "order" =>
                Amounts(NewLines(r), Effect(r, units))
<1> DEFINE lines == Lines(User(r))
<1>1. lines \in SUBSET Line /\ OneEach(lines) /\ \A l \in lines : l.id # r
  <2>1. TypeOK /\ User(r) \in Users
    BY RequestType DEF IInv
  <2>2. Sound(lines, req, pc)
    BY <2>1 DEF IInv
  <2>3. lines \in SUBSET Line
    BY <2>1 DEF Lines, TypeOK, CartRow
  <2>4. QED
    BY <2>2, <2>3 DEF Sound, Early
<1> HIDE DEF lines
<1>2. CASE req[r].kind = "add"
  <2>1. req[r].option \in Options /\ req[r].qty \in Nat \ {0}
    BY <1>2, RequestType DEF IInv
  <2>2. NewLines(r) = AddItem(lines, r, req[r].option, req[r].qty)
    BY <1>2 DEF NewLines, lines
  <2>3. OfTheirOption(NewLines(r))
    <3> DEFINE new == [id |-> r, option |-> req[r].option, qty |-> req[r].qty]
               more(l) == IF l.option = req[r].option THEN [l EXCEPT !.qty = @ + req[r].qty]
                          ELSE l
    <3>1. new.id = r /\ new.option = OptionOf(new.id)
      BY DEF OptionOf
    <3>2. \A l \in lines : more(l).id = l.id /\ more(l).option = l.option
      BY <1>1 DEF Line
    <3>3. \A l \in NewLines(r) : l = new \/ \E k \in lines : l = more(k) \/ l = k
      BY <2>2 DEF AddItem
    <3> HIDE DEF new, more
    <3>4. QED
      BY <3>1, <3>2, <3>3 DEF OfTheirOption, lines
  <2>4. ASSUME NEW units \in [Options -> Nat], Amounts(lines, units)
        PROVE  Amounts(NewLines(r), Effect(r, units))
    <3>1. Effect(r, units) = [units EXCEPT ![req[r].option] = @ + req[r].qty]
      BY <1>2 DEF Effect
    <3>2. Amounts(AddItem(lines, r, req[r].option, req[r].qty),
                  [units EXCEPT ![req[r].option] = @ + req[r].qty])
      BY <1>1, <2>1, <2>4, AddItemAmounts
    <3>3. QED
      BY <2>2, <3>1, <3>2
  <2>5. QED
    BY <2>3, <2>4 DEF lines
<1>3. ASSUME req[r].kind \in {"update", "remove"}
      PROVE  \E k \in lines : k.id = req[r].line /\ OptionOf(req[r].line) = k.option
  BY <1>3 DEF HasLine, OfTheirOption, lines
<1>4. CASE req[r].kind = "update"
  <2>1. PICK k \in lines : k.id = req[r].line /\ OptionOf(req[r].line) = k.option
    BY <1>3, <1>4
  <2>2. req[r].qty \in Nat
    BY <1>4, RequestType DEF IInv
  <2>3. NewLines(r) = UpdateItem(lines, k.id, req[r].qty)
    BY <1>4, <2>1 DEF NewLines, lines
  <2>4. OfTheirOption(NewLines(r))
    <3> DEFINE new(l) == [l EXCEPT !.qty = req[r].qty]
    <3>1. \A l \in lines : new(l).id = l.id /\ new(l).option = l.option
      BY <1>1 DEF Line
    <3>2. \A l \in NewLines(r) : \E j \in lines : l = new(j) \/ l = j
      BY <2>3 DEF UpdateItem, RemoveItem
    <3> HIDE DEF new
    <3>3. QED
      BY <3>1, <3>2 DEF OfTheirOption, lines
  <2>5. ASSUME NEW units \in [Options -> Nat], Amounts(lines, units)
        PROVE  Amounts(NewLines(r), Effect(r, units))
    <3>1. Effect(r, units) = [units EXCEPT ![k.option] = req[r].qty]
      BY <1>4, <2>1 DEF Effect
    <3>2. Amounts(UpdateItem(lines, k.id, req[r].qty), [units EXCEPT ![k.option] = req[r].qty])
      BY <1>1, <2>2, <2>5, UpdateItemAmounts
    <3>3. QED
      BY <2>3, <3>1, <3>2
  <2>6. QED
    BY <2>4, <2>5 DEF lines
<1>5. CASE req[r].kind = "remove"
  <2>1. PICK k \in lines : k.id = req[r].line /\ OptionOf(req[r].line) = k.option
    BY <1>3, <1>5
  <2>2. NewLines(r) = RemoveItem(lines, k.id)
    BY <1>5, <2>1 DEF NewLines, lines
  <2>3. OfTheirOption(NewLines(r))
    BY <2>2 DEF RemoveItem, OfTheirOption, lines
  <2>4. ASSUME NEW units \in [Options -> Nat], Amounts(lines, units)
        PROVE  Amounts(NewLines(r), Effect(r, units))
    <3>1. Effect(r, units) = [units EXCEPT ![k.option] = 0]
      BY <1>5, <2>1 DEF Effect
    <3>2. Amounts(RemoveItem(lines, k.id), [units EXCEPT ![k.option] = 0])
      BY <1>1, <2>4, RemoveItemAmounts
    <3>3. QED
      BY <2>2, <3>1, <3>2
  <2>5. QED
    BY <2>3, <2>4 DEF lines
<1>6. CASE req[r].kind = "clear"
  BY <1>6 DEF NewLines, OfTheirOption, Effect, Amounts
<1>7. CASE req[r].kind = "order"
  BY <1>7 DEF NewLines
<1>8. QED
  BY <1>2, <1>4, <1>5, <1>6, <1>7, RequestType DEF IInv

\* Alone, a request has read the cart as it still is, and what it is about to
\* write is what its operation makes of the quantities.
Exact(r) ==
  /\ \A q \in Requests : Running(q) /\ User(q) = User(r) => q = r
  /\ pc[r] \in {"check", "save"} =>
       /\ Amounts(copy[r].lines, Effect(r, expected[User(r)]))
       /\ Mine(r) = NoCart \/ Mine(r).id = copy[r].id

ExactInv ==
  /\ \A u \in Users : OfTheirOption(Lines(u))
  /\ \A r \in Requests : OfTheirOption(copy[r].lines)
  /\ AloneIsExact
  /\ \A r \in Requests : Running(r) /\ User(r) \notin disturbed => Exact(r)

LEMMA InitExact == Init => ExactInv
<1> SUFFICES ASSUME Init PROVE ExactInv
  OBVIOUS
<1>1. OfTheirOption({})
  BY DEF OfTheirOption
<1>2. OfTheirOption(SeedLines)
  <2> SUFFICES ASSUME NEW l \in SeedLines PROVE l.option = OptionOf(l.id)
    BY DEF OfTheirOption
  <2>1. l.id \notin Requests
    BY CartAssumption
  <2>2. LineOf(SeedLines, l.id) \in SeedLines /\ LineOf(SeedLines, l.id).id = l.id
    BY DEF LineOf
  <2>3. LineOf(SeedLines, l.id) = l
    BY <2>2, CartAssumption
  <2>4. QED
    BY <2>1, <2>3 DEF OptionOf
<1>3. \A u \in Users : Lines(u) = IF cart[u] = NoCart THEN {} ELSE SeedLines
  BY DEF Init, Lines, SeedCart
<1>4. ASSUME NEW lines
      PROVE  OnePerOption(lines) => Amounts(lines, Units(lines))
  <2> SUFFICES ASSUME OnePerOption(lines), NEW o \in Options
               PROVE  \/ Units(lines)[o] = 0 /\ \A l \in lines : l.option # o
                      \/ \E l \in lines : l.option = o /\ l.qty = Units(lines)[o]
    BY DEF Amounts
  <2>1. CASE \E l \in lines : l.option = o
    <3> DEFINE k == CHOOSE l \in lines : l.option = o
    <3>1. k \in lines /\ k.option = o
      BY <2>1
    <3>2. Units(lines)[o] = k.qty
      BY <2>1 DEF Units
    <3> HIDE DEF k
    <3>3. QED
      BY <3>1, <3>2
  <2>2. CASE ~\E l \in lines : l.option = o
    BY <2>2 DEF Units
  <2>3. QED
    BY <2>1, <2>2
<1>5. AloneIsExact
  <2>1. \A u \in Users : expected[u] = Units(Lines(u))
    BY <1>3 DEF Init
  <2>2. \A u \in Users : OnePerOption(Lines(u))
    BY <1>3, CartAssumption DEF OnePerOption
  <2>3. QED
    BY <1>4, <2>1, <2>2 DEF AloneIsExact
<1>6. \A r \in Requests : ~Running(r) /\ copy[r].lines = {}
  BY DEF Init, Running, Fresh
<1>7. QED
  BY <1>1, <1>2, <1>3, <1>5, <1>6 DEF ExactInv

\* What does not depend on the step.
LEMMA SameNames ==
  ASSUME req' = req
  PROVE  /\ \A r : User(r)' = User(r)
         /\ \A lines : OfTheirOption(lines)' = OfTheirOption(lines)
BY DEF User, OfTheirOption, OptionOf

LEMMA SameEffect ==
  ASSUME req' = req, NEW r, expected'[User(r)] = expected[User(r)]
  PROVE  Effect(r, expected[User(r)])' = Effect(r, expected[User(r)])
BY DEF Effect, OptionOf, User

\* A request that was alone still is, and nothing it knows has changed.
LEMMA ExactKept ==
  ASSUME req' = req, NEW r \in Requests, Exact(r),
         \A q \in Requests : User(q) = User(r) /\ Running(q)' => Running(q),
         pc'[r] \in {"check", "save"} => pc[r] \in {"check", "save"},
         copy'[r] = copy[r], expected'[User(r)] = expected[User(r)],
         cart'[User(r)] = cart[User(r)]
  PROVE  Exact(r)'
<1>1. Mine(r)' = Mine(r)
  BY SameNames DEF Mine, User
<1>2. Effect(r, expected[User(r)])' = Effect(r, expected[User(r)])
  BY SameEffect
<1>3. pc'[r] \in {"check", "save"} =>
        /\ Amounts(copy'[r].lines, Effect(r, expected[User(r)])')
        /\ Mine(r)' = NoCart \/ Mine(r)'.id = copy'[r].id
  BY <1>1, <1>2 DEF Exact
<1>4. \A q \in Requests : Running(q)' /\ User(q)' = User(r)' => q = r
  BY SameNames DEF Exact
<1>5. QED
  BY <1>3, <1>4 DEF Exact

\* Steps that write neither rows nor copies: a call, a check, a failed save, an
\* answer.
LEMMA StillExact ==
  ASSUME IInv, ExactInv, UNCHANGED <<cart, req, copy, saved, expected>>,
         disturbed \subseteq disturbed',
         \A r \in Requests :
           /\ pc'[r] \in {"check", "save"} => pc[r] \in {"check", "save"}
           /\ Running(r)' /\ ~Running(r) =>
                /\ pc'[r] \notin {"check", "save"}
                /\ User(r) \in disturbed' \/
                     \A q \in Requests : Running(q)' /\ User(q) = User(r) => q = r
  PROVE  ExactInv'
<1>1. /\ \A u \in Users : OfTheirOption(Lines(u))'
      /\ \A r \in Requests : OfTheirOption(copy[r].lines)'
  BY DEF ExactInv, OfTheirOption, OptionOf, Lines
<1>2. AloneIsExact'
  BY DEF ExactInv, AloneIsExact, Lines
<1>3. ASSUME NEW r \in Requests, Running(r)', User(r)' \notin disturbed'
      PROVE  Exact(r)'
  <2>1. User(r)' = User(r) /\ \A q : User(q)' = User(q)
    BY SameNames
  <2>2. User(r) \notin disturbed' /\ User(r) \notin disturbed
    BY <1>3, <2>1
  <2>3. CASE Running(r)
    <3>1. Exact(r)
      BY <2>2, <2>3 DEF ExactInv
    <3>2. \A q \in Requests : User(q) = User(r) /\ Running(q)' => Running(q)
      BY <1>3, <2>2, <2>3 DEF Running
    <3>3. QED
      BY <3>1, <3>2, ExactKept
  <2>4. CASE ~Running(r)
    BY <1>3, <2>1, <2>2, <2>4 DEF Exact
  <2>5. QED
    BY <2>3, <2>4
<1>4. QED
  BY <1>1, <1>2, <1>3 DEF ExactInv

LEMMA CallExact ==
  ASSUME IInv, ExactInv, NEW r \in Requests, Call(r)
  PROVE  ExactInv'
<1> DEFINE others == {s \in Requests : Running(s) /\ User(s) = User(r)}
<1>1. /\ pc[r] = "idle" /\ pc'[r] \in {"validate", "find"}
      /\ \A q \in Requests \ {r} : pc'[q] = pc[q]
  BY DEF Call, Goto, IInv, TypeOK
<1>2. /\ disturbed' = IF others = {} THEN disturbed ELSE disturbed \cup {User(r)}
      /\ UNCHANGED <<cart, req, copy, saved, expected>>
  BY DEF Call
<1>3. User(r) \in disturbed' \/
        \A q \in Requests : Running(q)' /\ User(q) = User(r) => q = r
  BY <1>1, <1>2 DEF Running
<1>4. \A q \in Requests : Running(q)' /\ ~Running(q) => q = r
  BY <1>1 DEF Running
<1>5. QED
  BY <1>1, <1>2, <1>3, <1>4, StillExact

LEMMA FindExact ==
  ASSUME IInv, ExactInv, NEW r \in Requests, Find(r)
  PROVE  ExactInv'
<1>1. /\ pc[r] = "find" /\ UNCHANGED <<cart, req, saved, expected, disturbed>>
      /\ \A q \in Requests \ {r} : copy'[q] = copy[q] /\ pc'[q] = pc[q]
  BY FindOutcome DEF history
<1>2. TypeOK /\ User(r) \in Users
  BY RequestType DEF IInv
<1>3. CASE pc'[r] \in {"returned", "threw"} /\ copy' = copy
  BY <1>1, <1>3, StillExact DEF Running
<1>4. CASE /\ pc'[r] \in {"check", "save", "clear"}
           /\ pc'[r] = "clear" <=> req[r].kind = "order"
           /\ req[r].kind \in {"update", "remove"} => HasLine(Lines(User(r)), req[r].line)
           /\ copy'[r].lines = NewLines(r)
           /\ Mine(r) = NoCart \/ Mine(r).id = copy'[r].id
  <2>1. OfTheirOption(Lines(User(r)))
    BY <1>2 DEF ExactInv
  <2>2. /\ OfTheirOption(NewLines(r))
        /\ \A units \in [Options -> Nat] :
             Amounts(Lines(User(r)), units) /\ req[r].kind # "order" =>
               Amounts(NewLines(r), Effect(r, units))
    BY <1>1, <1>4, <2>1, NewLinesExact
  <2>3. /\ \A u \in Users : OfTheirOption(Lines(u))'
        /\ \A q \in Requests : OfTheirOption(copy[q].lines)'
    BY <1>1, <1>4, <2>2 DEF ExactInv, OfTheirOption, OptionOf, Lines
  <2>4. AloneIsExact'
    BY <1>1 DEF ExactInv, AloneIsExact, Lines
  <2>5. ASSUME User(r) \notin disturbed
        PROVE  Exact(r)'
    <3>1. \A q \in Requests : Running(q) /\ User(q) = User(r) => q = r
      BY <1>1, <2>5 DEF ExactInv, Exact, Running
    <3>2. Amounts(Lines(User(r)), expected[User(r)])
      BY <1>2, <2>5 DEF ExactInv, AloneIsExact
    <3>3. expected[User(r)] \in [Options -> Nat]
      BY <1>2 DEF TypeOK
    <3>4. req[r].kind # "order" => Amounts(copy'[r].lines, Effect(r, expected[User(r)]))
      BY <1>4, <2>2, <3>2, <3>3
    <3>5. Effect(r, expected[User(r)])' = Effect(r, expected[User(r)])
      BY <1>1, SameEffect
    <3>6. Mine(r)' = Mine(r)
      BY <1>1, SameNames DEF Mine, User
    <3>7. \A q \in Requests : Running(q)' /\ User(q)' = User(r)' => q = r
      BY <1>1, <1>4, <3>1, SameNames DEF Running
    <3>8. pc'[r] \in {"check", "save"} =>
            /\ Amounts(copy'[r].lines, Effect(r, expected[User(r)])')
            /\ Mine(r)' = NoCart \/ Mine(r)'.id = copy'[r].id
      BY <1>4, <3>4, <3>5, <3>6
    <3>9. QED
      BY <3>7, <3>8 DEF Exact
  <2>6. ASSUME NEW q \in Requests \ {r}, Running(q)', User(q)' \notin disturbed'
        PROVE  Exact(q)'
    <3>1. Running(q) /\ User(q) \notin disturbed
      BY <1>1, <2>6, SameNames DEF Running
    <3>2. Exact(q)
      BY <3>1 DEF ExactInv
    <3>3. \A p \in Requests : Running(p)' => Running(p)
      BY <1>1 DEF Running
    <3>4. QED
      BY <1>1, <3>2, <3>3, ExactKept
  <2>7. \A q \in Requests : Running(q)' /\ User(q)' \notin disturbed' => Exact(q)'
    BY <1>1, <2>5, <2>6, SameNames
  <2>8. QED
    BY <2>3, <2>4, <2>7 DEF ExactInv
<1>5. QED
  BY <1>3, <1>4, FindOutcome

\* A write that takes effect: lines and expectation change together.
LEMMA WriteExact ==
  ASSUME IInv, ExactInv, NEW r \in Requests, UNCHANGED <<req, copy, disturbed>>, TookEffect(r),
         pc'[r] \notin {"check", "save"}, Running(r),
         \A q \in Requests \ {r} : pc'[q] = pc[q],
         \A u \in Users \ {User(r)} : cart'[u] = cart[u],
         OfTheirOption(Lines(User(r))'),
         User(r) \notin disturbed =>
           Amounts(Lines(User(r))', Effect(r, expected[User(r)]))
  PROVE  ExactInv'
<1>1. /\ TypeOK /\ User(r) \in Users /\ User(r)' = User(r)
      /\ \A q \in Requests : User(q) \in Users /\ User(q)' = User(q)
  BY RequestType, SameNames DEF IInv
<1>2. \A u \in Users \ {User(r)} : expected'[u] = expected[u] /\ Lines(u)' = Lines(u)
  BY <1>1 DEF TookEffect, TypeOK, Lines
<1>3. User(r) \notin disturbed => expected'[User(r)] = Effect(r, expected[User(r)])
  BY <1>1 DEF TookEffect, TypeOK
<1>4. /\ \A u \in Users : OfTheirOption(Lines(u)')
      /\ \A q \in Requests : OfTheirOption(copy'[q].lines)
  BY <1>1, <1>2 DEF ExactInv
<1>5. /\ \A u \in Users : OfTheirOption(Lines(u))'
      /\ \A q \in Requests : OfTheirOption(copy[q].lines)'
  BY <1>4 DEF OfTheirOption, OptionOf
<1>6. ASSUME NEW u \in Users \ disturbed
      PROVE  Amounts(Lines(u)', expected'[u])
  <2>1. CASE u = User(r)
    <3>1. Lines(u)' = Lines(User(r))'
      BY <1>1, <2>1 DEF Lines
    <3>2. QED
      BY <1>3, <1>6, <2>1, <3>1
  <2>2. CASE u # User(r)
    BY <1>2, <2>2 DEF ExactInv, AloneIsExact
  <2>3. QED
    BY <2>1, <2>2
<1>7. AloneIsExact'
  BY <1>6 DEF AloneIsExact, Amounts
<1>8. ASSUME NEW q \in Requests, Running(q)', User(q)' \notin disturbed'
      PROVE  Exact(q)'
  <2>1. Running(q) /\ User(q) \notin disturbed /\ \A p \in Requests : Running(p)' => Running(p)
    BY <1>1, <1>8 DEF Running
  <2>2. Exact(q)
    BY <2>1 DEF ExactInv
  <2>3. CASE User(q) = User(r)
    <3>1. q = r
      BY <2>2, <2>3 DEF Exact
    <3>2. QED
      BY <1>1, <2>1, <2>2, <3>1 DEF Exact
  <2>4. CASE User(q) # User(r)
    <3>1. q # r /\ expected'[User(q)] = expected[User(q)] /\ cart'[User(q)] = cart[User(q)]
      BY <1>1, <1>2, <2>4
    <3>2. pc'[q] = pc[q] /\ copy'[q] = copy[q]
      BY <3>1
    <3>3. QED
      BY <2>1, <2>2, <3>1, <3>2, ExactKept
  <2>5. QED
    BY <2>3, <2>4
<1>9. QED
  BY <1>5, <1>7, <1>8 DEF ExactInv

LEMMA SaveExact ==
  ASSUME IInv, ExactInv, NEW r \in Requests, Save(r)
  PROVE  ExactInv'
<1>1. /\ pc[r] = "save" /\ pc'[r] \in {"answer", "returned", "threw"}
      /\ \A q \in Requests \ {r} : pc'[q] = pc[q]
      /\ UNCHANGED <<req, copy, disturbed>> /\ TookEffect(r)
      /\ \A u \in Users \ {User(r)} : cart'[u] = cart[u]
      /\ \/ Lines(User(r))' = copy[r].lines
         \/ cart' = cart /\ Mine(r) # NoCart /\ Mine(r).id # copy[r].id
  BY SaveOutcome
<1>2. Running(r) /\ User(r) \in Users
  BY <1>1, RequestType DEF Running, IInv
<1>3. OfTheirOption(Lines(User(r))')
  <2>1. CASE Lines(User(r))' = copy[r].lines
    BY <2>1 DEF ExactInv
  <2>2. CASE cart' = cart
    <3>1. Lines(User(r))' = Lines(User(r))
      BY <1>1, <2>2, SameNames DEF Lines, User
    <3>2. QED
      BY <1>2, <3>1 DEF ExactInv
  <2>3. QED
    BY <1>1, <2>1, <2>2
<1>4. User(r) \notin disturbed => Amounts(Lines(User(r))', Effect(r, expected[User(r)]))
  BY <1>1, <1>2 DEF ExactInv, Exact
<1>5. QED
  BY <1>1, <1>2, <1>3, <1>4, WriteExact

LEMMA ClearExact ==
  ASSUME IInv, ExactInv, NEW r \in Requests, ClearByUserId(r)
  PROVE  ExactInv'
<1>1. /\ pc[r] = "clear" /\ pc'[r] \in {"returned", "threw"} /\ req[r].kind = "order"
      /\ \A q \in Requests \ {r} : pc'[q] = pc[q]
      /\ UNCHANGED <<req, copy, disturbed>>
      /\ \A u \in Users \ {User(r)} : cart'[u] = cart[u]
      /\ \/ UNCHANGED <<cart, saved, expected>>
         \/ Lines(User(r))' = {} /\ TookEffect(r)
  BY ClearOutcome
<1>2. CASE UNCHANGED <<cart, saved, expected>>
  BY <1>1, <1>2, StillExact DEF Running
<1>3. CASE Lines(User(r))' = {} /\ TookEffect(r)
  <2>1. Effect(r, expected[User(r)]) = [o \in Options |-> 0]
    BY <1>1 DEF Effect
  <2>2. Amounts({}, Effect(r, expected[User(r)])) /\ OfTheirOption({})
    BY <2>1 DEF Amounts, OfTheirOption
  <2>3. Running(r)
    BY <1>1 DEF Running
  <2>4. QED
    BY <1>1, <1>3, <2>2, <2>3, WriteExact
<1>4. QED
  BY <1>1, <1>2, <1>3

\* The steps of every request, but its checks and answers.
LEMMA NextExact == IInv /\ ExactInv /\ [Next]_vars => ExactInv'
<1> SUFFICES ASSUME IInv, ExactInv, [Next]_vars PROVE ExactInv'
  OBVIOUS
<1>1. ASSUME NEW r \in Requests, ValidateStock(r) \/ CheckIncrease(r) \/ SaveFails(r) \/ Answer(r)
      PROVE  ExactInv'
  <2>1. /\ UNCHANGED <<cart, req, copy, history>>
        /\ pc'[r] \in {"find", "save", "returned", "threw"} /\ Running(r)
        /\ pc'[r] = "save" => pc[r] = "check"
        /\ \A q \in Requests \ {r} : pc'[q] = pc[q]
    BY <1>1 DEF IInv, ValidateStock, CheckIncrease, SaveFails, Answer, Goto, TypeOK, Running
  <2>2. QED
    BY <2>1, StillExact DEF Running, history
<1>2. CASE UNCHANGED vars
  BY <1>2, StillExact DEF vars, history, Running
<1>3. QED
  BY <1>1, <1>2, CallExact, FindExact, SaveExact, ClearExact DEF Next

\* As long as no two requests of a user overlap, the cart holds what those that
\* took effect add up to (the cart use cases, CartPrismaRepository.save and
\* clearByUserId), for any requests and quantities, lost answers included.
THEOREM AloneIsExactHolds == Spec => []AloneIsExact
<1>1. Spec => []ExactInv
  BY InitExact, NextExact, Invariance, PTL DEF Spec
<1>2. QED
  BY <1>1, PTL DEF ExactInv

-----------------------------------------------------------------------------
(***************************************************************************)
(* Whatever overlaps, nothing is counted twice.                            *)
(***************************************************************************)
Bases(done, u, o) ==
  {0} \cup {s.qty : s \in {s \in SeedLines : s.option = o}}
      \cup {req[r].qty : r \in Updated(done, u, o)}

\* The limit is a number that no base exceeds; what a request adds raises it by
\* as much, and nothing lowers it.
LEMMA BasesBounded ==
  ASSUME TypeOK, NEW done \in SUBSET Requests, IsFiniteSet(done), NEW u, NEW o
  PROVE  /\ Bases(done, u, o) \in SUBSET Nat /\ IsFiniteSet(Bases(done, u, o))
         /\ Max(Bases(done, u, o)) \in Bases(done, u, o)
         /\ \A x \in Bases(done, u, o) : x <= Max(Bases(done, u, o))
<1> DEFINE here == {s.qty : s \in {s \in SeedLines : s.option = o}}
           set == {req[r].qty : r \in Updated(done, u, o)}
<1>1. here \subseteq Nat /\ set \subseteq Nat
  <2>1. here \subseteq Nat
    BY CartAssumption
  <2>2. \A r \in Updated(done, u, o) : req[r].qty \in Nat
    BY RequestType DEF Updated
  <2>3. QED
    BY <2>1, <2>2
<1>2. IsFiniteSet(here)
  <2>1. CASE \E s \in SeedLines : s.option = o
    <3>1. PICK s \in SeedLines : s.option = o
      BY <2>1
    <3>2. here = {s.qty}
      BY <3>1, CartAssumption DEF OnePerOption
    <3> HIDE DEF here
    <3>3. QED
      BY <3>2, FS_Singleton
  <2>2. CASE ~\E s \in SeedLines : s.option = o
    <3>1. here = {}
      BY <2>2
    <3>2. QED
      BY <3>1, FS_EmptySet
  <2>3. QED
    BY <2>1, <2>2
<1>3. IsFiniteSet(set)
  <2> DEFINE f == [r \in Updated(done, u, o) |-> req[r].qty]
  <2>1. IsFiniteSet(Updated(done, u, o))
    <3>1. Updated(done, u, o) \subseteq done
      BY DEF Updated
    <3>2. QED
      BY <3>1, FS_Subset
  <2>2. f \in Surjection(Updated(done, u, o), set)
    BY DEF Surjection
  <2>3. QED
    BY <2>1, <2>2, FS_Surjection
<1>4. Bases(done, u, o) = {0} \cup here \cup set
  BY DEF Bases
<1> HIDE DEF here, set
<1>5. IsFiniteSet({0} \cup here \cup set)
  <2>1. IsFiniteSet({0})
    BY FS_Singleton
  <2>2. IsFiniteSet({0} \cup here)
    BY <1>2, <2>1, FS_Union
  <2>3. QED
    BY <1>3, <2>2, FS_Union
<1>6. /\ Bases(done, u, o) \in SUBSET Nat /\ IsFiniteSet(Bases(done, u, o))
      /\ Bases(done, u, o) # {}
  BY <1>1, <1>4, <1>5
<1>7. QED
  BY <1>6, MaxIsLargest

LEMMA LimitIs ==
  ASSUME TypeOK, NEW done \in SUBSET Requests, IsFiniteSet(done), NEW u, NEW o
  PROVE  LET f == [r \in Requests |-> req[r].qty]
         IN  /\ Limit(done, u, o) = Max(Bases(done, u, o)) + SumFunctionOnSet(f, Added(done, u, o))
             /\ Max(Bases(done, u, o)) \in Nat
             /\ SumFunctionOnSet(f, Added(done, u, o)) \in Nat
             /\ IsFiniteSet(Added(done, u, o))
             /\ \A r \in Added(done, u, o) : f[r] \in Nat /\ f[r] = req[r].qty
<1> DEFINE f == [r \in Requests |-> req[r].qty]
           g == [r \in Added(done, u, o) |-> req[r].qty]
<1>1. /\ IsFiniteSet(Added(done, u, o))
      /\ \A r \in Added(done, u, o) : f[r] \in Nat /\ f[r] = req[r].qty /\ g[r] = f[r]
  <2>1. Added(done, u, o) \subseteq done
    BY DEF Added
  <2>2. IsFiniteSet(Added(done, u, o))
    BY <2>1, FS_Subset
  <2>3. \A r \in Added(done, u, o) : r \in Requests /\ req[r].qty \in Nat
    BY <2>1, RequestType DEF Added
  <2>4. QED
    BY <2>2, <2>3
<1>2. Limit(done, u, o) = Max(Bases(done, u, o)) + SumFunctionOnSet(g, Added(done, u, o))
  BY DEF Limit, Bases, SumFunction
<1>3. Max(Bases(done, u, o)) \in Nat
  BY BasesBounded
<1> HIDE DEF f, g
<1>4. SumFunctionOnSet(g, Added(done, u, o)) = SumFunctionOnSet(f, Added(done, u, o))
  BY <1>1, SumSame
<1>5. SumFunctionOnSet(f, Added(done, u, o)) \in Nat
  BY <1>1, SumNat
<1>6. QED
  BY <1>1, <1>2, <1>3, <1>4, <1>5 DEF f

LEMMA LimitBounds ==
  ASSUME TypeOK, NEW done \in SUBSET Requests, IsFiniteSet(done), NEW u, NEW o
  PROVE  /\ Limit(done, u, o) \in Nat
         /\ \A s \in SeedLines : s.option = o => s.qty <= Limit(done, u, o)
         /\ \A r \in Updated(done, u, o) : req[r].qty <= Limit(done, u, o)
<1> DEFINE sum == SumFunctionOnSet([r \in Requests |-> req[r].qty], Added(done, u, o))
           max == Max(Bases(done, u, o))
<1>1. Limit(done, u, o) = max + sum /\ max \in Nat /\ sum \in Nat
  BY LimitIs
<1>2. \A x \in Bases(done, u, o) : x \in Nat /\ x <= max
  BY BasesBounded
<1> HIDE DEF sum, max
<1>3. \A x \in Bases(done, u, o) : x <= Limit(done, u, o)
  BY <1>1, <1>2
<1>4. /\ \A s \in SeedLines : s.option = o => s.qty \in Bases(done, u, o)
      /\ \A r \in Updated(done, u, o) : req[r].qty \in Bases(done, u, o)
  BY DEF Bases
<1>5. QED
  BY <1>1, <1>3, <1>4

LEMMA LimitGrows ==
  ASSUME TypeOK, NEW done \in SUBSET Requests, IsFiniteSet(done), NEW u, NEW o,
         NEW r \in Requests
  PROVE  /\ Limit(done, u, o) \in Nat /\ Limit(done \cup {r}, u, o) \in Nat
         /\ Limit(done, u, o) <= Limit(done \cup {r}, u, o)
         /\ r \notin done /\ req[r].kind = "add" /\ User(r) = u /\ req[r].option = o =>
              Limit(done, u, o) + req[r].qty <= Limit(done \cup {r}, u, o)
<1> DEFINE all == done \cup {r}
           f == [q \in Requests |-> req[q].qty]
           A == Added(done, u, o)
           B == Added(all, u, o)
<1>1. all \in SUBSET Requests /\ IsFiniteSet(all)
  BY FS_AddElement
<1> HIDE DEF all
<1>2. Limit(done, u, o) \in Nat /\ Limit(all, u, o) \in Nat
  BY <1>1, LimitBounds
<1>3. /\ Limit(done, u, o) = Max(Bases(done, u, o)) + SumFunctionOnSet(f, A)
      /\ Max(Bases(done, u, o)) \in Nat /\ SumFunctionOnSet(f, A) \in Nat
      /\ \A q \in A : f[q] \in Nat
  BY LimitIs
<1>4. /\ Limit(all, u, o) = Max(Bases(all, u, o)) + SumFunctionOnSet(f, B)
      /\ Max(Bases(all, u, o)) \in Nat /\ SumFunctionOnSet(f, B) \in Nat
      /\ IsFiniteSet(B) /\ \A q \in B : f[q] \in Nat /\ f[q] = req[q].qty
  BY <1>1, LimitIs
<1>5. Max(Bases(done, u, o)) <= Max(Bases(all, u, o))
  <2>1. Updated(done, u, o) \subseteq Updated(all, u, o)
    BY DEF Updated, all
  <2>2. Bases(done, u, o) \subseteq Bases(all, u, o)
    BY <2>1 DEF Bases
  <2>3. QED
    BY <1>1, <2>2, BasesBounded
<1>6. A \subseteq B
  BY DEF Added, all
<1> HIDE DEF f
<1>7. SumFunctionOnSet(f, A) <= SumFunctionOnSet(f, B)
  <2> HIDE DEF A, B
  <2>1. \A q \in A : f[q] <= f[q]
    BY <1>3
  <2>2. QED
    BY <1>3, <1>4, <1>6, <2>1, SumMonotone
<1>8. ASSUME r \notin done, req[r].kind = "add", User(r) = u, req[r].option = o
      PROVE  SumFunctionOnSet(f, B) = f[r] + SumFunctionOnSet(f, A) /\ f[r] = req[r].qty /\ f[r] \in Nat
  <2>1. r \in B /\ A = B \ {r}
    BY <1>8 DEF Added, all
  <2>2. f[r] = req[r].qty /\ f[r] \in Nat
    BY <1>4, <2>1
  <2> HIDE DEF A, B
  <2>3. SumFunctionOnSet(f, B) = f[r] + SumFunctionOnSet(f, B \ {r})
    BY <1>4, <2>1, SumNat
  <2>4. SumFunctionOnSet(f, B) = f[r] + SumFunctionOnSet(f, A)
    BY <2>1, <2>3, Zenon
  <2>5. QED
    BY <2>2, <2>4
<1> HIDE DEF A, B
<1>9. Limit(done, u, o) <= Limit(all, u, o)
  BY <1>3, <1>4, <1>5, <1>7
<1>10. ASSUME r \notin done, req[r].kind = "add", User(r) = u, req[r].option = o
       PROVE  Limit(done, u, o) + req[r].qty <= Limit(all, u, o)
  BY <1>3, <1>4, <1>5, <1>8, <1>10
<1>11. QED
  BY <1>2, <1>9, <1>10 DEF all

\* Rows and pending copies are within the limit, a copy with its own request
\* counted, and a request that still has to write is not counted yet.
LimitInv ==
  /\ IsFiniteSet(saved)
  /\ NothingInvented
  /\ \A r \in Requests :
       /\ pc[r] \in Early \cup {"check", "save"} => r \notin saved
       /\ pc[r] \in {"check", "save"} =>
            \A l \in copy[r].lines : l.qty <= Limit(saved \cup {r}, User(r), l.option)

LEMMA SameLimit ==
  ASSUME req' = req
  PROVE  /\ \A u, o : Limit(saved, u, o)' = Limit(saved', u, o)
         /\ \A r, u, o : Limit(saved \cup {r}, u, o)' = Limit(saved' \cup {r}, u, o)
BY DEF Limit, Added, Updated, User, OptionOf

LEMMA InitLimit == Init => LimitInv
<1> SUFFICES ASSUME Init PROVE LimitInv
  OBVIOUS
<1>1. TypeOK /\ saved = {} /\ IsFiniteSet(saved)
  BY InitTypeOK, FS_EmptySet DEF Init
<1>2. \A u \in Users : Lines(u) \subseteq SeedLines
  BY DEF Init, Lines, SeedCart
<1>3. \A u, o : \A s \in SeedLines : s.option = o => s.qty <= Limit(saved, u, o)
  BY <1>1, LimitBounds DEF TypeOK
<1>4. NothingInvented
  BY <1>2, <1>3 DEF NothingInvented
<1>5. QED
  BY <1>1, <1>4 DEF Init, LimitInv

\* What a request makes of lines within the limit is, counting it.
LEMMA NewLinesLimit ==
  ASSUME IInv, ExactInv, LimitInv, NEW r \in Requests, pc[r] = "find",
         req[r].kind \in {"update", "remove"} => HasLine(Lines(User(r)), req[r].line),
         NEW l \in NewLines(r)
  PROVE  l.qty <= Limit(saved \cup {r}, User(r), l.option)
<1> DEFINE lines == Lines(User(r))
           u == User(r)
           all == saved \cup {r}
<1>1. /\ TypeOK /\ u \in Users /\ IsFiniteSet(saved) /\ saved \in SUBSET Requests
      /\ r \notin saved
  BY RequestType DEF IInv, TypeOK, LimitInv, Early
<1>2. lines \in SUBSET Line /\ OneEach(lines) /\ OfTheirOption(lines)
  <2>1. Sound(lines, req, pc) /\ OfTheirOption(lines)
    BY <1>1 DEF IInv, ExactInv
  <2>2. lines \in SUBSET Line
    BY <1>1 DEF Lines, TypeOK, CartRow
  <2>3. QED
    BY <2>1, <2>2 DEF Sound
<1>3. \A o : /\ Limit(saved, u, o) \in Nat /\ Limit(all, u, o) \in Nat
             /\ Limit(saved, u, o) <= Limit(all, u, o)
             /\ req[r].kind = "add" /\ req[r].option = o =>
                  Limit(saved, u, o) + req[r].qty <= Limit(all, u, o)
  BY <1>1, LimitGrows
<1>4. \A k \in lines : k.qty <= Limit(saved, u, k.option) /\ k.qty \in Nat
  BY <1>1, <1>2 DEF LimitInv, NothingInvented, Line
<1>5. ASSUME NEW k \in lines PROVE k.qty <= Limit(all, u, k.option)
  <2> DEFINE o == k.option
             low == Limit(saved, u, o)
             high == Limit(all, u, o)
  <2>1. low \in Nat /\ high \in Nat /\ low <= high
    BY <1>3
  <2>2. k.qty \in Nat /\ k.qty <= low
    BY <1>4
  <2> HIDE DEF low, high
  <2>3. k.qty <= high
    BY <2>1, <2>2
  <2>4. QED
    BY <2>3 DEF high
<1> HIDE DEF lines, u, all
<1>6. CASE l \in lines
  BY <1>5, <1>6 DEF u, all
<1>7. CASE req[r].kind = "add" /\ l \notin lines
  <2> DEFINE o == req[r].option
             q == req[r].qty
             new == [id |-> r, option |-> o, qty |-> q]
             more(k) == [k EXCEPT !.qty = @ + q]
  <2>1. q \in Nat
    BY <1>1, <1>7, RequestType
  <2>2. l = new \/ \E k \in lines : k.option = o /\ l = more(k)
    BY <1>7 DEF NewLines, AddItem, lines
  <2>3. Limit(saved, u, o) + q <= Limit(all, u, o)
    BY <1>3, <1>7
  <2>4. new.option = o /\ new.qty = q
    OBVIOUS
  <2>5. \A k \in lines : more(k).option = k.option /\ more(k).qty = k.qty + q
    BY <1>2 DEF Line
  <2> HIDE DEF new, more, q, o
  <2>6. l.option = o /\ l.qty <= Limit(saved, u, o) + q
    <3>1. CASE l = new
      BY <1>3, <2>1, <2>4, <3>1
    <3>2. ASSUME NEW k \in lines, k.option = o, l = more(k)
          PROVE  l.option = o /\ l.qty <= Limit(saved, u, o) + q
      <4>1. l.option = o /\ l.qty = k.qty + q
        BY <2>5, <3>2
      <4>2. k.qty \in Nat /\ k.qty <= Limit(saved, u, o) /\ Limit(saved, u, o) \in Nat
        BY <1>3, <1>4, <3>2
      <4>3. QED
        BY <2>1, <4>1, <4>2
    <3>3. QED
      BY <2>2, <3>1, <3>2
  <2>7. l.qty \in Int
    <3>1. CASE l = new
      BY <2>1, <2>4, <3>1
    <3>2. ASSUME NEW k \in lines, l = more(k)
          PROVE  l.qty \in Int
      BY <1>4, <2>1, <2>5, <3>2
    <3>3. QED
      BY <2>2, <3>1, <3>2
  <2>8. l.qty <= Limit(all, u, o)
    BY <1>3, <2>1, <2>3, <2>6, <2>7
  <2>9. QED
    BY <2>6, <2>8 DEF u, all
<1>8. CASE req[r].kind = "update" /\ l \notin lines
  <2>1. PICK k \in lines : k.id = req[r].line /\ OptionOf(req[r].line) = k.option
    BY <1>2, <1>8 DEF HasLine, OfTheirOption, lines
  <2>2. l = [k EXCEPT !.qty = req[r].qty]
    BY <1>2, <1>8, <2>1 DEF NewLines, UpdateItem, RemoveItem, OneEach, lines
  <2>3. l.option = k.option /\ l.qty = req[r].qty
    BY <1>2, <2>2 DEF Line
  <2>4. r \in Updated(all, u, l.option)
    BY <1>8, <2>1, <2>3 DEF Updated, u, all
  <2>5. all \in SUBSET Requests /\ IsFiniteSet(all)
    BY <1>1, FS_AddElement DEF all
  <2>6. req[r].qty <= Limit(all, u, l.option)
    BY <1>1, <2>4, <2>5, LimitBounds
  <2>7. QED
    BY <2>3, <2>6 DEF u, all
<1>9. CASE req[r].kind \in {"remove", "clear", "order"}
  <2>1. NewLines(r) \subseteq lines
    BY <1>9 DEF NewLines, RemoveItem, lines
  <2>2. QED
    BY <1>6, <2>1
<1>10. QED
  BY <1>1, <1>6, <1>7, <1>8, <1>9, RequestType

LEMMA StillLimit ==
  ASSUME IInv, LimitInv, UNCHANGED <<cart, req, copy, saved>>,
         \A r \in Requests :
           /\ pc'[r] \in {"check", "save"} => pc[r] \in {"check", "save"}
           /\ pc'[r] \in Early => pc[r] \in Early
  PROVE  LimitInv'
<1>1. NothingInvented'
  BY SameLimit DEF LimitInv, NothingInvented, Lines
<1>2. ASSUME NEW r \in Requests
      PROVE  /\ pc'[r] \in Early \cup {"check", "save"} => r \notin saved'
             /\ pc'[r] \in {"check", "save"} =>
                  \A l \in copy'[r].lines : l.qty <= Limit(saved \cup {r}, User(r), l.option)'
  <2>1. \A o : Limit(saved \cup {r}, User(r), o)' = Limit(saved \cup {r}, User(r), o)
    BY DEF Limit, Added, Updated, User, OptionOf
  <2>2. QED
    BY <2>1 DEF LimitInv
<1>3. QED
  BY <1>1, <1>2 DEF LimitInv

LEMMA FindLimit ==
  ASSUME IInv, ExactInv, LimitInv, NEW r \in Requests, Find(r)
  PROVE  LimitInv'
<1>1. /\ pc[r] = "find" /\ UNCHANGED <<cart, req, saved>>
      /\ \A q \in Requests \ {r} : copy'[q] = copy[q] /\ pc'[q] = pc[q]
  BY FindOutcome DEF history
<1>2. CASE pc'[r] \in {"returned", "threw"} /\ copy' = copy
  BY <1>1, <1>2, StillLimit DEF Early
<1>3. CASE /\ pc'[r] \in {"check", "save", "clear"}
           /\ req[r].kind \in {"update", "remove"} => HasLine(Lines(User(r)), req[r].line)
           /\ copy'[r].lines = NewLines(r)
  <2>1. NothingInvented'
    BY <1>1, SameLimit DEF LimitInv, NothingInvented, Lines
  <2>2. \A q \in Requests : \A o :
          Limit(saved \cup {q}, User(q), o)' = Limit(saved \cup {q}, User(q), o)
    BY <1>1 DEF Limit, Added, Updated, User, OptionOf
  <2>3. \A l \in copy'[r].lines : l.qty <= Limit(saved \cup {r}, User(r), l.option)
    BY <1>1, <1>3, NewLinesLimit
  <2>4. ASSUME NEW q \in Requests
        PROVE  /\ pc'[q] \in Early \cup {"check", "save"} => q \notin saved'
               /\ pc'[q] \in {"check", "save"} =>
                    \A l \in copy'[q].lines : l.qty <= Limit(saved \cup {q}, User(q), l.option)'
    <3>1. CASE q = r
      <4>1. r \notin saved'
        BY <1>1 DEF LimitInv, Early
      <4>2. ASSUME NEW l \in copy'[r].lines
            PROVE  l.qty <= Limit(saved \cup {r}, User(r), l.option)'
        <5>1. Limit(saved \cup {r}, User(r), l.option)' = Limit(saved \cup {r}, User(r), l.option)
          BY <2>2
        <5>2. QED
          BY <2>3, <5>1
      <4>3. QED
        BY <3>1, <4>1, <4>2
    <3>2. CASE q # r
      BY <1>1, <2>2, <3>2 DEF LimitInv
    <3>3. QED
      BY <3>1, <3>2
  <2>5. QED
    BY <1>1, <2>1, <2>4 DEF LimitInv
<1>4. QED
  BY <1>2, <1>3, FindOutcome

\* A write: its request is counted, and what it writes is within the limit then.
LEMMA WriteLimit ==
  ASSUME IInv, LimitInv, NEW r \in Requests, UNCHANGED <<req, copy>>, saved' = saved \cup {r},
         pc'[r] \notin Early \cup {"check", "save"},
         \A q \in Requests \ {r} : pc'[q] = pc[q],
         \A u \in Users : Lines(u)' = Lines(u) \/ u = User(r),
         \A l \in Lines(User(r))' : \/ l \in Lines(User(r))
                                    \/ l.qty <= Limit(saved \cup {r}, User(r), l.option)
  PROVE  LimitInv'
<1>1. /\ TypeOK /\ User(r) \in Users /\ IsFiniteSet(saved) /\ saved \in SUBSET Requests
      /\ \A u \in Users : Lines(u) \subseteq Line
  BY RequestType DEF IInv, LimitInv, TypeOK, Lines, CartRow
<1>2. IsFiniteSet(saved')
  BY <1>1, FS_AddElement
<1>3. \A u, o : /\ Limit(saved, u, o) \in Nat /\ Limit(saved', u, o) \in Nat
                /\ Limit(saved, u, o) <= Limit(saved', u, o)
  BY <1>1, LimitGrows
<1>4. \A u \in Users : \A l \in Lines(u) : l.qty <= Limit(saved', u, l.option)
  <2>1. \A u \in Users : \A l \in Lines(u) : l.qty <= Limit(saved, u, l.option) /\ l.qty \in Nat
    BY <1>1 DEF LimitInv, NothingInvented, Line
  <2>2. ASSUME NEW u \in Users, NEW l \in Lines(u)
        PROVE  l.qty <= Limit(saved', u, l.option)
    <3> DEFINE low == Limit(saved, u, l.option)
               high == Limit(saved', u, l.option)
    <3>1. low \in Nat /\ high \in Nat /\ low <= high
      BY <1>3
    <3>2. l.qty \in Nat /\ l.qty <= low
      BY <2>1
    <3> HIDE DEF low, high
    <3>3. l.qty <= high
      BY <3>1, <3>2
    <3>4. QED
      BY <3>3 DEF high
  <2>3. QED
    BY <2>2
<1>5. ASSUME NEW u \in Users, NEW l \in Lines(u)'
      PROVE  l.qty <= Limit(saved', u, l.option)
  <2>1. CASE Lines(u)' = Lines(u)
    BY <1>4, <1>5, <2>1
  <2>2. CASE u = User(r)
    <3>1. l \in Lines(User(r))'
      BY <1>5, <2>2, SameNames DEF Lines
    <3>2. QED
      BY <1>4, <2>2, <3>1
  <2>3. QED
    BY <2>1, <2>2
<1>6. NothingInvented'
  <2>1. \A u, o : Limit(saved, u, o)' = Limit(saved', u, o)
    BY SameLimit
  <2>2. ASSUME NEW u \in Users, NEW l \in Lines(u)'
        PROVE  l.qty <= Limit(saved, u, l.option)'
    <3>1. Limit(saved, u, l.option)' = Limit(saved', u, l.option)
      BY <2>1
    <3>2. QED
      BY <1>5, <3>1
  <2>3. QED
    BY <2>2 DEF NothingInvented
<1>7. ASSUME NEW q \in Requests
      PROVE  /\ pc'[q] \in Early \cup {"check", "save"} => q \notin saved'
             /\ pc'[q] \in {"check", "save"} =>
                  \A l \in copy'[q].lines : l.qty <= Limit(saved \cup {q}, User(q), l.option)'
  <2>1. CASE q = r
    BY <2>1 DEF Early
  <2>2. CASE q # r
    <3>1. pc'[q] = pc[q]
      BY <2>2
    <3>2. pc'[q] \in Early \cup {"check", "save"} => q \notin saved'
      BY <2>2, <3>1 DEF LimitInv
    <3>3. ASSUME pc[q] \in {"check", "save"}, NEW l \in copy[q].lines
          PROVE  l.qty <= Limit(saved' \cup {q}, User(q), l.option)
      <4> DEFINE one == saved \cup {q}
                 u == User(q)
      <4>1. l.qty <= Limit(one, u, l.option) /\ l.qty \in Nat
        <5>1. copy[q].lines \in SUBSET Line
          BY <1>1 DEF TypeOK, CartRow
        <5>2. l.qty \in Nat
          BY <3>3, <5>1 DEF Line
        <5>3. l.qty <= Limit(saved \cup {q}, User(q), l.option)
          BY <3>3 DEF LimitInv
        <5>4. QED
          BY <5>2, <5>3
      <4>2. one \in SUBSET Requests /\ IsFiniteSet(one)
        BY <1>1, FS_AddElement
      <4>3. saved' \cup {q} = one \cup {r}
        OBVIOUS
      <4> HIDE DEF one, u
      <4>4. /\ Limit(one, u, l.option) \in Nat /\ Limit(one \cup {r}, u, l.option) \in Nat
            /\ Limit(one, u, l.option) <= Limit(one \cup {r}, u, l.option)
        BY <1>1, <4>2, LimitGrows
      <4>5. l.qty <= Limit(one \cup {r}, u, l.option)
        BY <4>1, <4>4
      <4>6. QED
        BY <4>3, <4>5 DEF u
    <3>4. \A o : Limit(saved \cup {q}, User(q), o)' = Limit(saved' \cup {q}, User(q), o)
      BY DEF Limit, Added, Updated, User, OptionOf
    <3>5. QED
      BY <3>1, <3>2, <3>3, <3>4
  <2>3. QED
    BY <2>1, <2>2
<1>8. QED
  BY <1>2, <1>6, <1>7 DEF LimitInv

LEMMA SaveLimit ==
  ASSUME IInv, LimitInv, NEW r \in Requests, Save(r)
  PROVE  LimitInv'
<1>1. /\ pc[r] = "save" /\ pc'[r] \in {"answer", "returned", "threw"}
      /\ \A q \in Requests \ {r} : pc'[q] = pc[q]
      /\ UNCHANGED <<req, copy>> /\ saved' = saved \cup {r}
      /\ \A u \in Users \ {User(r)} : cart'[u] = cart[u]
      /\ \/ Lines(User(r))' = copy[r].lines
         \/ cart' = cart
  BY SaveOutcome DEF TookEffect
<1>2. \A u \in Users : Lines(u)' = Lines(u) \/ u = User(r)
  BY <1>1 DEF Lines
<1>3. \A l \in copy[r].lines : l.qty <= Limit(saved \cup {r}, User(r), l.option)
  BY <1>1 DEF LimitInv
<1>4. cart' = cart => Lines(User(r))' = Lines(User(r))
  BY <1>1, SameNames DEF Lines, User
<1>5. \A l \in Lines(User(r))' : \/ l \in Lines(User(r))
                                 \/ l.qty <= Limit(saved \cup {r}, User(r), l.option)
  BY <1>1, <1>3, <1>4
<1>6. QED
  BY <1>1, <1>2, <1>5, WriteLimit DEF Early

LEMMA ClearLimit ==
  ASSUME IInv, LimitInv, NEW r \in Requests, ClearByUserId(r)
  PROVE  LimitInv'
<1>1. /\ pc[r] = "clear" /\ pc'[r] \in {"returned", "threw"}
      /\ \A q \in Requests \ {r} : pc'[q] = pc[q]
      /\ UNCHANGED <<req, copy>>
      /\ \A u \in Users \ {User(r)} : cart'[u] = cart[u]
      /\ \/ UNCHANGED <<cart, saved>>
         \/ Lines(User(r))' = {} /\ saved' = saved \cup {r}
  BY ClearOutcome DEF TookEffect
<1>2. CASE UNCHANGED <<cart, saved>>
  BY <1>1, <1>2, StillLimit DEF Early
<1>3. CASE Lines(User(r))' = {} /\ saved' = saved \cup {r}
  <2>1. \A u \in Users : Lines(u)' = Lines(u) \/ u = User(r)
    BY <1>1 DEF Lines
  <2>2. QED
    BY <1>1, <1>3, <2>1, WriteLimit DEF Early
<1>4. QED
  BY <1>1, <1>2, <1>3

LEMMA NextLimit == IInv /\ ExactInv /\ LimitInv /\ [Next]_vars => LimitInv'
<1> SUFFICES ASSUME IInv, ExactInv, LimitInv, [Next]_vars PROVE LimitInv'
  OBVIOUS
<1>1. ASSUME NEW r \in Requests,
             Call(r) \/ ValidateStock(r) \/ CheckIncrease(r) \/ SaveFails(r) \/ Answer(r)
      PROVE  LimitInv'
  <2>1. /\ UNCHANGED <<cart, req, copy, saved>>
        /\ pc'[r] \in {"validate", "find", "save", "returned", "threw"}
        /\ pc'[r] = "save" => pc[r] = "check"
        /\ pc'[r] \in Early => pc[r] \in Early
        /\ \A q \in Requests \ {r} : pc'[q] = pc[q]
    BY <1>1 DEF IInv, Call, ValidateStock, CheckIncrease, SaveFails, Answer, Goto, TypeOK,
                history, Early
  <2>2. QED
    BY <2>1, StillLimit
<1>2. CASE UNCHANGED vars
  BY <1>2, StillLimit DEF vars, history
<1>3. QED
  BY <1>1, <1>2, FindLimit, SaveLimit, ClearLimit DEF Next

\* However requests overlap and whatever stale copies are written, no addition
\* is counted twice (Cart.addItem, CartPrismaRepository.save).
THEOREM NothingInventedHolds == Spec => []NothingInvented
<1>1. Spec => []ExactInv
  BY InitExact, NextExact, Invariance, PTL DEF Spec
<1>2. Spec => []LimitInv
  BY <1>1, InitLimit, NextLimit, Invariance, PTL DEF Spec
<1>3. QED
  BY <1>2, PTL DEF LimitInv
=============================================================================
