---------------------------- MODULE ProductCache ----------------------------
(***************************************************************************)
(* The cached product queries and the stock movements that are to          *)
(* invalidate them.                                                        *)
(*                                                                         *)
(* A request for a page of the list or for the detail of a product returns *)
(* the entry of its key, if there is one; otherwise it reads the database, *)
(* writes what it read to the cache, with a TTL, and returns it.  A stock  *)
(* use case commits and then sweeps two patterns at once, all pages and    *)
(* the detail of its product.                                              *)
(*                                                                         *)
(* The entries are in the memory of the process that wrote them:           *)
(* cache.module.ts hands over its Redis store as `store', which the locked *)
(* @nestjs/cache-manager 3.0.1 does not read, and so CACHE_MANAGER is a    *)
(* Keyv with a Map of its own in each process.  The sweeps SCAN and DEL in *)
(* Redis, where nobody ever puts a key with the prefix `cache:': a sweep   *)
(* can fail, and has no other effect.  Keyv keeps the entries as JSON too: *)
(* what comes back has lost its methods.                                   *)
(*                                                                         *)
(* What a query reads is determined by the movements committed before it,  *)
(* so a value is the set of those movements.                               *)
(***************************************************************************)
EXTENDS Integers, FiniteSetsExt

CONSTANTS
  Products, Options, Pages,
  ProductOf,     \* [Options -> Products]
  ShownOn,       \* [Pages -> SUBSET Products]
  Stock,         \* [Options -> Nat], what is available to begin with
  Movements,     \* calls of ReserveStock, ReleaseStock and ConfirmSale
  OptionOf, By,  \* the option of each and what it adds to the available stock
  Requests,      \* calls of GetProducts and GetProductDetail
  Servers,       \* the processes of the server
  ServerOf,      \* the process each call runs in
  NoEntry

\* The key of a detail is named by its product.
Keys == Pages \cup Products

ASSUME ProductCacheAssumption ==
  /\ ProductOf \in [Options -> Products]
  /\ ShownOn \in [Pages -> SUBSET Products]
  /\ Stock \in [Options -> Nat]
  /\ OptionOf \in [Movements -> Options]
  /\ By \in [Movements -> Int]
  /\ Pages \cap Products = {}
  /\ NoEntry \notin Keys
  /\ Movements \cap Requests = {}
  /\ ServerOf \in [Movements \cup Requests -> Servers]
  /\ \A seen \in SUBSET Movements : NoEntry # seen

VARIABLES
  committed,  \* the committed movements
  memory,     \* the entry of each key in each process, or NoEntry
  at,         \* where each movement and each request is
  asked,      \* the key of each request
  held,       \* what each request has read or returned
  hit,        \* the requests answered from the cache
  older       \* history: the entries that were there when a movement was
              \* committed, of the keys it sweeps, and still are

query == <<asked, held, hit>>
cacheVars == <<committed, memory, at, query, older>>

Slots == Servers \X Keys
InUse == {s \in Slots : memory[s] # NoEntry}
Touched(m) == Pages \cup {ProductOf[OptionOf[m]]}

CacheInit ==
  /\ committed = {}
  /\ memory = [s \in Slots |-> NoEntry]
  /\ at = [a \in Movements \cup Requests |-> "idle"]
  /\ asked = [r \in Requests |-> NoEntry]
  /\ held = [r \in Requests |-> {}]
  /\ hit = {}
  /\ older = [m \in Movements |-> {}]

-----------------------------------------------------------------------------
Advance(a, from, to) == at[a] = from /\ at' = [at EXCEPT ![a] = to]

Available(o, seen) ==
  Stock[o] + MapThenSumSet(LAMBDA m : By[m], {m \in seen : OptionOf[m] = o})

\* The movement passes its check, and is committed.
Record(m) ==
  /\ Available(OptionOf[m], committed \cup {m}) >= 0
  /\ committed' = committed \cup {m}
  /\ older' = [older EXCEPT ![m] = {s \in InUse : s[2] \in Touched(m)}]

Commit(m) ==
  /\ Advance(m, "idle", "invalidating")
  /\ Record(m)
  /\ UNCHANGED <<memory, query>>

\* The call ends with an exception before it invalidates anything: refused,
\* rolled back, or committed all the same when only the answer was lost.
CommitThrows(m) ==
  /\ Advance(m, "idle", "threw")
  /\ UNCHANGED <<committed, older>> \/ Record(m)
  /\ UNCHANGED <<memory, query>>

\* Both sweeps scan Redis, find no key and delete nothing, in no process.
Invalidated(m) ==
  /\ Advance(m, "invalidating", "returned")
  /\ UNCHANGED <<committed, memory, query, older>>

\* Redis fails a SCAN; ReleaseStock only logs it.
InvalidationFails(m) ==
  /\ Advance(m, "invalidating", "threw")
  /\ UNCHANGED <<committed, memory, query, older>>

-----------------------------------------------------------------------------
\* A hit is the answer, a miss goes on to the database.
Get(r, k) ==
  LET entry == memory[ServerOf[r], k] IN
  /\ asked' = [asked EXCEPT ![r] = k]
  /\ IF entry # NoEntry
     THEN /\ Advance(r, "idle", "returned")
          /\ held' = [held EXCEPT ![r] = entry]
          /\ hit' = hit \cup {r}
     ELSE Advance(r, "idle", "read") /\ UNCHANGED <<held, hit>>
  /\ UNCHANGED <<committed, memory, older>>

\* findAll or findById: one snapshot of the stock rows.
Read(r) ==
  /\ Advance(r, "read", "set")
  /\ held' = [held EXCEPT ![r] = committed]
  /\ UNCHANGED <<committed, memory, asked, hit, older>>

\* The database fails a request.
ReadFails(r) ==
  /\ Advance(r, "read", "threw")
  /\ UNCHANGED <<committed, memory, query, older>>

Slot(r) == <<ServerOf[r], asked[r]>>

\* Mutant: the parameter of the key pattern is not resolved.
FilledUnresolved(r) ==
  [s \in Slots \cup {<<ServerOf[r], "{input.productId}">>} |->
     IF s \in Slots THEN memory[s] ELSE held[r]]

\* Mutant: the key of a detail leaves out its product, the one of a page its
\* number.
FilledAlike(r) ==
  [s \in Slots |->
     IF s[1] = ServerOf[r] /\ (s[2] \in Pages <=> asked[r] \in Pages) THEN held[r]
     ELSE memory[s]]

Filled(r) == [memory EXCEPT ![Slot(r)] = held[r]]

\* The entry replaces what is there by now.
Set(r) ==
  /\ Advance(r, "set", "returned")
  /\ memory' = Filled(r)
  /\ older' = [m \in Movements |-> older[m] \ {Slot(r)}]
  /\ UNCHANGED <<committed, query>>

Drop(slots) ==
  /\ memory' = [s \in Slots |-> IF s \in slots THEN NoEntry ELSE memory[s]]
  /\ older' = [m \in Movements |-> older[m] \ slots]

\* Mutant: the entry has no TTL.
ExpireNever(s) == FALSE /\ UNCHANGED cacheVars

\* The TTL of an entry passes.
ExpireEntry(s) ==
  /\ s \in InUse
  /\ Drop({s})
  /\ UNCHANGED <<committed, at, query>>

\* A process dies, with its calls and its memory, and is started again.
CrashServer(p) ==
  /\ Drop({p} \X Keys)
  /\ at' = [a \in Movements \cup Requests |->
              IF ServerOf[a] = p /\ at[a] \in {"invalidating", "read", "set"} THEN "threw"
              ELSE at[a]]
  /\ UNCHANGED <<committed, query>>

Move(m) == Commit(m) \/ CommitThrows(m) \/ Invalidated(m) \/ InvalidationFails(m)

Request(r) == (\E k \in Keys : Get(r, k)) \/ Read(r) \/ ReadFails(r) \/ Set(r)

CacheNext ==
  \/ \E m \in Movements : Move(m)
  \/ \E r \in Requests : Request(r)
  \/ \E s \in Slots : ExpireEntry(s)
  \/ \E p \in Servers : CrashServer(p)

CacheSpec == CacheInit /\ [][CacheNext]_cacheVars

\* Keyv answers no entry whose TTL has passed.
CacheFairSpec == CacheSpec /\ \A s \in Slots : WF_cacheVars(ExpireEntry(s))

-----------------------------------------------------------------------------
\* Types of the variables.
CacheTypeOK ==
  /\ committed \subseteq Movements
  /\ memory \in [Slots -> (SUBSET Movements) \cup {NoEntry}]
  /\ at \in [Movements \cup Requests ->
               {"idle", "read", "set", "returned", "threw", "invalidating"}]
  /\ asked \in [Requests -> Keys \cup {NoEntry}]
  /\ \A r \in Requests : asked[r] = NoEntry => at[r] = "idle"
  /\ held \in [Requests -> SUBSET Movements]
  /\ hit \subseteq Requests
  /\ older \in [Movements -> SUBSET Slots]

\* A process has nothing from before the movement at a key, neither in its
\* memory nor in a request that is about to write there.
Gone(m, p, k) ==
  /\ memory[p, k] = NoEntry \/ m \in memory[p, k]
  /\ \A r \in Requests : at[r] = "set" /\ Slot(r) = <<p, k>> => m \in held[r]

\* Once the entries of a process are past a committed movement, and so is every
\* request it has under way, they stay past it: an old state of the stock never
\* comes back from another process, another key or a request yet to come.
GoneForGood ==
  [][\A m \in committed, p \in Servers, k \in Keys :
       Gone(m, p, k) => Gone(m, p, k)']_cacheVars

\* The entry does not show a movement it should.
Stale(s) == s \in InUse /\ \E m \in committed \ memory[s] : s[2] \in Touched(m)

\* No key of any process shows an old stock for ever.
StaleEnds == \A s \in Slots : Stale(s) ~> ~Stale(s)

\* When a stock use case returns, it has deleted what was cached, under the keys
\* its patterns match, before it committed.
InvalidatedIsGone == \A m \in Movements : at[m] = "returned" => older[m] = {}

-----------------------------------------------------------------------------
\* getStockStatus of an option and of a product; isSelectable is the same bit.
InStock(o, seen) == Available(o, seen) > 0
ProductInStock(p, seen) == \E o \in Options : ProductOf[o] = p /\ InStock(o, seen)

\* The two texts of StockStatus.toString, named by their status.
StatusTexts == {"IN_STOCK", "OUT_OF_STOCK"}
Status(inStock) == IF inStock THEN "IN_STOCK" ELSE "OUT_OF_STOCK"

\* toString of a status, on an object that has its methods and on a plain one.
StatusText(r, inStock) == IF r \in hit THEN "[object Object]" ELSE Status(inStock)

\* The stock statuses of a response of the controller: of the products of a
\* page, or of the options of a detail.
Response(r) ==
  IF asked[r] \in Pages
  THEN [p \in ShownOn[asked[r]] |-> StatusText(r, ProductInStock(p, held[r]))]
  ELSE [o \in {o \in Options : ProductOf[o] = asked[r]} |-> StatusText(r, InStock(o, held[r]))]

\* The status of every product of a page and of every option of a detail is one
\* of the two the end-to-end tests expect, also when the answer was cached.
StatusReadable ==
  \A r \in Requests :
    at[r] = "returned" => \A x \in DOMAIN Response(r) : Response(r)[x] \in StatusTexts
=============================================================================
