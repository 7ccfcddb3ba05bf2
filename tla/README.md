# A TLA+ development for the e-commerce backend

The backend (NestJS, Prisma on MySQL, Redis) sells products with options: a
customer fills a cart, creates an order (which reserves stock and may use a
coupon), and pays for it; expired orders are canceled by a job. Several server
processes run the same code. This directory models it in TLA+: its concurrent
components one by one, and the shop they add up to; TLC checks the models, and
TLAPS proves their safety for every value of the constants.

Paths below are relative to `src/src/` of the repository unless they start with
`src/`.

## 1. Inventory

| component | state | what is hard | correct when |
|---|---|---|---|
| **Stock** (`product/`): `ReserveStock`, `ReleaseStock`, `ConfirmSale` | a `Stock` row per option (`total`, `available`, `reserved`, `sold`); Redis keys `lock:stock:...`; row locks on `products` | the Redis lock covers one option, the write all of the product; the lock expires under its holder; failures after the commit; crashes | counters balance, no movement is lost, doubled or undone by a neighbour, every call ends, a call that returns has happened |
| **Order completion** (`order/application/facades/order.facade.ts`): payment, confirmation item by item, completion, compensation | `Order.status`, `Payment` rows (unique per order and per key), stock; the saga's local variables | no transaction spans two steps; retries by key; expiry in between; lost answers; crashes | a COMPLETED order is sold and paid for exactly once, what fails is undone |
| **Expired reservations** (`order/application/jobs/`) | orders past `reservationExpiresAt` | runs that overlap or die between release and cancellation; races with payments. Nothing schedules the job yet | units are given back once, and the order is canceled iff they are |
| **Order creation** (`create-order.use-case.ts`): reserve each line *outside* the `try`, apply the coupon, save, delete the cart; the `catch` releases | cart, order, coupon, stock | partial reservations, two orders of one cart, swallowed releases | every reserved unit belongs to an order or is given back |
| **Coupons** (`coupon/`): issue (Redis lock, transaction, row lock), use in an order (no lock) | `Coupon.issuedQuantity`, `UserCoupon` rows | the last coupon, two requests of one user, use by two orders | nobody has one twice, none beyond the total, the count is the number of rows, one coupon one order |
| **Cart** (`order/`): add, update, remove, clear | `Cart` with `CartItem` rows | read, change in memory, write back whole, without a lock; deletion by an order in between | one line per option, nothing counted twice |
| **Distributed lock** (`common/infrastructure/locks/`) | a Redis key, a channel, attempts under way | missed wake-ups, expiry without a message, late answers, lost releases | two callbacks overlap only if a key expired; every call ends |
| **Product cache** (`common/infrastructure/cache/`, `RedisCacheable`) | entries with a TTL, in the memory of each process | fills that race commits, processes that show different states, sweeps that look elsewhere | an old state of the stock ends, and comes back only with a request that had read it |
| **Payment gateway** | external; the stand-ins keep no state | declines, lost answers | |

The components meet in the database and in Redis: creation, completion and the
job call the stock use cases; creation reads the cart and uses coupons; every
stock use case and coupon issue takes a distributed lock; every stock use case
sweeps Redis for entries of the product cache, which are not there: they are in
the memory of the process that made them (section 6).

## 2. Modules

| module | models | state and actions |
|---|---|---|
| `StockEntity` | `Stock` entity | `Moved`, `Allowed`, `Valid`: pure operators |
| `StockLedger` | what the stock use cases promise (abstract) | `stock`, `ledger`; `Apply` |
| `StockTx` | the three stock use cases | one action per statement: `Call`, `Acquire`/`Wait`/`GiveUp`, `LockRow`, `ReadOptions`, `DomainOp`, `SaveAndCommit`, `Rollback`, `ReleaseLock`, `InvalidateProductCache`; `Expire`, `Crash` |
| `OrderFlow` | `completeOrder` with its compensation, and the job | one action per call to MySQL, the gateway or a stock use case; a movement of stock is one step of `StockLedger` |
| `CouponPool` | what issuing promises (abstract) | `issued`, `rows`; `Issue` |
| `CouponIssue` | `IssueCouponUseCase` | like `StockTx`, plus duplicate check, quantity, period |
| `CouponRules` | `calculateDiscount` | `Discounts`, the set of possible results |
| `CreateOrder` | `CreateOrderUseCase` with `CouponApplyService` | one action per call to MySQL or a stock use case: `FindCart`, `ReserveItem`, `UseCoupon`, `SaveCoupon`, `SaveOrder`, `ClearCart`, `ReleaseItem`; `FillCart`, `Crash` |
| `Cart` | the `Cart` entity, the cart use cases, the repository | `ValidateStock`, `Find`, `CheckIncrease`, `Save`, `Answer`, `ClearByUserId`: each read and write is a step |
| `DistributedLock` | one key of the lock, both services | `Send`/`Execute`/`Answer` of an attempt, `Subscribe`, `Hear`, `AnswerAgain`, `Timeout`, `Release`, `Publish`; `Expire`, `Crash` |
| `ProductCache` | cached queries of several processes, invalidation | `Get`, `Read`, `Set`; `Commit`, `Invalidated`, `InvalidationFails`; `ExpireEntry`, `CrashServer` |
| `Checkout` | the shop: cart, coupons, orders, payment, job, with amounts and a clock | one action per request: `AddItem` ... `IssueCoupon`, `CreateOrder`, `CompleteOrder`, `RunJob`, `Tick` |
| `Seed` | the rows of `src/prisma/seed.ts` | data for `MCCheckout` |
| `BaseLemmas` | what several proofs rest on: a movement of stock keeps a row valid and balanced; sums over finite sets | |
| `StockTxProofs`, `OrderFlowProofs`, `CouponIssueProofs`, `CreateOrderProofs`, `CartProofs`, `CheckoutProofs` | proofs about the module they are named after | |
| `RedisProofs` | proofs about `DistributedLock` and `ProductCache` | |
| `MC*` | instances for TLC | |

How they fit together:

- `StockTx` implements `StockLedger` and `CouponIssue` implements `CouponPool`
  (`ImplementsLedger`, `ImplementsPool`: checked and proved). `OrderFlow` and
  `CreateOrder` compose with the abstract ledger (`INSTANCE StockLedger`), so
  what is shown of them rests on that refinement and not on the locks.
- `StockTx` and `CouponIssue` take from the lock only what `DistributedLock`
  lets through: a key that may expire at any time and that only its holder
  deletes. Their proofs use no mutual exclusion by the lock.
- `Checkout` takes each handler as one step. It asks what a long sequence of
  requests adds up to, with amounts and minutes, where the component modules
  ask what overlaps and failures do and leave amounts and minutes out.

How code and model correspond (component modules):

- An `await` that reads or writes shared state is one action; code between two
  awaits belongs to the action after or before it. `pc` names the awaits.
- A transaction's writes are one step, at commit. Reads are separate steps: the
  first consistent read comes after the row lock, so it sees what was committed
  by then.
- A call's locals are variables (`aggregate`, `counted`, `item`, `paid`, `todo`,
  `basket`, `discount`, `copy`, `held`).
- `ReleaseStockUseCase` logs its errors; callers cannot see them (`Release` in
  `OrderFlow`, `ReleaseItem` in `CreateOrder`, `Thrown` in `StockTx`).
- Variables commented "history" decide nothing.

A definition whose comment starts with "Mutant:" is a faulty variant of the one
after it; nothing uses it. Each property is known to fail when the code's
definition is replaced by one of them (`PROJECT.json`, "mutants").

## 3. Runs

| run | question | bounds | distinct states |
|---|---|---|---|
| `stock_tx` | Do the transactions implement the ledger, keep every unit, and end? | 2 calls, 3 options of 2 products, quantities 0..2 | 245,168 |
| `order_flow` | Is a COMPLETED order sold and charged, also when a retry completes it? | 2 orders (2 + 1 items, one option shared), 2 calls with one key, 1 call for the other order, 1 job run, overlaps, expiry, errors, lost answers | 1,296,755 |
| `order_flow_keys` | Do overlap, expiry and crashes leave a COMPLETED order with a refunded payment, or confirm an item twice? Is a compensation finished? | 2 calls with keys of their own, 1 job run | 21,708 |
| `coupon_issue` | Do the transactions implement the pool? | 3 calls, 2 users, 2 coupons with 2 and 1 left | 689,175 |
| `create_order` | Does a call that returns have its order, and does the catch undo its own work only? | 3 calls of 2 users, 2 carts (2 + 1 items, one option shared), 2 units of each option, a percentage and a fixed coupon, overlaps, errors, swallowed releases, lost answers, crashes | 174,576 |
| `cart` | What can overlapping requests do to a cart? | 3 requests of one user, 2 options, quantities 0..2, a cart with an old line or none | 1,024,222 |
| `distributed_lock` | Can two hold the key, who can be left waiting, does every call end? | 3 calls, all waiting, one perhaps of the simple service | 289,420 |
| `product_cache` | How can an old state of the stock come back to a process, and for how long? | 2 processes, 2 products, 1 page, 2 movements, 3 requests (2 in one process) | 308,872 |
| `checkout` | Do stock, orders, payments and coupons agree after any sequence of requests? | the seed's rows that 2 customers touch, 2 creations, 4 instants | 117,552 |

Why these bounds are enough for the question asked:

- *Stock.* A lost update needs two writers; the sibling hazard two options of
  one product; a third, of another product, shows that products do not block
  each other. Zero and too large quantities are among the requests.
- *Saga.* Repeated confirmation, double charging and a retry need two calls for
  one order, with one key (`order_flow`) or with keys of their own
  (`order_flow_keys`); the third call, for another order that shares an option,
  notices units taken from the wrong reservation.
- *Creation.* A third reservation of the shared option is refused; a fixed
  coupon worth more than its cart makes `Order.create` refuse; two calls of one
  user meet on the cart and the coupon.
- *Cart.* A lost update and the deletion in between need two requests; the
  third can bring a deleted cart back or add to it. Carts of two users share
  nothing.
- *Lock.* A holder, a waiter that is woken, and a third that takes the key
  between them or is missed by the message.
- *Cache.* In one process a fill overlaps a commit, and a second request fills
  again, or hits; the other process has entries of its own. Two calls want the
  last piece, so one of them is refused. A second product shows whether details
  are kept apart.
- *Checkout.* 90 phones are a total beyond `Decimal(10, 2)`, 180 are not in
  stock, a laptop and two coupons give accepted and refused orders; the instants
  are the seeding, the last minute of an order, the next, and the minute after a
  coupon.

Every call, run and creation is made a bounded number of times, which bounds
all counters; no state constraint is used. Symmetry is used on calls (and users
or coupons), which no definition orders, and in no run with a liveness
property. Deadlock checking is off: all calls can be over, and then nothing is
left to do.

### What fails, and should be known

Each of these runs violates one property that a comment, a document or a test
of the repository states; the trace is the scenario. Details and quotations are
in `PROJECT.json`, "findings".

| run | property | what happens |
|---|---|---|
| `order_flow_charge` | `ChargedOnce` | two overlapping requests with one key both charge; the second insert fails and nothing refunds |
| `product_cache_hit` | `StatusReadable` | a cached product comes back without the methods of its status: the answer says `[object Object]` instead of the text |
| `product_cache_sweep` | `InvalidatedIsGone` | a stock use case returns, both its sweeps done, and what was cached before it is still served: the sweeps delete in Redis, the entries are in the memory of the processes |

Other behaviours the models reach, which no passing property excludes:

- a retry with the key of a REFUNDED payment completes the order
  (`process-payment.use-case.ts:57`; `CompletedKeepsPayment` and `ConfirmedOnce`
  need keys of their own);
- a process that dies after the charge leaves an order that is charged, perhaps
  partly confirmed, and PENDING until the job cancels it (`order.facade.ts:115`);
- a failure after the stock was confirmed makes the compensation release
  reserved units, the sold ones stay sold (`order.facade.ts:139`); units
  confirmed before a failure or crash stay sold for a PENDING order;
- the job, which read the order earlier, overwrites COMPLETED with CANCELED
  (`order-prisma.repository.ts:153`); a run after the crash of another releases
  units twice (`release-expired-reservation.job.ts:54`);
- a line that cannot be reserved leaves the earlier ones reserved for nobody
  (`create-order.use-case.ts:61`; `Books` of `Checkout` counts them as `leaked`),
  and so does a crash before the order is saved (`:131`) or a reservation whose
  answer is lost (`:62`);
- two orders from one cart: the second fails to delete it, and releases the
  stock of the order it has just saved (`create-order.use-case.ts:134`);
- overlapping orders use a coupon twice (`coupon-apply.service.ts:90`); a
  coupon stays used when its order is refused (`order.entity.ts:111`;
  `CouponBooks` counts it as `forfeited`);
- a cart that was ordered comes back when an older copy is saved, and items
  added during the order are deleted with it (`Cart`);
- an order costs the price of its products: what an option adds is in no total
  (`add-cart-item.use-case.ts:57`, against BR-PROD-07 of `product.entity.ts:142`;
  `Total` of `Checkout` does as the code does);
- a request that read the database before a commit writes the old state to the
  cache after it, over a newer entry too (`redis-cacheable.decorator.ts:104`).

## 4. Fairness

- `FairSpec` of `StockTx`, `OrderFlow`, `CreateOrder` and `DistributedLock`:
  weak fairness of each call's own steps. Node runs the continuation of every
  settled promise, its timers fire, and MySQL, Redis and the gateway answer or
  fail. Nothing is assumed of callers, of Redis expiring a key, of messages
  arriving, of the clock, of a scheduler, or of crashes.
- `CacheFairSpec` of `ProductCache`: weak fairness of the expiry of each entry, since
  Keyv answers nothing whose TTL, given by `set`, has passed. Nothing is assumed
  of requests or sweeps.

`CallsEnd` holds because the wait has a timeout (in `StockTx` also because a
transaction that waits too long for a row lock is rolled back). `Compensated`
and `CatchUndoes` except crashed processes: nothing resumes a compensation.
`CatchUndoes` also excepts releases whose error was logged and swallowed: nothing
repeats them. `StaleEnds` rests on the TTL alone.

## 5. Proofs

Every safety and action property that a passing run checks is also a theorem,
for any number of calls, orders, options, products, users, coupons and keys of
the cache (`PROJECT.json`, "theorems"). Assumptions on constants are the named
ASSUMEs of the modules: typed constants, valid and balanced seed rows, orders
with at least one item, no double user coupon or cart line in the seed, disjoint
names. `Checkout` adds `SeedAssumption`: the rows the shop opens with agree with
one another, as those of `seed.ts` do (TLC evaluates it on them).

- **`BaseLemmas`.** Amounts are sums over sets, and sums are folds, which are
  defined by recursion. What they compute is proved without an induction
  theorem: if a claim failed for some finite set it would fail for a smallest
  one (`SmallestSubset`, from the library's theorem that the finite subsets of a
  set are well-founded), and that one can be split. The main lemma,
  `SumIsUnits`, says that a sum counts the pairs of a member and one of its
  units; from it follow the sum without one member, of two parts, of a smaller
  function (`SumNat`, `SumParts`, `SumMonotone`), and likewise the maximum of a
  bounded set (`MaxIsLargest`).
- **`StockTxProofs`.** `Inv` = types, `RowLockHeld`, `FreshAggregate`,
  `CommittedOnce`, `Conservation`, `ReturnedIsCommitted`. Conservation alone is
  not inductive: the absolute write could restore an old sibling row.
  `FreshAggregate` says the rows in memory are the committed ones (with the
  call's movement applied), which needs `RowLockHeld`: only one transaction per
  product is between lock and commit. `RefinesLedger` then follows: a commit is
  `Apply`, every other step stutters. `AccountingHolds` (`AccountingInv` adds
  that finitely many calls have committed, each with a positive quantity)
  follows from `FreshAggregate` too: a commit adds one entry to one sum of the
  ledger and the same units to the row. Nothing in the argument uses the Redis
  lock, so its expiry is harmless; it only reduces contention.
- **`OrderFlowProofs`.** `TypeCorrect` needs `Positions`: every activity is at
  an existing item, and compensation refers to an existing payment.
  `CompletedIsSoldHolds` adds `SoldSoFar`: a call at item *i* has confirmed the
  items before it. Both hold for all troubles, crashes included.
  `CompletedWasChargedHolds` assumes `KeysOfOneOrder`, that a key is used for one
  order, but perhaps many times. It needs `OwnPayment` (the payment row of an
  order has the key of one of its calls, and only calls with that key get past
  the payment) and `ChargedFirst`. `ConfirmedOnceHolds` assumes `DistinctKeys`,
  that no key is used for two calls: a retry with its key does confirm again.
  `CompletedKeepsPaymentHolds` also assumes that no answer is lost: a call whose
  order was saved but that was not told so refunds the payment of a COMPLETED
  order. `KeepsInv` says that a key is new until its call writes the payment,
  and that the call past the payment goes by its own one, not refunded yet, of an
  order not completed yet: it completes or refunds, and ends.
- **`CouponIssueProofs`.** `Inv` is built like that of `StockTx`; `FreshCoupon`
  says that count and absence of a row are unchanged until the commit. From it
  follow the other theorems and `RefinesPool`.
- **`CreateOrderProofs`.** `Inv` = types, `Loops` (a loop is at an item of its
  cart and has reserved those before it), `OwnMoves` (a call moves items of its
  own cart, and releases only once it is in the catch), `Done` (what is saved by
  the time a call gets to a step), `GivesBackOwn`. The catch is entered only
  from steps after all reservations, hence `GivesBackOwnHolds`;
  `ReturnedIsOrderedHolds` follows, since a returned call was never in the catch.
  Two theorems that no run states lead to the safety half of `CatchUndoes`.
  `HoldInv` says that the reserved counter of an option is its seed and the units
  of the reservations not given back yet (`ReservedIsHeld`), whose sum
  `ReserveHolds` and `ReleaseHolds` follow; so the units of an item that a call
  holds are there. `CatchInv` says that the items the catch is past were given
  back or swallowed, hence all of them when it throws on (`CatchGivesBack`).
  All of this, and `CatchUndoes`, is among creations, which alone move the rows in
  `CreateOrder`. Payments and the job, in `OrderFlow`, can release the units of an
  order twice (section 3); a release that is refused for that reason is outside
  these theorems.
- **`CartProofs`.** `IInv` says of the rows and of every copy in memory that
  they have one line per option and that a line's option is that of the request
  that created it, so that a stale copy can be written over any cart.
  `AloneIsExactHolds` needs `ExactInv`: as long as no two requests of a user
  overlapped, the one that is running has in memory the rows with its operation
  applied, so its write gives the sum expected. `NothingInventedHolds` is about
  all users: by `LimitInv`, a copy in memory is within the limit that counts its
  own request as well, and limits only grow (`LimitGrows`), so a copy that has
  become stale is still within it when it is written.
- **`CheckoutProofs`.** `Rows`, types and `Books` together, is inductive:
  that a row has the units an order releases or confirms follows from the books,
  since a pending order's items are part of the reserved counter. The reservation
  of a cart and its undoing cancel out (`UndoReserve`). `SettledOnTimeHolds` is an action
  property: each handler is shown to change an order only that way.
  `MoneyHolds` strengthens `Money` by "every payment is of an order there is",
  or an order could be placed with a payment waiting for it. `CouponBooksHold` needs
  `CouponInv`: an order with a coupon, or a refusal that took one, has its row
  in the wallet, and a user has one row of a kind, so an unused row is nobody's
  yet.
- **`RedisProofs`, the lock.** `Inv` = types, `Tokens` (no two attempts share a
  token, late ones included), `HeldOrLapsed` (a running call's token is in the
  key or has expired), `Hope` (a waiter that was not missed has the key held by
  somebody, or a message or an attempt under way). `ExclusiveHolds` follows
  from the first three, `StrandedForCauseHolds` from the last.
- **`RedisProofs`, the cache.** `GoneForGoodHolds` is an action property, of one
  movement, process and key: a read that starts afterwards sees the movement, a
  fill writes what its request holds to the slot of its own process and key, and
  everything else deletes entries or leaves them. That the call is past its
  lookup, and so has a slot, comes from the types.

Only model-checked: liveness (`CallsEnd`, `Compensated`, `StaleEnds`, and that a
catch ends, in `CatchUndoes`), since TLAPS handles neither fairness nor ENABLED;
and the three properties that are violated, which nothing could prove.

## 6. Abstractions

- Missing products, options, orders and coupons: no code deletes rows, foreign
  keys tie the ids together. Ownership checks: callers own what they pay for.
- Amounts: only in `Checkout`. Elsewhere a cart has a total, which its items do
  not change, and payments carry no amount.
- The floating-point division in `calculateDiscount`: both possible results.
- The clock: minutes in `Checkout`; elsewhere expiry is an action or a choice.
- `Checkout` handles one request at a time, none of which fails for a reason
  outside the program; a payment key belongs to one order.
- The cart in `CreateOrder`: `FillCart` puts a full cart in place when there is
  none. What overlapping cart requests do is the subject of `Cart`.
- The stock check of the cart requests in `Cart` passes or fails by choice, as
  others move stock at any time.
- The lock's `autoExtend`: a key that is renewed is one that expires later, and
  the model's key expires whenever it likes.
- The cache is what the locked dependencies make of `cache.module.ts`:
  `@nestjs/cache-manager` 3.0.1 reads `stores` and ignores `store`, so each
  process has a Keyv in memory, which keeps values as JSON. The Redis store that
  the module creates stays empty; nothing else writes keys with the prefix
  `cache:`, so a sweep finds none, and is one step that succeeds or fails. The
  variable `older` of `ProductCache` is history. The cache in `StockTx`:
  invalidation is a step that can fail.
- `Stock.version`: written, never read to decide.
- Redis itself: a key is there or not; no fail-over.
- `Seed` holds the statuses PAID and CANCELLED that `seed.ts` writes and the
  code does not know; no handler matches them. Running the seed again on a
  used database, which would reset counters, is not modelled.

## 7. Not modelled

- Modules, DTOs and bootstrap: wiring, validation of request bodies, formatting,
  documentation. No state.
- Users and authentication: a profile read and a fake guard.
- The remaining queries (orders, carts, coupons): reads without effect, with pagination,
  filters and mapping.
- In-memory repositories and fixtures: test doubles that no module wires up.
- The schedule of the expiry job: nothing in the repository calls it, so no
  fairness of it is justified and no property says that orders expire in time.
- The payment gateway beyond what its callers see; its `refund` is never called.
- `DistributedLockInterceptor`, which no handler uses, and
  `RedisCacheInvalidationService`, to which nobody publishes.
