# A verification project for the shop server

TLA+ models of the server in `src/src` (an Express and TypeScript shop back end
on MongoDB, Redis and BullMQ), TLC runs that check them on small instances, and
TLAPS proofs about them for every value of the constants.

Sections: 1 the system, 2 the plan, 3 the cart modules, 4 the outbox modules,
5 the discount modules, 6 the accounts, 7 the catalogue, 8 the product filters,
9 the proofs, 10 what is left out.

## 1. The system

One HTTP server (`server.ts`), a dispatcher process (`dispatcher.worker.ts`), a
domain worker (`domain-events.worker.ts`) and an email worker
(`email.worker.ts`) share a MongoDB replica set and a Redis. JavaScript runs a
request from one `await` to the next without interruption, so everything hard
happens between two round trips: other requests, other processes, a crash.

| Component | State | Operations | Talks to | Modelled |
|---|---|---|---|---|
| Cart (`modules/cart`) | one document per owner (account or guest id), with a version; TTL on guest carts | add, set quantity, remove, clear, merge of a guest cart, read | products, inventory, login and register | yes |
| Outbox (`infrastructure/events/outbox`, `workers/dispatcher.worker.ts`) | event documents with status, lease, retry count, next attempt | save, claim, release expired locks, mark sent, failed, dead | use cases that raise events, BullMQ | yes |
| Domain worker and handlers (`workers/domain-events.worker.ts`, `users/domain/events`) | jobs of the domain queue | run a handler, schedule an email, mark the event failed | outbox, email queue | yes |
| Email worker (`workers/email.worker.ts`) | jobs of the email queue | make a token, render, send | Redis, Postmark | its tokens; rendering and Postmark no |
| Confirmation tokens (`core/application/services/token`) | Redis keys with a TTL | generate, verify and consume | users, email worker | yes |
| Users (`modules/users`) | user documents: credentials, verification, failed attempts, lock | register, login, forgot and reset password, verify email | outbox, tokens, sessions, cart handover | yes |
| Sessions (`middleware/http`) | express-session in Redis, with a guest id | ensure guest id, regenerate at login | cart | in part |
| Discount engine (`modules/discount/engine`) | none of its own | evaluate a cart against discounts | cart contents, discounts, coupons | yes |
| Discounts and their cache (`modules/discount`) | discount documents, cached list of automatic ones, usage counts | create, activate, deactivate, count a use, read through the cache | engine, Redis | yes, but for coupon reads |
| Coupons (`modules/coupon`) | coupon documents | create, activate, deactivate | discounts, engine | what an evaluation makes of a code |
| Inventory (`modules/inventory`) | stock per product or variant | create, update, delete | products, cart | yes, as product requests use it |
| Products (`modules/product`) | product documents with variants and images | create and update in a transaction with inventory | inventory, filters | yes, but for prices of variants |
| Filters (`modules/product/repositories/filter.repository.ts`, `middleware/products`) | none of its own; a cache that is not in use | validate a query, count products per value | products | yes |
| Categories, brands | single documents | create, read, update, delete | products | no |
| HTTP, validation, errors, logging, wiring | none | | everything | the schemas of product requests |

What makes each correct, and what is hard about it:

- **Cart.** No update of a cart is lost or applied twice although calls read,
  change a copy and save; retries end; the item limit and the stock a request
  was told of hold whatever interleaves; a guest's items are not lost when the
  guest logs in. Hard: optimistic concurrency, insert races on a unique index,
  a merge over two documents without a transaction, the TTL sweep.
- **Outbox.** What is stored is published, or given up for good after a number
  of failures; what is marked sent was queued; two dispatchers do not work on
  one event while its lease lasts; an email job is not created twice while
  BullMQ remembers the first. Hard: leases, crashes between two steps, lost
  replies, a dispatcher and a handler that both mark one event, stale counts.
- **Users and tokens.** A token that is gone serves nobody, an account is not
  locked without cause and a lock is not lost without cause, and no request
  undoes what another was answered. Hard: get-then-delete, read-modify-write of
  counters, logins that write what they read before somebody else wrote.
- **Discounts and coupons.** A cached list is stale only for a known reason and
  not for longer than its time to live, a usage limit is not exceeded, prices
  stay between zero and the price without discounts. Hard: cache-aside against
  writers, time, rounding, several discounts on one item.
- **Products and inventory.** A product has one inventory of its own or
  inventories of its variants; every inventory has its product and variant; an
  update changes what it asks for and nothing else; only a race creates a
  product with the variant sku of another (an update compares the variants it
  adds with those of its own product only). Hard:
  reads outside of the transaction that writes, callbacks that run again on what
  the first run has changed, several documents, fields that are written only if
  they are marked.
- **Filters.** The counts are those of a faceted search. Hard: one aggregation
  that answers for all filters at once, in two halves that are merged by a label
  made of key and value.

The full list of hazards, each at its line, is in `PROJECT.json`.

## 2. The plan

In the order of how much the shop depends on it; all of it is done but for 8.

1. **Cart**: `CartItems` (contents of a cart), `CartArray` (the array behind
   them), `Cart` (the calls), `AtomicCart` (the abstract specification),
   `CartRefinement`, `MCCart`, and the proofs.
2. **Outbox**: `Outbox`, `MCOutbox`, `OutboxProofs`.
3. **Accounts**: `Accounts`, the requests that race on one user and its tokens,
   `MCAccounts`, and `AccountsProofs`.
4. **Discounts**: `DiscountCache`, the cache of automatic discounts against its
   writers, with time and the usage limit, and `DiscountCacheProofs`.
5. **Discount arithmetic**: `DiscountEngine`, conditions and calculator as
   operators against reference definitions, over bounded carts, and
   `DiscountEngineProofs` for any carts.
6. **Catalogue**: `Transactions` (the database), `ProductEntity` and
   `ProductRequests` (what is done in memory), `Catalogue` (the two services,
   which compose them), `MCCatalogue`, `CatalogueProofs`.
7. **Filters**: `ProductFilters`, `MCProductFilters`, `ProductFiltersProofs`.
8. Not begun: an abstract at-least-once queue that `Outbox` implements, the
   prices of variants, the transition tables of the status value objects once a
   service calls them.

Runs stay small in number: one for each question, several properties to a run.

## 3. The cart

### Modules

- `CartItems`: `CartEntity` as the quantity of every line (itemKey). `Effects`
  gives what each call may leave of the contents.
- `CartArray`: the same entity on the array it really keeps. Its run justifies
  the view of `CartItems`: no line ever has two entries, and the merge loop
  reaches one of the outcomes of `MergeItems`. What the view forgets is the
  order, which decides only which guest lines fit when a merge fills a cart;
  `MergeItems` allows every choice.
- `Cart`: requests that make `CartService` calls. `carts` is the collection,
  `pc` the await a request is at, `snap` the entity it has read, `taken` the
  guest cart of a merge, `avail` the stock it was told of, `tries` the
  conflicts it has met. One action per round trip:

  | Action | Code |
  |---|---|
  | `Begin` | the controllers and the login and register handlers that start a call |
  | `CheckAvailability` | `checkAvailability`, `assertAvailable` |
  | `TakeGuestCart` | the guest lookup of `mergeGuestCart` |
  | `FindCart`, `InsertCart`, `InsertCollides`, `Refetch` | `CartRepository.findOrCreate` and its duplicate key path |
  | `RequireCart` | `requireCart` and the lookup of `clearCart` |
  | `Save`, `Conflict` | `CartRepository.save` and `retryOnConflict` |
  | `DropGuestCart` | `deleteById` after a merge |
  | `Expire`, `StockChanges` | the TTL index; everybody else who changes stock |

  `Loaded` is the code between a read and the save or the answer. `writes`,
  `seen`, `begun` and `released` are history that no guard reads.
- `AtomicCart`: what callers are promised: each call acts at one instant, at
  most once, on what the cart holds then. No ids, versions, copies or retries.
- `CartRefinement`: the mapping. A call has acted once its save has landed; a
  merge has acted before the guest cart is dropped.

### Runs

| Run | Shows |
|---|---|
| `cart_handover` | Three requests of any kind on the carts of a user and a guest, who may log in, even twice, while both carts are written to and the guest cart may expire: `TypeOK`, `CartCapacity`, `NoCartVanishes`, `ConflictNeedsWriters`, `CallsAreAtomic` (646,000 states). |
| `cart_liveness` | Two requests of any kind while stock moves between 0 and 2: `StockHonoured`, and `EveryCallAnswered` under `FairSpec` (263,000 states). |
| `cart_late_add` | A counterexample: an item that the guest adds between the read and the delete of a merge is lost, although the handover port says that it follows. |
| `cart_array` | `LoopMergesAsSpecified` on all arrays that calls can build, with one line more than the limit; it says too that no line has two entries (62,000 states). |

Bounds. One account and one guest share a cart, which is where calls meet; carts
of different owners meet only in a merge. Two lines and a limit of one line make
a full cart, a shared line and a dropped line all possible; in `cart_array`
four lines and a limit of three put the limit inside an array with an order.
Three requests let one lose twice to the others, which exhausts
`MaxSaveAttempts` = 2; with the code's value of 3 the same would need four. Each
request makes one call, so the number of requests bounds versions and ids.
`StockLevels` holds 0 where refusal for lack of stock matters. Symmetry is used
over requests, and only in runs without liveness.

Fairness: weak fairness of each request's steps. Node runs every promise
continuation and the driver settles every round trip, with an answer or an
error. No fairness for requests to arrive, for stock, or for the TTL. `Expire`
may happen at any time, also right after a cart was read.

## 4. The outbox

### Modules

`Outbox` follows an event from `saveManyDomainEvents` to the email queue.
`status`, `retry`, `expired` and `due` are the document (`expired` and `due`
say that `lockedUntil` and `nextAttemptAt` have passed, so there is no clock);
`dpc`, `candidates` and `claimed` are a dispatcher's job; `job`, `attempts`,
`stalled`, `found` and `email` are BullMQ and the handlers.

| Action | Code |
|---|---|
| `SaveDomainEvent` | `saveManyDomainEvents` in the use case's transaction |
| `ReleaseExpiredLocks`, `FindCandidates`, `Claim` | the repository methods of those names; `claimPendingBatch` is a find and one `findOneAndUpdate` per candidate |
| `Dispatch`, `DispatchThrows` | the publisher's `queue.add`, with and without the reply |
| `DispatcherMarksSent`, `MarkingThrows`, `DispatcherMarksFailed` | the loop of the job processor and its catch block |
| `JobDies` | a crash, or an error outside of the try block |
| `TakeJob`, `ScheduleEmail`, `SchedulingThrows`, `LookUpEvent`, `HandlerMarksFailed`, `HandlerThrows`, `JobCompletes` | the domain worker and the handlers, which share one shape; an error in the catch block may come after the mark has landed |
| `JobStalls`, `JobIsRemoved`, `EmailJobEnds`, `EmailJobIsRemoved` | BullMQ and the email worker (external) |
| `LeaseEnds`, `BackoffEnds` | time |

`WorkerHasMongo` is FALSE for the system as its start scripts run it: the domain
worker never calls `connectDB`, so the query in a handler's catch block waits
for a connection, throws, and the job uses up its attempts. TRUE is the system
the handlers are written for. Both are checked. `undelivered`, `scheduled`,
`repeated`, `forgotten`, `fails` and `overran` are history that no guard reads.

### Runs

| Run | Shows |
|---|---|
| `outbox_deployed` | Two events, two dispatchers, no connection in the worker, one fault: `TypeOK`, `SentIsCovered`, `OneDispatcherAtATime` (1,171,000 states). |
| `outbox_connected` | One event, handlers that can mark it, four faults: `SentIsCovered` with marks that land, `NotDeadTooSoon`, `EmailScheduledOnce`, and `EveryEventSettles` under `FairSpec` (1,074,000 states). |

`SentIsCovered` says that no event disappears without a trace: if no email was
scheduled, there is a mark in the outbox or a job that BullMQ has failed. It does
not say that somebody acts on the trace. In the deployed system the trace is the
failed job alone, and with a connection the mark of the dispatcher may overwrite
that of the handler.

What is true of this code and not a property: a dispatcher that is slower than
its lease has its claim released without any fault, although the comment at
`dispatcher.worker.ts:80` speaks of dispatchers that crashed; that is why
`OneDispatcherAtATime` ends with the lease. The claim asks again for the status
of an event but not for `nextAttemptAt`, so an event that failed since the find
is claimed before its backoff ends. An event that is dispatched again after its
job completed is ignored while BullMQ retains the job.

Bounds. Two events and `BatchSize` 2 are needed for a dispatcher to hold a rest
that it forgets when it dies; one event is enough for the marks that race on
it. Two dispatchers for claims to race. `MaxHandlerRetries` 2 and `JobAttempts`
2 leave room for a retry and for its end; four faults can exhaust them and
crash someone. Retries are bounded by `MaxHandlerRetries`, so the only bound on
the behaviours is `MaxFaults`; leases may end at any time without being
counted.

Fairness: each dispatcher's steps (the scheduler adds a job every five seconds
and the workers take the next when they are done), each handler's steps, and
that leases and backoffs end, since `lockedUntil` and `nextAttemptAt` are times.
Not that a job is ever removed, and not that the email worker does anything.
That a process which died is started again is part of the dispatcher's fairness:
a supervisor or the operator does that.

## 5. The discounts

### Modules

`DiscountEngine` is `evaluate` once it has its discounts. One step computes the
answer, because the code awaits nothing in between; the operators carry the
names of the code's functions (`Matches` and `MatchedItems` are
`ConditionEvaluator.evaluate`, `Calculate` the calculator, `Winner` and
`Applied` `selectValueDiscounts`). A coupon's code is resolved there as well: a
coupon that is not active, has expired or is used up is ignored without a word,
and a usable one adds its discount to the candidates. Discounts are assumed to
have passed the validation of their entity, and carts to be what the cart makes
them: at least one unit in a line, and a markdown below the price. An item is a position in `cart.items`; its
product, variant, categories and tags are one set of labels. Money is in cents,
and a calculation keeps the amount it takes off as a fraction, so that `Round2`
rounds where the code does. An item may be free. The share of a fixed amount on
items that are all free is then zero divided by zero: NaN is a scale of zero
here, and `SavesMore`, `Contenders` and `PriceUnder` treat it as the code's
comparisons do. Floating point error, which `round2` hides, is left out.

`DiscountCache` is the list of automatic discounts under its one key.

| Action | Code |
|---|---|
| `CacheMiss`, `FindAllActiveAutomatic`, `ComputeTtl`, `SetCache` | `fetchCachedAutomatic`, one step per await |
| `SaveDiscount` | `saveDiscount`, `saveBulkDiscounts` (one discount of a bulk at a time) |
| `ReadEntity`, `SaveEntity` | `activate`, `deactivate` and the repository's `save` |
| `AtomicIncrementUsage` | the update of that name |
| `DeleteKey` | `cache.del` at the end of every writer |
| `DeleteFails`, `EvaluationFails` | a crash, or an error of Redis or MongoDB |
| `Tick` | time: windows begin and end, keys expire |

`opens`, `closes` and `ttl` count down in ticks, so there is no clock to bound.
`Far` stands for every end further away than any time to live. `aged`, `late`,
`missed`, `overtaken` and `age` are history in the entry and the fills that no
guard reads.

### Runs

| Run | Shows |
|---|---|
| `discount_engine` | Every list of up to two of eleven automatic discounts and a coupon's, usable or not, on six carts (38,304 states). `CheapestUnitsAreDiscounted` compares `applyBuyXGetY` with the least worth of all choices of units, `FixedAmountIsHonoured` bounds what rounding does to an amount; `StackableCouponNeverHurts`, `OnlyTiesDependOnOrder`, `OverdrawnOnlyByStacking` and `ExcludedItemsUntouched` say what discounts that meet may do. |
| `discount_on_sale` | A counterexample: `excludeOnSale` on a percentage without item conditions is not honoured, although a unit test is named after it. |
| `discount_cache` | `StaleForAReason`, `EndedDiscountsLeave`, `UsageIsCounted`, and `CacheCatchesUp` under `FairSpec`. |

Bounds. Three discounts are what it takes for a stackable one to meet two of one
priority; the eleven differ in every field the code branches on. Six carts of up
to three lines have prices in and out of order, markdowns, free items, and units
that do not divide. In `discount_cache` two writers and one evaluation are enough for a fill
to overtake one writer and meet the other; evaluations only meet through the
one key. A `MinTtl` of two ticks leaves a tick in which an ended discount is
still served, and a `MaxTtl` of three is one that a window can exceed. The run
checks deadlock: time never stops.

Fairness: the steps of evaluations and writers that have begun, as Node runs
every continuation, and time. Nobody has to send a request, and nothing has to
fail or succeed: `EvaluationFails` and `DeleteFails` are always possible.

What is true of this code and not a property: `applyBuyXGetY` discounts the
cheapest units and its comment calls that the "max benefit to customer", which
would be the dearest. Two cart-level amounts can together exceed the subtotal;
`OverdrawnOnlyByStacking` says that nothing else can. A fill that read before a
write and sets after its delete leaves a stale list until its time to live
ends; `StaleForAReason` says that this, a failed delete and time are the only
ways. `findAllActiveAutomatic` does not ask for the usage count.

## 6. The accounts

### Modules

`Accounts` has the `Users` collection (`registered`, `password`, `verified`,
`failed`, `lock`), what goes by email (`asked`, `issued`, `ttl`, `mailed`) and
the requests. `snap` is the entity a login has read and changed. Like the other
times, `lock` and `ttl` count down; 0 is a date that has passed or none.

| Action | Code |
|---|---|
| `Begin` | the handlers of `UsersController`; a token that is presented was mailed |
| `RegisterUser` | the transaction of `UserRegisterUseCase`: user and event (`Register`), or the unique index refuses both |
| `FindByEmailWithPassword`, `ComparePassword`, `UpdateLoginStatus` | `UserLoginUseCase`, with `isLocked` after the read and `recordFailedLogin` or `recordSuccessfulLogin` after bcrypt |
| `LookUpEmail`, `StoreResetRequested` | `ForgotPasswordUseCase` |
| `GenerateToken`, `SendEmail` | the two email handlers |
| `GetToken`, `DelToken` | `verifyAndConsumeToken` |
| `FindOwner`, `UpdatePassword`, `UpdateEmailVerification` | `ResetPasswordUseCase` and `VerifyEmailUseCase` |
| `RequestFails` | an error or a crash between two steps; a last write that lands without its answer is in the action that writes |
| `Tick` | time |

What the outbox and the queues do between `asked` and `GenerateToken` is left to
`Outbox`; here an event can be handled at any time and more than once. `version`
and the fields `version`, `gone` and `missed` of `snap` are history that no
guard reads. Passwords stand for their hashes. `StrongPasswords` are those that
`PasswordPolicy.validate` accepts: registration and reset refuse the others
before a user is inserted or a token consumed (`MeetsPolicy`), and a login takes
any. The sessions, the consents of a registration and the spelling of addresses
are left out.

### Run

`accounts` checks `TypeOK`, `LockNeedsFailures`, `LockStands`, `TokensDie` and
`AnswersStand`.

Bounds. Requests meet through one account, so there is one. `MaxFailed` is 2
instead of 5: four requests then suffice for a registration and three logins,
which is what it takes to lock an account and to have a login that read it
before; they suffice as well for a registration, a request for a reset and two
resets with one token. One of the calls is a reset with a weak password. A lock of
two ticks can be seen to go on and to be
prolonged; a verification token lives longer than a reset token, as in the
code. Each request makes one call, which bounds `failed` and `version`. There
is no liveness property: a request is a straight line of steps, and time can
always pass.

What is true of this code and not a property. Failures are lost when logins
overlap, so there may be more wrong passwords than `MaxFailed` without a lock,
and a success can reset a count or a lock it has not seen; `LockStands` says
that nothing else ends a lock. The count is not reset when a lock ends: one more
failure locks the account again. Two requests that overlap can both use one
token; `TokensDie` says that they must overlap. Login asks neither for the
status of the user nor for the verification of the email. No operation sends a
verification email again, although the comment on `EmailVerificationVO` speaks
of a status "expired" that "can request new one".

## 7. The catalogue

### Modules

- `Transactions`: MongoDB as the services use it. `store` is what is committed,
  one document per key; a unique index is a key per value. Each request in `open`
  has its snapshot with its own writes (`view`), the keys it has written
  (`wrote`) and those that others have committed since (`stale`). `Free` is the
  write conflict: a key of another open transaction, or a stale one, is refused.
  A read without a session sees `store`.
- `ProductEntity`: `ProductEntity` and `ProductVariantEntity` as operators from a
  product to the product after a call, or `Refusal` if it throws. `marked` is the
  change tracker, and `Stored` what the update then writes. Fields that are only
  stored and compared with undefined are one kind (`Optional`); `seo`, the name
  with its slug, the price with its markdown and history, images and variants
  are modelled for themselves.
- `ProductRequests`: the refinements of the update schema, and the assemblers
  that put the uploaded files in the place of temporary ids (`Accepted`,
  `Assembled`).
- `Catalogue`: the requests. `pc`, `entity`, `at` and `job` are the callback of
  `withTransaction`; `command` outlives it, as does what `Renamed` has written
  to it; `attempt` counts the runs.

  | Action | Code |
  |---|---|
  | `Receive` | the controller: validation and assembly |
  | `LoadProduct` | `updateProductWithInventories` from the read to the first operation on an inventory |
  | `DropVariants`, `AddNextVariant`, `EditNextVariant` | its three blocks on variants, an added or edited variant at a time |
  | `DeleteInventory` | `deleteInventoryPermanentById` |
  | `FindInventory`, `SetStock` | `updateInventory`: the read without a session, and the write |
  | `CheckKinds`, `InsertInventory` | `saveInventory` and `saveInventoryForKnownProduct` |
  | `SaveProduct` | `updateProduct` of the repository |
  | `PrepareProduct`, `InsertProduct`, `InsertInventories` | `ProductCreateUseCase` |
  | `CommitTransaction` | the end of the callback; the reply may be lost although the commit landed |
  | `TransientError`, `Lost` | errors that run the callback again, and others |

### Run

`catalogue` (58,615 states) checks `TypeOK`, `OneKindOfInventory`,
`InventoriesHaveOwners`, `SkusSharedByRacesOnly`, `UpdatesAreExact`,
`MarkdownsHold` and `ImagesHaveFiles` on two requests out of 43.

Bounds. One product has an inventory of its own and one has variants, of which
one has an inventory, so that every operation on inventories has a product where
it fits and one where it does not; requests may also be about what another
request has created. Conflicts need two transactions; a third only waits longer
(with three requests and no faults TLC finds no error in 1.13 million states,
which is too slow to be a run). Two runs of a callback and one fault show a
callback that starts on what another has left in its command. A price history
of two entries fills up. There is no liveness property: a request is a straight
line, and its second run may be its last.

What is true of this code and not a property. The inventories are read outside
of the transaction, because the session is passed where the driver expects
options; the section on proofs says why that does no harm. `updateInventory`
does not ask whose inventory it is, so a request about one product sets the
stock of another's. A request that only changes stock is always refused, since
the product has no marks and the repository refuses to save it. A variant that
has no inventory cannot be removed, because as many inventories must go as
variants. `null` clears a field in memory and not in the database, since
undefined is not stored; a removed markdown restores the price and keeps
`compareAtPrice`, and a price given without a markdown is not compared with the
one there is. An order of images may name one twice, and then leaves another
out. Nothing checks the files of images that are added to a variant that is
already there. The constructor of the entity drops `productOptions`, so a new
product has none. No index keeps variant skus apart.

## 8. The product filters

`ProductFilters` follows `GET /products/queryies`. The middleware hands the
filters to the controller through a storage, without an `await` between
`storage.set`, `next()` and `storage.get`, so the hand-over is part of one step
(`AcceptQuery`) and the storage no state of its own. Reads of the database are
steps of their own, with products changing in between (`UpdateAttributes`).

| Action | Code |
|---|---|
| `Receive` | the start of the middleware's `handler` |
| `GetValidFilters` | the decorator, with the use of the cache commented out, and `getUniqueFilters`; if the read fails the request is never answered, since nobody awaits the middleware |
| `RefuseQuery`, `AcceptQuery` | the zod schema, `validateFilters`, the storage and `next()` |
| `CountFilters` | `findNextFiltersProduct`, or its error |
| `UpdateAttributes` | a saved `updateAttributes` |

`MergeArrays` is set-valued: it returns every array that `mergeArrays` may make,
since which item of a label stays depends on the order the database groups in.
`Label` is the string `${key}:${value}` that it tells items apart by. Nothing
splits it again, and attributes may contain colons, so (`size`, `eu:42`) and
(`size:eu`, `42`) are one item: one of the pairs is told, with the counts of both.

`product_filters` (78,374 states) checks `CountsAreFacets`: for all labels and all
products, what the aggregation reports is what a query per facet would, added up
over the pairs of a label, except for products that list a value twice and, where a
key is filtered by, for products that miss the choice of another key. The counts are
taken in one step from the products as they are then, so that one request is
enough; products change before and between. Three products, among which
attributes repeat, are enough for a value to be counted and over-counted; one list
has two pairs of one label; ten queries have values that are unknown, spelled with
capitals, predefined and in conflict, and ask for either pair of the label. The
run may stop: the request has been answered, refused or dropped.

What is true of this code and not a property. `page`, `sort` and `limit` are
validated and then not used. `limit` is not in `PREDEFINED_FILTERS`, so it is
split into an array and refused unless a product has an attribute of that name.
A value is put in lower case before it is compared, so a stored value with
capitals can never be selected.

## 9. Proofs

No theorem bounds the number of requests, owners, events, dispatchers, writers,
tokens or faults. The assumptions are those in the modules (`CartItemsAssumption`: the
lines are finitely many and the limit is positive; `CartAssumption` and
`OutboxAssumption`: types, users are not guests, a merge goes to an account;
`DiscountCacheAssumption`: types, and limits of the time to live in order;
`AccountsAssumption`: types, positive times, finitely many requests;
`CatalogueAssumption`, `InitialStoreAssumption`: types, and a database that is
well-formed, its products as the entity keeps them, with inventories of one kind
that have their owners; `DtosAssumption`: an update that has passed
`UpdateProductRequestSchema` has a name and a price that are not `null`, if it has
them, and arrays where the schema asks for arrays; `UndefinedAssumption`:
`Undefined` is none of the objects and arrays an update is assembled of;
`ProductEntityAssumption`: a price history has room for one price;
`FiltersAssumption`: types, finitely many products, keys and values; `DiscountsAssumption` and `CartsAssumption`: what
`DiscountEntity.validate` and a cart guarantee, which the markdown guard of
`product.entity.ts` and the comment on `effectivePrice` in `engine.types.ts`
justify),
which TLC evaluates in every run.

| Theorem | States |
|---|---|
| `CartProofs!TypeCorrect` | `TypeOK` of `Cart` |
| `CartProofs!Capacity` | `CartCapacity` |
| `CartProofs!Conservation` | `NoCartVanishes` |
| `CartProofs!ConflictsArePaidFor` | `ConflictNeedsWriters` |
| `CartProofs!StockIsHonoured` | `StockHonoured` |
| `CartProofs!CallsTakeEffectAtomically` | `Cart` implements `AtomicCart` |
| `CartProofs!ArraysMergeAsSpecified` | `LoopMergesAsSpecified` of `CartArray` |
| `OutboxProofs!TypeCorrect` | `TypeOK` of `Outbox` |
| `OutboxProofs!NothingSentIsUncovered` | `SentIsCovered` |
| `OutboxProofs!NothingDiesTooSoon` | `NotDeadTooSoon` |
| `OutboxProofs!ClaimsAreExclusive` | `OneDispatcherAtATime` |
| `OutboxProofs!EmailsAreScheduledOnce` | `EmailScheduledOnce` |
| `DiscountCacheProofs!TypeCorrect` | `TypeOK` of `DiscountCache` |
| `DiscountCacheProofs!StaleLists` | `StaleForAReason` |
| `DiscountCacheProofs!EndedDiscounts` | `EndedDiscountsLeave` |
| `DiscountCacheProofs!UsageExact` | `UsageIsCounted` |
| `DiscountEngineProofs!TypeCorrect` | `TypeOK` of `DiscountEngine` |
| `DiscountEngineProofs!ExcludedItemsUntouchedCorrect` | `ExcludedItemsUntouched` |
| `DiscountEngineProofs!OverdrawnOnlyByStackingCorrect` | `OverdrawnOnlyByStacking` |
| `DiscountEngineProofs!StackableCouponNeverHurtsCorrect` | `StackableCouponNeverHurts` |
| `DiscountEngineProofs!FixedAmountIsHonouredCorrect` | `FixedAmountIsHonoured` |
| `DiscountEngineProofs!CheapestUnitsAreDiscountedCorrect` | `CheapestUnitsAreDiscounted` |
| `DiscountEngineProofs!OnlyTiesDependOnOrderCorrect` | `OnlyTiesDependOnOrder` |
| `AccountsProofs!TypeCorrect` | `TypeOK` of `Accounts` |
| `AccountsProofs!LocksAreEarned` | `LockNeedsFailures` |
| `AccountsProofs!LocksStand` | `LockStands` |
| `AccountsProofs!DeadTokensServeNobody` | `TokensDie` |
| `AccountsProofs!AnswersAreKept` | `AnswersStand` |
| `CatalogueProofs!CatalogueInvariant` | the inductive invariant |
| `CatalogueProofs!TransactionsIsolated` | `WritersExclude`, `ViewsAreFresh` of `Transactions` |
| `CatalogueProofs!OneKindOfInventoryHolds` | `OneKindOfInventory` |
| `CatalogueProofs!InventoriesHaveOwnersHold` | `InventoriesHaveOwners` |
| `CatalogueProofs!SkusAreSharedByRacesOnly` | `SkusSharedByRacesOnly` |
| `CatalogueProofs!TypeCorrect` | `TypeOK` of `Catalogue` |
| `CatalogueProofs!ExactInvariant` | the inductive invariant of updates |
| `CatalogueProofs!FieldsChangeAsAsked` | the part of `UpdatesAreExact` about fields and other documents |
| `CatalogueProofs!MarkdownsAreKept` | `MarkdownsHold` |
| `CatalogueProofs!ImagesGetFiles` | `ImagesHaveFiles` |
| `ProductFiltersProofs!CountsAreFacetsCorrect` | `CountsAreFacets` |

**Cart.** No property is inductive on its own: whether a save keeps the limit
depends on the copy it writes. The invariant `IInv` says what each request
knows (`RequestInv`): a copy about to be saved was accepted by the entity, is
within the limit, is no newer than the stored cart with its id, equals the
stored revision when id and version agree, and is that revision while nobody
has written since it was read. Ids below `nextId` are used once, so no cart can
come back under an old id. Then a save that matches writes a change of what is
stored, which gives the limit, the stock and the refinement step at once; and a
save that does not match has somebody's write between the read and now, which
pays for the conflict. `EffectsFit` is the lemma on the entity. The refinement
reuses the invariant: `StepMaps` shows each step of `Cart` to be a step of
`AtomicCart` or a stutter. For `CartArray`, arrays without a line twice and within
the limit are what every call leaves (`Arrays`, `EditsAreArrays`). `MergeIsLoop`
turns the fold of `mergeItems` into its rounds, and `Looped` says what a round
keeps: lines are added from what has been seen, with the incoming quantity, and
none is left out unless the array is full.

**Shared lemmas.** `FiniteFolds` has what several proofs need about finite data.
Induction over sets and prefixes is stated with the family of the sets, or
numbers, a fact holds for (`SubsetInduction`, `ElementInduction`,
`PrefixInduction`), since it cannot be stated with a predicate. `FoldExists` and
`FoldsAgree` say that the recursive function in the definition of a fold exists
and is determined, which nothing about a fold follows without; from there, sums
split, grow, are monotone and linear, do not depend on the order and count
(`SumFromFirst` to `SumCounts`), and finite sets have a least and a greatest
element.

**Outbox.** Five invariants, each inductive given the ones before.
`CoverInv`: an event that is marked sent, or about to be marked by a dispatcher,
has a job that is queued or at work, or was scheduled, or has left the trace of a
failure; and a handler that has returned has done one or the other. `RetryInv`: no count anywhere, in a document, a claim or a handler, runs
ahead of the failures that happened, so lost updates can only delay the end.
`BatchInv`: what a dispatcher holds, once each. `HoldInv`: while a lease lasts,
what its holder claimed is processing or sent and nobody else holds it.
`OnceInv`: an email job that was made is retained until it is forgotten; that
the second is only made after that is not inductive without it.

**Discount cache.** `LeastExists` (a finite set of integers has a least element)
and `TtlFits` (what `Ttl` returns) are the lemmas on data. `ListInv`: a list in
a fill or in the cache is what the database offers until time passes or
somebody writes, and a writer that the cached list has missed had written
before it was set or has its delete still ahead. `StoredInv`: lists hold stored
discounts, so that no insert moves the windows they were computed from.
`TimeInv`: the sum of age and remaining time is at most `MinTtl`, or the rest
ends with the first discount; both are kept by a tick, which is why the property
alone is not inductive. `CallInv` identifies requests that have not called, so
that a redemption is counted once.

**Discount engine.** One step answers, so the lemma `RequestCorrect` only ties the
answer to its cart and candidates; the work is in the lemmas on data, for carts and
lists of any length, with the sums of `FiniteFolds`. `CalculationIs` says of all four
calculators that they take at most its price off a line; `PriceUnderIs` and `RoundingStays` that no price then
leaves its range, which gives `TypeOK`. For `FixedAmountIsHonoured` the exact
shares add up to the amount and `RoundingError` bounds what each line loses.
For `CheapestUnitsAreDiscounted` the discounted units fill the items in the order of
`SortedBefore` up to the one where they run out; every other choice moves units
across its price (`HitsAreWorthLeast`). For `OnlyTiesDependOnOrder` comparing
savings over different scales is shown transitive (`RatiosAreOrdered`), so exactly
one discount wins (`WinnerExists`), it is the same one in any order
(`WinnerIsReordered`), and minimum and sum forget the order.

**Accounts.** `CallInv` ties the label of a request to its call and a presented
token to a registered owner. `CountInv`: no count, in the database or in a
login, exceeds the wrong passwords there have been (`MissesGrow` and
`OneMissMore` count them), and a lock comes with a count of `MaxFailed`; the
lock alone is not inductive, because a login writes a count it took from an old
read. `VersionInv`: a login whose read is still current has found no lock, so
one that changes a lock was overtaken. `TokenInv`: a consumed or gone token has
no key any more, so the read of a later request finds nothing. `AnswersStand` is
inductive given the owners: `NobodyAnswered` covers the steps that answer
nobody, and three steps remain.

**Catalogue.** `OneKindOfInventory` could be expected to fail: whether there are
inventories of the other kind is asked outside of the transaction. The argument
that it holds: whatever changes which inventories a product has, also writes the
product, and writes it last (`SaveProduct`), so of two such transactions that
overlap the second is refused when it gets there, whatever it has read.
`CatalogueInv` says so in parts. `TransactionsInv`: no key has two writers, and a
view and the store differ only in keys that are stale or written. `UpdateSound`
is about transactions that may still succeed, those whose product is not stale:
they see the inventories that are there (`Agree`), what they have added is of
the kind their command is about, and the variants in memory are the owners of
what they see. `JobSound` is about the inventory that is being created,
`CreateSound` about a product nobody else knows of, `CommitSound` what a commit
needs. `Ends` and `Works` are the two shapes a step has; `EndsKeeps` and
`WorkKeeps` reduce an action to what it does for its own request, and
`CommitOthersSound` shows that a commit leaves the others sound, mostly by making
them stale. `SkuInv` adds that a product in the making shares a sku with what is
stale to it only (`ComparedSound`); a product with variants is in a transaction
since it was compared, so every later commit becomes stale to it.

`TypeOK` has one part that is not about types: `hasVariants` is a field of its
own that is marked and stored apart from the variants, and yet says whether there
are any (`VariantsMarked` in the invariant of a product in memory); and the
history of prices stays within its length. `ExactInv` is the invariant about what
an update does: as long as the product is not stale, what is in memory would be
stored over the document as it is committed now with the fields that were asked
for, as asked, and no others (`IsExact`). The methods on images and variants leave
name, price and fields alone (`OthersLeaveFields`); a commit by another request
either makes the product stale or does not write it; `SaveProduct` then writes
over a view that equals the store. `FieldsChangeAsAsked` is what a commit makes of
that. `MarkdownsAreKept` reuses it: a markdown that is stored has passed the
comparison with the price it is stored with.

`ImagesHaveFiles` needs no invariant but lemmas on lists. `FlatteningExists` finds
the recursive function in the definition of `FlattenSeq`, by induction over
prefixes, and `FlattenMaps` says that the list of all new images is the list of
all used ids, image for id; `ImagesAreAssembled` says the same of each list alone.
There are as many ids as files, so that a map that names each file once names them
all.

**Product filters.** `StoreInv` types the attributes, the filters read and the
selections. The two sums of the aggregation are folds over sets whose terms count the
places where a product lists a value (`OccurrencesIs`, `GroupedIs`); a product of
the facet is in one of the two matches and in one only, and a product that is
counted and not of the facet misses another key (`CountIsFacet`). For the merge,
`MergedIs` says that of the items of one label one stays, with the counts of all in
both arrays (`CountOfIs`); `CountsAre` adds the facets up over a label.

TLAPS does not do liveness under fairness, so `EveryCallAnswered`,
`EveryEventSettles` and `CacheCatchesUp` are only model-checked, like the
counterexamples. Of `UpdatesAreExact`, what it says of images and variants is only
model-checked, too: it is about the loops over the variants that are added and
edited, and about ids that nobody has used or sent before, which no invariant here
says yet.

## 10. Not modelled

Request schemas other than those of products, response mapping, logging, error
classes, dependency injection, the handling of uploads and email templates: they
keep no state that two requests share. Categories and brands are
single-document operations. The legacy product controller only queries. In the
outbox, `getPendingBatch` has no caller, and nothing stores an integration event,
so the branch for an event without a dispatcher is unreachable; `lockedBy` is
written and never read. In the cart, product and inventory lookups are one read,
and a missing document counts as stock 0, which refuses a call the same way. In
the discounts, the entity's setters other than activate and deactivate have no
caller. A coupon is created once, with a unique code, and activated or
deactivated by one write; its usage is never counted.

A temporary id in an update is not the empty string, which the schema accepts and
does not count among the used ones: such an image gets no file. Of products, the
prices and markdowns of variants, the cost price of a product, ratings and
warehouse locations are left out. The schemas accept a cost price and a VAT rate for
a variant, which `entity-to-db.variant.mapper.ts` does not store. The length of a
variant's name is left to the schemas. No service calls a transition of a
status, or deletes a product or, softly, an inventory. `withRetry` and
`RetryUtility` are imported and not used. The cache of the filters is written
and read by nobody, since its use is commented out.
