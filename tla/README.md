# Formal verification of the flash sale

TLA+ modules that model the flash-sale system of this repository, TLC
configurations that check them on small instances, and theorems that the TLA+
proof system (TLAPS) checks for every value of the constants.  Paths below are
relative to the repository; `api/` stands for `apps/api/src/`.

## 1. The system

Customers send `POST /purchase`.  A Lua script in Redis decides, atomically, who
gets one of the items.  What follows the decision is not atomic: the Node
process finds out which sale is active (Redis, else Postgres), inserts the
purchase into Postgres, and, if the insert fails, pushes a record to a Redis
list that an operator later repairs with a command-line tool.  A script run at
every container start, and on demand while the API serves, resets the Redis
state for the configured sale.  A React page polls the status of the sale, sends
the purchase and looks up whether there is one.

### Components

| Component | Code | State | Operations | What makes it correct |
|---|---|---|---|---|
| Admission gate | `api/redis/purchase.lua`, `purchase-script.js`, `keys.js` | `flashsale:stock`, `flashsale:purchased_users` | one EVAL per request | never more grants than stock, one grant per user, refusals are true |
| Purchase handler | `api/services/purchase.service.js`, `active-sale.service.js`, controller, error middleware | locals of each request; `flashsale:active_sale_id` | normalise id, EVAL, resolve sale, insert, record failure | what the customer is told is backed by a row, a record or a log line; booked for the right sale |
| Postgres tables | `api/scripts/schema.sql`, `api/repositories/*` | `sales`, `purchases` | insert, find, upsert | one purchase per sale and user; purchases of existing sales only |
| Sale initialisation | `api/scripts/init-sale.js` | none of its own | upsert sale, MULTI reset | the sale exists before its id is active; the gate is reset as a whole |
| Reconciliation CLI | `api/services/purchase-reconciliation.service.js`, `api/scripts/reconcile-purchase-persistence-failures.js` | the failure list and its archive in Redis | inspect; apply: read head, find, insert, check head, archive and pop | no record is lost, none is archived unrepaired, none that the API wrote blocks the list for ever |
| API process | `api/server.js`, `api/app.js` | `server`, `shutdownPromise` | start, SIGTERM, crash | requests of connected clients are answered before a graceful stop, and the stores released once |
| Sale status query | `api/services/sale-status.service.js`, `api/utils/sale-status.js` | none | sample the time, GET stock, compute | what is shown agrees with the gate, and never goes back |
| Purchase status query | `api/services/purchase-status.service.js` | none | one SELECT over the purchases of every sale | who was told of a purchase is not told otherwise later |
| User ids, configuration | `api/utils/normalize-user-id.js`, `api/config/env.js` | none | trim and lower-case; parse the environment | one spelling per user; `env.js`, `init-sale.js` and the table accept the same sales |
| Container start-up | `api/scripts/wait-for-dependencies.js`, `apply-schema.js`, `package.json`, `docker-compose.yml` | attempt counter | bounded retry, schema, init, start | starts only when both stores answer; gives up after the last attempt |
| Redis persistence | `docker-compose.yml` | the snapshot on the volume | save, restart from it | what was saved is not lost, what the customer was told stays true |
| Web client | `apps/web/src/App.jsx` | request ids, abort controllers, shown results | poll, lookup, submit | never shows an older answer after a newer one; comes to rest |

### Interaction

```
customer --POST /purchase--> API process --EVAL--> stock, purchased_users
                                 |--GET/SET--> active_sale_id
                                 |--INSERT---> purchases (sales by upsert)
                                 '--RPUSH----> failure list
init-sale.js --upsert--> sales,  --MULTI--> stock, purchased_users, active_sale_id
CLI --LINDEX/MULTI--> failure list, archive;  --SELECT/INSERT--> purchases
page --GET /sale-status--> API process --GET-----> stock
page --GET /purchase-status--> API process --SELECT--> purchases
volume <--snapshot-- Redis <--restart-- volume
```

All coupling is through the two stores; there are no calls between the
processes.  The Node process is single-threaded, so a handler is interrupted at
an `await` and nowhere else.

### What is hard

* Requests interleave with each other and with a reset between any two awaits:
  a grant of one reset may be booked after the next one.
* A command may fail, or be applied and its reply lost; every await of the
  handler, of the init script and of the CLI is such a point, and the code
  treats them differently.
* The process may crash between the grant and the insert, and its restart runs
  the init script.
* Two operators may run the CLI at once; the check of the head and the pop are
  two commands.
* Record texts and user ids are written by one program and read by another.
* A status query pairs an instant with a stock that was read later; an inspect
  run reports on a list that others change while it looks at the records.
* The page has up to three flows under way that abort each other; a continuation
  may find that its request is no longer the current one.
* Signals, failed starts, closing servers and requests that outlive the listener
  meet in a few module variables of `server.js`.
* Redis may come back from a snapshot older than what Postgres has.
* The same stock is parsed by three pieces of code and checked by the table.

`PROJECT.json` lists each hazard at its line with the properties that would
catch it, and says why where there is none.

## 2. The modules

| Module | Models | Extends |
|---|---|---|
| `SaleRules` | the decision of the Lua script and the displayed status, as pure operators | |
| `FlashSaleStores` | the Redis keys, the Postgres tables, and the commands that are atomic on them | `SaleRules` |
| `Purchase` | the handler of `POST /purchase` and the life of the API process | `FlashSaleStores` |
| `InitSale` | `init-sale.js` | `FlashSaleStores` |
| `Reconcile` | the apply loop of the CLI | `FlashSaleStores` |
| `FlashSale` | the three together, the specification and all properties | the three above |
| `PurchaseLedger` | the abstract promise: rounds, claims and rows | |
| `FlashSaleLedger` | the refinement mapping from `FlashSale` to it | `FlashSale` |
| `MCFlashSale` | constants for TLC | `FlashSaleLedger` |
| `Queries` | `GET /sale-status` and `GET /purchase-status` beside the whole flash sale | `FlashSale` |
| `Inspect` | the CLI in inspect mode beside the whole flash sale | `FlashSale` |
| `RedisRestart` | the whole flash sale over a Redis that restarts from its snapshot | `FlashSale` |
| `MCQueries`, `MCInspect`, `MCRedisRestart` | constants for TLC | the module each is named after |
| `ApiContainer` | `start:container`: the wait, the start, connections, signals, the shutdown and the releases | |
| `Configuration` | how the stock and the window get from texts into the stores | `SaleRules` |
| `MCConfiguration` | constants for TLC | `Configuration` |
| `WebClient` | the page | |
| `FlashSaleProofs` | theorems: types and the gate | `FlashSale`, TLAPS |
| `BookingProofs` | theorems: answers, bookings and rows | `FlashSaleProofs` |
| `RepairProofs` | theorems: the failure list and the archive, and the reports about them | `BookingProofs`, `Inspect` |
| `RestartProofs` | theorems: what outlives a restart of Redis | `RepairProofs`, `RedisRestart` |
| `LedgerProofs` | theorem: the refinement | `BookingProofs`, `FlashSaleLedger` |
| `QueryProofs` | theorems: the queries | `Queries`, `BookingProofs` |
| `StartUpProofs` | theorems: the container; the configuration, and that the status and the gate agree | `ApiContainer`, `Configuration`, TLAPS |
| `WebProofs` | theorems: the safety of the page | `WebClient`, TLAPS |

### State

The stores are variables of `FlashSaleStores`: `stock`, `purchasedUsers`,
`activeSaleId`, `failures`, `archive` for Redis, `sales` and `purchases` for
Postgres.  A sale is identified with its definition, because
`sales_single_sale_definition_key` and the upsert give each definition one id.
`faults` is a budget (see below).  `resets` is a history variable: the sequence
of resets of the gate, each with its sale and stock.  No action's guard reads a
history variable, except for the bound `MaxResets`.

A handler is `pc[r]` plus the locals that outlive an await: `user`, `now`,
`saleId`.  `response[r]` is what the client was told.  `granted`, `epoch` and
`unrecorded` are history: which requests the script answered SUCCESS, how many
resets had happened when the script ran, and whose record is only in the log.
`apiSale` is the `config.sale` of the running process, or `NoSale` when none
runs.  The init script and the CLI are modelled the same way (`initPc`,
`cliPc` and their locals).  A local that the code will not read again is set
back to a fixed value, which keeps the state space small and hides nothing.

### Actions

One action per await, with the synchronous code up to the next one:

| `pc` | Action | Code (`purchase.service.js` unless named) |
|---|---|---|
| `idle` | `RejectUserId`, `ReceivePurchase` | 37-55; the time is sampled here |
| `script` | `GrantPurchase`, `RefusePurchase`; `ScriptUnavailable`, `ScriptReplyLost` | 55-66, `purchase.lua` |
| `resolve` | `ReadActiveSaleId` | `active-sale.service.js` 14-18 |
| `ensure` | `EnsureActiveSale` | `active-sale.service.js` 20 |
| `cache` | `CacheActiveSaleId` | `active-sale.service.js` 21 |
| these three | `ResolveFails` | 69-74: outside the `try` |
| `create` | `PersistPurchase`, `PersistRejected`, `PersistFails` | 78-83, 116 |
| `record` | `RecordFailure`, `RecordFailureFails` | 86-113 |

`InitSale` has `StartInit`, `EnsureConfiguredSale`, `ResetConfiguredSale`,
`InitFails`, and `BareReset` for callers of `resetSaleState` without a sale id
(the test helpers; it is also what a lost `active_sale_id` key looks like, and
the only way into the fallback of `resolveActiveSaleId`).  `Reconcile` has one
action per await of the loop at
`purchase-reconciliation.service.js` 334-363 and of the functions it calls.

### The abstract specification

`PurchaseLedger` knows no Redis, Postgres, handler or CLI: a round has items
left and holders, a request is a claim that is `open`, `closed`, `owed`,
`booked` or `lost`, and there is a table.  `FlashSaleLedger` reads the claim of
a request off its handler, the table and the log, and states `ImplementsLedger`
with INSTANCE.  What the ledger forbids is what the code must never show to the
outside: an item that the round does not have, a second item for a holder, a
decided claim that is decided again, a row that nobody claimed.

### The modules around the core

* `Queries` adds a `clock`, which arrivals of purchases and of status queries
  sample, and per query a program counter.  `ReceiveStatus` samples the time,
  `AnswerStatus` reads the stock in a later step.  `statusAfter` and
  `lookupTold` are history: what had been answered before the query arrived.
* `Inspect` is the inspect mode: LLEN, LRANGE into a snapshot, then one SELECT
  per record, each a step, while another CLI repairs and the API pushes.
* `RedisRestart` adds `snapshot`.  `RedisRestarts` sets all five Redis keys back
  at once and leaves Postgres and all program counters where they are.
* `ApiContainer` follows `stage` from the first probe to the exit.  `server` is
  the variable of that name in `server.js`, `listener` what has really become of
  it; `shutdown[s]` is where the call of `shutdown` for signal `s` stands and
  `inShutdown` is `shutdownPromise`.  Services come and go at any time.  A client's
  connection is `running` a request, `kept` for the next one, which may arrive while
  the server is closing too, or `abandoned` by a client that hung up, in which case
  only the handler is left.  `ReleaseStores` begins `pool.end()` and `quit()`;
  `PoolSettles`, `QuitAnswered` and `QuitFails` end them, well or badly, and
  `Settled` is what `Promise.allSettled` waits for.
* `WebClient` has, for each kind of load, the request id and one slot for each of
  two ids.  A request is `waiting`, then `reading`, then one of the outcomes whose
  continuation has yet to run: `read`, `broken` (the body could not be parsed),
  `failing`, `aborted`.  Two slots are enough because a load aborts the one
  before it and every continuation runs before the next event (`Quiet`).
* `Configuration` takes a text as its kind (absent, empty, blank, word, number
  with a tail, integer), which is all that the parsers tell apart.  Here the
  displayed status and the answer to a purchase are compared, for every sale that
  the configuration lets through and every text under the stock key.  A text has a
  `form`, which says who reads it as a number: both languages and DECR (`integer`),
  both languages (`loose`, "5.0"), JavaScript only (`binary`, "0b11"), Lua only or
  between two integers (`fraction`, "2.5"), nobody (`word`), or JavaScript as 0
  (`blank`).  DECR takes the first, up to 64 bits.

### Abstractions

* User ids and records are opaque values.  `NormalizeUserId` is a function from
  raw ids to users or to `InvalidUserId`, the identity on users.  All the ways
  in which a record can be malformed are one: no sale, or an invalid user id;
  the code treats them alike.
* A record's `id` stands for the fields that make its text unique (`failedAt`
  and the error).  Two records the API pushes for one sale and user come from
  different requests, at different times.
* The instant at which a request arrives is any of `Instant`; `FlashSale` has no
  running clock, so arrivals and resets come in every order.  `Queries` has one.
* A command fails only if its point is in `FaultPoints` and the budget
  `MaxFaults` is not used up.  Failing before and after being applied are both
  modelled wherever the difference can be seen.
* `StopServer` waits for requests in flight, `CrashServer` does not; the
  clients of a crashed process get no answer (`dropped`).  A handler whose client
  has hung up and which a stop overtakes is, to the stores, one of a crash.
* `FinishReconcile` ends a run; the summary that the CLI prints is left out.
* The page's server is a version of the sale that every change counts up; an
  answer carries some version between sending and answering.
* What libraries do is taken from how the code uses them: a Redis client without
  a `reconnectStrategy` tries to connect for ever, Express 5 calls the callback of
  `listen` with the error; `server.close` of Node 20 drops idle connections and waits
  for the others to close, and `keepAliveTimeout` closes one that rests.
* `SUCCESS` in `FlashSale` and the modules around it stands for a stock that DECR
  takes: every stock there is a small integer that a program wrote.  What a larger
  one or another text does is in `Configuration` (`PurchaseAnswer`).

Operators named as a *faulty variant* stand before the definition they vary.
They are not used by any action: each is a plausible mistake at that place, and
substituting it makes TLC find the property violated that `PROJECT.json` pairs
it with.  They show that the properties can fail.

## 3. The properties and the runs

| Run | Instance | Checks |
|---|---|---|
| `core` | 3 requests, 2 users, 2 sales (stock 1 and 2), 2 resets with or without sale id, 1 failure or crash, server restarts | `TypeOK`, `GateConservation`, `OneGrantPerUserPerReset`, `RejectionsJustified`, `OneSuccessPerSaleUser`, `BookedSaleOrOvertaken`, `QueuedIsRepairable` |
| `queue` | 2 requests, 2 resets, 2 records pushed by hand (one malformed), one CLI with limit 2, 2 failures of insert, push or CLI | `PurchasesBacked`, `PersistedWithinStock`, `AcceptedAccountedFor`, `RecordedOnce`, `RemovedIsArchived`, `ImplementsLedger` |
| `live` | 2 requests, 1 reset of either kind, malformed record, one CLI with limit 1, 2 failures of any kind | `EveryRequestAnswered`, `GrantedEventuallySettled` |
| `queries` | 2 status queries, 1 lookup, 1 purchase, a clock of 4 instants (before, in and after the window), 2 sales, 2 resets, 1 failed query or crash | `QueryTypeOK`, `StatusNeverGoesBack`, `SoldOutIsFinal`, `ToldStaysTrue` |
| `inspect` | 1 purchase, 2 records pushed by hand, one CLI in apply and one in inspect mode, limit 1 or none, 2 failures | `ReportMissesNothing`, `ReportIsSafeToUse`, `ArchivedIsPersisted` |
| `redis_restart` | 3 purchases of a sale with 2 items, a snapshot at any time, 2 restarts of Redis, one CLI, 2 failed inserts | `RestartKeepsSaved`, `SuccessSurvives` |
| `container` | 3 attempts, both services come and go, 2 connections with any number of requests, 2 signals, releases that fail | `ContainerTypeOK`, `RequestsHaveStores`, `PoolEndedOnce`, `ReleasesAwaited`, `StartsWhenReady`, `StopEnds`, `StartDecides` |
| `web` | 1 user, 2 changes of the sale, any network, bodies that may be cut | `BusyMeansPending`, `PurchaseIsReflected`, `ConfirmedIsFound`, `ShownNeverGoesBack`, `SubmissionEnds`, `PageKeepsUpdating` |
| `config` | every kind of text for stock and argument, every window of 4 instants, numbers beyond both integer widths, every form of text under the stock key | `ReadersAgree`, `InitialisedSaleCanSell`, `StatusAgreesWithGate` |
| `reinit`, `two_clis`, `resolve_fails` | the smallest that show it | the three findings below |

What the properties say stands with each, at the end of its module.  In short:

* **The gate.**  Stock plus grants since the last reset is the stock of that
  reset; no reset was ever oversold; one grant per user and reset; a refusal
  stays explicable by the grants.
* **The booking.**  Nobody succeeds twice for one sale, even across resets.  A
  booking goes to the sale whose stock it took or to one made active later.
  Every row has a grant, or a record pushed by hand, behind it.  The table never
  holds more purchases than the resets have put up items and somebody has pushed
  records by hand.
* **The repair.**  What the customer was told of is a row, a queued record, or
  a logged loss; no record is in two places; what leaves the list is in the
  archive; what is archived is persisted or malformed.  Three of these need the
  CLI to be run by one operator at a time.
* **The whole.**  What the outside sees is a `PurchaseLedger`.
* **Liveness.**  Every request is answered; every grant is settled.
* **The queries.**  A visitor who asks again never sees an earlier phase or more
  stock in one round; "sold out" is final; who was told of a purchase is never
  told that there is none.
* **The report.**  An inspect run misses no record that was queued before it
  started, up to its limit, and what it calls persisted is persisted.
* **A restart of Redis** loses no record that was in a snapshot, and no success.
  The exception that `RestartKeepsSaved` states is the weak spot of finding 2
  again: a single CLI that is caught between its check and its pop pops whatever
  has come to the head since.
* **The container** takes no step on services it has not found, gives no request
  of a connected client a released store, ends the pool once, and does not exit by
  itself with a release under way.  A stop ends with an exit, also if a release
  fails, once Redis stays and the clients leave their kept connections at rest; a
  start is decided one way or the other as soon as Redis stays.
* **The page** never shows an older status after a newer one and loses none to a
  request that is no longer the current one, its buttons are
  disabled only while something is pending, a confirmed purchase is reflected, a
  submission ends, and the loading of the status comes to its end again and again.
* **The configuration.**  What one reader of a sale accepts the others do; a sale
  that was initialised can sell, unless a stock beyond 64 bits was typed.  The page
  shows the refusal that the gate gives, and a sale that it calls open is one that
  the gate would grant exactly if the stock is one that DECR takes.

Deadlock is checked in every run of the flash sale and of the container: no
handler, script, CLI, start or shutdown gets stuck.  Two runs switch the check
off because the system really may stop there: a page whose rendering has thrown
(`web`) and a configuration that was loaded or refused (`config`).

### Bounds

Two users and one more request than users make a repeated request race with
another user's.  A stock of one makes the last item contended at once; the
second sale, with two, leaves one over.  Two resets are what it takes for a
handler to live through one; the properties relate the current reset and any
earlier one.  One failure anywhere is enough to leave each two-store step half
done; `queue` and `live` use two so that the recovery of the first can itself
fail.  Two records make the pop of the wrong one visible.  Requests are
interchangeable, hence the symmetry set (not in the liveness runs, where symmetry
would be unsound).

Two status queries are what "never goes back" relates; four instants put one
before, two inside and one after the window.  One lookup is enough:
the telling that it must not go back on is the purchase's answer.  Two restarts of Redis let the second load a snapshot that was taken after the first.
Two connections let one be busy or kept while the other comes to rest, and each
brings any number of requests; three attempts have a first, a middle and a last.  Two changes of the sale make an
answer that is neither the oldest nor the newest; the page has one user at a
time, and a second one only multiplies the lookups.  Where a number stands for an
integer width (`MaxPgInteger`, `MaxRedisInteger`) only its order matters: the
numbers of `config` lie on both sides of each.

### Fairness

`LiveSpec` assumes weak fairness of `HandlerStep(r)`, for each request: the
event loop runs every pending continuation, and a Redis or Postgres command
either answers or rejects.  It assumes weak fairness of `CliStep(w)`: the
operator runs the CLI again while the list is not empty, as the README's manual
reconciliation asks.  Nothing is assumed of requests, starts, stops, resets and
failures; failures are finitely many because outages end.

`ContainerLiveSpec` is strongly fair to `StartUp`, because a client that keeps
trying connects to a service that is there again and again, and weakly to the
shutdown, to the end of `pool.end()` and to `keepAliveTimeout`, which are the event
loop's and the libraries'.  The answer to a request and to QUIT is weakly fair only
while Redis is there: a command for a Redis that is away waits in the client, for
ever if need be.  It assumes nothing of the services or the clients: `StartDecides`
says itself that Redis is there from some time on, and `StopEnds` that and that no
client goes on sending on the connection it has kept.  Without either premise TLC
finds a stop that never ends.
`WebLiveSpec` is weakly fair to continuations, which JavaScript runs before
anything else, and strongly fair to the network's step of each kind of request:
a request that is left alone is answered or fails.  `PageKeepsUpdating` says
itself that polls find the one before them answered.

### Findings

Each is a run whose property states what the documentation says and that TLC
refutes; `PROJECT.json` quotes the line.

1. `reinit`: the README says that the system never records more successful
   purchases than available stock.  Running `sale:init` for a sale that has
   purchases, which every restart of the API container does, puts the full stock
   up again.  `GateConservation` is what remains true: each reset is respected.
2. `two_clis`: the README says that a record is removed only after its repair
   and archive.  Two CLI runs that both pass the head check pop two records and
   archive the first twice; the second is gone.  `RemovedIsArchived` holds with
   one run at a time (`queue`).
3. `resolve_fails`: the README says that a purchase accepted by Redis and not
   persisted is answered 503 with a record on the list.  A failure of
   `resolveActiveSaleId` is outside the `try`: a 500, and no record.

Other weak spots show in the models as premises that a property needs:

* After a grant that was lost (finding 3) the page tells the customer that they
  already have a purchase; `ConfirmedIsFound` is about confirmed ones only.
* While Redis is away `connect()` neither resolves nor rejects, so the attempts
  of `wait-for-dependencies.js` are not counted: `StartDecides` needs Redis.
* Each poll aborts the one before, so a page whose answers take longer than the
  interval is never updated: the premise of `PageKeepsUpdating`.
* A body that was cut short is taken for a result, and the rendering throws: the
  page goes blank, hence `page = "up"` in the properties of the page, and the
  exception in `ShownNeverGoesBack`.
* When the port is taken, Express 5 calls the callback of `listen` with the error,
  which the callback takes for success: the process stays, without a listener
  (`ListenFails`).  `StartDecides` counts that as started.
* `server.js` sets no limit on a stop.  `close()` waits for as long as a client sends
  the next request on its connection within `keepAliveTimeout`, and a request waits
  for as long as Redis is away: the premises of `StopEnds`.
* A client that hangs up takes its connection with it, so `close()` does not wait for
  its handler: the stores may be released while it is between the grant and the
  insert, which is then lost like in a crash.  `RequestsHaveStores` is about connected
  clients.
* `Promise.allSettled` swallows a release that fails: the exit code is 0 all the same.
  `ReleasesAwaited` says that nothing is left under way, not that it went well.
* The stock on the command line of `init-sale.js` has no upper bound.  Beyond 64 bits,
  or with a text like "5.0" that was put under the key by hand, the page says
  "active" while the script's DECR fails and every purchase is answered with a 500:
  the exception in `InitialisedSaleCanSell` and in `StatusAgreesWithGate`.
* A record that was pushed by hand and names a sale that does not exist stays at the
  head of the list for ever (`CreateRejected`): `QueuedIsRepairable` is about the
  API's own records.

## 4. The proofs

The theorems hold for every set of users, sales, requests (finite), records and
workers (finite), and for every bound.  Every safety property that a passing run
checks is proved, and so is the refinement.  `FlashSaleProofs`, `BookingProofs`,
`RepairProofs` and `RestartProofs` build on each other; `LedgerProofs` and
`QueryProofs` use the invariants of the first two; `StartUpProofs` and `WebProofs`
stand alone.

| Theorem | States | Rests on |
|---|---|---|
| `TypeCorrect` | `Spec => []TypeOK` | itself |
| `GateNeverOversells` | `Spec => []GateConservation` | `GateInv` |
| `OneGrantEach` | `Spec => []OneGrantPerUserPerReset` | `GateInv` |
| `RefusalsJustified` | `Spec => []RejectionsJustified` | `GateInv` |
| `OneSuccessEach` | `Spec => []OneSuccessPerSaleUser` | `HandlerInv` |
| `EveryRowBacked` | `Spec => []PurchasesBacked` | `BackedInv` |
| `TableWithinStock` | `Spec => []PersistedWithinStock` | `BackedInv`, `ItemsInv`, `GateInv` |
| `BookingNeverGoesBack` | `Spec => []BookedSaleOrOvertaken` | `ActiveInv` |
| `EveryHandlerAdvances` | `Spec => HandlersAdvance` | `TypeOK`, the measure `StepsLeft` |
| `EveryRunAdvances` | `Spec => RunsAdvance` | `TypeOK`, the measure `WorkLeft` |
| `ArchiveIsTruthful` | `Spec => []ArchivedIsPersisted` | `RepairInv` |
| `QueueIsRepairable` | `Spec => []QueuedIsRepairable` | `QueueInv`, `SalesInv` |
| `NoRecordTwice` | `Spec => []RecordedOnce` | `OneCliInv` |
| `NothingRemovedUnarchived` | `Spec => RemovedIsArchived`, one worker | `OneCliInv` |
| `NothingForgotten` | `Spec => []AcceptedAccountedFor` | `AcceptedInv`, `OneCliInv` |
| `ReportsMissNothing` | `InspectSpec => []ReportMissesNothing` | `InspectInv`, `SaleInv` |
| `ReportsAreSafe` | `InspectSpec => []ReportIsSafeToUse` | `InspectInv`, `SaleInv` |
| `InspectingIsHarmless` | `InspectSpec => []` of `GateConservation`, `PurchasesBacked`, `ArchivedIsPersisted`, `RecordedOnce`, `AcceptedAccountedFor` | `SaleInv` |
| `SavedIsKept` | `RestartSpec => []RestartKeepsSaved` | `RestartInv` |
| `SuccessOutlivesRedis` | `RestartSpec => []SuccessSurvives` | `RestartInv` |
| `RecordsOutliveRedis` | `RestartSpec => []` of `PurchasesBacked`, `ArchivedIsPersisted`, `QueuedIsRepairable` | `RestartInv` |
| `FlashSaleImplementsLedger` | `Spec => ImplementsLedger` | `TypeOK`, `GateInv`, `HandlerInv`, `BackedInv` |
| `QueriesObserveOnly` | `QuerySpec => Spec` | each step is a step of the flash sale or a stutter |
| `QueryTypesCorrect` | `QuerySpec => []QueryTypeOK` | itself, `TypeOK` |
| `ToldRemainsTrue` | `QuerySpec => []ToldStaysTrue` | `LookupInv` |
| `StatusMovesForward` | `QuerySpec => []StatusNeverGoesBack` | `StatusInv` |
| `SoldOutForGood` | `QuerySpec => []SoldOutIsFinal` | `StatusInv`, `GateConservation` |
| `ContainerTypeCorrect` | `ContainerSpec => []ContainerTypeOK` | `ContainerInv` |
| `RequestsKeepStores` | `ContainerSpec => []RequestsHaveStores` | `ContainerInv` |
| `PoolEndsOnce` | `ContainerSpec => []PoolEndedOnce` | `ContainerInv` |
| `ReleasesComeToAnEnd` | `ContainerSpec => []ReleasesAwaited` | `ContainerInv` |
| `StartOnlyWhenReady` | `ContainerSpec => []StartsWhenReady` | `ContainerInv` |
| `AllReadersAgree` | `ConfigurationSpec => []ReadersAgree` | `ConfigurationInv` |
| `EverySaleCanSell` | `ConfigurationSpec => []InitialisedSaleCanSell` | `ConfigurationInv` |
| `StatusAndGateAgree` | `ConfigurationSpec => []StatusAgreesWithGate`, for every instant, window and text under the stock key | `ConfigurationInv`, case analysis of the two rules |
| `BusyButtonsTrue` | `WebSpec => []BusyMeansPending` | `WebInv` |
| `PageNeverGoesBack` | `WebSpec => ShownNeverGoesBack` | `WebInv` |
| `PurchaseShows` | `WebSpec => []PurchaseIsReflected` | `WebInv` |
| `ConfirmedShows` | `WebSpec => []ConfirmedIsFound` | `WebInv` |

### The inductive invariants, and why each is needed

* `TypeOK` is inductive because it also says what a handler or CLI run past a
  certain step has: a running process, a user, a sale, a record it could parse,
  a positive remainder of its limit.  One lemma per component has a step per
  action; `OtherTypes` says that a component's types survive the others' steps.
* `GateInv`.  A granted request is past the script, so a grant adds a new
  element to the set counted; every epoch is at most the number of resets, so
  the next reset starts with no grants; and `purchasedUsers` is exactly the set
  of users granted since the last reset, so SISMEMBER decides for all of them.
  `GateScript` is the step that matters, `GateReset` the other.
* `HandlerInv` says, per request, what its program counter and its answer imply:
  who is past the script without a refusal holds a grant, who was told success
  has a row.  A success is an insert (`SuccessIsInsert`), an insert needs the
  row to be absent, and rows are never deleted: hence one success for each sale
  and user.
* `BackedInv` follows a purchase backwards.  A row comes from a handler that
  holds a grant, or from the record a CLI run holds; the CLI read it from the
  list; and a record gets there from a handler that holds a grant, or by hand.
  So the table, the list and the CLI's local are all in the invariant.
* `ItemsInv` bounds the grants of all rounds together by the items put up, less
  those still on sale: a grant takes one of these, a reset adds as many as it puts
  up and forgets the rest.  `RowsWithinGrants` maps the rows into the grants and the
  records pushed by hand, and `PersistedWithinStock` follows by counting.
* `ActiveInv` relates the active id to the last reset that named a sale, so that
  a handler that reads the id at any later time reads the sale of its own reset
  or of a later one.
* `RepairInv` says what a CLI run past the insert, the head check and the
  archive knows of the record it holds.  It needs no bound on the number of
  runs: the archive stays truthful even where the list does not (finding 2).
* `SalesInv` and `QueueInv` say that whatever sale a handler, the active id or a
  queued record names is a row of `sales`; the foreign key follows.
* `OneCliInv` says that the list and the archive together have no duplicate and
  that the only CLI run's record, once checked, is the head.  It is the one that
  fails with two runs, and finding 2 is the counterexample.
* `AcceptedInv` says that a request that was recorded is accounted for, and
  `AccountedStays` that a pop does not change that, since what is popped has
  been repaired.
* `InspectInv` follows a report that is being made.  Each request that had been
  answered 503 is `Traced`: reported, still to be looked up, in the table, in the
  log, or beyond the limit.  Each line is `LineOK`, and what it says stays true
  because a record that was once on the list is `Kept`: on the list, or dealt with.
  `SaleInv` is everything that is known of the flash sale beside it.  A step of
  `InspectSpec` is not always a step of `Spec`, since a failing lookup uses up the
  budget of failures; `SaleFrame` carries `SaleInv` over such a step.
* `RestartInv` divides the invariants in two.  `DurableInv` is what a restart of
  Redis leaves standing: the types, `GrantedInv`, `HandlerInv`, `BackedInv`,
  `RepairInv`, `QueueInv`.  They speak of each record a list has, never of what a
  list lacks, and Postgres only grows, so a data set that was good when saved is
  good when it comes back (`SnapshotInv`).  `GrantedInv` is the part of `GateInv`
  that does not mention Redis, and the proofs about bookings and rows use no more
  of it than that.  The rest of `GateInv`, `ActiveInv`, `ItemsInv`, `OneCliInv` and
  `AcceptedInv` are gone after a restart: a gate that forgets sells an item
  again, and a record that was pushed after the snapshot is lost.  `KeptInv` says of
  a record that some snapshot held that it is both on the volume and on the list
  until it is dealt with; a CLI's check of the head, `PopInv`, is in it because a
  restart between check and pop is the exception.

* The measures.  `StepsLeft` goes down with every step of a handler and `WorkLeft`
  with every step of a CLI run, and no other process raises either.  This is the half
  of liveness that needs no ENABLED: nothing loops.  That a handler or a run is
  never stuck is checked by TLC, as absence of deadlock and as the liveness
  properties.
* The refinement.  The initial states map to the initial state of
  the ledger, and every action is a ledger step or leaves the mapped state as
  it is.  A grant is `Accept`, with the outcome `lost` if its reply is; a reset is
  `OpenRound`; an insert, of a handler or of a CLI, is `Book` for the granted
  requests of that sale and user that have no row yet; an error after the grant,
  a crash and a record that reaches only the log are `GiveUp`.  The invariants say
  which requests a row may be booked for.
* `LookupInv`: a user who has been told has a row, and rows stay.  It is about the
  moment of the telling, so it needs `HandlerInv` for answers to purchases, and
  itself for answers to lookups.
* `StatusInv` says of every answer that it is what the rule gives for some
  instant up to the clock and a stock that the round has already come down to,
  and of every query under way that the answers before it were given at no later
  instant and with no smaller stock.  `StockOnlyFalls` is the step lemma: within a
  round the stock never rises.
* `ContainerInv` ties the variables of `server.js` together: which stages have
  the stores open, that only one call of `shutdown` can be past the start, that
  the releases have begun exactly in the stages after it or after a failed start,
  and that an open connection keeps the server from being closed: once the releases
  have begun it is `Quiet`, and nothing can arrive any more.

* `ConfigurationInv` has the texts of the environment (`TextsOK`), the sale that was
  read from them (`SaleOK`: `env.js` refuses every other), and what the init script
  and the table have made of it by each step (`StepsOK`).

* `WebInv` is about the newest request of each kind.  It has not been aborted, it is
  pending exactly while the page says so, and it brings nothing older than what is
  shown (`StatusInv`).  The lookup before it has left the network, which is what a
  blank lookup relies on when it moves on to that slot (`LookupInv`).  After a
  confirmed purchase the newest request, or what it has left on the page, is as new
  as the purchase (`ConfirmedInv`); that holds because `handlePurchaseSubmit` starts
  both loads after the answer, so that older ones are no longer current.

The assumptions are the named ASSUMEs of the modules, which TLC evaluates on
every run: among them that requests and workers are finitely many, that a
normalised id normalises to itself, that `NoStock` is no integer, and that no user
is `Nobody`.  Three
properties of the repair need one operator at a time: `RecordedOnce` and
`AcceptedAccountedFor` say so in their statements, and for `RemovedIsArchived`
the theorem does.

Only model-checked: liveness (`EveryRequestAnswered`, `GrantedEventuallySettled`,
`StopEnds`, `StartDecides`, `SubmissionEnds`, `PageKeepsUpdating`), which is out of
the prover's reach because it needs ENABLED; and the refutations of the findings.

## 5. Plan

Done in this order: `SaleRules`, `FlashSaleStores`, `Purchase`, `InitSale`,
`Reconcile`, `FlashSale` and their proofs; then `PurchaseLedger` with the
refinement and its proof, `Queries`, `ApiContainer` and their proofs, `Inspect`,
`WebClient`, `RedisRestart`, `Configuration`, the proofs about the page and the
configuration, and last those about reports and restarts, the bound on the table
over any number of resets, and the measures.

Next, to prove more:

1. Measures for the start and the shutdown (`ApiContainer`) and for a submission
   (`WebClient`), as for the handlers and the CLI runs.
2. How many purchases a Redis that restarts can let through: a bound on the rows
   by the items put up and those that each restart puts up again.

## 6. What is not modelled, and why

* The test lock, the test harness, the k6 scripts and the fixtures serve the tests;
  they are no part of the running system.  `countPurchases` and `createSale` are
  called by tests only.
* Logging, CORS headers, the 404 and the layout and wording of the page carry no
  state that a property could be about.  The mapping of errors to 400, 500 and
  503 is in the answers of the actions.
* URLs and the port are passed on as they are; a wrong one is a service that is
  never found.
* The inside of the Redis and Postgres clients, of Express and of Node's HTTP
  server is external: reconnection, pooling and closing are modelled by what the
  code sees of them.
* Numbers beyond 2^53, which JavaScript rounds, are not distinguished from the
  ones below; a stock of that size is refused by the table unless it is typed as
  an argument.
* Postgres is taken to keep what it has committed.
* An apply run without `--limit` has no bound (`POSITIVE_INFINITY`); `StartReconcile`
  starts runs with one.  Whatever such a run has done so far, a run with a large
  enough limit can do too, so no safety property tells them apart.
* What the Redis client does with a QUIT that is issued between two of its attempts to
  reconnect is the library's; here it is answered by a Redis that is there or fails.
* A lookup whose body was cut leaves the looked-up user undefined, and the next submit
  of the field throws (`App.jsx`).  `WebClient` leaves the field as it was; no
  property depends on it.

`PROJECT.json` lists every component with its status.
