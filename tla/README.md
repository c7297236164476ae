# Verification of Astra-System

TLA+ models of Astra, a self-service kiosk platform: the transactional core of its Go
services and the TypeScript application that runs on the kiosk, with the TLC configurations
that check them and TLAPS proofs of all their safety properties. Paths are relative to the repository root;
kiosk paths to `astra-service/apps/kiosk/src`.

    tlc -workers 2 -config MCOutbox.cfg MCOutbox      # one run
    tlapm PaymentProofs.tla                           # one proof module

`PROJECT.json` lists the runs, the seeded faults that each property must catch, the source
lines behind every definition, the hazards and the findings.

## 1. The system

A kiosk fills a cart, finalizes it, pays, and an order goes to the kitchen. Go services
behind a gateway own one table group each in one PostgreSQL database, talk gRPC for
queries and commands, and publish events through an outbox table and NATS JetStream.

| part | state | operations | talks to |
|---|---|---|---|
| outbox relay, `packages/go-common/outbox` | rows of `outbox_events`; the relay's batch | insert in the domain transaction; every 500 ms select, publish, mark | PostgreSQL, JetStream |
| event bus, `packages/go-common/eventbus` | JetStream consumer state | publish with ack; deliver, ack, nak, redeliver after 30 s, at most 5 times | relay, order-service |
| payment-orchestrator | `payments`, Redis lock per idempotency key | initiate, capture, settle, refund, webhook | Verifone gateway, Redis, outbox |
| order-service | `orders`, `idempotency_keys` | CreateOrder, UpdateOrderStatus, FulfillOrder; consumers of CartFinalized and PaymentConfirmed | cart-service, outbox, event bus |
| cart-service | `carts`, `cart_lines` (versioned) | create, add, update, remove, finalize, merge ghost cart | inventory-service, outbox |
| inventory-service | `inventory_transactions`, `inventory_reservations`, stock cache | reserve, release, adjust, expiry sweep | outbox |
| sync-daemon (Rust, on the kiosk) | CRDT registers, SQLite with dirty marks, Raft state | tick-driven flushes, cloud flush, election | mesh, cloud NATS |
| kiosk shell, `machines/`, `routes/`, `hooks/` | xstate session machine, mounted screen, promises and timers that outlive it | taps, payment and order calls, employee override, idle reclaim | cart state, payment and order API |
| kiosk cart, `state/cartService.ts`, `packages/kiosk-state` | local lines, server cart id, timers | edit, debounced flush, retry, re-create the cart | cart API, browser network events |
| kiosk menu, item sheet, totals, `routes/`, `packages/cart-engine` | pages shown, chosen options, worker's last answer | fetch, page, choose, add, edit, total | Andino proxy, web worker |
| payment micro-frontend, `apps/kiosk-payment` | phase, attempts | charge, decline, queue an offline token | terminal sidecar, local daemon |
| phone session, `ghost-cart/` | peer connection, queue, timers | offer, answer, send, keep alive, close | customer's phone |
| updater and remote modules, `updater/` | version, pending artifact; URL of each micro-frontend | check, download, apply, probe, roll back; swap, mount, fall back | update server |
| connectivity, produce scanner | offline mode, banner; camera streams and loops | poll, browser events; start, recognise, stop | API, daemon; camera |
| Andino proxy, `packages/andino-kiosk/proxy` | Redis copies of catalogue and profiles | read pages, answer, cache | Andino API, Redis |
| schema and shared types, `database/schemas`, `packages/shared-types` | rows; replicated sets | insert, delete, parse; add, remove, merge | all services |
| gateways, menu, webauthn, sync, admin, legacy till, lane intelligence | one table group or none each | request/response | database, services |
| installer, host updater, update server | files, containers | install, check, apply, roll back | docker |

What makes these parts hard:

* **Concurrency.** Handlers of several replicas share tables at READ COMMITTED. Carts are
  read in two statements and saved against a version; payments are updated by
  compare-and-set on the status; inventory reads and writes a running balance with no lock.
* **Failure.** A crash or a lost answer may fall between any two of: gateway call, database
  commit, broker ack, mark of the outbox row, Redis unlock.
* **Delivery.** Events arrive at least once, out of order, possibly while the earlier
  delivery is still being handled, and at most five times.
* **Callbacks.** On the kiosk nothing runs in parallel, but every `await`, timer and effect
  resumes in whatever state the taps, the idle reclaim and other callbacks have left: a screen
  that is gone, another customer's session, a replaced object.
* **Time.** Lock TTL (30 s), ack wait (30 s), reservation TTL (5 min) can all run out under
  a slow handler.

What makes each part correct: the outbox loses and invents nothing; a payment key yields
one payment, and the table never claims money the gateway did not move; a finalized cart
becomes an order whose history matches its events; a cart's row, lines and announced total
agree; a cart holds exactly the stock that the ledger took for it. On the kiosk: an order is
made for an approved payment of this session and cart; a session left alone ends; the
server's cart gets every line; a sale is never blocked by a missing terminal; only verified
updates are installed, and each is probed; lists, totals and prices on the screen are those
of the cart; rows and replicas described in several places mean the same everywhere.

## 2. Modules

| module | models | abstracts |
|---|---|---|
| `EventLog` | the promise of the outbox: committed events are eventually streamed, only they are | everything else |
| `Outbox` | `outbox.go` and the subject resolvers of the services | payloads, trace headers |
| `Payment` | service, repository, idempotency store, REST and webhook handlers | amounts, card data, offline tokens |
| `Order` | service, repository, event handlers, `eventbus.Subscribe` | items, prices, order numbers |
| `Cart` | service, repository, domain, `crdt/merge.go` | prices (a total is a sum of quantities), Redis copy |
| `Inventory` | service, repository, `ledger.go` | one item in one store; stock cache, direct publishing |
| `Kiosk` | session machine, screens, idle reclaim, payment and order promises | a cart is a number of items; wording and layout |
| `CartSync` | `cartService.ts`, `apiCart.ts`, `apiClient.ts`, `cartProxy.ts` | prices, modifiers, response bodies |
| `Menu` | `MenuScreen.tsx`, `CategoryTabs.tsx` | item details; search, which cannot be reached |
| `Pricing` | `ItemModal.tsx`, `CartApp.tsx`, `packages/cart-engine` | one item; names |
| `Terminal` | `apps/kiosk-payment` | signatures, amounts |
| `GhostCart` | `ghost-cart/` | session descriptions, cart contents |
| `Updater`, `RemoteModules` | `updater/` | keys and digests (facts of a manifest or blob), module code |
| `Network` | the three monitors and `OfflineBanner` | poll intervals |
| `Produce` | scanner hook, overlay, recognizer | images |
| `Catalogue` | Andino proxy | product fields other than id and category |
| `Crdt` | `hlc.ts`, the set of `crdt.ts` | values (the number of the operation) |
| `Schema` | tables and references of `drizzle.ts` | columns that refer to nothing |
| `Rows` | `drizzle.ts`, `zod.ts`, `domain.ts` column by column | formats, ranges and keys (one rule zod, one the database may apply) |
| `OutboxProofs`, `PaymentProofs`, `OrderProofs`, `CartProofs`, `InventoryProofs`, `KioskProofs` | theorems about the module each is named after | |
| `KioskPartsProofs` | theorems about `CartSync`, `Terminal`, `Updater`, `RemoteModules`, `Menu`, `Produce`, `GhostCart` and `Network`, which share no state | |
| `DataProofs` | theorems about `Crdt`, `Schema`, `Rows`, `Catalogue` and `Pricing`, which share no state | |
| `MC...` | the instances that TLC checks; `MCKioskParts` and `MCData` hold several components that share no state, of which a behaviour exercises one | |

Conventions. A handler, consumer or relay is an element of a constant set with a local
record (on the kiosk: a call of an asynchronous function is an element of a sequence of calls); its `pc` or `step` says which statement comes next, so everything between two database
statements or remote calls can be interleaved. A transaction is one step where it runs
under `FOR UPDATE`, compares in its `UPDATE`, or makes a single decision (payments, orders,
the save of a cart), and one step per statement where it does not (inventory; the two reads of
a cart). An early return that changes nothing is a stuttering step and is left out unless
the handler's position matters. Definitions marked *Seeded fault* or *Mutant* take no part in a
specification: each is a plausible mistake in the definition below it, and `PROJECT.json`
says which property finds it. PostgreSQL, Redis, JetStream, the Verifone gateway, the browser's
devices, the Andino API and people are
external, and are modelled by what the calls rely on.

**Outbox.** `rows` is the table, `batch` and `pc` a relay's loop, `stream` the log of the
broker. `SelectBatch` is the query of `relayBatch`: it runs outside a transaction, so it
holds no lock afterwards. `Publish`, `PublishError` (the message may be stored
nonetheless), `PublishRejected` (no stream for the subject), `MarkPublished` and
`MarkErrorOrCrash` are the loop body. The deployment gives every service the same
database (`installer/astra-installer/internal/compose/compose.go:134`), so a relay also
picks up other services' rows, and `Resolve` gives them the resolver's default subject.

**Payment.** `payments`, `lock` and `outbox` are stored state; `authorized`, `captured` and
`settled` are what the gateway did, known to the model only; `requested` remembers the
key a payment id was drawn for. Gateway calls may act and still return an error.

**Order.** `delivery` is the broker's view of each message. `readable` says whether the
handler can parse the body: cart-service and payment-orchestrator publish an
`EventEnvelope`, which `HandleCartFinalized` and `HandlePaymentConfirmed` unmarshal as the
inner event. `confirmed` says whether the payment status is one the handler acts on.

**Cart.** A handler reads the row (`LoadCart`), reads the lines and edits its copy
(`AddLine`, `UpdateLine`, ...), reserves stock, saves (`SaveCart` or `SaveConflict`) and,
after a merge, deletes the ghost. `MergeCarts` is the grouping of `crdt/merge.go`, over
lines in the order in which `loadLines` returns them. `Finalize` stores the total of the row
it read and not that of the lines it read afterwards (`NewTotal`), so that the two agree
rests on the version check alone.

**Inventory.** One transaction per handler, one step per statement. `rows` holds committed
ledger rows, ordered by the start of their transaction (`created_at` is `now()`); `lock` is
the row or key lock on a cart's reservation. `overlapped` records whether two transactions
were ever open together, to separate what serial use guarantees from what races break.

**Kiosk.** `kiosk` is the machine's stage and context; an event that its stage does not
handle is dropped. `screen` is the mounted screen, which lags the stage while it fades out, so
a tap can still reach a handler of the old one. The payment dialog fades too (`AnimatePresence`,
0.2 s): while `dialog` is `"exiting"` its buttons run the closure of its last drawing, in which
`authorizing` is an old value (`hideDialog`, `dialogExited`); `late` marks a promise that such a
tap began. There is one action per handler of a screen,
grouped by screen (`MenuScreen`, `CartLines`, `PaymentAuthScreen`, ...). `auths` are the calls
of `handleBiometricComplete`, `requests` those of `finalizeOrder`, `holds` the intervals of the
employee override: all go on after the screen or the session that began them.

**CartSync.** `flush` holds the flushes under way, each at one of the requests of
`updateCart`; `strays` are loops that go on after their attempt timed out; `server` is the
cart of the current id. `dirty` and `raced` are history: they say when the properties may
expect something of the server.

**MCKioskParts.** `Updater`: calls of `check()` and `applyWhenIdle()` interleave at every
`await`. `RemoteModules`: `applyManifest()` calls overlap and write to state objects that
`register()` may have replaced. `GhostCart`: events of the connection run the session's
listeners in the same step; `phone` may leave at any time. `Terminal`: the card of an attempt
is decided whether or not the browser still waits. `Network`: three links fail and recover;
effects and renders are steps of their own. `Menu`: a page is taken from the list, and at the
page number, of the moment its timer was set; the tabs are not mounted while it runs.
`Produce`: starts, streams and loops overlap.

**MCData.** `Schema`: inserts and deletes as PostgreSQL admits them, over the foreign keys of
the file. `Rows`: a row is built or written, parsed, stored and read, with one null and one
enum value; reading turns timestamps into `Date`s and decimals into strings, and the database
may refuse what zod let through. `issues` is what a description had against the row. `Crdt`:
replicas with unsynchronised clocks exchange states in any order, repeated or never.
`Catalogue`: the catalogue changes between pages, pages and Redis fail. `Pricing`: the item
sheet, the edits of lines, and totals by render or by worker.

## 3. Runs

Passing:

| run | instance | shows |
|---|---|---|
| `outbox` | two services, a relay each, three events, batches of 2, two clock values, one fault | no event is lost; duplicates are bounded by relays plus failures; `Outbox` implements `EventLog`, liveness included |
| `payment` | two handlers, two attempts, two keys | one payment per key; events tell the row's status; money moves in order; finished payments stay finished |
| `order` | two consumers and an RPC, a cart event and its payment, two deliveries, one fault | an acknowledged cart event has its order; table, time stamps and outbox tell one history that respects the lifecycle; a readable cart event becomes an order |
| `cart` | two handlers, two carts, two items, two lines, two saves per cart | totals match lines, no line is in two carts, a cart is announced once (`CartIsConsistent`); no lost update and no edit after finalization (`SavesAreIsolated`) |
| `inventory` | two transactions at a time, four in all, two carts, one item | a cart holds what the ledger took for it; without overlap the ledger is exact; no transaction waits for ever |
| `kiosk` | two sessions, two visits of the payment screen, two payments, two retried order requests, carts of one item, which can be taken off and added again | no order without an approved payment; a receipt belongs to its session; charges of one visit overlap only after a tap on what was fading; what was paid is this cart in this session, unless an employee overrode or authorize was tapped during a fade; even then a payment never buys a second cart (`PaymentBuysOneCart`); a session left alone ends |
| `cart_sync` | two items, two flushes at once, two changes, two faults | when no flush or timer is left the server's cart has every line, unless it was re-created under another flush (`SyncedCartHasLines`); the sync loop always recovers |
| `kiosk_parts` | see `MCKioskParts.cfg`: three update checks and two installations of six manifests, one without a rollout; two remotes, two manifests; a queue of 2, four sends; three attempts to pay; two outages per link; five dishes in pages of 2; three camera starts | an installed update is the verified artifact of its manifest, and is probed; a remote's URL answered its health check or is the fallback; queued messages keep their order, an abandoned phone session closes; a declined customer is not charged, the shell hears one result, a customer who is asked to wait waits for an attempt at work or for one that has thrown (`WaitingIsForSomething`); a recovered network is noticed; the menu shows a prefix of the category; a preview is watched by a loop |
| `data` | ten tables and seven rows; every row type; two replicas, three operations, two clock values; three catalogues in pages of 2, two requests; two option groups, three edits | deletes do not cascade into the sales ledger; replicas that have seen the same converge, and a write beats what its writer had seen; an undisturbed read of the catalogue is complete; the line added costs what the button said; the total shown catches up with the cart |

Violations, each a statement of the repository that the code does not keep:

| run | claim | what happens |
|---|---|---|
| `payment_retry` | idempotency by lock and uniqueness (payment-orchestrator README) | a retry is authorized at the gateway before the key is looked up |
| `order_envelope` | `HandleCartFinalized` creates an order | the published envelope fails in all five deliveries |
| `kiosk_idle` | payment phases are immune to the idle reclaim (`useIdleReclaim.ts:17`) | a paid session that waits in PROCESSING_ERROR is reset |

The passing runs keep these behaviours in the model too: their properties hold although they
happen.

**Bounds.** Two concurrent actors are the smallest number with every pairwise race, and
none of the operations takes part in a race of three with distinct roles except lock expiry
(first holder, its retry, an operation), which two handlers reach one after the other.
`MaxFaults` bounds failed calls and crashes together; every step is followed by a failure in
some behaviour. `MaxDeliver = 2` still includes the last delivery failing
(`order_envelope` uses the real 5). `MaxEvents`, `MaxVersion`, `MaxLine` and `MaxTx` cut
behaviours off, they do not change a step; each is above what its violations need.
`BatchSize = 2` with three events makes a batch partial. The runs stop when the bounds
are used up, hence no deadlock check; that actors do not block each other is said by the liveness
properties. Symmetry is used in `cart` only, which has no liveness property. On the kiosk two
of everything (sessions, visits, payments, flushes, manifests, requests) is what a stale
callback needs: one that began it and one it meets; three camera starts and three checks let
a stale call meet two newer ones. `MAX_QUEUED_MESSAGES = 2` (64 in the code), `Threshold = 3`
(25), `ITEMS_PER_PAGE = 2` and `PageSize = 2` bring the limits within reach; `MAX_ATTEMPTS` is
the code's 3. `Tables` are the ten around sales, which include every kind of key. `kiosk` is
checked as the shell with its own screens (`UseRemote = FALSE`) and without simulated
payments; one item is enough for a cart to differ from what was paid. `kiosk_parts` runs the
payment screen as a development build whose key comes from the daemon, or does not: that covers
every outcome of `importDevSyncKey`, the exception included.

**Fairness.** `RelayStep` weakly: the ticker of `Relay.Run` fires for as long as the process
lives, and a crashed process is restarted by its container. `LockExpire` weakly: Redis
expires keys on its own. Consumers and `AckWait` weakly: JetStream redelivers and the
consumer loop runs for ever; RPC callers, who may never call, get none. `Statement` strongly:
PostgreSQL grants a lock in the order in which it was asked for, so a transaction that
could proceed again and again does. On the kiosk weakly: timers that are set fire, promises
settle (each call has a timeout, or the API answers; the body of a health answer, read after its
timer was cleared in `apiClient.ts:164`, is assumed to arrive), React mounts, renders and runs effects,
ICE notices a lost peer, the worker answers. In `Terminal` fairness ends with `AnswerStep`, whose
calls have time limits; `enqueueToken` gets none, because the `fetch` at `PaymentApp.tsx:83` has
none. Taps, recoveries of the network and everything a
person does get none, so `AbandonedSessionEnds` excepts the payment screen and the first
choice of a language, which wait for a person, and `SyncLoopRecovers` a kiosk that stays
offline. `Sweep` weakly: a 30 s ticker. Failures are never fair
and, where a liveness property needs it, finitely many.

## 4. Proofs

Everything in this section holds for every value of the constants. The `ASSUME`s used
(`OutboxConstants`, `PaymentConstants`, ...) say that constants have their types and that the
`No...` values and `None` are none of the others. Five say more: the relays of a table and
the carts of a store are finitely many (`IsFiniteSet`; `DuplicatesBounded` counts the former,
`SerialLedgerExact` sums over the latter); the messages of `Order` name carts; the options
of a modifier group have different ids (they are the primary key of their table); and
`SelectionIsSequence` in `Menu` records that filtering a list gives a list, which is true of
`SelectSeq` by its recursive definition but not derivable with the installed provers. TLC
evaluates all of them on the instances.

Each theorem rests on an inductive invariant, which says what an actor in mid-flight knows.
Every one of them was checked with TLC on the run's instance, or a larger one, before it was proved.

**`OutboxProofs`**: `TypeCorrect`, `NoEventLost`, `NoPhantomEvent`, `BoundedDuplicates`,
`OutboxRefinesLog`. `OutboxInv` is the type invariant with `OnlyCommittedEvents` and
`PublishedWasAcked`. The latter is not inductive alone: that marking a row is safe needs the
event at the head of a relay that is about to mark to be on the stream, a conjunct of
`OnlyCommittedEvents`. Appending to the stream only grows `Streamed` (lemma), so no step of
another relay takes that away. Refinement follows from the same invariant: `InsertWithinTx`
maps to `Commit`, a stored publish to `Stream`, everything else to a stutter. It is the safety
part of `EventLog`; its fairness is checked by TLC. `CopiesInv` counts duplicates: before a row
is marked, every copy is owed to a fault or to a relay about to mark; afterwards the relays
that still hold it in a batch are the copies still to come.

**`PaymentProofs`**: `PaymentTypeCorrect`, `IdempotentCreation`, `MoneyInOrder`,
`RefundsReversed`, `FinishedForGood`, `EventsTellStatus`. `PaymentInv` adds `ThreadOK` (before
`Create` the payment is not stored yet and, if it is to be AUTHORIZING, was approved; before
`UpdateStatus` the gateway has done what the new status says), `OneInitiator` (a payment id is
initiated by one handler) and `StoredWasRequested` (the id of a stored row is never drawn
again). `OnePaymentPerKey` rests on the check in `Create`, not on the lock: the proof never uses
`lock`, which is why expiry and foreign unlocks cannot break it. `FinishedForGood` needs the
compare in `UpdateStatus`: no handler that read FAILED, and only a refund that read SETTLED, gets
there. `EventsTellStatus` needs that row and event are written in one transaction.

**`OrderProofs`**: `OrderTypeCorrect`, `AckedCartsHaveOrders`, `HistoriesAgree`. `ConsumerOK` says
that a consumer creates an order for the cart its message names, and that by the time it
acknowledges, that cart has one; orders are never deleted and never change their cart, so this
survives any number of redeliveries to other consumers.

**`CartProofs`**: `CartsAreConsistent`, `SavesIsolated`. `Good` relates a handler's private copy
to the tables: a handler that read version *v* may have torn lines, but if the row still has
version *v* when it saves, what it read of the row is current, a copy to be finalized is the
cart's, and an edited copy is one line apart from it. The version check is thereby shown
to be enough although row and lines are read by two statements. Totals are sums over
finite sets of lines. Types are proved as far as the argument needs them (`Shape`).

**`InventoryProofs`**: `InventoryTypeCorrect`, `LedgerMatchesReservations`, `SerialStockIsExact`,
`NoCircleOfWaiters`.
A release that has read a reservation still has its lock when it writes the ledger row (`GoodHandler`),
so what it gives back is what is held. `StockIsAccounted` (the ledger's sum and what carts hold
make up what was put in stock) turns the balance check into the bound on reservations, and
`SerialInv` says that a transaction that is alone is younger than every row and read the latest.
`NoCircleOfWaiters` is the safety part of `HandlersFinish`: a handler takes the lock of one
reservation with its last statement that can wait. A sweep takes its rows in one step of the model,
so the order in which two sweeps lock rows is not covered.

**`KioskProofs`**: `KioskTypeCorrect`, `NoUnpaidOrder`, `ReceiptShowsOwnOrder`, `OneChargeAtATime`,
`CardPaidForThisCart`, `OnePaymentOneCart`. `InvokedIsOwn`: the order request the machine waits for
carries the payment and cart of its context. `FlagShowsFlight`: while a promise of the present visit
is in flight and no late tap was made in it, `authorizing` says so, and a visit whose screen is not
mounted yet has no promise. `OwnPayment`: as long as the session is `Undisturbed` (no override, no
late tap) the machine stays on the payment screen until the promise answers, so session and items
cannot change under it. `OneCartPerPayment` needs neither condition: a promise answers once, the
machine takes its id only from that answer, and until the session is reset its cart id stays what
the first request for an order named.

**`KioskPartsProofs`**

* `RestMeansSynced` (`CartSync`). `NothingForgotten`: what the server lacks is owed by a timer or
  by the latest flush, which has not been overtaken by a change. It needs `SentIsStored` (what
  a flush has ticked off is on the server), `FreshIsComplete`, `LatestIsFresh` and that a
  re-created cart makes its flush send all lines anew.
* `ChangesAreNotStranded` (`CartSync`), the safety part of `SyncLoopRecovers`. When a flush
  succeeds and is the latest, it took the change along or a newer change has set the debounce
  timer (`LatestIsFresh`); when it gives up, it sets the retry timer; when it is not the latest,
  another flush is.
* `DeclinedCustomerNotCharged`, `OneResultPerSale` (`Terminal`). Only the last attempt can be
  open, and every earlier one was declined by the terminal itself.
* `WaitingHasAnEnd` (`Terminal`), which is `WaitingIsForSomething` for every build, the one without a
  key, which throws, included: every step of an attempt leaves it at work, declines or reports.
* `InstalledUpdatesAreVerified` (`Updater`). `pendingManifest` and `pendingBlob` are written,
  cleared and copied together, so overlapping checks never mix the one's manifest with
  the other's bytes.
* `RemoteUrlsWereHealthy` (`RemoteModules`). A swap that waits for its mount holds a fallback
  of the past; it is one that was healthy or registered.
* `MenuShowsPrefix` (`Menu`). The page number and list a timer holds are still the current ones
  when it fires, because nothing that changes either is possible while `isLoading` is set.
* `PreviewIsWatched` (`Produce`). The start that showed the preview is under way or has left
  a live stream and a loop; older starts and loops keep that or end the preview.
* `MessagesInOrder` (`GhostCart`). What is queued is newer than what the channel accepted.
* `SessionsAreWatched` (`GhostCart`), the safety part of `AbandonedSessionCloses`. The handshake
  timer goes when ICE connects or the channel opens, and from then on the connection's state or
  the keepalive watches.
* `OfflineModeHasReason` (`Network`), the safety part of `RecoveryIsNoticed`. Both sources write
  `isOfflineMode`; a browser that comes back clears it, so what remains set was set by a status
  that the next good answer of the poll replaces.

**`DataProofs`**

* `ReplicasConverge`, `OwnWritesWin` (`Crdt`). `compareHlc` is a total order, and incrementing or
  merging a clock makes it later (lemmas). `CrdtInv` says that there is a log of all operations,
  one per clock value, of which every state reflects the latest one per element among those it
  has seen; a state is thereby a function of what it has seen.
* `LedgerIsKept` (`Schema`). A cascade only follows keys from a child to its parent, so its
  closure stays within tables that are not of the ledger.
* `SheetQuoteIsCharged` (`Pricing`). The button adds the price of each chosen id, found in its
  group; the line adds the options of `buildModifierSelections`, flattened over the groups.
  `SheetInv` says that the chosen ids are ids of options of their group, which toggling keeps,
  and the sum of a flattened sequence is the sum of the sums (lemma).
* `TotalsFollowTheCart` (`Pricing`), the safety part of `TotalsCatchUp`. `TotalsInv`: the
  request the hook listens for is for the lines on the screen and is unanswered, or its answer is
  the total; ids grow, so an answer to an older request is never the one listened for.
* `CatalogueReadIsComplete` (`Catalogue`). `CatalogueInv`: the pages a request has read since
  the last change are those of the present catalogue. The pages of a sequence, flattened, are the
  sequence (lemma), also when the last one is short.
* `RowDescriptionsAgree` (`Rows`). There is no constant; the proof shows table by table that the
  tables and the zod schemas have the same nullable columns and the same enums, so that they complain
  about the same nulls and enum values, and `RowInv` says that the one has no complaint about what
  it held, nor the other about what it let through. Rules, conversions and keys are excepted.

Induction. The library's induction theorems cannot be instantiated here, but the least element
of a set of naturals can be reasoned about: the proofs about sums over finite sets (`Inventory`)
and about the closure of a cascade (`Schema`) take the set of numbers for which a statement holds
and show that it is all of `Nat`. So do those about sequences: what `FoldLeft` adds up and
`FlattenSeq` joins is shown by the number of elements taken (`Pricing`, `Catalogue`), for which the
operators were written with the folds of the library and `Rows` with `Together` instead of
the merge operator of `TLC`. `CartProofs` only needs least and greatest elements.

What the proofs found. Two definitions were wrong and are corrected. `compareHlc` was a `CASE`
with overlapping guards, of which TLC takes the first and TLA+ any; it is now the chain of
the code. And `SyncedCartHasLines` used to say that a flush that succeeded left every line on
the server: with three faults a later flush can re-create the cart after that and fail, until its
retry timer fires. The property now speaks of a sync that came to rest.

Only model-checked:

* Liveness (`ReadableCartBecomesOrder`, `HandlersFinish`, the fairness of `EventLog` in
  `ImplementsEventLog`, and on the kiosk `AbandonedSessionEnds`, `SyncLoopRecovers`,
  `UpdateIsProbed`, `AbandonedSessionCloses`, `RecoveryIsNoticed`, `TotalsCatchUp`), which is out of
  reach of the installed provers. For five of them an invariant says that what must happen still can,
  and that is proved: `LockHoldersDoNotWait`, `NoChangeIsStranded`, `SessionIsWatched`,
  `OfflineHasReason` and `TotalIsCurrentOrAwaited`. That it then does happen is what the runs check.
* The full types of `Cart`; `Shape` is the part the proofs need.

The type invariants, `OnlyCommittedEvents`, `RefundedWasReversed`, `NullsAndEnumsAgree` and the five invariants behind
liveness properties are proved where a theorem names them, and for that reason not part of a
run; each holds on the instance of its run when it is added to the `INVARIANT`s.

## 5. Observations without a run

Claims of the repository that the models refute and that stand in the modules as definitions
(add one to the named instance to see the counterexample):

* `NoDoublePublish` (`Outbox`; two relays of one service): the comment at
  `packages/go-common/outbox/outbox.go:116` says that relays race "without double-publishing", but
  the row locks end with the query, which runs outside a transaction.
* `OneOrderPerCart` (`Order`): `repository.go:106` counts on a unique index on `cart_id` that no
  schema has; the RPC and the consumer both insert.
* `FinalizedIsImmutable` (`Cart`): `MergeGhostCart` does not look at the finalized flag, where
  `cart.go:158` calls a finalized cart immutable.
* `NeverOversold` (`Inventory`): two reservations pass the same check; `docs/database/entities.md:90`
  speaks of row-level locking.
* `ExpiredAreReleased` (`Inventory`): the sweep queries a connection whose rows are still open,
  fails and rolls back every time, against the README of the service.
* `EmptyCartIsBlocked` (`Kiosk`): `UX_UI_AUDIT_REPORT.md:514` says that the guard `cartHasItems`
  keeps an empty cart from payment, but the flag is set by the first item added and not cleared
  with the last line (nothing in the shell sends CART_UPDATED), and the pay button is there for an
  empty cart too (`CartReviewScreen.tsx:263`).
* `SaleIsNotBlocked` (`Terminal`, with `EnvKey` and `Dev` FALSE): `PaymentApp.tsx:30` promises an offline
  token "rather than blocking the sale", but a production build without `VITE_PAYMENT_SYNC_KEY`
  throws in `queueOffline` after it has shown the `queued_offline` phase, and nobody catches it.
  The comment at line 187 has the daemon provide the key in production, where it is not asked.
  The `fetch` to the daemon (line 83) has no time limit either.
* `EnumsAreAligned` (`Rows`): `domain.ts:7` calls the enums aligned with those of the tables, but
  `domain.ts:33` has the payment status `queued_offline`, which neither the tables nor zod know.

Services:

* `PaymentConfirmed` carries the status in upper case (`CAPTURED`), while
  `HandlePaymentConfirmed` compares with `authorized` and `captured`: apart from the
  envelope, payments would not mark orders paid. `Order` checks the consumer as written,
  with a message it accepts.
* `order_number` is 17 characters, its column in `database/migrations` 16, with one-second
  resolution under a unique index; `idempotency_keys` is in no schema. `Order` counts a
  refused insert as a failed call.
* Available stock is the running balance, which a reservation already reduced, minus the
  reservations: they are subtracted twice. `Available` in `Inventory` follows the code; it
  errs on the safe side in serial use, which `SerialLedgerExact` confirms.
* `UpdateItem` changes a quantity without a new reservation, and a save that loses the
  version race keeps the reservation it made.
* `MergeCarts` keeps only the last of several target lines of one item and drops the
  quantities of the others, where its comment says that quantities are summed.
* `PaymentConfirmed` before `CartFinalized` is acknowledged and forgotten.
* On the shared table a relay sends other services' events to its fallback subject.

Kiosk session (`Kiosk`):

* A second touch of the employee hold orphans the first interval, which sends
  `PAYMENT_AUTHORIZED` every 300 ms from then on (`PaymentAuthScreen.tsx:142`).
* An approval that arrives after the override is used for a later visit; a late answer of
  `initializeCart` makes `context.cartId` differ from the cart that was paid. `PaidForThisCart`
  states what is left.
* The dialog that fades after Cancel still takes taps: Confirm, Cancel, Authorize, Authorize within
  its 0.2 s puts two charges of one visit in flight, since line 65 of `PaymentAuthScreen.tsx` reads the
  flag of an old closure. `handleConfirm` asks for nothing but a method, and the screen fades too: if
  the first of two charges fails, the customer edits the cart and pays again, the second may capture
  the old amount for the new cart. Without their exceptions `OneAuthorizationPerVisit` and
  `PaidForThisCart` are violated by these traces.
* RETRY creates another order without an idempotency key; PROCESSING_ERROR shows an attract
  screen whose tap resets the cart; PAYMENT has neither cancel nor timeout.
* The tax rate is 0.08 in `PaymentAuthScreen.tsx:56` and configurable in `CartReviewScreen.tsx:55`;
  CART ignores the SELECT_ITEM its "tap to edit" sends; the production `MenuApp` never sends
  GO_TO_CART.

Cart and data:

* A flush re-adds every line, so quantities on the server grow with every flush; lines that
  were removed locally stay. `SyncedCartHasLines` is therefore an inequality.
* The zod schemas, which are called by tests only, cannot parse a row as drizzle reads it: a
  `timestamp` is a `Date` and a `decimal` a string, where they ask for an ISO string and a number.
  Three tables have neither (`Unconverted`). zod also lets through what a table refuses, such as
  the address 999.999.999.999 or an integer of more than 32 bits.
* `writeMvRegister` keeps dominated values where its comment says that they collapse (`crdt.ts:102`);
  adding and removing do not return the new clock.
* Pages after the first of the Andino catalogue are not checked for errors, and a first page without
  data is an empty catalogue: a partial or torn catalogue is cached for its lifetime. Profiles are cached per user but fetched for the
  token's user. A second route `/api/products` and the STALE branch are never reached.
* Above the threshold the total of an older cart is shown until the worker answers.
* Tapping the active category empties the list and loads nothing; the search field appears
  only once it has the focus; `fetchMenu` has no timeout.

Devices and updates:

* Overlapping checks may stage an older version; `stop()` cancels the last health check only;
  a rolled-back update leaves `currentVersion` at the new version, and one whose manifest has no
  rollout, which nothing checks, is rolled back although it was installed; the comment on
  `compareVersions` has its sign the wrong way round; overlapping swaps leave a version that does
  not belong to the URL. The classes are not instantiated by the application yet.
* `close()` and a failed connection never notify the handlers of the phone session; once ICE
  has connected and before the channel opens no timer guards it, only the connection's state.
* After 30 s the browser queues an offline token while the terminal may still charge; a failed
  hand-over is reported as queued; every attempt draws a new idempotency key.
* A browser "online" event overrides an outage of the API, which then goes unannounced.
* Stopping the scanner during the permission prompt leaves the camera on; a recognition under
  way asks for a new frame after the stop; a failed load of the recognizer is kept for ever.

Sync-daemon:

* The dirty marks of the sync-daemon are cleared for a whole data type, by the engine's
  ticks as well as by the cloud flush (`storage/sqlite.rs:326`).
* Raft handlers of the sync-daemon are called by nobody and `known_peers` stays 1: every
  kiosk elects itself.

## 6. Not modelled, and why

* **Sync-daemon and sync-service.** Dirty marks and cloud flush are the next module worth
  writing. The election is not wired, so there is no behaviour to check; libp2p, framing and
  cryptography are out of scope.
* **Composition of `Cart`, `Outbox` and `Order`** on the shared table with subjects and
  envelopes: `order_envelope` already shows what it would find first.
* **Server side of offline tokens, stock cache, Redis copy of a cart**: nothing reads the copy;
  the other two are small and sequential apart from the hazards in `PROJECT.json`.
* **Gateways, payment-service, menu-service, webauthn-service, admin-graphql, legacy till**:
  request and response over one row, with the outbox pattern already modelled; breakers are a
  library's and the rate limiter is one atomic script.
* **Host installer and updater, update server**: sequences of commands over files and docker.
* **Search, admin screens, WebRTC bridge and mesh view, assistance hints, error boundaries,
  webauthn client**: unreachable, presentation, or without state of their own.
* Left out for good: design system, translations, configuration, telemetry, differential
  privacy, the vendor's terminal library, lane intelligence, code generated from protobuf,
  chaos tools. `PROJECT.json` gives the reason for each.

Every invariant and every action property of a passing run is stated by a theorem. Left to prove: the full
types of `Cart`, and that the locks of two sweeps are taken in one order, which needs a
sweep that locks row by row.
