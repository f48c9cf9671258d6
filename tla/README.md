# A formal model of polybot-ts

This directory holds TLA+ specifications of polybot-ts in four parts: what runs
concurrently (the life of an order, the tick loop, the submission of an order through
retries and a rate limiter, the WebSocket connection, the file journal); what a strategy
decides and books (guards, exits, positions, statistics); the services around it (arbitrage
execution, cache, order book feeds, event dispatcher); and the pure algorithms (indicators,
candles, rebalancing, order diffs, market choice). TLC checks them on small instances; TLAPS
proves invariants of the tracker, the order flow, the tick loop, the submission, the connection,
the journal, the books and guards of a strategy, the four services, the candles, the check for an
arbitrage and the rebalancer for every size. Line numbers refer to `src/` as it stands beside this directory (the
TypeScript code is in `src/src/`, and "order/..." below means `src/src/order/...`).

Run, in this directory, `tlc -config MCOrderTracker.cfg MCOrderTracker` (the pairs of
configuration and module are in the table of runs) and `tlapm OrderFlowProofs.tla`.

## 1. Inventory

polybot-ts is an SDK in one Node.js process. There are no threads: a handler runs to
its end, or to its next `await`. All the concurrency is between awaits, timers
(`setTimeout`, `setInterval`), socket events and callers that do not wait for one
another. What happens outside the process (the exchange, the network, the file system)
may fail, answer late, or answer after the process has stopped listening.

| Component (source) | State | Operations | What makes it hard | What makes it correct |
|---|---|---|---|---|
| Order state machine (`order/types.ts`, `pending-state-machine.ts`) | none | transition table | bypassed by direct updates | terminal states are final |
| Order registry and tracker (`order/order-registry.ts`, `order-tracker.ts`) | orders by id, by exchange id and by market, terminal stamps, handles, expiry timers, pending completions, cumulative fills | track, update, cleanup, five exchange events, registerHandle, waitForOrder, dispose | events in any order, timers that outlive what they were armed for | one ending per order, told alike to everyone; no promise left hanging; cleanup forgets only what ended |
| Order coordinator (`order/order-coordinator.ts`) | the registry | submit, cancel | both suspend at the executor while feed messages change the same order | a late reply never revives an order, an end is reported once |
| Order handles, intents, differ, idempotency guard (`order/`) | callbacks; seen intents | builders, diff, duplicate check | several live and desired orders of one key are paired | a difference carried out leaves nothing to change |
| CLOB executor, retry (`execution/clob-executor.ts`, `retry.ts`) | active orders; attempts | submit, cancel, withRetry | a timed-out call may still reach the exchange | nothing is sent again that is known to be an order; a live order can be cancelled; every call is answered |
| Paper executor (`execution/paper-executor.ts`), queue model (`queue-model.ts`) | active orders with their age, bounded history; entries of a queue | submit, cancel, sweep; enqueue, fill chance | the sweep meets orders that were cancelled, and a history that drops its oldest record | nothing swept twice or although it was cancelled; merits never make a fill less likely |
| Strategy tick loop (`strategy/built-strategy.ts`) | lifecycle, warm-up count, positions, re-entrancy flag | tick: exits, guards, entry | the snapshot and the verdicts are used after awaits, during which the operator acts | no exit of a closed position, no entry beyond the limit or while not active, no lock left behind |
| Strategy lifecycle (`lifecycle/state-machine.ts`, `types.ts`) | current state, history | transition | commands arrive between awaits | which states may open and close |
| Connectivity watchdog (`lifecycle/watchdog.ts`) | time of the last touch, status, timer | touch, status, check | silence between a check and its use | no entry on stale data |
| Position manager, cost basis, reconciliation (`position/`) | open positions with their mark and cost basis, realized profit, recent closes | open, close, reduce, reconcile | partial exits split size and cost over any sequence | realized, held and paid add up; reconciliation misses no difference |
| Risk guards, pipeline, combinators (`risk/`) | trips, cooldowns, losses, kill flag | check, record | a breaker that resets by time and trips on what stands | a tripped guard blocks until its own condition clears |
| Exit policies, pipeline, presets, detectors (`signal/`, `strategy/presets.ts`) | high-water mark of the day's profit | evaluate | bids of one's own side against a spot of the other | a stricter preset closes what a looser one closes |
| WebSocket client (`lib/websocket/client.ts`) | state, socket, ping and pong timers | connect, send, close, socket events | events of an old socket after its successor was made | one socket alive, timers of the right socket |
| WebSocket manager (`websocket/ws-manager.ts`, `reconnection.ts`) | subscriptions, buffer, generation, policy | connect, reconnect, subscribe, unsubscribe, drain | reconnection in several awaits | a new connection, replayed subscriptions, old messages told apart |
| Feeds (`websocket/market-feed.ts`, `user-feed.ts`, `multi-market.ts`) | books and their order of use, managed markets | process, apply snapshot or change, evict, add, remove | a book built from changes after its snapshot was evicted, removed or lost | a book that began whole and missed nothing is the exchange's |
| File journal (`persistence/file-journal.ts`) | closed flag, write queue, the files | record, restore, close | queueing, rotation in several renames, torn lines, crashes | no loss, no reordering, drain at close |
| Memory journal (`persistence/memory-journal.ts`) | a bounded list | record, restore | - | the newest entries are kept |
| Rate limiter (`lib/http/rate-limiter.ts`) | tokens, last refill | tryAcquire, waitForToken | waiters poll without an order, the refill happens only when somebody asks | no more and no fewer tokens than time brings |
| Cache (`lib/cache/index.ts`) | entries with expiry, keys by last use, fetches in flight | get, set, delete, clear, getOrFetch | a fetch ends after its key was set, deleted or expired | a hit is what was stored last, in time; one fetch per key; limit kept |
| Arbitrage (`market/effective-prices.ts`, `arbitrage.ts`, `arbitrage-executor.ts`) | configuration; legs of each execution | detect, size, execute, roll back | a rollback races the fills, cancels fail or time out | the better of two routes to each side; no leg left working unreported |
| Order book, scanner, rebalancer, differ (`market/`, `order/order-differ.ts`) | books; markets in rotation | apply delta, prices, scan, score, rotate, plan, diff | plans that trade for ever, ranks that reverse | a plan carried out leaves nothing to plan |
| Market catalog, categorization (`market/`) | fetched lists | search, keyword match | - | - |
| CTF, mempool monitor (`ctf/`, `mempool/`) | provider connection, handlers | split, merge, redeem; connect | handlers added once more at each connect | one handling per message |
| Event dispatcher (`events/event-dispatcher.ts`) | handlers by channel and type | on, off, clear, emit | handlers that subscribe, unsubscribe, emit or throw while being called | each handler that stays subscribed is called once |
| Detector context, accounting, statistics (`context/`, `accounting/`, `strategy/stats.ts`) | counters, peak equity | spot, spread, exposure; fees; position closed | drawdown net of fees | statistics agree with the trades |
| Analytics (`analytics/`) | candle buckets per interval | twenty-six indicators, aggregation of trades | windows, seeds, flat markets, late trades | documented ranges; twins agree; intervals tell one story |
| Observability, pricing, sizing, smart money, correlation, microstructure, backtest, TUI | rolling windows | numeric functions | floating point | formulas |
| Shared kernel, auth, library wrappers | values, credentials | constructors, formatting | - | - |

How they interact. A tick arrives from the caller's loop over market updates. The
`BuiltStrategy` touches its watchdog, advances its lifecycle, works off the exits of its
position manager's snapshot, asks the guard pipeline and the detector, and sends orders
through an `Executor`; journal writes are awaited in between. Independently of it, the
`OrderCoordinator` sends orders through an `Executor` and keeps them in an
`OrderRegistry`, and the `OrderTracker` on the *same* registry is fed by the user feed.
The feeds drain a `WsManager`, which owns the `WsClient`. The guards, the exit policies and the
detector see the market through one `DetectorContext` per tick. The arbitrage executor, the
cache and the dispatcher are called by the user's program and share nothing with the loop but
the `Executor`. The tick loop and the
coordinator are not connected to each other: nothing tells a strategy what the tracker
learns later. The hazards this leaves are listed in `PROJECT.json`, each at its line.

## 2. Modules

| Module | Models | State and actions |
|---|---|---|
| `PendingStateMachine` | `order/types.ts`, `pending-state-machine.ts` | The table as a function from a state to the states it may move to. |
| `OrderLifecycle` | what a consumer of the tracker relies on | Abstract: `Track`, `Advance`, `Finish`, `Forget`. |
| `OrderTracker` | `order/order-registry.ts`, `order-tracker.ts` | One action per handler and per timer; `completeTerminal` and `resolveIfPending` are operators the handlers use, as in the code. A promise of `waitForOrder` is a member of `Waiters` with its status and its own timer; `completion` is the code's map from an order to the promise that will be resolved. |
| `OrderFlow` | `order/order-coordinator.ts`, the status mapping of `execution/clob-executor.ts`, the user feed | Extends `OrderTracker` with the suspended calls of submit and cancel, the exchange's order, and the messages in flight. |
| `TokenBucket` | what a rate limiter promises | Abstract: a bucket refilled with every step of the clock. |
| `RateLimiter` | `lib/http/rate-limiter.ts` | The bucket that is refilled when it is asked, and a polling interval per waiting caller. `take` and `miss` are the two outcomes of `rawTryAcquire`. |
| `Submission` | `execution/retry.ts`, `execution/clob-executor.ts` | Extends `RateLimiter`. A call of `withRetry(...).submit` is suspended at the wait for a token, at the race of its request with the timeout, or at the delay before the next attempt; a request is a call and the number of its attempt. |
| `StrategyStateMachine` | `lifecycle/state-machine.ts`, `types.ts` | `From` and `To` per transition. |
| `Strategy` | `strategy/built-strategy.ts`, `lifecycle/watchdog.ts`, open and close of `position/position-manager.ts`, `risk/guards/max-positions.ts` | An action is a segment of `tick()` from one await to the next; `pc` names the await a call is suspended at. |
| `WsClient` | `lib/websocket/client.ts` | One action per call, socket event and timer. The sockets are numbered in the order they are made. |
| `WsManager` | `websocket/ws-manager.ts`, `reconnection.ts` | Extends `WsClient`; the calls of connect and reconnect are suspended at the client's promise or at the delay before a retry. |
| `FileJournal` | `persistence/file-journal.ts` | One action per file-system call of a write, so an error or a crash can come between any two; files are sequences of pieces. |
| `DetectorContext` | `context/detector-context.ts` | What a tick sees: a record, read by operators. |
| `RiskGuards` | `risk/guards/*`, `risk/guard-pipeline.ts` | A guard is the condition under which it blocks; five keep a state. `asks` is what evaluating the pipeline changes, `engage`, `reset` ... the operator's calls; the four presets as conditions. |
| `PositionBook` | `position/*` | The immutable manager as a record; each operation yields the next one. `reconcile`. |
| `ExitPolicies` | `signal/exits/*`, `exit-pipeline.ts` | A policy is the condition under which it closes. |
| `Accounting` | `accounting/fee-model.ts`, `strategy/stats.ts` | Fees and the statistics' handler of a closed position. |
| `Trading` | what `strategy/built-strategy.ts` does with all of these | Composes the five modules above. `Tick`, `Reduce`, `Quote`, `Pass`, `Operator`; a tick is one step, its awaits being the subject of `Strategy`. |
| `Opportunity` | `market/effective-prices.ts`, `arbitrage.ts` | Detection and sizing of an arbitrage, as operators. |
| `PaperExecutor` | `execution/paper-executor.ts` | The executor as a record; submit, cancel, sweep. |
| `ArbitrageExecutor` | `market/arbitrage-executor.ts` | Extends the two above. A call of `execute()` is suspended at each await of the executor, which is the paper one or `ClobExecutor` with the exchange behind it. |
| `Cache` | `lib/cache/index.ts` | The operations on the contents as operators; callers of `getOrFetch` suspended at a fetch. |
| `OrderBook` | `market/orderbook.ts` | Deltas, prices and costs of a book. |
| `MarketFeed` | `websocket/market-feed.ts`, `multi-market.ts` | Extends `OrderBook`: the exchange's books, the updates on the way with a gap for every lost one, both stores of books. |
| `EventDispatcher` | `events/event-dispatcher.ts` | A stack of emissions under way; what a handler does while it is called are actions of their own. |
| `Rational` | `shared/decimal.ts`, `lib/decimal/` | Exact fractions. |
| `Indicators`, `Oscillators` | `analytics/helpers.ts`, `indicators.ts`, `*-indicators.ts` | An operator per indicator, as folds over the candles. |
| `KLineAggregator` | `analytics/kline-aggregator.ts` | Candles of several intervals from trades. |
| `QueueModel`, `Rebalancer`, `OrderDiffer`, `MarketScanner` | the files of the same names (`MarketScanner` also `market/scanner.ts`) | Pure decisions, each with the property it is asked. |
| `OrderFlowProofs`, `StrategyProofs`, `SubmissionProofs`, `WsManagerProofs`, `FileJournalProofs`, `TradingProofs`, `ServicesProofs`, `AlgorithmProofs` | - | The theorems of section 5. |
| `MCOrderTracker`, `MCOrderFlow`, `MCTrading` | - | Values of the function-valued constants. |
| `MCServices` | - | The four services side by side; each behaviour has one in focus. |
| `MCAlgorithms` | - | Small inputs of the pure decisions; histories of candles and trades that grow. |

Every source definition carries the name of the function it translates. An operator under
a comment that begins with "Mutant:" is not part of the model: it is a plausible
mistake in the definition after it, kept to show that the properties notice it.

### What is abstracted, and what the environment may do

* **OrderTracker.** Prices, fees and trade ids are left out. A client order id is used
  once (`generateClientOrderId`), so an order forgotten by cleanup is "removed". The age
  of a terminal order is "fresh" or "old" against the TTL. The exchange may send any
  event at any time, whether or not it makes sense; timers fire in any order; an order
  may be registered again, awaited by several callers, and disposed of at any moment.
  `HasTimeout` says whether `defaultTimeoutMs` is positive: without it a promise of
  `waitForOrder` has no timer and stays pending until its order ends or the tracker is disposed of.
  `handleRejected` is `handleCancelled` with another reason.
* **OrderFlow.** An order is filled in units. The feed reports changes of an order in
  the exchange's order and, when `LossyFeed`, loses any of them. A submission's or a
  cancel's error reply may hide that the exchange acted on it. Replies and feed messages
  are not ordered against one another. The executor's promise may also reject
  (`SubmitThrows`), as `ClobExecutor`'s does when no token came in time: `submit` then
  rejects and the order stays in the registry as created. `KnowsIds` says whether the
  executor knows an order by the coordinator's id. Neither executor of the repository
  does, so with it the model shows what an executor of the caller's would see.
* **Submission, RateLimiter.** Time is counted in steps, from the last refill and from the
  beginning of each wait; it stops counting where more makes no difference. Tokens are
  exact parts of a token where the code adds floating-point numbers, whose rounding is
  not modelled. The request timeout and the delay between attempts may end at any moment.
  Of the exchange's orders only matters whether they are live or over, so "expired" is as
  good as "cancelled"; of errors, whether they are retryable. The exchange may take a
  request at any time after it was sent, also after its sender gave it up; the loss of its
  reply is an error of either class. A cancel that was given up and repeated is one cancel
  whose first effect is an end by the exchange's own doing.
* **Strategy.** The executor, the journal, the detector, the exit policies and the guards
  are free choices, exceptions included. `safeJournal` swallows errors, so an await of
  the journal always continues. Three journal writes in a row without a state change
  between them are one await. Every order is for one lot. The context a tick is given
  shows the number of open positions as of the call or as of the guard's evaluation (a
  context that reads the position manager, or a copy made for the call); a caller that
  passes an older copy can break `MaxPositionsRespected`.
* **WsClient.** The `error` and `close` events of a failed handshake are one step. The
  pong timeout is shorter than the ping interval, as in the defaults: with a longer one a
  ping overwrites the armed timeout, which then cannot be cleared. A peer may fall silent
  for good, close the socket, or leave the handshake failing.
* **WsManager.** A call of `connect()` and several of `reconnect()` (`Callers`) may be under way
  at once, with one policy, and the owner of the client may close it at any time. Each call is made
  from a task of its own, so none runs between two statements of another. The heartbeat clock, the length of delays and the parsing of messages are left out; a
  message is its generation and the socket it came over. A message comes only over a
  socket whose peer was asked for something.
* **FileJournal.** A line is one piece, whole or torn, and the file's size is the number
  of its pieces; a torn piece has no newline. An absent file and an empty one are alike
  (the code treats ENOENT as such). Any stat, rename or append may fail, and a failing
  append may leave a part of its line. A crash keeps the files and forgets the object; the
  next process makes a new journal on the same path and has no memory of earlier calls.
* **Trading.** Prices are whole cents, times seconds; fees count in ten-thousandths of a cent.
  Quotients are compared by cross-multiplication, so nothing is rounded; the code's decimals
  have forty digits. The detector is a free choice of entries, the exchange fills or refuses
  each exit at will, and the order of the exits is any. An entry is filled and paid also when its
  market still has a position, which the manager then refuses: `cash` falls, and `unbooked` keeps
  what was paid for such fills, since no book of the code does. The code's builder lets the caller make
  the context; here the day's result, the losing streak and the balance are taken from the
  books, which is what the guards' documentation asks of it. Nothing in `src/` tells the
  order-counting guards of an order or the profit locker of the result; the model's caller does.
  `maxDrawdownPct` of the circuit breaker, which the code stores and never reads, is left out.
* **ArbitrageExecutor.** The exchange refuses, keeps silent past the timeout (and may have
  taken the order), fills at any time, and answers a cancel
  with success or an error whether or not it acted on it. Each call is made once. An order is live or
  over; how much of it is filled is left out. The paper executor's price is left out, its
  `fillRatio` is none, some or all. Sizes and the safety factor are exact: a size counts in parts
  of a share, a hundred times as many to a share as a unit of the opportunity costs.
* **Cache.** A value is the version of its source; a fetch reads the source at one time and
  returns at another, or fails. Hit counters are left out.
* **MarketFeed.** Updates are processed in the order they were sent; a broken connection loses
  those on the way and shows no trace of it. The exchange answers a subscription with a whole
  book. Changes of one level are enough: a message with several is a sequence of them.
* **EventDispatcher.** Handlers are free: any of them may subscribe, unsubscribe, clear, emit
  or throw while it is called, to a bounded depth. A channel has one event type and "*".
* **Algorithms.** Decimals and numbers are exact fractions, so the models say nothing of
  rounding. The prices of `Opportunity` are from 0 to `One`, as a market's are, so `clampMirror`
  returns what it is given; a price from outside, which the feeds do not refuse, is not modelled. The
  scores of both scanners are whole numbers (sixtieths and percents), which loses nothing at the
  values of the run; the code does not round them. `market-scanner.ts` weighs the age of a market by an exponential; the model has its
  values at the ages used. The random draw of the queue is a threshold.

## 3. Runs

| Run | Instance | Distinct states | What it asks |
|---|---|---|---|
| `order_tracker` (`MCOrderTracker.cfg`) | 2 orders, 2 promises | 555,308 | slots, outcomes, registry and the abstract lifecycle |
| `order_flow` (`MCOrderFlow.cfg`) | 1 order of 2 units, 2 promises, losing feed | 47,560 | fills, liveness of "cancelled" orders, single report of an end, the settling of promises |
| `order_cancel` (`MCOrderCancel.cfg`, `MCOrderFlow`) | the same, lossless feed, an executor with ids of its own | violated | does a cancel reach the exchange |
| `submission` (`MCSubmission.cfg`, `Submission`) | 2 calls, 2 attempts each, 1 token, half a token per step | 258,308 | repeats, active orders, tokens, an answer for every call |
| `strategy` (`MCStrategy.cfg`, `Strategy`) | 2 calls, 3 markets, limit 2, warm-up 1 | 60,609 | snapshot, limit, accounting of fills, checks before an entry, end of a tick |
| `ws_manager` (`MCWsManager.cfg`, `WsManager`) | 3 sockets, a connect and 2 overlapping reconnects, 1 subscription, buffer 2, 2 attempts | 401,460 | one socket, generations, keepalive, end of reconnect |
| `ws_reconnect` (`MCReconnect.cfg`, `WsManager`) | the same, one reconnect at a time, buffer 1 | violated | does a retry of reconnect() connect when the client would accept it |
| `file_journal` (`MCFileJournal.cfg`, `FileJournal`) | 4 records, rotation at each, 2 archives | 103,397 | order on disk, one writer, failures, drain, settling |
| `trading` (`MCTrading.cfg`) | 2 markets, 2 books, 15 guards, 7 exit policies | 50,616 | money, statistics, limits on entries, presets, reconciliation |
| `services` (`MCServices.cfg`) | 2 executions; 2 keys, 2 callers; 2 markets; 2 handlers | 933,109 | rollbacks and sweeps, hits and shared fetches, books and the cost of orders on them, delivery |
| `cache_bound` (`MCCacheBound.cfg`, `Cache`) | 3 keys, room for 2 | violated | does the cache keep its limit |
| `algorithms` (`MCAlgorithms.cfg`) | all small inputs; 5 candles, 3 trades | 127,341 | do the decisions keep what their names promise |

The properties, and the hazards they are for:

* `CompletionIsLive`, `OneOutcome`, `RegistryConsistent`: timers and late events touch
  four maps at a time; each pair must agree after any sequence.
* `ImplementsLifecycle`: the registry validates nothing itself; only the handlers' guards
  keep a terminal state final and the callback unique.
* `SoleWaiterSettles`: the promise's timer, the order's end, the coordinator's cancel and `dispose`
  race; with one promise per order and a positive default timeout one of them settles it.
* `FilledNeverOverstated`, `CancelledIsDead`, `EndReportedOnce`: replies race the feed, and
  the coordinator's updates bypass the transition table.
* `RepeatedUnknowingly`: a late reply, a timeout and the next attempt overlap; an intent
  must not be sent again once its sender could know of an order. (After a *lost* reply it
  is: the code has no key by which the exchange could recognise the second request, so
  `maxAttempts` orders for one intent are possible.)
* `LiveIsCancellable`: `activeOrders` is what cancel knows; an order reported as open must
  stay in it through cancels that fail, time out or come twice.
* `ImplementsBucket`: callers poll at times of their own, and each poll refills.
* `CallAnswered`: a call waits for a token, a reply and a delay, several times over.
* `SnapshotCurrent`, `MaxPositionsRespected`, `EveryFillAccounted`,
  `EntryOnlyWhileActive`: what a tick read before an await is used after it.
* `TickEnds`: each of the many ways out of a tick clears the flag.
* `OneSocket`, `GenerationIsSocket`, `HealthySocketKept`, `SilenceNoticed`,
  `ReconnectEnds`: events and timers of an old socket arrive in the life of a new one, and calls of
  `reconnect()` close each other's sockets. `ReconnectEnds` is about a time when no new call resets
  the policy they share, and leaves out the calls whose first handshake was aborted (`Abandoned`):
  these wait for ever, a finding. `ReconnectReconnects`, refuted in `ws_reconnect`, asks of a retry
  only that it begins a connection, whatever becomes of it, once the client is closed after a
  connection that was open and has a socket left to make.
* `DiskIsSuffix` (with `OneWriter`), `FailureIsOwn`, `ClosedIsQuiet`, `RecordSettles`:
  queueing, interrupted rotations, and failures between two renames.
* `LedgerAgrees`: partial exits, closes and refusals in any order; the realized profit is the
  cash that moved less the cost of what is held (and, apart, of fills that no book took), and the statistics, drawdown net of fees
  included, are those of the list of trades.
* `EntriesWithinLimits`: a breaker's cooldown resets it while the day's loss stands, and fifteen
  guards share a short-circuited pipeline; an entry still finds every limit kept.
* `PresetsOrdered`, `ReconcileFindsAll`: in every reachable book, the four presets admit and
  close in the order of their names, and reconciliation finds every difference between the book
  and any report of the exchange.
* `LegsAccounted` (`RollbackComplete`, `SweptOnce`): a rollback runs while the earlier legs fill
  and its own cancels fail; the paper executor's sweep meets cancelled orders.
* `CacheSound` (`HitIsFresh`, `Evictable`, `OneFetch`): a fetch returns after its key was set,
  deleted, cleared, evicted or had expired, with other callers waiting for it.
* `BooksAgree`: two stores of books on one stream, with gaps, evictions and removals; a book that
  began whole and missed nothing is the exchange's book, level by level and in order. With them the
  costs (`CostsGrow`): in every book kept, an order that takes more never gets a better price on
  average, nor one better than the best level; every merge, repeat and removal of a level must keep
  the order this depends on.
* `DeliveredOnce`: the list being worked off is changed by the handlers on it, and emissions nest.
* `LongDominates`: the better of a direct price and a mirrored one, with a fee; rounding and the clamp apart.
* `RebalancesSettle`: a plan carried out leaves nothing to plan, with tolerances and a minimum.
* `ChoicesConsistent`: so do a difference of orders that match in several ways (`DiffsSettle`) and a
  rotation of markets (`RotationsSettle`); a market whose edge grows keeps its rank (`EdgesRank`); an
  order that waits longer, is smaller or is priced more generously is not less likely to fill
  (`QueuesFair`).
* `OscillatorsInRange`, `IndicatorsConsistent`: values stay in the range their comments give;
  functions that compute the same in two ways agree; what lies before the window, or a change of
  the unit of price, has no influence it should not have.
* `OneStory`: series of candles of several intervals, from late and disordered trades, agree with
  one another.

A type invariant is checked in every run that passes, as a conjunct where the module has a
property that reads its whole state: `FlowTypeOK` in `FilledNeverOverstated`, `TypeOK` of
`WsManager` in `GenerationIsSocket` and of `FileJournal` in `DiskIsSuffix`, and so on. Deadlock is
not checked in `services` and `algorithms`: a call of `execute()` is made once and then over, and
an input that was answered leaves nothing to do.

### Bounds, and why they are enough

* Two orders show that an event for one leaves the other alone, and two promises show
  both promises on one order and one on each. Orders have size 2, so a partial fill is
  neither nothing nor all. `MaxFilled` stops the count of partial fills, which the code
  leaves unbounded: 1 in `order_tracker`, 2 elsewhere, where repeated fills happen.
* In `order_flow` one order is enough since the coordinator keeps nothing across orders.
  The feed holds at most one message per unit and two for the beginning and the end.
* In `submission` two calls compete for one token, a token takes two steps of the clock
  and a caller waits for one, so that some time out; two attempts give a repeat with an
  earlier request still under way. The proofs cover any number of each.
* Two calls of `tick()` are the least that can overlap, and the proofs cover any number.
  Three markets with a limit of two make the limit bite. `MaxHolding` lets each market
  be filled once more than it has a position for.
* Three sockets give every socket a predecessor and a successor; two attempts give a retry
  and a refusal; two calls of `reconnect()` are the least that overlap. A buffer of two overflows.
* Four records with rotation at every write pass each piece through both archives and
  over the edge, twice; a failed write is followed by one that must go on.
* In `trading` two markets, one proposed on each side, make exits of one tick share a context.
  Two books ten cents apart are enough for profit, loss and both exits; the clock (`MaxTime`
  300 in steps of `Step` 150 seconds) passes one cooldown and one window. Two entries and two
  trades (`MaxEntries`, `MaxTrades`) trip the breaker's streak and the limit per window; the
  history keeps one close (`MaxClosed`), so it drops one. `MaxCommands` allows one command of
  the operator between them.
* In `services` two executions can overlap on one account; a time to live of one step and a
  clock of three let an entry expire, be set and expire again (`MaxClock`), and one change of a
  source (`MaxVersion`) makes a fetched value old. Two markets with one book (`MaxBooks`) evict at
  every switch; `MaxMoves` and `MaxWire` bound the changes and the updates on the way. Two
  handlers, two subscriptions of a list, two nested emissions and four edits (`MaxListed`,
  `MaxDepth`, `MaxEdits`) let a handler remove, add and repeat the one after it.
* A level of a book holds two lots or none, so that orders of 1 to 4 lots end within a level, at its
  edge and on the next.
* In `algorithms` five candles of four shapes (flat, rising, gap, touching zero) with periods of
  1 and 2 reach the first value, the smoothing after it and the division by zero of a flat
  market in every indicator, nested periods included. Three trades, at five times on both
  sides of the edges of 1, 5 and 15 minutes, come in every order.

## 4. Fairness

Every temporal property uses weak fairness of what Node.js or the platform guarantees,
and of nothing else.

* `OrderFlow`: an armed timer of the tracker fires unless it is cleared. The exchange, the feed
  and the executor are not fair. `SoleWaiterSettles` needs the default timeout (`HasTimeout`).
* `Strategy`: journal writes and executor calls settle (`Resume`). That the executor
  settles is `CallAnswered` of `Submission`. Calls of `tick()`,
  the operator and the clock are not fair.
* `Submission`: time passes, an interval polls, a timeout or a delay ends, and a reply
  that came is handled. The exchange, which may never answer, and cancels are not fair.
  `CallAnswered` needs the request timeout (`HasTimeout`): without one a silent exchange
  leaves a call pending.
* `WsManager`: the ping interval and the pong timeout fire; a retry's delay ends; a
  handshake succeeds or fails; a closing socket emits `close`. A peer's close or pong,
  messages, calls and the owner's close are not fair. That new calls of `reconnect()` stop some time
  is not a fairness of the model but the premise of `ReconnectEnds`: each resets the attempts of the
  policy they share.
* `FileJournal`: file-system calls return, with or without an error.

`trading`, `services` and `algorithms` ask safety only: the caller of a tick, the exchange and
the handlers owe nothing.

## 5. Proofs

The modules are proved for arbitrary constants that satisfy the named assumptions next to
them; the model-checked instances satisfy them too.

**OrderFlowProofs** first proves, of the tracker alone, `TypeCorrect`, `SlotsAreLive`, `RegistryIsConsistent`,
`OutcomeIsUnique` and `TrackerImplementsLifecycle` for any sets of orders, promises,
markets and fill sizes (`MarketOfAssumption`, `SizesAssumption`, `NoneAssumption`).
`StepKinds` first reduces the fifteen actions to a few kinds: a handler that moves a live
order on (`Moves`), one that ends it (`Ends`), and those that leave the registry alone.
The inductive invariant is the conjunction of the type invariant and the three safety
invariants with `AnnouncedTerminal` (what onComplete was told is terminal). None is
inductive by itself: an event resolves *the promise in the slot*, so that `OneOutcome`
survives a step because the slot holds a pending promise of that very order
(`CompletionIsLive`), and the slot is empty once an order ended because the handlers
require the table's permission. The refinement maps `state` and `announced` to
themselves; `Cleanup` maps to `Forget` because stamps are present exactly on terminal
orders (`RegistryConsistent`).

For the flow it proves `FillsNeverOverstated`, `CancelledOrdersAreDead` and
`EndsReportedOnce` for any orders, promises and sizes, with a feed that loses messages and calls
that fail after the exchange has acted (the tracker's assumptions, no others). None of the three is
inductive: each speaks of the registry, and what changes the registry is a message or a reply that
left the exchange some steps before. `FlowInv` therefore says, order by order, what is on its way:

* `Counted`: the fills counted *and those the feed still holds* (`Fills`) are fills of the
  exchange, so that counting one moves it from one summand to the other. `FeedTrue`: a feed opens
  and ends at most once (`Ordered`), a "filled" in it is a whole fill and a "cancelled" a death;
  without it a "filled" followed by another could be counted twice.
* `Replies`: a reply "cancelled" and a successful cancel find the order dead, an error finds it
  never accepted or its acknowledgement lost. `Submitting`: before its reply nothing has happened to
  an order in the registry, which is why the reply may overwrite its state unchecked.
* `Announcements`: an end was announced last, and only for an order that shows an end.

`FeedAppend` and `FeedTail` are what the exchange and the reader do to a feed; `OthersKept` disposes
of every order but the one a step is about; `TrackerStepKinds` brings the tracker's timers and
calls, and the messages `HandleSteps` reads, under the kinds of step of the tracker alone.

**StrategyProofs** proves `TypeCorrect`, `SnapshotStaysCurrent`, `LimitIsRespected`,
`EntriesAreChecked` and, for an executor that fills every accepted order
(`Fills = {LotSize}`), `FillsAreAccounted`, for any number of calls and markets, any
warm-up and any limit (`TickAssumption`). The invariant says that at most one call is
suspended, and only while the flag is set (`OneCall`); what that call knows of the book
(`CallOK`: the rest of its snapshot is open, its context's count is not too low, an entry
under way has room); and that the warm-up count has not run out while warming up. The
limit holds because between the guard's answer and the entry only this call could add a
position, which is `OneCall`, and because a count taken before the exits is only ever too
high, which is in `CallOK`.

**SubmissionProofs** proves `SubmissionTypeCorrect`, `NeverRepeatsKnowingly`,
`LiveStaysCancellable` and `SubmissionImplementsBucket` for any callers, capacity, rate,
number of attempts and limit of the wait (`LimiterAssumption`, `RetryAssumption`). The
refinement needs only the limiter's type: `MovesLimiter` says that a submission moves the
limiter by the limiter's own steps, and with `budget <- refilled` a refill maps to a
stutter, a step of the clock to one of the abstract bucket's (`OneMoreStep`), a token to a
token. The invariant `IInv` says of each request what the two safety properties leave out:
that requests are sent one after the other and the next only after the last one failed or
was given up (`AttemptsOK`), which must be known already while the next attempt waits for
its delay or its token; that a request the exchange took has its reply on the way
(`TakenOK`), so nothing is taken twice; that an order not yet handled was reported as live
if it is (`ActiveOK`); and that a cancel succeeds only on an order that is over
(`CancelOK`). `CallsKept` and `OneCallMoves` reduce each action to the one request it is
about.

**WsManagerProofs** proves `SocketsOneAtATime`, `TimeoutsAreOwn` and `GenerationsTell` for any
sockets, subscriptions, size of the buffer, number of retries and overlapping calls
(`SocketAssumption`, `CallersAssumption`, `ManagerAssumption`). `OnlyClientSteps` reduces the manager's actions to the client's, on which
`ClientInv` depends alone: a timeout is armed only while the client is open, for a ping of the
socket it refers to, because whatever changes the state or the socket clears it. For the generations
the number of connections opened is compared with the number of sockets made (`Generations`), which
tells that the next generation is a new one; no message is filed ahead of it (`Filed`); and a retry
that awaits the client is one the policy allows (`Retries`), which bounds the counter of attempts.

**FileJournalProofs** proves `DiskKeepsOrder`, `CloseDrains` and `FailuresAreOwn` for any number of
records, any size at which the file rotates and any number of archives (`JournalAssumption`).
That one call writes at a time follows from the queue: while a call is pending each later one is
chained to it or to one after it (`Chained`), and the tail of the queue is at least the last pending
(`TailIsLast`); `close()` awaits that tail, which no call moves once the journal is closed
(`Closing`). The order on disk needs, besides, that a rotation under way has emptied the archive it
renames to (`RoomBehind`): an interrupted rotation leaves a gap between two archives, the next one
begins at the oldest again and finds the same gap. `OnDisk` gives each file its part of the list
of pieces written; each action is shown to move the parts (`Suffix`).

**TradingProofs** proves `LedgerIsKept`, `EntriesStayWithinLimits`, `PresetsAreOrdered`,
`ReconciliationFindsAll` and `TradingTypeCorrect` for any finite set of markets, any books,
readings, exits, sizes and fee model, any limits of the guards and any pipeline
(`MarketAssumption`, `ConfigurationAssumption`, `GuardAssumption`). A tick may sell any number of
positions and a book holds any number, so both are folds. What a fold computes is established by
induction without the library's induction theorems: `LeastNumber` takes from the well-foundedness
of < on the numbers that a set of them has a least member, and from it follow `AllNumbers` (a set
with 0 and every successor has all) and `AllSubsets` (the same over the subsets of a finite set),
in which the statement to be proved is a *set*, not an operator. `SoldInTurn` then unfolds
the exits of a tick into a chain of single sales, and `TickKeeps` says what must hold of a set of
accounts for a whole tick to stay in it. Along that argument:

* `LedgerAgrees`: the accounts a tick works on have the cash without what refused fills cost
  (`unbooked`), which each step takes out again; `BooksKept` strengthens "each position's own result and cost belong to its
  remaining size" to "position and fills are both worth the entry price" (`AtEntry`), without which
  a second partial exit could not be accounted for; `StatsOf` adds the peak, which no property
  mentions and which the drawdown is measured from: it is the greatest of all the equities so far.
  `TotalSplit` is the one fact about sums the books need (what is removed is exactly the rest),
  `SumsTake` that the order in which a set is summed does not matter, `LevelAppend` and
  `FallsGrow` what one more trade does to the equity and to its falls, `HistoryGrows` that the
  bounded history stays the end of the list of trades.
* `EntriesWithinLimits`: the times the rate limiter keeps are the last of the entries, and every
  entry it has dropped is out of its window (`StampsFollow`); so what it counts is what left within
  the window, though it keeps a list of its own and drops from it at each look. The breaker and the switch
  need no invariant: the property compares the step with the state its tick began in. The theorem
  assumes that the three guards are in the pipeline, and that the breaker's loss limit is not 0: with
  0 the code trips below 0 only, and a day without a result is not below its limit.
* `PresetsOrdered` and `ReconcileFindsAll` follow from the types alone, by what the guards, exits
  and the reconciler compute: `WiderSpread`, `StricterExit`, `KeysCount`, `OwnHoldings`. The second
  assumes `ToleranceBps = 0`, as the property says.

**ServicesProofs** proves `CacheIsSound`: for any keys, callers, time to live and size, a hit is
what was stored last and in time, every entry can be evicted, and a key has one fetch. What each
operation leaves is stated once for *any* contents (`RemoveKeeps`, `GetKeeps`, `EvictKeeps`,
`SetKeeps`), since `set` evicts from contents no state ever holds. `HitIsFresh` is not inductive
alone, because an operation moves entries that have expired as well: the invariant says of every
entry held, expired or not, that it is the last one stored (`HeldAsStored`), and of every fetch
that its caller has a key (`FetchHasKey`). That a key may stand in the list twice, which is the
finding of `cache_bound`, is why `Evictable` is an inclusion and no more.

It proves `RollbackIsComplete` for any number of executions, quotes and
configurations. On paper no order is at the exchange (`PaperInv`). Otherwise the invariant
`LiveInv` compares, leg by leg, what a call knows with what the exchange has (`LegsKnown`): a leg
with a result, the one being submitted, those not yet sent, those whose cancellation was
answered. Each action is about one leg of one call, so `OthersKeep` disposes of all others;
`RollbackKnown` and `NextLegKnown` are the two continuations after an await; one lemma per action
does the rest.

`LegsAlwaysAccounted` adds the executor on paper (`PaperAssumption`, `ArbAssumption`). An order
filled in part and then swept is recorded twice, so what its sweep keeps (`Kept`) is said for any state
of it, order by order: active once, recorded at most twice and then the second time as cancelled.
`SweepChain` unfolds the fold over the active orders into single steps (`SweepOneKeeps`), by the
induction over the numbers that `TradingProofs` uses.

`EachEmissionDelivered`, for any handlers and depth: `Balanced` says of every emission under way that
a handler was called, and is still to be called, between the least and the most times it was subscribed
since the emission began. How often a handler is in a list is the cardinality of its places (`Occurs`);
`OccursDropped` follows them through an `off`.

`BooksAlwaysAgree`, for any markets, prices, number of books and bounds (`FeedAssumption`,
`AbsentAssumption`). The wire is read as a path from the books processed so far to the exchange's
(`Told`): each update leads from one to the next, until a gap. Then each book kept is in order and, if it
began whole and missed nothing, what has been processed (`Shelf`). Each way a path changes has a lemma
of its own: an update sent (`ToldMore`), read (`ToldRest`), lost with those after it (`ToldGaps`), a
whole book sent again (`ToldAgain`). The order of a merged book needs that sorting by price has an
answer (`FallingExists`, `RisingExists`), by induction over the finite set of its levels.

`LargerOrdersCostMore` holds of any book that is sorted, and with the invariant of the feed gives
`CostsGrow`, a part of `BooksAlwaysAgree`. The walks of the two orders over the levels (`WalkChain`)
are compared level by level (`BothFill`): until the smaller order ends both have taken the same; from
then on the larger pays, for whatever it adds, at least the price the smaller paid last, which is at
least the smaller's average (`OneLevelMore`, `LargerPaysMore`).

**AlgorithmProofs** proves what the run asks of small inputs for all of them.
`LongAlwaysDominates` and `NeverShort`: for any price of a certain outcome, any fee and any quote,
`checkArbitrage` never answers with a short opportunity. `EffectivePrices` says that each effective
bid and the effective ask of the other token are mirrors of one another (`SellIsBuyOfOther`), so
that the short pair's profit is the long pair's before fees, and `FeeGrows` that it is never larger
after them; the long branch, asked first, has already answered.

`CandlesTellOneStory`, for any trades in any order: a long candle has the extremes and the volume of the
short ones in its bucket, and, when the trades came in order, opens with the first and closes with the
last. `Told` says so of every pair of intervals and, besides, that no short candle is without its long
one; `Files` says what one trade changes of a series, for any bucket, and `TradeTells` that what it
changes of the two series fits (`Multiple`: the longer interval is a multiple of the shorter, so a trade
falls in both into buckets that contain one another). The volume is a fold over the candles of a bucket.

`RebalancingSettles`, for any balances, cash and configuration: the trades of a plan, carried out, leave
nothing to plan, and if every token over its target is sold the cash keeps its share. The value of a
portfolio is a fold over its tokens, so the trades leave it alone (`Total`), and each token a trade
moves ends exactly at its target (`TradedIs`). `RebalancesAlwaysSettle` is the run's property.

`ChoicesAlwaysConsistent` is the rest of what the run asks, each part a theorem about any input:

* `RotatingSettles`: `selectTop` picks along the ranking, so it is a chain of picks like the walks of
  `TradingProofs`. With the markets just chosen as the current ones, every one of them stays and no
  other beats the worst of them sooner than before.
* `EdgesKeepRank`: a result's place in a ranking is the number of results at or ahead of it.
  That these numbers are the places, each taken once (`RankedPlaces`), is proved from the
  cardinalities alone, and gives what `Before` means (`RankedBefore`): a score that only grows
  puts no new result ahead.
* `DifferencesSettle`: the n-th desired order of a key meets the n-th live one (`MeetOnce`: at most one
  each way), so what is left of the live orders, the amended and the placed ones are as many as are
  desired; the bijection is written down, not counted.
* `QueueKeepsFair`: more time, a smaller order or a better price never lower the probability. It
  rests on what `Rational` computes: `EuclidWorks` shows that the recursive function behind Euclid's
  algorithm exists and that what it answers divides both numbers, `RatioIs` that reducing a
  fraction leaves its value, and the lemmas `PlusIs` to `LeqChain`, `PlusGrows` to `GainGrows` that
  sums, products, quotients and comparisons are those of the values, by multiplying crosswise.

`OscillatorsStayInRange`, of any well-formed candles and any period (`RangesHold`): an indicator that is
a share of a whole stays between its ends. The argument has three layers.

* Equal values are the same fraction (`LowestTerms`, by `GcdScales`: a common factor of two numbers
  is one of their greatest common divisor), so that "the range is a point" and "the range is empty"
  are the same test; a quotient of values whose sizes are known stays in a `Span` (`OverWithin`).
* Each fold is a chain (`SumRuns`, `LargestRuns`, `WilderRuns`, `ParabolicRuns`), so sums, averages and
  Wilder's smoothing keep the order of two series (`SumGrows`, `WilderGrows`) and stay where their
  values are (`Averaged`).
* Each oscillator is then such a share: a close between the extremes of its window, gains of all
  changes, a directional move within the true range (`MovesInRange`), a money flow within the volume
  (`PlaceOfClose`). The parabolic stop needs no history: one step puts it beyond its candle
  (`ReversalIs`).

**Only model-checked.** All liveness properties (fairness is out of the prover's reach). Of the
invariants `IndicatorsConsistent`: it compares whole computations, each a fold over folds, under a change
of unit or of history, and each would need a chain of its own. Where a module that is proved about
filters or sorts a list, it says so by the places that stay, because `SelectSeq` and `SortSeq` are
opaque to the provers: `remaining` in `WsManager`, `OnDisk` in `FileJournal`, `Ranked` in `MarketScanner`.

## 6. Findings

Where the code and what it says of itself part; `PROJECT.json` quotes both. Three are runs whose
property TLC refutes.

1. `OrderCoordinator.cancel` (`order/order-coordinator.ts:122`) passes its own id to an
   executor that knows the order by another (`clob-executor.ts:74`, `paper-executor.ts:84`):
   the cancel of a live order is answered with not-found and never sent (`order_cancel`).
2. `reconnect()` of an open connection never reconnects
   (`websocket/ws-manager.ts:171`): `close()` leaves the client "closing", which
   `connect()` refuses; and when the close event has come, each retry closes the dead socket again
   before it asks (`ws_reconnect`).
3. A key of the cache that is set after it expired is listed twice, and a later eviction evicts
   nothing (`lib/cache/index.ts:121`): the cache outgrows `maxSize` (`cache_bound`).

Five more are properties that stand in their modules and that TLC refutes as soon as a
configuration asks for them:

4. `waitForOrder` twice on one order (`order/order-tracker.ts:97`): the second call takes
   the completion slot; one of the two promises may never settle (`EveryWaiterSettles`).
5. A halt during the awaits of the exit loop (`strategy/built-strategy.ts:265`) does not stop
   the remaining exits of that tick (`NoTradingWhenHalted`).
6. An accepted order opens or closes a whole position whatever was filled
   (`strategy/built-strategy.ts:401`, `:286`; `PositionsBackedByFills`).
7. An append after a torn line continues that line (`persistence/file-journal.ts:133`), so an
   entry whose `record()` resolved is not restored (`ResolvedIsRestored`).
8. The reply of a submission overwrites the state its order has reached
   (`order/order-coordinator.ts:91`): one cancelled meanwhile is open again, with the stamp for
   which cleanup forgets it (`RegistryConsistent`, asked of `FairFlowSpec`).

The others were met in reading the code for the models:

9. Where the executor does know the id, `cancel` ends the order without running its handle's
   callbacks, and the exchange's own message is dropped afterwards
   (`order/order-coordinator.ts:124`).
10. A wait for a token that takes too long makes `ClobExecutor.submit` reject rather than
    return an error (`execution/clob-executor.ts:71`): no retry, and a coordinator's order
    stays as created.
11. Subscriptions made before `WsManager.connect()` are never sent (`websocket/ws-manager.ts:90`),
    though the guide subscribes first.
12. Pausing and resuming during the warm-up skips the rest of it
    (`lifecycle/state-machine.ts:152`).
13. Every exit order is priced at the spot of the "yes" side (`strategy/built-strategy.ts:476`),
    also for a position in "no", while the policies judge it by its own side's bid.
14. Nothing calls `updateMark` (`position/sdk-position.ts:121`), so the trailing stop of a
    position is a stop-loss below its entry.
15. `CostBasis` (`position/cost-basis.ts:37`) has no operation that takes a fill out: it is no FIFO.
16. The rollback of an arbitrage only cancels (`market/arbitrage-executor.ts:163`): a filled first
    leg stays as an open position.
17. The short branch of `checkArbitrage` (`market/arbitrage.ts:43`) is unreachable (`NeverShort`).
18. A filled order stays among the paper executor's active ones (`execution/paper-executor.ts:115`)
    until it is swept, as cancelled.
19. Live orders are matched to desired ones by the order they are listed in
    (`order/order-differ.ts:46`), so the actions are not always the fewest.
20. The freshness "with 5-minute half-life" falls to 37 % in five minutes
    (`market/market-scanner.ts:92`).
21. Handlers of "*" run after those of the type whichever registered first
    (`events/event-dispatcher.ts:48`).
22. `longTerm()`, "wider stops", takes the conservative exits (`strategy/presets.ts:49`).
23. MACD with fast > slow throws where its comment promises null (`analytics/trend-indicators.ts:93`).
24. `close()` during a handshake, the owner's or another `reconnect()`'s, leaves the promise of
    `connect()` unsettled (`lib/websocket/client.ts:70`; `Abandoned` in `WsManager`).
25. An entry filled for a market that has a position is in no book (`strategy/built-strategy.ts:410`;
    `unbooked` in `Trading`).
26. The circuit breaker never reads its `maxDrawdownPct` (`risk/guards/circuit-breaker.ts:33`).

## 7. Plan

Built, most important behaviour first: the life of an order, the tick loop, the connection, the
journal, the submission; then guards, positions and exits composed in `Trading`; the services; the
algorithms. Proved: the tracker and its refinement, the tick loop, the submission and its
refinement, the cache, the arbitrage's rollback; then the journal, the connection and the order
flow; then the ledger, the limits on entries, the presets and the reconciliation of `Trading`; then the
arbitrage on paper, the dispatcher, the feeds and the cost of orders on their books; then the candles,
the check for an arbitrage, the rebalancer, the choice of markets, the difference of orders and the
queue; last the ranges of the oscillators. What is left is proof:

1. `IndicatorsConsistent`, from the lemmas about folds and fractions in `AlgorithmProofs`.

Abstract specifications still worth stating: a journal as an append-only sequence with a lost
suffix, implemented by `FileJournal`; a connection as a sequence of generations, implemented by
`WsManager`.

## 8. What is not modelled, and why

`PROJECT.json` lists every component with its status. Left out for good:

* Numerical code over floating point: pricing, sizing, smart money, correlation, price history,
  microstructure, the latency histogram. Logarithms, roots and regressions have no exact small
  instances; the indicators, which are rational, are modelled.
* The two detectors: formulas over the context. `Trading` lets them propose anything.
* The market catalog and the categorization by keywords: searches of fetched lists.
* CTF operations and the mempool monitor: blockchain calls and decoding. The monitor's
  reconnection is an interface; the handlers it adds at each connect are a listed hazard.
* The idempotency guard: a set of keys that no other module consults, so what happens when a
  submission fails after its intent was marked is not in the source.
* The memory journal: a bounded list in memory.
* HTTP client, the manager of several rate limiters, configuration, credentials, value types and
  wrappers of libraries: no state of their own that matters here.
* The backtest engine and the terminal UI: replay through the tick loop already modelled, and
  rendering.
