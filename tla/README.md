# Formal models of order-outbox-lab

TLA+ models of the order pipeline (NestJS instances, Postgres, Redis, a browser dashboard),
TLC runs that check them on small instances, and TLAPS proofs about them for instances of any
size. Paths are relative to the repository root; `app/` below stands for `src/` of the
repository.

## 1. The system

| Component | State | Operations | Talks to |
|---|---|---|---|
| Orders API (`orders.service.ts`) | rows of `orders` | create (order and outbox row in one transaction), list | Postgres |
| Outbox relay (`outbox-relay.service.ts`) | `running` flag, row locks of its transaction | a tick every 2 s: lock due rows with SKIP LOCKED, emit each, mark, commit | Postgres, the stage handlers of its own process through EventEmitter2 |
| Stage runner (`stage-runner.service.ts`, one handler per stage) | calls in progress | claim, announce, work, record completion, or the failure transaction; publish | Postgres, event bus |
| Event bus (`redis-event-bus.ts`, `stage-events.service.ts`) | two Redis connections, handler map, an rxjs Subject | publish, subscribe, dispatch, ping | Redis, watcher, SSE clients |
| Status watcher (`order-status.service.ts`) | none | two UPDATEs per settled frame, on every instance | Postgres |
| History and stream endpoints | none | hydrate, stream | Postgres, event bus |
| Dashboard (`public/js`) | selection, EventSource, timeline, sidebar | select, refresh, append a row | the HTTP endpoints through nginx |
| Health check (`health.controller.ts`) | none | a ping of the bus, raced against a deadline | the bus's publisher connection |
| Postgres pool (`database-options.ts`, pg) | connections, a queue of waiters | connect, release | everything above that runs SQL |
| Load generator (`generate.ts`) | a loop counter and a tally | burst, steady | the HTTP API |
| Migrator, configuration, nginx, dead letters API, query DTOs | - | see `PROJECT.json` | - |

What is hard about it:

* **At-least-once emission.** Rows are emitted *inside* the transaction that marks them. The
  stages of a row already run while the row is only locked, and if the commit fails the row is
  emitted again, by any instance. Only the unique key of `order_stage_events` absorbs that.
* **Three tables, one truth.** `order_stage_events`, `stage_retries` and `outbox` each say how
  far a stage is; no constraint ties them together, only the order of the statements does.
* **Settlement by notification.** No stage knows whether the order is finished. A frame on
  Redis pub/sub wakes every instance, which looks in Postgres. The frame can be lost, overtaken,
  duplicated or blocked, and nothing else ever looks at the order again.
* **A backlog.** A tick takes 50 rows at most, two or more pollers share the table, and
  `created_at` is the start of the inserting transaction, so rows become visible out of order.
* **A connection that breaks.** The publisher sends again what has no reply, behind the caller's
  back; a subscriber that is away for a moment misses what was said.
* **One pool.** Requests, ticks, attempts and recomputes share ten connections and wait for one
  without a time limit.
* **Awaits.** Between any two steps of an attempt, of a recompute or of a click, everything else
  moves; a process can die there, and a reply can be lost although its statement took effect.

What makes each component correct: the relay loses no row and every row is processed; a stage
is worked on by one call at a time and has one fate; the retry counter agrees with the history;
the status of an order tells the truth and is eventually given; a publish that resolved has reached
every listener; a call that waits for a connection gets one; the dashboard shows the order that is
selected; the load generator accounts for every order it was asked for.

## 2. The modules

| Module | Models | State it changes |
|---|---|---|
| `Pipeline` | the tables, the bus, the memory of the instances; types, initial state, `Fault` | all declared here |
| `OrdersService` | `create` | orders, outbox |
| `OutboxRelay` | `poll`, `claimAndEmit` as `ClaimBatch`, `MarkProcessed`, `CommitFails`; `available_at` as `BackoffElapses` | batch, processed, tasks, due |
| `StageEvents` | `publish`/`settled` as `Broadcast`; Redis, subscriber connections, crash and boot | redisUp, subscribed, inbox, alive |
| `StageRunner` | one call of `run`: `Claim`, `AnnounceStarted`, `RecordCompleted`, `FailTransaction`, `PublishOutcome` and their failures | tasks, events, retryCount, deadLettered, outbox |
| `OrderStatus` | `recompute`: `RecomputeFulfilled`, `RecomputeFailed`, `RecomputeError` | orders, inbox, rechecks |
| `OrderOutbox` | the composition, fairness, and every property of the pipeline | - |
| `OrderLifecycle` | the abstract specification: what clients are promised of an order and its stages | status, phase, failures |
| `OutboxTable` | the abstract specification of the outbox: rows inserted once, handed to one relay at a time, marked by it or let go | inserted, due, processed, held |
| `RelayBacklog` | the rows in their order of creation, and which of them a full batch takes | older, state, batch |
| `EventBus` | `RedisEventBus` between a call and its reply: the publisher's queue, sockets, dispatch, reconnection, the health check's ping | its own |
| `ConnectionPool` | who asks for, holds and gives back a Postgres connection, and what is awaited meanwhile | pc, waiting, held, free |
| `LoadGenerator` | `generate.ts`: argument checks, batches, answers, summary | its own |
| `Dashboard` | one browser tab with the two endpoints it reads | its own |
| `MCOrderOutbox`, `MCDashboard` | symmetry sets for TLC | - |
| `OrderOutboxProofs`, `LifecycleProofs`, `ForgottenProofs` | theorems about the pipeline | - |
| `RelayBacklogProofs`, `EventBusProofs`, `ConnectionPoolProofs`, `DashboardProofs`, `LoadGeneratorProofs` | theorems about the module they are named after | - |

`OrderOutbox` extends the modules of the six parts, which share the variables of `Pipeline`. The
other specifications stand alone. Three of them look closer at one step of the pipeline:
`RelayBacklog` into the rows that `ClaimBatch` chooses freely, `EventBus` into the
single step that `Broadcast` makes of a PUBLISH, `ConnectionPool` into the statements of all parts.

### The pipeline

`outbox`, `processed` and `due` are the table `outbox` with its two
conditions; `events` is `order_stage_events`, a *set* of records because of `uq_stage_attempt` and
`ON CONFLICT DO NOTHING`; `retryCount` and `deadLettered` are `stage_retries`; `batch[i]` is the
set of rows locked by the open transaction of instance `i`, and `batch[i] = {}` is
`running = false`; a task is a call of `StageRunner.run` whose `pc` names its next step; `inbox[j]`
holds the frames for which instance `j` has yet to issue the first UPDATE of `recompute`, and
`rechecks[j]` those for which it has yet to issue the second.

Every action is one statement, transaction, publish or synchronous stretch of JavaScript, because
those are the units that nothing can interleave with. A connection that breaks gives two
actions: `QueryFails` (nothing happened) and `ReplyLost` (Postgres did it, the caller threw).

Abstractions, all of which add behaviours unless noted:

* Time: a tick, a backoff or the simulated work may take arbitrarily long; which attempts
  fail is free.
* A batch is any non-empty set of due rows up to the limit: ORDER BY is left to `RelayBacklog`.
* Two calls of one instance that are equal and both still wait for their claim are one element of
  `tasks` (this one *removes* behaviours: if the insert of one of them fails, the other's is not
  tried; a duplicate on another instance, or one whose original has its claim, is separate).
* `started` frames reach no inbox: the watcher filters them out. SSE clients are in `Dashboard`.
* Requests that are refused change nothing and are not actions.
* A graceful shutdown (`enableShutdownHooks`, `onModuleDestroy`) is publishes that are rejected, then a crash.

### The others

* `RelayBacklog`. `older` orders the unprocessed rows by `created_at`, rows of transactions still
  under way included (`Begin` is where now() is taken, `Commit` where the row appears, after younger
  ones perhaps). A row that is processed gives its identity to the next one, so the load never ends with
  finitely many identities. `Oldest` is ORDER BY, LIMIT and SKIP LOCKED. `passed` counts, for the property
  `BoundedWait` only, the batches that left a due row behind, and stops out of that property's reach.
* `EventBus`. `commands` is what ioredis holds for the publisher: commands without a reply, in order,
  sent (`executed` of them ran on this connection) or queued. A broken connection sets `executed` to 0 and keeps
  `commands`, which is `autoResendUnfulfilledCommands` with `maxRetriesPerRequest: null`. Frames travel in
  one `socket` per subscriber, of which a broken connection loses any end. An attempt awaits its started frame and then its
  outcome; a failed outcome travels like a completed one. A `probe` is a GET /health: its PING joins the same
  queue and stays there when the deadline fires. `steady` belongs to the property `ReachesTheSteady`: the subscribers without
  a gap since the call of publish.
* `ConnectionPool`. `waiting` is pg-pool's queue, first come first served, without
  a time limit. A transaction is one statement name that is held until it ends; only that of `fail` has
  two places (`"fail"`, `"count"`), because `record` and `enqueueOutbox` are passed its manager. Outcomes are free.
* `LoadGenerator`. Numbers are counted in halves so that a fractional concurrency, which `readArgs` accepts,
  can be told from a whole one; `Floor` is what `Array.from({length})` makes of it.
* `Dashboard`. `calls` are hydrations in flight, tagged with the click that made them; `streams` the EventSources, of
  which `state.source` knows one, each `at` the instance that serves it, or nowhere yet; `polls` the sidebar requests, each
  with the selection it started with. A PUBLISH puts a frame into `transit` for each instance in `subscribed`, and may be executed
  again when its reply is lost (`published` counts); frames arrive in any order, and a subscriber or a stream that breaks
  takes those on it with it. An instance without its subscriber keeps its streams open and silent. `overlapped` and `missed`
  belong to the properties: `missed` are the rows the page was deaf to. `Busy` bounds the model: rows are written for these
  orders only.

## 3. Runs and bounds

| Run | Shows | Instance |
|---|---|---|
| `attempts` | `TypeOK`, `OneAttemptAtATime`, `RetryAccounting`, `FailureHasSuccessor`, `AttemptInv`, `RowsHeldAlone`, `LostStaysLost`, `ImplementsTable` | 1 order, 1 stage, 2 instances, MaxRetries 2, all five kinds of fault, 3 of them |
| `fan_out` | `OneOutcome`, `StatusTruthful`, `ImplementsLifecycle`, `EveryRowProcessed` | 2 stages, 2 instances, MaxRetries 1, BatchSize 1, any 2 faults |
| `settles` | `NoStageForgotten`, `NothingDropped`, `NoOrderForgotten`, `RestsSettled`, `EventuallySettled` | 2 stages, 1 instance, MaxRetries 2, BatchSize 1, 1 failed commit |
| `relay_backlog` | `TypeOK`, `BoundedWait`, `NeverStarved` | 3 row identities, 2 instances, BatchSize 1, 2 failed ticks |
| `event_bus` | `TypeOK`, `OutcomeLast`, `ReachesTheSteady`, `ProbesEnd`, `PublishesResolve` | 1 attempt, 2 subscribers, 1 probe, 2 faults |
| `pool` | `TypeOK`, `NoLeak`, `NoneHeldAcrossAwaits`, `EveryoneServed` | 1 request, the relay, 2 attempts, 1 recompute, 2 connections |
| `dashboard` | `TypeOK`, `OneOrderShown`, `ShownPerCopy`, `MissesOnlyTheGap`, `LastClickLives`, `HighlightSettles` | 2 orders, 1 row for one of them, 2 instances, 2 clicks, 1 error |
| `load_generator` | `TypeOK`, `AllSent`, `NeverMore`, `Terminates` | arguments 0 to 5 with halves, and NaN |

Why this is enough. Orders do not interact except through the batch, so one order exercises every
transition. Two instances give every race between a call and its duplicate. Two stages give
"one completed, one dead". Two attempts give a retry that races a duplicate of its predecessor,
and both outcomes of the policy (`MAX_RETRIES` is 3; the third attempt repeats the step from the first to the second).
Three faults allow a failed commit, a crash of the first holder and a
lost reply in one behaviour. In `settles` one instance is the hard case: no other one can supply the wake-up, and with
BatchSize 1 one retry row waits behind the other. In `relay_backlog` three rows over two pollers with batches
of one leave a due row unlocked while both pollers are busy. In `pool` five calls want two connections, so each of them
waits behind a full pool. In `dashboard` one error is a PUBLISH sent again, a dropped
subscriber, a broken stream, which may be opened again on the instance that is behind, or a failed request; two errors pass
as well, in more time. In `event_bus` two faults break the connection under a command that was already sent again. Most safety
properties are proved for all values in section 5; the bounds matter for the rest. Orders, stages and instances are
interchangeable, so `attempts` uses symmetry; `fan_out` and the other runs with liveness do not. `CHECK_DEADLOCK FALSE` is set where
finitely many orders, attempts or arguments really come to rest: the pipeline, `EventBus`, `LoadGenerator`.

**Fairness.**

* `OrderOutbox`: weak fairness for a relay (the interval fires after every tick, and a
  transaction ends), for the calls of a handler and the recomputes of an instance (the event loop
  runs every continuation), for the backoff (time passes) and for reconnection and restart (ioredis
  reconnects by itself; docker-compose has `restart: unless-stopped`). A publish is enabled only while Redis is up.
* `RelayBacklog`: each instance's tick and its commit, and the backoff. No transaction that inserts a row has to commit, or even end.
* `EventBus`: sent commands are executed and answered, the publisher reconnects when Redis is there, the deadline
  fires. Deliveries and subscribers' reconnections are not needed by any property and not assumed.
* `ConnectionPool`: the pool serves its queue, and a call that has a connection goes on (Postgres answers). Nothing else: a
  publish may wait for ever.
* `LoadGenerator`: `WF(Next)`; fetch gives up on an answer that does not come.
* `Dashboard`: the poll interval, and polls are answered; hydrations and streams need not be.

Placing an order, clicks and faults are never fair, and *nothing* obliges Redis to come back.

`EventuallySettled`, `NoOrderForgotten` and `RestsSettled` are claimed under failed relay commits only. Any lost frame,
lost statement or crash can leave an order pending; that is documented for lost attempts, and for
frames it is the first finding below. `EveryRowProcessed` is claimed under every fault, crashes of an instance that holds
the row included: nothing but the relays is needed for it, and the rollback gives the row back. It does assume that Redis answers
again and again (`[]<>redisUp`), since an instance awaits its SUBSCRIBE before it starts polling. `NoStageForgotten` and `NothingDropped` do not depend on frames; they are
checked in the same run and proved under rejected publishes and Redis outages as well, on any number of instances. What a crash may lose is not
the row but the calls it started: a row that was marked, and whose handlers had not inserted their started rows, has left no trace,
and the code does not bring its stages back. No property says otherwise. `NeverStarved` of `RelayBacklog` adds that the
row's turn comes however many others arrive.

## 4. What the code does not do

Four runs look for a violation of something the repository says, and find it.

* `frame_lost` (`OnlyAFrame`): the comment at `app/modules/stages/services/stage-runner.service.ts:162`
  and `docs/architecture.md:42` say that a lost message costs a dashboard frame. It can cost the order its
  status: the frame is the only thing that makes the watcher look. TLC's trace is a rejected
  PUBLISH of the only stage's outcome; with `FaultKinds = {"redis"}` it is a Redis restart after which the publisher is back
  before the subscribers.
* `aborted_row` (`AbortsOnlyProcessed`): `StageRunner.run` logs that the outbox row of an aborted attempt is
  already processed. The claim's INSERT can fail before the relay has committed.
* `redis_down` (`StagesDecided`): with Redis down an attempt waits at the publish of its started frame, so no
  stage completes or fails, while `event-bus-health.indicator.ts` says the app still writes rows.
* `dashboard_race` (`TimelineOfSelected`): `select` ignores the current selection after its await; a click
  during a hydration mixes two orders and leaks a stream until the page is reloaded.

Noted on the way, contradicted by nothing in the repository: `burst 10 1.5` is accepted and sends 7 orders, because
`Array.from` truncates each batch while the loop advances by 1.5. `AllSent` is therefore claimed for whole numbers only, `NeverMore`
for all.

## 5. Proofs

All theorems hold for every value of the constants and use only the modules' named assumptions.

**The pipeline**: every set of orders, stages and instances, every `MaxRetries`, `BatchSize`
and `MaxFaults`, and, except in `ForgottenProofs`, every combination of faults. The assumptions on `FaultKinds` there are the fault
models under which the properties are true; TLC's findings show that `OrdersKept` and `OrdersRestSettled` need theirs.

| Theorem | States |
|---|---|
| `TypeCorrect` | `Spec => []TypeOK` |
| `AttemptsCorrect` | `Spec => []AttemptInv`, the inductive invariant |
| `AtMostOneAttempt` | `Spec => []OneAttemptAtATime` |
| `AtMostOneOutcome` | `Spec => []OneOutcome` |
| `RetriesQueued` | `Spec => []FailureHasSuccessor` |
| `CountersTruthful` | `Spec => []RetryAccounting` |
| `StatusCorrect` | `Spec => []StatusTruthful` |
| `LostIsFinal` | `Spec => LostStaysLost` |
| `LifecycleImplemented` | `Spec => ImplementsLifecycle`, the refinement |
| `TableImplemented` | `Spec => ImplementsTable`, the refinement of the outbox |
| `HeldByOneRelay` | `Spec => []RowsHeldAlone`, from the refinement and the abstract table |
| `RelayDropsNothing` | `Spec => []NothingDropped`, if `FaultKinds \subseteq {"commit", "publish", "redis"}` |
| `StagesKept` | `Spec => []NoStageForgotten`, likewise |
| `OrdersKept` | `Spec => []NoOrderForgotten`, if `FaultKinds \subseteq {"commit"}` |
| `OrdersRestSettled` | `Spec => []RestsSettled`, likewise |

None of the properties is inductive: that a claim can only succeed for the
*current* attempt depends on what rows and waiting calls may carry, and on every failed attempt having
its started row. `AttemptInv` says so:

* `HistoryInv`: failures are attempts up to the counter, a completion is the one after them, no attempt
  exceeds `MaxRetries`, and every outcome has a started row;
* `CounterInv`: attempts 1 to the counter have all failed, and dead-lettered means the counter is `MaxRetries`;
* `RowInv`, `TaskInv`: no row and no call is ahead of the counter by more than one, and a call that has its claim
  makes exactly the attempt after the counter, alone;
* `StatusInv`, `FailureHasSuccessor`.

A step changes what `AttemptInv` speaks of in one of a few ways, and each has a lemma: `StartedStep`
(a duplicate of an older attempt finds its started row, so a successful claim is for counter + 1, and no other call
has it), `CompletedStep` and `FailedStep` (the call is the only one at work, so the counter may advance past it),
`ClaimBatchStep`, `CreateStep`, `SettleStep`, and `QuietStep` for everything that only ends calls: crashes, failed
queries, publishes, the relay's commit, the bus. `ReplyLost` is covered by the first three, since they do not care
whether the call goes on. TLC checks `AttemptInv` in the run `attempts`.

`LostIsFinal` is an action property: a lost attempt is the counter + 1 (earlier ones have failed), so every started
row that a waiting call of the stage could insert is there, and no call of the stage is at work.

`LifecycleProofs` maps the phase of a stage to its dead letter, its completed row and the started row of its current
attempt. A new started row is a Start, because `AttemptInv` makes it the current attempt's; the completed row is a
Complete and the failure transaction a Fail, because a call at work is the only one; the two UPDATEs of the watcher are
Fulfil and Reject. Every other step, faults included, leaves the three tables alone and so changes no phase (`QuietPhases`).

`TableImplemented` maps `outbox` to the rows inserted and `batch` to what each instance holds. The hard step is Insert, which
wants a row that is not there: `CreateOrder` writes the row of an order that is absent, and `RowInv` says that no row is of such
an order; the failure transaction writes the retry for attempt counter + 2, and `RowInv` bounds every row of the stage by
counter + 1. So no duplicate delivery queues a retry twice. A failed commit and a crash are LetGo. `HeldByOneRelay` is then
a theorem about `OutboxTable` alone (`TableHoldsAlone`), carried over by the refinement.

`ForgottenProofs` uses `NothingDropped`, which says nothing of Redis or of frames: what a tick has locked or marked has been
emitted, and for each of its stages there is an outcome or a call that will record one; and each started row has a call behind it, so a duplicate that returns
leaves another at work. With `CounterInv` and `FailureHasSuccessor`, the row of a stage's next attempt exists; it is unprocessed or
served, which is `NoStageForgotten`. `NoOrderForgotten` is inductive next to it: a call that decides an order has yet to
publish, publishes to some instance (`AllListening`: with these faults every instance stays alive and subscribed), and a frame is
spent only when both UPDATEs have looked. `RestsSettled` follows from the two: without rows, calls and frames, every stage is decided
(`NoStageForgotten`), so the order is, and no wake-up is left to excuse a pending status.

**The other modules.**

| Theorem | States | Inductive invariant |
|---|---|---|
| `TypeCorrect` | `[]TypeOK` of `RelayBacklog` | `HolderInv`: with it, that batches are disjoint |
| `WaitingIsBounded` | `[]BoundedWait` of `RelayBacklog` | `WaitInv`: the bound for every unprocessed row, locked, in backoff or uncommitted; `older` is a strict total order; no batch exceeds `BatchSize` |
| `CountIsExact` | a due row's `passed` stays below `MaxPassed`, so the model's cap never makes the bound true | the same |
| `TypeCorrect` | `[]TypeOK` of `EventBus` | `Links`: a connection is established only to a Redis that runs, and a command counts as executed only on a connection |
| `ResolvedIsDelivered` | `[]ReachesTheSteady` of `EventBus` | `BusInv`: a queued frame is the one its attempt awaits, once; steady subscribers are connected; what Redis has executed on this connection is delivered |
| `OutcomeIsLast` | `[]OutcomeLast` of `EventBus` | `OrderInv`: an outcome is on its way to a socket only once its attempt awaits it, when the started frame has left the queue for good |
| `TypeCorrect`, `NothingLeaks`, `HeldForPostgres` | `[]TypeOK`, `[]NoLeak`, `[]NoneHeldAcrossAwaits` of `ConnectionPool` | `PoolInv`: `TypeOK`, `NoLeak`, and a call that waits or holds is at a statement |
| `TypeCorrect` | `[]TypeOK` of `Dashboard` | `PageInv`: the timeline is a bag of rows, the streams are finitely many and every call is one that was made |
| `LastClickHonoured` | `[]LastClickLives` of `Dashboard` | `ClickInv`: `LastClickLives` with the types of requests and streams |
| `OneOrderOnly` | `[]OneOrderShown` of `Dashboard` | `ShownInv`: without overlap there is one hydration or one stream, of the selected order, and so are all rows it brought |
| `ShownOncePerCopy` | `[]ShownPerCopy` of `Dashboard` | `CountInv`: without overlap the table is empty during a hydration, and the times a row is shown and its copies under way are together covered by the copies handed out. `TwiceInv`: before the first error, a row shown twice has no copy left that the stream could take. Both with `BackInv`: a frame is broadcast again only after an error, and what is under way has been broadcast |
| `OnlyTheGap` | `[]MissesOnlyTheGap` of `Dashboard` | `GapInv`: published rows are written, so that a read has them, with `MissesOnlyTheGap` itself |
| `TypeCorrect`, `SendsAll`, `SendsNoMore` | the invariants of `LoadGenerator` | `IInv`: answers so far, in terms of the loop's counter, at each place of the loop |

How long a row waits is an account per row: each batch that passes over `r` takes `BatchSize` of the rows ahead of it (`PassedOver`,
from `RankRises` and `FirstOfCounts`, which say that the first n of a totally ordered set are n of them), so what `passed[r]` gains
`Ahead(r)` loses; a failed tick gives back at most `BatchSize` and is paid for by `faults`; a row that is created comes after `r`.
The account must hold for locked rows too, since a failed tick makes them wait again, and for rows not yet visible, which is where
a row that appears behind younger ones has its place.

Only model-checked: liveness (`EventuallySettled`, `EveryRowProcessed`, `NeverStarved`, `ProbesEnd`, `PublishesResolve`,
`EveryoneServed`, `HighlightSettles`, `Terminates`), because fairness and ENABLED are out of the prover's reach. Every invariant and
action property that a run passes is proved.

## 6. Plan

Done: the pipeline with its faults, its safety, its two refinements and what it does not forget, all proved; the choice of rows under load; the
event bus below the pipeline's single step; the connection pool; the health check's ping; the load generator; the
dashboard. Next, in order:

1. `StartupGate`: migrator, health checks and nginx of compose, that no request or poll meets a schema that is not there.
2. Liveness lemmas that are safety: for `NeverStarved`, that a due row leaves the backlog when as many batches
   have been marked as `BoundedWait` allows.

Not planned: a refinement of `Broadcast` by `EventBus`. `Broadcast` delivers to all subscribers in one step, sockets deliver one by
one, so the step would have to be taken before it is known which frames a breaking connection loses, which needs a prophecy variable. What the
pipeline relies on is stated directly: `ReachesTheSteady` and `OutcomeLast`, both proved.

## 7. Not modelled

* Reads that nothing in the program acts on: GET /orders, the dead letters API, the query DTOs, the limit and order of the history endpoint
  (the dashboard asks for neither).
* The migrator and the start-up gate of compose; environment parsing; the Postgres ping of the health check, which is a library's.
* What `parse-create-order` refuses (no state changes), malformed bus messages (`dispatch` drops them; no publisher here sends one).
* Contents: names, amounts, error texts, the audit columns, `stage_retries.last_error`, logging, formatting, the dead-letter list of the sidebar.
* nginx beyond "any instance may serve a request"; the cascade on deleting an order (no code deletes one).
* A POST of the load generator whose answer is lost counts as failed although the order may be stored: the summary counts
  answers, and whether an order was stored is not part of `LoadGenerator`.

That orders settle under Redis faults is not claimed because it does not hold.
