---------------------------- MODULE OrderOutbox -----------------------------
(***************************************************************************)
(* The pipeline as a whole: clients, relays, stage runners, the bus, the   *)
(* status watcher, and the faults, on any number of instances that share   *)
(* one Postgres and one Redis.                                             *)
(***************************************************************************)
EXTENDS OrdersService, OutboxRelay, StageRunner, OrderStatus

Relay(i) == ClaimBatch(i) \/ MarkProcessed(i)

Run(t) == Claim(t) \/ AnnounceStarted(t) \/ RecordCompleted(t) \/ FailTransaction(t)
          \/ PublishOutcome(t)

Watch(j) ==
    \/ \E frame \in inbox[j] : RecomputeFulfilled(j, frame)
    \/ \E frame \in rechecks[j] : RecomputeFailed(j, frame)

Recover(j) == Resubscribe(j) \/ Boot(j)

RunFaults(t) == PublishRejected(t) \/ PublishReplyLost(t) \/ QueryFails(t) \/ ReplyLost(t)

InstanceFaults(i) ==
    \/ CommitFails(i) \/ DropSubscriber(i) \/ Crash(i)
    \/ \E frame \in inbox[i] \cup rechecks[i] : RecomputeError(i, frame)

Next ==
    \/ \E i \in Instances :
         \/ \E o \in Orders : CreateOrder(i, o)
         \/ Relay(i) \/ Watch(i) \/ Recover(i) \/ InstanceFaults(i)
    \/ \E t \in tasks : Run(t) \/ RunFaults(t)
    \/ \E row \in outbox : BackoffElapses(row)
    \/ RedisStops \/ RedisStarts

Spec == Init /\ [][Next]_vars

\* The calls that one handler of an instance has in progress for an order.
Calls(i, o, s) == {t \in tasks : t.at = i /\ t.order = o /\ t.stage = s}

\* What the scheduling of the code justifies: the interval fires again after
\* every tick, a transaction and a statement come to an end, the event loop runs
\* every continuation, time passes, ioredis keeps reconnecting, and compose
\* restarts a process that died.  No client has to place an order, no fault has
\* to happen, and nothing makes Redis come back.
Fairness ==
    /\ \A i \in Instances : WF_vars(Relay(i)) /\ WF_vars(Watch(i)) /\ WF_vars(Recover(i))
    /\ \A o \in Orders :
         /\ \A i \in Instances, s \in Stages : WF_vars(\E t \in Calls(i, o, s) : Run(t))
         /\ WF_vars(\E row \in outbox : row.order = o /\ BackoffElapses(row))

FairSpec == Spec /\ Fairness

-----------------------------------------------------------------------------

Has(o, s, a, status) == EventOf(o, s, a, status) \in events

\* The attempts of a stage that some call has claimed and not yet recorded.
Running(o, s) == {t \in tasks : t.order = o /\ t.stage = s /\ t.pc \in {"announce", "work"}}

\* A stage is worked on by at most one call at a time, on any instance, and by
\* the attempt that its failures make current: the claim (stage-runner 72-82)
\* absorbs what an at-least-once relay delivers twice.
OneAttemptAtATime ==
    \A o \in Orders, s \in Stages :
      /\ \A t, u \in Running(o, s) : t = u
      /\ \A t \in Running(o, s) :
           /\ t.attempt = retryCount[o][s] + 1
           /\ <<o, s>> \notin deadLettered
           /\ ~Has(o, s, t.attempt, "completed")

\* A stage completes at most once, never after it was dead-lettered, and no
\* attempt has two outcomes (operations.md:118).
OneOutcome ==
    \A e, f \in events :
      (e.order = f.order /\ e.stage = f.stage /\ e.status = "completed") =>
        /\ <<e.order, e.stage>> \notin deadLettered
        /\ f.status = "completed" => f = e
        /\ f.attempt <= e.attempt
        /\ f.status = "failed" => f.attempt < e.attempt

\* stage_retries agrees with the history although no constraint ties them: the
\* counter counts the failed rows, which are attempts 1 to retryCount, and the
\* pair is dead-lettered exactly at MaxRetries.
RetryAccounting ==
    \A o \in Orders, s \in Stages :
      /\ {a \in {e.attempt : e \in events} : Has(o, s, a, "failed")} = 1..retryCount[o][s]
      /\ retryCount[o][s] <= MaxRetries
      /\ <<o, s>> \in deadLettered <=> retryCount[o][s] = MaxRetries

\* The status a client reads is the truth about the stages.  In particular a
\* fulfilled order has no attempt still running anywhere.
StatusTruthful ==
    \A o \in Orders :
      /\ orders[o] = "fulfilled" =>
           \A s \in Stages : /\ s \in CompletedStages(o) /\ s \notin DeadStages(o)
                             /\ Running(o, s) = {}
      /\ orders[o] = "failed" => DeadStages(o) # {} /\ CompletedStages(o) # Stages
      /\ orders[o] = "absent" => \A e \in events : e.order # o

\* A failure that is not the last has queued its successor in the same commit
\* (stage-runner 86-117), so a crash cannot separate the two.
FailureHasSuccessor ==
    \A e \in events :
      (e.status = "failed" /\ e.attempt < MaxRetries) =>
        [order |-> e.order, stage |-> e.stage, attempt |-> e.attempt + 1] \in outbox

\* A started row with neither an outcome nor a call that will record one.
Lost(e) ==
    /\ e \in events /\ e.status = "started"
    /\ ~Has(e.order, e.stage, e.attempt, "completed")
    /\ ~Has(e.order, e.stage, e.attempt, "failed")
    /\ \A t \in Running(e.order, e.stage) : t.attempt # e.attempt

\* A lost attempt stays lost (data-flow.md:86): no duplicate delivery and no
\* restart takes it up again, so its stage never gets another event.
LostStaysLost ==
    [][\A e \in events : Lost(e) =>
         /\ Lost(e)'
         /\ {f \in events' : f.order = e.order /\ f.stage = e.stage}
              = {f \in events : f.order = e.order /\ f.stage = e.stage}]_vars

\* Refinement.
Phase(o, s) ==
    IF <<o, s>> \in deadLettered THEN "dead"
    ELSE IF s \in CompletedStages(o) THEN "completed"
    ELSE IF Has(o, s, retryCount[o][s] + 1, "started") THEN "running"
    ELSE "waiting"

Lifecycle ==
    INSTANCE OrderLifecycle
      WITH status <- orders,
           phase <- [o \in Orders |-> [s \in Stages |-> Phase(o, s)]],
           failures <- retryCount

\* Under every fault, what clients see of orders and stages is a behaviour of
\* the abstract lifecycle.
ImplementsLifecycle == Lifecycle!Spec

Table ==
    INSTANCE OutboxTable WITH inserted <- outbox, held <- batch

\* Under every fault, what the relays and the stages do to the outbox is a
\* behaviour of the abstract table: rows are marked by the one who holds them
\* (outbox-relay 56-88), and no duplicate delivery queues a retry a second time.
ImplementsTable == Table!Spec

\* So no two ticks, on whatever instances, emit a row that neither has let go of
\* (FOR UPDATE SKIP LOCKED, outbox-relay 63-65), and none emits a processed one.
RowsHeldAlone == Table!HeldAlone

-----------------------------------------------------------------------------
(* The inductive strengthening of the invariants above.                     *)

Count(o, s) == retryCount[o][s]

\* Failures are the attempts up to the counter, a completion is the one after
\* them, an outcome has a started row, and no attempt goes beyond MaxRetries.
HistoryInv ==
    \A e \in events :
      /\ orders[e.order] # "absent"
      /\ e.attempt <= Count(e.order, e.stage) + 1 /\ e.attempt <= MaxRetries
      /\ e.status = "failed" => e.attempt <= Count(e.order, e.stage)
      /\ e.status = "completed" => e.attempt = Count(e.order, e.stage) + 1
      /\ Has(e.order, e.stage, e.attempt, "started")

CounterInv ==
    \A o \in Orders, s \in Stages :
      /\ Count(o, s) <= MaxRetries
      /\ <<o, s>> \in deadLettered <=> Count(o, s) = MaxRetries
      /\ \A a \in 1..Count(o, s) : Has(o, s, a, "failed")

\* No row is for an attempt that is not yet due to be made.
RowInv ==
    \A row \in outbox :
      /\ orders[row.order] # "absent"
      /\ row.stage = NoStage => row.attempt = 1
      /\ row.stage # NoStage => /\ row.attempt <= Count(row.order, row.stage) + 1
                                /\ row.attempt <= MaxRetries

\* Nor is a call, and one that has its claim makes the attempt after the
\* failures so far, alone.
TaskInv ==
    \A t \in tasks :
      /\ orders[t.order] # "absent"
      /\ t.attempt <= Count(t.order, t.stage) + 1 /\ t.attempt <= MaxRetries
      /\ t.pc \in {"announce", "work"} =>
           /\ t.attempt = Count(t.order, t.stage) + 1
           /\ Has(t.order, t.stage, t.attempt, "started")
           /\ ~Has(t.order, t.stage, t.attempt, "completed")
           /\ \A u \in tasks :
                (u.order = t.order /\ u.stage = t.stage /\ u.pc \in {"announce", "work"}) => u = t

StatusInv ==
    \A o \in Orders :
      /\ orders[o] = "fulfilled" => AllCompleted(o)
      /\ orders[o] = "failed" => DeadStages(o) # {}

\* What every reachable state satisfies and every step preserves.
AttemptInv == HistoryInv /\ CounterInv /\ RowInv /\ TaskInv /\ StatusInv /\ FailureHasSuccessor

-----------------------------------------------------------------------------
(* Nothing is forgotten.  Of a stage, as long as no instance and no         *)
(* statement fails, whatever happens to Redis and to relay transactions; of *)
(* an order, as long as no frame is lost either.                            *)

\* Work that will still reach a stage: an unprocessed row for it, or a call.
Pending(o, s) ==
    \/ \E row \in outbox \ processed : row.order = o /\ s \in HandlersOf(row)
    \/ \E t \in tasks : t.order = o /\ t.stage = s /\ t.pc \in {"claim", "announce", "work"}

\* Every stage of a placed order has completed, is dead, or has work coming,
\* at every point between the emit, the failed commit, the duplicate and the
\* retry (outbox-relay 54-88).
NoStageForgotten ==
    \A o \in Orders, s \in Stages :
      orders[o] # "absent" =>
        s \in CompletedStages(o) \/ <<o, s>> \in deadLettered \/ Pending(o, s)

\* A call or a frame that will still make some instance recompute the order.
WakeUp(o) ==
    \/ \E t \in tasks : t.order = o /\ t.pc \in {"completed", "failed"}
    \/ \E j \in Instances : \E frame \in inbox[j] : frame.order = o

\* An order whose stages have decided it, but whose status is still pending,
\* has a wake-up on its way: publishing only after the commit is what makes it
\* so (stage-runner 119-123), as nothing else ever looks at the order again.
NoOrderForgotten ==
    \A o \in Orders :
      orders[o] = "pending" =>
        /\ AllCompleted(o) => WakeUp(o)
        /\ DeadStages(o) # {} =>
             WakeUp(o) \/ \E j \in Instances : \E frame \in rechecks[j] : frame.order = o

\* Nothing is under way for an order any more.
Quiet(o) ==
    /\ \A t \in tasks : t.order # o
    /\ \A row \in outbox \ processed : row.order # o
    /\ \A j \in Instances : \A frame \in inbox[j] \cup rechecks[j] : frame.order # o

\* An order comes to rest only when it is settled: whatever the outbox, the calls
\* and the frames pass on between them, what leaves one is taken up by the next.
RestsSettled == \A o \in Orders : Quiet(o) => orders[o] # "pending"

\* The inductive strengthening of NoStageForgotten.  An attempt is served when it
\* has its outcome or a call that will record one.
Served(o, s, a) ==
    \/ Has(o, s, a, "completed") \/ Has(o, s, a, "failed")
    \/ \E t \in tasks : /\ t.order = o /\ t.stage = s /\ t.attempt = a
                        /\ t.pc \in {"claim", "announce", "work"}

\* Whatever a tick has locked or marked has been emitted, and every stage it was
\* emitted to is served, so marking it drops nothing; and a started row, which
\* makes every later call for its attempt return, has a call behind it.
NothingDropped ==
    /\ \A o \in Orders :
         orders[o] # "absent" =>
           [order |-> o, stage |-> NoStage, attempt |-> FIRST_ATTEMPT] \in outbox
    /\ \A row \in processed \cup Locked :
         \A s \in HandlersOf(row) : Served(row.order, s, row.attempt)
    /\ \A e \in events : ~Lost(e)

\* Every order placed is settled in the end.
EventuallySettled ==
    \A o \in Orders : orders[o] = "pending" ~> orders[o] \in {"fulfilled", "failed"}

\* Whatever fails or crashes while rows are emitted, none of them stays behind:
\* the rollback of the dead instance's transaction, or of the failed commit, and
\* SKIP LOCKED leave the row to whoever polls next (outbox-relay 60-66).  Redis
\* has to come back, because an instance boots only when it has subscribed.
EveryRowProcessed ==
    []<>redisUp => \A o \in Orders : []<>(\A row \in outbox : row.order = o => row \in processed)

-----------------------------------------------------------------------------
(* What the repository says and the code does not do.                       *)

\* stage-runner.service.ts:162-163 and architecture.md:42-43: a frame that is
\* not published or not delivered costs a frame on the dashboard and nothing
\* more.  So an order that its stages have decided does not come to rest pending.
OnlyAFrame ==
    \A o \in Orders :
      (Quiet(o) /\ (AllCompleted(o) \/ DeadStages(o) # {})) => orders[o] # "pending"

\* operations.md:136 and the message of StageRunner.run (37-39): when an attempt
\* aborts, its outbox row is already marked processed.
AbortsOnlyProcessed ==
    [][\A t \in tasks : (QueryFails(t) \/ ReplyLost(t)) =>
         \E row \in processed :
           row.order = t.order /\ row.attempt = t.attempt /\ t.stage \in HandlersOf(row)]_vars

\* event-bus-health.indicator.ts:6-10: with the event bus down the app still
\* writes rows.  So every stage of an order is decided, Redis or no Redis.
StagesDecided ==
    \A o \in Orders, s \in Stages :
      orders[o] = "pending" ~> (s \in CompletedStages(o) \/ <<o, s>> \in deadLettered)

=============================================================================
