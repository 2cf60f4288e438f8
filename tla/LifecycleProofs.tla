--------------------------- MODULE LifecycleProofs ---------------------------
(***************************************************************************)
(* OrderOutbox implements OrderLifecycle and OutboxTable: under every      *)
(* fault, and for every set of orders, stages and instances, a step of the *)
(* pipeline is a step of the abstract lifecycle or changes nothing that    *)
(* clients can see, and a step of the abstract table or none on its rows.  *)
(***************************************************************************)
EXTENDS OrderOutboxProofs

\* What the refinement shows of the stages.
phases == [o \in Orders |-> [s \in Stages |-> Phase(o, s)]]

LEMMA PhasesType ==
  phases \in [Orders -> [Stages -> {"waiting", "running", "completed", "dead"}]]
BY DEF phases, Phase

LEMMA LifecycleInit == Init => Lifecycle!Init
<1> SUFFICES ASSUME Init PROVE Lifecycle!Init
  OBVIOUS
<1>1. ASSUME NEW o \in Orders, NEW s \in Stages PROVE Phase(o, s) = "waiting"
  BY DEF Init, Phase, CompletedStages, Has
<1> QED
  BY <1>1 DEF Init, Lifecycle!Init

\* The phase of a stage depends on its own events, counter and dead letter only.
LEMMA PhaseOfTables ==
  ASSUME NEW o, NEW s,
         retryCount'[o][s] = retryCount[o][s],
         <<o, s>> \in deadLettered' <=> <<o, s>> \in deadLettered,
         \A e : (e.order = o /\ e.stage = s) => (e \in events' <=> e \in events)
  PROVE  Phase(o, s)' = Phase(o, s)
<1>1. s \in CompletedStages(o)' <=> s \in CompletedStages(o)
  BY DEF CompletedStages
<1>2. \A a : Has(o, s, a, "started")' <=> Has(o, s, a, "started")
  BY DEF Has, EventOf
<1> QED
  BY <1>1, <1>2 DEF Phase

\* A step that leaves the tables of the stages alone moves no phase.
LEMMA QuietPhases ==
  ASSUME UNCHANGED <<events, retryCount, deadLettered>>
  PROVE  phases' = phases
BY PhaseOfTables DEF phases

\* A step that moves the phase of one stage.
LEMMA OnePhase ==
  ASSUME NEW o \in Orders, NEW s \in Stages, NEW p, Phase(o, s)' = p,
         \A q \in Orders, r \in Stages : ~(q = o /\ r = s) => Phase(q, r)' = Phase(q, r)
  PROVE  phases' = [phases EXCEPT ![o][s] = p]
BY DEF phases

\* An event of a stage is an event of no other.
LEMMA OtherPhases ==
  ASSUME TypeOK, NEW t \in tasks, NEW status, record(t, status),
         NEW q \in Orders, NEW r \in Stages, ~(q = t.order /\ r = t.stage),
         retryCount'[q][r] = retryCount[q][r],
         <<q, r>> \in deadLettered' <=> <<q, r>> \in deadLettered
  PROVE  Phase(q, r)' = Phase(q, r)
<1>1. \A e : (e.order = q /\ e.stage = r) => (e \in events' <=> e \in events)
  BY DEF record, Inserted, EventOf
<1> QED
  BY <1>1, PhaseOfTables

\* A started row, when it is new, starts the stage.
LEMMA StartedStarts ==
  ASSUME TypeOK, AttemptInv, NEW t \in tasks, t.pc = "claim", record(t, "started"),
         UNCHANGED <<orders, retryCount, deadLettered>>
  PROVE  Lifecycle!Start(t.order, t.stage) \/ UNCHANGED <<orders, phases, retryCount>>
<1> DEFINE o == t.order  s == t.stage  c == Count(o, s)
<1>1. /\ o \in Orders /\ s \in Stages /\ t.attempt \in Nat \ {0} /\ c \in Nat
      /\ t.attempt <= c + 1 /\ t.attempt <= MaxRetries /\ orders[o] # "absent"
  BY DEF TypeOK, Task, Attempts, AttemptInv, TaskInv, Count
<1>2. CASE Inserted(t, "started") \in events
  <2>1. events' = events
    BY <1>2 DEF record
  <2> QED
    BY <2>1, QuietPhases
<1>3. CASE Inserted(t, "started") \notin events
  <2>1. ~Has(o, s, t.attempt, "started")
    BY <1>3 DEF Has, Inserted
  <2>2. t.attempt = c + 1
    <3>1. t.attempt \in 1..c => Has(o, s, t.attempt, "failed")
      BY <1>1 DEF AttemptInv, CounterInv
    <3>2. ~Has(o, s, t.attempt, "failed")
      BY <2>1 DEF AttemptInv, HistoryInv, Has, EventOf
    <3> QED
      BY <1>1, <3>1, <3>2
  <2>3. <<o, s>> \notin deadLettered
    BY <1>1, <2>2, PipelineAssumption DEF AttemptInv, CounterInv
  <2>4. s \notin CompletedStages(o)
    BY <2>1, <2>2 DEF CompletedStages, AttemptInv, HistoryInv
  <2>5. Phase(o, s) = "waiting"
    BY <2>1, <2>2, <2>3, <2>4 DEF Phase, Count
  <2>6. Phase(o, s)' = "running"
    <3>1. s \notin CompletedStages(o)'
      BY <2>4 DEF CompletedStages, record, Inserted, EventOf
    <3>2. Has(o, s, t.attempt, "started")'
      BY DEF Has, record, Inserted
    <3> QED
      BY <2>2, <2>3, <3>1, <3>2 DEF Phase, Count
  <2>7. ASSUME NEW q \in Orders, NEW r \in Stages, ~(q = o /\ r = s)
        PROVE  Phase(q, r)' = Phase(q, r)
    BY <2>7, OtherPhases
  <2>8. phases' = [phases EXCEPT ![o][s] = "running"]
    BY <1>1, <2>6, <2>7, OnePhase
  <2> QED
    BY <1>1, <2>5, <2>8 DEF Lifecycle!Start, phases
<1> QED
  BY <1>2, <1>3

\* The stage of a call that works is running.
LEMMA WorkingRuns ==
  ASSUME TypeOK, AttemptInv, NEW t \in tasks, t.pc = "work"
  PROVE  /\ t.order \in Orders /\ t.stage \in Stages
         /\ Phase(t.order, t.stage) = "running"
         /\ <<t.order, t.stage>> \notin deadLettered
         /\ t.stage \notin CompletedStages(t.order)
<1>1. /\ t.order \in Orders /\ t.stage \in Stages /\ Count(t.order, t.stage) \in Nat
      /\ t.attempt = Count(t.order, t.stage) + 1 /\ t.attempt <= MaxRetries
      /\ Has(t.order, t.stage, t.attempt, "started")
      /\ \A e \in events : (e.order = t.order /\ e.stage = t.stage) => e.status # "completed"
  BY WorkingCall
<1>2. <<t.order, t.stage>> \notin deadLettered
  BY <1>1, PipelineAssumption DEF AttemptInv, CounterInv
<1>3. t.stage \notin CompletedStages(t.order)
  BY <1>1 DEF CompletedStages
<1> QED
  BY <1>1, <1>2, <1>3 DEF Phase, Count

\* The completed row completes it.
LEMMA CompletedCompletes ==
  ASSUME TypeOK, AttemptInv, NEW t \in tasks, t.pc = "work", record(t, "completed"),
         UNCHANGED <<orders, retryCount, deadLettered>>
  PROVE  Lifecycle!Complete(t.order, t.stage)
<1>1. t.stage \in CompletedStages(t.order)'
  <2>1. /\ Inserted(t, "completed") \in events'
        /\ Inserted(t, "completed").order = t.order /\ Inserted(t, "completed").stage = t.stage
        /\ Inserted(t, "completed").status = "completed"
    BY DEF record, Inserted, EventOf
  <2> QED
    BY <2>1 DEF CompletedStages
<1>2. Phase(t.order, t.stage)' = "completed"
  BY <1>1, WorkingRuns DEF Phase
<1>3. ASSUME NEW q \in Orders, NEW r \in Stages, ~(q = t.order /\ r = t.stage)
      PROVE  Phase(q, r)' = Phase(q, r)
  BY <1>3, OtherPhases
<1>4. t.order \in Orders /\ t.stage \in Stages
  BY WorkingRuns
<1>5. phases' = [phases EXCEPT ![t.order][t.stage] = "completed"]
  BY <1>2, <1>3, <1>4, OnePhase
<1> QED
  BY <1>5, WorkingRuns DEF Lifecycle!Complete, phases

\* The failure transaction fails it, and what it does with the retry row or the
\* dead letter is what makes it wait for the next attempt or die.
LEMMA FailureFails ==
  ASSUME TypeOK, AttemptInv, NEW t \in tasks, t.pc = "work", FailureCommits(t)
  PROVE  Lifecycle!Fail(t.order, t.stage)
<1> DEFINE o == t.order  s == t.stage  c == Count(o, s)
           p == IF c + 1 < MaxRetries THEN "waiting" ELSE "dead"
<1>1. /\ o \in Orders /\ s \in Stages /\ c \in Nat /\ MaxRetries \in Nat /\ c + 1 <= MaxRetries
      /\ Phase(o, s) = "running" /\ <<o, s>> \notin deadLettered /\ s \notin CompletedStages(o)
  BY WorkingRuns, WorkingCall, PipelineAssumption
<1>2. /\ record(t, "failed") /\ orders' = orders
      /\ retryCount' = [retryCount EXCEPT ![o][s] = c + 1]
      /\ deadLettered' = IF c + 1 < MaxRetries THEN deadLettered
                                               ELSE deadLettered \cup {<<o, s>>}
  <2>1. retryCount' = [retryCount EXCEPT ![o][s] = c + 1]
    BY <1>1 DEF FailureCommits, Count, TypeOK
  <2>2. DeadLetters(retryCount[o][s] + 1) <=> ~(c + 1 < MaxRetries)
    BY <1>1 DEF DeadLetters, Count
  <2>3. deadLettered' = IF c + 1 < MaxRetries THEN deadLettered ELSE deadLettered \cup {<<o, s>>}
    BY <2>2 DEF FailureCommits
  <2> QED
    BY <2>1, <2>3 DEF FailureCommits
<1>3. retryCount'[o][s] = c + 1
  BY <1>1, <1>2 DEF TypeOK
<1>4. s \notin CompletedStages(o)'
  BY <1>1, <1>2 DEF CompletedStages, record, Inserted, EventOf
<1>5. EventOf(o, s, c + 2, "started") \notin events'
  <2>1. \A e \in events : (e.order = o /\ e.stage = s) => e.attempt <= c + 1
    BY DEF AttemptInv, HistoryInv
  <2>2. EventOf(o, s, c + 2, "started") \notin events
    BY <1>1, <2>1 DEF EventOf
  <2>3. EventOf(o, s, c + 2, "started") # Inserted(t, "failed")
    BY DEF Inserted, EventOf
  <2> QED
    BY <1>2, <2>2, <2>3 DEF record
<1>6. Phase(o, s)' = p
  <2>1. ~Has(o, s, retryCount[o][s] + 1, "started")'
    <3>1. retryCount'[o][s] + 1 = c + 2
      BY <1>1, <1>3
    <3> QED
      BY <1>5, <3>1 DEF Has, EventOf
  <2>2. CASE c + 1 < MaxRetries
    BY <1>1, <1>2, <1>4, <2>1, <2>2 DEF Phase
  <2>3. CASE ~(c + 1 < MaxRetries)
    BY <1>2, <2>3 DEF Phase
  <2> QED
    BY <2>2, <2>3
<1>7. ASSUME NEW q \in Orders, NEW r \in Stages, ~(q = o /\ r = s)
      PROVE  Phase(q, r)' = Phase(q, r)
  <2>1. retryCount'[q][r] = retryCount[q][r]
    BY <1>1, <1>2, <1>7 DEF TypeOK
  <2>2. <<q, r>> \in deadLettered' <=> <<q, r>> \in deadLettered
    BY <1>2, <1>7
  <2> QED
    BY <1>2, <1>7, <2>1, <2>2, OtherPhases
<1>8. phases' = [phases EXCEPT ![o][s] = p]
  BY <1>1, <1>6, <1>7, OnePhase
<1> QED
  BY <1>1, <1>2, <1>8 DEF Lifecycle!Fail, phases, Count

\* A new order, and the two UPDATEs of the watcher.
LEMMA OrderSteps ==
  ASSUME TypeOK, AttemptInv, NEW o \in Orders, UNCHANGED <<events, retryCount, deadLettered>>
  PROVE  /\ orders[o] = "absent" /\ orders' = [orders EXCEPT ![o] = "pending"] => Lifecycle!Place(o)
         /\ orders[o] = "pending" /\ AllCompleted(o) /\ orders' = [orders EXCEPT ![o] = "fulfilled"]
              => Lifecycle!Fulfil(o)
         /\ orders[o] = "pending" /\ DeadStages(o) # {} /\ orders' = [orders EXCEPT ![o] = "failed"]
              => Lifecycle!Reject(o)
<1>1. phases' = phases
  BY QuietPhases
<1>2. ASSUME NEW s \in Stages, s \in CompletedStages(o) PROVE Phase(o, s) = "completed"
  <2>1. PICK e \in events : e.order = o /\ e.stage = s /\ e.status = "completed"
    BY <1>2 DEF CompletedStages
  <2>2. Count(o, s) + 1 <= MaxRetries /\ Count(o, s) \in Nat
    BY <2>1 DEF AttemptInv, HistoryInv, TypeOK, Count
  <2>3. <<o, s>> \notin deadLettered
    BY <2>2, PipelineAssumption DEF AttemptInv, CounterInv
  <2> QED
    BY <1>2, <2>3 DEF Phase
<1>3. ASSUME NEW s \in DeadStages(o) PROVE s \in Stages /\ Phase(o, s) = "dead"
  BY DEF DeadStages, Phase
<1> QED
  BY <1>1, <1>2, <1>3
     DEF Lifecycle!Place, Lifecycle!Fulfil, Lifecycle!Reject, phases, AllCompleted

\* Every step of the pipeline is a step of the lifecycle, or none.
LEMMA LifecycleStep ==
  TypeOK /\ AttemptInv /\ [Next]_vars => [Lifecycle!Next]_(Lifecycle!lifecycle)
<1> SUFFICES ASSUME TypeOK, AttemptInv, [Next]_vars
             PROVE  Lifecycle!Next \/ UNCHANGED <<orders, phases, retryCount>>
  BY DEF Lifecycle!lifecycle, phases
<1> DEFINE Goal == Lifecycle!Next \/ UNCHANGED <<orders, phases, retryCount>>
<1>1. ASSUME UNCHANGED <<orders, events, retryCount, deadLettered>> PROVE Goal
  BY <1>1, QuietPhases
<1>2. ASSUME NEW i \in Instances, NEW o \in Orders, CreateOrder(i, o) PROVE Goal
  BY <1>2, OrderSteps DEF CreateOrder, Lifecycle!Next
<1>3. ASSUME NEW i \in Instances, Relay(i) \/ Recover(i) \/ InstanceFaults(i) PROVE Goal
  BY <1>1, <1>3 DEF Relay, ClaimBatch, MarkProcessed, Recover, Resubscribe, Boot, InstanceFaults,
     CommitFails, DropSubscriber, Crash, RecomputeError, tables
<1>4. ASSUME NEW j \in Instances, Watch(j) PROVE Goal
  <2>1. ASSUME NEW frame \in inbox[j], RecomputeFulfilled(j, frame) PROVE Goal
    <3>1. frame.order \in Orders
      BY DEF TypeOK, Event
    <3> QED
      BY <1>1, <2>1, <3>1, OrderSteps DEF RecomputeFulfilled, Lifecycle!Next
  <2>2. ASSUME NEW frame \in rechecks[j], RecomputeFailed(j, frame) PROVE Goal
    <3>1. frame.order \in Orders
      BY DEF TypeOK, Event
    <3> QED
      BY <1>1, <2>2, <3>1, OrderSteps DEF RecomputeFailed, Lifecycle!Next
  <2> QED
    BY <1>4, <2>1, <2>2 DEF Watch
<1>5. ASSUME NEW t \in tasks, Claim(t) \/ RecordCompleted(t) \/ FailTransaction(t) \/ ReplyLost(t)
      PROVE  Goal
  <2>1. t.order \in Orders /\ t.stage \in Stages
    BY DEF TypeOK, Task
  <2>2. \/ /\ t.pc = "claim" /\ record(t, "started")
           /\ UNCHANGED <<orders, retryCount, deadLettered>>
        \/ /\ t.pc = "work" /\ record(t, "completed")
           /\ UNCHANGED <<orders, retryCount, deadLettered>>
        \/ t.pc = "work" /\ FailureCommits(t)
    BY <1>5 DEF Claim, RecordCompleted, FailTransaction, ReplyLost
  <2> QED
    BY <2>1, <2>2, StartedStarts, CompletedCompletes, FailureFails DEF Lifecycle!Next
<1>6. ASSUME NEW t \in tasks, \/ AnnounceStarted(t) \/ PublishOutcome(t) \/ PublishRejected(t)
                              \/ PublishReplyLost(t) \/ QueryFails(t)
      PROVE  Goal
  BY <1>1, <1>6 DEF AnnounceStarted, PublishOutcome, PublishRejected, PublishReplyLost, QueryFails,
     tables
<1>7. ASSUME NEW row \in outbox, BackoffElapses(row) PROVE Goal
  BY <1>1, <1>7 DEF BackoffElapses
<1>8. ASSUME RedisStops \/ RedisStarts \/ UNCHANGED vars PROVE Goal
  BY <1>1, <1>8 DEF RedisStops, RedisStarts, vars, tables
<1> HIDE DEF Goal
<1>9. ASSUME \E i \in Instances :
             \/ \E o \in Orders : CreateOrder(i, o)
             \/ Relay(i) \/ Watch(i) \/ Recover(i) \/ InstanceFaults(i)
      PROVE  Goal
  BY <1>2, <1>3, <1>4, <1>9
<1>10. ASSUME \E t \in tasks : Run(t) \/ RunFaults(t) PROVE Goal
  BY <1>5, <1>6, <1>10 DEF Run, RunFaults
<1>11. ASSUME \E row \in outbox : BackoffElapses(row) PROVE Goal
  BY <1>7, <1>11
<1>12. Goal
  BY <1>8, <1>9, <1>10, <1>11 DEF Next
<1> QED
  BY <1>12 DEF Goal

\* What clients see of orders and stages is a behaviour of the lifecycle,
\* whatever is delivered twice, lost or restarted: no stage runs twice at a time,
\* skips an attempt or comes back from its end, and no status is given for
\* another reason than the stages' own.
THEOREM LifecycleImplemented == Spec => ImplementsLifecycle
BY LifecycleInit, LifecycleStep, TypeCorrect, AttemptsCorrect, PTL
   DEF Spec, ImplementsLifecycle, Lifecycle!Spec

-----------------------------------------------------------------------------
(* The outbox.                                                               *)

LEMMA TableInit == Init => Table!Init
BY DEF Init, Table!Init

\* The row that queues the attempt after a failure is not there yet, since no row
\* is for an attempt that is not due to be made, and the others stay as they are.
LEMMA FailureInserts ==
  ASSUME TypeOK, AttemptInv, NEW t \in tasks, t.pc = "work", FailureCommits(t)
  PROVE  Table!Next \/ UNCHANGED Table!table
<1> DEFINE row == RetryRow(t)
<1>1. UNCHANGED <<processed, batch>>
  BY DEF FailureCommits
<1>2. CASE UNCHANGED <<outbox, due>>
  BY <1>1, <1>2 DEF Table!table
<1>3. CASE QueueRetry(t)
  <2>1. t.stage # NoStage /\ t.attempt = Count(t.order, t.stage) + 1 /\ t.attempt \in Nat
    BY PipelineAssumption DEF TypeOK, Task, Attempts, AttemptInv, TaskInv
  <2>2. row.order = t.order /\ row.stage = t.stage /\ row.attempt = t.attempt + 1
    BY DEF RetryRow
  <2>3. row \notin outbox
    <3>1. ASSUME row \in outbox PROVE row.attempt <= Count(row.order, row.stage) + 1
      BY <2>1, <2>2, <3>1 DEF AttemptInv, RowInv
    <3> QED
      BY <2>1, <2>2, <3>1
  <2>4. outbox' = outbox \cup {row} /\ due' = due
    BY <1>3 DEF QueueRetry, enqueueOutbox
  <2> HIDE DEF row
  <2> QED
    BY <1>1, <2>3, <2>4 DEF Table!Next, Table!Insert
<1> QED
  BY <1>2, <1>3 DEF FailureCommits

\* An order that does not exist has no row.
LEMMA PlacingInserts ==
  ASSUME AttemptInv, NEW i \in Instances, NEW o \in Orders, CreateOrder(i, o)
  PROVE  Table!Next
<1> DEFINE row == [order |-> o, stage |-> NoStage, attempt |-> FIRST_ATTEMPT]
<1>1. row.order = o /\ orders[o] = "absent"
  BY DEF CreateOrder
<1>2. outbox' = outbox \cup {row} /\ due' = due \cup {row} /\ UNCHANGED <<processed, batch>>
  BY DEF CreateOrder, enqueueOutbox, memory
<1> HIDE DEF row
<1>3. row \notin outbox
  BY <1>1 DEF AttemptInv, RowInv
<1> QED
  BY <1>2, <1>3 DEF Table!Next, Table!Insert

\* A tick, its end, and the end of its instance.
LEMMA RelayHandsOut ==
  ASSUME NEW i \in Instances,
         ClaimBatch(i) \/ MarkProcessed(i) \/ CommitFails(i) \/ Crash(i)
  PROVE  Table!Next
<1>1. CASE ClaimBatch(i)
  <2>1. PICK rows \in (SUBSET Claimable) \ {{}} :
          Cardinality(rows) <= BatchSize /\ batch' = [batch EXCEPT ![i] = rows]
    BY <1>1 DEF ClaimBatch
  <2>2. rows \in (SUBSET Table!Free) \ {{}}
    BY <2>1 DEF Claimable, Locked, Table!Free
  <2>3. batch[i] = {} /\ UNCHANGED <<outbox, due, processed>>
    BY <1>1 DEF ClaimBatch, tables
  <2>4. Table!Cardinality(rows) = Cardinality(rows)
    BY DEF Table!Cardinality, Cardinality
  <2> QED
    BY <2>1, <2>2, <2>3, <2>4 DEF Table!Next, Table!HandOut
<1>2. CASE MarkProcessed(i)
  BY <1>2 DEF MarkProcessed, Table!Next, Table!Finish
<1>3. CASE CommitFails(i) \/ Crash(i)
  BY <1>3 DEF CommitFails, Crash, tables, Table!Next, Table!LetGo
<1> QED
  BY <1>1, <1>2, <1>3

LEMMA TableStep ==
  TypeOK /\ AttemptInv /\ [Next]_vars => [Table!Next]_(Table!table)
<1> SUFFICES ASSUME TypeOK, AttemptInv, [Next]_vars
             PROVE  Table!Next \/ UNCHANGED Table!table
  OBVIOUS
<1> DEFINE Goal == Table!Next \/ UNCHANGED Table!table
<1>1. ASSUME UNCHANGED <<outbox, due, processed, batch>> PROVE Goal
  BY <1>1 DEF Table!table
<1>2. ASSUME NEW i \in Instances, Recover(i) \/ Watch(i) PROVE Goal
  BY <1>1, <1>2 DEF Recover, Resubscribe, Boot, Watch, RecomputeFulfilled, RecomputeFailed, tables,
     memory
<1>3. ASSUME NEW i \in Instances, Relay(i) \/ InstanceFaults(i) PROVE Goal
  <2>1. CASE DropSubscriber(i) \/ \E frame \in inbox[i] \cup rechecks[i] : RecomputeError(i, frame)
    BY <1>1, <2>1 DEF DropSubscriber, RecomputeError, tables, memory
  <2> QED
    BY <1>3, <2>1, RelayHandsOut DEF Relay, InstanceFaults
<1>4. ASSUME NEW t \in tasks, Run(t) \/ RunFaults(t) PROVE Goal
  <2>1. \/ t.pc = "work" /\ FailureCommits(t)
        \/ UNCHANGED <<outbox, due, processed, batch>>
    BY <1>4 DEF Run, RunFaults, Claim, AnnounceStarted, RecordCompleted, FailTransaction,
       PublishOutcome, PublishRejected, PublishReplyLost, QueryFails, ReplyLost, tables, memory
  <2> QED
    BY <1>1, <2>1, FailureInserts
<1>5. ASSUME NEW row \in outbox, BackoffElapses(row) PROVE Goal
  <2>1. row \in outbox' /\ Table!BecomesDue(row)
    BY <1>5 DEF BackoffElapses, memory, Table!BecomesDue
  <2> QED
    BY <2>1 DEF Table!Next
<1>6. ASSUME RedisStops \/ RedisStarts \/ UNCHANGED vars PROVE Goal
  BY <1>1, <1>6 DEF RedisStops, RedisStarts, vars, tables, memory
<1> HIDE DEF Goal
<1>7. Goal
  <2>1. ASSUME NEW i \in Instances, NEW o \in Orders, CreateOrder(i, o) PROVE Goal
    BY <2>1, PlacingInserts DEF Goal
  <2> QED
    BY <2>1, <1>2, <1>3, <1>4, <1>5, <1>6 DEF Next
<1> QED
  BY <1>7 DEF Goal

\* Whatever fails, each row is inserted once, held by one relay at a time, marked
\* by the one who holds it, and after that handed out no more.
THEOREM TableImplemented == Spec => ImplementsTable
BY TableInit, TableStep, TypeCorrect, AttemptsCorrect, PTL DEF Spec, ImplementsTable, Table!Spec

\* The table holds each row alone because it hands out only what is free.
LEMMA TableHoldsAlone == Table!Spec => []Table!HeldAlone
<1> DEFINE Inv == batch \in [Instances -> SUBSET due] /\ Table!HeldAlone
<1>1. Table!Init => Inv
  BY DEF Table!Init, Table!HeldAlone
<1>2. Inv /\ [Table!Next]_(Table!table) => Inv'
  <2> SUFFICES ASSUME Inv, [Table!Next]_(Table!table) PROVE Inv'
    OBVIOUS
  <2>1. ASSUME UNCHANGED <<processed, batch>>, due \subseteq due' PROVE Inv'
    BY <2>1 DEF Table!HeldAlone
  <2>2. ASSUME NEW row \in outbox', Table!Insert(row) \/ Table!BecomesDue(row) PROVE Inv'
    BY <2>1, <2>2 DEF Table!Insert, Table!BecomesDue
  <2>3. ASSUME NEW i \in Instances, Table!HandOut(i) PROVE Inv'
    <3>1. PICK rows \in SUBSET Table!Free :
            batch' = [batch EXCEPT ![i] = rows] /\ UNCHANGED <<due, processed>>
      BY <2>3 DEF Table!HandOut
    <3>2. rows \subseteq due \ processed /\ \A j \in Instances : rows \cap batch[j] = {}
      BY <3>1 DEF Table!Free
    <3> QED
      BY <3>1, <3>2 DEF Table!HeldAlone
  <2>4. ASSUME NEW i \in Instances, Table!Finish(i) \/ Table!LetGo(i) PROVE Inv'
    <3>1. /\ batch' = [batch EXCEPT ![i] = {}] /\ due' = due
          /\ processed' \in {processed, processed \cup batch[i]}
      BY <2>4 DEF Table!Finish, Table!LetGo
    <3> QED
      BY <3>1 DEF Table!HeldAlone
  <2>5. CASE UNCHANGED Table!table
    BY <2>1, <2>5 DEF Table!table
  <2> QED
    BY <2>2, <2>3, <2>4, <2>5 DEF Table!Next
<1>3. Inv => Table!HeldAlone
  OBVIOUS
<1> QED
  BY <1>1, <1>2, <1>3, PTL DEF Table!Spec

\* And so do the relays, since they implement it, under every fault.
THEOREM HeldByOneRelay == Spec => []RowsHeldAlone
BY TableImplemented, TableHoldsAlone, PTL DEF ImplementsTable, RowsHeldAlone

=============================================================================
