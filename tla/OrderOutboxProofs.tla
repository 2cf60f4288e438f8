------------------------- MODULE OrderOutboxProofs --------------------------
(***************************************************************************)
(* Proofs about OrderOutbox, for every set of orders, stages and           *)
(* instances, every MaxRetries and BatchSize, and every choice of faults.  *)
(***************************************************************************)
EXTENDS OrderOutbox, TLAPS

(***************************************************************************)
(* Type correctness.                                                       *)
(***************************************************************************)

LEMMA TypeInit == Init => TypeOK
  BY PipelineAssumption DEF Init, TypeOK, OrderStatuses

\* What a call turns into is a call.
LEMMA GotoType ==
  ASSUME TypeOK, NEW t \in tasks, NEW pc \in {"claim", "announce", "work", "completed", "failed"},
         Goto(t, pc)
  PROVE  tasks' \subseteq Task
  BY DEF TypeOK, Task, Goto

LEMMA InsertedType ==
  ASSUME TypeOK, NEW t \in tasks, NEW status \in StageStatuses
  PROVE  Inserted(t, status) \in Event
  BY DEF TypeOK, Task, Event, Inserted, EventOf

LEMMA BroadcastType ==
  ASSUME TypeOK, NEW frame \in Event, Broadcast(frame)
  PROVE  inbox' \in [Instances -> SUBSET Event]
  BY DEF TypeOK, Broadcast

LEMMA FaultType ==
  ASSUME TypeOK, NEW kind, Fault(kind)
  PROVE  faults' \in 0..MaxFaults
  BY PipelineAssumption DEF TypeOK, Fault

\* The failure transaction keeps the tables well-typed.
LEMMA FailureType ==
  ASSUME TypeOK, NEW t \in tasks, FailureCommits(t)
  PROVE  /\ orders' = orders /\ processed' = processed /\ batch' = batch
         /\ outbox' \subseteq Row /\ outbox \subseteq outbox' /\ due' \subseteq outbox'
         /\ events' \subseteq Event
         /\ retryCount' \in [Orders -> [Stages -> Nat]]
         /\ deadLettered' \subseteq Orders \X Stages
  <1>1. t.order \in Orders /\ t.stage \in Stages /\ t.attempt \in Nat \ {0}
    BY DEF TypeOK, Task, Attempts
  <1>2. Inserted(t, "failed") \in Event
    BY InsertedType DEF StageStatuses
  <1>3. RetryRow(t) \in Row
    BY <1>1 DEF RetryRow, Row, Attempts
  <1>4. retryCount' \in [Orders -> [Stages -> Nat]]
    BY <1>1 DEF TypeOK, FailureCommits, QueueRetry
  <1> QED
    BY <1>1, <1>2, <1>3, <1>4 DEF TypeOK, FailureCommits, QueueRetry, record, enqueueOutbox

\* Every step of the system keeps every variable in its type.
LEMMA TypeStep == TypeOK /\ [Next]_vars => TypeOK'
  <1> SUFFICES ASSUME TypeOK, [Next]_vars PROVE TypeOK'
    OBVIOUS
  <1>1. ASSUME NEW i \in Instances, NEW o \in Orders, CreateOrder(i, o) PROVE TypeOK'
    <2>1. [order |-> o, stage |-> NoStage, attempt |-> FIRST_ATTEMPT] \in Row
      BY DEF Row, FIRST_ATTEMPT, Attempts
    <2> QED
      BY <1>1, <2>1 DEF TypeOK, CreateOrder, enqueueOutbox, OrderStatuses, bus, memory
  <1>2. ASSUME NEW i \in Instances, ClaimBatch(i) PROVE TypeOK'
    <2>1. PICK rows \in SUBSET Claimable : /\ batch' = [batch EXCEPT ![i] = rows]
                                           /\ tasks' = tasks \cup EmittedBy(i, rows)
      BY <1>2 DEF ClaimBatch
    <2>2. rows \subseteq outbox
      BY <2>1 DEF Claimable
    <2>3. EmittedBy(i, rows) \subseteq Task
      BY <2>2, PipelineAssumption DEF EmittedBy, HandlersOf, TypeOK, Row, Task
    <2> QED
      BY <1>2, <2>1, <2>2, <2>3 DEF TypeOK, ClaimBatch, tables, bus
  <1>3. ASSUME NEW i \in Instances, MarkProcessed(i) PROVE TypeOK'
    BY <1>3 DEF TypeOK, MarkProcessed, bus
  <1>4. ASSUME NEW i \in Instances, CommitFails(i) PROVE TypeOK'
    BY <1>4, FaultType DEF TypeOK, CommitFails, tables, bus
  <1>5. ASSUME NEW j \in Instances, NEW frame \in inbox[j], RecomputeFulfilled(j, frame)
        PROVE TypeOK'
    BY <1>5 DEF TypeOK, RecomputeFulfilled, OrderStatuses, Event
  <1>6. ASSUME NEW j \in Instances, NEW frame \in rechecks[j], RecomputeFailed(j, frame)
        PROVE TypeOK'
    BY <1>6 DEF TypeOK, RecomputeFailed, OrderStatuses, Event, bus
  <1>7. ASSUME NEW j \in Instances, NEW frame, RecomputeError(j, frame) PROVE TypeOK'
    BY <1>7, FaultType DEF TypeOK, RecomputeError, tables
  <1>8. ASSUME NEW j \in Instances, Recover(j) PROVE TypeOK'
    BY <1>8 DEF TypeOK, Recover, Resubscribe, Boot, tables, memory
  <1>9. ASSUME NEW j \in Instances, DropSubscriber(j) PROVE TypeOK'
    BY <1>9, FaultType DEF TypeOK, DropSubscriber, tables, memory
  <1>10. ASSUME NEW i \in Instances, Crash(i) PROVE TypeOK'
    BY <1>10, FaultType DEF TypeOK, Crash, tables
  <1>11. ASSUME NEW t \in tasks, Claim(t) PROVE TypeOK'
    <2>1. tasks' \subseteq Task
      BY <1>11, GotoType DEF Claim, Won, Finish, TypeOK
    <2>2. Inserted(t, "started") \in Event
      BY InsertedType DEF StageStatuses
    <2> QED
      BY <1>11, <2>1, <2>2 DEF TypeOK, Claim, Won, record, bus
  <1>12. ASSUME NEW t \in tasks, AnnounceStarted(t) PROVE TypeOK'
    <2>1. tasks' \subseteq Task
      BY <1>12, GotoType DEF AnnounceStarted
    <2>2. inbox' \in [Instances -> SUBSET Event]
      BY <1>12, InsertedType, BroadcastType DEF AnnounceStarted, StageStatuses
    <2> QED
      BY <1>12, <2>1, <2>2 DEF TypeOK, AnnounceStarted, tables
  <1>13. ASSUME NEW t \in tasks, RecordCompleted(t) PROVE TypeOK'
    <2>1. tasks' \subseteq Task
      BY <1>13, GotoType DEF RecordCompleted
    <2>2. Inserted(t, "completed") \in Event
      BY InsertedType DEF StageStatuses
    <2> QED
      BY <1>13, <2>1, <2>2 DEF TypeOK, RecordCompleted, record, bus
  <1>14. ASSUME NEW t \in tasks, FailTransaction(t) PROVE TypeOK'
    <2>1. tasks' \subseteq Task
      BY <1>14, GotoType DEF FailTransaction
    <2>2. FailureCommits(t) /\ faults' = faults
      BY <1>14 DEF FailTransaction
    <2> QED
      BY <2>1, <2>2, FailureType DEF TypeOK, FailureCommits, QueueRetry, bus
  <1>15. ASSUME NEW t \in tasks, PublishOutcome(t) \/ PublishReplyLost(t) PROVE TypeOK'
    <2>1. inbox' \in [Instances -> SUBSET Event]
      BY <1>15, InsertedType, BroadcastType DEF PublishOutcome, PublishReplyLost, StageStatuses
    <2>2. tasks' \subseteq Task
      BY <1>15 DEF PublishOutcome, PublishReplyLost, Finish, TypeOK, memory
    <2> QED
      BY <1>15, <2>1, <2>2, FaultType
         DEF TypeOK, PublishOutcome, PublishReplyLost, tables, memory
  <1>16. ASSUME NEW t \in tasks, PublishRejected(t) PROVE TypeOK'
    <2>1. tasks' \subseteq Task
      BY <1>16, GotoType DEF PublishRejected, Finish, TypeOK
    <2> QED
      BY <1>16, <2>1, FaultType DEF TypeOK, PublishRejected, tables, bus
  <1>17. ASSUME NEW t \in tasks, QueryFails(t) PROVE TypeOK'
    BY <1>17, FaultType DEF TypeOK, QueryFails, Finish, tables, bus
  <1>18. ASSUME NEW t \in tasks, ReplyLost(t) PROVE TypeOK'
    <2>1. tasks' \subseteq Task /\ faults' \in 0..MaxFaults
      BY <1>18, FaultType DEF ReplyLost, Finish, TypeOK
    <2>2. Inserted(t, "started") \in Event /\ Inserted(t, "completed") \in Event
      BY InsertedType DEF StageStatuses
    <2>3. CASE FailureCommits(t)
      BY <2>1, <2>3, FailureType DEF TypeOK, FailureCommits, QueueRetry, bus
    <2>4. CASE record(t, "started") /\ UNCHANGED <<orders, outbox, processed, due, retryCount,
                 deadLettered, bus, alive, batch, rechecks>>
      BY <2>1, <2>2, <2>4 DEF TypeOK, record, bus
    <2>5. CASE record(t, "completed") /\ UNCHANGED <<orders, outbox, processed, due, retryCount,
                 deadLettered, bus, alive, batch, rechecks>>
      BY <2>1, <2>2, <2>5 DEF TypeOK, record, bus
    <2> QED
      BY <1>18, <2>3, <2>4, <2>5 DEF ReplyLost
  <1>19. ASSUME NEW row \in outbox, BackoffElapses(row) PROVE TypeOK'
    BY <1>19 DEF TypeOK, BackoffElapses, bus, memory
  <1>20. CASE RedisStops
    BY <1>20, FaultType DEF TypeOK, RedisStops, tables, memory
  <1>21. CASE RedisStarts
    BY <1>21 DEF TypeOK, RedisStarts, tables, memory
  <1>22. CASE UNCHANGED vars
    BY <1>22 DEF TypeOK, vars, tables, bus, memory
  <1> QED
    BY <1>1, <1>2, <1>3, <1>4, <1>5, <1>6, <1>7, <1>8, <1>9, <1>10, <1>11, <1>12, <1>13, <1>14,
       <1>15, <1>16, <1>17, <1>18, <1>19, <1>20, <1>21, <1>22
       DEF Next, Relay, Watch, InstanceFaults, Run, RunFaults

\* Every reachable state is well-typed; in particular a locked, a processed and
\* a due row is a row that exists, and only a live instance is subscribed.
THEOREM TypeCorrect == Spec => []TypeOK
  BY TypeInit, TypeStep, PTL DEF Spec

(***************************************************************************)
(* The history of attempts.  A step disturbs AttemptInv only through the   *)
(* orders, the rows and the calls, so each kind of effect on those has its *)
(* lemma, whatever the step does to the relay, the bus and the watcher.    *)
(***************************************************************************)

\* What AttemptInv speaks of, the calls apart.
attemptTables == <<orders, outbox, events, retryCount, deadLettered>>

LEMMA AttemptInit == Init => AttemptInv
  BY PipelineAssumption
     DEF Init, AttemptInv, HistoryInv, CounterInv, RowInv, TaskInv, StatusInv, FailureHasSuccessor,
         Count

\* Steps that only end calls, or move them to a point behind the outcome.
LEMMA QuietStep ==
  ASSUME TypeOK, AttemptInv, UNCHANGED attemptTables, tasks' \subseteq tasks
  PROVE  AttemptInv'
  BY DEF AttemptInv, HistoryInv, CounterInv, RowInv, TaskInv, StatusInv, FailureHasSuccessor,
         Count, Has, AllCompleted, CompletedStages, DeadStages, attemptTables

\* A claimed call goes from its announcement to its work.
LEMMA AnnounceStep ==
  ASSUME TypeOK, AttemptInv, NEW t \in tasks, t.pc = "announce", Goto(t, "work"),
         UNCHANGED attemptTables
  PROVE  AttemptInv'
  <1>1. HistoryInv' /\ CounterInv' /\ RowInv' /\ StatusInv' /\ FailureHasSuccessor'
    BY DEF AttemptInv, HistoryInv, CounterInv, RowInv, StatusInv, FailureHasSuccessor,
           Count, Has, AllCompleted, CompletedStages, DeadStages, attemptTables
  <1> DEFINE next == [t EXCEPT !.pc = "work"]
  <1>2. /\ next.order = t.order /\ next.stage = t.stage /\ next.attempt = t.attempt
        /\ next.pc = "work" /\ tasks' = (tasks \ {t}) \cup {next}
    BY DEF Goto, TypeOK, Task
  <1>3. ASSUME NEW o, NEW s, NEW a, NEW status
        PROVE  Has(o, s, a, status)' = Has(o, s, a, status) /\ Count(o, s)' = Count(o, s)
    BY DEF Has, Count, attemptTables
  <1>4. orders' = orders
    BY DEF attemptTables
  <1> HIDE DEF next
  <1>5. TaskInv'
    BY <1>2, <1>3, <1>4 DEF AttemptInv, TaskInv
  <1> QED
    BY <1>1, <1>5 DEF AttemptInv

\* The calls that a relay emits are for attempts its rows allow.
LEMMA ClaimBatchStep ==
  ASSUME TypeOK, AttemptInv, NEW i \in Instances, ClaimBatch(i)
  PROVE  AttemptInv'
  <1>1. PICK rows \in SUBSET Claimable : tasks' = tasks \cup EmittedBy(i, rows)
    BY DEF ClaimBatch
  <1>2. UNCHANGED attemptTables
    BY DEF ClaimBatch, tables, attemptTables
  <1>3. HistoryInv' /\ CounterInv' /\ RowInv' /\ StatusInv' /\ FailureHasSuccessor'
    BY <1>2 DEF AttemptInv, HistoryInv, CounterInv, RowInv, StatusInv, FailureHasSuccessor,
           Count, Has, AllCompleted, CompletedStages, DeadStages, attemptTables
  <1>4. ASSUME NEW t \in EmittedBy(i, rows)
        PROVE  /\ t.pc = "claim" /\ orders[t.order] # "absent"
               /\ t.attempt <= Count(t.order, t.stage) + 1 /\ t.attempt <= MaxRetries
    <2>1. PICK row \in outbox : \E s \in HandlersOf(row) :
            t = [at |-> i, order |-> row.order, stage |-> s, attempt |-> row.attempt, pc |-> "claim"]
      BY DEF EmittedBy, Claimable
    <2>2. row.order \in Orders /\ row.stage \in Stages \cup {NoStage}
      BY DEF TypeOK, Row
    <2>3. t.stage \in Stages /\ (row.stage # NoStage => t.stage = row.stage)
      BY <2>1, <2>2 DEF HandlersOf
    <2>4. retryCount[t.order][t.stage] \in Nat
      BY <2>1, <2>2, <2>3 DEF TypeOK
    <2> QED
      BY <2>1, <2>2, <2>3, <2>4, PipelineAssumption DEF AttemptInv, RowInv, Count
  <1>5. TaskInv'
    BY <1>1, <1>2, <1>4 DEF AttemptInv, TaskInv, Count, Has, attemptTables
  <1> QED
    BY <1>3, <1>5 DEF AttemptInv

\* A call inserts its started row.  Only the first one to do so goes on, and it
\* can only be the attempt after the failures so far: a started row of every
\* failed attempt is there already.
LEMMA StartedStep ==
  ASSUME TypeOK, AttemptInv, NEW t \in tasks, t.pc = "claim", record(t, "started"),
         UNCHANGED <<orders, outbox, retryCount, deadLettered>>,
         \/ Finish(t)
         \/ Inserted(t, "started") \notin events /\ Goto(t, "announce")
  PROVE  AttemptInv'
  <1> DEFINE new == Inserted(t, "started")
             c   == Count(t.order, t.stage)
  <1>1. /\ t.order \in Orders /\ t.stage \in Stages /\ t.attempt \in Nat \ {0} /\ c \in Nat
        /\ t.attempt <= c + 1 /\ t.attempt <= MaxRetries /\ orders[t.order] # "absent"
    BY DEF TypeOK, Task, Attempts, AttemptInv, TaskInv, Count
  <1>2. /\ new.order = t.order /\ new.stage = t.stage /\ new.attempt = t.attempt
        /\ new.status = "started" /\ events' = events \cup {new}
    BY DEF Inserted, EventOf, record
  <1>3. ASSUME NEW o, NEW s, NEW a, NEW status
        PROVE  /\ Has(o, s, a, status) => Has(o, s, a, status)'
               /\ status # "started" => (Has(o, s, a, status)' <=> Has(o, s, a, status))
    BY <1>2 DEF Has, EventOf
  <1>4. HistoryInv'
    <2>1. Has(new.order, new.stage, new.attempt, "started")'
      BY <1>2 DEF Has, Inserted
    <2> QED
      BY <1>1, <1>2, <1>3, <2>1 DEF AttemptInv, HistoryInv, Count
  <1>5. CounterInv'
    BY <1>3 DEF AttemptInv, CounterInv, Count
  <1>6. RowInv'
    BY DEF AttemptInv, RowInv, Count
  <1>7. TaskInv'
    <2>1. CASE Finish(t)
      BY <1>3, <2>1 DEF AttemptInv, TaskInv, Count, Finish
    <2>2. CASE new \notin events /\ Goto(t, "announce")
      <3>1. ~Has(t.order, t.stage, t.attempt, "started")
        BY <2>2 DEF Has, Inserted
      <3>2. t.attempt = c + 1
        <4>1. t.attempt \in 1..c => Has(t.order, t.stage, t.attempt, "failed")
          BY <1>1 DEF AttemptInv, CounterInv
        <4>2. ~Has(t.order, t.stage, t.attempt, "failed")
          BY <3>1 DEF AttemptInv, HistoryInv, Has, EventOf
        <4> QED
          BY <1>1, <4>1, <4>2
      <3>3. ~Has(t.order, t.stage, t.attempt, "completed")'
        BY <3>1, <1>3 DEF AttemptInv, HistoryInv, Has, EventOf
      <3>4. \A u \in tasks : (u.order = t.order /\ u.stage = t.stage)
                               => u.pc \notin {"announce", "work"}
        BY <3>1, <3>2 DEF AttemptInv, TaskInv
      <3>5. Has(t.order, t.stage, t.attempt, "started")'
        BY <1>2 DEF Has, Inserted
      <3> DEFINE next == [t EXCEPT !.pc = "announce"]
      <3>6. /\ next.order = t.order /\ next.stage = t.stage /\ next.attempt = t.attempt
            /\ tasks' = (tasks \ {t}) \cup {next}
        BY <2>2 DEF Goto, TypeOK, Task
      <3>7. ASSUME NEW o, NEW s PROVE Count(o, s)' = Count(o, s)
        BY DEF Count
      <3> HIDE DEF next, c
      <3>8. ASSUME NEW u \in tasks', NEW v \in tasks', u.order = v.order, u.stage = v.stage,
                   u.pc \in {"announce", "work"}, v.pc \in {"announce", "work"}
            PROVE  u = v
        BY <3>4, <3>6, <3>8 DEF AttemptInv, TaskInv
      <3>9. ASSUME NEW u \in tasks \ {t}
            PROVE  /\ orders'[u.order] # "absent"
                   /\ u.attempt <= Count(u.order, u.stage)' + 1 /\ u.attempt <= MaxRetries
                   /\ u.pc \in {"announce", "work"} =>
                        /\ u.attempt = Count(u.order, u.stage)' + 1
                        /\ Has(u.order, u.stage, u.attempt, "started")'
                        /\ ~Has(u.order, u.stage, u.attempt, "completed")'
        BY <1>3, <3>7 DEF AttemptInv, TaskInv
      <3>10. /\ orders'[next.order] # "absent"
             /\ next.attempt = Count(next.order, next.stage)' + 1 /\ next.attempt <= MaxRetries
             /\ Has(next.order, next.stage, next.attempt, "started")'
             /\ ~Has(next.order, next.stage, next.attempt, "completed")'
        BY <1>1, <3>2, <3>3, <3>5, <3>6, <3>7 DEF c
      <3>11. next.attempt <= Count(next.order, next.stage)' + 1
        BY <1>1, <3>2, <3>6, <3>7 DEF c
      <3> QED
        BY <3>6, <3>8, <3>9, <3>10, <3>11 DEF TaskInv
    <2> QED
      BY <2>1, <2>2
  <1>8. CompletedStages(t.order)' = CompletedStages(t.order) /\ StatusInv'
    BY <1>2 DEF AttemptInv, StatusInv, AllCompleted, CompletedStages, DeadStages
  <1>9. FailureHasSuccessor'
    BY <1>2 DEF AttemptInv, FailureHasSuccessor
  <1> QED
    BY <1>4, <1>5, <1>6, <1>7, <1>8, <1>9 DEF AttemptInv

\* What the invariants give of a call that is about to record its outcome.
LEMMA WorkingCall ==
  ASSUME TypeOK, AttemptInv, NEW t \in tasks, t.pc = "work"
  PROVE  /\ t.order \in Orders /\ t.stage \in Stages /\ t.attempt \in Nat \ {0}
         /\ Count(t.order, t.stage) \in Nat /\ orders[t.order] # "absent"
         /\ t.attempt = Count(t.order, t.stage) + 1 /\ t.attempt <= MaxRetries
         /\ Has(t.order, t.stage, t.attempt, "started")
         /\ \A e \in events : (e.order = t.order /\ e.stage = t.stage) => e.status # "completed"
         /\ \A u \in tasks \ {t} : (u.order = t.order /\ u.stage = t.stage)
                                     => u.pc \notin {"announce", "work"}
  <1>1. /\ t.order \in Orders /\ t.stage \in Stages /\ t.attempt \in Nat \ {0}
        /\ Count(t.order, t.stage) \in Nat /\ orders[t.order] # "absent"
        /\ t.attempt = Count(t.order, t.stage) + 1 /\ t.attempt <= MaxRetries
        /\ Has(t.order, t.stage, t.attempt, "started")
        /\ ~Has(t.order, t.stage, t.attempt, "completed")
    BY DEF TypeOK, Task, Attempts, AttemptInv, TaskInv, Count
  <1>2. ASSUME NEW e \in events, e.order = t.order, e.stage = t.stage, e.status = "completed"
        PROVE  FALSE
    <2>1. e.attempt = t.attempt
      BY <1>1, <1>2 DEF AttemptInv, HistoryInv
    <2>2. e = EventOf(e.order, e.stage, e.attempt, e.status)
      BY DEF TypeOK, Event, EventOf
    <2> QED
      BY <1>1, <1>2, <2>1, <2>2 DEF Has
  <1>3. \A u \in tasks \ {t} : (u.order = t.order /\ u.stage = t.stage)
                                 => u.pc \notin {"announce", "work"}
    BY DEF AttemptInv, TaskInv
  <1> QED
    BY <1>1, <1>2, <1>3

\* A call that ends, or goes on to publish its outcome, is replaced by no call
\* that has a claim.
LEMMA OutcomeCalls ==
  ASSUME TypeOK, NEW t \in tasks, NEW status \in {"completed", "failed"},
         Finish(t) \/ Goto(t, status), NEW u \in tasks'
  PROVE  \/ u \in tasks \ {t}
         \/ /\ u.order = t.order /\ u.stage = t.stage /\ u.attempt = t.attempt
            /\ u.pc \notin {"announce", "work"}
  BY DEF TypeOK, Task, Finish, Goto

\* A call records its completion: it was the only one at work on the stage.
LEMMA CompletedStep ==
  ASSUME TypeOK, AttemptInv, NEW t \in tasks, t.pc = "work", record(t, "completed"),
         UNCHANGED <<orders, outbox, retryCount, deadLettered>>,
         Finish(t) \/ Goto(t, "completed")
  PROVE  AttemptInv'
  <1> DEFINE new == Inserted(t, "completed")
             c   == Count(t.order, t.stage)
  <1>1. /\ t.order \in Orders /\ t.stage \in Stages /\ t.attempt \in Nat \ {0} /\ c \in Nat
        /\ orders[t.order] # "absent" /\ t.attempt = c + 1 /\ t.attempt <= MaxRetries
        /\ Has(t.order, t.stage, t.attempt, "started")
        /\ \A u \in tasks \ {t} : (u.order = t.order /\ u.stage = t.stage)
                                    => u.pc \notin {"announce", "work"}
    BY WorkingCall
  <1>2. /\ new.order = t.order /\ new.stage = t.stage /\ new.attempt = t.attempt
        /\ new.status = "completed" /\ events' = events \cup {new}
    BY DEF Inserted, EventOf, record
  <1>3. ASSUME NEW o, NEW s, NEW a, NEW status
        PROVE  /\ Has(o, s, a, status) => Has(o, s, a, status)'
               /\ ~(o = t.order /\ s = t.stage) => (Has(o, s, a, status)' <=> Has(o, s, a, status))
               /\ Count(o, s)' = Count(o, s)
    BY <1>2 DEF Has, EventOf, Count
  <1>4. HistoryInv'
    <2>1. ASSUME NEW e \in events'
          PROVE  /\ orders'[e.order] # "absent"
                 /\ e.attempt <= Count(e.order, e.stage)' + 1 /\ e.attempt <= MaxRetries
                 /\ e.status = "failed" => e.attempt <= Count(e.order, e.stage)'
                 /\ e.status = "completed" => e.attempt = Count(e.order, e.stage)' + 1
                 /\ Has(e.order, e.stage, e.attempt, "started")'
      <3>1. CASE e \in events
        BY <3>1, <1>3 DEF AttemptInv, HistoryInv
      <3>2. CASE e = new
        BY <3>2, <1>1, <1>2, <1>3
      <3> QED
        BY <1>2, <3>1, <3>2
    <2> QED
      BY <2>1 DEF HistoryInv
  <1>5. CounterInv'
    BY <1>3 DEF AttemptInv, CounterInv
  <1>6. RowInv'
    BY <1>3 DEF AttemptInv, RowInv
  <1>7. TaskInv'
    <2>1. ASSUME NEW u \in tasks'
          PROVE  /\ orders'[u.order] # "absent"
                 /\ u.attempt <= Count(u.order, u.stage)' + 1 /\ u.attempt <= MaxRetries
                 /\ u.pc \in {"announce", "work"} => u \in tasks
      BY <1>1, <1>3, OutcomeCalls DEF AttemptInv, TaskInv
    <2>2. ASSUME NEW u \in tasks', u.pc \in {"announce", "work"}
          PROVE  /\ u.attempt = Count(u.order, u.stage)' + 1
                 /\ Has(u.order, u.stage, u.attempt, "started")'
                 /\ ~Has(u.order, u.stage, u.attempt, "completed")'
      <3>1. u \in tasks \ {t} /\ ~(u.order = t.order /\ u.stage = t.stage)
        BY <1>1, <2>2, OutcomeCalls
      <3> QED
        BY <3>1, <2>2, <1>3 DEF AttemptInv, TaskInv
    <2>3. ASSUME NEW u \in tasks', NEW v \in tasks', u.order = v.order, u.stage = v.stage,
                 u.pc \in {"announce", "work"}, v.pc \in {"announce", "work"}
          PROVE  u = v
      BY <2>1, <2>3 DEF AttemptInv, TaskInv
    <2> QED
      BY <2>1, <2>2, <2>3 DEF TaskInv
  <1>8. StatusInv'
    <2>1. \A o \in Orders : /\ CompletedStages(o) \subseteq CompletedStages(o)'
                            /\ CompletedStages(o)' \subseteq CompletedStages(o) \cup {t.stage}
      BY <1>2 DEF CompletedStages
    <2>2. ASSUME NEW o \in Orders, CompletedStages(o) = Stages PROVE CompletedStages(o)' = Stages
      BY <1>1, <2>1, <2>2
    <2>3. \A o \in Orders : DeadStages(o)' = DeadStages(o)
      BY DEF DeadStages
    <2> QED
      BY <2>2, <2>3 DEF AttemptInv, StatusInv, AllCompleted
  <1>9. FailureHasSuccessor'
    BY <1>2 DEF AttemptInv, FailureHasSuccessor
  <1> QED
    BY <1>4, <1>5, <1>6, <1>7, <1>8, <1>9 DEF AttemptInv

\* The failure transaction: the counter and the history advance together, and
\* no call, row or completion is left with an attempt the counter has passed by
\* more than one.
LEMMA FailedStep ==
  ASSUME TypeOK, AttemptInv, NEW t \in tasks, t.pc = "work", FailureCommits(t),
         Finish(t) \/ Goto(t, "failed")
  PROVE  AttemptInv'
  <1> DEFINE new == Inserted(t, "failed")
             c   == Count(t.order, t.stage)
  <1>1. /\ t.order \in Orders /\ t.stage \in Stages /\ t.attempt \in Nat \ {0} /\ c \in Nat
        /\ orders[t.order] # "absent" /\ t.attempt = c + 1 /\ t.attempt <= MaxRetries
        /\ Has(t.order, t.stage, t.attempt, "started")
        /\ \A e \in events : (e.order = t.order /\ e.stage = t.stage) => e.status # "completed"
        /\ \A u \in tasks \ {t} : (u.order = t.order /\ u.stage = t.stage)
                                    => u.pc \notin {"announce", "work"}
    BY WorkingCall
  <1>2. /\ new.order = t.order /\ new.stage = t.stage /\ new.attempt = t.attempt
        /\ new.status = "failed" /\ events' = events \cup {new}
    BY DEF Inserted, EventOf, FailureCommits, QueueRetry, record
  <1>3. ASSUME NEW o \in Orders, NEW s \in Stages
        PROVE  /\ Count(o, s) \in Nat
               /\ Count(o, s)' = IF o = t.order /\ s = t.stage THEN c + 1 ELSE Count(o, s)
    BY <1>1 DEF TypeOK, FailureCommits, QueueRetry, Count
  <1>4. ASSUME NEW o, NEW s, NEW a, NEW status
        PROVE  /\ Has(o, s, a, status) => Has(o, s, a, status)'
               /\ status # "failed" => (Has(o, s, a, status)' <=> Has(o, s, a, status))
    BY <1>2 DEF Has, EventOf
  <1>5. Has(t.order, t.stage, t.attempt, "failed")'
    BY <1>2 DEF Has, Inserted
  <1>6. orders' = orders
    BY DEF FailureCommits, QueueRetry
  <1>7. MaxRetries \in Nat
    BY PipelineAssumption
  <1>8. \/ c + 1 = MaxRetries /\ deadLettered' = deadLettered \cup {<<t.order, t.stage>>}
           /\ outbox' = outbox
        \/ c + 1 < MaxRetries /\ deadLettered' = deadLettered
           /\ outbox' = outbox \cup {RetryRow(t)}
    BY <1>1, <1>7 DEF FailureCommits, QueueRetry, DeadLetters, enqueueOutbox, Count
  <1> HIDE DEF new, c
  <1>9. HistoryInv'
    <2>1. ASSUME NEW e \in events'
          PROVE  /\ orders'[e.order] # "absent"
                 /\ e.attempt <= Count(e.order, e.stage)' + 1 /\ e.attempt <= MaxRetries
                 /\ e.status = "failed" => e.attempt <= Count(e.order, e.stage)'
                 /\ e.status = "completed" => e.attempt = Count(e.order, e.stage)' + 1
                 /\ Has(e.order, e.stage, e.attempt, "started")'
      <3>1. CASE e \in events
        <4>1. e.order \in Orders /\ e.stage \in Stages /\ e.attempt \in Nat
          BY <3>1 DEF TypeOK, Event, Attempts
        <4>2. /\ orders[e.order] # "absent"
              /\ e.attempt <= Count(e.order, e.stage) + 1 /\ e.attempt <= MaxRetries
              /\ e.status = "failed" => e.attempt <= Count(e.order, e.stage)
              /\ e.status = "completed" => e.attempt = Count(e.order, e.stage) + 1
              /\ Has(e.order, e.stage, e.attempt, "started")
          BY <3>1 DEF AttemptInv, HistoryInv
        <4>3. CASE e.order = t.order /\ e.stage = t.stage
          BY <4>1, <4>2, <4>3, <3>1, <1>1, <1>3, <1>4, <1>6 DEF c
        <4>4. CASE ~(e.order = t.order /\ e.stage = t.stage)
          BY <4>1, <4>2, <4>4, <1>3, <1>4, <1>6
        <4> QED
          BY <4>3, <4>4
      <3>2. CASE e = new
        BY <3>2, <1>1, <1>2, <1>3, <1>4, <1>6
      <3> QED
        BY <1>2, <3>1, <3>2
    <2> QED
      BY <2>1 DEF HistoryInv
  <1>10. CounterInv'
    <2>1. ASSUME NEW o \in Orders, NEW s \in Stages
          PROVE  /\ Count(o, s)' <= MaxRetries
                 /\ <<o, s>> \in deadLettered' <=> Count(o, s)' = MaxRetries
                 /\ \A a \in 1..Count(o, s)' : Has(o, s, a, "failed")'
      <3>1. /\ Count(o, s) <= MaxRetries
            /\ <<o, s>> \in deadLettered <=> Count(o, s) = MaxRetries
            /\ \A a \in 1..Count(o, s) : Has(o, s, a, "failed")
        BY DEF AttemptInv, CounterInv
      <3>2. CASE o = t.order /\ s = t.stage
        <4>1. \A a \in 1..(c + 1) : a \in 1..c \/ a = t.attempt
          BY <1>1
        <4> QED
          BY <3>1, <3>2, <4>1, <1>1, <1>3, <1>4, <1>5, <1>7, <1>8 DEF c
      <3>3. CASE ~(o = t.order /\ s = t.stage)
        BY <3>1, <3>3, <1>3, <1>4, <1>8
      <3> QED
        BY <3>2, <3>3
    <2> QED
      BY <2>1 DEF CounterInv
  <1>11. RowInv'
    <2>1. ASSUME NEW row \in outbox
          PROVE  /\ orders'[row.order] # "absent"
                 /\ row.stage = NoStage => row.attempt = 1
                 /\ row.stage # NoStage => /\ row.attempt <= Count(row.order, row.stage)' + 1
                                           /\ row.attempt <= MaxRetries
      <3>1. row.order \in Orders /\ row.stage \in Stages \cup {NoStage} /\ row.attempt \in Nat
        BY DEF TypeOK, Row, Attempts
      <3> QED
        BY <3>1, <1>1, <1>3, <1>6 DEF AttemptInv, RowInv, c
    <2>2. /\ RetryRow(t).order = t.order /\ RetryRow(t).stage = t.stage
          /\ RetryRow(t).attempt = t.attempt + 1
      BY DEF RetryRow
    <2> QED
      BY <2>1, <2>2, <1>1, <1>3, <1>6, <1>7, <1>8, PipelineAssumption DEF RowInv
  <1>12. TaskInv'
    <2>1. ASSUME NEW u \in tasks'
          PROVE  /\ orders'[u.order] # "absent"
                 /\ u.attempt <= Count(u.order, u.stage)' + 1 /\ u.attempt <= MaxRetries
                 /\ u.pc \in {"announce", "work"} => u \in tasks
      <3>1. u.order \in Orders /\ u.stage \in Stages /\ u.attempt \in Nat
        BY <1>1, OutcomeCalls DEF TypeOK, Task, Attempts
      <3>2. /\ orders[u.order] # "absent"
            /\ u.attempt <= Count(u.order, u.stage) + 1 /\ u.attempt <= MaxRetries
            /\ u.pc \in {"announce", "work"} => u \in tasks
        BY <1>1, OutcomeCalls DEF AttemptInv, TaskInv, c
      <3> QED
        BY <3>1, <3>2, <1>1, <1>3, <1>6 DEF c
    <2>2. ASSUME NEW u \in tasks', u.pc \in {"announce", "work"}
          PROVE  /\ u.attempt = Count(u.order, u.stage)' + 1
                 /\ Has(u.order, u.stage, u.attempt, "started")'
                 /\ ~Has(u.order, u.stage, u.attempt, "completed")'
      <3>1. u \in tasks \ {t} /\ ~(u.order = t.order /\ u.stage = t.stage)
        BY <1>1, <2>2, OutcomeCalls
      <3>2. u.order \in Orders /\ u.stage \in Stages
        BY <3>1 DEF TypeOK, Task
      <3> QED
        BY <3>1, <3>2, <2>2, <1>3, <1>4 DEF AttemptInv, TaskInv
    <2> QED
      BY <2>1, <2>2 DEF AttemptInv, TaskInv
  <1>13. StatusInv'
    <2>1. \A o \in Orders : CompletedStages(o)' = CompletedStages(o)
      BY <1>2 DEF CompletedStages
    <2>2. \A o \in Orders : DeadStages(o) \subseteq DeadStages(o)'
      BY <1>8 DEF DeadStages
    <2> QED
      BY <1>6, <2>1, <2>2 DEF AttemptInv, StatusInv, AllCompleted
  <1>14. FailureHasSuccessor'
    <2>1. new.attempt < MaxRetries => RetryRow(t) \in outbox'
      BY <1>1, <1>2, <1>7, <1>8
    <2>2. RetryRow(t) = [order |-> new.order, stage |-> new.stage, attempt |-> new.attempt + 1]
      BY <1>2 DEF RetryRow
    <2>3. outbox \subseteq outbox'
      BY <1>8
    <2> QED
      BY <1>2, <2>1, <2>2, <2>3 DEF AttemptInv, FailureHasSuccessor
  <1> QED
    BY <1>9, <1>10, <1>11, <1>12, <1>13, <1>14 DEF AttemptInv

\* The remaining steps that change what AttemptInv speaks of: a new order, and
\* an order's status, which follows the stages.
LEMMA CreateStep ==
  ASSUME TypeOK, AttemptInv, NEW i \in Instances, NEW o \in Orders, CreateOrder(i, o)
  PROVE  AttemptInv'
  <1> DEFINE new == [order |-> o, stage |-> NoStage, attempt |-> FIRST_ATTEMPT]
  <1>1. /\ orders[o] = "absent" /\ orders' = [orders EXCEPT ![o] = "pending"]
        /\ outbox' = outbox \cup {new}
        /\ UNCHANGED <<events, retryCount, deadLettered, tasks>>
    BY DEF CreateOrder, enqueueOutbox, memory
  <1>2. ASSUME NEW p \in Orders
        PROVE  /\ orders[p] # "absent" => orders'[p] = orders[p]
               /\ p = o => orders'[p] = "pending"
    BY <1>1 DEF TypeOK
  <1>3. HistoryInv' /\ CounterInv' /\ FailureHasSuccessor'
    BY <1>1, <1>2 DEF AttemptInv, HistoryInv, CounterInv, FailureHasSuccessor, Count, Has, TypeOK,
           Event
  <1>4. RowInv'
    BY <1>1, <1>2 DEF AttemptInv, RowInv, Count, FIRST_ATTEMPT, TypeOK, Row
  <1>5. TaskInv'
    BY <1>1, <1>2 DEF AttemptInv, TaskInv, Count, Has, TypeOK, Task
  <1>6. StatusInv'
    BY <1>1 DEF AttemptInv, StatusInv, AllCompleted, CompletedStages, DeadStages, TypeOK
  <1> QED
    BY <1>3, <1>4, <1>5, <1>6 DEF AttemptInv

LEMMA SettleStep ==
  ASSUME TypeOK, AttemptInv, NEW o \in Orders, orders[o] = "pending",
         \/ AllCompleted(o) /\ orders' = [orders EXCEPT ![o] = "fulfilled"]
         \/ DeadStages(o) # {} /\ orders' = [orders EXCEPT ![o] = "failed"],
         UNCHANGED <<outbox, events, retryCount, deadLettered, tasks>>
  PROVE  AttemptInv'
  <1>1. \A p \in Orders : orders[p] # "absent" => orders'[p] # "absent"
    BY DEF TypeOK
  <1>2. HistoryInv' /\ CounterInv' /\ FailureHasSuccessor'
    BY <1>1 DEF AttemptInv, HistoryInv, CounterInv, FailureHasSuccessor, Count, Has, TypeOK, Event
  <1>3. RowInv'
    BY <1>1 DEF AttemptInv, RowInv, Count, TypeOK, Row
  <1>4. TaskInv'
    BY <1>1 DEF AttemptInv, TaskInv, Count, Has, TypeOK, Task
  <1>5. StatusInv'
    BY DEF AttemptInv, StatusInv, AllCompleted, CompletedStages, DeadStages, TypeOK
  <1> QED
    BY <1>2, <1>3, <1>4, <1>5 DEF AttemptInv

\* Every step of the system preserves the history of attempts.
LEMMA AttemptStep == TypeOK /\ AttemptInv /\ [Next]_vars => AttemptInv'
  <1> SUFFICES ASSUME TypeOK, AttemptInv, [Next]_vars PROVE AttemptInv'
    OBVIOUS
  <1>1. ASSUME NEW i \in Instances, NEW o \in Orders, CreateOrder(i, o) PROVE AttemptInv'
    BY <1>1, CreateStep
  <1>2. ASSUME NEW i \in Instances, Relay(i) PROVE AttemptInv'
    <2>1. CASE ClaimBatch(i)
      BY <2>1, ClaimBatchStep
    <2>2. CASE MarkProcessed(i)
      BY <2>2, QuietStep DEF MarkProcessed, attemptTables
    <2> QED
      BY <1>2, <2>1, <2>2 DEF Relay
  <1>3. ASSUME NEW j \in Instances, NEW frame \in inbox[j], RecomputeFulfilled(j, frame)
        PROVE  AttemptInv'
    <2>1. frame.order \in Orders
      BY DEF TypeOK, Event
    <2>2. CASE orders[frame.order] = "pending" /\ AllCompleted(frame.order)
      BY <1>3, <2>1, <2>2, SettleStep DEF RecomputeFulfilled
    <2>3. CASE ~(orders[frame.order] = "pending" /\ AllCompleted(frame.order))
      BY <1>3, <2>3, QuietStep DEF RecomputeFulfilled, attemptTables
    <2> QED
      BY <2>2, <2>3
  <1>4. ASSUME NEW j \in Instances, NEW frame \in rechecks[j], RecomputeFailed(j, frame)
        PROVE  AttemptInv'
    <2>1. frame.order \in Orders
      BY DEF TypeOK, Event
    <2>2. CASE orders[frame.order] = "pending" /\ DeadStages(frame.order) # {}
      BY <1>4, <2>1, <2>2, SettleStep DEF RecomputeFailed
    <2>3. CASE ~(orders[frame.order] = "pending" /\ DeadStages(frame.order) # {})
      BY <1>4, <2>3, QuietStep DEF RecomputeFailed, attemptTables
    <2> QED
      BY <2>2, <2>3
  <1>5. ASSUME NEW i \in Instances, Recover(i) \/ InstanceFaults(i) PROVE AttemptInv'
    BY <1>5, QuietStep
       DEF Recover, Resubscribe, Boot, InstanceFaults, CommitFails, DropSubscriber, Crash,
           RecomputeError, tables, memory, attemptTables
  <1>6. ASSUME NEW t \in tasks, Claim(t) PROVE AttemptInv'
    BY <1>6, StartedStep DEF Claim, Won
  <1>7. ASSUME NEW t \in tasks, AnnounceStarted(t) PROVE AttemptInv'
    BY <1>7, AnnounceStep DEF AnnounceStarted, tables, attemptTables
  <1>8. ASSUME NEW t \in tasks, RecordCompleted(t) PROVE AttemptInv'
    BY <1>8, CompletedStep DEF RecordCompleted
  <1>9. ASSUME NEW t \in tasks, FailTransaction(t) PROVE AttemptInv'
    BY <1>9, FailedStep DEF FailTransaction
  <1>10. ASSUME NEW t \in tasks, PublishOutcome(t) \/ PublishReplyLost(t) \/ QueryFails(t)
         PROVE  AttemptInv'
    BY <1>10, QuietStep
       DEF PublishOutcome, PublishReplyLost, QueryFails, Finish, tables, memory, attemptTables
  <1>11. ASSUME NEW t \in tasks, PublishRejected(t) PROVE AttemptInv'
    <2>1. UNCHANGED attemptTables
      BY <1>11 DEF PublishRejected, tables, attemptTables
    <2>2. CASE t.pc = "announce" /\ Goto(t, "work")
      BY <2>1, <2>2, AnnounceStep
    <2>3. CASE Finish(t)
      BY <2>1, <2>3, QuietStep DEF Finish
    <2> QED
      BY <1>11, <2>2, <2>3 DEF PublishRejected
  <1>12. ASSUME NEW t \in tasks, ReplyLost(t) PROVE AttemptInv'
    <2>1. CASE t.pc = "claim"
      BY <1>12, <2>1, StartedStep DEF ReplyLost
    <2>2. CASE t.pc = "work" /\ FailureCommits(t)
      BY <1>12, <2>2, FailedStep DEF ReplyLost
    <2>3. CASE t.pc = "work" /\ ~FailureCommits(t)
      BY <1>12, <2>3, CompletedStep DEF ReplyLost
    <2> QED
      BY <1>12, <2>1, <2>2, <2>3 DEF ReplyLost
  <1>13. ASSUME NEW row \in outbox, BackoffElapses(row) PROVE AttemptInv'
    BY <1>13, QuietStep DEF BackoffElapses, memory, attemptTables
  <1>14. CASE RedisStops \/ RedisStarts
    BY <1>14, QuietStep DEF RedisStops, RedisStarts, tables, memory, attemptTables
  <1>15. CASE UNCHANGED vars
    BY <1>15, QuietStep DEF vars, tables, memory, attemptTables
  <1> QED
    BY <1>1, <1>2, <1>3, <1>4, <1>5, <1>6, <1>7, <1>8, <1>9, <1>10, <1>11, <1>12, <1>13, <1>14,
       <1>15 DEF Next, Watch, Run, RunFaults

\* In every reachable state the history, the counters, the rows and the calls
\* agree on which attempt of a stage is the current one, and a failure that is
\* not the last has its retry row.
THEOREM AttemptsCorrect == Spec => []AttemptInv
  BY TypeInit, TypeStep, AttemptInit, AttemptStep, PTL DEF Spec

\* No interleaving of relays, crashes and duplicate deliveries puts two calls
\* to work on the same stage of an order.
THEOREM AtMostOneAttempt == Spec => []OneAttemptAtATime
  <1>1. TypeOK /\ AttemptInv => OneAttemptAtATime
    <2> SUFFICES ASSUME TypeOK, AttemptInv, NEW o \in Orders, NEW s \in Stages,
                        NEW t \in Running(o, s)
                 PROVE  /\ \A u \in Running(o, s) : t = u
                        /\ t.attempt = retryCount[o][s] + 1
                        /\ <<o, s>> \notin deadLettered
                        /\ ~Has(o, s, t.attempt, "completed")
      BY DEF OneAttemptAtATime
    <2>1. /\ t \in tasks /\ t.order = o /\ t.stage = s /\ t.pc \in {"announce", "work"}
          /\ retryCount[o][s] \in Nat /\ MaxRetries \in Nat
      BY PipelineAssumption DEF Running, TypeOK
    <2>2. /\ t.attempt = retryCount[o][s] + 1 /\ t.attempt <= MaxRetries
          /\ ~Has(o, s, t.attempt, "completed")
          /\ \A u \in Running(o, s) : u = t
      BY <2>1 DEF AttemptInv, TaskInv, Count, Running
    <2>3. <<o, s>> \in deadLettered => retryCount[o][s] = MaxRetries
      BY DEF AttemptInv, CounterInv, Count
    <2> QED
      BY <2>1, <2>2, <2>3
  <1> QED
    BY <1>1, TypeCorrect, AttemptsCorrect, PTL

\* A stage has one fate: it completes at most once, after its failures, or it
\* is dead.
THEOREM AtMostOneOutcome == Spec => []OneOutcome
  <1>1. TypeOK /\ AttemptInv => OneOutcome
    <2> SUFFICES ASSUME TypeOK, AttemptInv, NEW e \in events, NEW f \in events,
                        e.order = f.order, e.stage = f.stage, e.status = "completed"
                 PROVE  /\ <<e.order, e.stage>> \notin deadLettered
                        /\ f.status = "completed" => f = e
                        /\ f.attempt <= e.attempt
                        /\ f.status = "failed" => f.attempt < e.attempt
      BY DEF OneOutcome
    <2> DEFINE c == Count(e.order, e.stage)
    <2>1. /\ e.order \in Orders /\ e.stage \in Stages /\ c \in Nat /\ MaxRetries \in Nat
          /\ f.attempt \in Nat
      BY PipelineAssumption DEF TypeOK, Event, Attempts, Count
    <2>2. /\ e.attempt = c + 1 /\ e.attempt <= MaxRetries
          /\ f.attempt <= c + 1
          /\ f.status = "failed" => f.attempt <= c
          /\ f.status = "completed" => f.attempt = c + 1
      BY DEF AttemptInv, HistoryInv
    <2>3. <<e.order, e.stage>> \in deadLettered => c = MaxRetries
      BY <2>1 DEF AttemptInv, CounterInv
    <2>4. f.status = "completed" => f = e
      BY <2>2 DEF TypeOK, Event
    <2> QED
      BY <2>1, <2>2, <2>3, <2>4
  <1> QED
    BY <1>1, TypeCorrect, AttemptsCorrect, PTL

\* No reachable failure short of the last lacks its retry row, whatever crashed.
THEOREM RetriesQueued == Spec => []FailureHasSuccessor
  <1>1. AttemptInv => FailureHasSuccessor
    BY DEF AttemptInv
  <1> QED
    BY <1>1, AttemptsCorrect, PTL

\* stage_retries and order_stage_events never disagree.
THEOREM CountersTruthful == Spec => []RetryAccounting
  <1>1. TypeOK /\ AttemptInv => RetryAccounting
    <2> SUFFICES ASSUME TypeOK, AttemptInv, NEW o \in Orders, NEW s \in Stages
                 PROVE  /\ {a \in {e.attempt : e \in events} : Has(o, s, a, "failed")}
                             = 1..retryCount[o][s]
                        /\ retryCount[o][s] <= MaxRetries
                        /\ <<o, s>> \in deadLettered <=> retryCount[o][s] = MaxRetries
      BY DEF RetryAccounting
    <2>1. /\ retryCount[o][s] <= MaxRetries
          /\ <<o, s>> \in deadLettered <=> retryCount[o][s] = MaxRetries
          /\ \A a \in 1..retryCount[o][s] : Has(o, s, a, "failed")
      BY DEF AttemptInv, CounterInv, Count
    <2>2. retryCount[o][s] \in Nat
      BY DEF TypeOK
    <2>3. ASSUME NEW a, Has(o, s, a, "failed")
          PROVE  a \in 1..retryCount[o][s] /\ a \in {e.attempt : e \in events}
      <3>1. PICK e \in events : e.order = o /\ e.stage = s /\ e.attempt = a /\ e.status = "failed"
        BY <2>3 DEF Has, EventOf
      <3>2. e.attempt \in Nat \ {0} /\ e.attempt <= retryCount[o][s]
        BY <3>1 DEF TypeOK, Event, Attempts, AttemptInv, HistoryInv, Count
      <3> QED
        BY <2>2, <3>1, <3>2
    <2> QED
      BY <2>1, <2>3
  <1> QED
    BY <1>1, TypeCorrect, AttemptsCorrect, PTL

\* A settled status is true: no interleaving of the two UPDATEs on
\* any number of instances makes an order fulfilled while a stage is unfinished,
\* or failed while every stage completed.
THEOREM StatusCorrect == Spec => []StatusTruthful
  <1>1. TypeOK /\ AttemptInv => StatusTruthful
    <2> SUFFICES ASSUME TypeOK, AttemptInv, NEW o \in Orders
                 PROVE  /\ orders[o] = "fulfilled" =>
                             \A s \in Stages : /\ s \in CompletedStages(o) /\ s \notin DeadStages(o)
                                               /\ Running(o, s) = {}
                        /\ orders[o] = "failed" => /\ DeadStages(o) # {}
                                                   /\ CompletedStages(o) # Stages
                        /\ orders[o] = "absent" => \A e \in events : e.order # o
      BY DEF StatusTruthful
    <2>1. ASSUME NEW s \in Stages, s \in CompletedStages(o)
          PROVE  /\ Has(o, s, Count(o, s) + 1, "completed")
                 /\ Count(o, s) + 1 <= MaxRetries
      <3>1. PICK e \in events : e.order = o /\ e.stage = s /\ e.status = "completed"
        BY <2>1 DEF CompletedStages
      <3>2. e.attempt = Count(o, s) + 1 /\ e.attempt <= MaxRetries
        BY <3>1 DEF AttemptInv, HistoryInv
      <3>3. e = EventOf(e.order, e.stage, e.attempt, e.status)
        BY DEF TypeOK, Event, EventOf
      <3> QED
        BY <3>1, <3>2, <3>3 DEF Has
    <2>2. ASSUME NEW s \in Stages, s \in CompletedStages(o)
          PROVE  s \notin DeadStages(o)
      <3>1. Count(o, s) \in Nat /\ MaxRetries \in Nat
        BY PipelineAssumption DEF TypeOK, Count
      <3>2. <<o, s>> \in deadLettered => Count(o, s) = MaxRetries
        BY DEF AttemptInv, CounterInv
      <3> QED
        BY <2>1, <2>2, <3>1, <3>2 DEF DeadStages
    <2>3. ASSUME NEW s \in Stages, s \in CompletedStages(o), NEW t \in Running(o, s)
          PROVE  FALSE
      BY <2>1, <2>3 DEF AttemptInv, TaskInv, Running
    <2>4. CASE orders[o] = "fulfilled"
      BY <2>2, <2>3, <2>4 DEF AttemptInv, StatusInv, AllCompleted
    <2>5. CASE orders[o] = "failed"
      BY <2>2, <2>5 DEF AttemptInv, StatusInv, DeadStages
    <2>6. CASE orders[o] = "absent"
      BY <2>6 DEF AttemptInv, HistoryInv
    <2> QED
      BY <2>4, <2>5, <2>6
  <1> QED
    BY <1>1, TypeCorrect, AttemptsCorrect, PTL

(***************************************************************************)
(* A lost attempt stays lost.                                              *)
(***************************************************************************)

\* A step that adds no event to a stage, and gives it no call at work that it
\* did not have, keeps a lost attempt lost.
LEMMA LostKept ==
  ASSUME NEW e \in events, Lost(e),
         \A f : (f.order = e.order /\ f.stage = e.stage) => (f \in events' <=> f \in events),
         \A u \in tasks' : (/\ u.order = e.order /\ u.stage = e.stage
                            /\ u.pc \in {"announce", "work"}) =>
            \E w \in Running(e.order, e.stage) : w.attempt = u.attempt
  PROVE  /\ Lost(e)'
         /\ {f \in events' : f.order = e.order /\ f.stage = e.stage}
              = {f \in events : f.order = e.order /\ f.stage = e.stage}
  <1>1. \A status : Has(e.order, e.stage, e.attempt, status)'
                      <=> Has(e.order, e.stage, e.attempt, status)
    BY DEF Has, EventOf
  <1>2. \A u \in Running(e.order, e.stage)' :
          \E w \in Running(e.order, e.stage) : w.attempt = u.attempt
    BY DEF Running
  <1>3. e \in events'
    OBVIOUS
  <1> QED
    BY <1>1, <1>2, <1>3 DEF Lost

\* The stage of a lost attempt has no call at work at all, and every started
\* row a waiting call could insert is there.
LEMMA LostStage ==
  ASSUME TypeOK, AttemptInv, NEW e \in events, Lost(e),
         NEW t \in tasks, t.order = e.order, t.stage = e.stage
  PROVE  t.pc \notin {"announce", "work"} /\ Inserted(t, "started") \in events
  <1> DEFINE c == Count(e.order, e.stage)
  <1>1. /\ e.order \in Orders /\ e.stage \in Stages /\ e.attempt \in Nat \ {0} /\ c \in Nat
        /\ t.attempt \in Nat \ {0}
    BY DEF TypeOK, Event, Task, Attempts, Count
  <1>2. e.attempt = c + 1
    <2>1. e.attempt \notin 1..c
      BY DEF AttemptInv, CounterInv, TypeOK, Event, Lost
    <2>2. e.attempt <= c + 1
      BY DEF AttemptInv, HistoryInv
    <2> QED
      BY <1>1, <2>1, <2>2
  <1>3. t.pc \notin {"announce", "work"}
    BY <1>2 DEF AttemptInv, TaskInv, Lost, Running
  <1>4. t.attempt <= c + 1
    BY DEF AttemptInv, TaskInv
  <1>5. CASE t.attempt = c + 1
    <2>1. e = EventOf(e.order, e.stage, e.attempt, e.status)
      BY DEF TypeOK, Event, EventOf
    <2> QED
      BY <1>2, <1>3, <1>5, <2>1 DEF Lost, Inserted
  <1>6. CASE t.attempt <= c
    <2>1. EventOf(e.order, e.stage, t.attempt, "failed") \in events
      <3>1. t.attempt \in 1..c
        BY <1>1, <1>6
      <3> QED
        BY <1>1, <3>1 DEF AttemptInv, CounterInv, Has
    <2>2. Has(e.order, e.stage, t.attempt, "started")
      BY <2>1 DEF AttemptInv, HistoryInv, EventOf
    <2> QED
      BY <1>3, <2>2 DEF Has, Inserted
  <1> QED
    BY <1>1, <1>4, <1>5, <1>6

LEMMA LostStep ==
  ASSUME TypeOK, AttemptInv, [Next]_vars, NEW e \in events, Lost(e)
  PROVE  /\ Lost(e)'
         /\ {f \in events' : f.order = e.order /\ f.stage = e.stage}
              = {f \in events : f.order = e.order /\ f.stage = e.stage}
  <1> DEFINE Same    == \A f : (f.order = e.order /\ f.stage = e.stage)
                                 => (f \in events' <=> f \in events)
             Idle(u) == (/\ u.order = e.order /\ u.stage = e.stage
                         /\ u.pc \in {"announce", "work"}) =>
                           \E w \in Running(e.order, e.stage) : w.attempt = u.attempt
  <1> SUFFICES Same /\ \A u \in tasks' : Idle(u)
    BY LostKept
  <1>1. \A u \in tasks : Idle(u)
    BY DEF Running
  <1>2. ASSUME events' = events,
               \A u \in tasks' : u \in tasks \/ u.pc \notin {"announce", "work"}
        PROVE  Same /\ \A u \in tasks' : Idle(u)
    BY <1>1, <1>2
  <1>3. ASSUME NEW t \in tasks, NEW pc, Finish(t) \/ Goto(t, pc), NEW u \in tasks'
        PROVE  u \in tasks \/ (u.order = t.order /\ u.stage = t.stage /\ u.pc = pc)
    BY <1>3 DEF Finish, Goto, TypeOK, Task
  <1>4. ASSUME NEW t \in tasks, NEW status, record(t, status),
               Inserted(t, status) \in events \/ ~(t.order = e.order /\ t.stage = e.stage)
        PROVE  Same
    BY <1>4 DEF record, Inserted, EventOf
  <1>5. ASSUME NEW t \in tasks, t.pc \in {"announce", "work"}
        PROVE  ~(t.order = e.order /\ t.stage = e.stage)
    BY <1>5, LostStage
  <1>6. ASSUME NEW i \in Instances, NEW o \in Orders, CreateOrder(i, o)
        PROVE  Same /\ \A u \in tasks' : Idle(u)
    BY <1>2, <1>6 DEF CreateOrder, memory
  <1>7. ASSUME NEW i \in Instances, Relay(i) \/ Watch(i) \/ Recover(i) \/ InstanceFaults(i)
        PROVE  Same /\ \A u \in tasks' : Idle(u)
    <2>1. CASE ClaimBatch(i)
      BY <2>1, <1>2 DEF ClaimBatch, EmittedBy, tables
    <2>2. CASE MarkProcessed(i) \/ Watch(i) \/ Recover(i) \/ InstanceFaults(i)
      BY <2>2, <1>2
         DEF MarkProcessed, Watch, RecomputeFulfilled, RecomputeFailed, Recover, Resubscribe, Boot,
             InstanceFaults, CommitFails, DropSubscriber, Crash, RecomputeError, tables, memory
    <2> QED
      BY <1>7, <2>1, <2>2 DEF Relay
  <1>8. ASSUME NEW t \in tasks, t.pc = "claim", record(t, "started"),
               \/ Finish(t)
               \/ Inserted(t, "started") \notin events /\ Goto(t, "announce")
        PROVE  Same /\ \A u \in tasks' : Idle(u)
    <2>1. Same
      BY <1>4, <1>8, LostStage
    <2>2. CASE Finish(t)
      BY <1>1, <2>1, <2>2 DEF Finish
    <2>3. CASE Inserted(t, "started") \notin events /\ Goto(t, "announce")
      BY <1>1, <1>3, <2>1, <2>3, LostStage
    <2> QED
      BY <1>8, <2>2, <2>3
  <1>9. ASSUME NEW t \in tasks, t.pc = "work", NEW status, record(t, status),
               Finish(t) \/ Goto(t, status), status \in {"completed", "failed"}
        PROVE  Same /\ \A u \in tasks' : Idle(u)
    <2>1. Same
      BY <1>4, <1>5, <1>9
    <2>2. \A u \in tasks' : u \in tasks \/ ~(u.order = e.order /\ u.stage = e.stage)
      BY <1>3, <1>5, <1>9
    <2> QED
      BY <1>1, <2>1, <2>2
  <1>10. ASSUME NEW t \in tasks, Claim(t)
         PROVE  Same /\ \A u \in tasks' : Idle(u)
    BY <1>8, <1>10 DEF Claim, Won
  <1>11. ASSUME NEW t \in tasks, AnnounceStarted(t) \/ PublishRejected(t)
         PROVE  Same /\ \A u \in tasks' : Idle(u)
    <2>1. events' = events
      BY <1>11 DEF AnnounceStarted, PublishRejected, tables
    <2>2. CASE Finish(t)
      BY <1>2, <2>1, <2>2 DEF Finish
    <2>3. CASE t.pc = "announce" /\ Goto(t, "work")
      <3>1. \A u \in tasks' : u \in tasks \/ ~(u.order = e.order /\ u.stage = e.stage)
        BY <1>3, <1>5, <2>3
      <3> QED
        BY <1>1, <2>1, <3>1
    <2> QED
      BY <1>11, <2>2, <2>3 DEF AnnounceStarted, PublishRejected
  <1>12. ASSUME NEW t \in tasks, RecordCompleted(t) \/ FailTransaction(t)
         PROVE  Same /\ \A u \in tasks' : Idle(u)
    BY <1>9, <1>12 DEF RecordCompleted, FailTransaction, FailureCommits, QueueRetry
  <1>13. ASSUME NEW t \in tasks, PublishOutcome(t) \/ PublishReplyLost(t) \/ QueryFails(t)
         PROVE  Same /\ \A u \in tasks' : Idle(u)
    BY <1>2, <1>13 DEF PublishOutcome, PublishReplyLost, QueryFails, Finish, tables, memory
  <1>14. ASSUME NEW t \in tasks, ReplyLost(t)
         PROVE  Same /\ \A u \in tasks' : Idle(u)
    BY <1>8, <1>9, <1>14 DEF ReplyLost, FailureCommits
  <1>15. ASSUME NEW row \in outbox, BackoffElapses(row)
         PROVE  Same /\ \A u \in tasks' : Idle(u)
    BY <1>2, <1>15 DEF BackoffElapses, memory
  <1>16. CASE RedisStops \/ RedisStarts \/ UNCHANGED vars
    BY <1>2, <1>16 DEF RedisStops, RedisStarts, vars, tables, memory
  <1> HIDE DEF Same, Idle
  <1> QED
    BY <1>6, <1>7, <1>10, <1>11, <1>12, <1>13, <1>14, <1>15, <1>16 DEF Next, Run, RunFaults

\* Duplicate deliveries, retries and restarts never resume an attempt whose
\* call is gone, nor start another one of its stage: what the operator reads in
\* the history of that stage is the last word on it.
THEOREM LostIsFinal == Spec => LostStaysLost
  <1>1. TypeOK /\ AttemptInv /\ [Next]_vars =>
          [\A e \in events : Lost(e) =>
             /\ Lost(e)'
             /\ {f \in events' : f.order = e.order /\ f.stage = e.stage}
                  = {f \in events : f.order = e.order /\ f.stage = e.stage}]_vars
    BY LostStep
  <1> QED
    BY <1>1, TypeCorrect, AttemptsCorrect, PTL DEF Spec, LostStaysLost

=============================================================================
