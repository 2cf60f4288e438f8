-------------------------- MODULE ForgottenProofs ---------------------------
(***************************************************************************)
(* While no instance and no statement fails, no stage of a placed order is *)
(* forgotten, whatever happens to Redis: it is decided or has work coming. *)
(* While frames arrive too, an order that its stages have decided has a    *)
(* wake-up of the watcher on its way.                                      *)
(***************************************************************************)
EXTENDS OrderOutboxProofs

\* What is left of Next when no instance and no statement of a stage fails.
LEMMA CallsGoOn ==
  ASSUME FaultKinds \subseteq {"commit", "publish", "redis"}, [Next]_vars
  PROVE  \/ \E i \in Instances :
              \/ \E o \in Orders : CreateOrder(i, o)
              \/ ClaimBatch(i) \/ MarkProcessed(i) \/ CommitFails(i) \/ Watch(i)
              \/ DropSubscriber(i) \/ Resubscribe(i) \/ Boot(i)
         \/ \E t \in tasks : Run(t) \/ PublishRejected(t) \/ PublishReplyLost(t)
         \/ (\E row \in outbox : BackoffElapses(row))
         \/ RedisStops \/ RedisStarts \/ UNCHANGED vars
<1>1. ~Fault("query") /\ ~Fault("crash")
  BY DEF Fault
<1>2. ASSUME NEW t \in tasks, RunFaults(t) PROVE PublishRejected(t) \/ PublishReplyLost(t)
  BY <1>1, <1>2 DEF RunFaults, QueryFails, ReplyLost
<1>3. ASSUME NEW i \in Instances, InstanceFaults(i) PROVE CommitFails(i) \/ DropSubscriber(i)
  BY <1>1, <1>3 DEF InstanceFaults, Crash, RecomputeError
<1> QED
  BY <1>2, <1>3 DEF Next, Relay, Recover

\* Then nothing ever changes these.
AllListening == redisUp /\ alive = Instances /\ subscribed = Instances

\* What is left of it when no frame is lost either.
LEMMA OnlyCommitsFail ==
  ASSUME FaultKinds \subseteq {"commit"}, AllListening, [Next]_vars
  PROVE  \/ \E i \in Instances :
              \/ \E o \in Orders : CreateOrder(i, o)
              \/ ClaimBatch(i) \/ MarkProcessed(i) \/ CommitFails(i) \/ Watch(i)
         \/ \E t \in tasks : Run(t)
         \/ (\E row \in outbox : BackoffElapses(row)) \/ UNCHANGED vars
<1>1. ~Fault("publish") /\ ~Fault("redis") /\ FaultKinds \subseteq {"commit", "publish", "redis"}
  BY DEF Fault
<1>2. ASSUME NEW t \in tasks PROVE ~PublishRejected(t) /\ ~PublishReplyLost(t)
  BY <1>1 DEF PublishRejected, PublishReplyLost
<1>3. ASSUME NEW i \in Instances PROVE ~DropSubscriber(i) /\ ~Resubscribe(i) /\ ~Boot(i)
  BY <1>1 DEF AllListening, DropSubscriber, Resubscribe, Boot
<1>4. ~RedisStops /\ ~RedisStarts
  BY <1>1 DEF AllListening, RedisStops, RedisStarts
<1> QED
  BY <1>1, <1>2, <1>3, <1>4, CallsGoOn

-----------------------------------------------------------------------------
(* Calls and rows.                                                           *)

\* An attempt whose claim is taken, and that has its outcome or a call for it.
Covered(o, s, a) ==
    \/ Has(o, s, a, "completed") \/ Has(o, s, a, "failed")
    \/ \E t \in Running(o, s) : t.attempt = a

LEMMA CoveredServed == ASSUME NEW o, NEW s, NEW a, Covered(o, s, a) PROVE Served(o, s, a)
BY DEF Covered, Served, Running

LEMMA CoveredStarted ==
  ASSUME NothingDropped, NEW e \in events, e.status = "started"
  PROVE  Covered(e.order, e.stage, e.attempt)
BY DEF NothingDropped, Lost, Covered

\* A step keeps NothingDropped when each call that ends, or records its outcome,
\* leaves its attempt covered, and each row it locks or marks is served.
LEMMA DroppedStep ==
  ASSUME NothingDropped, outbox \subseteq outbox', events \subseteq events',
         \A o \in Orders : orders'[o] # "absent" =>
           \/ orders[o] # "absent"
           \/ [order |-> o, stage |-> NoStage, attempt |-> FIRST_ATTEMPT] \in outbox',
         \A t \in tasks \ tasks' :
           /\ t.pc \in {"announce", "work"} => Covered(t.order, t.stage, t.attempt)'
           /\ t.pc = "claim" => Served(t.order, t.stage, t.attempt)',
         \A e \in events' \ events : e.status = "started" => Covered(e.order, e.stage, e.attempt)',
         \A row \in (processed \cup Locked)' :
           \/ row \in processed \cup Locked
           \/ \A s \in HandlersOf(row) : Served(row.order, s, row.attempt)'
  PROVE  NothingDropped'
<1>1. ASSUME NEW o, NEW s, NEW a, Covered(o, s, a) PROVE Covered(o, s, a)'
  BY <1>1 DEF Covered, Has, Running
<1>2. ASSUME NEW o, NEW s, NEW a, Served(o, s, a) PROVE Served(o, s, a)'
  <2>1. CASE Has(o, s, a, "completed") \/ Has(o, s, a, "failed")
    BY <2>1 DEF Served, Has
  <2>2. ASSUME NEW t \in tasks, t.order = o, t.stage = s, t.attempt = a,
               t.pc \in {"claim", "announce", "work"}
        PROVE  Served(o, s, a)'
    <3>1. CASE t \in tasks'
      BY <2>2, <3>1 DEF Served
    <3>2. CASE t \notin tasks' /\ t.pc = "claim"
      BY <2>2, <3>2
    <3>3. CASE t \notin tasks' /\ t.pc \in {"announce", "work"}
      <4>1. Covered(o, s, a)'
        BY <2>2, <3>3
      <4> QED
        BY <4>1 DEF Covered, Served, Running
    <3> QED
      BY <2>2, <3>1, <3>2, <3>3
  <2> QED
    BY <1>2, <2>1, <2>2 DEF Served
<1>3. ASSUME NEW e \in events' PROVE ~Lost(e)'
  <2>1. CASE e.status = "started"
    <3>1. Covered(e.order, e.stage, e.attempt)'
      BY <1>1, <2>1, CoveredStarted
    <3> QED
      BY <3>1 DEF Covered, Lost
  <2> QED
    BY <2>1 DEF Lost
<1>4. \A row \in (processed \cup Locked)' :
        \A s \in HandlersOf(row) : Served(row.order, s, row.attempt)'
  BY <1>2 DEF NothingDropped
<1>5. \A o \in Orders : orders'[o] # "absent" =>
        [order |-> o, stage |-> NoStage, attempt |-> FIRST_ATTEMPT] \in outbox'
  BY DEF NothingDropped
<1> QED
  BY <1>3, <1>4, <1>5 DEF NothingDropped

\* The relay: what it locks it has emitted, and only that does it mark.
LEMMA RelayDrops ==
  ASSUME TypeOK, NothingDropped, NEW i \in Instances,
         ClaimBatch(i) \/ MarkProcessed(i) \/ CommitFails(i)
  PROVE  NothingDropped'
<1>1. UNCHANGED <<orders, outbox, events>> /\ tasks \subseteq tasks'
  BY DEF ClaimBatch, MarkProcessed, CommitFails, tables, bus
<1>2. ASSUME NEW row \in (processed \cup Locked)'
      PROVE  \/ row \in processed \cup Locked
             \/ \A s \in HandlersOf(row) : Served(row.order, s, row.attempt)'
  <2>1. ASSUME ClaimBatch(i)
        PROVE  \/ row \in processed \cup Locked
               \/ \A s \in HandlersOf(row) : Served(row.order, s, row.attempt)'
    <3>1. PICK rows : batch' = [batch EXCEPT ![i] = rows] /\ tasks' = tasks \cup EmittedBy(i, rows)
      BY <2>1 DEF ClaimBatch
    <3>2. processed' = processed
      BY <2>1 DEF ClaimBatch, tables
    <3>3. row \in rows \/ row \in processed \cup Locked
      BY <1>2, <3>1, <3>2 DEF Locked, TypeOK
    <3>4. ASSUME row \in rows, NEW s \in HandlersOf(row)
          PROVE  Served(row.order, s, row.attempt)'
      <4> DEFINE t == [at |-> i, order |-> row.order, stage |-> s, attempt |-> row.attempt,
                       pc |-> "claim"]
      <4>1. t \in EmittedBy(i, rows)
        BY <3>4 DEF EmittedBy
      <4>2. t \in tasks' /\ t.order = row.order /\ t.stage = s /\ t.attempt = row.attempt
            /\ t.pc = "claim"
        BY <3>1, <4>1
      <4> HIDE DEF t
      <4> QED
        BY <4>2 DEF Served
    <3> QED
      BY <3>3, <3>4
  <2>2. ASSUME MarkProcessed(i) \/ CommitFails(i) PROVE row \in processed \cup Locked
    <3>1. processed' \subseteq processed \cup batch[i] /\ batch' = [batch EXCEPT ![i] = {}]
      BY <2>2 DEF MarkProcessed, CommitFails, tables
    <3> QED
      BY <1>2, <3>1 DEF Locked, TypeOK
  <2> QED
    BY <2>1, <2>2
<1> QED
  BY <1>1, <1>2, DroppedStep

\* The calls: one that loses its claim leaves another at work.
LEMMA RunDrops ==
  ASSUME TypeOK, NothingDropped, NEW t \in tasks, Run(t)
  PROVE  NothingDropped'
<1>1. /\ UNCHANGED <<orders, processed, batch>>
      /\ outbox \subseteq outbox' /\ events \subseteq events'
  BY DEF Run, Claim, AnnounceStarted, RecordCompleted, FailTransaction, PublishOutcome, bus,
     tables, record, FailureCommits, QueueRetry, enqueueOutbox
<1>2. (processed \cup Locked)' = processed \cup Locked
  BY <1>1 DEF Locked
<1> DEFINE Kept == /\ tasks \ tasks' \subseteq {t}
                   /\ t.pc \in {"announce", "work"} => Covered(t.order, t.stage, t.attempt)'
                   /\ t.pc = "claim" => Served(t.order, t.stage, t.attempt)'
                   /\ \A e \in events' \ events : e.status = "started" =>
                        Covered(e.order, e.stage, e.attempt)'
<1>3. ASSUME NEW pc \in {"announce", "work", "completed", "failed"}, Goto(t, pc)
      PROVE  /\ tasks \ tasks' \subseteq {t}
             /\ pc \in {"announce", "work"} => Covered(t.order, t.stage, t.attempt)'
  <2> DEFINE u == [t EXCEPT !.pc = pc]
  <2>1. /\ tasks' = (tasks \ {t}) \cup {u} /\ u.pc = pc
        /\ u.order = t.order /\ u.stage = t.stage /\ u.attempt = t.attempt
    BY <1>3 DEF Goto, TypeOK, Task
  <2> HIDE DEF u
  <2> QED
    BY <2>1 DEF Covered, Running
<1>4. ASSUME Claim(t) PROVE Kept
  <2>1. CASE Inserted(t, "started") \notin events
    <3>1. Covered(t.order, t.stage, t.attempt)' /\ tasks \ tasks' \subseteq {t}
      BY <1>3, <1>4, <2>1 DEF Claim, Won
    <3>2. \A e \in events' \ events :
            e.order = t.order /\ e.stage = t.stage /\ e.attempt = t.attempt
      BY <1>4 DEF Claim, record, Inserted, EventOf
    <3>3. Served(t.order, t.stage, t.attempt)'
      BY <3>1 DEF Covered, Served, Running
    <3> QED
      BY <3>1, <3>2, <3>3
  <2>2. CASE Inserted(t, "started") \in events
    <3>1. events' = events /\ tasks' = tasks \ {t} /\ t.pc = "claim"
      BY <1>4, <2>2 DEF Claim, Won, record, Finish
    <3>2. Covered(t.order, t.stage, t.attempt)
      BY <2>2, CoveredStarted DEF Inserted, EventOf
    <3>3. Covered(t.order, t.stage, t.attempt)'
      BY <3>1, <3>2 DEF Covered, Has, Running
    <3>4. Served(t.order, t.stage, t.attempt)'
      BY <3>3 DEF Covered, Served, Running
    <3> QED
      BY <3>1, <3>4
  <2> QED
    BY <2>1, <2>2
<1>5. ASSUME AnnounceStarted(t) PROVE Kept
  BY <1>3, <1>5 DEF AnnounceStarted, tables
<1>6. ASSUME RecordCompleted(t) PROVE Kept
  <2>1. tasks \ tasks' \subseteq {t}
    BY <1>3, <1>6 DEF RecordCompleted
  <2>2. Has(t.order, t.stage, t.attempt, "completed")'
    BY <1>6 DEF RecordCompleted, record, Inserted, Has
  <2>3. \A e \in events' \ events : e.status = "completed"
    BY <1>6 DEF RecordCompleted, record, Inserted, EventOf
  <2> QED
    BY <2>1, <2>2, <2>3 DEF Covered, Served
<1>7. ASSUME FailTransaction(t) PROVE Kept
  <2>1. tasks \ tasks' \subseteq {t}
    BY <1>3, <1>7 DEF FailTransaction
  <2>2. Has(t.order, t.stage, t.attempt, "failed")'
    BY <1>7 DEF FailTransaction, FailureCommits, record, Inserted, Has
  <2>3. \A e \in events' \ events : e.status = "failed"
    BY <1>7 DEF FailTransaction, FailureCommits, record, Inserted, EventOf
  <2> QED
    BY <2>1, <2>2, <2>3 DEF Covered, Served
<1>8. ASSUME PublishOutcome(t) PROVE Kept
  BY <1>8 DEF PublishOutcome, Finish, tables
<1>9. Kept
  BY <1>4, <1>5, <1>6, <1>7, <1>8 DEF Run
<1> QED
  BY <1>1, <1>2, <1>9, DroppedStep

-----------------------------------------------------------------------------
(* Orders.                                                                   *)

\* Nothing has happened to the stages of an order that does not exist.
LEMMA AbsentOrder ==
  ASSUME TypeOK, AttemptInv, NEW o \in Orders, orders[o] = "absent"
  PROVE  ~AllCompleted(o) /\ DeadStages(o) = {}
<1>1. \A e \in events : e.order # o
  BY DEF AttemptInv, HistoryInv
<1>2. ~AllCompleted(o)
  BY <1>1, PipelineAssumption DEF AllCompleted, CompletedStages
<1>3. ASSUME NEW s \in Stages, <<o, s>> \in deadLettered PROVE FALSE
  <2>1. MaxRetries \in 1..Count(o, s)
    BY <1>3, PipelineAssumption DEF AttemptInv, CounterInv
  <2>2. Has(o, s, MaxRetries, "failed")
    BY <2>1 DEF AttemptInv, CounterInv
  <2> QED
    BY <1>1, <2>2 DEF Has, EventOf
<1> QED
  BY <1>2, <1>3 DEF DeadStages

\* Steps that decide no order and keep every call that has a frame to publish.
LEMMA QuietOrders ==
  ASSUME NoOrderForgotten, UNCHANGED <<inbox, rechecks, deadLettered>>,
         \A o \in Orders : orders'[o] = "pending" =>
           orders[o] = "pending" \/ (~AllCompleted(o) /\ DeadStages(o) = {}),
         \A o \in Orders : CompletedStages(o)' = CompletedStages(o),
         \A t \in tasks : t.pc \in {"completed", "failed"} => t \in tasks'
  PROVE  NoOrderForgotten'
<1>1. ASSUME NEW o \in Orders, WakeUp(o) PROVE WakeUp(o)'
  BY <1>1 DEF WakeUp
<1> QED
  BY <1>1 DEF NoOrderForgotten, AllCompleted, DeadStages

\* A call that has recorded an outcome has yet to publish it, and publishes it
\* to some instance.
LEMMA RunForgets ==
  ASSUME TypeOK, AllListening, NoOrderForgotten, NEW t \in tasks, Run(t)
  PROVE  NoOrderForgotten'
<1>1. t.order \in Orders
  BY DEF TypeOK, Task
<1>2. ASSUME NEW pc \in {"announce", "work", "completed", "failed"}, Goto(t, pc),
             t.pc \in {"claim", "announce", "work"}
      PROVE  /\ \A u \in tasks : u.pc \in {"completed", "failed"} => u \in tasks'
             /\ pc \in {"completed", "failed"} => WakeUp(t.order)'
  <2> DEFINE u == [t EXCEPT !.pc = pc]
  <2>1. tasks' = (tasks \ {t}) \cup {u} /\ u.pc = pc /\ u.order = t.order
    BY <1>2 DEF Goto, TypeOK, Task
  <2> HIDE DEF u
  <2> QED
    BY <1>2, <2>1 DEF WakeUp
<1>3. ASSUME Claim(t) PROVE NoOrderForgotten'
  <2>1. \A o \in Orders : CompletedStages(o)' = CompletedStages(o)
    BY <1>3 DEF Claim, CompletedStages, record, Inserted, EventOf
  <2>2. \A u \in tasks : u.pc \in {"completed", "failed"} => u \in tasks'
    BY <1>2, <1>3 DEF Claim, Finish
  <2> QED
    BY <1>3, <2>1, <2>2, QuietOrders DEF Claim, bus
<1>4. ASSUME AnnounceStarted(t) PROVE NoOrderForgotten'
  <2>1. inbox' = inbox
    BY <1>4 DEF AnnounceStarted, Broadcast, Settled, Inserted, EventOf, TypeOK
  <2>2. \A u \in tasks : u.pc \in {"completed", "failed"} => u \in tasks'
    BY <1>2, <1>4 DEF AnnounceStarted
  <2>3. UNCHANGED <<orders, events, deadLettered, rechecks>>
    BY <1>4 DEF AnnounceStarted, tables
  <2>4. \A o \in Orders : CompletedStages(o)' = CompletedStages(o)
    BY <2>3 DEF CompletedStages
  <2> QED
    BY <2>1, <2>2, <2>3, <2>4, QuietOrders
<1>5. ASSUME RecordCompleted(t) \/ FailTransaction(t) PROVE NoOrderForgotten'
  <2>1. /\ t.pc = "work" /\ WakeUp(t.order)'
        /\ \A u \in tasks : u.pc \in {"completed", "failed"} => u \in tasks'
    BY <1>2, <1>5 DEF RecordCompleted, FailTransaction
  <2>2. UNCHANGED <<orders, inbox, rechecks>>
    BY <1>5 DEF RecordCompleted, FailTransaction, FailureCommits, bus
  <2>3. ASSUME NEW o \in Orders, o # t.order
        PROVE  CompletedStages(o)' = CompletedStages(o) /\ DeadStages(o)' = DeadStages(o)
    <3>1. \E status : record(t, status)
      BY <1>5 DEF RecordCompleted, FailTransaction, FailureCommits
    <3>2. CompletedStages(o)' = CompletedStages(o)
      BY <2>3, <3>1 DEF CompletedStages, record, Inserted, EventOf
    <3>3. \A s : <<o, s>> \in deadLettered' <=> <<o, s>> \in deadLettered
      BY <1>5, <2>3 DEF RecordCompleted, FailTransaction, FailureCommits
    <3> QED
      BY <3>2, <3>3 DEF DeadStages
  <2>4. ASSUME NEW o \in Orders, WakeUp(o) PROVE WakeUp(o)'
    BY <2>1, <2>2, <2>4 DEF WakeUp
  <2> QED
    BY <2>1, <2>2, <2>3, <2>4 DEF NoOrderForgotten, AllCompleted
<1>6. ASSUME PublishOutcome(t) PROVE NoOrderForgotten'
  <2>1. /\ tasks' = tasks \ {t} /\ t.pc \in {"completed", "failed"}
        /\ UNCHANGED <<orders, events, deadLettered, rechecks>> /\ Broadcast(Inserted(t, t.pc))
    BY <1>6 DEF PublishOutcome, Finish, tables
  <2>2. /\ \A j \in Instances : inbox'[j] = inbox[j] \cup {Inserted(t, t.pc)}
        /\ Inserted(t, t.pc).order = t.order
    BY <2>1 DEF Broadcast, Settled, AllListening, Inserted, EventOf
  <2>3. WakeUp(t.order)'
    BY <2>2, PipelineAssumption DEF WakeUp
  <2>4. ASSUME NEW o \in Orders, o # t.order, WakeUp(o) PROVE WakeUp(o)'
    BY <2>1, <2>2, <2>4 DEF WakeUp
  <2>5. \A o \in Orders : CompletedStages(o)' = CompletedStages(o)
    BY <2>1 DEF CompletedStages
  <2> QED
    BY <2>1, <2>3, <2>4, <2>5 DEF NoOrderForgotten, AllCompleted, DeadStages
<1> QED
  BY <1>3, <1>4, <1>5, <1>6 DEF Run

\* A frame is spent only once its order has been looked at, in both UPDATEs.
LEMMA WatchForgets ==
  ASSUME TypeOK, NoOrderForgotten, NEW j \in Instances, Watch(j)
  PROVE  NoOrderForgotten'
<1>1. UNCHANGED <<events, deadLettered, tasks>>
  BY DEF Watch, RecomputeFulfilled, RecomputeFailed
<1>2. \A o \in Orders : AllCompleted(o)' = AllCompleted(o) /\ DeadStages(o)' = DeadStages(o)
  BY <1>1 DEF AllCompleted, CompletedStages, DeadStages
<1>3. ASSUME NEW frame \in inbox[j], RecomputeFulfilled(j, frame) PROVE NoOrderForgotten'
  <2>1. /\ inbox' = [inbox EXCEPT ![j] = @ \ {frame}]
        /\ rechecks' = [rechecks EXCEPT ![j] = @ \cup {frame}] /\ frame.order \in Orders
        /\ orders' = IF orders[frame.order] = "pending" /\ AllCompleted(frame.order)
                       THEN [orders EXCEPT ![frame.order] = "fulfilled"] ELSE orders
    BY <1>3 DEF RecomputeFulfilled, TypeOK, Event
  <2>2. frame \in rechecks'[j] /\ \A k \in Instances : rechecks[k] \subseteq rechecks'[k]
    BY <2>1 DEF TypeOK
  <2>3. ASSUME NEW o \in Orders, o # frame.order, WakeUp(o) PROVE WakeUp(o)'
    BY <1>1, <2>1, <2>3 DEF WakeUp, TypeOK
  <2>4. ASSUME orders'[frame.order] = "pending"
        PROVE  ~AllCompleted(frame.order)
    BY <2>1, <2>4 DEF TypeOK
  <2>5. \A o \in Orders : orders'[o] = "pending" => orders[o] = "pending"
    BY <2>1 DEF TypeOK
  <2> QED
    BY <1>2, <2>2, <2>3, <2>4, <2>5 DEF NoOrderForgotten
<1>4. ASSUME NEW frame \in rechecks[j], RecomputeFailed(j, frame) PROVE NoOrderForgotten'
  <2>1. /\ inbox' = inbox
        /\ rechecks' = [rechecks EXCEPT ![j] = @ \ {frame}] /\ frame.order \in Orders
        /\ orders' = IF orders[frame.order] = "pending" /\ DeadStages(frame.order) # {}
                       THEN [orders EXCEPT ![frame.order] = "failed"] ELSE orders
    BY <1>4 DEF RecomputeFailed, TypeOK, Event, bus
  <2>2. \A o \in Orders : WakeUp(o)' = WakeUp(o)
    BY <1>1, <2>1 DEF WakeUp
  <2>3. ASSUME NEW k \in Instances, NEW g \in rechecks[k], g.order # frame.order
        PROVE  g \in rechecks'[k]
    BY <2>1, <2>3 DEF TypeOK
  <2>4. ASSUME orders'[frame.order] = "pending" PROVE DeadStages(frame.order) = {}
    BY <2>1, <2>4 DEF TypeOK
  <2>5. \A o \in Orders : orders'[o] = "pending" => orders[o] = "pending"
    BY <2>1 DEF TypeOK
  <2> QED
    BY <1>2, <2>2, <2>3, <2>4, <2>5 DEF NoOrderForgotten
<1> QED
  BY <1>3, <1>4 DEF Watch

-----------------------------------------------------------------------------

LEMMA DroppedInit == Init => NothingDropped
BY DEF Init, NothingDropped, Locked

\* What goes on while Redis fails and comes back takes no call from a stage.
LEMMA QuietDrops ==
  ASSUME NothingDropped, UNCHANGED <<orders, outbox, processed, events, batch, tasks>>
  PROVE  NothingDropped'
<1>1. (processed \cup Locked)' = processed \cup Locked
  BY DEF Locked
<1> QED
  BY <1>1, DroppedStep

\* A frame that Redis refuses costs no outcome: the attempt works on without it.
LEMMA RejectedDrops ==
  ASSUME TypeOK, NothingDropped, NEW t \in tasks, PublishRejected(t)
  PROVE  NothingDropped'
<1>1. UNCHANGED <<orders, outbox, processed, events, batch>>
  BY DEF PublishRejected, tables
<1>2. (processed \cup Locked)' = processed \cup Locked
  BY <1>1 DEF Locked
<1>3. CASE t.pc = "announce" /\ Goto(t, "work")
  <2> DEFINE u == [t EXCEPT !.pc = "work"]
  <2>1. /\ tasks' = (tasks \ {t}) \cup {u} /\ u.pc = "work"
        /\ u.order = t.order /\ u.stage = t.stage /\ u.attempt = t.attempt
    BY <1>3 DEF Goto, TypeOK, Task
  <2> HIDE DEF u
  <2>2. Covered(t.order, t.stage, t.attempt)'
    BY <2>1 DEF Covered, Running
  <2> QED
    BY <1>1, <1>2, <1>3, <2>1, <2>2, DroppedStep
<1>4. CASE t.pc \in {"completed", "failed"} /\ Finish(t)
  BY <1>1, <1>2, <1>4, DroppedStep DEF Finish
<1> QED
  BY <1>3, <1>4 DEF PublishRejected

LEMMA CreateDrops ==
  ASSUME TypeOK, NothingDropped, NEW i \in Instances, NEW o \in Orders, CreateOrder(i, o)
  PROVE  NothingDropped'
<1>1. UNCHANGED <<events, processed, batch, tasks>>
  BY DEF CreateOrder, memory
<1>2. /\ outbox' = outbox \cup {[order |-> o, stage |-> NoStage, attempt |-> FIRST_ATTEMPT]}
      /\ orders' = [orders EXCEPT ![o] = "pending"]
  BY DEF CreateOrder, enqueueOutbox
<1>3. \A q \in Orders : orders'[q] # "absent" => q = o \/ orders[q] # "absent"
  BY <1>2 DEF TypeOK
<1>4. (processed \cup Locked)' = processed \cup Locked
  BY <1>1 DEF Locked
<1> QED
  BY <1>1, <1>2, <1>3, <1>4, DroppedStep

LEMMA WatchDrops ==
  ASSUME TypeOK, NothingDropped, NEW j \in Instances, Watch(j)
  PROVE  NothingDropped'
<1>1. /\ UNCHANGED <<outbox, processed, events, batch, tasks>>
      /\ \A o \in Orders : orders'[o] # "absent" => orders[o] # "absent"
  BY DEF Watch, RecomputeFulfilled, RecomputeFailed, TypeOK
<1>2. (processed \cup Locked)' = processed \cup Locked
  BY <1>1 DEF Locked
<1> QED
  BY <1>1, <1>2, DroppedStep

LEMMA DroppedNext ==
  ASSUME FaultKinds \subseteq {"commit", "publish", "redis"},
         TypeOK, NothingDropped, [Next]_vars
  PROVE  NothingDropped'
<1>1. ASSUME (\E j \in Instances : DropSubscriber(j) \/ Resubscribe(j) \/ Boot(j))
             \/ RedisStops \/ RedisStarts \/ (\E t \in tasks : PublishReplyLost(t))
             \/ (\E row \in outbox : BackoffElapses(row)) \/ UNCHANGED vars
      PROVE  NothingDropped'
  BY <1>1, QuietDrops DEF DropSubscriber, Resubscribe, Boot, RedisStops, RedisStarts,
     PublishReplyLost, BackoffElapses, vars, tables, memory
<1> QED
  BY <1>1, CallsGoOn, CreateDrops, RelayDrops, RunDrops, WatchDrops, RejectedDrops

ForgottenInv == AllListening /\ NoOrderForgotten

LEMMA ForgottenInit == Init => ForgottenInv
BY DEF Init, ForgottenInv, AllListening, NoOrderForgotten

LEMMA ForgottenStep ==
  ASSUME FaultKinds \subseteq {"commit"}, TypeOK, AttemptInv, ForgottenInv, [Next]_vars
  PROVE  ForgottenInv'
<1>1. ASSUME NEW i \in Instances, NEW o \in Orders, CreateOrder(i, o) PROVE ForgottenInv'
  <2>1. \A q \in Orders : orders'[q] = "pending" =>
          orders[q] = "pending" \/ (~AllCompleted(q) /\ DeadStages(q) = {})
    BY <1>1, AbsentOrder DEF CreateOrder, TypeOK
  <2>2. \A q \in Orders : CompletedStages(q)' = CompletedStages(q)
    BY <1>1 DEF CreateOrder, CompletedStages
  <2>3. NoOrderForgotten'
    BY <1>1, <2>1, <2>2, QuietOrders DEF CreateOrder, bus, memory, ForgottenInv
  <2> QED
    BY <1>1, <2>3 DEF ForgottenInv, AllListening, CreateOrder, bus, memory
<1>2. ASSUME NEW i \in Instances, ClaimBatch(i) \/ MarkProcessed(i) \/ CommitFails(i)
      PROVE  ForgottenInv'
  <2>1. /\ UNCHANGED <<orders, events, deadLettered, inbox, rechecks>> /\ tasks \subseteq tasks'
        /\ UNCHANGED <<redisUp, alive, subscribed>>
    BY <1>2 DEF ClaimBatch, MarkProcessed, CommitFails, tables, bus
  <2>2. \A q \in Orders : CompletedStages(q)' = CompletedStages(q)
    BY <2>1 DEF CompletedStages
  <2> QED
    BY <2>1, <2>2, QuietOrders DEF ForgottenInv, AllListening
<1>3. ASSUME NEW j \in Instances, Watch(j) PROVE ForgottenInv'
  <2>1. UNCHANGED <<redisUp, alive, subscribed>>
    BY <1>3 DEF Watch, RecomputeFulfilled, RecomputeFailed, bus
  <2> QED
    BY <1>3, <2>1, WatchForgets DEF ForgottenInv, AllListening
<1>4. ASSUME NEW t \in tasks, Run(t) PROVE ForgottenInv'
  <2>1. UNCHANGED <<redisUp, alive, subscribed>>
    BY <1>4 DEF Run, Claim, AnnounceStarted, RecordCompleted, FailTransaction, PublishOutcome,
       FailureCommits, bus
  <2> QED
    BY <1>4, <2>1, RunForgets DEF ForgottenInv, AllListening
<1>5. ASSUME (\E row \in outbox : BackoffElapses(row)) \/ UNCHANGED vars PROVE ForgottenInv'
  <2>1. UNCHANGED <<orders, events, deadLettered, bus, memory>>
    BY <1>5 DEF BackoffElapses, vars, tables
  <2>2. \A q \in Orders : CompletedStages(q)' = CompletedStages(q)
    BY <2>1 DEF CompletedStages
  <2> QED
    BY <2>1, <2>2, QuietOrders DEF ForgottenInv, AllListening, bus, memory
<1> QED
  BY <1>1, <1>2, <1>3, <1>4, <1>5, OnlyCommitsFail DEF ForgottenInv

\* What is served, and not decided, is pending.
LEMMA StagesPending ==
  ASSUME TypeOK, AttemptInv, NothingDropped
  PROVE  NoStageForgotten
<1> SUFFICES ASSUME NEW o \in Orders, NEW s \in Stages, orders[o] # "absent",
                    s \notin CompletedStages(o), <<o, s>> \notin deadLettered
             PROVE  Pending(o, s)
  BY DEF NoStageForgotten
<1> DEFINE a == Count(o, s) + 1
<1>1. Count(o, s) \in Nat /\ a <= MaxRetries
  <2>1. Count(o, s) \in Nat
    BY DEF TypeOK, Count
  <2>2. Count(o, s) <= MaxRetries /\ Count(o, s) # MaxRetries
    BY DEF AttemptInv, CounterInv
  <2> QED
    BY <2>1, <2>2, PipelineAssumption
<1>2. PICK row \in outbox : row.order = o /\ s \in HandlersOf(row) /\ row.attempt = a
  <2>1. CASE Count(o, s) = 0
    <3> DEFINE row == [order |-> o, stage |-> NoStage, attempt |-> FIRST_ATTEMPT]
    <3>1. row \in outbox
      BY DEF NothingDropped
    <3> QED
      BY <2>1, <3>1 DEF HandlersOf, FIRST_ATTEMPT
  <2>2. CASE Count(o, s) # 0
    <3>1. Has(o, s, Count(o, s), "failed")
      BY <1>1, <2>2 DEF AttemptInv, CounterInv
    <3>2. [order |-> o, stage |-> s, attempt |-> a] \in outbox
      <4> DEFINE e == EventOf(o, s, Count(o, s), "failed")
      <4>1. e \in events /\ e.order = o /\ e.stage = s /\ e.attempt = Count(o, s)
            /\ e.status = "failed"
        BY <3>1 DEF Has, EventOf
      <4> HIDE DEF e
      <4>2. e.attempt < MaxRetries
        BY <1>1, <4>1, PipelineAssumption
      <4> QED
        BY <4>1, <4>2 DEF AttemptInv, FailureHasSuccessor
    <3> QED
      BY <3>2, PipelineAssumption DEF HandlersOf
  <2> QED
    BY <2>1, <2>2
<1>3. CASE row \notin processed
  BY <1>2, <1>3 DEF Pending
<1>4. CASE row \in processed
  <2>1. Served(o, s, a)
    BY <1>2, <1>4 DEF NothingDropped
  <2>2. ~Has(o, s, a, "completed")
    BY DEF Has, EventOf, CompletedStages
  <2>3. ~Has(o, s, a, "failed")
    <3>1. ASSUME Has(o, s, a, "failed") PROVE FALSE
      <4> DEFINE e == EventOf(o, s, a, "failed")
      <4>1. e \in events /\ e.order = o /\ e.stage = s /\ e.attempt = a /\ e.status = "failed"
        BY <3>1 DEF Has, EventOf
      <4> HIDE DEF e
      <4>2. a <= Count(o, s)
        BY <4>1 DEF AttemptInv, HistoryInv
      <4> QED
        BY <1>1, <4>2
    <3> QED
      BY <3>1
  <2> QED
    BY <2>1, <2>2, <2>3 DEF Served, Pending
<1> QED
  BY <1>3, <1>4

\* While no instance and no statement fails, what a relay locks or marks is served
\* by a call, on any number of instances, with any batch size, Redis or no Redis.
THEOREM RelayDropsNothing ==
  ASSUME FaultKinds \subseteq {"commit", "publish", "redis"} PROVE Spec => []NothingDropped
<1>1. TypeOK /\ NothingDropped /\ [Next]_vars => NothingDropped'
  BY DroppedNext
<1> QED
  BY <1>1, DroppedInit, TypeCorrect, PTL DEF Spec

\* Then no stage of a placed order is forgotten: it has completed, is dead, or a
\* row or a call will still reach it.  Redis may be down, restart, refuse frames
\* and lose them, and relay transactions may fail after their rows were emitted.
THEOREM StagesKept ==
  ASSUME FaultKinds \subseteq {"commit", "publish", "redis"} PROVE Spec => []NoStageForgotten
<1>1. TypeOK /\ AttemptInv /\ NothingDropped => NoStageForgotten
  BY StagesPending
<1> QED
  BY <1>1, RelayDropsNothing, TypeCorrect, AttemptsCorrect, PTL

\* While no frame is lost either, no order is forgotten whose stages have decided
\* it: a call has yet to publish, or a frame is yet to be looked at, by which some
\* instance will settle it.
THEOREM OrdersKept ==
  ASSUME FaultKinds \subseteq {"commit"} PROVE Spec => []NoOrderForgotten
<1>1. TypeOK /\ AttemptInv /\ ForgottenInv /\ [Next]_vars => ForgottenInv'
  BY ForgottenStep
<1>2. ForgottenInv => NoOrderForgotten
  BY DEF ForgottenInv
<1> QED
  BY <1>1, <1>2, ForgottenInit, TypeCorrect, AttemptsCorrect, PTL DEF Spec

\* Each stage that has nothing coming is decided, and so is the order then.
LEMMA QuietIsSettled == TypeOK /\ NoStageForgotten /\ NoOrderForgotten => RestsSettled
<1> SUFFICES ASSUME TypeOK, NoStageForgotten, NoOrderForgotten,
                    NEW o \in Orders, Quiet(o), orders[o] = "pending"
             PROVE  FALSE
  BY DEF RestsSettled
<1>1. ~WakeUp(o) /\ \A j \in Instances : \A frame \in rechecks[j] : frame.order # o
  BY DEF Quiet, WakeUp
<1>2. ~AllCompleted(o) /\ DeadStages(o) = {}
  BY <1>1 DEF NoOrderForgotten
<1>3. \A s \in Stages : ~Pending(o, s)
  BY DEF Quiet, Pending
<1>4. ASSUME NEW s \in Stages PROVE s \in CompletedStages(o)
  <2>1. <<o, s>> \notin deadLettered
    BY <1>2 DEF DeadStages
  <2> QED
    BY <1>3, <2>1 DEF NoStageForgotten
<1>5. AllCompleted(o)
  BY <1>4 DEF AllCompleted, CompletedStages, TypeOK, Event
<1> QED
  BY <1>2, <1>5

\* So an order never comes to rest pending: what the scheduling has to provide for
\* EventuallySettled is only that what is under way goes on.
THEOREM OrdersRestSettled ==
  ASSUME FaultKinds \subseteq {"commit"} PROVE Spec => []RestsSettled
<1>1. FaultKinds \subseteq {"commit", "publish", "redis"}
  OBVIOUS
<1> QED
  BY <1>1, QuietIsSettled, StagesKept, OrdersKept, TypeCorrect, PTL

=============================================================================
