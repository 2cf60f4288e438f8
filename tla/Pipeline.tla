------------------------------ MODULE Pipeline ------------------------------
(***************************************************************************)
(* The vocabulary and the state that the parts of the order pipeline       *)
(* share: the four Postgres tables, the event bus, and the memory of each  *)
(* application instance.  Every component module extends this one and      *)
(* contributes the actions of its part; OrderOutbox composes them.         *)
(***************************************************************************)
EXTENDS Integers, FiniteSets

CONSTANTS
    Orders,      \* the orders that clients may place
    Stages,      \* STAGES: what an order fans out to, e.g. payment, inventory
    Instances,   \* the processes that run the application image
    NoStage,     \* outbox.stage = NULL: the row of a new order
    MaxRetries,  \* MAX_RETRIES: the failure that dead-letters a stage
    BatchSize,   \* OUTBOX_BATCH_SIZE: the LIMIT of a relay tick
    FaultKinds,  \* which faults may occur (see Fault)
    MaxFaults    \* model bound: how many of them in one behaviour

ASSUME PipelineAssumption ==
    /\ NoStage \notin Stages
    /\ Stages # {} /\ Instances # {}
    /\ MaxRetries \in Nat \ {0} /\ BatchSize \in Nat \ {0}
    /\ FaultKinds \subseteq {"commit", "query", "publish", "redis", "crash"}
    /\ MaxFaults \in Nat

VARIABLES
    \* Postgres: what committed statements have made of the four tables.
    orders,        \* orders.status of each order, "absent" before its row exists
    outbox,        \* the rows of outbox
    processed,     \* those with processed = true
    due,           \* those whose available_at has passed
    events,        \* the rows of order_stage_events
    retryCount,    \* stage_retries.retry_count, 0 before the row exists
    deadLettered,  \* the <<order, stage>> pairs with status = 'dead_lettered'
    \* Redis and the subscriber connection of each instance.
    redisUp,
    subscribed,    \* instances Redis delivers frames to
    \* The memory of the instances.
    alive,
    batch,         \* rows locked by the relay's open transaction, {} between ticks
    tasks,         \* the attempts in progress: StageRunner.run calls not yet returned
    inbox,         \* settled frames for which recompute has yet to issue its first UPDATE
    rechecks,      \* ... and for which it has yet to issue the second
    \* Not part of the program: the faults so far.
    faults

tables   == <<orders, outbox, processed, due, events, retryCount, deadLettered>>
bus      == <<redisUp, subscribed, inbox>>
memory   == <<alive, batch, tasks, rechecks>>
vars     == <<tables, bus, memory, faults>>

\* Mutants: attempts numbered from 0.
FIRST_ATTEMPT_Zero == 0

FIRST_ATTEMPT == 1
Attempts      == Nat \ {0}
OrderStatuses == {"pending", "fulfilled", "failed"}
StageStatuses == {"started", "completed", "failed"}

\* An outbox row.  Its payload repeats order and attempt.
Row == [order: Orders, stage: Stages \cup {NoStage}, attempt: Attempts]

\* A row of order_stage_events, unique in these four columns (uq_stage_attempt),
\* and equally a frame of the stage-events channel.
Event == [order: Orders, stage: Stages, attempt: Attempts, status: StageStatuses]

EventOf(o, s, a, status) == [order |-> o, stage |-> s, attempt |-> a, status |-> status]

\* A call of StageRunner.run, with the step of it that comes next: insert the
\* started row, publish it, do the work and record what came of it, or publish
\* the outcome it has recorded.
Task == [at: Instances, order: Orders, stage: Stages, attempt: Attempts,
         pc: {"claim", "announce", "work", "completed", "failed"}]

TypeOK ==
    /\ orders \in [Orders -> OrderStatuses \cup {"absent"}]
    /\ outbox \subseteq Row /\ processed \subseteq outbox /\ due \subseteq outbox
    /\ events \subseteq Event
    /\ retryCount \in [Orders -> [Stages -> Nat]]
    /\ deadLettered \subseteq Orders \X Stages
    /\ redisUp \in BOOLEAN /\ subscribed \subseteq alive /\ alive \subseteq Instances
    /\ batch \in [Instances -> SUBSET outbox]
    /\ tasks \subseteq Task
    /\ inbox \in [Instances -> SUBSET Event]
    /\ rechecks \in [Instances -> SUBSET Event]
    /\ faults \in 0..MaxFaults

Init ==
    /\ orders = [o \in Orders |-> "absent"]
    /\ outbox = {} /\ processed = {} /\ due = {}
    /\ events = {}
    /\ retryCount = [o \in Orders |-> [s \in Stages |-> 0]]
    /\ deadLettered = {}
    /\ redisUp = TRUE /\ subscribed = Instances /\ alive = Instances
    /\ batch = [i \in Instances |-> {}]
    /\ tasks = {}
    /\ inbox = [i \in Instances |-> {}] /\ rechecks = [i \in Instances |-> {}]
    /\ faults = 0

-----------------------------------------------------------------------------

\* A step that the environment, not the program, decides on:
\*   "commit"   a relay transaction fails after its rows were emitted
\*   "query"    a stage's or the watcher's statement fails, or its reply is lost
\*   "publish"  Redis answers a PUBLISH with an error
\*   "redis"    Redis or a connection to it goes down
\*   "crash"    an instance dies
Fault(kind) == kind \in FaultKinds /\ faults < MaxFaults /\ faults' = faults + 1

\* The insert of enqueueOutbox: unprocessed, and due at once or after a backoff.
enqueueOutbox(row, dueNow) ==
    /\ outbox' = outbox \cup {row}
    /\ due' = IF dueNow THEN due \cup {row} ELSE due

=============================================================================
