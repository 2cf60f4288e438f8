---------------------------- MODULE StageEvents -----------------------------
(***************************************************************************)
(* StageEventsService over RedisEventBus: frames are broadcast to every    *)
(* subscribed instance and to no one else, and nothing is kept for an      *)
(* instance that is not subscribed at that moment.  Also the life of the   *)
(* instances and of Redis, which decides who is subscribed.                *)
(***************************************************************************)
EXTENDS Pipeline

\* Mutants: a watcher that listens to completions only.
Settled_CompletedOnly(frame) == frame.status = "completed"

\* settled: a started frame decides nothing and the watcher never sees it.
Settled(frame) == frame.status # "started"

\* PUBLISH, delivery to each subscriber, dispatch and the settled filter.
Broadcast(frame) ==
    inbox' = [j \in Instances |->
                IF j \in subscribed /\ Settled(frame) THEN inbox[j] \cup {frame} ELSE inbox[j]]

\* Redis goes down.  Every subscriber connection closes; of the frames under
\* way some may never arrive.
RedisStops ==
    /\ redisUp
    /\ Fault("redis")
    /\ redisUp' = FALSE
    /\ subscribed' = {}
    /\ \E lost \in SUBSET UNION {inbox[j] : j \in Instances} :
         inbox' = [j \in Instances |-> inbox[j] \ lost]
    /\ UNCHANGED <<tables, memory>>

RedisStarts ==
    /\ ~redisUp
    /\ redisUp' = TRUE
    /\ UNCHANGED <<tables, subscribed, inbox, memory, faults>>

\* One subscriber connection breaks while Redis and the publishers carry on.
DropSubscriber(j) ==
    /\ j \in subscribed
    /\ Fault("redis")
    /\ subscribed' = subscribed \ {j}
    /\ \E lost \in SUBSET inbox[j] : inbox' = [inbox EXCEPT ![j] = @ \ lost]
    /\ UNCHANGED <<tables, redisUp, memory>>

\* ioredis reconnects and subscribes again; what was published meanwhile is gone.
Resubscribe(j) ==
    /\ redisUp /\ j \in alive \ subscribed
    /\ subscribed' = subscribed \cup {j}
    /\ UNCHANGED <<tables, redisUp, inbox, memory, faults>>

\* An instance dies: its transaction rolls back and everything it held is lost.
Crash(i) ==
    /\ i \in alive
    /\ Fault("crash")
    /\ alive' = alive \ {i}
    /\ subscribed' = subscribed \ {i}
    /\ batch' = [batch EXCEPT ![i] = {}]
    /\ tasks' = {t \in tasks : t.at # i}
    /\ inbox' = [inbox EXCEPT ![i] = {}]
    /\ rechecks' = [rechecks EXCEPT ![i] = {}]
    /\ UNCHANGED <<tables, redisUp>>

\* It is started again.  onModuleInit awaits the SUBSCRIBE, so neither HTTP nor
\* the poller runs before Redis has answered.
Boot(i) ==
    /\ i \in Instances \ alive /\ redisUp
    /\ alive' = alive \cup {i}
    /\ subscribed' = subscribed \cup {i}
    /\ UNCHANGED <<tables, redisUp, inbox, batch, tasks, rechecks, faults>>

=============================================================================
