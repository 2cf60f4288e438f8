---------------------------- MODULE OrderStatus -----------------------------
(***************************************************************************)
(* OrderStatusService: for every settled frame an instance receives it     *)
(* issues two guarded UPDATEs.  They are two statements on the pool, not   *)
(* one transaction, so the world moves between them.  Nothing else ever    *)
(* sets the status of an order.                                            *)
(***************************************************************************)
EXTENDS Pipeline

CompletedStages(o) == {e.stage : e \in {f \in events : f.order = o /\ f.status = "completed"}}

DeadStages(o) == {s \in Stages : <<o, s>> \in deadLettered}

\* Mutants: an order is fulfilled by its first completed stage.
AllCompleted_Any(o) == CompletedStages(o) # {}

\* count(DISTINCT stage) = STAGE_COUNT
AllCompleted(o) == CompletedStages(o) = Stages

\* The first UPDATE of recompute.
RecomputeFulfilled(j, frame) ==
    /\ frame \in inbox[j]
    /\ inbox' = [inbox EXCEPT ![j] = @ \ {frame}]
    /\ rechecks' = [rechecks EXCEPT ![j] = @ \cup {frame}]
    /\ orders' = IF orders[frame.order] = "pending" /\ AllCompleted(frame.order)
                   THEN [orders EXCEPT ![frame.order] = "fulfilled"] ELSE orders
    /\ UNCHANGED <<outbox, processed, due, events, retryCount, deadLettered, redisUp, subscribed,
                   alive, batch, tasks, faults>>

\* The second.
RecomputeFailed(j, frame) ==
    /\ frame \in rechecks[j]
    /\ rechecks' = [rechecks EXCEPT ![j] = @ \ {frame}]
    /\ orders' = IF orders[frame.order] = "pending" /\ DeadStages(frame.order) # {}
                   THEN [orders EXCEPT ![frame.order] = "failed"] ELSE orders
    /\ UNCHANGED <<outbox, processed, due, events, retryCount, deadLettered, bus, alive, batch,
                   tasks, faults>>

\* Either statement fails: recompute rejects, the error is logged, the frame is
\* spent and the remaining statement is not issued.
RecomputeError(j, frame) ==
    /\ Fault("query")
    /\ \/ /\ frame \in inbox[j]
          /\ inbox' = [inbox EXCEPT ![j] = @ \ {frame}] /\ UNCHANGED rechecks
       \/ /\ frame \in rechecks[j]
          /\ rechecks' = [rechecks EXCEPT ![j] = @ \ {frame}] /\ UNCHANGED inbox
    /\ UNCHANGED <<tables, redisUp, subscribed, alive, batch, tasks>>

=============================================================================
