--------------------------- MODULE OrdersService ----------------------------
(***************************************************************************)
(* OrdersService: POST /orders.  Listing orders and dead letters reads     *)
(* the tables and changes nothing.                                         *)
(***************************************************************************)
EXTENDS Pipeline

\* create: one transaction inserts the order and its untagged outbox row.
\* A request that is refused or whose transaction fails leaves no trace.
CreateOrder(i, o) ==
    /\ i \in alive
    /\ orders[o] = "absent"
    /\ orders' = [orders EXCEPT ![o] = "pending"]
    /\ enqueueOutbox([order |-> o, stage |-> NoStage, attempt |-> FIRST_ATTEMPT], TRUE)
    /\ UNCHANGED <<processed, events, retryCount, deadLettered, bus, memory, faults>>

=============================================================================
