--------------------------- MODULE OrderLifecycle ---------------------------
(***************************************************************************)
(* What the pipeline promises of an order, with no relay, no bus and no    *)
(* instances: each stage is tried one attempt at a time until it completes *)
(* or has failed MaxRetries times, and an order leaves "pending" once, for *)
(* the reason its stages give.  OrderOutbox implements it under every      *)
(* fault; that something happens at all is not part of it.                 *)
(***************************************************************************)
EXTENDS Integers

CONSTANTS Orders, Stages, MaxRetries

VARIABLES
    status,    \* of each order: "absent", "pending", "fulfilled" or "failed"
    phase,     \* of each stage: "waiting", "running", "completed" or "dead"
    failures   \* how often each stage has failed

lifecycle == <<status, phase, failures>>

Init ==
    /\ status = [o \in Orders |-> "absent"]
    /\ phase = [o \in Orders |-> [s \in Stages |-> "waiting"]]
    /\ failures = [o \in Orders |-> [s \in Stages |-> 0]]

Place(o) ==
    /\ status[o] = "absent"
    /\ status' = [status EXCEPT ![o] = "pending"]
    /\ UNCHANGED <<phase, failures>>

\* An order's other stages go on when one of them has already failed it.
Start(o, s) ==
    /\ status[o] # "absent" /\ phase[o][s] = "waiting"
    /\ phase' = [phase EXCEPT ![o][s] = "running"]
    /\ UNCHANGED <<status, failures>>

Complete(o, s) ==
    /\ phase[o][s] = "running"
    /\ phase' = [phase EXCEPT ![o][s] = "completed"]
    /\ UNCHANGED <<status, failures>>

Fail(o, s) ==
    /\ phase[o][s] = "running"
    /\ failures' = [failures EXCEPT ![o][s] = @ + 1]
    /\ phase' = [phase EXCEPT ![o][s] =
                   IF failures[o][s] + 1 < MaxRetries THEN "waiting" ELSE "dead"]
    /\ UNCHANGED status

Fulfil(o) ==
    /\ status[o] = "pending"
    /\ \A s \in Stages : phase[o][s] = "completed"
    /\ status' = [status EXCEPT ![o] = "fulfilled"]
    /\ UNCHANGED <<phase, failures>>

Reject(o) ==
    /\ status[o] = "pending"
    /\ \E s \in Stages : phase[o][s] = "dead"
    /\ status' = [status EXCEPT ![o] = "failed"]
    /\ UNCHANGED <<phase, failures>>

Next ==
    \E o \in Orders :
      \/ Place(o) \/ Fulfil(o) \/ Reject(o)
      \/ \E s \in Stages : Start(o, s) \/ Complete(o, s) \/ Fail(o, s)

Spec == Init /\ [][Next]_lifecycle

=============================================================================
