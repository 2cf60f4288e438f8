---------------------------- MODULE OutboxTable -----------------------------
(***************************************************************************)
(* What the outbox promises of its rows, with no orders, no stages and no  *)
(* bus: a row is inserted once, a relay that is due to see it holds it     *)
(* alone, and what is marked processed was held by whoever marks it and is *)
(* never held again.  A relay may let go of its rows at any time, and they *)
(* are handed out once more.  OrderOutbox implements it under every fault; *)
(* that a row is handed out at all is not part of it.                      *)
(***************************************************************************)
EXTENDS FiniteSets, Integers

CONSTANTS Instances, BatchSize

VARIABLES
    inserted,   \* the rows there are
    due,        \* those that relays may see
    processed,  \* those that are done with
    held        \* the rows each instance has been handed

table == <<inserted, due, processed, held>>

Init ==
    /\ inserted = {} /\ due = {} /\ processed = {}
    /\ held = [i \in Instances |-> {}]

Insert(row) ==
    /\ row \notin inserted
    /\ inserted' = inserted \cup {row}
    /\ due' \in {due, due \cup {row}}
    /\ UNCHANGED <<processed, held>>

BecomesDue(row) ==
    /\ row \in inserted \ due
    /\ due' = due \cup {row}
    /\ UNCHANGED <<inserted, processed, held>>

Free == due \ (processed \cup UNION {held[i] : i \in Instances})

HandOut(i) ==
    /\ held[i] = {}
    /\ \E rows \in (SUBSET Free) \ {{}} :
         /\ Cardinality(rows) <= BatchSize
         /\ held' = [held EXCEPT ![i] = rows]
    /\ UNCHANGED <<inserted, due, processed>>

Finish(i) ==
    /\ processed' = processed \cup held[i]
    /\ held' = [held EXCEPT ![i] = {}]
    /\ UNCHANGED <<inserted, due>>

LetGo(i) ==
    /\ held' = [held EXCEPT ![i] = {}]
    /\ UNCHANGED <<inserted, due, processed>>

\* Any row may be inserted, hence the prime.
Next ==
    \/ \E row \in inserted' : Insert(row) \/ BecomesDue(row)
    \/ \E i \in Instances : HandOut(i) \/ Finish(i) \/ LetGo(i)

Spec == Init /\ [][Next]_table

-----------------------------------------------------------------------------

\* What is held is held by one, due, and not done with.
HeldAlone ==
    \A i \in Instances :
      /\ held[i] \subseteq due \ processed
      /\ \A j \in Instances \ {i} : held[i] \cap held[j] = {}

=============================================================================
