---------------------------- MODULE OutboxRelay -----------------------------
(***************************************************************************)
(* OutboxRelayService: the poller that turns due outbox rows into calls of *)
(* the stage handlers of its own instance.  The rows are emitted inside    *)
(* the transaction that marks them, so between ClaimBatch and the end of   *)
(* the transaction the stages already run while the rows are only locked.  *)
(***************************************************************************)
EXTENDS Pipeline

\* Rows another connection's FOR UPDATE ... SKIP LOCKED passes over.
Locked == UNION {batch[i] : i \in Instances}

\* Mutants: a poller that takes a row whose stages have begun for one in progress.
Claimable_Untouched ==
    {row \in (outbox \cap due) \ (processed \cup Locked) : \A e \in events : e.order # row.order}

\* Mutants: a SELECT that takes no locks.
Claimable_NoLocks == (outbox \cap due) \ processed

\* processed = false AND available_at <= now(), not locked by another tick.
Claimable == (outbox \cap due) \ (processed \cup Locked)

\* The stages whose handlers listen to the event a row is emitted under:
\* all of them to order.created, one to <stage>.retry.
HandlersOf(row) == IF row.stage = NoStage THEN Stages ELSE {row.stage}

\* The handler calls that emitting rows on instance i starts.  A call equal to
\* one that waits for its claim on the same instance is the same element: the
\* first insert of the started row decides for both.
EmittedBy(i, rows) ==
    UNION {{[at |-> i, order |-> row.order, stage |-> s, attempt |-> row.attempt,
             pc |-> "claim"] : s \in HandlersOf(row)} : row \in rows}

\* poll and claimAndEmit up to the UPDATE.  batch[i] = {} is running = false;
\* a tick that finds no row changes nothing.  Which due rows a full batch holds
\* (ORDER BY) is left open.
ClaimBatch(i) ==
    /\ i \in alive
    /\ batch[i] = {}
    /\ \E rows \in (SUBSET Claimable) \ {{}} :
         /\ Cardinality(rows) <= BatchSize
         /\ batch' = [batch EXCEPT ![i] = rows]
         /\ tasks' = tasks \cup EmittedBy(i, rows)
    /\ UNCHANGED <<tables, bus, alive, rechecks, faults>>

\* Mutants: the UPDATE repeats the condition of the SELECT, not the claimed ids.
MarkProcessed_AllDue(i) ==
    /\ batch[i] # {}
    /\ processed' = processed \cup (outbox \cap due)
    /\ batch' = [batch EXCEPT ![i] = {}]
    /\ UNCHANGED <<orders, outbox, due, events, retryCount, deadLettered, bus, alive,
                   tasks, rechecks, faults>>

\* The UPDATE of the claimed ids and the commit, which releases the locks.
MarkProcessed(i) ==
    /\ batch[i] # {}
    /\ processed' = processed \cup batch[i]
    /\ batch' = [batch EXCEPT ![i] = {}]
    /\ UNCHANGED <<orders, outbox, due, events, retryCount, deadLettered, bus, alive,
                   tasks, rechecks, faults>>

\* The UPDATE or the commit fails: the rows stay unprocessed, to be claimed and
\* emitted once more, while the calls already emitted go on.
CommitFails(i) ==
    /\ batch[i] # {}
    /\ Fault("commit")
    /\ batch' = [batch EXCEPT ![i] = {}]
    /\ UNCHANGED <<tables, bus, alive, tasks, rechecks>>

\* available_at passes.
BackoffElapses(row) ==
    /\ row \in outbox \ due
    /\ due' = due \cup {row}
    /\ UNCHANGED <<orders, outbox, processed, events, retryCount, deadLettered, bus, memory,
                   faults>>

=============================================================================
