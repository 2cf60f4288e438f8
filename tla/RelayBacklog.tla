---------------------------- MODULE RelayBacklog ----------------------------
(***************************************************************************)
(* OutboxRelayService.claimAndEmit under a load that never ends: which of  *)
(* the due rows a full batch takes, and whether that is ever a given row.  *)
(* created_at is now(), the time at which the inserting transaction began, *)
(* so a row may become visible after younger ones.  OutboxRelay leaves the *)
(* choice of rows open; this module is about the choice and nothing else.  *)
(***************************************************************************)
EXTENDS Integers, FiniteSets

CONSTANTS
    Rows,       \* identities for unprocessed rows, used again once processed
    Instances,  \* the processes that poll
    BatchSize,  \* OUTBOX_BATCH_SIZE
    MaxFaults   \* model bound: ticks that fail in one behaviour

ASSUME BacklogAssumption ==
    /\ IsFiniteSet(Rows) /\ Instances # {}
    /\ BatchSize \in Nat \ {0} /\ MaxFaults \in Nat

VARIABLES
    state,   \* of each row: "none", "open" (not committed), "backoff" or "due"
    older,   \* created_at: pairs of unprocessed rows, the one created first in front
    batch,   \* the rows an instance's open transaction has locked
    passed,  \* not in the code: how many batches have passed over a due row
    faults

vars == <<state, older, batch, passed, faults>>

\* The unprocessed rows, those not yet committed included.
Live == {r \in Rows : state[r] # "none"}

Before(q, r) == <<q, r>> \in older

TypeOK ==
    /\ state \in [Rows -> {"none", "open", "backoff", "due"}]
    /\ older \subseteq Live \X Live
    /\ batch \in [Instances -> SUBSET {r \in Rows : state[r] = "due"}]
    /\ passed \in [Rows -> Nat]
    /\ faults \in 0..MaxFaults

Init ==
    /\ state = [r \in Rows |-> "none"]
    /\ older = {}
    /\ batch = [i \in Instances |-> {}]
    /\ passed = [r \in Rows |-> 0]
    /\ faults = 0

-----------------------------------------------------------------------------
(* Orders and retries arrive.                                               *)

\* What is left of the order when rows are gone.
OlderWithout(gone) == {p \in older : p[1] \notin gone /\ p[2] \notin gone}

\* A transaction that will insert a row begins: this is the row's created_at.
Begin(r) ==
    /\ state[r] = "none"
    /\ state' = [state EXCEPT ![r] = "open"]
    /\ older' = older \cup (Live \X {r})
    /\ UNCHANGED <<batch, passed, faults>>

\* It commits a new order's row, due at once, or a retry, due after its backoff.
Commit(r) ==
    /\ state[r] = "open"
    /\ \E s \in {"due", "backoff"} : state' = [state EXCEPT ![r] = s]
    /\ UNCHANGED <<older, batch, passed, faults>>

\* Or it rolls back.
Abort(r) ==
    /\ state[r] = "open"
    /\ state' = [state EXCEPT ![r] = "none"]
    /\ older' = OlderWithout({r})
    /\ UNCHANGED <<batch, passed, faults>>

BackoffElapses(r) ==
    /\ state[r] = "backoff"
    /\ state' = [state EXCEPT ![r] = "due"]
    /\ UNCHANGED <<older, batch, passed, faults>>

-----------------------------------------------------------------------------
(* The relay.                                                               *)

Locked == UNION {batch[i] : i \in Instances}

\* Mutants: a poller that reads what is not committed.
Claimable_Uncommitted == {r \in Rows : state[r] \in {"open", "due"}} \ Locked

\* processed = false, available_at <= now(), SKIP LOCKED.
Claimable == {r \in Rows : state[r] = "due"} \ Locked

\* Mutants: ORDER BY created_at DESC.
Oldest_Newest == {r \in Claimable : Cardinality({q \in Claimable : Before(r, q)}) < BatchSize}

\* The first n rows of a set by created_at.
FirstOf(S, n) == {r \in S : Cardinality({q \in S : Before(q, r)}) < n}

\* ORDER BY created_at, id LIMIT BatchSize.
Oldest == FirstOf(Claimable, BatchSize)

\* Where the count of passed stops, out of reach of BoundedWait.
MaxPassed == Cardinality(Rows) + MaxFaults

ClaimBatch(i) ==
    /\ batch[i] = {} /\ Claimable # {}
    /\ batch' = [batch EXCEPT ![i] = Oldest]
    /\ passed' = [r \in Rows |-> IF r \in Claimable \ Oldest /\ passed[r] < MaxPassed
                                  THEN passed[r] + 1 ELSE passed[r]]
    /\ UNCHANGED <<state, older, faults>>

\* UPDATE, commit; the rows are none of the relay's business any more.
MarkProcessed(i) ==
    /\ batch[i] # {}
    /\ state' = [r \in Rows |-> IF r \in batch[i] THEN "none" ELSE state[r]]
    /\ older' = OlderWithout(batch[i])
    /\ passed' = [r \in Rows |-> IF r \in batch[i] THEN 0 ELSE passed[r]]
    /\ batch' = [batch EXCEPT ![i] = {}]
    /\ UNCHANGED faults

\* The transaction fails, or its instance dies: the locks go, the rows stay.
Rollback(i) ==
    /\ batch[i] # {}
    /\ faults < MaxFaults /\ faults' = faults + 1
    /\ batch' = [batch EXCEPT ![i] = {}]
    /\ UNCHANGED <<state, older, passed>>

Next ==
    \/ \E r \in Rows : Begin(r) \/ Commit(r) \/ Abort(r) \/ BackoffElapses(r)
    \/ \E i \in Instances : ClaimBatch(i) \/ MarkProcessed(i) \/ Rollback(i)

\* The interval fires, a tick ends, time passes.  Whether orders arrive, and
\* whether a transaction that began ever commits, is nobody's obligation.
FairSpec ==
    /\ Init /\ [][Next]_vars
    /\ \A i \in Instances : WF_vars(ClaimBatch(i)) /\ WF_vars(MarkProcessed(i))
    /\ \A r \in Rows : WF_vars(BackoffElapses(r))

-----------------------------------------------------------------------------

\* The rows that may still be claimed before r.
Ahead(r) == {q \in Rows \ Locked : Before(q, r)}

\* Waiting is bounded whatever arrives meanwhile: every batch that passes over a
\* due row takes BatchSize of those ahead of it, and only a failed tick puts
\* rows back (outbox-relay 60-62).
BoundedWait ==
    \A r \in Rows : state[r] = "due" /\ r \notin Locked =>
      passed[r] * BatchSize + Cardinality(Ahead(r)) < Cardinality(Rows) + faults * BatchSize

\* No row is starved, neither a retry by the orders that keep coming in nor an
\* order by the retries of older ones.
NeverStarved == \A r \in Rows : state[r] \in {"backoff", "due"} ~> state[r] = "none"

=============================================================================
