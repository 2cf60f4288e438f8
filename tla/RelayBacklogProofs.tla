------------------------- MODULE RelayBacklogProofs --------------------------
(***************************************************************************)
(* SKIP LOCKED keeps any number of pollers apart, and ORDER BY created_at  *)
(* bounds how often a due row is passed over, for any number of rows and   *)
(* instances, any batch size and any number of failed ticks.               *)
(***************************************************************************)
EXTENDS RelayBacklog, FiniteSetTheorems, TLAPS

-----------------------------------------------------------------------------
(* created_at orders the unprocessed rows.                                   *)

Ordered ==
    /\ older \subseteq Live \X Live
    /\ \A q \in Live : ~Before(q, q)
    /\ \A p, q, r \in Live : Before(p, q) /\ Before(q, r) => Before(p, r)
    /\ \A q, r \in Live : q = r \/ Before(q, r) \/ Before(r, q)

\* A row that is created comes last.
LEMMA BeginKeepsOrder ==
  ASSUME Ordered, state \in [Rows -> {"none", "open", "backoff", "due"}],
         NEW r \in Rows, Begin(r)
  PROVE  Ordered'
<1>1. Live' = Live \cup {r} /\ r \notin Live
  BY DEF Begin, Live
<1>2. \A p, q : Before(p, q)' <=> Before(p, q) \/ (p \in Live /\ q = r)
  BY DEF Begin, Before
<1>3. \A p, q : Before(p, q) => p \in Live /\ q \in Live
  BY DEF Ordered, Before
<1>4. older' \subseteq Live' \X Live'
  BY <1>1 DEF Begin, Ordered
<1> QED
  BY <1>1, <1>2, <1>3, <1>4 DEF Ordered

\* Rows that are gone leave the order of the others as it was.
LEMMA LeavingKeepsOrder ==
  ASSUME Ordered, NEW gone, older' = OlderWithout(gone), Live' = Live \ gone
  PROVE  Ordered'
<1>1. \A p, q : Before(p, q)' <=> Before(p, q) /\ p \notin gone /\ q \notin gone
  BY DEF OlderWithout, Before
<1>2. older' \subseteq Live' \X Live'
  BY DEF OlderWithout, Ordered
<1> QED
  BY <1>1, <1>2 DEF Ordered

-----------------------------------------------------------------------------
(* How many rows the oldest n are.                                           *)

Rank(S, r) == Cardinality({q \in S : Before(q, r)})

LEMMA RankRises ==
  ASSUME Ordered, NEW S \in SUBSET Live, IsFiniteSet(S)
  PROVE  /\ \A r \in S : Rank(S, r) \in 0..Cardinality(S) - 1
         /\ \A q, r \in S : q # r => Rank(S, q) # Rank(S, r)
<1> DEFINE Pred(r) == {q \in S : Before(q, r)}
<1>1. \A r : IsFiniteSet(Pred(r)) /\ Cardinality(Pred(r)) \in Nat
  BY FS_Subset, FS_CardinalityType
<1>2. ASSUME NEW r \in S PROVE Rank(S, r) \in 0..Cardinality(S) - 1
  <2>1. Pred(r) \in SUBSET S /\ Pred(r) # S
    BY DEF Ordered
  <2>2. Cardinality(Pred(r)) <= Cardinality(S) /\ Cardinality(Pred(r)) # Cardinality(S)
    BY <2>1, FS_Subset
  <2>3. Cardinality(S) \in Nat
    BY FS_CardinalityType
  <2> QED
    BY <1>1, <2>2, <2>3 DEF Rank
<1>3. ASSUME NEW q \in S, NEW r \in S, Before(q, r) PROVE Rank(S, q) # Rank(S, r)
  <2>1. Pred(q) \in SUBSET Pred(r)
    BY <1>3 DEF Ordered
  <2>2. q \in Pred(r) /\ q \notin Pred(q)
    BY <1>3 DEF Ordered
  <2>3. Cardinality(Pred(r)) # Cardinality(Pred(q))
    BY <1>1, <2>1, <2>2, FS_Subset
  <2> QED
    BY <2>3 DEF Rank
<1> QED
  BY <1>2, <1>3 DEF Ordered

\* At most n, and exactly n if there are as many.
LEMMA FirstOfCounts ==
  ASSUME Ordered, NEW S \in SUBSET Live, IsFiniteSet(S), NEW n \in Nat
  PROVE  /\ FirstOf(S, n) \subseteq S /\ IsFiniteSet(FirstOf(S, n))
         /\ Cardinality(FirstOf(S, n)) <= n
         /\ n <= Cardinality(S) => Cardinality(FirstOf(S, n)) = n
<1> DEFINE F == FirstOf(S, n)
           size == Cardinality(S)
           rank == [r \in S |-> Rank(S, r)]
           first == [r \in F |-> Rank(S, r)]
<1>1. F = {r \in S : Rank(S, r) < n} /\ size \in Nat
  BY FS_CardinalityType DEF FirstOf, Rank
<1>2. /\ \A r \in S : Rank(S, r) \in 0..size - 1
      /\ \A q, r \in S : q # r => Rank(S, q) # Rank(S, r)
  BY RankRises
<1>3. IsFiniteSet(0..n - 1) /\ Cardinality(0..n - 1) = n
  BY FS_Interval
<1>4. first \in [F -> 0..n - 1] /\ \A q, r \in F : first[q] = first[r] => q = r
  BY <1>1, <1>2
<1>5. first \in Injection(F, 0..n - 1)
  BY <1>4 DEF Injection, IsInjective
<1>6. IsFiniteSet(F) /\ Cardinality(F) <= n
        /\ (Cardinality(F) = n <=> first \in Surjection(F, 0..n - 1))
  BY <1>3, <1>5, FS_Injection
<1>7. ASSUME n <= size PROVE Cardinality(F) = n
  <2>1. IsFiniteSet(0..size - 1) /\ Cardinality(0..size - 1) = size
    BY <1>1, FS_Interval
  <2>2. rank \in Injection(S, 0..size - 1)
    BY <1>2 DEF Injection, IsInjective
  <2>3. rank \in Surjection(S, 0..size - 1)
    BY <2>1, <2>2, FS_Injection
  <2>4. \A k \in 0..size - 1 : \E r \in S : Rank(S, r) = k
    BY <2>3 DEF Surjection
  <2>5. \A k \in 0..n - 1 : \E r \in F : first[r] = k
    BY <1>1, <1>7, <2>4
  <2>6. first \in Surjection(F, 0..n - 1)
    BY <1>4, <2>5 DEF Surjection
  <2> QED
    BY <1>6, <2>6
<1> QED
  BY <1>1, <1>6, <1>7

-----------------------------------------------------------------------------
(* Types, and who holds what.                                                *)

Disjoint == \A i, j \in Instances : i # j => batch[i] \cap batch[j] = {}

HolderInv == TypeOK /\ Disjoint

LEMMA HolderInit == Init => HolderInv
BY BacklogAssumption DEF Init, HolderInv, TypeOK, Disjoint, Live

Due == {r \in Rows : state[r] = "due"}

\* The steps of rows that no tick holds.
LEMMA UnheldStep ==
  ASSUME HolderInv, UNCHANGED <<batch, passed, faults>>,
         state' \in [Rows -> {"none", "open", "backoff", "due"}],
         older' \subseteq Live' \X Live', Due \subseteq Due'
  PROVE  HolderInv'
<1>1. batch' \in [Instances -> SUBSET Due']
  BY DEF HolderInv, TypeOK, Due
<1> QED
  BY <1>1 DEF HolderInv, TypeOK, Disjoint, Due

LEMMA RowsHeld ==
  ASSUME HolderInv, NEW r \in Rows, Begin(r) \/ Commit(r) \/ Abort(r) \/ BackoffElapses(r)
  PROVE  HolderInv'
<1>1. /\ state \in [Rows -> {"none", "open", "backoff", "due"}] /\ older \subseteq Live \X Live
  BY DEF HolderInv, TypeOK
<1>2. ASSUME NEW s \in {"open", "backoff", "due"}, state' = [state EXCEPT ![r] = s],
             state[r] # "due", UNCHANGED <<batch, passed, faults>>,
             older' = older \/ older' = older \cup (Live \X {r})
      PROVE  HolderInv'
  <2>1. /\ state' \in [Rows -> {"none", "open", "backoff", "due"}]
        /\ Live \cup {r} \subseteq Live' /\ Due \subseteq Due'
    BY <1>1, <1>2 DEF Live, Due
  <2>2. older' \subseteq Live' \X Live'
    BY <1>1, <1>2, <2>1
  <2> QED
    BY <1>2, <2>1, <2>2, UnheldStep
<1>3. CASE Begin(r)
  BY <1>2, <1>3 DEF Begin
<1>4. CASE Commit(r)
  BY <1>2, <1>4 DEF Commit
<1>5. CASE BackoffElapses(r)
  BY <1>2, <1>5 DEF BackoffElapses
<1>6. CASE Abort(r)
  <2>1. /\ state' = [state EXCEPT ![r] = "none"] /\ older' = OlderWithout({r})
        /\ state[r] = "open" /\ UNCHANGED <<batch, passed, faults>>
    BY <1>6 DEF Abort
  <2>2. /\ state' \in [Rows -> {"none", "open", "backoff", "due"}]
        /\ Live' = Live \ {r} /\ Due \subseteq Due'
    BY <1>1, <2>1 DEF Live, Due
  <2>3. older' \subseteq Live' \X Live'
    BY <1>1, <2>1, <2>2 DEF OlderWithout
  <2> QED
    BY <2>1, <2>2, <2>3, UnheldStep
<1> QED
  BY <1>3, <1>4, <1>5, <1>6

\* A tick locks rows that are due and that no open transaction has locked.
LEMMA ClaimKeepsApart ==
  ASSUME HolderInv, NEW i \in Instances, ClaimBatch(i)
  PROVE  HolderInv'
<1>1. /\ batch' = [batch EXCEPT ![i] = Oldest] /\ UNCHANGED <<state, older, faults>>
      /\ passed' \in [Rows -> Nat] /\ batch \in [Instances -> SUBSET Due]
  BY DEF ClaimBatch, HolderInv, TypeOK, Due
<1>2. Oldest \subseteq Due \ Locked
  BY DEF Oldest, FirstOf, Claimable, Due
<1>3. batch' \in [Instances -> SUBSET Due] /\ Due' = Due
  BY <1>1, <1>2 DEF Due
<1>4. \A j \in Instances : batch[j] \cap Oldest = {}
  BY <1>2 DEF Locked
<1>5. Disjoint'
  BY <1>1, <1>4 DEF HolderInv, Disjoint
<1> QED
  BY <1>1, <1>3, <1>5 DEF HolderInv, TypeOK, Live, Due

\* It gives back what it locked: nothing that another tick holds.
LEMMA ReleaseKeepsApart ==
  ASSUME HolderInv, NEW i \in Instances, MarkProcessed(i) \/ Rollback(i)
  PROVE  HolderInv'
<1>1. /\ state \in [Rows -> {"none", "open", "backoff", "due"}] /\ older \subseteq Live \X Live
      /\ batch \in [Instances -> SUBSET Due] /\ batch' = [batch EXCEPT ![i] = {}]
  BY DEF HolderInv, TypeOK, MarkProcessed, Rollback, Due
<1>2. Disjoint'
  BY <1>1 DEF HolderInv, Disjoint
<1>3. CASE MarkProcessed(i)
  <2>1. /\ state' = [r \in Rows |-> IF r \in batch[i] THEN "none" ELSE state[r]]
        /\ older' = OlderWithout(batch[i])
    BY <1>3 DEF MarkProcessed
  <2>2. /\ state' \in [Rows -> {"none", "open", "backoff", "due"}]
        /\ Live' = Live \ batch[i] /\ Due' = Due \ batch[i]
    BY <1>1, <2>1 DEF Live, Due
  <2>3. older' \subseteq Live' \X Live'
    BY <1>1, <2>1, <2>2 DEF OlderWithout
  <2>4. batch' \in [Instances -> SUBSET Due']
    BY <1>1, <2>2 DEF HolderInv, Disjoint
  <2>5. passed' \in [Rows -> Nat] /\ faults' \in 0..MaxFaults
    BY <1>3 DEF MarkProcessed, HolderInv, TypeOK
  <2> QED
    BY <1>2, <2>2, <2>3, <2>4, <2>5 DEF HolderInv, TypeOK, Due
<1>4. CASE Rollback(i)
  <2>1. UNCHANGED <<state, older, passed>> /\ faults' \in 0..MaxFaults
    BY <1>4, BacklogAssumption DEF Rollback, HolderInv, TypeOK
  <2>2. batch' \in [Instances -> SUBSET Due'] /\ Live' = Live
    BY <1>1, <2>1 DEF Due, Live
  <2> QED
    BY <1>2, <2>1, <2>2 DEF HolderInv, TypeOK, Due
<1> QED
  BY <1>3, <1>4

LEMMA HolderNext == HolderInv /\ [Next]_vars => HolderInv'
<1>1. ASSUME HolderInv, UNCHANGED vars PROVE HolderInv'
  BY <1>1 DEF vars, HolderInv, TypeOK, Disjoint, Live
<1> QED
  BY <1>1, RowsHeld, ClaimKeepsApart, ReleaseKeepsApart DEF Next

\* Every reachable state is well-typed: in particular a tick holds rows that are
\* due, and only unprocessed rows have a place in the order.
THEOREM TypeCorrect == FairSpec => []TypeOK
<1>1. HolderInv => TypeOK
  BY DEF HolderInv
<1> QED
  BY <1>1, HolderInit, HolderNext, PTL DEF FairSpec

-----------------------------------------------------------------------------
(* How long a row waits.                                                     *)

\* A row's account: what has passed over it, and what still can.
Waits(r) ==
    passed[r] * BatchSize + Cardinality(Ahead(r)) < Cardinality(Rows) + faults * BatchSize

\* It holds for every unprocessed row, the locked ones included, as a failed tick
\* puts at most BatchSize rows back in front of it.
WaitInv ==
    /\ Ordered
    /\ \A i \in Instances : Cardinality(batch[i]) <= BatchSize
    /\ \A r \in Rows \ Due : passed[r] = 0
    /\ \A r \in Live : Waits(r)

LEMMA Finite ==
  ASSUME NEW S \in SUBSET Rows
  PROVE  IsFiniteSet(S) /\ Cardinality(S) \in Nat /\ Cardinality(S) <= Cardinality(Rows)
BY BacklogAssumption, FS_Subset, FS_CardinalityType

LEMMA AheadFinite ==
  ASSUME NEW r PROVE IsFiniteSet(Ahead(r)) /\ Cardinality(Ahead(r)) \in Nat
BY Finite DEF Ahead

LEMMA WaitInit == Init => WaitInv
BY FS_EmptySet, BacklogAssumption DEF Init, WaitInv, Ordered, Live, Due

\* A step that passes over no row and puts none in front of one.
LEMMA WaitsStill ==
  ASSUME HolderInv, NEW r \in Rows, Waits(r), passed'[r] = passed[r], faults' = faults,
         Ahead(r)' \subseteq Ahead(r)
  PROVE  Waits(r)'
<1>1. Cardinality(Ahead(r)') <= Cardinality(Ahead(r)) /\ Cardinality(Ahead(r)') \in Nat
  BY AheadFinite, FS_Subset, FS_CardinalityType
<1>2. passed[r] \in Nat /\ faults \in Nat /\ BatchSize \in Nat /\ Cardinality(Rows) \in Nat
  BY Finite, BacklogAssumption DEF HolderInv, TypeOK
<1> DEFINE lhs == passed[r] * BatchSize
           rhs == Cardinality(Rows) + faults * BatchSize
<1>3. lhs \in Nat /\ rhs \in Nat
  BY <1>2
<1>4. lhs + Cardinality(Ahead(r)) < rhs
  BY DEF Waits
<1> HIDE DEF lhs, rhs
<1>5. lhs + Cardinality(Ahead(r)') < rhs
  BY <1>1, <1>3, <1>4, AheadFinite
<1> QED
  BY <1>5 DEF Waits, lhs, rhs

\* A full batch takes BatchSize of the rows in front of a row it passes over.
LEMMA PassedOver ==
  ASSUME HolderInv, WaitInv, NEW i \in Instances, ClaimBatch(i),
         NEW r \in Claimable \ Oldest
  PROVE  Cardinality(Ahead(r)') + BatchSize <= Cardinality(Ahead(r))
<1> DEFINE S == {q \in Claimable : Before(q, r)}
           taken == FirstOf(S, BatchSize)
<1>1. Claimable \subseteq Live /\ Claimable \subseteq Rows /\ Ordered /\ BatchSize \in Nat
  BY BacklogAssumption DEF Claimable, Live, WaitInv
<1>2. BatchSize <= Cardinality(S) /\ IsFiniteSet(S) /\ S \in SUBSET Live
  BY <1>1, Finite DEF Oldest, FirstOf
<1>3. Cardinality(taken) = BatchSize
  BY <1>1, <1>2, FirstOfCounts
<1>4. taken \subseteq Oldest
  <2>1. ASSUME NEW q \in S PROVE {p \in S : Before(p, q)} = {p \in Claimable : Before(p, q)}
    BY <1>1 DEF Ordered
  <2> QED
    BY <2>1 DEF FirstOf, Oldest
<1>5. Locked' = Locked \cup Oldest /\ UNCHANGED older
  <2>1. batch' = [batch EXCEPT ![i] = Oldest] /\ batch[i] = {} /\ UNCHANGED older
    BY DEF ClaimBatch
  <2> QED
    BY <2>1 DEF Locked, HolderInv, TypeOK
<1>6. Ahead(r)' \subseteq Ahead(r) \ taken
  BY <1>4, <1>5 DEF Ahead, Before
<1>7. taken \subseteq Ahead(r)
  BY DEF FirstOf, Ahead, Claimable, Before
<1>8. Cardinality(Ahead(r) \ taken) = Cardinality(Ahead(r)) - BatchSize
        /\ IsFiniteSet(Ahead(r) \ taken)
  <2>1. Ahead(r) \cap taken = taken /\ IsFiniteSet(Ahead(r))
    BY <1>7, AheadFinite
  <2>2. /\ IsFiniteSet(Ahead(r) \ taken)
        /\ Cardinality(Ahead(r) \ taken) = Cardinality(Ahead(r)) - Cardinality(Ahead(r) \cap taken)
    BY <2>1, FS_Difference
  <2> QED
    BY <1>3, <2>1, <2>2
<1>9. Cardinality(Ahead(r)') <= Cardinality(Ahead(r) \ taken)
  BY <1>6, <1>8, FS_Subset
<1>10. Cardinality(Ahead(r) \ taken) \in Nat /\ Cardinality(Ahead(r)') \in Nat
  BY <1>6, <1>8, FS_Subset, FS_CardinalityType
<1> HIDE DEF taken
<1> QED
  BY <1>1, <1>8, <1>9, <1>10, AheadFinite

\* So what the row is charged for being passed over, it gains.
LEMMA ClaimWaits ==
  ASSUME HolderInv, WaitInv, NEW i \in Instances, ClaimBatch(i)
  PROVE  WaitInv'
<1>1. /\ batch' = [batch EXCEPT ![i] = Oldest] /\ UNCHANGED <<state, older, faults>>
      /\ passed' = [r \in Rows |-> IF r \in Claimable \ Oldest /\ passed[r] < MaxPassed
                                       THEN passed[r] + 1 ELSE passed[r]]
  BY DEF ClaimBatch
<1>2. batch \in [Instances -> SUBSET Rows] /\ batch[i] = {}
  BY DEF HolderInv, TypeOK, ClaimBatch
<1>3. Live' = Live /\ Ordered'
  BY <1>1 DEF Live, Ordered, Before, WaitInv
<1>4. Cardinality(Oldest) <= BatchSize
  BY BacklogAssumption, Finite, FirstOfCounts DEF Oldest, Claimable, Live, WaitInv
<1>5. \A j \in Instances : Cardinality(batch'[j]) <= BatchSize
  BY <1>1, <1>2, <1>4 DEF WaitInv
<1>6. \A r \in Rows \ Due' : passed'[r] = 0
  BY <1>1 DEF WaitInv, Claimable, Due
<1>7. ASSUME NEW r \in Live PROVE Waits(r)'
  <2>1. Waits(r) /\ r \in Rows
    BY DEF WaitInv, Live
  <2>2. Ahead(r)' \subseteq Ahead(r)
    BY <1>1, <1>2 DEF Ahead, Before, Locked
  <2>3. CASE passed'[r] = passed[r]
    BY <1>1, <2>1, <2>2, <2>3, WaitsStill
  <2>4. CASE passed'[r] # passed[r]
    <3>1. r \in Claimable \ Oldest /\ passed'[r] = passed[r] + 1
      BY <1>1, <2>1, <2>4
    <3>2. Cardinality(Ahead(r)') + BatchSize <= Cardinality(Ahead(r))
      BY <3>1, PassedOver
    <3>3. passed[r] \in Nat /\ faults \in Nat /\ BatchSize \in Nat /\ Cardinality(Rows) \in Nat
      BY <2>1, Finite, BacklogAssumption DEF HolderInv, TypeOK
    <3>4. (passed[r] + 1) * BatchSize = passed[r] * BatchSize + BatchSize
      BY <3>3
    <3> DEFINE lhs == passed[r] * BatchSize
               rhs == Cardinality(Rows) + faults * BatchSize
    <3>5. lhs \in Nat /\ rhs \in Nat /\ lhs + Cardinality(Ahead(r)) < rhs
      BY <2>1, <3>3 DEF Waits
    <3>6. Cardinality(Ahead(r)') \in Nat
      BY <1>1, <2>2, AheadFinite, FS_Subset, FS_CardinalityType
    <3>7. passed'[r] * BatchSize = lhs + BatchSize
      BY <3>1, <3>4
    <3> HIDE DEF lhs, rhs
    <3>8. passed'[r] * BatchSize + Cardinality(Ahead(r)') < rhs
      BY <3>2, <3>3, <3>5, <3>6, <3>7, AheadFinite
    <3> QED
      BY <1>1, <3>8 DEF Waits, rhs
  <2> QED
    BY <2>3, <2>4
<1> QED
  BY <1>3, <1>5, <1>6, <1>7 DEF WaitInv

\* Rows that leave, processed or rolled back, make way for the others.
LEMMA LeavingWaits ==
  ASSUME HolderInv, WaitInv, NEW gone \in SUBSET Live,
         older' = OlderWithout(gone), Live' = Live \ gone, Due' = Due \ gone, UNCHANGED faults,
         \A r \in Rows : passed'[r] = IF r \in gone THEN 0 ELSE passed[r],
         \A i \in Instances : batch'[i] \in {{}, batch[i]},
         Locked \subseteq Locked' \cup gone
  PROVE  WaitInv'
<1>1. Ordered'
  BY LeavingKeepsOrder DEF WaitInv
<1>2. \A i \in Instances : Cardinality(batch'[i]) <= BatchSize
  <2>1. Cardinality({}) <= BatchSize
    BY FS_EmptySet, BacklogAssumption
  <2> QED
    BY <2>1 DEF WaitInv
<1>3. \A r \in Rows \ Due' : passed'[r] = 0
  BY DEF WaitInv
<1>4. ASSUME NEW r \in Live' PROVE Waits(r)'
  <2>1. r \in Live /\ r \notin gone /\ r \in Rows
    BY DEF Live
  <2>2. Ahead(r)' \subseteq Ahead(r)
    BY DEF Ahead, Before, OlderWithout
  <2> QED
    BY <2>1, <2>2, WaitsStill DEF WaitInv
<1> QED
  BY <1>1, <1>2, <1>3, <1>4 DEF WaitInv

LEMMA RowsWait ==
  ASSUME HolderInv, WaitInv, NEW r \in Rows,
         Begin(r) \/ Commit(r) \/ Abort(r) \/ BackoffElapses(r)
  PROVE  WaitInv'
<1>1. UNCHANGED <<batch, passed, faults>> /\ UNCHANGED Locked
  BY DEF Begin, Commit, Abort, BackoffElapses, Locked
<1>2. CASE Begin(r)
  <2>1. Live' = Live \cup {r} /\ r \notin Live /\ older' = older \cup (Live \X {r})
    BY <1>2 DEF Begin, Live, HolderInv, TypeOK
  <2>2. Ordered'
    BY <1>2, BeginKeepsOrder DEF WaitInv, HolderInv, TypeOK
  <2>3. ASSUME NEW q \in Live PROVE Waits(q)'
    <3>1. Ahead(q)' \subseteq Ahead(q)
      BY <1>1, <2>1 DEF Ahead, Before
    <3> QED
      BY <1>1, <3>1, WaitsStill DEF WaitInv, Live
  <2>4. Waits(r)'
    <3>1. Ahead(r)' \subseteq Rows \ {r}
      BY <2>1, <2>2 DEF Ahead, Ordered
    <3>2. Cardinality(Ahead(r)') <= Cardinality(Rows) - 1 /\ Cardinality(Ahead(r)') \in Nat
      BY <3>1, Finite, FS_RemoveElement, FS_Subset, FS_CardinalityType, BacklogAssumption
    <3>3. passed'[r] = 0
      BY <1>1, <2>1 DEF WaitInv, Live, Due
    <3>4. faults * BatchSize \in Nat /\ passed'[r] * BatchSize = 0 /\ Cardinality(Rows) \in Nat
      BY <3>3, Finite, BacklogAssumption DEF HolderInv, TypeOK
    <3> DEFINE credit == faults * BatchSize
               charge == passed'[r] * BatchSize
    <3> HIDE DEF credit, charge
    <3>5. charge = 0 /\ credit \in Nat
      BY <3>4 DEF credit, charge
    <3>6. charge + Cardinality(Ahead(r)') < Cardinality(Rows) + credit
      BY <3>2, <3>4, <3>5
    <3> QED
      BY <1>1, <3>6 DEF Waits, credit, charge
  <2>5. Due' = Due
    BY <1>2 DEF Begin, Due, HolderInv, TypeOK
  <2> QED
    BY <1>1, <2>1, <2>2, <2>3, <2>4, <2>5 DEF WaitInv
<1>3. CASE Commit(r) \/ BackoffElapses(r)
  <2>1. Live' = Live /\ UNCHANGED older
    BY <1>3 DEF Commit, BackoffElapses, Live, HolderInv, TypeOK
  <2>2. \A q : UNCHANGED Ahead(q)
    BY <1>1, <2>1 DEF Ahead, Before
  <2>3. Due \subseteq Due'
    BY <1>3 DEF Commit, BackoffElapses, Due, HolderInv, TypeOK
  <2> QED
    BY <1>1, <2>1, <2>2, <2>3 DEF WaitInv, Ordered, Before, Waits
<1>4. CASE Abort(r)
  <2>1. Live' = Live \ {r} /\ r \in Live /\ older' = OlderWithout({r})
    BY <1>4 DEF Abort, Live, HolderInv, TypeOK
  <2>2. Due' = Due \ {r} /\ passed[r] = 0
    BY <1>4 DEF Abort, Due, WaitInv, HolderInv, TypeOK
  <2> QED
    BY <1>1, <2>1, <2>2, LeavingWaits
<1> QED
  BY <1>2, <1>3, <1>4

LEMMA MarkWaits ==
  ASSUME HolderInv, WaitInv, NEW i \in Instances, MarkProcessed(i)
  PROVE  WaitInv'
<1>1. /\ state' = [r \in Rows |-> IF r \in batch[i] THEN "none" ELSE state[r]]
      /\ older' = OlderWithout(batch[i]) /\ batch' = [batch EXCEPT ![i] = {}] /\ UNCHANGED faults
      /\ passed' = [r \in Rows |-> IF r \in batch[i] THEN 0 ELSE passed[r]]
  BY DEF MarkProcessed
<1>2. batch \in [Instances -> SUBSET Due]
  BY DEF HolderInv, TypeOK, Due
<1>3. Live' = Live \ batch[i] /\ Due' = Due \ batch[i] /\ batch[i] \in SUBSET Live
  BY <1>1, <1>2 DEF Live, Due
<1>4. \A j \in Instances : batch'[j] \in {{}, batch[j]}
  BY <1>1, <1>2
<1>5. Locked \subseteq Locked' \cup batch[i]
  BY <1>1, <1>2 DEF Locked
<1> QED
  BY <1>1, <1>3, <1>4, <1>5, LeavingWaits

\* A failed tick puts its batch back, and is a fault.
LEMMA RollbackWaits ==
  ASSUME HolderInv, WaitInv, NEW i \in Instances, Rollback(i)
  PROVE  WaitInv'
<1>1. /\ batch' = [batch EXCEPT ![i] = {}] /\ faults' = faults + 1
      /\ UNCHANGED <<state, older, passed>>
  BY DEF Rollback
<1>2. batch \in [Instances -> SUBSET Due] /\ batch[i] \in SUBSET Rows
  BY DEF HolderInv, TypeOK, Due
<1>3. Live' = Live /\ Due' = Due /\ Ordered'
  BY <1>1 DEF Live, Due, Ordered, Before, WaitInv
<1>4. \A j \in Instances : Cardinality(batch'[j]) <= BatchSize
  <2>1. Cardinality({}) <= BatchSize
    BY FS_EmptySet, BacklogAssumption
  <2> QED
    BY <1>1, <1>2, <2>1 DEF WaitInv
<1>5. ASSUME NEW r \in Live PROVE Waits(r)'
  <2>1. Ahead(r)' \subseteq Ahead(r) \cup batch[i]
    BY <1>1, <1>2 DEF Ahead, Before, Locked
  <2>2. /\ IsFiniteSet(batch[i]) /\ Cardinality(batch[i]) \in Nat
        /\ Cardinality(batch[i]) <= BatchSize
    BY <1>2, Finite DEF WaitInv
  <2>3. /\ IsFiniteSet(Ahead(r) \cup batch[i])
        /\ Cardinality(Ahead(r) \cup batch[i]) <= Cardinality(Ahead(r)) + Cardinality(batch[i])
    <3>1. Cardinality(Ahead(r) \cap batch[i]) \in Nat
      BY AheadFinite, FS_Intersection, FS_CardinalityType
    <3> QED
      BY <2>2, <3>1, AheadFinite, FS_Union
  <2>4. /\ Cardinality(Ahead(r)') \in Nat
        /\ Cardinality(Ahead(r)') <= Cardinality(Ahead(r) \cup batch[i])
        /\ Cardinality(Ahead(r) \cup batch[i]) \in Nat
    BY <2>1, <2>3, FS_Subset, FS_CardinalityType
  <2>5. /\ passed[r] \in Nat /\ faults \in Nat /\ BatchSize \in Nat /\ Cardinality(Rows) \in Nat
        /\ Waits(r)
    BY Finite, BacklogAssumption DEF HolderInv, TypeOK, Live, WaitInv
  <2> DEFINE lhs == passed[r] * BatchSize
             credit == faults * BatchSize
  <2>6. /\ lhs \in Nat /\ credit \in Nat /\ lhs + Cardinality(Ahead(r)) < Cardinality(Rows) + credit
        /\ (faults + 1) * BatchSize = credit + BatchSize
    BY <2>5 DEF Waits
  <2> HIDE DEF lhs, credit
  <2>7. lhs + Cardinality(Ahead(r)') < Cardinality(Rows) + (credit + BatchSize)
    BY <2>2, <2>3, <2>4, <2>5, <2>6, AheadFinite
  <2> QED
    BY <1>1, <2>6, <2>7 DEF Waits, lhs
<1> QED
  BY <1>1, <1>3, <1>4, <1>5 DEF WaitInv

LEMMA WaitNext == HolderInv /\ WaitInv /\ [Next]_vars => WaitInv'
<1>1. ASSUME WaitInv, UNCHANGED vars PROVE WaitInv'
  BY <1>1 DEF vars, WaitInv, Ordered, Before, Live, Due, Waits, Ahead, Locked
<1> QED
  BY <1>1, RowsWait, ClaimWaits, MarkWaits, RollbackWaits DEF Next

LEMMA WaitIsBounded == WaitInv => BoundedWait
BY DEF WaitInv, Waits, BoundedWait, Live

LEMMA TimesGrows ==
  ASSUME NEW m \in Nat, NEW n \in Nat \ {0}
  PROVE  m * n \in Nat /\ m * n >= m
<1> DEFINE k == n - 1
<1>1. k \in Nat /\ n = k + 1 /\ m * k \in Nat
  OBVIOUS
<1>2. m * n = m * k + m
  BY <1>1
<1> QED
  BY <1>1, <1>2

\* No row is starved by the load: however many rows arrive, and whenever they
\* become visible, a due row is passed over a bounded number of times, once for
\* each BatchSize rows that were in front of it when it was created or that a
\* failed tick has put back.
THEOREM WaitingIsBounded == FairSpec => []BoundedWait
BY HolderInit, HolderNext, WaitInit, WaitNext, WaitIsBounded, PTL DEF FairSpec

\* The bound is below the point at which the model stops counting, so counting
\* less than the truth is not what makes it hold.
THEOREM CountIsExact ==
  FairSpec => [](\A r \in Rows : state[r] = "due" => passed[r] < MaxPassed)
<1>1. ASSUME HolderInv, WaitInv, NEW r \in Live PROVE passed[r] < MaxPassed
  <2>1. /\ passed[r] \in Nat /\ faults \in Nat /\ BatchSize \in Nat \ {0} /\ Cardinality(Rows) \in Nat
        /\ faults <= MaxFaults /\ MaxFaults \in Nat /\ Waits(r)
    BY <1>1, Finite, BacklogAssumption DEF HolderInv, TypeOK, Live, WaitInv
  <2>2. passed[r] * BatchSize < Cardinality(Rows) + faults * BatchSize
    BY <2>1, AheadFinite DEF Waits
  <2>3. ASSUME passed[r] >= Cardinality(Rows) + faults PROVE FALSE
    <3> DEFINE extra == passed[r] - (Cardinality(Rows) + faults)
    <3>1. extra \in Nat /\ passed[r] = Cardinality(Rows) + faults + extra
      BY <2>1, <2>3
    <3> HIDE DEF extra
    <3> DEFINE a == Cardinality(Rows) * BatchSize
               b == faults * BatchSize
               c == extra * BatchSize
    <3>2. passed[r] * BatchSize = a + b + c
      BY <2>1, <3>1
    <3>3. a >= Cardinality(Rows) /\ a \in Nat /\ b \in Nat /\ c \in Nat
      BY <2>1, <3>1, TimesGrows
    <3> HIDE DEF a, b, c
    <3>4. a + b + c < Cardinality(Rows) + b
      BY <2>2, <3>2 DEF b
    <3> QED
      BY <2>1, <3>3, <3>4
  <2> QED
    BY <2>1, <2>3 DEF MaxPassed
<1>2. HolderInv /\ WaitInv => \A r \in Rows : state[r] = "due" => passed[r] < MaxPassed
  BY <1>1 DEF Live
<1> QED
  BY <1>2, HolderInit, HolderNext, WaitInit, WaitNext, PTL DEF FairSpec

=============================================================================
