------------------------- MODULE ConnectionPoolProofs ------------------------
(***************************************************************************)
(* No connection is lost, none is held across an await and no call has     *)
(* two, for every number of calls and connections, whichever statement     *)
(* fails and whenever Redis is away.                                       *)
(***************************************************************************)
EXTENDS ConnectionPool, FiniteSetTheorems, TLAPS

\* A call that waits for a connection, or has one, is at a statement: so one that
\* asks has none yet.
AtStatement ==
    /\ NoneHeldAcrossAwaits
    /\ \A k \in 1..Len(waiting) : pc[waiting[k]] \in Statements

PoolInv == TypeOK /\ NoLeak /\ AtStatement

USE PoolAssumption

LEMMA HeldFinite == ASSUME TypeOK PROVE IsFiniteSet(held) /\ Cardinality(held) \in Nat
BY FS_Subset, FS_CardinalityType DEF TypeOK

LEMMA PoolInit == Init => PoolInv
<1> SUFFICES ASSUME Init PROVE PoolInv
  OBVIOUS
<1>1. waiting = <<>> /\ held = {} /\ free = PoolSize /\ pc = [c \in Calls |-> "rest"]
  BY DEF Init
<1>2. Len(waiting) = 0 /\ Cardinality(held) = 0
  BY <1>1, FS_EmptySet
<1>3. TypeOK
  BY <1>1 DEF Init, TypeOK
<1> QED
  BY <1>1, <1>2, <1>3 DEF PoolInv, NoLeak, AtStatement, NoneHeldAcrossAwaits

\* Asking: a call that was at no statement joins the queue.
LEMMA AskStep ==
  ASSUME PoolInv, NEW c \in Calls, NEW from, NEW st \in Statements, from \notin Statements,
         Ask(c, from, st)
  PROVE  PoolInv'
<1>1. /\ pc[c] \notin Statements /\ pc' = [pc EXCEPT ![c] = st]
      /\ waiting' = Append(waiting, c) /\ UNCHANGED <<redisUp, held, free>>
  BY DEF Ask, Goto
<1>2. TypeOK /\ NoLeak /\ AtStatement
  BY DEF PoolInv
<1>3. TypeOK'
  BY <1>1, <1>2 DEF TypeOK
<1>4. waiting \in Seq(Calls) /\ pc \in [Calls -> Statements \cup {"rest", "announce", "work", "publish", "decide"}]
  BY <1>2 DEF TypeOK
<1>5. /\ Len(waiting') = Len(waiting) + 1 /\ waiting'[Len(waiting) + 1] = c
      /\ \A k \in 1..Len(waiting) : waiting'[k] = waiting[k]
  BY <1>1, <1>4
<1>6. c \notin held /\ \A k \in 1..Len(waiting) : waiting[k] # c
  BY <1>1, <1>2 DEF AtStatement, NoneHeldAcrossAwaits
<1>7. /\ \A x \in held : pc'[x] \in Statements
      /\ \A k \in 1..Len(waiting) : pc'[waiting[k]] \in Statements
      /\ pc'[c] \in Statements
  BY <1>1, <1>2, <1>4, <1>6 DEF AtStatement, NoneHeldAcrossAwaits, TypeOK
<1>8. AtStatement'
  BY <1>1, <1>4, <1>5, <1>7 DEF AtStatement, NoneHeldAcrossAwaits
<1>9. NoLeak'
  BY <1>1, <1>2, <1>4, <1>5, <1>6 DEF NoLeak
<1> QED
  BY <1>3, <1>8, <1>9 DEF PoolInv

\* The pool serves the head of its queue.
LEMMA ConnectStep == ASSUME PoolInv, Connect PROVE PoolInv'
<1> DEFINE c == Head(waiting)
<1>1. /\ free > 0 /\ waiting # <<>> /\ held' = held \cup {c} /\ waiting' = Tail(waiting)
      /\ free' = free - 1 /\ UNCHANGED <<redisUp, pc>>
  BY DEF Connect
<1>2. TypeOK /\ NoLeak /\ AtStatement
  BY DEF PoolInv
<1>3. waiting \in Seq(Calls) /\ free \in Nat /\ PoolSize \in Nat /\ free <= PoolSize
  BY <1>2 DEF TypeOK
<1>4. /\ Len(waiting) >= 1 /\ c = waiting[1] /\ c \in Calls
      /\ Len(waiting') = Len(waiting) - 1
      /\ \A k \in 1..Len(waiting') : waiting'[k] = waiting[k + 1]
  BY <1>1, <1>3
<1>5. c \notin held
  BY <1>2, <1>4 DEF NoLeak
<1>6. Cardinality(held') = Cardinality(held) + 1
  BY <1>1, <1>2, <1>5, HeldFinite, FS_AddElement
<1>7. TypeOK'
  BY <1>1, <1>2, <1>3, <1>4 DEF TypeOK
<1>8. AtStatement'
  BY <1>1, <1>2, <1>3, <1>4 DEF AtStatement, NoneHeldAcrossAwaits
<1>9. \A k \in 1..Len(waiting') : waiting'[k] \notin held'
  BY <1>1, <1>2, <1>3, <1>4 DEF NoLeak
<1>10. \A j, k \in 1..Len(waiting') : waiting'[j] = waiting'[k] => j = k
  BY <1>2, <1>3, <1>4 DEF NoLeak
<1>11. free' + Cardinality(held') = PoolSize
  BY <1>1, <1>2, <1>3, <1>6, HeldFinite DEF NoLeak
<1> QED
  BY <1>7, <1>8, <1>9, <1>10, <1>11 DEF PoolInv, NoLeak

\* The one connection of a call goes back, and the call is not in the queue.
LEMMA ReleaseStep ==
  ASSUME PoolInv, NEW c \in Calls, NEW at,
         NEW to \in {"rest", "announce", "work", "publish", "decide"}, Release(c, at, to)
  PROVE  PoolInv'
<1>1. /\ c \in held /\ held' = held \ {c} /\ free' = free + 1 /\ pc' = [pc EXCEPT ![c] = to]
      /\ UNCHANGED <<redisUp, waiting>>
  BY DEF Release, Goto
<1>2. TypeOK /\ NoLeak /\ AtStatement
  BY DEF PoolInv
<1>3. Cardinality(held') = Cardinality(held) - 1 /\ Cardinality(held) \in Nat /\ IsFiniteSet(held')
  BY <1>1, <1>2, HeldFinite, FS_RemoveElement
<1>4. Cardinality(held') \in Nat
  BY <1>3, FS_CardinalityType
<1>5. free' + Cardinality(held') = PoolSize
  BY <1>1, <1>2, <1>3 DEF NoLeak, TypeOK
<1>6. TypeOK'
  BY <1>1, <1>2, <1>4, <1>5 DEF TypeOK
<1>7. waiting \in Seq(Calls) /\ \A k \in 1..Len(waiting) : waiting[k] # c /\ waiting[k] \in Calls
  BY <1>1, <1>2 DEF NoLeak, TypeOK
<1>8. AtStatement'
  BY <1>1, <1>2, <1>7 DEF AtStatement, NoneHeldAcrossAwaits, TypeOK
<1>9. NoLeak'
  BY <1>1, <1>2, <1>5, <1>7 DEF NoLeak
<1> QED
  BY <1>6, <1>8, <1>9 DEF PoolInv

\* A step that asks for nothing and gives nothing back.
LEMMA GotoStep ==
  ASSUME PoolInv, NEW c \in Calls,
         NEW to \in Statements \cup {"rest", "announce", "work", "publish", "decide"},
         Goto(c, to), UNCHANGED <<redisUp, waiting, held, free>>,
         pc[c] \notin Statements \/ to \in Statements
  PROVE  PoolInv'
<1>1. TypeOK /\ NoLeak /\ AtStatement
  BY DEF PoolInv
<1>2. TypeOK'
  BY <1>1 DEF TypeOK, Goto
<1>3. NoLeak'
  BY <1>1 DEF NoLeak
<1>4. waiting \in Seq(Calls) /\ \A k \in 1..Len(waiting) : waiting[k] \in Calls
  BY <1>1 DEF TypeOK
<1>5. AtStatement'
  BY <1>1, <1>4 DEF AtStatement, NoneHeldAcrossAwaits, Goto, TypeOK
<1> QED
  BY <1>2, <1>3, <1>5 DEF PoolInv

LEMMA PoolNext == PoolInv /\ [Next]_vars => PoolInv'
<1> SUFFICES ASSUME PoolInv, [Next]_vars PROVE PoolInv'
  OBVIOUS
<1> USE DEF Statements
<1>1. ASSUME NEW c \in Calls, Create(c) PROVE PoolInv'
  BY <1>1, AskStep, ReleaseStep DEF Create
<1>2. CASE Tick
  <2>1. Relay \in Calls
    BY DEF Calls
  <2> QED
    BY <1>2, <2>1, AskStep, ReleaseStep DEF Tick
<1>3. ASSUME NEW c \in Calls, Claim(c) PROVE PoolInv'
  BY <1>3, AskStep, ReleaseStep DEF Claim
<1>4. ASSUME NEW c \in Calls, Complete(c) PROVE PoolInv'
  BY <1>4, AskStep, ReleaseStep DEF Complete
<1>5. ASSUME NEW c \in Calls, Fail(c) PROVE PoolInv'
  <2>1. CASE Ask(c, "work", "fail")
    BY <2>1, AskStep
  <2>2. CASE RecordFailed(c)
    BY <2>2, GotoStep DEF RecordFailed
  <2>3. CASE CommitFailure(c)
    BY <2>3, ReleaseStep DEF CommitFailure
  <2> QED
    BY <1>5, <2>1, <2>2, <2>3 DEF Fail
<1>6. ASSUME NEW c \in Calls, RollbackFailure(c) PROVE PoolInv'
  BY <1>6, ReleaseStep DEF RollbackFailure
<1>7. ASSUME NEW c \in Calls, Publish(c) PROVE PoolInv'
  BY <1>7, GotoStep DEF Publish
<1>8. ASSUME NEW c \in Calls, Recompute(c) PROVE PoolInv'
  <2>1. CASE Ask(c, "rest", "fulfil")
    BY <2>1, AskStep
  <2>2. CASE \E to \in {"rest", "decide"} : Release(c, "fulfil", to)
    BY <2>2, ReleaseStep
  <2>3. CASE Ask(c, "decide", "reject")
    BY <2>3, AskStep
  <2>4. CASE Release(c, "reject", "rest")
    BY <2>4, ReleaseStep
  <2> QED
    BY <1>8, <2>1, <2>2, <2>3, <2>4 DEF Recompute
<1>9. CASE Redis \/ UNCHANGED vars
  BY <1>9 DEF Redis, vars, PoolInv, TypeOK, NoLeak, AtStatement, NoneHeldAcrossAwaits
<1>10. ASSUME NEW c \in Calls, Call(c) PROVE PoolInv'
  BY <1>10, <1>1, <1>2, <1>3, <1>4, <1>5, <1>7, <1>8 DEF Call
<1>11. ASSUME NEW c \in Attempts, RollbackFailure(c) PROVE PoolInv'
  BY <1>6, <1>11 DEF Calls
<1> QED
  BY <1>9, <1>10, <1>11, ConnectStep DEF Next

\* For every pool and every load, a connection is free or with the one call that
\* got it, and every statement or transaction that ends gives it back.
THEOREM NothingLeaks == FairSpec => []NoLeak
<1>1. PoolInv => NoLeak
  BY DEF PoolInv
<1> QED
  BY <1>1, PoolInit, PoolNext, PTL DEF FairSpec

\* Every reachable state is well-typed.
THEOREM TypeCorrect == FairSpec => []TypeOK
<1>1. PoolInv => TypeOK
  BY DEF PoolInv
<1> QED
  BY <1>1, PoolInit, PoolNext, PTL DEF FairSpec

\* No call keeps a connection while it awaits Redis or the simulated work, so
\* only Postgres decides when a connection comes back.
THEOREM HeldForPostgres == FairSpec => []NoneHeldAcrossAwaits
<1>1. PoolInv => NoneHeldAcrossAwaits
  BY DEF PoolInv, AtStatement
<1> QED
  BY <1>1, PoolInit, PoolNext, PTL DEF FairSpec

=============================================================================
