--------------------------- MODULE ConnectionPool ---------------------------
(***************************************************************************)
(* The Postgres pool of one instance and everything that draws on it:      *)
(* requests that create orders, the relay's tick, the attempts that a tick *)
(* starts (more of them than there are connections), and the recomputes of *)
(* the status watcher.  Of what they do only the order matters here: when  *)
(* a connection is asked for, held and given back, and what is awaited in  *)
(* the meantime.                                                           *)
(***************************************************************************)
EXTENDS Integers, Sequences, FiniteSets

CONSTANTS
    Requests, Attempts, Recomputes,  \* calls that may be under way at once
    Relay,                           \* the tick of the poller
    PoolSize                         \* connections: the pool's default

Calls == Requests \cup Attempts \cup Recomputes \cup {Relay}

ASSUME PoolAssumption ==
    /\ PoolSize \in Nat \ {0}
    /\ IsFiniteSet(Calls) /\ Relay \notin Requests \cup Attempts \cup Recomputes

VARIABLES
    redisUp,
    pc,       \* of each call: the statement, transaction or await it is at
    waiting,  \* calls that have asked for a connection, in that order
    held,     \* calls that have one
    free      \* connections that no one has

vars == <<redisUp, pc, waiting, held, free>>

\* The statements and transactions, each on a connection of its own.
Statements == {"create", "tick", "claim", "record", "fail", "count", "fulfil", "reject"}

TypeOK ==
    /\ redisUp \in BOOLEAN
    /\ pc \in [Calls -> Statements \cup {"rest", "announce", "work", "publish", "decide"}]
    /\ waiting \in Seq(Calls) /\ held \subseteq Calls /\ free \in 0..PoolSize

\* Every connection is free or with one call, and a call has at most one.
NoLeak ==
    /\ free + Cardinality(held) = PoolSize
    /\ \A j, k \in 1..Len(waiting) : waiting[j] = waiting[k] => j = k
    /\ \A k \in 1..Len(waiting) : waiting[k] \notin held

Init ==
    /\ redisUp = TRUE
    /\ pc = [c \in Calls |-> "rest"]
    /\ waiting = <<>> /\ held = {} /\ free = PoolSize

-----------------------------------------------------------------------------

Goto(c, at) == pc' = [pc EXCEPT ![c] = at]

\* A call comes to a statement: it asks for a connection, without a time limit.
Ask(c, from, statement) ==
    /\ pc[c] = from /\ Goto(c, statement)
    /\ waiting' = Append(waiting, c)
    /\ UNCHANGED <<redisUp, held, free>>

\* The pool serves whoever has waited longest.
Connect ==
    /\ free > 0 /\ waiting # <<>>
    /\ held' = held \cup {Head(waiting)} /\ waiting' = Tail(waiting)
    /\ free' = free - 1
    /\ UNCHANGED <<redisUp, pc>>

\* The statement or transaction is over, done or failed, and the call goes on.
Release(c, statement, to) ==
    /\ pc[c] = statement /\ c \in held
    /\ held' = held \ {c} /\ free' = free + 1
    /\ Goto(c, to)
    /\ UNCHANGED <<redisUp, waiting>>

\* OrdersService.create: one transaction; enqueueOutbox runs on its manager.
Create(c) == Ask(c, "rest", "create") \/ Release(c, "create", "rest")

\* claimAndEmit: one transaction.  The attempts it emits are not awaited.
Tick == Ask(Relay, "rest", "tick") \/ Release(Relay, "tick", "rest")

\* claim: the started row, then its frame, with no connection held meanwhile.
Claim(c) ==
    \/ Ask(c, "rest", "claim")
    \/ \E to \in {"rest", "announce"} : Release(c, "claim", to)

Complete(c) ==
    \/ Ask(c, "work", "record")
    \/ \E to \in {"rest", "publish"} : Release(c, "record", to)

\* Mutants: record is not given the manager, and takes a connection of the pool.
OnManager_Second(c) == c \in held /\ free > 0

OnManager(c) == c \in held

\* The failed row, inside fail's transaction: on its connection.
RecordFailed(c) ==
    /\ pc[c] = "fail" /\ OnManager(c)
    /\ Goto(c, "count")
    /\ UNCHANGED <<redisUp, waiting, held, free>>

\* Mutants: the frame is published before the commit.
CommitFailure_FrameFirst(c) ==
    /\ pc[c] = "count" /\ c \in held
    /\ Goto(c, "publish")
    /\ UNCHANGED <<redisUp, waiting, held, free>>

\* The counter and the retry or dead letter, then the commit; its frame after it.
CommitFailure(c) == Release(c, "count", "publish")

\* Mutants: a transaction that fails without giving back its connection.
RollbackFailure_Leak(c) ==
    /\ pc[c] \in {"fail", "count"} /\ c \in held
    /\ held' = held \ {c} /\ Goto(c, "rest")
    /\ UNCHANGED <<redisUp, waiting, free>>

\* Mutants: one that gives it back twice.
RollbackFailure_Twice(c) ==
    /\ pc[c] \in {"fail", "count"} /\ c \in held
    /\ held' = held \ {c} /\ free' = free + 2 /\ Goto(c, "rest")
    /\ UNCHANGED <<redisUp, waiting>>

\* A statement of it fails: the attempt is lost.
RollbackFailure(c) == \E at \in {"fail", "count"} : Release(c, at, "rest")

Fail(c) == Ask(c, "work", "fail") \/ RecordFailed(c) \/ CommitFailure(c)

\* publish: ioredis keeps the command, and the attempt waits, while Redis is down.
Publish(c) ==
    /\ redisUp
    /\ \/ pc[c] = "announce" /\ Goto(c, "work")
       \/ pc[c] = "publish" /\ Goto(c, "rest")
    /\ UNCHANGED <<redisUp, waiting, held, free>>

\* recompute: two statements, each on a connection of its own.
Recompute(c) ==
    \/ Ask(c, "rest", "fulfil")
    \/ \E to \in {"rest", "decide"} : Release(c, "fulfil", to)
    \/ Ask(c, "decide", "reject")
    \/ Release(c, "reject", "rest")

Redis == redisUp' = ~redisUp /\ UNCHANGED <<pc, waiting, held, free>>

Call(c) ==
    \/ c \in Requests /\ Create(c)
    \/ c = Relay /\ Tick
    \/ c \in Attempts /\ (Claim(c) \/ Complete(c) \/ Fail(c) \/ Publish(c))
    \/ c \in Recomputes /\ Recompute(c)

Next ==
    \/ Connect \/ Redis
    \/ \E c \in Calls : Call(c)
    \/ \E c \in Attempts : RollbackFailure(c)

\* Postgres answers every statement and the pool serves its queue.  Neither
\* Redis nor a client has to do anything, and no statement has to fail.
FairSpec ==
    /\ Init /\ [][Next]_vars
    /\ WF_vars(Connect)
    /\ \A c \in Calls : WF_vars(c \in held /\ Call(c))

-----------------------------------------------------------------------------

\* A call that has a connection is at a statement, which Postgres answers: none
\* is held across a publish, which may take for ever, or the simulated work
\* (stage-runner 119-123).
NoneHeldAcrossAwaits == \A c \in held : pc[c] \in Statements

\* Whoever asks for a connection gets one, with every connection in use and with
\* Redis down for good: no call waits for a second connection, or for Redis,
\* while it has one (stage-runner 86-123).  So orders are taken and rows are
\* relayed while Redis is away.
EveryoneServed ==
    \A c \in Calls : (\E k \in 1..Len(waiting) : waiting[k] = c) ~> c \in held

=============================================================================
