---------------------------- MODULE StageRunner -----------------------------
(***************************************************************************)
(* StageRunner: one attempt of one stage of one order.  Claim it with the  *)
(* started row, announce it, do the work, record the outcome, announce     *)
(* that.  Every step is one statement, one transaction or one publish, and *)
(* between two steps anything may happen.                                  *)
(***************************************************************************)
EXTENDS StageEvents

Finish(t) == tasks' = tasks \ {t}

Goto(t, pc) == tasks' = (tasks \ {t}) \cup {[t EXCEPT !.pc = pc]}

\* record: the one insert into order_stage_events, ON CONFLICT DO NOTHING.
Inserted(t, status) == EventOf(t.order, t.stage, t.attempt, status)

record(t, status) == events' = events \cup {Inserted(t, status)}

\* Mutants: a claim that does not look at what the insert returned.
Won_Always(t) == TRUE

Won(t) == Inserted(t, "started") \notin events

\* claim: only the call whose insert added the row goes on; any other is a
\* duplicate delivery, and returns.
Claim(t) ==
    /\ t.pc = "claim"
    /\ record(t, "started")
    /\ IF Won(t) THEN Goto(t, "announce") ELSE Finish(t)
    /\ UNCHANGED <<orders, outbox, processed, due, retryCount, deadLettered, bus, alive, batch,
                   rechecks, faults>>

\* The started frame.  While Redis is down ioredis keeps the command queued
\* (maxRetriesPerRequest: null), so the await, and with it the attempt, waits.
AnnounceStarted(t) ==
    /\ t.pc = "announce" /\ redisUp
    /\ Broadcast(Inserted(t, "started"))
    /\ Goto(t, "work")
    /\ UNCHANGED <<tables, redisUp, subscribed, alive, batch, rechecks, faults>>

\* The simulated work succeeds: the completed row.
RecordCompleted(t) ==
    /\ t.pc = "work"
    /\ record(t, "completed")
    /\ Goto(t, "completed")
    /\ UNCHANGED <<orders, outbox, processed, due, retryCount, deadLettered, bus, alive, batch,
                   rechecks, faults>>

\* Mutants: one retry too many.
DeadLetters_OffByOne(count) == count > MaxRetries

\* nextActionAfterFailure
DeadLetters(count) == count >= MaxRetries

\* Mutants: the retry row repeats the attempt that failed.
RetryRow_SameAttempt(t) == [order |-> t.order, stage |-> t.stage, attempt |-> t.attempt]

\* The row of the next attempt.
RetryRow(t) == [order |-> t.order, stage |-> t.stage, attempt |-> t.attempt + 1]

\* Mutants: the retry row is lost with a transaction of its own.
QueueRetry_Lost(t) == UNCHANGED <<outbox, due>>

QueueRetry(t) == enqueueOutbox(RetryRow(t), FALSE)

\* The transaction of fail: the failed row, the counter, and the dead letter or
\* the retry row, all or nothing.
FailureCommits(t) ==
    /\ record(t, "failed")
    /\ retryCount' = [retryCount EXCEPT ![t.order][t.stage] = @ + 1]
    /\ IF DeadLetters(retryCount[t.order][t.stage] + 1)
         THEN deadLettered' = deadLettered \cup {<<t.order, t.stage>>} /\ UNCHANGED <<outbox, due>>
         ELSE QueueRetry(t) /\ UNCHANGED deadLettered
    /\ UNCHANGED <<orders, processed, bus, alive, batch, rechecks>>

\* The simulated work fails.
FailTransaction(t) ==
    /\ t.pc = "work"
    /\ FailureCommits(t)
    /\ Goto(t, "failed")
    /\ UNCHANGED faults

\* The outcome's frame, only after its row has committed, and the call returns.
PublishOutcome(t) ==
    /\ t.pc \in {"completed", "failed"} /\ redisUp
    /\ Broadcast(Inserted(t, t.pc))
    /\ Finish(t)
    /\ UNCHANGED <<tables, redisUp, subscribed, alive, batch, rechecks, faults>>

\* Redis answers the PUBLISH with an error: logged, swallowed, and the attempt
\* carries on without the frame.
PublishRejected(t) ==
    /\ redisUp
    /\ Fault("publish")
    /\ \/ t.pc = "announce" /\ Goto(t, "work")
       \/ t.pc \in {"completed", "failed"} /\ Finish(t)
    /\ UNCHANGED <<tables, bus, alive, batch, rechecks>>

\* The frame is out but the connection breaks before the reply: ioredis sends
\* the PUBLISH again when it is back.
PublishReplyLost(t) ==
    /\ t.pc \in {"completed", "failed"} /\ redisUp
    /\ Fault("redis")
    /\ Broadcast(Inserted(t, t.pc))
    /\ UNCHANGED <<tables, redisUp, subscribed, memory>>

\* A statement or the transaction fails and leaves nothing: run logs the error
\* and the attempt is lost.
QueryFails(t) ==
    /\ t.pc \in {"claim", "work"}
    /\ Fault("query")
    /\ Finish(t)
    /\ UNCHANGED <<tables, bus, alive, batch, rechecks>>

\* The same, but Postgres had committed before the connection broke.
ReplyLost(t) ==
    /\ Fault("query")
    /\ Finish(t)
    /\ \/ /\ t.pc = "claim" /\ record(t, "started")
          /\ UNCHANGED <<orders, outbox, processed, due, retryCount, deadLettered, bus, alive,
                         batch, rechecks>>
       \/ /\ t.pc = "work" /\ record(t, "completed")
          /\ UNCHANGED <<orders, outbox, processed, due, retryCount, deadLettered, bus, alive,
                         batch, rechecks>>
       \/ t.pc = "work" /\ FailureCommits(t)

=============================================================================
