------------------------------ MODULE EventBus ------------------------------
(***************************************************************************)
(* RedisEventBus of one instance, and the instances that listen: the       *)
(* publisher connection with its queue of commands, the subscriber         *)
(* connections, and the health probe that shares the publisher's queue.    *)
(* StageEvents takes PUBLISH to be one step; this module says what happens *)
(* between the call and the reply.                                         *)
(***************************************************************************)
EXTENDS Integers, Sequences, FiniteSets

CONSTANTS
    Attempts,     \* attempts of stages under way on the publishing instance
    Subscribers,  \* instances with a subscriber connection
    Probes,       \* GET /health requests
    MaxFaults     \* model bound: connections that break, Redis restarts

ASSUME EventBusAssumption == Attempts \cap Probes = {} /\ MaxFaults \in Nat

VARIABLES
    redisUp,
    ready,       \* the publisher connection is established
    commands,    \* its commands without a reply, oldest first, queued or sent
    executed,    \* how many of them Redis has executed on this connection
    subscribed,  \* subscriber connections that are established
    socket,      \* frames under way to a subscriber
    seen,        \* the frames it has dispatched to its handlers
    pc,          \* of an attempt: the frame whose publish it awaits, or what it does
    probe,       \* of a probe: "none", "waiting", or what it has reported
    steady,      \* not in the code: the subscribers with no gap since a publish
    faults

publisher == <<ready, commands, executed>>
delivery  == <<subscribed, socket, seen, steady>>
callers   == <<pc, probe>>
vars      == <<redisUp, publisher, delivery, callers, faults>>

Frames   == [of: Attempts, what: {"started", "completed"}]
Commands == Frames \cup [of: Probes, what: {"ping"}]

Command(x, what) == [of |-> x, what |-> what]

TypeOK ==
    /\ redisUp \in BOOLEAN /\ ready \in BOOLEAN /\ (ready => redisUp)
    /\ commands \in Seq(Commands) /\ executed \in 0..Len(commands)
    /\ (executed > 0 => ready)
    /\ subscribed \subseteq Subscribers /\ (subscribed # {} => redisUp)
    /\ socket \in [Subscribers -> Seq(Frames)] /\ seen \in [Subscribers -> SUBSET Frames]
    /\ pc \in [Attempts -> {"idle", "started", "work", "completed", "done"}]
    /\ probe \in [Probes -> {"none", "waiting", "up", "down"}]
    /\ steady \in [Frames -> SUBSET Subscribers]
    /\ faults \in 0..MaxFaults

Init ==
    /\ redisUp = TRUE /\ ready = TRUE /\ commands = <<>> /\ executed = 0
    /\ subscribed = Subscribers
    /\ socket = [s \in Subscribers |-> <<>>] /\ seen = [s \in Subscribers |-> {}]
    /\ pc = [a \in Attempts |-> "idle"] /\ probe = [n \in Probes |-> "none"]
    /\ steady = [f \in Frames |-> {}]
    /\ faults = 0

Fault == faults < MaxFaults /\ faults' = faults + 1

-----------------------------------------------------------------------------
(* The callers on the publishing instance.                                  *)

\* Mutants: the started frame is published without awaiting it.
MayPublish_NotAwaited(a, what) ==
    IF what = "started" THEN pc[a] = "idle" ELSE pc[a] \in {"started", "work"}

\* An attempt awaits its started frame before it works.
MayPublish(a, what) == pc[a] = IF what = "started" THEN "idle" ELSE "work"

\* publish: with no connection the command waits in the same queue
\* (maxRetriesPerRequest: null), it is never refused.
Publish(a, what) ==
    /\ MayPublish(a, what)
    /\ pc' = [pc EXCEPT ![a] = what]
    /\ commands' = Append(commands, Command(a, what))
    /\ steady' = [steady EXCEPT ![Command(a, what)] = subscribed]
    /\ UNCHANGED <<redisUp, ready, executed, subscribed, socket, seen, probe, faults>>

\* ping: the PING that a health check races against its deadline.
Ping(n) ==
    /\ probe[n] = "none"
    /\ probe' = [probe EXCEPT ![n] = "waiting"]
    /\ commands' = Append(commands, Command(n, "ping"))
    /\ UNCHANGED <<redisUp, ready, executed, delivery, pc, faults>>

\* Mutants: a deadline that ioredis would have to keep.
Expires_WhenReady(n) == probe[n] = "waiting" /\ ready

Expires(n) == probe[n] = "waiting"

\* The timer wins.  The PING stays where it is in the queue.
Deadline(n) ==
    /\ Expires(n)
    /\ probe' = [probe EXCEPT ![n] = "down"]
    /\ UNCHANGED <<redisUp, publisher, delivery, pc, faults>>

\* The reply to the oldest command settles its promise.  A late PONG does not
\* change what the probe has reported.
Reply ==
    /\ executed > 0
    /\ executed' = executed - 1 /\ commands' = Tail(commands)
    /\ LET c == Head(commands) IN
         IF c.what = "ping"
           THEN /\ probe' = [probe EXCEPT ![c.of] = IF @ = "waiting" THEN "up" ELSE @]
                /\ UNCHANGED pc
           ELSE /\ pc' = [pc EXCEPT ![c.of] = IF c.what = "started" THEN "work" ELSE "done"]
                /\ UNCHANGED probe
    /\ UNCHANGED <<redisUp, ready, delivery, faults>>

-----------------------------------------------------------------------------
(* Redis and the subscribers.                                               *)

\* Mutants: a bus that hands a message to one consumer.
Receivers_One == IF subscribed = {} THEN {} ELSE {CHOOSE s \in subscribed : TRUE}

Receivers == subscribed

\* Redis executes the next command: a frame goes to whoever is subscribed now.
Execute ==
    /\ ready /\ executed < Len(commands)
    /\ executed' = executed + 1
    /\ LET c == commands[executed + 1] IN
         socket' = [s \in Subscribers |->
                      IF c.what # "ping" /\ s \in Receivers THEN Append(socket[s], c) ELSE socket[s]]
    /\ UNCHANGED <<redisUp, ready, commands, subscribed, seen, steady, callers, faults>>

\* dispatch: every handler of the channel, each guarded from the others' errors.
Dispatch(s) ==
    /\ socket[s] # <<>>
    /\ seen' = [seen EXCEPT ![s] = @ \cup {Head(socket[s])}]
    /\ socket' = [socket EXCEPT ![s] = Tail(@)]
    /\ UNCHANGED <<redisUp, publisher, subscribed, steady, callers, faults>>

\* What the loss of subscriber connections takes with it: any end of what was
\* under way to them.
Disconnect(gone) ==
    /\ subscribed' = subscribed \ gone
    /\ steady' = [f \in Frames |-> steady[f] \ gone]
    /\ \E kept \in [gone -> 0..Len(commands) + MaxFaults] :
         socket' = [s \in Subscribers |->
           IF s \in gone /\ kept[s] < Len(socket[s]) THEN SubSeq(socket[s], 1, kept[s]) ELSE socket[s]]

\* Redis restarts.  Commands without a reply are kept, to be sent again.
RedisStops ==
    /\ redisUp /\ Fault
    /\ redisUp' = FALSE /\ ready' = FALSE /\ executed' = 0
    /\ Disconnect(subscribed)
    /\ UNCHANGED <<commands, seen, callers>>

RedisStarts ==
    /\ ~redisUp /\ redisUp' = TRUE
    /\ UNCHANGED <<publisher, delivery, callers, faults>>

PublisherBreaks ==
    /\ ready /\ Fault
    /\ ready' = FALSE /\ executed' = 0
    /\ UNCHANGED <<redisUp, commands, delivery, callers>>

SubscriberBreaks(s) ==
    /\ s \in subscribed /\ Fault
    /\ Disconnect({s})
    /\ UNCHANGED <<redisUp, publisher, seen, callers>>

\* Mutants: a retry strategy that gives up after the first failure.
Retries_Once == redisUp /\ faults <= 1

\* Mutants: a connection that counts as ready before Redis has answered.
Retries_Blindly == TRUE

\* ioredis tries for ever, and succeeds when Redis is there.
Retries == redisUp

Reconnect ==
    /\ Retries /\ ~ready /\ ready' = TRUE
    /\ UNCHANGED <<redisUp, commands, executed, delivery, callers, faults>>

\* ioredis subscribes again by itself.
Resubscribe(s) ==
    /\ redisUp /\ s \notin subscribed
    /\ subscribed' = subscribed \cup {s}
    /\ UNCHANGED <<redisUp, publisher, socket, seen, steady, callers, faults>>

Next ==
    \/ \E a \in Attempts, what \in {"started", "completed"} : Publish(a, what)
    \/ \E n \in Probes : Ping(n) \/ Deadline(n)
    \/ \E s \in Subscribers : Dispatch(s) \/ SubscriberBreaks(s) \/ Resubscribe(s)
    \/ Execute \/ Reply \/ RedisStops \/ RedisStarts \/ PublisherBreaks \/ Reconnect

\* Sockets carry what is written to them, timers fire, ioredis reconnects.
\* Nothing makes Redis come back.
FairSpec ==
    /\ Init /\ [][Next]_vars
    /\ WF_vars(Execute) /\ WF_vars(Reply) /\ WF_vars(Reconnect)
    /\ \A n \in Probes : WF_vars(Deadline(n))

-----------------------------------------------------------------------------

\* What a subscriber still gets of an attempt, after what it has seen: commands
\* are sent again when a reply is lost, so frames are repeated, but the started
\* frame never follows the outcome, on any listener (stage-runner 73-76, 57-58).
OutcomeLast ==
    \A s \in Subscribers, a \in Attempts :
      LET started == {k \in 1..Len(socket[s]) : socket[s][k] = Command(a, "started")}
          outcome == {k \in 1..Len(socket[s]) : socket[s][k] = Command(a, "completed")}
      IN  /\ \A j \in started, k \in outcome : j < k
          /\ started # {} => Command(a, "completed") \notin seen[s]

\* The contract of EventBus (event-bus.ts 3-6): once a publish has resolved,
\* every instance that has been subscribed all the while has the frame or is
\* about to get it, however often the publisher had to reconnect.
Resolved(a, what) == pc[a] \in IF what = "started" THEN {"work", "completed", "done"} ELSE {"done"}

ReachesTheSteady ==
    \A f \in Frames : Resolved(f.of, f.what) =>
      \A s \in steady[f] : f \in seen[s] \/ \E k \in 1..Len(socket[s]) : socket[s][k] = f

\* A health check ends, Redis or no Redis (redis-event-bus 43-46).
ProbesEnd == \A n \in Probes : probe[n] = "waiting" ~> probe[n] \in {"up", "down"}

\* No publish is lost in the publisher: if Redis is back for good, every attempt
\* that waits for one goes on.
PublishesResolve ==
    <>[]redisUp => \A a \in Attempts : /\ pc[a] = "started" ~> pc[a] # "started"
                                       /\ pc[a] = "completed" ~> pc[a] # "completed"

=============================================================================
