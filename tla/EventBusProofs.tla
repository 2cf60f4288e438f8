--------------------------- MODULE EventBusProofs ----------------------------
(***************************************************************************)
(* A publish that has resolved reached every steady subscriber, and no     *)
(* listener gets a started frame after the outcome: for any number of      *)
(* attempts, listeners and probes, and any number of broken connections    *)
(* and restarts of Redis.                                                  *)
(***************************************************************************)
EXTENDS EventBus, SequenceTheorems, TLAPS

BusTypes ==
    /\ commands \in Seq(Commands) /\ executed \in 0..Len(commands)
    /\ subscribed \subseteq Subscribers
    /\ socket \in [Subscribers -> Seq(Frames)] /\ seen \in [Subscribers -> SUBSET Frames]
    /\ pc \in [Attempts -> {"idle", "started", "work", "completed", "done"}]
    /\ steady \in [Frames -> SUBSET Subscribers]

\* A subscriber has the frame, or is about to get it.
Gets(s, f) == f \in seen[s] \/ \E k \in 1..Len(socket[s]) : socket[s][k] = f

Delivered(f) == \A s \in steady[f] : Gets(s, f)

\* A frame in the queue is the one its attempt awaits, and it is there once.
Awaited ==
    \A k \in 1..Len(commands) : commands[k].what # "ping" =>
      /\ pc[commands[k].of] = commands[k].what
      /\ \A j \in 1..Len(commands) : commands[j].what # "ping" /\ commands[j].of = commands[k].of => j = k

Executed == {f \in Frames : \E k \in 1..executed : commands[k] = f}

\* What Redis has executed is delivered before its reply, and what has resolved
\* was executed.  Only connected subscribers are steady.
BusInv ==
    /\ BusTypes /\ Awaited
    /\ \A f \in Frames : steady[f] \subseteq subscribed
    /\ \A f \in Executed : Delivered(f)
    /\ ReachesTheSteady

LEMMA CommandIsFrame ==
  ASSUME NEW c \in Commands, c.what # "ping"
  PROVE  c \in Frames /\ c.of \in Attempts /\ c.what \in {"started", "completed"}
BY DEF Commands, Frames

LEMMA BusInit == Init => BusInv
<1> SUFFICES ASSUME Init PROVE BusInv
  OBVIOUS
<1>1. /\ commands = <<>> /\ executed = 0 /\ subscribed = Subscribers
      /\ socket = [s \in Subscribers |-> <<>>] /\ seen = [s \in Subscribers |-> {}]
      /\ pc = [a \in Attempts |-> "idle"] /\ steady = [f \in Frames |-> {}]
  BY DEF Init
<1>2. BusTypes
  BY <1>1 DEF BusTypes
<1>3. Awaited /\ Executed = {}
  BY <1>1 DEF Awaited, Executed
<1>4. ReachesTheSteady
  BY <1>1 DEF ReachesTheSteady
<1> QED
  BY <1>1, <1>2, <1>3, <1>4 DEF BusInv

\* A step that takes no frame from a subscriber it leaves steady, and that
\* settles no promise, keeps what is delivered.
LEMMA KeepsDelivered ==
  ASSUME BusInv, UNCHANGED pc, commands' = commands, executed' \in 0..executed,
         BusTypes', \A f \in Frames : steady'[f] \subseteq steady[f] \cap subscribed',
         \A f \in Frames : \A s \in steady'[f] : Gets(s, f) => Gets(s, f)'
  PROVE  BusInv'
<1>1. \A f \in Frames : Delivered(f) => Delivered(f)'
  BY DEF Delivered
<1>2. ReachesTheSteady'
  BY DEF BusInv, ReachesTheSteady, Resolved, Gets
<1>3. Executed' \subseteq Executed
  BY DEF Executed, BusInv, BusTypes
<1>4. \A f \in Executed' : Delivered(f)'
  BY <1>1, <1>3 DEF BusInv, Executed
<1>5. Awaited'
  BY DEF BusInv, Awaited
<1>6. \A f \in Frames : steady'[f] \subseteq subscribed'
  OBVIOUS
<1> QED
  BY <1>2, <1>4, <1>5, <1>6 DEF BusInv

LEMMA DispatchStep == ASSUME BusInv, NEW s \in Subscribers, Dispatch(s) PROVE BusInv'
<1>1. /\ socket[s] # <<>> /\ seen' = [seen EXCEPT ![s] = @ \cup {Head(socket[s])}]
      /\ socket' = [socket EXCEPT ![s] = Tail(socket[s])]
      /\ UNCHANGED <<commands, executed, subscribed, pc, steady>>
  BY DEF Dispatch, publisher, callers
<1>2. BusTypes /\ socket[s] \in Seq(Frames)
  BY DEF BusInv, BusTypes
<1>3. /\ Head(socket[s]) \in Frames /\ Tail(socket[s]) \in Seq(Frames)
      /\ Head(socket[s]) = socket[s][1] /\ Len(Tail(socket[s])) = Len(socket[s]) - 1
      /\ \A k \in 1..(Len(socket[s]) - 1) : Tail(socket[s])[k] = socket[s][k + 1]
  BY <1>1, <1>2
<1>4. BusTypes'
  BY <1>1, <1>2, <1>3 DEF BusTypes
<1>5. ASSUME NEW f \in Frames, Gets(s, f) PROVE Gets(s, f)'
  <2>1. CASE f \in seen[s] \/ f = socket[s][1]
    BY <1>1, <1>2, <1>3, <2>1 DEF Gets, BusTypes
  <2>2. CASE \E k \in 2..Len(socket[s]) : socket[s][k] = f
    <3>1. PICK k \in 2..Len(socket[s]) : socket[s][k] = f
      BY <2>2
    <3>2. k - 1 \in 1..Len(socket'[s]) /\ socket'[s][k - 1] = f
      BY <1>1, <1>2, <1>3, <3>1 DEF BusTypes
    <3> QED
      BY <3>2 DEF Gets
  <2> QED
    BY <1>2, <1>5, <2>1, <2>2 DEF Gets
<1>6. ASSUME NEW f \in Frames, NEW r \in Subscribers, r # s, Gets(r, f) PROVE Gets(r, f)'
  BY <1>1, <1>2, <1>6 DEF Gets, BusTypes
<1>7. \A f \in Frames : \A r \in steady'[f] : Gets(r, f) => Gets(r, f)'
  BY <1>1, <1>2, <1>5, <1>6 DEF BusTypes
<1>8. \A f \in Frames : steady'[f] \subseteq steady[f] \cap subscribed'
  BY <1>1 DEF BusInv
<1>9. executed' \in 0..executed
  BY <1>1, <1>2 DEF BusTypes
<1> QED
  BY <1>1, <1>4, <1>7, <1>8, <1>9, KeepsDelivered

LEMMA DisconnectStep ==
  ASSUME BusInv, NEW gone \in SUBSET Subscribers, Disconnect(gone),
         executed' \in 0..executed, UNCHANGED <<commands, seen, pc>>
  PROVE  BusInv'
<1>1. /\ subscribed' = subscribed \ gone
      /\ steady' = [f \in Frames |-> steady[f] \ gone]
  BY DEF Disconnect
<1>2. PICK kept \in [gone -> 0..Len(commands) + MaxFaults] :
         socket' = [s \in Subscribers |->
           IF s \in gone /\ kept[s] < Len(socket[s]) THEN SubSeq(socket[s], 1, kept[s]) ELSE socket[s]]
  BY DEF Disconnect
<1>3. BusTypes
  BY DEF BusInv
<1>4. ASSUME NEW s \in gone, kept[s] < Len(socket[s])
      PROVE  SubSeq(socket[s], 1, kept[s]) \in Seq(Frames)
  <2>1. kept[s] \in Nat /\ socket[s] \in Seq(Frames) /\ Len(socket[s]) \in Nat
    BY <1>3, EventBusAssumption DEF BusTypes
  <2>2. \A k \in 1..kept[s] : socket[s][k] \in Frames
    BY <1>4, <2>1
  <2> QED
    BY <2>1, <2>2
<1>5. socket' \in [Subscribers -> Seq(Frames)]
  BY <1>2, <1>3, <1>4 DEF BusTypes
<1>6. BusTypes'
  BY <1>1, <1>3, <1>5 DEF BusTypes
<1>7. \A f \in Frames : \A s \in steady'[f] : Gets(s, f) => Gets(s, f)'
  BY <1>1, <1>2, <1>3 DEF Gets, BusTypes
<1>8. \A f \in Frames : steady'[f] \subseteq steady[f] \cap subscribed'
  BY <1>1 DEF BusInv
<1> QED
  BY <1>6, <1>7, <1>8, KeepsDelivered

\* Redis executes a command: what it has executed grows by a frame that goes to
\* everyone who is subscribed.
LEMMA ExecuteStep == ASSUME BusInv, Execute PROVE BusInv'
<1> DEFINE c == commands[executed + 1]
<1>1. /\ executed < Len(commands) /\ executed' = executed + 1
      /\ socket' = [s \in Subscribers |->
                      IF c.what # "ping" /\ s \in subscribed THEN Append(socket[s], c) ELSE socket[s]]
      /\ UNCHANGED <<commands, subscribed, seen, pc, steady>>
  BY DEF Execute, Receivers, callers
<1>2. BusTypes
  BY DEF BusInv
<1>3. c \in Commands /\ executed \in Nat /\ executed + 1 \in 1..Len(commands)
  BY <1>1, <1>2 DEF BusTypes
<1>4. c.what # "ping" => c \in Frames
  BY <1>3, CommandIsFrame
<1> HIDE DEF c
<1>5. \A s \in Subscribers : socket[s] \in Seq(Frames)
  BY <1>2 DEF BusTypes
<1>6. socket' \in [Subscribers -> Seq(Frames)]
  BY <1>1, <1>4, <1>5
<1>7. BusTypes'
  BY <1>1, <1>2, <1>3, <1>6 DEF BusTypes
<1>8. ASSUME NEW s \in Subscribers, NEW f \in Frames, Gets(s, f) PROVE Gets(s, f)'
  <2>1. CASE f \in seen[s]
    BY <1>1, <2>1 DEF Gets
  <2>2. ASSUME NEW k \in 1..Len(socket[s]), socket[s][k] = f PROVE Gets(s, f)'
    <3>1. k \in 1..Len(socket'[s]) /\ socket'[s][k] = f
      BY <1>1, <1>4, <1>5, <2>2
    <3> QED
      BY <3>1 DEF Gets
  <2> QED
    BY <1>8, <2>1, <2>2 DEF Gets
<1>9. \A f \in Frames : Delivered(f) => Delivered(f)'
  BY <1>1, <1>2, <1>8 DEF Delivered, BusTypes
<1>10. ASSUME NEW f \in Frames, f = c, c.what # "ping" PROVE Delivered(f)'
  <2>1. ASSUME NEW s \in steady[f] PROVE Gets(s, f)'
    <3>1. s \in Subscribers /\ s \in subscribed
      BY <1>2, <2>1 DEF BusInv, BusTypes
    <3>2. socket'[s] = Append(socket[s], c) /\ socket[s] \in Seq(Frames)
      BY <1>1, <1>5, <1>10, <3>1
    <3>3. Len(socket[s]) + 1 \in 1..Len(socket'[s]) /\ socket'[s][Len(socket[s]) + 1] = f
      BY <1>4, <1>10, <3>2
    <3> QED
      BY <3>3 DEF Gets
  <2> QED
    BY <1>1, <2>1 DEF Delivered
<1>11. ASSUME NEW f \in Executed' PROVE Delivered(f)'
  <2>1. f \in Frames /\ \E k \in 1..(executed + 1) : commands[k] = f
    BY <1>1, <1>11 DEF Executed
  <2>2. f \in Executed \/ f = c
    BY <1>3, <2>1 DEF Executed, c
  <2>3. f.what # "ping"
    BY <2>1 DEF Frames
  <2> QED
    BY <1>9, <1>10, <2>1, <2>2, <2>3 DEF BusInv
<1>12. ReachesTheSteady'
  BY <1>1, <1>9 DEF BusInv, ReachesTheSteady, Resolved, Delivered, Gets
<1>13. Awaited' /\ \A f \in Frames : steady'[f] \subseteq subscribed'
  BY <1>1 DEF BusInv, Awaited
<1> QED
  BY <1>7, <1>11, <1>12, <1>13 DEF BusInv

\* The reply to the oldest command: what it settles has been executed.
LEMMA ReplyStep == ASSUME BusInv, Reply PROVE BusInv'
<1> DEFINE c == Head(commands)
<1>1. /\ executed > 0 /\ executed' = executed - 1 /\ commands' = Tail(commands)
      /\ UNCHANGED <<subscribed, socket, seen, steady>>
  BY DEF Reply, delivery
<1>2. BusTypes
  BY DEF BusInv
<1>3. /\ executed \in 1..Len(commands) /\ c = commands[1] /\ c \in Commands
      /\ commands' \in Seq(Commands) /\ Len(commands') = Len(commands) - 1
      /\ \A k \in 1..Len(commands') : commands'[k] = commands[k + 1]
  BY <1>1, <1>2 DEF BusTypes
<1>4. pc' = IF c.what = "ping" THEN pc
            ELSE [pc EXCEPT ![c.of] = IF c.what = "started" THEN "work" ELSE "done"]
  BY DEF Reply
<1>5. c.what # "ping" => /\ c \in Frames /\ c.of \in Attempts /\ c.what \in {"started", "completed"}
                         /\ pc[c.of] = c.what /\ Delivered(c)
  <2> SUFFICES ASSUME c.what # "ping"
               PROVE  /\ c \in Frames /\ c.of \in Attempts /\ c.what \in {"started", "completed"}
                      /\ pc[c.of] = c.what /\ Delivered(c)
    OBVIOUS
  <2>1. c \in Frames /\ c.of \in Attempts /\ c.what \in {"started", "completed"}
    BY <1>3, CommandIsFrame
  <2>2. pc[c.of] = c.what
    BY <1>3 DEF BusInv, Awaited
  <2>3. c \in Executed
    BY <1>3, <2>1 DEF Executed
  <2> QED
    BY <2>1, <2>2, <2>3 DEF BusInv
<1> HIDE DEF c
<1>6. BusTypes'
  BY <1>1, <1>2, <1>3, <1>4, <1>5 DEF BusTypes
<1>7. \A f \in Frames : Delivered(f) => Delivered(f)'
  BY <1>1 DEF Delivered, Gets
<1>8. Executed' \subseteq Executed
  <2> SUFFICES ASSUME NEW f \in Frames, NEW k \in 1..executed', commands'[k] = f
               PROVE  \E j \in 1..executed : commands[j] = f
    BY DEF Executed
  <2>1. k + 1 \in 1..executed /\ k \in 1..Len(commands')
    BY <1>1, <1>3
  <2> QED
    BY <1>3, <2>1
<1>9. \A f \in Executed' : Delivered(f)'
  BY <1>7, <1>8 DEF BusInv, Executed
<1>10. ReachesTheSteady'
  <2> SUFFICES ASSUME NEW f \in Frames, Resolved(f.of, f.what)' PROVE Delivered(f)'
    BY DEF ReachesTheSteady, Delivered, Gets
  <2>1. CASE Resolved(f.of, f.what)
    BY <1>7, <2>1 DEF BusInv, ReachesTheSteady, Delivered, Gets
  <2>2. CASE ~Resolved(f.of, f.what)
    <3>1. f.of \in Attempts /\ f.what \in {"started", "completed"} /\ f = [of |-> f.of, what |-> f.what]
      BY DEF Frames
    <3>2. c.what # "ping" /\ f.of = c.of
      BY <1>2, <1>4, <1>5, <2>2, <3>1 DEF Resolved, BusTypes
    <3>3. f.what = c.what
      BY <1>2, <1>4, <1>5, <2>2, <3>1, <3>2 DEF Resolved, BusTypes
    <3>4. c = [of |-> c.of, what |-> c.what]
      BY <1>5, <3>2 DEF Frames
    <3>5. f = c
      BY <3>1, <3>2, <3>3, <3>4
    <3> QED
      BY <1>5, <1>7, <3>2, <3>5
  <2> QED
    BY <2>1, <2>2
<1>11. Awaited'
  <2> SUFFICES ASSUME NEW k \in 1..Len(commands'), commands'[k].what # "ping"
               PROVE  /\ pc'[commands'[k].of] = commands'[k].what
                      /\ \A j \in 1..Len(commands') :
                           commands'[j].what # "ping" /\ commands'[j].of = commands'[k].of => j = k
    BY DEF Awaited
  <2>1. /\ k + 1 \in 1..Len(commands) /\ commands'[k] = commands[k + 1]
        /\ commands[k + 1] \in Commands /\ k \in Nat
    BY <1>2, <1>3 DEF BusTypes
  <2>2. pc[commands'[k].of] = commands'[k].what
    BY <2>1 DEF BusInv, Awaited
  <2>3. 1 \in 1..Len(commands) /\ k + 1 # 1
    BY <1>3, <2>1
  <2>4. c.what # "ping" => commands'[k].of # c.of
    BY <1>3, <2>1, <2>3 DEF BusInv, Awaited
  <2>5. pc'[commands'[k].of] = commands'[k].what
    <3>1. CASE c.what = "ping"
      BY <1>4, <2>2, <3>1
    <3>2. CASE c.what # "ping"
      BY <1>2, <1>4, <2>2, <2>4, <3>2 DEF BusTypes
    <3> QED
      BY <3>1, <3>2
  <2>6. ASSUME NEW j \in 1..Len(commands'), commands'[j].what # "ping",
               commands'[j].of = commands'[k].of
        PROVE  j = k
    <3>1. j + 1 \in 1..Len(commands) /\ commands'[j] = commands[j + 1] /\ j \in Nat
      BY <1>3, <1>2 DEF BusTypes
    <3>2. j + 1 = k + 1
      BY <2>1, <2>6, <3>1 DEF BusInv, Awaited
    <3> QED
      BY <2>1, <3>1, <3>2
  <2> QED
    BY <2>5, <2>6
<1>12. \A f \in Frames : steady'[f] \subseteq subscribed'
  BY <1>1 DEF BusInv
<1> QED
  BY <1>6, <1>9, <1>10, <1>11, <1>12 DEF BusInv

\* A command joins the end of the queue; nothing more has been executed.
LEMMA QueueGrows ==
  ASSUME BusTypes, NEW c \in Commands, commands' = Append(commands, c), UNCHANGED executed
  PROVE  /\ commands' \in Seq(Commands) /\ executed' \in 0..Len(commands')
         /\ Len(commands') = Len(commands) + 1 /\ Len(commands) \in Nat
         /\ commands'[Len(commands) + 1] = c
         /\ \A k \in 1..Len(commands) : commands'[k] = commands[k]
         /\ Executed' = Executed
<1>1. /\ commands' \in Seq(Commands)
      /\ Len(commands') = Len(commands) + 1 /\ Len(commands) \in Nat
      /\ commands'[Len(commands) + 1] = c
      /\ \A k \in 1..Len(commands) : commands'[k] = commands[k]
  BY DEF BusTypes
<1>2. executed \in 0..Len(commands)
  BY DEF BusTypes
<1>3. executed' \in 0..Len(commands')
  BY <1>1, <1>2
<1>4. \A k \in 1..executed : commands'[k] = commands[k]
  BY <1>1, <1>2
<1>5. Executed' = Executed
  BY <1>4 DEF Executed
<1> QED
  BY <1>1, <1>3, <1>5

LEMMA PingStep == ASSUME BusInv, NEW n \in Probes, Ping(n) PROVE BusInv'
<1> DEFINE c == Command(n, "ping")
<1>1. /\ commands' = Append(commands, c)
      /\ UNCHANGED <<executed, subscribed, socket, seen, steady, pc>>
  BY DEF Ping, delivery
<1>2. BusTypes /\ c \in Commands /\ c.what = "ping"
  BY DEF BusInv, Command, Commands
<1> HIDE DEF c
<1>3. /\ commands' \in Seq(Commands) /\ executed' \in 0..Len(commands')
      /\ Len(commands') = Len(commands) + 1 /\ Len(commands) \in Nat
      /\ commands'[Len(commands) + 1] = c
      /\ \A k \in 1..Len(commands) : commands'[k] = commands[k]
      /\ Executed' = Executed
  BY <1>1, <1>2, QueueGrows
<1>4. BusTypes'
  BY <1>1, <1>2, <1>3 DEF BusTypes
<1>5. \A f \in Frames : Delivered(f) => Delivered(f)'
  BY <1>1 DEF Delivered, Gets
<1>6. (\A f \in Executed' : Delivered(f)') /\ ReachesTheSteady'
  BY <1>1, <1>3, <1>5 DEF BusInv, ReachesTheSteady, Resolved, Delivered, Gets, Executed
<1>7. \A k \in 1..Len(commands') :
        commands'[k].what # "ping" => k \in 1..Len(commands) /\ commands'[k] = commands[k]
  BY <1>2, <1>3
<1>8. Awaited'
  BY <1>1, <1>7 DEF BusInv, Awaited
<1> QED
  BY <1>1, <1>4, <1>6, <1>8 DEF BusInv

\* A frame that is being published is not in the queue and not executed: its
\* attempt awaits none.  The other frame of the attempt stays as it was.
LEMMA PublishStep ==
  ASSUME BusInv, NEW a \in Attempts, NEW what \in {"started", "completed"}, Publish(a, what)
  PROVE  BusInv'
<1> DEFINE c == Command(a, what)
<1>1. /\ pc[a] = IF what = "started" THEN "idle" ELSE "work"
      /\ pc' = [pc EXCEPT ![a] = what] /\ commands' = Append(commands, c)
      /\ steady' = [steady EXCEPT ![c] = subscribed]
      /\ UNCHANGED <<executed, subscribed, socket, seen>>
  BY DEF Publish, MayPublish
<1>2. BusTypes
  BY DEF BusInv
<1>3. c \in Commands /\ c \in Frames /\ c.what = what /\ c.of = a /\ what # "ping"
  BY DEF Command, Commands, Frames
<1> HIDE DEF c
<1>4. /\ commands' \in Seq(Commands) /\ executed' \in 0..Len(commands')
      /\ Len(commands') = Len(commands) + 1 /\ Len(commands) \in Nat
      /\ commands'[Len(commands) + 1] = c
      /\ \A k \in 1..Len(commands) : commands'[k] = commands[k]
      /\ Executed' = Executed
  BY <1>1, <1>2, <1>3, QueueGrows
<1>5. BusTypes'
  BY <1>1, <1>2, <1>3, <1>4 DEF BusTypes
<1>6. \A k \in 1..Len(commands) : commands[k].what # "ping" => commands[k].of # a
  <2> SUFFICES ASSUME NEW k \in 1..Len(commands), commands[k].what # "ping", commands[k].of = a
               PROVE  FALSE
    OBVIOUS
  <2>1. commands[k] \in Commands /\ pc[a] = commands[k].what
    BY <1>2 DEF BusInv, Awaited, BusTypes
  <2> QED
    BY <1>1, <2>1, CommandIsFrame
<1>7. c \notin Executed
  BY <1>2, <1>3, <1>6 DEF Executed, BusTypes
<1>8. \A f \in Frames : f # c /\ Delivered(f) => Delivered(f)'
  BY <1>1, <1>2 DEF Delivered, Gets, BusTypes
<1>9. \A f \in Executed' : Delivered(f)'
  BY <1>4, <1>7, <1>8 DEF BusInv, Executed
<1>10. ReachesTheSteady'
  <2> SUFFICES ASSUME NEW f \in Frames, Resolved(f.of, f.what)' PROVE Delivered(f)'
    BY DEF ReachesTheSteady, Delivered, Gets
  <2>1. f.of \in Attempts /\ f.what \in {"started", "completed"}
    BY DEF Frames
  <2>2. f # c
    BY <1>1, <1>2, <1>3, <2>1 DEF Resolved, BusTypes
  <2>3. Resolved(f.of, f.what)
    BY <1>1, <1>2, <2>1 DEF Resolved, BusTypes
  <2> QED
    BY <1>8, <2>2, <2>3 DEF BusInv, ReachesTheSteady, Delivered, Gets
<1>11. Awaited'
  <2> SUFFICES ASSUME NEW k \in 1..Len(commands'), commands'[k].what # "ping"
               PROVE  /\ pc'[commands'[k].of] = commands'[k].what
                      /\ \A j \in 1..Len(commands') :
                           commands'[j].what # "ping" /\ commands'[j].of = commands'[k].of => j = k
    BY DEF Awaited
  <2>1. \A j \in 1..Len(commands') : j \in 1..Len(commands) \/ j = Len(commands) + 1
    BY <1>4
  <2>2. CASE k = Len(commands) + 1
    BY <1>1, <1>2, <1>3, <1>4, <1>6, <2>1, <2>2 DEF BusTypes
  <2>3. CASE k \in 1..Len(commands)
    <3>1. commands[k] \in Commands /\ commands'[k] = commands[k] /\ commands[k].of # a
      BY <1>2, <1>4, <1>6, <2>3 DEF BusTypes
    <3>2. pc[commands[k].of] = commands[k].what
      BY <2>3, <3>1 DEF BusInv, Awaited
    <3>3. pc'[commands'[k].of] = commands'[k].what
      BY <1>1, <1>2, <3>1, <3>2 DEF BusTypes
    <3>4. ASSUME NEW j \in 1..Len(commands'), commands'[j].what # "ping",
                 commands'[j].of = commands'[k].of
          PROVE  j = k
      BY <1>3, <1>4, <2>1, <2>3, <3>1, <3>4 DEF BusInv, Awaited
    <3> QED
      BY <3>3, <3>4
  <2> QED
    BY <2>1, <2>2, <2>3
<1>12. \A f \in Frames : steady'[f] \subseteq subscribed'
  BY <1>1, <1>2 DEF BusInv, BusTypes
<1> QED
  BY <1>5, <1>9, <1>10, <1>11, <1>12 DEF BusInv

LEMMA BusNext == BusInv /\ [Next]_vars => BusInv'
<1> SUFFICES ASSUME BusInv, [Next]_vars PROVE BusInv'
  OBVIOUS
<1>1. executed \in 0..Len(commands) /\ subscribed \subseteq Subscribers /\ Len(commands) \in Nat
  BY DEF BusInv, BusTypes
<1>2. ASSUME UNCHANGED <<commands, subscribed, socket, seen, pc, steady>>, executed' \in 0..executed
      PROVE  BusInv'
  <2>1. BusTypes'
    BY <1>1, <1>2 DEF BusInv, BusTypes
  <2>2. \A f \in Frames : \A s \in steady'[f] : Gets(s, f) => Gets(s, f)'
    BY <1>2 DEF Gets
  <2>3. \A f \in Frames : steady'[f] \subseteq steady[f] \cap subscribed'
    BY <1>2 DEF BusInv
  <2> QED
    BY <1>2, <2>1, <2>2, <2>3, KeepsDelivered
<1>3. CASE RedisStops
  BY <1>1, <1>3, DisconnectStep DEF RedisStops, callers
<1>4. ASSUME NEW s \in Subscribers, SubscriberBreaks(s) PROVE BusInv'
  BY <1>1, <1>4, DisconnectStep DEF SubscriberBreaks, callers, publisher
<1>5. CASE RedisStarts \/ PublisherBreaks \/ Reconnect
  BY <1>1, <1>2, <1>5 DEF RedisStarts, PublisherBreaks, Reconnect, publisher, delivery, callers
<1>6. ASSUME NEW n \in Probes, Deadline(n) PROVE BusInv'
  BY <1>1, <1>2, <1>6 DEF Deadline, publisher, delivery
<1>7. ASSUME NEW s \in Subscribers, Resubscribe(s) PROVE BusInv'
  <2>1. subscribed' = subscribed \cup {s} /\ UNCHANGED <<commands, executed, socket, seen, steady, pc>>
    BY <1>7 DEF Resubscribe, publisher, callers
  <2>2. BusTypes'
    BY <2>1 DEF BusInv, BusTypes
  <2>3. \A f \in Frames : \A r \in steady'[f] : Gets(r, f) => Gets(r, f)'
    BY <2>1 DEF Gets
  <2>4. \A f \in Frames : steady'[f] \subseteq steady[f] \cap subscribed'
    BY <2>1 DEF BusInv
  <2> QED
    BY <1>1, <2>1, <2>2, <2>3, <2>4, KeepsDelivered
<1>8. CASE UNCHANGED vars
  BY <1>1, <1>2, <1>8 DEF vars, publisher, delivery, callers
<1> QED
  BY <1>3, <1>4, <1>5, <1>6, <1>7, <1>8, PublishStep, PingStep, DispatchStep, ExecuteStep,
     ReplyStep DEF Next

\* The contract of EventBus, for every number of attempts, listeners, probes and
\* faults: a resolved publish has reached everyone who was subscribed throughout.
THEOREM ResolvedIsDelivered == FairSpec => []ReachesTheSteady
<1>1. BusInv => ReachesTheSteady
  BY DEF BusInv
<1> QED
  BY <1>1, BusInit, BusNext, PTL DEF FairSpec

-----------------------------------------------------------------------------
(* The order of the frames of one attempt.                                   *)

Started(a)   == Command(a, "started")
Completed(a) == Command(a, "completed")

\* An outcome is on its way to a subscriber only once its attempt awaits it, when
\* the reply to the started frame has taken that out of the queue for good.
OrderInv ==
    /\ \A s \in Subscribers, a \in Attempts :
         /\ Gets(s, Completed(a)) => pc[a] \in {"completed", "done"}
         /\ \A j, k \in 1..Len(socket[s]) :
              socket[s][j] = Started(a) /\ socket[s][k] = Completed(a) => j < k
         /\ \A j \in 1..Len(socket[s]) : socket[s][j] = Started(a) => Completed(a) \notin seen[s]

LEMMA OrderLast == OrderInv => OutcomeLast
BY DEF OrderInv, OutcomeLast, Started, Completed

LEMMA OrderInit == Init => OrderInv
BY DEF Init, OrderInv, Gets

\* A step that delivers nothing and at most cuts off the ends of sockets.
LEMMA CutsOff ==
  ASSUME OrderInv, UNCHANGED seen,
         \A s \in Subscribers : /\ Len(socket'[s]) \in 0..Len(socket[s])
                                /\ \A k \in 1..Len(socket'[s]) : socket'[s][k] = socket[s][k],
         \A s \in Subscribers : Len(socket[s]) \in Nat,
         \A a \in Attempts : pc[a] \in {"completed", "done"} => pc'[a] \in {"completed", "done"}
  PROVE  OrderInv'
<1>1. ASSUME NEW s \in Subscribers
      PROVE  \A k \in 1..Len(socket'[s]) : k \in 1..Len(socket[s]) /\ socket'[s][k] = socket[s][k]
  OBVIOUS
<1>2. ASSUME NEW s \in Subscribers, NEW f, Gets(s, f)' PROVE Gets(s, f)
  BY <1>1, <1>2 DEF Gets
<1>3. ASSUME NEW s \in Subscribers, NEW a \in Attempts
      PROVE  /\ Gets(s, Completed(a))' => pc'[a] \in {"completed", "done"}
             /\ \A j, k \in 1..Len(socket'[s]) :
                  socket'[s][j] = Started(a) /\ socket'[s][k] = Completed(a) => j < k
             /\ \A j \in 1..Len(socket'[s]) :
                  socket'[s][j] = Started(a) => Completed(a) \notin seen'[s]
  <2>1. Gets(s, Completed(a))' => pc'[a] \in {"completed", "done"}
    BY <1>2 DEF OrderInv
  <2>2. ASSUME NEW j \in 1..Len(socket'[s]), NEW k \in 1..Len(socket'[s]),
               socket'[s][j] = Started(a), socket'[s][k] = Completed(a)
        PROVE  j < k
    BY <1>1, <2>2 DEF OrderInv
  <2>3. ASSUME NEW j \in 1..Len(socket'[s]), socket'[s][j] = Started(a)
        PROVE  Completed(a) \notin seen'[s]
    BY <1>1, <2>3 DEF OrderInv
  <2> QED
    BY <2>1, <2>2, <2>3
<1> QED
  BY <1>3 DEF OrderInv, Started, Completed

LEMMA DisconnectCuts ==
  ASSUME BusInv, OrderInv, NEW gone \in SUBSET Subscribers, Disconnect(gone), UNCHANGED <<seen, pc>>
  PROVE  OrderInv'
<1>1. PICK kept \in [gone -> 0..Len(commands) + MaxFaults] :
         socket' = [s \in Subscribers |->
           IF s \in gone /\ kept[s] < Len(socket[s]) THEN SubSeq(socket[s], 1, kept[s]) ELSE socket[s]]
  BY DEF Disconnect
<1>2. ASSUME NEW s \in Subscribers
      PROVE  /\ Len(socket[s]) \in Nat /\ Len(socket'[s]) \in 0..Len(socket[s])
             /\ \A k \in 1..Len(socket'[s]) : socket'[s][k] = socket[s][k]
  <2>1. socket[s] \in Seq(Frames) /\ Len(socket[s]) \in Nat
    BY DEF BusInv, BusTypes
  <2>2. CASE s \in gone /\ kept[s] < Len(socket[s])
    <3>1. kept[s] \in Nat /\ socket'[s] = SubSeq(socket[s], 1, kept[s])
      BY <1>1, <2>2, EventBusAssumption DEF BusInv, BusTypes
    <3> QED
      BY <2>1, <2>2, <3>1
  <2>3. CASE ~(s \in gone /\ kept[s] < Len(socket[s]))
    BY <1>1, <2>1, <2>3
  <2> QED
    BY <2>2, <2>3
<1> QED
  BY <1>2, CutsOff

\* A started frame is executed while its attempt awaits it, so before any outcome.
LEMMA ExecuteOrders == ASSUME BusInv, OrderInv, Execute PROVE OrderInv'
<1> DEFINE c == commands[executed + 1]
<1>1. /\ executed < Len(commands)
      /\ socket' = [s \in Subscribers |->
                      IF c.what # "ping" /\ s \in subscribed THEN Append(socket[s], c) ELSE socket[s]]
      /\ UNCHANGED <<seen, pc>>
  BY DEF Execute, Receivers, callers
<1>2. executed + 1 \in 1..Len(commands) /\ c \in Commands
  BY <1>1 DEF BusInv, BusTypes
<1>3. c.what # "ping" => c \in Frames /\ pc[c.of] = c.what
  BY <1>2, CommandIsFrame DEF BusInv, Awaited
<1> HIDE DEF c
<1>4. ASSUME NEW s \in Subscribers, NEW a \in Attempts
      PROVE  /\ Gets(s, Completed(a))' => pc'[a] \in {"completed", "done"}
             /\ \A j, k \in 1..Len(socket'[s]) :
                  socket'[s][j] = Started(a) /\ socket'[s][k] = Completed(a) => j < k
             /\ \A j \in 1..Len(socket'[s]) :
                  socket'[s][j] = Started(a) => Completed(a) \notin seen'[s]
  <2> DEFINE n == Len(socket[s])
  <2>1. socket[s] \in Seq(Frames) /\ n \in Nat
    BY DEF BusInv, BusTypes
  <2>2. CASE socket'[s] = socket[s]
    <3>1. seen'[s] = seen[s] /\ pc'[a] = pc[a]
      BY <1>1
    <3>2. Gets(s, Completed(a))' = Gets(s, Completed(a))
      BY <2>2, <3>1 DEF Gets, Completed
    <3> QED
      BY <2>2, <3>1, <3>2 DEF OrderInv
  <2>3. CASE c.what # "ping" /\ socket'[s] = Append(socket[s], c)
    <3>1. /\ Len(socket'[s]) = n + 1 /\ socket'[s][n + 1] = c
          /\ \A k \in 1..n : socket'[s][k] = socket[s][k]
      BY <1>3, <2>1, <2>3
    <3>2. \A k \in 1..Len(socket'[s]) : k \in 1..n \/ k = n + 1
      BY <2>1, <3>1
    <3>3. c = Started(a) => /\ pc[a] = "started"
                            /\ \A k \in 1..n : socket[s][k] # Completed(a)
                            /\ Completed(a) \notin seen[s] /\ c # Completed(a)
      BY <1>3, <2>3 DEF OrderInv, Gets, Started, Completed, Command
    <3>4. c = Completed(a) => pc[a] = "completed" /\ c # Started(a)
      BY <1>3, <2>3 DEF Started, Completed, Command
    <3>5. Gets(s, Completed(a))' => Gets(s, Completed(a)) \/ c = Completed(a)
      BY <1>1, <3>1, <3>2 DEF Gets
    <3>6. Gets(s, Completed(a))' => pc'[a] \in {"completed", "done"}
      BY <1>1, <3>4, <3>5 DEF OrderInv
    <3>7. ASSUME NEW j \in 1..Len(socket'[s]), NEW k \in 1..Len(socket'[s]),
                 socket'[s][j] = Started(a), socket'[s][k] = Completed(a)
          PROVE  j < k
      <4>1. j \in 1..n
        BY <3>1, <3>2, <3>3, <3>7
      <4>2. CASE k \in 1..n
        BY <3>1, <3>7, <4>1, <4>2 DEF OrderInv
      <4>3. CASE k = n + 1
        BY <2>1, <4>1, <4>3
      <4> QED
        BY <3>2, <4>2, <4>3
    <3>8. ASSUME NEW j \in 1..Len(socket'[s]), socket'[s][j] = Started(a)
          PROVE  Completed(a) \notin seen'[s]
      BY <1>1, <3>1, <3>2, <3>3, <3>8 DEF OrderInv
    <3> QED
      BY <3>6, <3>7, <3>8
  <2> QED
    BY <1>1, <2>2, <2>3
<1> QED
  BY <1>4 DEF OrderInv, Started, Completed

\* What is dispatched was first in its socket.
LEMMA DispatchOrders == ASSUME BusInv, OrderInv, NEW r \in Subscribers, Dispatch(r) PROVE OrderInv'
<1>1. /\ socket[r] # <<>> /\ seen' = [seen EXCEPT ![r] = @ \cup {Head(socket[r])}]
      /\ socket' = [socket EXCEPT ![r] = Tail(socket[r])] /\ pc' = pc
  BY DEF Dispatch, callers
<1>2. socket \in [Subscribers -> Seq(Frames)] /\ seen \in [Subscribers -> SUBSET Frames]
  BY DEF BusInv, BusTypes
<1>3. ASSUME NEW s \in Subscribers, NEW a \in Attempts
      PROVE  /\ Gets(s, Completed(a))' => pc'[a] \in {"completed", "done"}
             /\ \A j, k \in 1..Len(socket'[s]) :
                  socket'[s][j] = Started(a) /\ socket'[s][k] = Completed(a) => j < k
             /\ \A j \in 1..Len(socket'[s]) :
                  socket'[s][j] = Started(a) => Completed(a) \notin seen'[s]
  <2>1. CASE s # r
    <3>1. socket'[s] = socket[s] /\ seen'[s] = seen[s]
      BY <1>1, <1>2, <2>1
    <3> QED
      BY <1>1, <3>1 DEF OrderInv, Gets
  <2>2. CASE s = r
    <3> DEFINE n == Len(socket[s])  h == socket[s][1]
    <3>1. /\ socket[s] \in Seq(Frames) /\ n \in Nat \ {0} /\ Len(socket'[s]) = n - 1
          /\ seen'[s] = seen[s] \cup {h} /\ 1 \in 1..n
          /\ \A k \in 1..(n - 1) : k + 1 \in 1..n /\ socket'[s][k] = socket[s][k + 1]
      BY <1>1, <1>2, <2>2
    <3> HIDE DEF n, h
    <3>2. Gets(s, Completed(a))' => Gets(s, Completed(a))
      BY <3>1 DEF Gets, n, h
    <3>3. ASSUME NEW j \in 1..(n - 1), NEW k \in 1..(n - 1),
                 socket'[s][j] = Started(a), socket'[s][k] = Completed(a)
          PROVE  j < k
      <4>1. j + 1 < k + 1
        BY <3>1, <3>3 DEF OrderInv, n
      <4> QED
        BY <4>1
    <3>4. ASSUME NEW j \in 1..(n - 1), socket'[s][j] = Started(a)
          PROVE  Completed(a) \notin seen'[s]
      <4>1. h # Completed(a)
        <5>1. j + 1 \in 1..n /\ 1 \in 1..n /\ socket[s][j + 1] = Started(a) /\ ~(j + 1 < 1)
          BY <3>1, <3>4
        <5> QED
          BY <5>1 DEF OrderInv, n, h
      <4>2. Completed(a) \notin seen[s]
        BY <3>1, <3>4 DEF OrderInv, n
      <4> QED
        BY <3>1, <4>1, <4>2
    <3>5. Gets(s, Completed(a))' => pc'[a] \in {"completed", "done"}
      BY <1>1, <3>2 DEF OrderInv
    <3> QED
      BY <3>1, <3>3, <3>4, <3>5
  <2> QED
    BY <2>1, <2>2
<1> QED
  BY <1>3 DEF OrderInv, Started, Completed

LEMMA OrderNext == BusInv /\ OrderInv /\ [Next]_vars => OrderInv'
<1> SUFFICES ASSUME BusInv, OrderInv, [Next]_vars PROVE OrderInv'
  OBVIOUS
<1>1. pc \in [Attempts -> {"idle", "started", "work", "completed", "done"}]
      /\ \A s \in Subscribers : Len(socket[s]) \in Nat
  BY DEF BusInv, BusTypes
<1>2. ASSUME UNCHANGED <<socket, seen>>,
             \A a \in Attempts : pc[a] \in {"completed", "done"} => pc'[a] \in {"completed", "done"}
      PROVE  OrderInv'
  BY <1>1, <1>2, CutsOff
<1>3. ASSUME NEW a \in Attempts, NEW what \in {"started", "completed"}, Publish(a, what)
      PROVE  OrderInv'
  BY <1>1, <1>2, <1>3 DEF Publish, MayPublish
<1>4. CASE Reply
  <2> DEFINE c == Head(commands)
  <2>1. UNCHANGED <<socket, seen>>
    BY <1>4 DEF Reply, delivery
  <2>2. pc' = IF c.what = "ping" THEN pc
              ELSE [pc EXCEPT ![c.of] = IF c.what = "started" THEN "work" ELSE "done"]
    BY <1>4 DEF Reply
  <2>3. c.what # "ping" => pc[c.of] = c.what
    <3>1. 1 \in 1..Len(commands) /\ c = commands[1]
      BY <1>4 DEF Reply, BusInv, BusTypes
    <3> QED
      BY <3>1 DEF BusInv, Awaited
  <2> HIDE DEF c
  <2> QED
    BY <1>1, <1>2, <2>1, <2>2, <2>3
<1>5. CASE RedisStops
  BY <1>5, DisconnectCuts DEF RedisStops, callers, BusInv, BusTypes
<1>6. ASSUME NEW s \in Subscribers, SubscriberBreaks(s) PROVE OrderInv'
  BY <1>6, DisconnectCuts DEF SubscriberBreaks, callers
<1>7. ASSUME NEW n \in Probes, Ping(n) \/ Deadline(n) PROVE OrderInv'
  BY <1>2, <1>7 DEF Ping, Deadline, delivery
<1>8. ASSUME NEW s \in Subscribers, Resubscribe(s) PROVE OrderInv'
  BY <1>2, <1>8 DEF Resubscribe, callers
<1>9. CASE RedisStarts \/ PublisherBreaks \/ Reconnect \/ UNCHANGED vars
  BY <1>2, <1>9 DEF RedisStarts, PublisherBreaks, Reconnect, vars, delivery, callers
<1> QED
  BY <1>3, <1>4, <1>5, <1>6, <1>7, <1>8, <1>9, ExecuteOrders, DispatchOrders DEF Next

\* However often commands are sent again and connections break, no listener gets
\* the started frame of an attempt after its outcome.
THEOREM OutcomeIsLast == FairSpec => []OutcomeLast
BY BusInit, BusNext, OrderInit, OrderNext, OrderLast, PTL DEF FairSpec

-----------------------------------------------------------------------------
(* The connections.                                                          *)

\* A connection that is established ends at a Redis that runs, and a command
\* counts as executed only on the connection that will bring its reply.
Links ==
    /\ redisUp \in BOOLEAN /\ ready \in BOOLEAN /\ (ready => redisUp)
    /\ (executed > 0 => ready)
    /\ (subscribed # {} => redisUp)
    /\ probe \in [Probes -> {"none", "waiting", "up", "down"}]
    /\ faults \in 0..MaxFaults

LEMMA LinksType == BusInv /\ Links => TypeOK
BY DEF BusInv, BusTypes, Links, TypeOK

LEMMA LinksInit == Init => Links
BY EventBusAssumption DEF Init, Links

LEMMA FaultCounts == ASSUME Links, Fault PROVE faults' \in 0..MaxFaults
BY EventBusAssumption DEF Links, Fault

\* A reply settles the promise of a probe or of an attempt.
LEMMA ReplyLinks == ASSUME BusInv, Links, Reply PROVE Links'
<1>1. executed \in 0..Len(commands) /\ commands \in Seq(Commands) /\ Len(commands) \in Nat
  BY DEF BusInv, BusTypes
<1>2. executed > 0 /\ executed' = executed - 1 /\ UNCHANGED <<redisUp, ready, subscribed, faults>>
  BY DEF Reply, delivery
<1>3. \/ probe' = [probe EXCEPT ![Head(commands).of] = IF @ = "waiting" THEN "up" ELSE @]
      \/ probe' = probe
  BY DEF Reply
<1>4. probe' \in [Probes -> {"none", "waiting", "up", "down"}]
  BY <1>3 DEF Links
<1> QED
  BY <1>1, <1>2, <1>4 DEF Links

LEMMA LinksNext == BusInv /\ Links /\ [Next]_vars => Links'
<1> SUFFICES ASSUME BusInv, Links, [Next]_vars PROVE Links'
  OBVIOUS
<1>1. executed \in Nat /\ Len(commands) \in Nat
  BY DEF BusInv, BusTypes
<1>2. ASSUME UNCHANGED <<redisUp, ready, executed, subscribed, probe, faults>> PROVE Links'
  BY <1>2 DEF Links
<1>3. ASSUME NEW a \in Attempts, NEW what \in {"started", "completed"}, Publish(a, what)
      PROVE  Links'
  BY <1>2, <1>3 DEF Publish
<1>4. ASSUME NEW n \in Probes, Ping(n) \/ Deadline(n) PROVE Links'
  BY <1>4 DEF Ping, Deadline, Links, delivery, publisher
<1>5. ASSUME NEW s \in Subscribers, Dispatch(s) PROVE Links'
  BY <1>2, <1>5 DEF Dispatch, publisher, callers
<1>6. ASSUME NEW s \in Subscribers, SubscriberBreaks(s) PROVE Links'
  BY <1>6, FaultCounts DEF SubscriberBreaks, Disconnect, Links, publisher, callers
<1>7. ASSUME NEW s \in Subscribers, Resubscribe(s) PROVE Links'
  BY <1>7 DEF Resubscribe, Links, publisher, callers
<1>8. CASE Execute
  BY <1>1, <1>8 DEF Execute, Links, callers
<1>9. CASE RedisStops
  <2>1. /\ redisUp' \in BOOLEAN /\ ready' \in BOOLEAN /\ ~ready'
        /\ executed' = 0 /\ UNCHANGED probe
    BY <1>9 DEF RedisStops, callers
  <2>2. subscribed' = {} /\ faults' \in 0..MaxFaults
    BY <1>9, FaultCounts DEF RedisStops, Disconnect
  <2>3. probe' \in [Probes -> {"none", "waiting", "up", "down"}] /\ ~(executed' > 0)
    BY <2>1 DEF Links
  <2> QED
    BY <2>1, <2>2, <2>3 DEF Links
<1>10. CASE RedisStarts
  BY <1>10 DEF RedisStarts, Links, publisher, delivery, callers
<1>11. CASE PublisherBreaks
  <2>1. /\ redisUp' \in BOOLEAN /\ ready' \in BOOLEAN /\ ~ready'
        /\ executed' = 0 /\ (subscribed' # {} => redisUp')
        /\ probe' \in [Probes -> {"none", "waiting", "up", "down"}]
    BY <1>11 DEF PublisherBreaks, Links, delivery, callers
  <2>2. faults' \in 0..MaxFaults
    BY <1>11, FaultCounts DEF PublisherBreaks
  <2>3. ~(executed' > 0)
    BY <2>1
  <2> QED
    BY <2>1, <2>2, <2>3 DEF Links
<1>12. CASE Reconnect
  BY <1>12 DEF Reconnect, Retries, Links, delivery, callers
<1>13. CASE UNCHANGED vars
  BY <1>2, <1>13 DEF vars, publisher, delivery, callers
<1> QED
  BY <1>3, <1>4, <1>5, <1>6, <1>7, <1>8, <1>9, <1>10, <1>11, <1>12, <1>13, ReplyLinks DEF Next

\* Nothing but commands is in the publisher's queue, nothing but frames on a
\* subscriber's socket, and no connection outlives the Redis it ends at, however
\* often connections break.
THEOREM TypeCorrect == FairSpec => []TypeOK
BY BusInit, BusNext, LinksInit, LinksNext, LinksType, PTL DEF FairSpec

=============================================================================
