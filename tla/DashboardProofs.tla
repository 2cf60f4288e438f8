--------------------------- MODULE DashboardProofs ---------------------------
(***************************************************************************)
(* The last click is honoured whatever overlaps and whatever fails, and    *)
(* without overlap one order is shown, no row more often than its frame    *)
(* was handed out, and only the known gaps lose rows, for any number of    *)
(* orders, instances, clicks, rows and errors.                             *)
(***************************************************************************)
EXTENDS Dashboard, FiniteSetTheorems, TLAPS

\* What the requests of the page are, and whose.
RequestsOK ==
    /\ clicks \in 0..MaxSelects /\ written \in [Orders -> 0..MaxRows]
    /\ calls \subseteq Calls /\ streams \subseteq Sources

ClickInv == RequestsOK /\ LastClickLives

\* Requests that become others of the same click and order leave it as alive as
\* it was.
LEMMA StaysAlive ==
  ASSUME LastClickLives, UNCHANGED <<clicks, selected>>,
         \A c \in calls \cup streams :
           \E d \in calls' \cup streams' : d.call = c.call /\ d.order = c.order
  PROVE  LastClickLives'
BY DEF LastClickLives

LEMMA ClickInit == Init => ClickInv
BY DashboardAssumption DEF Init, ClickInv, RequestsOK, LastClickLives

LEMMA SelectStep == ASSUME ClickInv, NEW o \in Orders, Select(o) PROVE ClickInv'
<1> DEFINE c == [call |-> clicks + 1, order |-> o, read |-> FALSE, rows |-> {}]
<1>1. /\ clicks < MaxSelects /\ clicks' = clicks + 1 /\ selected' = o
      /\ calls' = calls \cup {c} /\ streams' \subseteq streams /\ UNCHANGED written
  BY DEF Select, backend
<1>2. clicks \in 0..MaxSelects /\ written \in [Orders -> 0..MaxRows]
      /\ calls \subseteq Calls /\ streams \subseteq Sources
  BY DEF ClickInv, RequestsOK
<1>3. clicks' \in 1..MaxSelects
  BY <1>1, <1>2, DashboardAssumption
<1>4. c \in Calls
  BY <1>1, <1>3 DEF Calls
<1> HIDE DEF c
<1>5. RequestsOK'
  <2>1. calls' \subseteq Calls /\ streams' \subseteq Sources
    BY <1>1, <1>2, <1>4
  <2>2. clicks' \in 0..MaxSelects
    BY <1>3, DashboardAssumption
  <2> QED
    BY <1>1, <1>2, <2>1, <2>2 DEF RequestsOK
<1> USE DEF c
<1>6. c \in calls' /\ c.call = clicks' /\ c.order = selected'
  BY <1>1
<1> QED
  BY <1>5, <1>6 DEF ClickInv, LastClickLives

LEMMA ReadStep == ASSUME ClickInv, NEW c \in calls, ReadHistory(c) PROVE ClickInv'
<1> DEFINE d == [c EXCEPT !.read = TRUE, !.rows = History(c.order)]
<1>1. calls' = (calls \ {c}) \cup {d} /\ UNCHANGED <<clicks, selected, written, streams>>
  BY DEF ReadHistory, backend, choice
<1>2. c \in Calls /\ RequestsOK
  BY DEF ClickInv, RequestsOK
<1>3. written[c.order] \in 0..MaxRows /\ c.order \in Orders
  BY <1>2 DEF RequestsOK, Calls
<1>4. History(c.order) \subseteq Rows
  BY <1>3, DashboardAssumption DEF History, Rows
<1>5. d \in Calls /\ d.call = c.call /\ d.order = c.order
  BY <1>2, <1>4 DEF Calls
<1>6. RequestsOK'
  BY <1>1, <1>2, <1>5 DEF RequestsOK
<1>7. LastClickLives'
  BY <1>1, <1>5, StaysAlive DEF ClickInv
<1> QED
  BY <1>6, <1>7 DEF ClickInv

\* The answer, or its failure: the stream takes the place of the hydration.
LEMMA HydrateStep == ASSUME ClickInv, NEW c \in calls, Hydrate(c) PROVE ClickInv'
<1> DEFINE s == [call |-> c.call, order |-> c.order, at |-> Nowhere]
<1>1. /\ calls' = calls \ {c} /\ streams' = streams \cup {s}
      /\ UNCHANGED <<clicks, selected, written>>
  BY DEF Hydrate, StreamOf, backend
<1>2. c \in Calls /\ RequestsOK
  BY DEF ClickInv, RequestsOK
<1>3. s \in Sources
  BY <1>2 DEF Calls, Sources
<1>4. RequestsOK'
  BY <1>1, <1>2, <1>3 DEF RequestsOK
<1>5. LastClickLives'
  BY <1>1, StaysAlive DEF ClickInv
<1> QED
  BY <1>4, <1>5 DEF ClickInv

LEMMA StreamStep ==
  ASSUME ClickInv, NEW s \in streams, StreamOpens(s) \/ StreamBreaks(s) PROVE ClickInv'
<1>1. PICK i \in Instances \cup {Nowhere} : streams' = (streams \ {s}) \cup {[s EXCEPT !.at = i]}
  BY DEF StreamOpens, StreamBreaks
<1>2. UNCHANGED <<clicks, selected, written, calls>>
  BY DEF StreamOpens, StreamBreaks, backend, choice
<1>3. s \in Sources /\ RequestsOK
  BY DEF ClickInv, RequestsOK
<1> DEFINE d == [s EXCEPT !.at = i]
<1>4. d \in Sources /\ d.call = s.call /\ d.order = s.order
  BY <1>3 DEF Sources
<1>5. RequestsOK'
  BY <1>1, <1>2, <1>3, <1>4 DEF RequestsOK
<1>6. LastClickLives'
  BY <1>1, <1>2, <1>4, StaysAlive DEF ClickInv
<1> QED
  BY <1>5, <1>6 DEF ClickInv

LEMMA ClickNext == ClickInv /\ [Next]_vars => ClickInv'
<1> SUFFICES ASSUME ClickInv, [Next]_vars PROVE ClickInv'
  OBVIOUS
<1>1. ASSUME UNCHANGED <<clicks, selected, calls, streams, written>> PROVE ClickInv'
  BY <1>1 DEF ClickInv, RequestsOK, LastClickLives
<1>2. ASSUME NEW o \in Orders, WriteRow(o) PROVE ClickInv'
  <2>1. /\ written' = [written EXCEPT ![o] = @ + 1] /\ written[o] < MaxRows
        /\ UNCHANGED <<clicks, selected, calls, streams>>
    BY <1>2 DEF WriteRow, page, choice
  <2>2. written' \in [Orders -> 0..MaxRows]
    BY <2>1, DashboardAssumption DEF ClickInv, RequestsOK
  <2> QED
    BY <2>1, <2>2 DEF ClickInv, RequestsOK, LastClickLives
<1>3. ASSUME \/ \E row \in Rows : PublishRow(row)
             \/ \E f \in transit : Arrive(f)
             \/ \E i \in Instances : DropSubscriber(i) \/ Resubscribe(i)
      PROVE  ClickInv'
  BY <1>1, <1>3 DEF PublishRow, Arrive, DropSubscriber, Resubscribe, page, choice
<1>4. ASSUME Poll \/ (\E o \in polls : PollAnswered(o) \/ PollFails(o)) \/ UNCHANGED vars
      PROVE  ClickInv'
  BY <1>1, <1>4 DEF Poll, PollAnswered, PollFails, vars, page, backend, choice
<1> QED
  BY <1>2, <1>3, <1>4, SelectStep, ReadStep, HydrateStep, StreamStep DEF Next

\* A late answer to an earlier click, a failed hydration or a broken stream never
\* ends what the last click has started.
THEOREM LastClickHonoured == FairSpec => []LastClickLives
<1>1. ClickInv => LastClickLives
  BY DEF ClickInv
<1> QED
  BY <1>1, ClickInit, ClickNext, PTL DEF FairSpec, Spec

-----------------------------------------------------------------------------
(* One order on the page.                                                    *)

\* Without overlap there is one hydration or one stream, of the selected order,
\* and all that it has brought is of that order.
ShownInv ==
    ~overlapped =>
      /\ \A c, d \in calls : c = d
      /\ \A c \in calls : c.order = selected /\ \A row \in c.rows : row.order = selected
      /\ calls # {} => streams = {}
      /\ \A s, t \in streams : s = t
      /\ \A s \in streams : s.call = source /\ s.order = selected
      /\ \A row \in BagToSet(timeline) : row.order = selected

LEMMA SingleOrNone == ASSUME NEW S, \A x, y \in S : x = y PROVE Cardinality(S) <= 1
<1>1. CASE S = {}
  BY <1>1, FS_EmptySet
<1>2. ASSUME NEW x \in S PROVE Cardinality(S) <= 1
  <2>1. S = {x}
    BY <1>2
  <2> QED
    BY <2>1, FS_Singleton
<1> QED
  BY <1>1, <1>2

LEMMA ShownIsOne == ShownInv => OneOrderShown
BY SingleOrNone DEF ShownInv, OneOrderShown

LEMMA ShownInit == Init => ShownInv
BY DEF Init, ShownInv, BagToSet, EmptyBag, SetToBag

\* What is in the sum of two bags is in one of them.
LEMMA SumOfBags ==
  ASSUME NEW A, NEW B, NEW row \in BagToSet(A (+) B)
  PROVE  row \in BagToSet(A) \/ row \in BagToSet(B)
BY DEF BagToSet, (+)

\* The click ends the only stream; during a hydration it is an overlap.
LEMMA SelectShows == ASSUME ShownInv, NEW o \in Orders, Select(o) PROVE ShownInv'
<1> DEFINE c == [call |-> clicks + 1, order |-> o, read |-> FALSE, rows |-> {}]
<1>1. /\ streams' = streams \ {s \in streams : s.call = source}
      /\ selected' = o /\ timeline' = EmptyBag /\ (overlapped' <=> overlapped \/ calls # {})
      /\ calls' = calls \cup {c}
  BY DEF Select, Closed
<1>2. BagToSet(EmptyBag) = {}
  BY DEF BagToSet, EmptyBag, SetToBag
<1>3. ASSUME ~overlapped' PROVE calls = {} /\ streams' = {}
  BY <1>1, <1>3 DEF ShownInv
<1>4. c.order = o /\ c.rows = {}
  OBVIOUS
<1> HIDE DEF c
<1>5. ASSUME ~overlapped' PROVE calls' = {c}
  BY <1>1, <1>3, <1>5
<1> QED
  BY <1>1, <1>2, <1>3, <1>4, <1>5 DEF ShownInv

LEMMA ReadShows == ASSUME ClickInv, ShownInv, NEW c \in calls, ReadHistory(c) PROVE ShownInv'
<1> DEFINE d == [c EXCEPT !.read = TRUE, !.rows = History(c.order)]
<1>1. /\ calls' = (calls \ {c}) \cup {d}
      /\ UNCHANGED <<selected, source, overlapped, streams, timeline>>
  BY DEF ReadHistory, choice, table
<1>2. c \in Calls
  BY DEF ClickInv, RequestsOK
<1>3. d.order = c.order /\ d.rows = History(c.order)
  BY <1>2 DEF Calls
<1>4. \A row \in History(c.order) : row.order = c.order
  BY DEF History
<1> HIDE DEF d
<1>5. ASSUME ~overlapped PROVE calls' = {d}
  BY <1>1, <1>5 DEF ShownInv
<1> QED
  BY <1>1, <1>3, <1>4, <1>5 DEF ShownInv

\* The stream that follows is the only one, and state.source knows it.
LEMMA HydrateShows == ASSUME ShownInv, NEW c \in calls, Hydrate(c) PROVE ShownInv'
<1> DEFINE s == [call |-> c.call, order |-> c.order, at |-> Nowhere]
<1>1. /\ calls' = calls \ {c} /\ streams' = streams \cup {s} /\ source' = c.call
      /\ UNCHANGED <<selected, overlapped>>
      /\ timeline' = timeline (+) SetToBag(c.rows) \/ timeline' = timeline
  BY DEF Hydrate, StreamOf
<1>2. s.call = c.call /\ s.order = c.order
  OBVIOUS
<1> HIDE DEF s
<1>3. ASSUME ~overlapped PROVE calls' = {} /\ streams' = {s} /\ s.order = selected
  BY <1>1, <1>2, <1>3 DEF ShownInv
<1>4. BagToSet(SetToBag(c.rows)) = c.rows
  BY DEF BagToSet, SetToBag
<1>5. ASSUME ~overlapped, NEW row \in BagToSet(timeline') PROVE row.order = selected
  BY <1>1, <1>4, <1>5, SumOfBags DEF ShownInv
<1> QED
  BY <1>1, <1>2, <1>3, <1>5 DEF ShownInv

\* What the arrival of a frame adds to the table.
Added(f) == IF Listeners(f) = {} THEN EmptyBag ELSE [row \in {f.row} |-> Cardinality(Listeners(f))]

LEMMA ArriveShows == ASSUME ShownInv, NEW f \in transit, Arrive(f) PROVE ShownInv'
<1>1. UNCHANGED <<selected, source, overlapped, calls, streams>> /\ timeline' = timeline (+) Added(f)
  BY DEF Arrive, choice, Added
<1>2. ASSUME ~overlapped, NEW r \in BagToSet(timeline') PROVE r.order = selected
  <2>1. BagToSet(Added(f)) = IF Listeners(f) = {} THEN {} ELSE BagToSet(Added(f))
    BY DEF Added, BagToSet, EmptyBag, SetToBag
  <2>2. r \in BagToSet(timeline) \/ (r = f.row /\ Listeners(f) # {})
    BY <1>1, <1>2, <2>1, SumOfBags DEF Added, BagToSet
  <2>3. Listeners(f) # {} => f.row.order = selected
    BY <1>2 DEF Listeners, ShownInv
  <2> QED
    BY <1>2, <2>2, <2>3 DEF ShownInv
<1> QED
  BY <1>1, <1>2 DEF ShownInv

LEMMA StreamShows ==
  ASSUME ClickInv, ShownInv, NEW s \in streams, StreamOpens(s) \/ StreamBreaks(s) PROVE ShownInv'
<1>1. PICK i \in Instances \cup {Nowhere} : streams' = (streams \ {s}) \cup {[s EXCEPT !.at = i]}
  BY DEF StreamOpens, StreamBreaks
<1>2. UNCHANGED <<selected, source, overlapped, calls, timeline>>
  BY DEF StreamOpens, StreamBreaks, choice, table
<1> DEFINE d == [s EXCEPT !.at = i]
<1>3. d.call = s.call /\ d.order = s.order
  BY DEF ClickInv, RequestsOK, Sources
<1>4. streams' = (streams \ {s}) \cup {d}
  BY <1>1
<1> HIDE DEF d
<1>5. ASSUME ~overlapped PROVE streams' = {d} /\ calls = {}
  BY <1>4, <1>5 DEF ShownInv
<1> QED
  BY <1>2, <1>3, <1>5 DEF ShownInv

LEMMA ShownNext == ClickInv /\ ShownInv /\ [Next]_vars => ShownInv'
<1> SUFFICES ASSUME ClickInv, ShownInv, [Next]_vars PROVE ShownInv'
  OBVIOUS
<1>1. ASSUME UNCHANGED <<selected, source, overlapped, calls, streams, timeline>> PROVE ShownInv'
  BY <1>1 DEF ShownInv
<1>2. ASSUME (\E o \in Orders : WriteRow(o)) \/ Poll
             \/ (\E o \in polls : PollAnswered(o) \/ PollFails(o)) \/ UNCHANGED vars
      PROVE  ShownInv'
  BY <1>1, <1>2 DEF WriteRow, Poll, PollAnswered, PollFails, vars, page, choice, table
<1>3. ASSUME \/ \E row \in Rows : PublishRow(row)
             \/ \E i \in Instances : DropSubscriber(i) \/ Resubscribe(i)
      PROVE  ShownInv'
  BY <1>1, <1>3 DEF PublishRow, DropSubscriber, Resubscribe, page, choice, table
<1> QED
  BY <1>2, <1>3, SelectShows, ReadShows, HydrateShows, ArriveShows, StreamShows DEF Next

\* As long as no selection overlaps a hydration, one order is on the page: no
\* second stream and no row of another order, however often the user clicks.
THEOREM OneOrderOnly == FairSpec => []OneOrderShown
BY ClickInit, ClickNext, ShownInit, ShownNext, ShownIsOne, PTL DEF FairSpec, Spec

-----------------------------------------------------------------------------
(* The frames.                                                               *)

\* A frame is sent again only after an error, and what is on its way has been
\* broadcast and can be counted.
BackInv ==
    /\ errors \in 0..MaxErrors
    /\ published \in [Rows -> Nat] /\ \A row \in Rows : published[row] <= errors + 1
    /\ subscribed \subseteq Instances /\ transit \subseteq Frames /\ IsFiniteSet(transit)
    /\ \A f \in transit : f.copy <= published[f.row]

\* The copies of a row's frame that Redis hands to the subscribers.
Copies(row) == {[row |-> row, copy |-> published'[row], to |-> i] : i \in subscribed}

LEMMA CopiesAreFew ==
  ASSUME NEW row, subscribed \subseteq Instances
  PROVE  /\ IsFiniteSet(Copies(row))
         /\ Cardinality(Copies(row)) <= Cardinality(Instances)
         /\ Cardinality(Copies(row)) \in Nat /\ Cardinality(Instances) \in Nat
<1>1. IsFiniteSet(subscribed) /\ Cardinality(subscribed) <= Cardinality(Instances)
  BY DashboardAssumption, FS_Subset
<1> DEFINE copyTo == [i \in subscribed |-> [row |-> row, copy |-> published'[row], to |-> i]]
<1>2. copyTo \in Surjection(subscribed, Copies(row))
  BY DEF Copies, Surjection
<1>3. IsFiniteSet(Copies(row)) /\ Cardinality(Copies(row)) <= Cardinality(subscribed)
  BY <1>1, <1>2, FS_Surjection
<1> QED
  BY <1>1, <1>3, FS_CardinalityType, DashboardAssumption

LEMMA BackInit == Init => BackInv
BY DashboardAssumption, FS_EmptySet DEF Init, BackInv

LEMMA PublishBack == ASSUME BackInv, NEW row \in Rows, PublishRow(row) PROVE BackInv'
<1>1. /\ published' = [published EXCEPT ![row] = @ + 1] /\ transit' = transit \cup Copies(row)
      /\ subscribed' = subscribed
      /\ \/ published[row] > 0 /\ errors < MaxErrors /\ errors' = errors + 1
         \/ published[row] <= 0 /\ errors' = errors
  BY DEF PublishRow, Error, Copies, BackInv
<1>2. errors' \in 0..MaxErrors /\ errors' >= errors
  BY <1>1, DashboardAssumption DEF BackInv
<1>3. published[row] \in Nat /\ published'[row] = published[row] + 1 /\ published[row] <= errors + 1
      /\ published' \in [Rows -> Nat]
  BY <1>1 DEF BackInv
<1>4. \A q \in Rows : published'[q] <= errors' + 1
  BY <1>1, <1>2, <1>3 DEF BackInv
<1>5. published'[row] \in 1..(MaxErrors + 1)
  BY <1>2, <1>3, <1>4, DashboardAssumption
<1>6. Copies(row) \subseteq Frames
  BY <1>5 DEF Copies, Frames, BackInv
<1>7. IsFiniteSet(transit')
  BY <1>1, CopiesAreFew, FS_Union DEF BackInv
<1>8. ASSUME NEW f \in transit' PROVE f.copy <= published'[f.row]
  <2>1. CASE f \in Copies(row)
    BY <1>3, <2>1 DEF Copies
  <2>2. CASE f \in transit
    <3>1. f.row \in Rows /\ f.copy \in 1..(MaxErrors + 1) /\ f.copy <= published[f.row]
      BY <2>2 DEF BackInv, Frames
    <3>2. published[f.row] \in Nat /\ published'[f.row] \in {published[f.row], published[f.row] + 1}
      BY <1>1, <3>1 DEF BackInv
    <3> QED
      BY <3>1, <3>2, DashboardAssumption
  <2> QED
    BY <1>1, <2>1, <2>2
<1> QED
  BY <1>1, <1>2, <1>3, <1>4, <1>6, <1>7, <1>8 DEF BackInv

\* The other steps send nothing.
LEMMA BackQuiet ==
  ASSUME BackInv, errors' = errors \/ Error, published' = published,
         subscribed' \subseteq Instances, transit' \subseteq transit
  PROVE  BackInv'
<1>1. errors' \in 0..MaxErrors /\ errors' >= errors
  BY DashboardAssumption DEF BackInv, Error
<1>2. IsFiniteSet(transit')
  BY FS_Subset DEF BackInv
<1> QED
  BY <1>1, <1>2 DEF BackInv

LEMMA BackNext == BackInv /\ [Next]_vars => BackInv'
<1> SUFFICES ASSUME BackInv, [Next]_vars PROVE BackInv'
  OBVIOUS
<1>1. subscribed \subseteq Instances
  BY DEF BackInv
<1>2. ASSUME UNCHANGED backend, errors' = errors \/ Error PROVE BackInv'
  BY <1>1, <1>2, BackQuiet DEF backend
<1>3. ASSUME NEW o \in Orders, WriteRow(o) \/ Select(o) PROVE BackInv'
  BY <1>1, <1>2, <1>3, BackQuiet DEF WriteRow, Select
<1>4. ASSUME NEW f \in transit, Arrive(f) PROVE BackInv'
  BY <1>1, <1>4, BackQuiet DEF Arrive
<1>5. ASSUME NEW i \in Instances, DropSubscriber(i) \/ Resubscribe(i) PROVE BackInv'
  BY <1>1, <1>5, BackQuiet DEF DropSubscriber, Resubscribe
<1>6. ASSUME NEW c \in calls, ReadHistory(c) \/ Hydrate(c) PROVE BackInv'
  BY <1>2, <1>6 DEF ReadHistory, Hydrate
<1>7. ASSUME NEW s \in streams, StreamOpens(s) \/ StreamBreaks(s) PROVE BackInv'
  BY <1>2, <1>7 DEF StreamOpens, StreamBreaks
<1>8. ASSUME Poll \/ (\E o \in polls : PollAnswered(o) \/ PollFails(o)) \/ UNCHANGED vars
      PROVE  BackInv'
  BY <1>2, <1>8 DEF Poll, PollAnswered, PollFails, vars
<1> QED
  BY <1>3, <1>4, <1>5, <1>6, <1>7, <1>8, PublishBack DEF Next

-----------------------------------------------------------------------------
(* What the page misses.                                                     *)

\* What is published is written, so a read after it has it.
GapInv ==
    /\ \A row \in Rows : published[row] > 0 => row.id <= written[row.order]
    /\ MissesOnlyTheGap

LEMMA GapInit == Init => GapInv
BY DEF Init, GapInv, MissesOnlyTheGap

LEMMA SumHasBoth ==
  ASSUME NEW A, NEW B
  PROVE  BagToSet(A (+) B) = BagToSet(A) \cup BagToSet(B)
BY DEF BagToSet, (+)

\* A step that publishes nothing, after which the page has, is about to get or
\* is known to miss what it did before.
LEMMA GapQuiet ==
  ASSUME GapInv, ClickInv, UNCHANGED <<published, selected>>,
         \A o \in Orders : written'[o] \in Nat /\ written[o] <= written'[o],
         overlapped => overlapped',
         ~overlapped => ((\A c \in calls' : c.read) => (\A c \in calls : c.read)),
         ~overlapped => InHand \cup OnTheWay \cup missed \subseteq (InHand \cup OnTheWay \cup missed)'
  PROVE  GapInv'
<1>1. ASSUME NEW row \in Rows, published[row] > 0 PROVE row.id <= written'[row.order]
  <2>1. row.order \in Orders /\ row.id \in 1..MaxRows /\ row.id <= written[row.order]
    BY <1>1 DEF GapInv, Rows
  <2>2. written[row.order] \in 0..MaxRows
    BY <2>1 DEF ClickInv, RequestsOK
  <2> QED
    BY <2>1, <2>2, DashboardAssumption
<1>2. MissesOnlyTheGap'
  BY DEF GapInv, MissesOnlyTheGap
<1> QED
  BY <1>1, <1>2 DEF GapInv

\* The history has every row that was published before it was read.
LEMMA ReadFills ==
  ASSUME ClickInv, ShownInv, GapInv, NEW c \in calls, ReadHistory(c)
  PROVE  GapInv'
<1> DEFINE d == [c EXCEPT !.read = TRUE, !.rows = History(c.order)]
<1>1. /\ calls' = (calls \ {c}) \cup {d}
      /\ UNCHANGED <<written, published, selected, overlapped>>
  BY DEF ReadHistory, choice, backend
<1>2. c \in Calls
  BY DEF ClickInv, RequestsOK
<1>3. d.rows = History(c.order)
  BY <1>2 DEF Calls
<1> HIDE DEF d
<1>4. ASSUME ~overlapped, NEW row \in Rows, published[row] > 0, row.order = selected
      PROVE  row \in InHand'
  <2>1. c.order = selected /\ d \in calls'
    BY <1>1, <1>4 DEF ShownInv
  <2>2. row \in [order: Orders, id: 1..MaxRows] /\ row.id <= written[row.order]
    BY <1>4 DEF GapInv, Rows
  <2>3. written[row.order] \in 0..MaxRows
    BY <2>2 DEF ClickInv, RequestsOK
  <2>4. row.id \in 1..written[row.order]
    BY <2>2, <2>3, DashboardAssumption
  <2>5. row \in History(c.order)
    BY <1>4, <2>1, <2>2, <2>4 DEF History
  <2> QED
    BY <1>3, <2>1, <2>5 DEF InHand
<1> QED
  BY <1>1, <1>4 DEF GapInv, MissesOnlyTheGap

\* What an answer holds goes to the table; a failure leaves all rows missed.
LEMMA HydrateFills ==
  ASSUME ClickInv, ShownInv, GapInv, NEW c \in calls, Hydrate(c)
  PROVE  GapInv'
<1>1. /\ calls' = calls \ {c} /\ streams \subseteq streams'
      /\ UNCHANGED <<written, published, transit, selected, overlapped>>
  BY DEF Hydrate, backend
<1>2. CASE c.read /\ timeline' = timeline (+) SetToBag(c.rows) /\ missed' = missed
  <2>1. BagToSet(timeline') = BagToSet(timeline) \cup c.rows
    <3>1. BagToSet(SetToBag(c.rows)) = c.rows
      BY DEF BagToSet, SetToBag
    <3> QED
      BY <1>2, <3>1, SumHasBoth
  <2>2. InHand \subseteq InHand'
    BY <1>1, <2>1 DEF InHand
  <2>3. OnTheWay \subseteq OnTheWay'
    BY <1>1 DEF OnTheWay, Listeners
  <2>4. \A o \in Orders : written'[o] \in Nat /\ written[o] <= written'[o]
    BY <1>1, DashboardAssumption DEF ClickInv, RequestsOK
  <2> QED
    BY <1>1, <1>2, <2>2, <2>3, <2>4, GapQuiet
<1>3. CASE missed' = {row \in Rows : published[row] > 0}
  BY <1>1, <1>3 DEF GapInv, MissesOnlyTheGap
<1> QED
  BY <1>2, <1>3 DEF Hydrate

\* A stream that is tuned in gets a copy.
LEMMA PublishFills ==
  ASSUME BackInv, GapInv, NEW row \in Rows, PublishRow(row)
  PROVE  GapInv'
<1>1. /\ UNCHANGED <<written, selected, overlapped, calls, streams, timeline>>
      /\ row.id <= written[row.order] /\ published' = [published EXCEPT ![row] = @ + 1]
      /\ transit' = transit \cup Copies(row)
      /\ missed' = IF Tuned(row) = {} /\ (\A c \in calls : c.read) THEN missed \cup {row} ELSE missed
  BY DEF PublishRow, choice, Copies
<1>2. InHand' = InHand
  BY <1>1 DEF InHand
<1>3. OnTheWay \subseteq OnTheWay'
  BY <1>1 DEF OnTheWay, Listeners
<1>4. ASSUME Tuned(row) # {} PROVE row \in OnTheWay'
  <2>1. PICK s \in streams : s.at \in subscribed /\ s.order = row.order
    BY <1>4 DEF Tuned
  <2>2. [row |-> row, copy |-> published'[row], to |-> s.at] \in transit'
    BY <1>1, <2>1 DEF Copies
  <2>3. PICK f \in transit' : f.row = row /\ f.to = s.at
    BY <2>2
  <2>4. s \in Listeners(f)'
    BY <1>1, <2>1, <2>3 DEF Listeners
  <2> QED
    BY <2>3, <2>4 DEF OnTheWay
<1>5. \A q \in Rows \ {row} : published'[q] = published[q]
  BY <1>1 DEF BackInv
<1>6. MissesOnlyTheGap'
  BY <1>1, <1>2, <1>3, <1>4, <1>5 DEF GapInv, MissesOnlyTheGap
<1> QED
  BY <1>1, <1>5, <1>6 DEF GapInv

\* A frame that a stream takes is shown.
LEMMA ArriveFills == ASSUME ClickInv, BackInv, GapInv, NEW f \in transit, Arrive(f) PROVE GapInv'
<1>1. /\ UNCHANGED <<written, published, selected, overlapped, calls, streams, missed>>
      /\ transit' = transit \ {f} /\ timeline' = timeline (+) Added(f)
  BY DEF Arrive, choice, Added
<1>2. BagToSet(timeline') = BagToSet(timeline) \cup BagToSet(Added(f))
  BY <1>1, SumHasBoth
<1>3. Listeners(f) # {} => f.row \in BagToSet(Added(f))
  BY DEF Added, BagToSet
<1>4. InHand \subseteq InHand' /\ (Listeners(f) # {} => f.row \in InHand')
  BY <1>1, <1>2, <1>3 DEF InHand
<1>5. OnTheWay \subseteq OnTheWay' \cup InHand'
  BY <1>1, <1>4 DEF OnTheWay, Listeners
<1>6. \A o \in Orders : written'[o] \in Nat /\ written[o] <= written'[o]
  BY <1>1, DashboardAssumption DEF ClickInv, RequestsOK
<1> QED
  BY <1>1, <1>4, <1>5, <1>6, GapQuiet

\* A connection that breaks makes the page miss what was on it, and nothing else.
LEMMA BreakFills ==
  ASSUME ClickInv, GapInv, (\E i \in Instances : DropSubscriber(i)) \/ (\E s \in streams : StreamBreaks(s))
  PROVE  GapInv'
<1>1. UNCHANGED <<written, published, selected, overlapped, calls, timeline>>
  BY DEF DropSubscriber, StreamBreaks, choice, backend
<1>2. InHand' = InHand
  BY <1>1 DEF InHand
<1>3. OnTheWay \cup missed \subseteq (OnTheWay \cup missed)'
  <2>1. ASSUME NEW i \in Instances, DropSubscriber(i)
        PROVE  OnTheWay \cup missed \subseteq (OnTheWay \cup missed)'
    <3>1. /\ transit' = {f \in transit : f.to # i} /\ streams' = streams
          /\ missed' = missed \cup {f.row : f \in {g \in transit : g.to = i /\ Listeners(g) # {}}}
      BY <2>1 DEF DropSubscriber
    <3> QED
      BY <3>1 DEF OnTheWay, Listeners
  <2>2. ASSUME NEW s \in streams, StreamBreaks(s)
        PROVE  OnTheWay \cup missed \subseteq (OnTheWay \cup missed)'
    <3>1. /\ streams \ {s} \subseteq streams' /\ transit' = transit
          /\ missed' = missed \cup {f.row : f \in {g \in transit : s \in Listeners(g)}}
      BY <2>2 DEF StreamBreaks, backend
    <3>2. ASSUME NEW f \in transit, Listeners(f) # {}, s \notin Listeners(f)
          PROVE  Listeners(f)' # {}
      BY <3>1, <3>2 DEF Listeners
    <3> QED
      BY <3>1, <3>2 DEF OnTheWay
  <2> QED
    BY <2>1, <2>2
<1>4. \A o \in Orders : written'[o] \in Nat /\ written[o] <= written'[o]
  BY <1>1, DashboardAssumption DEF ClickInv, RequestsOK
<1> QED
  BY <1>1, <1>2, <1>3, <1>4, GapQuiet

\* A frame finds the streams it found before, and perhaps one more.
LEMMA OpenFills ==
  ASSUME ClickInv, BackInv, GapInv, NEW s \in streams, StreamOpens(s) PROVE GapInv'
<1>1. /\ UNCHANGED <<written, published, transit, selected, overlapped, calls, timeline, missed>>
      /\ s.at = Nowhere /\ streams \ {s} \subseteq streams'
  BY DEF StreamOpens, choice, backend, table
<1>2. \A f \in transit : f.to \in Instances
  BY DEF BackInv, Frames
<1>3. \A f \in transit : Listeners(f) \subseteq Listeners(f)'
  BY <1>1, <1>2, DashboardAssumption DEF Listeners
<1>4. InHand' = InHand /\ OnTheWay \subseteq OnTheWay'
  BY <1>1, <1>3 DEF InHand, OnTheWay
<1>5. \A o \in Orders : written'[o] \in Nat /\ written[o] <= written'[o]
  BY <1>1, DashboardAssumption DEF ClickInv, RequestsOK
<1> QED
  BY <1>1, <1>4, <1>5, GapQuiet

LEMMA GapNext == ClickInv /\ BackInv /\ ShownInv /\ GapInv /\ [Next]_vars => GapInv'
<1> SUFFICES ASSUME ClickInv, BackInv, ShownInv, GapInv, [Next]_vars PROVE GapInv'
  OBVIOUS
<1>1. \A o \in Orders : written[o] \in Nat
  BY DashboardAssumption DEF ClickInv, RequestsOK
<1>2. ASSUME NEW o \in Orders, Select(o) PROVE GapInv'
  <2>1. /\ [call |-> clicks + 1, order |-> o, read |-> FALSE, rows |-> {}] \in calls'
        /\ UNCHANGED <<published, written>>
    BY <1>2 DEF Select, backend
  <2>2. ~(\A c \in calls' : c.read)
    BY <2>1
  <2> QED
    BY <2>1, <2>2 DEF GapInv, MissesOnlyTheGap
<1>3. ASSUME NEW o \in Orders, WriteRow(o) PROVE GapInv'
  <2>1. /\ written' = [written EXCEPT ![o] = @ + 1]
        /\ UNCHANGED <<published, transit, selected, overlapped, calls, streams, timeline, missed>>
    BY <1>3 DEF WriteRow, page, choice, table
  <2>2. \A q \in Orders : written'[q] \in Nat /\ written[q] <= written'[q]
    BY <1>1, <2>1 DEF ClickInv, RequestsOK
  <2>3. InHand' = InHand /\ OnTheWay' = OnTheWay
    BY <2>1 DEF InHand, OnTheWay, Listeners
  <2> QED
    BY <2>1, <2>2, <2>3, GapQuiet
<1>4. ASSUME UNCHANGED <<written, published, transit, selected, overlapped, calls, streams, timeline, missed>>
      PROVE  GapInv'
  <2>1. InHand' = InHand /\ OnTheWay' = OnTheWay
    BY <1>4 DEF InHand, OnTheWay, Listeners
  <2> QED
    BY <1>1, <1>4, <2>1, GapQuiet
<1>5. ASSUME (\E i \in Instances : Resubscribe(i)) \/ Poll
             \/ (\E o \in polls : PollAnswered(o) \/ PollFails(o)) \/ UNCHANGED vars
      PROVE  GapInv'
  BY <1>4, <1>5 DEF Resubscribe, Poll, PollAnswered, PollFails, vars, page, choice, table, backend
<1> QED
  BY <1>2, <1>3, <1>5, ReadFills, HydrateFills, PublishFills, ArriveFills, BreakFills, OpenFills DEF Next

\* A page whose history was read lacks a published row only if it was deaf to it
\* when it was broadcast or under way, for any number of instances: the read and
\* the stream leave no other gap.
THEOREM OnlyTheGap == FairSpec => []MissesOnlyTheGap
<1>1. GapInv => MissesOnlyTheGap
  BY DEF GapInv
<1> QED
  BY <1>1, ClickInit, ClickNext, BackInit, BackNext, ShownInit, ShownNext, GapInit, GapNext, PTL
     DEF FairSpec, Spec

-----------------------------------------------------------------------------
(* The types, and the table as a bag.                                        *)

TableTypes ==
    /\ IsABag(timeline) /\ BagToSet(timeline) \subseteq Rows
    /\ missed \subseteq Rows /\ overlapped \in BOOLEAN
    /\ selected \in Orders \cup {NoOrder} /\ source \in 0..clicks

\* A call under way is one that was made, and streams can be counted.
PageInv ==
    /\ TableTypes
    /\ \A c \in calls : c.call <= clicks
    /\ IsFiniteSet(streams)
    /\ polls \subseteq Orders \cup {NoOrder} /\ highlight \in Orders \cup {NoOrder}

LEMMA PageTypes == ClickInv /\ BackInv /\ PageInv => TypeOK
<1> SUFFICES ASSUME ClickInv, BackInv, PageInv PROVE TypeOK
  OBVIOUS
<1>1. ASSUME NEW row \in Rows PROVE published[row] \in 0..(MaxErrors + 1)
  BY DashboardAssumption DEF BackInv
<1>2. published \in [Rows -> 0..(MaxErrors + 1)]
  BY <1>1 DEF BackInv
<1> QED
  BY <1>2 DEF ClickInv, RequestsOK, BackInv, PageInv, TableTypes, TypeOK

\* The sum of two bags has what either has, as often as both together.
LEMMA SumIsABag ==
  ASSUME NEW A, NEW B, IsABag(A), IsABag(B)
  PROVE  IsABag(A (+) B)
BY DEF IsABag, (+)

LEMMA SetIsABag == ASSUME NEW S PROVE IsABag(SetToBag(S)) /\ BagToSet(SetToBag(S)) = S
BY DEF IsABag, SetToBag, BagToSet

LEMMA NothingIsABag == IsABag(EmptyBag) /\ BagToSet(EmptyBag) = {}
BY SetIsABag DEF EmptyBag

LEMMA AddedIsABag ==
  ASSUME NEW f, IsFiniteSet(streams)
  PROVE  IsABag(Added(f)) /\ BagToSet(Added(f)) \subseteq {f.row}
<1>1. IsFiniteSet(Listeners(f))
  BY FS_Subset DEF Listeners
<1>2. Listeners(f) # {} => Cardinality(Listeners(f)) \in {n \in Nat : n > 0}
  BY <1>1, FS_EmptySet, FS_CardinalityType
<1>3. CASE Listeners(f) = {}
  BY <1>3, NothingIsABag DEF Added
<1>4. CASE Listeners(f) # {}
  BY <1>2, <1>4 DEF Added, IsABag, BagToSet
<1> QED
  BY <1>3, <1>4

LEMMA PageInit == Init => PageInv
<1> SUFFICES ASSUME Init PROVE PageInv
  OBVIOUS
<1>1. TableTypes
  <2>1. IsABag(timeline) /\ BagToSet(timeline) = {}
    BY NothingIsABag DEF Init
  <2>2. overlapped \in BOOLEAN /\ missed = {} /\ selected = NoOrder
    BY DEF Init
  <2>3. source \in 0..clicks
    BY DEF Init
  <2> QED
    BY <2>1, <2>2, <2>3 DEF TableTypes
<1>2. IsFiniteSet(streams)
  BY FS_EmptySet DEF Init
<1> QED
  BY <1>1, <1>2 DEF Init, PageInv

LEMMA SelectPage == ASSUME ClickInv, PageInv, NEW o \in Orders, Select(o) PROVE PageInv'
<1> DEFINE c == [call |-> clicks + 1, order |-> o, read |-> FALSE, rows |-> {}]
<1>1. /\ clicks' = clicks + 1 /\ selected' = o /\ streams' \subseteq streams
      /\ timeline' = EmptyBag /\ missed' = {} /\ overlapped' = (overlapped \/ calls # {})
      /\ calls' = calls \cup {c} /\ polls' = polls \cup {o}
      /\ UNCHANGED <<source, highlight>>
  BY DEF Select, backend
<1>2. clicks \in Nat /\ \A d \in calls : d.call \in Nat
  BY DashboardAssumption DEF ClickInv, RequestsOK, Calls
<1>3. c.call <= clicks'
  BY <1>1, <1>2
<1> HIDE DEF c
<1>4. TableTypes'
  BY <1>1, <1>2, NothingIsABag DEF PageInv, TableTypes
<1>5. \A d \in calls' : d.call <= clicks'
  BY <1>1, <1>2, <1>3 DEF PageInv
<1>6. IsFiniteSet(streams')
  BY <1>1, FS_Subset DEF PageInv
<1> QED
  BY <1>1, <1>4, <1>5, <1>6 DEF PageInv

LEMMA ReadPage == ASSUME ClickInv, PageInv, NEW c \in calls, ReadHistory(c) PROVE PageInv'
<1>1. /\ calls' = (calls \ {c}) \cup {[c EXCEPT !.read = TRUE, !.rows = History(c.order)]}
      /\ UNCHANGED <<choice, streams, table, sidebar>>
  BY DEF ReadHistory
<1>2. [c EXCEPT !.read = TRUE, !.rows = History(c.order)].call = c.call
  BY DEF ClickInv, RequestsOK, Calls
<1>3. \A d \in calls' : d.call <= clicks'
  BY <1>1, <1>2 DEF PageInv, choice
<1>4. TableTypes'
  BY <1>1 DEF PageInv, TableTypes, choice, table
<1> QED
  BY <1>1, <1>3, <1>4 DEF PageInv, sidebar

LEMMA HydratePage == ASSUME ClickInv, PageInv, NEW c \in calls, Hydrate(c) PROVE PageInv'
<1>1. /\ calls' = calls \ {c} /\ source' = c.call
      /\ streams' = streams \cup {[call |-> c.call, order |-> c.order, at |-> Nowhere]}
      /\ UNCHANGED <<selected, clicks, overlapped, polls, highlight>>
  BY DEF Hydrate, StreamOf, sidebar
<1>2. c \in Calls /\ c.call \in 1..clicks
  BY DashboardAssumption DEF ClickInv, RequestsOK, PageInv, Calls
<1>3. source' \in 0..clicks'
  BY <1>1, <1>2 DEF ClickInv, RequestsOK
<1>4. \/ timeline' = timeline (+) SetToBag(c.rows) /\ UNCHANGED missed
      \/ missed' \subseteq Rows /\ UNCHANGED timeline
  BY DEF Hydrate
<1>5. IsABag(timeline') /\ BagToSet(timeline') \subseteq Rows
  <2>1. c.rows \subseteq Rows
    BY <1>2 DEF Calls
  <2> QED
    BY <1>4, <2>1, SumIsABag, SumHasBoth, SetIsABag DEF PageInv, TableTypes
<1>6. missed' \subseteq Rows
  BY <1>4 DEF PageInv, TableTypes
<1>7. TableTypes'
  BY <1>1, <1>3, <1>5, <1>6 DEF PageInv, TableTypes
<1>8. IsFiniteSet(streams')
  BY <1>1, FS_AddElement DEF PageInv
<1> QED
  BY <1>1, <1>7, <1>8 DEF PageInv

LEMMA ArrivePage == ASSUME BackInv, PageInv, NEW f \in transit, Arrive(f) PROVE PageInv'
<1>1. timeline' = timeline (+) Added(f) /\ UNCHANGED <<choice, calls, streams, missed, sidebar>>
  BY DEF Arrive, Added
<1>2. f.row \in Rows
  BY DEF BackInv, Frames
<1>3. IsABag(timeline') /\ BagToSet(timeline') \subseteq Rows
  BY <1>1, <1>2, AddedIsABag, SumIsABag, SumHasBoth DEF PageInv, TableTypes
<1>4. TableTypes'
  BY <1>1, <1>3 DEF PageInv, TableTypes, choice
<1> QED
  BY <1>1, <1>4 DEF PageInv, choice, sidebar

\* What frames are lost, or found nobody, shows in nothing else of the page.
LEMMA DeafPage ==
  ASSUME PageInv, UNCHANGED <<choice, calls, timeline, sidebar>>, IsFiniteSet(streams'),
         missed' \subseteq Rows
  PROVE  PageInv'
<1>1. TableTypes'
  BY DEF PageInv, TableTypes, choice
<1> QED
  BY <1>1 DEF PageInv, choice, sidebar

LEMMA FramesPage ==
  ASSUME BackInv, PageInv, \/ \E row \in Rows : PublishRow(row)
                           \/ \E i \in Instances : DropSubscriber(i) \/ Resubscribe(i)
  PROVE  PageInv'
<1>1. UNCHANGED <<choice, calls, streams, timeline, sidebar>> /\ IsFiniteSet(streams')
  BY DEF PublishRow, DropSubscriber, Resubscribe, page, table, PageInv
<1>2. missed \subseteq Rows /\ \A f \in transit : f.row \in Rows
  BY DEF PageInv, TableTypes, BackInv, Frames
<1>3. ASSUME NEW row \in Rows, PublishRow(row) PROVE missed' \subseteq Rows
  BY <1>2, <1>3 DEF PublishRow
<1>4. ASSUME NEW i \in Instances, DropSubscriber(i) PROVE missed' \subseteq Rows
  BY <1>2, <1>4 DEF DropSubscriber
<1>5. ASSUME NEW i \in Instances, Resubscribe(i) PROVE missed' \subseteq Rows
  BY <1>2, <1>5 DEF Resubscribe, page, table
<1> QED
  BY <1>1, <1>3, <1>4, <1>5, DeafPage

LEMMA StreamPage ==
  ASSUME BackInv, PageInv, NEW s \in streams, StreamOpens(s) \/ StreamBreaks(s) PROVE PageInv'
<1>1. PICK i \in Instances \cup {Nowhere} : streams' = (streams \ {s}) \cup {[s EXCEPT !.at = i]}
  BY DEF StreamOpens, StreamBreaks
<1>2. UNCHANGED <<choice, calls, timeline, sidebar>>
  BY DEF StreamOpens, StreamBreaks, table
<1>3. IsFiniteSet(streams \ {s})
  BY FS_Subset DEF PageInv
<1>4. IsFiniteSet(streams')
  BY <1>1, <1>3, FS_AddElement
<1>5. missed \subseteq Rows /\ \A f \in transit : f.row \in Rows
  BY DEF PageInv, TableTypes, BackInv, Frames
<1>6. missed' \subseteq Rows
  BY <1>5 DEF StreamOpens, StreamBreaks, table
<1> QED
  BY <1>2, <1>4, <1>6, DeafPage

LEMMA PageNext == ClickInv /\ BackInv /\ PageInv /\ [Next]_vars => PageInv'
<1> SUFFICES ASSUME ClickInv, BackInv, PageInv, [Next]_vars PROVE PageInv'
  OBVIOUS
<1>1. ASSUME UNCHANGED page, polls' \subseteq Orders \cup {NoOrder}, highlight' \in Orders \cup {NoOrder}
      PROVE  PageInv'
  <2>1. TableTypes'
    BY <1>1 DEF PageInv, TableTypes, page, choice, table
  <2> QED
    BY <1>1, <2>1 DEF PageInv, page, choice
<1>2. ASSUME NEW o \in Orders, WriteRow(o) PROVE PageInv'
  BY <1>1, <1>2 DEF WriteRow, PageInv, sidebar
<1>3. ASSUME NEW o \in polls, PollAnswered(o) \/ PollFails(o) PROVE PageInv'
  <2>1. o \in Orders \cup {NoOrder}
    BY DEF PageInv
  <2>2. UNCHANGED page /\ polls' = polls \ {o}
    BY <1>3 DEF PollAnswered, PollFails
  <2>3. highlight' \in {o, highlight}
    BY <1>3 DEF PollAnswered, PollFails, Rendered
  <2> QED
    BY <1>1, <2>1, <2>2, <2>3 DEF PageInv
<1>4. CASE Poll
  BY <1>1, <1>4 DEF Poll, PageInv, TableTypes
<1>5. CASE UNCHANGED vars
  BY <1>1, <1>5 DEF vars, PageInv, sidebar
<1> QED
  BY <1>2, <1>3, <1>4, <1>5, SelectPage, ReadPage, HydratePage, ArrivePage, FramesPage, StreamPage DEF Next

\* The table holds rows of the history and nothing else, requests and streams are
\* of calls that were made, for any number of orders, clicks, rows and errors.
THEOREM TypeCorrect == FairSpec => []TypeOK
BY ClickInit, ClickNext, BackInit, BackNext, PageInit, PageNext, PageTypes, PTL DEF FairSpec, Spec

-----------------------------------------------------------------------------
(* How often a row is shown.                                                 *)

Shown(row) == IF row \in BagToSet(timeline) THEN timeline[row] ELSE 0

\* The copies of a row's frame that are under way, and how many were handed out.
UnderWay(row) == {f \in transit : f.row = row}
HandedOut(row) == published[row] * Cardinality(Instances)

\* What has been shown and what may still be is covered by the frames handed out,
\* and the row of the history.  Without overlap the table is empty during a
\* hydration, so no other history adds to it.
CountInv ==
    /\ \A row \in Rows : Cardinality(UnderWay(row)) <= HandedOut(row)
    /\ ~overlapped =>
         /\ calls # {} => BagToSet(timeline) = {}
         /\ \A row \in Rows : Shown(row) + Cardinality(UnderWay(row)) <= 1 + HandedOut(row)

LEMMA CountTypes ==
  ASSUME BackInv, TypeOK, NEW row \in Rows
  PROVE  /\ IsFiniteSet(UnderWay(row)) /\ Cardinality(UnderWay(row)) \in Nat
         /\ HandedOut(row) \in Nat /\ Shown(row) \in Nat
<1>1. IsFiniteSet(UnderWay(row))
  BY FS_Subset DEF UnderWay, BackInv
<1>2. Cardinality(Instances) \in Nat /\ published[row] \in Nat
  BY DashboardAssumption, FS_CardinalityType DEF BackInv
<1>3. HandedOut(row) \in Nat
  BY <1>2 DEF HandedOut
<1>4. Shown(row) \in Nat
  BY DEF Shown, TypeOK, IsABag, BagToSet
<1> QED
  BY <1>1, <1>3, <1>4, FS_CardinalityType

LEMMA CountInit == Init => CountInv
<1> SUFFICES ASSUME Init PROVE CountInv
  OBVIOUS
<1>1. BagToSet(timeline) = {}
  BY NothingIsABag DEF Init
<1>2. ASSUME NEW row \in Rows
      PROVE  HandedOut(row) = 0 /\ Shown(row) = 0 /\ Cardinality(UnderWay(row)) = 0
  <2>1. UnderWay(row) = {}
    BY DEF Init, UnderWay
  <2>2. Cardinality(Instances) \in Nat /\ published[row] = 0
    BY DashboardAssumption, FS_CardinalityType DEF Init
  <2> QED
    BY <1>1, <2>1, <2>2, FS_EmptySet DEF HandedOut, Shown
<1> QED
  BY <1>1, <1>2 DEF CountInv

\* A step of the page that hands out no frame and takes none.
LEMMA CountQuiet ==
  ASSUME BackInv, TypeOK, CountInv, UNCHANGED published, transit' \subseteq transit,
         overlapped => overlapped',
         ~overlapped' => /\ calls' # {} => BagToSet(timeline') = {}
                         /\ \A row \in Rows : \/ Shown(row)' \in {0, 1}
                                              \/ Shown(row)' = Shown(row)
  PROVE  CountInv'
<1>1. ASSUME NEW row \in Rows
      PROVE  /\ Cardinality(UnderWay(row)') \in Nat
             /\ Cardinality(UnderWay(row)') <= Cardinality(UnderWay(row))
             /\ HandedOut(row)' = HandedOut(row)
  <2>1. UnderWay(row)' \subseteq UnderWay(row)
    BY DEF UnderWay
  <2> QED
    BY <2>1, CountTypes, FS_Subset, FS_CardinalityType DEF HandedOut
<1>2. ASSUME NEW row \in Rows PROVE Cardinality(UnderWay(row)') <= HandedOut(row)'
  BY <1>1, CountTypes DEF CountInv
<1>3. ASSUME ~overlapped', NEW row \in Rows
      PROVE  Shown(row)' + Cardinality(UnderWay(row)') <= 1 + HandedOut(row)'
  BY <1>1, <1>3, CountTypes DEF CountInv
<1> QED
  BY <1>2, <1>3 DEF CountInv

\* The first rows of a selection, once each.
LEMMA HydrateShowsOnce ==
  ASSUME TypeOK, ShownInv, CountInv, NEW c \in calls, Hydrate(c), ~overlapped
  PROVE  calls' = {} /\ \A row \in Rows : Shown(row)' \in {0, 1}
<1>1. calls' = calls \ {c} /\ timeline' \in {timeline (+) SetToBag(c.rows), timeline}
  BY DEF Hydrate
<1>2. BagToSet(timeline) = {}
  BY DEF CountInv
<1>3. \A row \in BagToSet(timeline') : timeline'[row] = 1
  BY <1>1, <1>2 DEF BagToSet, (+), SetToBag
<1> QED
  BY <1>1, <1>3 DEF ShownInv, Shown

LEMMA HydrateCounts ==
  ASSUME BackInv, TypeOK, ShownInv, CountInv, NEW c \in calls, Hydrate(c) PROVE CountInv'
<1>1. UNCHANGED <<published, transit, overlapped>>
  BY DEF Hydrate, backend
<1> QED
  BY <1>1, HydrateShowsOnce, CountQuiet

\* At most one copy for each instance.
LEMMA PublishCounts ==
  ASSUME BackInv, TypeOK, CountInv, NEW row \in Rows, PublishRow(row) PROVE CountInv'
<1>1. /\ UNCHANGED <<overlapped, calls, timeline>> /\ transit' = transit \cup Copies(row)
      /\ published' = [published EXCEPT ![row] = @ + 1]
  BY DEF PublishRow, choice, Copies
<1> DEFINE N == Cardinality(Instances)
<1>2. N \in Nat
  BY DashboardAssumption, FS_CardinalityType
<1>3. ASSUME NEW q \in Rows
      PROVE  /\ Shown(q)' = Shown(q) /\ Cardinality(UnderWay(q)') \in Nat
             /\ \/ HandedOut(q)' = HandedOut(q) /\ UnderWay(q)' = UnderWay(q)
                \/ /\ HandedOut(q)' = HandedOut(q) + N
                   /\ Cardinality(UnderWay(q)') <= Cardinality(UnderWay(q)) + N
  <2>1. Shown(q)' = Shown(q)
    BY <1>1 DEF Shown
  <2>2. CASE q # row
    <3>1. UnderWay(q)' = UnderWay(q)
      BY <1>1, <2>2 DEF UnderWay, Copies
    <3>2. HandedOut(q)' = HandedOut(q)
      BY <1>1, <2>2 DEF HandedOut, BackInv
    <3> QED
      BY <2>1, <3>1, <3>2, CountTypes
  <2>3. CASE q = row
    <3>1. UnderWay(q)' = UnderWay(q) \cup Copies(row)
      BY <1>1, <2>3 DEF UnderWay, Copies
    <3>2. published[row] \in Nat /\ published'[row] = published[row] + 1
      BY <1>1 DEF BackInv
    <3>3. HandedOut(q)' = HandedOut(q) + N
      BY <1>2, <2>3, <3>2 DEF HandedOut
    <3>4. /\ IsFiniteSet(Copies(row)) /\ Cardinality(Copies(row)) \in Nat
          /\ Cardinality(Copies(row)) <= N
      BY CopiesAreFew DEF BackInv
    <3>5. IsFiniteSet(UnderWay(q)) /\ Cardinality(UnderWay(q)) \in Nat
      BY CountTypes
    <3> HIDE DEF N
    <3>6. Cardinality(UnderWay(q)') <= Cardinality(UnderWay(q)) + N /\ Cardinality(UnderWay(q)') \in Nat
      <4>1. IsFiniteSet(UnderWay(q) \cap Copies(row))
        BY <3>4, FS_Subset
      <4>2. Cardinality(UnderWay(q)') = Cardinality(UnderWay(q)) + Cardinality(Copies(row))
                                        - Cardinality(UnderWay(q) \cap Copies(row))
        BY <3>1, <3>4, <3>5, FS_Union
      <4>3. Cardinality(UnderWay(q) \cap Copies(row)) \in Nat
        BY <4>1, FS_CardinalityType
      <4>4. Cardinality(UnderWay(q)') \in Nat
        BY <3>1, <3>4, <3>5, FS_Union, FS_CardinalityType
      <4> QED
        BY <1>2, <3>4, <3>5, <4>2, <4>3, <4>4
    <3> QED
      BY <2>1, <3>3, <3>6
  <2> QED
    BY <2>2, <2>3
<1> HIDE DEF N
<1>4. ASSUME NEW q \in Rows PROVE Cardinality(UnderWay(q)') <= HandedOut(q)'
  BY <1>2, <1>3, CountTypes DEF CountInv
<1>5. ASSUME ~overlapped, NEW q \in Rows
      PROVE  Shown(q)' + Cardinality(UnderWay(q)') <= 1 + HandedOut(q)'
  BY <1>2, <1>3, <1>5, CountTypes DEF CountInv
<1> QED
  BY <1>1, <1>4, <1>5 DEF CountInv

\* A frame that nobody takes shows nothing.
LEMMA ArriveShowsNone ==
  ASSUME TypeOK, NEW f \in transit, Arrive(f), Listeners(f) = {}
  PROVE  BagToSet(timeline') = BagToSet(timeline) /\ \A row \in Rows : Shown(row)' = Shown(row)
<1>1. timeline' = timeline (+) Added(f)
  BY DEF Arrive, Added
<1>2. DOMAIN timeline' = DOMAIN timeline /\ \A r \in DOMAIN timeline : timeline'[r] = timeline[r]
  BY <1>1, NothingIsABag DEF Added, TypeOK, IsABag, BagToSet, (+)
<1> QED
  BY <1>2 DEF Shown, BagToSet

\* One stream at most takes a frame.
LEMMA ArriveShowsOne ==
  ASSUME BackInv, TypeOK, ShownInv, NEW f \in transit, Arrive(f), Listeners(f) # {}, ~overlapped
  PROVE  /\ calls = {}
         /\ \A row \in Rows : Shown(row)' = Shown(row) + (IF row = f.row THEN 1 ELSE 0)
<1>1. timeline' = timeline (+) Added(f)
  BY DEF Arrive, Added
<1>2. Listeners(f) \subseteq streams
  BY DEF Listeners
<1>3. PICK s \in Listeners(f) : Listeners(f) = {s}
  BY <1>2 DEF ShownInv
<1>4. calls = {} /\ Cardinality(Listeners(f)) = 1
  BY <1>2, <1>3, FS_Singleton DEF ShownInv
<1>5. Added(f) = [r \in {f.row} |-> 1]
  BY <1>4 DEF Added
<1>6. DOMAIN timeline' = DOMAIN timeline \cup {f.row}
  BY <1>1, <1>5 DEF (+)
<1>7. ASSUME NEW r \in DOMAIN timeline'
      PROVE  timeline'[r] = (IF r \in DOMAIN timeline THEN timeline[r] ELSE 0)
                            + (IF r = f.row THEN 1 ELSE 0)
  BY <1>1, <1>5, <1>7 DEF (+)
<1> QED
  BY <1>4, <1>6, <1>7, CountTypes DEF Shown, BagToSet

\* What is shown is no longer under way.
LEMMA ArriveCounts ==
  ASSUME BackInv, TypeOK, ShownInv, CountInv, NEW f \in transit, Arrive(f) PROVE CountInv'
<1>1. UNCHANGED <<published, overlapped, calls, streams>> /\ transit' = transit \ {f}
  BY DEF Arrive, choice
<1>2. f.row \in Rows
  BY DEF BackInv, Frames
<1>3. CASE Listeners(f) = {}
  BY <1>1, <1>3, ArriveShowsNone, CountQuiet DEF CountInv
<1>4. CASE Listeners(f) # {}
  <2>1. ~overlapped => calls = {}
    BY <1>4, ArriveShowsOne
  <2>2. ASSUME ~overlapped, NEW row \in Rows
        PROVE  Shown(row)' = Shown(row) + (IF row = f.row THEN 1 ELSE 0)
    BY <1>4, <2>2, ArriveShowsOne
  <2>3. ASSUME NEW row \in Rows
        PROVE  /\ HandedOut(row)' = HandedOut(row)
               /\ Cardinality(UnderWay(row)') = Cardinality(UnderWay(row))
                                                - (IF row = f.row THEN 1 ELSE 0)
    <3>1. HandedOut(row)' = HandedOut(row)
      BY <1>1 DEF HandedOut
    <3>2. CASE row = f.row
      <4>1. f \in UnderWay(row) /\ UnderWay(row)' = UnderWay(row) \ {f}
        BY <1>1, <3>2 DEF UnderWay
      <4> QED
        BY <3>1, <3>2, <4>1, CountTypes, FS_RemoveElement
    <3>3. CASE row # f.row
      <4>1. UnderWay(row)' = UnderWay(row)
        BY <1>1, <3>3 DEF UnderWay
      <4> QED
        BY <3>1, <3>3, <4>1, CountTypes
    <3> QED
      BY <3>2, <3>3
  <2>4. ASSUME NEW row \in Rows PROVE Cardinality(UnderWay(row)') <= HandedOut(row)'
    BY <2>3, CountTypes DEF CountInv
  <2>5. ASSUME ~overlapped, NEW row \in Rows
        PROVE  Shown(row)' + Cardinality(UnderWay(row)') <= 1 + HandedOut(row)'
    BY <2>2, <2>3, <2>5, CountTypes DEF CountInv
  <2> QED
    BY <1>1, <2>1, <2>4, <2>5 DEF CountInv
<1> QED
  BY <1>3, <1>4

LEMMA CountNext == BackInv /\ TypeOK /\ ShownInv /\ CountInv /\ [Next]_vars => CountInv'
<1> SUFFICES ASSUME BackInv, TypeOK, ShownInv, CountInv, [Next]_vars PROVE CountInv'
  OBVIOUS
<1>1. ASSUME UNCHANGED <<published, overlapped, timeline>>, transit' \subseteq transit,
             calls' = {} <=> calls = {}
      PROVE  CountInv'
  <2>1. \A row \in Rows : Shown(row)' = Shown(row)
    BY <1>1 DEF Shown
  <2> QED
    BY <1>1, <2>1, CountQuiet DEF CountInv
<1>2. ASSUME NEW o \in Orders, Select(o) PROVE CountInv'
  <2>1. timeline' = EmptyBag /\ UNCHANGED <<published, transit>> /\ (overlapped => overlapped')
    BY <1>2 DEF Select, backend
  <2>2. BagToSet(timeline') = {}
    BY <2>1, NothingIsABag
  <2>3. \A row \in Rows : Shown(row)' = 0
    BY <2>2 DEF Shown
  <2> QED
    BY <2>1, <2>2, <2>3, CountQuiet
<1>3. ASSUME NEW c \in calls, ReadHistory(c) PROVE CountInv'
  BY <1>1, <1>3 DEF ReadHistory, backend, choice, table
<1>4. ASSUME NEW s \in streams, StreamOpens(s) \/ StreamBreaks(s) PROVE CountInv'
  BY <1>1, <1>4 DEF StreamOpens, StreamBreaks, backend, choice, table
<1>5. ASSUME NEW i \in Instances, DropSubscriber(i) \/ Resubscribe(i) PROVE CountInv'
  BY <1>1, <1>5 DEF DropSubscriber, Resubscribe, page, choice, table
<1>6. ASSUME (\E o \in Orders : WriteRow(o)) \/ Poll
             \/ (\E o \in polls : PollAnswered(o) \/ PollFails(o)) \/ UNCHANGED vars
      PROVE  CountInv'
  BY <1>1, <1>6 DEF WriteRow, Poll, PollAnswered, PollFails, vars, page, choice, table, backend
<1> QED
  BY <1>2, <1>3, <1>4, <1>5, <1>6, HydrateCounts, PublishCounts, ArriveCounts DEF Next

\* Before anything has failed, a row that is there twice has come by the stream,
\* which is open and will bring it no more.
TwiceInv ==
    ~overlapped /\ errors = 0 =>
      \A row \in Rows :
        Shown(row) <= 1 \/ /\ Shown(row) = 2 /\ published[row] > 0
                           /\ \A s \in streams : /\ s.at # Nowhere
                                                  /\ \A f \in UnderWay(row) : f.to # s.at

LEMMA TwiceInit == Init => TwiceInv
BY NothingIsABag DEF Init, TwiceInv, Shown

\* Without errors there is one copy for each instance.
LEMMA OneCopy ==
  ASSUME BackInv, errors = 0, NEW f \in transit, NEW g \in transit, f.row = g.row, f.to = g.to
  PROVE  f = g
<1>1. f \in Frames /\ g \in Frames /\ f.row \in Rows
  BY DEF BackInv, Frames
<1>2. f.copy \in 1..(MaxErrors + 1) /\ g.copy \in 1..(MaxErrors + 1)
  BY <1>1 DEF Frames
<1>3. f.copy <= published[f.row] /\ g.copy <= published[f.row]
      /\ published[f.row] \in Nat /\ published[f.row] <= 1
  BY <1>1 DEF BackInv
<1>4. f.copy = g.copy
  BY <1>2, <1>3, DashboardAssumption
<1> QED
  BY <1>1, <1>4 DEF Frames

\* A step that neither shows a row nor opens a stream nor broadcasts.
LEMMA TwiceQuiet ==
  ASSUME BackInv, TwiceInv, errors' = errors \/ Error, overlapped => overlapped',
         UNCHANGED <<published, streams, timeline>>, transit' \subseteq transit
  PROVE  TwiceInv'
<1>1. errors' = 0 => errors = 0
  BY DashboardAssumption DEF BackInv, Error
<1>2. ASSUME NEW row \in Rows PROVE Shown(row)' = Shown(row) /\ UnderWay(row)' \subseteq UnderWay(row)
  BY DEF Shown, UnderWay
<1> QED
  BY <1>1, <1>2 DEF TwiceInv

\* A step after which no row is there twice.
LEMMA TwiceNot ==
  ASSUME ~overlapped' /\ errors' = 0 => \A row \in Rows : Shown(row)' <= 1
  PROVE  TwiceInv'
BY DEF TwiceInv

\* A broadcast without an error is the first one, and no row that is there twice
\* has it before it.
LEMMA PublishTwice == ASSUME BackInv, TwiceInv, NEW row \in Rows, PublishRow(row) PROVE TwiceInv'
<1>1. /\ UNCHANGED <<overlapped, streams, timeline>> /\ transit' = transit \cup Copies(row)
      /\ published' = [published EXCEPT ![row] = @ + 1]
      /\ (published[row] > 0 /\ errors' = errors + 1) \/ (published[row] <= 0 /\ errors' = errors)
  BY DEF PublishRow, choice, Copies, Error, BackInv
<1> SUFFICES ASSUME ~overlapped, errors' = 0, NEW q \in Rows, ~(Shown(q) <= 1)
             PROVE  /\ Shown(q) = 2 /\ published'[q] > 0
                    /\ \A s \in streams : /\ s.at # Nowhere
                                           /\ \A f \in UnderWay(q)' : f.to # s.at
  BY <1>1 DEF TwiceInv, Shown
<1>2. published[row] <= 0 /\ errors = 0
  BY <1>1, DashboardAssumption DEF BackInv
<1>3. q # row
  BY <1>2 DEF TwiceInv, BackInv
<1>4. UnderWay(q)' = UnderWay(q) /\ published'[q] = published[q]
  BY <1>1, <1>3 DEF UnderWay, Copies, BackInv
<1> QED
  BY <1>2, <1>4 DEF TwiceInv

\* The second time is the stream's, and its only copy.
LEMMA ArriveTwice ==
  ASSUME BackInv, TypeOK, ShownInv, TwiceInv, NEW f \in transit, Arrive(f) PROVE TwiceInv'
<1>1. UNCHANGED <<published, overlapped, calls, streams, errors>> /\ transit' = transit \ {f}
  BY DEF Arrive, choice
<1> SUFFICES ASSUME ~overlapped, errors = 0, NEW row \in Rows, ~(Shown(row)' <= 1)
             PROVE  /\ Shown(row)' = 2 /\ published[row] > 0
                    /\ \A s \in streams : /\ s.at # Nowhere
                                           /\ \A g \in UnderWay(row)' : g.to # s.at
  BY <1>1 DEF TwiceInv
<1>2. UnderWay(row)' \subseteq UnderWay(row) \ {f}
  BY <1>1 DEF UnderWay
<1>3. CASE Shown(row)' = Shown(row)
  BY <1>2, <1>3 DEF TwiceInv
<1>4. CASE Shown(row)' # Shown(row)
  <2>1. row = f.row /\ Listeners(f) # {} /\ Shown(row)' = Shown(row) + 1
    BY <1>4, ArriveShowsNone, ArriveShowsOne, CountTypes
  <2>2. PICK s \in streams : s.at = f.to
    BY <2>1 DEF Listeners
  <2>3. \A t \in streams : t = s
    BY DEF ShownInv
  <2>4. f \in UnderWay(row)
    BY <2>1 DEF UnderWay
  <2>5. Shown(row) <= 1
    BY <2>2, <2>4 DEF TwiceInv
  <2>6. Shown(row)' = 2
    BY <2>1, <2>5, CountTypes
  <2>7. f \in Frames /\ f.to # Nowhere
    BY DashboardAssumption DEF BackInv, Frames
  <2>8. published[row] > 0
    BY <2>1, <2>7, DashboardAssumption DEF BackInv, Frames
  <2>9. \A g \in UnderWay(row)' : g.to # f.to
    BY <1>2, <2>1, OneCopy DEF UnderWay
  <2> QED
    BY <2>2, <2>3, <2>6, <2>7, <2>8, <2>9
<1> QED
  BY <1>3, <1>4

LEMMA TwiceNext == BackInv /\ TypeOK /\ ShownInv /\ CountInv /\ TwiceInv /\ [Next]_vars => TwiceInv'
<1> SUFFICES ASSUME BackInv, TypeOK, ShownInv, CountInv, TwiceInv, [Next]_vars PROVE TwiceInv'
  OBVIOUS
<1>1. ASSUME NEW o \in Orders, Select(o) PROVE TwiceInv'
  <2>1. BagToSet(timeline') = {}
    BY <1>1, NothingIsABag DEF Select
  <2> QED
    BY <2>1, TwiceNot DEF Shown
<1>2. ASSUME NEW c \in calls, Hydrate(c) PROVE TwiceInv'
  BY <1>2, HydrateShowsOnce, TwiceNot DEF Hydrate
<1>3. ASSUME NEW s \in streams, StreamOpens(s) PROVE TwiceInv'
  <2>1. s.at = Nowhere /\ UNCHANGED <<overlapped, errors, timeline>>
    BY <1>3 DEF StreamOpens, choice, table
  <2>2. ~overlapped /\ errors = 0 => \A row \in Rows : Shown(row) <= 1
    BY <2>1 DEF TwiceInv
  <2> QED
    BY <2>1, <2>2, TwiceNot DEF Shown
<1>4. ASSUME NEW s \in streams, StreamBreaks(s) PROVE TwiceInv'
  <2>1. errors' # 0
    BY <1>4, DashboardAssumption DEF StreamBreaks, Error, BackInv
  <2> QED
    BY <2>1, TwiceNot
<1>5. ASSUME NEW i \in Instances, DropSubscriber(i) \/ Resubscribe(i) PROVE TwiceInv'
  BY <1>5, TwiceQuiet DEF DropSubscriber, Resubscribe, page, choice, table
<1>6. ASSUME NEW c \in calls, ReadHistory(c) PROVE TwiceInv'
  BY <1>6, TwiceQuiet DEF ReadHistory, backend, choice, table
<1>7. ASSUME (\E o \in Orders : WriteRow(o)) \/ Poll
             \/ (\E o \in polls : PollAnswered(o) \/ PollFails(o)) \/ UNCHANGED vars
      PROVE  TwiceInv'
  BY <1>7, TwiceQuiet DEF WriteRow, Poll, PollAnswered, PollFails, vars, page, choice, table, backend
<1> QED
  BY <1>1, <1>2, <1>3, <1>4, <1>5, <1>6, <1>7, PublishTwice, ArriveTwice DEF Next

LEMMA CountsShown == CountInv /\ TwiceInv /\ BackInv /\ TypeOK => ShownPerCopy
<1> SUFFICES ASSUME CountInv, TwiceInv, BackInv, TypeOK, ~overlapped, NEW row \in BagToSet(timeline)
             PROVE  /\ errors = 0 => timeline[row] <= 2
                    /\ timeline[row] <= 1 + HandedOut(row)
  BY DEF ShownPerCopy, HandedOut
<1>1. row \in Rows /\ Shown(row) = timeline[row]
  BY DEF TypeOK, Shown
<1>2. errors = 0 => timeline[row] <= 2
  BY <1>1, CountTypes DEF TwiceInv
<1> QED
  BY <1>1, <1>2, CountTypes DEF CountInv

\* Nothing removes duplicates, yet a row is shown no more than once from the history
\* and once for each frame that an instance was handed, however often frames are
\* sent again and streams opened again; and twice at most until something fails.
THEOREM ShownOncePerCopy == FairSpec => []ShownPerCopy
<1>1. FairSpec => []TypeOK
  BY TypeCorrect
<1>2. CountInv /\ TwiceInv /\ BackInv /\ TypeOK => ShownPerCopy
  BY CountsShown
<1> QED
  BY <1>1, <1>2, ClickInit, ClickNext, BackInit, BackNext, ShownInit, ShownNext, CountInit, CountNext,
     TwiceInit, TwiceNext, PTL DEF FairSpec, Spec

=============================================================================
