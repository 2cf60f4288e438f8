----------------------------- MODULE Dashboard ------------------------------
(***************************************************************************)
(* One browser tab of the dashboard (public/js) over the history and the   *)
(* stream endpoints of an order.  A selection reads the order's rows, then *)
(* opens a stream, to whichever instance, that carries the frames this     *)
(* instance receives from then on; a poll refreshes the sidebar.  Each of  *)
(* them awaits an answer, and the user may click in between.               *)
(***************************************************************************)
EXTENDS Integers, FiniteSets, Bags

CONSTANTS
    Orders,      \* the orders in the sidebar
    NoOrder,     \* null
    Instances,   \* the processes that serve streams
    Nowhere,     \* where a stream is that is not connected
    Busy,        \* model bound: the orders that rows are written for
    MaxRows,     \* model bound: rows written per order
    MaxSelects,  \* model bound: clicks
    MaxErrors    \* model bound: requests that fail, connections that break, frames sent again

ASSUME DashboardAssumption ==
    /\ NoOrder \notin Orders /\ Nowhere \notin Instances /\ IsFiniteSet(Instances)
    /\ Busy \subseteq Orders
    /\ MaxRows \in Nat /\ MaxSelects \in Nat /\ MaxErrors \in Nat

VARIABLES
    written,    \* how many rows of order_stage_events each order has
    published,  \* how often Redis has broadcast the frame of each row
    subscribed, \* the instances Redis delivers frames to
    transit,    \* frames on their way, through an instance, to the streams it serves
    selected,   \* state.selected
    source,     \* state.source: the select call that created it, 0 for null
    clicks,     \* how many calls of select there have been
    calls,      \* those whose hydration is awaited
    streams,    \* EventSources not closed
    timeline,   \* the bag of rows in the table
    overlapped, \* not in the code: has select been called during a hydration?
    missed,     \* not in the code: rows broadcast while the current selection was deaf
    polls,      \* the selections that sidebar polls under way will highlight
    highlight,  \* the one that is highlighted
    errors

backend == <<written, published, subscribed, transit>>
choice  == <<selected, source, clicks, overlapped>>
table   == <<timeline, missed>>
page    == <<choice, calls, streams, table>>
sidebar == <<polls, highlight>>
vars    == <<backend, page, sidebar, errors>>

Rows  == [order: Orders, id: 1..MaxRows]
Calls == [call: 1..MaxSelects, order: Orders, read: BOOLEAN, rows: SUBSET Rows]
Sources == [call: 1..MaxSelects, order: Orders, at: Instances \cup {Nowhere}]
Frames  == [row: Rows, copy: 1..(MaxErrors + 1), to: Instances]

\* The types, and what the page keeps of its requests.
TypeOK ==
    /\ written \in [Orders -> 0..MaxRows] /\ published \in [Rows -> 0..(MaxErrors + 1)]
    /\ subscribed \subseteq Instances /\ transit \subseteq Frames
    /\ selected \in Orders \cup {NoOrder} /\ source \in 0..clicks /\ clicks \in 0..MaxSelects
    /\ calls \subseteq Calls /\ streams \subseteq Sources
    /\ IsABag(timeline) /\ BagToSet(timeline) \subseteq Rows
    /\ overlapped \in BOOLEAN /\ missed \subseteq Rows
    /\ polls \subseteq Orders \cup {NoOrder} /\ highlight \in Orders \cup {NoOrder}
    /\ errors \in 0..MaxErrors

Init ==
    /\ written = [o \in Orders |-> 0] /\ published = [row \in Rows |-> 0]
    /\ subscribed = Instances /\ transit = {}
    /\ selected = NoOrder /\ source = 0 /\ clicks = 0
    /\ calls = {} /\ streams = {} /\ timeline = EmptyBag /\ overlapped = FALSE /\ missed = {}
    /\ polls = {NoOrder} /\ highlight = NoOrder
    /\ errors = 0

\* Mutants: a history that reads one row too many.
History_OffByOne(o) == [order: {o}, id: 1..(written[o] + 1)]

\* Mutants: a history whose limit leaves out the latest row.
History_Limited(o) == [order: {o}, id: 1..(written[o] - 1)]

History(o) == [order: {o}, id: 1..written[o]]

\* The rows that are in the table or in an answer about to be put there.
InHand == BagToSet(timeline) \cup UNION {c.rows : c \in calls}

Error == errors < MaxErrors /\ errors' = errors + 1

-----------------------------------------------------------------------------
(* The server side.                                                         *)

WriteRow(o) ==
    /\ o \in Busy /\ written[o] < MaxRows
    /\ written' = [written EXCEPT ![o] = @ + 1]
    /\ UNCHANGED <<published, subscribed, transit, page, sidebar, errors>>

\* The streams whose instance would receive a frame published now.
Tuned(row) == {s \in streams : s.at \in subscribed /\ s.order = row.order}

\* Redis executes the PUBLISH of a row, in any order of rows, and once more when
\* its reply is lost and ioredis sends it again.  If the history has been read
\* and no stream is tuned in, the page is deaf to it.
PublishRow(row) ==
    /\ row.id <= written[row.order]
    /\ published[row] > 0 => Error
    /\ published[row] = 0 => UNCHANGED errors
    /\ published' = [published EXCEPT ![row] = @ + 1]
    /\ transit' = transit \cup {[row |-> row, copy |-> published'[row], to |-> i] : i \in subscribed}
    /\ missed' = IF Tuned(row) = {} /\ (\A c \in calls : c.read) THEN missed \cup {row} ELSE missed
    /\ UNCHANGED <<written, subscribed, choice, calls, streams, timeline, sidebar>>

\* forOrder: the streams of an instance that are on the order.
Listeners(f) == {s \in streams : s.at = f.to /\ s.order = f.row.order}

\* addRow, once for every stream that takes the frame; none does if the stream
\* has been closed, or has broken, meanwhile.
Arrive(f) ==
    /\ transit' = transit \ {f}
    /\ timeline' = timeline (+) (IF Listeners(f) = {} THEN EmptyBag
                                 ELSE [row \in {f.row} |-> Cardinality(Listeners(f))])
    /\ UNCHANGED <<written, published, subscribed, choice, calls, streams, missed, sidebar, errors>>

\* The subscriber connection of an instance breaks, with what was on it.  Its
\* streams stay open and stay silent.
DropSubscriber(i) ==
    /\ i \in subscribed /\ Error
    /\ subscribed' = subscribed \ {i}
    /\ transit' = {f \in transit : f.to # i}
    /\ missed' = missed \cup {f.row : f \in {g \in transit : g.to = i /\ Listeners(g) # {}}}
    /\ UNCHANGED <<written, published, choice, calls, streams, timeline, sidebar>>

Resubscribe(i) ==
    /\ i \notin subscribed
    /\ subscribed' = subscribed \cup {i}
    /\ UNCHANGED <<written, published, transit, page, sidebar, errors>>

\* listForOrder answers with the rows there are; the default limit exceeds them.
ReadHistory(c) ==
    /\ ~c.read
    /\ calls' = (calls \ {c}) \cup {[c EXCEPT !.read = TRUE, !.rows = History(c.order)]}
    /\ UNCHANGED <<backend, choice, streams, table, sidebar, errors>>

\* nginx picks an instance, which subscribes the connection and replays nothing.
StreamOpens(s) ==
    /\ s.at = Nowhere
    /\ \E i \in Instances : streams' = (streams \ {s}) \cup {[s EXCEPT !.at = i]}
    /\ UNCHANGED <<backend, choice, calls, table, sidebar, errors>>

\* The connection breaks, and the browser will open it again.
StreamBreaks(s) ==
    /\ s.at # Nowhere /\ Error
    /\ streams' = (streams \ {s}) \cup {[s EXCEPT !.at = Nowhere]}
    /\ missed' = missed \cup {f.row : f \in {g \in transit : s \in Listeners(g)}}
    /\ UNCHANGED <<backend, choice, calls, timeline, sidebar>>

-----------------------------------------------------------------------------
(* app.js and sidebar.js.                                                   *)

\* Mutants: select does not close.
Closed_None == {}

\* The stream that state.source holds.
Closed == {s \in streams : s.call = source}

\* select up to its await: close, clear, and ask for the history.  It also polls
\* the sidebar.
Select(o) ==
    /\ clicks < MaxSelects
    /\ clicks' = clicks + 1
    /\ streams' = streams \ Closed
    /\ selected' = o
    /\ timeline' = EmptyBag /\ missed' = {} /\ overlapped' = (overlapped \/ calls # {})
    /\ calls' = calls \cup {[call |-> clicks + 1, order |-> o, read |-> FALSE, rows |-> {}]}
    /\ polls' = polls \cup {o}
    /\ UNCHANGED <<backend, source, highlight, errors>>

\* Mutants: the stream is opened only after a hydration that succeeded.
StreamOf_Hydrated(c, hydrated) ==
    IF hydrated THEN {[call |-> c.call, order |-> c.order, at |-> Nowhere]} ELSE {}

StreamOf(c, hydrated) == {[call |-> c.call, order |-> c.order, at |-> Nowhere]}

\* ... and after it: whatever the answer, and whatever has been selected since,
\* the rows are appended and the new stream replaces the one in state.source.
Hydrate(c) ==
    /\ \E hydrated \in BOOLEAN :
         /\ IF hydrated THEN /\ c.read /\ timeline' = timeline (+) SetToBag(c.rows)
                             /\ UNCHANGED <<missed, errors>>
                        ELSE /\ Error /\ UNCHANGED timeline
                             /\ missed' = {row \in Rows : published[row] > 0}
         /\ streams' = streams \cup StreamOf(c, hydrated)
    /\ calls' = calls \ {c} /\ source' = c.call
    /\ UNCHANGED <<backend, selected, clicks, overlapped, sidebar>>

\* The interval: a poll remembers the selection it started with.
Poll ==
    /\ polls' = polls \cup {selected}
    /\ UNCHANGED <<backend, page, highlight, errors>>

\* Mutants: a render key without the selection, on orders that do not change.
Rendered_DataOnly(o) == highlight

\* renderOrders: the selection is part of the key, so it is always rendered.
Rendered(o) == o

\* refreshSidebar after its await: it renders the selection of the poll.
PollAnswered(o) ==
    /\ polls' = polls \ {o}
    /\ highlight' = Rendered(o)
    /\ UNCHANGED <<backend, page, errors>>

\* A poll that fails shows a notice instead.
PollFails(o) ==
    /\ Error
    /\ polls' = polls \ {o}
    /\ UNCHANGED <<backend, page, highlight>>

Next ==
    \/ \E o \in Orders : WriteRow(o) \/ Select(o)
    \/ \E row \in Rows : PublishRow(row)
    \/ \E f \in transit : Arrive(f)
    \/ \E i \in Instances : DropSubscriber(i) \/ Resubscribe(i)
    \/ \E c \in calls : ReadHistory(c) \/ Hydrate(c)
    \/ \E s \in streams : StreamOpens(s) \/ StreamBreaks(s)
    \/ Poll
    \/ \E o \in polls : PollAnswered(o) \/ PollFails(o)

Spec == Init /\ [][Next]_vars

\* The interval fires and every poll is answered.
FairSpec ==
    /\ Spec
    /\ WF_vars(Poll)
    /\ \A o \in Orders \cup {NoOrder} : WF_vars(o \in polls /\ PollAnswered(o))

-----------------------------------------------------------------------------

\* As long as no order is selected while another one hydrates, the page shows
\* one order: at most one stream is left, the one that state.source will close,
\* and all rows and streams are of the selected order.
OneOrderShown ==
    ~overlapped =>
      /\ \A s \in streams : s.call = source /\ s.order = selected
      /\ Cardinality(streams) <= 1 /\ Cardinality(calls) <= 1
      /\ \A row \in BagToSet(timeline) : row.order = selected

\* There is no de-duplication: a row is shown once from the history and once from
\* the stream (data-flow.md 205-206), and no stream of an earlier click adds to
\* it.  It is shown more often only once something has failed, a PUBLISH being
\* sent again or a stream opened again on an instance that is behind, and then
\* once for each copy and each instance it was given to.
ShownPerCopy ==
    ~overlapped =>
      \A row \in BagToSet(timeline) :
        /\ errors = 0 => timeline[row] <= 2
        /\ timeline[row] <= 1 + published[row] * Cardinality(Instances)

\* Rows that the open stream is about to bring.
OnTheWay == {f.row : f \in {g \in transit : Listeners(g) # {}}}

\* A page whose history was read has every row broadcast since, or before, or is
\* about to get it, but for those it was deaf to: broadcast before the stream was
\* open (data-flow.md 203-205), or while it or its instance's subscription was
\* broken, or under way when either broke.  The read and the stream leave no
\* other gap, whichever row is written, read and broadcast first.
MissesOnlyTheGap ==
    (~overlapped /\ \A c \in calls : c.read) =>
      \A row \in Rows : published[row] > 0 /\ row.order = selected =>
        row \in InHand \cup OnTheWay \cup missed

\* Whatever overlaps and whatever fails, the last click is honoured: its own
\* hydration is awaited or its own stream is there, never closed by a late
\* answer to an earlier click.
LastClickLives ==
    clicks > 0 => \E c \in calls \cup streams : c.call = clicks /\ c.order = selected

\* Polls overtake clicks and each other, yet once the user settles on an order
\* the sidebar does too.
HighlightSettles ==
    \A o \in Orders : <>[](selected = o) => <>[](highlight = o)

\* data-flow.md:196 ("loop until another order is selected") and the comment of
\* select (app.js:16): the rows in the table are those of the selected order.
TimelineOfSelected == \A row \in BagToSet(timeline) : row.order = selected

=============================================================================
