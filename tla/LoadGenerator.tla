---------------------------- MODULE LoadGenerator ----------------------------
(***************************************************************************)
(* generate.ts: what the arguments are checked for, the batches of a burst *)
(* and the one-by-one of a steady run, and the tally printed at the end.   *)
(* A JavaScript number need not be whole: numbers are counted in halves,   *)
(* and Floor is what Array.from makes of a length.                         *)
(***************************************************************************)
EXTENDS Integers

CONSTANTS
    Numbers,  \* arguments, in halves
    NaN       \* an argument that is no finite number

ASSUME NumbersAssumption == Numbers \subseteq Int /\ NaN \notin Int

VARIABLES
    mode, count, second,  \* the arguments
    sent,                 \* the loop's counter, in halves
    pending,              \* requests of the batch without an answer
    created, rejected,    \* stats
    pc                    \* "start", "loop", "await", "end" or "exit"

args  == <<mode, count, second>>
stats == <<created, rejected>>
vars  == <<args, sent, pending, stats, pc>>

One == 2
Floor(x) == x \div One
Least(x, y) == IF x < y THEN x ELSE y

TypeOK ==
    /\ mode \in {"burst", "steady"}
    /\ count \in Int /\ count >= One /\ count % One = 0 /\ second \in Int /\ second >= One
    /\ sent \in Nat /\ pending \in Nat /\ created \in Nat /\ rejected \in Nat
    /\ pc \in {"start", "loop", "await", "end", "exit"}

\* steady 20 1000 are the defaults.
Init ==
    /\ mode = "steady" /\ count = 20 * One /\ second = 1000 * One
    /\ sent = 0 /\ pending = 0 /\ created = 0 /\ rejected = 0 /\ pc = "start"

-----------------------------------------------------------------------------

\* Mutants: only negative numbers are refused.
IsValid_OrZero(c, s) == c # NaN /\ s # NaN /\ c >= 0 /\ c % One = 0 /\ s >= 0

\* count is an integer from 1, the second argument any number from 1.
IsValid(c, s) == c # NaN /\ s # NaN /\ c >= One /\ c % One = 0 /\ s >= One

\* readArgs, and the exit of main when they are no good.
ReadArgs ==
    /\ pc = "start"
    /\ \/ \E m \in {"burst", "steady"}, c, s \in Numbers \cup {NaN} :
            /\ IsValid(c, s)
            /\ mode' = m /\ count' = c /\ second' = s
            /\ pc' = "loop"
       \/ pc' = "exit" /\ UNCHANGED args
    /\ UNCHANGED <<sent, pending, stats>>

Step == IF mode = "burst" THEN second ELSE One

\* Mutants: every batch is a full one.
Size_Full == Floor(Step)

Size == Floor(Least(Step, count - sent))

\* burst starts a batch, steady one order.
SendBatch ==
    /\ pc = "loop" /\ sent < count
    /\ pending' = Size
    /\ pc' = "await"
    /\ UNCHANGED <<args, sent, stats>>

\* Mutants: a request that fails is not tallied.
Failed_NotTallied == rejected

Failed == rejected + 1

\* createOrder: an answer, or a refusal, or no answer before fetch gives up.
\* It never rejects, so a failure does not end the batch.
Respond ==
    /\ pending > 0 /\ pending' = pending - 1
    /\ \/ created' = created + 1 /\ UNCHANGED rejected
       \/ rejected' = Failed /\ UNCHANGED created
    /\ UNCHANGED <<args, sent, pc>>

\* Every answer is there, and in a steady run the interval is over.
NextBatch ==
    /\ pc = "await" /\ pending = 0
    /\ sent' = sent + Step
    /\ pc' = "loop"
    /\ UNCHANGED <<args, pending, stats>>

\* The summary.
Report ==
    /\ pc = "loop" /\ sent >= count
    /\ pc' = "end"
    /\ UNCHANGED <<args, sent, pending, stats>>

Next == ReadArgs \/ SendBatch \/ Respond \/ NextBatch \/ Report

\* Timers fire, and fetch gives up on an answer that does not come.
FairSpec == Init /\ [][Next]_vars /\ WF_vars(Next)

-----------------------------------------------------------------------------

\* The summary accounts for exactly the orders asked for, whatever fails, when
\* the concurrency is whole (generate 54-67, 100).  With a fractional one, which
\* readArgs accepts, a burst sends fewer: the loop counts what Array.from cuts.
AllSent ==
    pc = "end" /\ Step % One = 0 => One * (created + rejected) = count

\* Whatever the arguments, never more orders than asked for, and never more of
\* them under way at once than the concurrency (generate 55-57).
NeverMore ==
    /\ pc # "start" => One * (created + rejected + pending) <= count
    /\ One * pending <= Step

\* The generator ends: no accepted argument makes a loop that does not advance.
Terminates == <>(pc \in {"end", "exit"})

=============================================================================
