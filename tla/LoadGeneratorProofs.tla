------------------------- MODULE LoadGeneratorProofs -------------------------
(***************************************************************************)
(* What a run of the load generator sends, for every pair of arguments.    *)
(***************************************************************************)
EXTENDS LoadGenerator, TLAPS

USE DEF One

Answered == One * (created + rejected)
Integral == Step % One = 0

\* What the answered requests and the ones of the batch under way amount to,
\* against the loop's counter.  With whole steps the two agree.
Accounted(upTo) ==
    /\ Answered + One * pending <= Least(upTo, count)
    /\ Integral => Answered + One * pending = Least(upTo, count)

IInv ==
    /\ TypeOK
    /\ One * pending <= Step
    /\ Integral => sent % One = 0
    /\ pc \in {"start", "exit"} => sent = 0 /\ pending = 0 /\ created = 0 /\ rejected = 0
    /\ pc \in {"loop", "end"} => pending = 0 /\ Accounted(sent)
    /\ pc = "await" => sent < count /\ Accounted(sent + Step)
    /\ pc = "end" => sent >= count

\* A batch is as long as its share of what is left, less the fraction.
LEMMA SizeFits ==
  ASSUME TypeOK, sent < count
  PROVE  /\ Step \in Nat /\ Step >= One /\ Size \in Nat
         /\ One * Size <= Least(Step, count - sent)
         /\ Integral /\ sent % One = 0 => One * Size = Least(Step, count - sent)
<1>1. Step \in Nat /\ Step >= One
  BY DEF TypeOK, Step
<1>2. Least(Step, count - sent) \in Nat
  BY <1>1 DEF TypeOK, Least
<1>3. Size \in Nat /\ One * Size <= Least(Step, count - sent)
  BY <1>2 DEF Size, Floor
<1>4. ASSUME Integral, sent % One = 0
      PROVE  One * Size = Least(Step, count - sent)
  <2>1. (count - sent) % One = 0
    BY <1>4 DEF TypeOK
  <2>2. Least(Step, count - sent) % One = 0
    BY <1>4, <2>1 DEF Least, Integral
  <2> QED
    BY <1>2, <2>2 DEF Size, Floor
<1> QED
  BY <1>1, <1>3, <1>4

LEMMA InitInv == Init => IInv
<1> SUFFICES ASSUME Init PROVE IInv
  OBVIOUS
<1>1. Step = One
  BY DEF Init, Step
<1> QED
  BY <1>1 DEF Init, IInv, TypeOK, Integral

LEMMA NextInv == IInv /\ [Next]_vars => IInv'
<1> SUFFICES ASSUME IInv, [Next]_vars PROVE IInv'
  OBVIOUS
<1>0. TypeOK
  BY DEF IInv
<1>1. CASE ReadArgs
  <2>1. /\ pc = "start" /\ sent = 0 /\ pending = 0 /\ created = 0 /\ rejected = 0
        /\ UNCHANGED <<sent, pending, created, rejected>>
    BY <1>1 DEF ReadArgs, stats, IInv
  <2>2. /\ mode' \in {"burst", "steady"}
        /\ count' \in Int /\ count' >= One /\ count' % One = 0
        /\ second' \in Int /\ second' >= One
        /\ pc' \in {"loop", "exit"}
    BY <1>0, <1>1, NumbersAssumption DEF ReadArgs, IsValid, args, TypeOK
  <2>3. TypeOK'
    BY <2>1, <2>2 DEF TypeOK
  <2>4. One * pending' <= Step'
    BY <2>1, <2>2 DEF Step
  <2>5. Accounted(sent)'
    BY <2>1, <2>2 DEF Accounted, Answered, Least
  <2>6. sent' % One = 0
    BY <2>1
  <2> QED
    BY <2>1, <2>2, <2>3, <2>4, <2>5, <2>6 DEF IInv
<1>2. CASE SendBatch
  <2>1. /\ sent < count /\ pending' = Size /\ pc' = "await"
        /\ UNCHANGED <<mode, count, second, sent, created, rejected>>
    BY <1>2 DEF SendBatch, args, stats
  <2>2. Accounted(sent) /\ pending = 0 /\ (Integral => sent % One = 0)
    BY <1>2 DEF SendBatch, IInv
  <2>3. /\ Step \in Nat /\ Step >= One /\ Size \in Nat
        /\ One * Size <= Least(Step, count - sent)
        /\ Integral => One * Size = Least(Step, count - sent)
    BY <1>0, <2>1, <2>2, SizeFits
  <2>4. Step' = Step /\ Answered' = Answered /\ (Integral' <=> Integral)
    BY <2>1 DEF Step, Answered, Integral
  <2>5. TypeOK'
    BY <1>0, <2>1, <2>3 DEF TypeOK
  <2>6. One * Size <= Step
    BY <1>0, <2>1, <2>3 DEF Least, TypeOK
  <2>7. /\ Least(sent, count) = sent
        /\ Least(sent + Step, count) = sent + Least(Step, count - sent)
        /\ Least(Step, count - sent) \in Int
    BY <1>0, <2>1, <2>3 DEF Least, TypeOK
  <2>8. Answered \in Int /\ sent \in Int
    BY <1>0 DEF Answered, TypeOK
  <2>9. /\ Answered + One * Size <= Least(sent + Step, count)
        /\ Integral => Answered + One * Size = Least(sent + Step, count)
    <3>1. /\ Answered <= sent
          /\ Integral => Answered = sent
      BY <2>2, <2>7, <2>8 DEF Accounted
    <3> QED
      BY <3>1, <2>3, <2>7, <2>8
  <2>10. Accounted(sent + Step)'
    BY <2>1, <2>4, <2>9 DEF Accounted, Least
  <2> QED
    BY <2>1, <2>2, <2>4, <2>5, <2>6, <2>10 DEF IInv
<1>3. CASE Respond
  <2>1. /\ pending > 0 /\ pending' = pending - 1
        /\ UNCHANGED <<mode, count, second, sent, pc>>
        /\ created' \in Nat /\ rejected' \in Nat
        /\ created' + rejected' = created + rejected + 1
    BY <1>0, <1>3 DEF Respond, Failed, args, TypeOK
  <2>2. Step' = Step /\ (Integral' <=> Integral) /\ Step \in Int
    BY <1>0, <2>1 DEF Step, Integral, TypeOK
  <2>3. /\ pc = "await" /\ Accounted(sent + Step) /\ sent < count
        /\ One * pending <= Step /\ (Integral => sent % One = 0)
    BY <1>0, <2>1 DEF IInv, TypeOK
  <2>4. Answered' + One * pending' = Answered + One * pending
    <3>1. /\ Answered' = One * (created + rejected + 1)
          /\ One * pending' = One * (pending - 1)
      BY <2>1 DEF Answered
    <3>2. created \in Nat /\ rejected \in Nat /\ pending \in Nat
      BY <1>0 DEF TypeOK
    <3> QED
      BY <3>1, <3>2 DEF Answered
  <2>5. TypeOK'
    BY <1>0, <2>1 DEF TypeOK
  <2>6. Accounted(sent + Step)'
    BY <2>1, <2>2, <2>3, <2>4 DEF Accounted, Least
  <2>7. One * pending' <= Step'
    BY <1>0, <2>1, <2>2, <2>3 DEF TypeOK
  <2> QED
    BY <2>1, <2>2, <2>3, <2>5, <2>6, <2>7 DEF IInv
<1>4. CASE NextBatch
  <2>1. /\ pc = "await" /\ pending = 0 /\ sent' = sent + Step /\ pc' = "loop"
        /\ UNCHANGED <<mode, count, second, pending, created, rejected>>
    BY <1>4 DEF NextBatch, args, stats
  <2>2. /\ Step' = Step /\ Answered' = Answered /\ (Integral' <=> Integral)
        /\ Step \in Nat /\ Step >= One
    BY <1>0, <2>1 DEF Step, TypeOK, Answered, Integral
  <2>3. Accounted(sent + Step) /\ (Integral => sent % One = 0)
    BY <2>1 DEF IInv
  <2>4. TypeOK'
    BY <1>0, <2>1, <2>2 DEF TypeOK
  <2>5. Accounted(sent)'
    BY <2>1, <2>2, <2>3 DEF Accounted, Least
  <2>6. Integral => sent' % One = 0
    BY <1>0, <2>1, <2>2, <2>3 DEF TypeOK, Integral
  <2>7. One * pending' <= Step'
    BY <2>1, <2>2
  <2> QED
    BY <2>1, <2>2, <2>4, <2>5, <2>6, <2>7 DEF IInv
<1>5. CASE Report
  <2>1. /\ pc = "loop" /\ sent >= count /\ pc' = "end"
        /\ UNCHANGED <<mode, count, second, sent, pending, created, rejected>>
    BY <1>5 DEF Report, args, stats
  <2> QED
    BY <2>1 DEF IInv, TypeOK, Step, Integral, Accounted, Answered, Least
<1>6. CASE UNCHANGED vars
  BY <1>6 DEF vars, args, stats, IInv, TypeOK, Step, Integral, Accounted, Answered, Least
<1> QED
  BY <1>1, <1>2, <1>3, <1>4, <1>5, <1>6 DEF Next

LEMMA Inductive == FairSpec => []IInv
BY InitInv, NextInv, PTL DEF FairSpec

\* readArgs lets no argument through that the loops cannot run with, and the
\* counters stay natural numbers.
THEOREM TypeCorrect == FairSpec => []TypeOK
<1>1. IInv => TypeOK
  BY DEF IInv
<1> QED
  BY <1>1, Inductive, PTL

\* Every whole concurrency and every interval: the summary accounts for exactly
\* count orders, whichever of them failed.
THEOREM SendsAll == FairSpec => []AllSent
<1>1. IInv => AllSent
  BY DEF IInv, AllSent, Accounted, Answered, Integral, Least, TypeOK
<1> QED
  BY <1>1, Inductive, PTL

\* Every pair of arguments, a fractional concurrency included: no order too many
\* and no batch too large.
THEOREM SendsNoMore == FairSpec => []NeverMore
<1>1. ASSUME IInv PROVE NeverMore
  <2>1. Step \in Nat /\ Step >= One
    BY <1>1 DEF IInv, TypeOK, Step
  <2> QED
    BY <1>1, <2>1 DEF IInv, NeverMore, Accounted, Answered, Least, TypeOK
<1> QED
  BY <1>1, Inductive, PTL

=============================================================================
