--------------------------- MODULE MCOrderOutbox ----------------------------
(***************************************************************************)
(* OrderOutbox on small instances.                                         *)
(***************************************************************************)
EXTENDS OrderOutbox, TLC

\* Orders, stages and instances are interchangeable: no action or property
\* names one of them.  Used for safety and never for liveness.
Symmetry == Permutations(Orders) \cup Permutations(Stages) \cup Permutations(Instances)

=============================================================================
