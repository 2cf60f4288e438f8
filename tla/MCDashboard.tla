---------------------------- MODULE MCDashboard -----------------------------
(***************************************************************************)
(* Dashboard on small instances.                                           *)
(***************************************************************************)
EXTENDS Dashboard, TLC

\* The orders are interchangeable.  Used for invariants only.
Symmetry == Permutations(Orders)

=============================================================================
