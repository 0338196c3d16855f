----------------------------- MODULE MCLifecycle -----------------------------
(***************************************************************************)
(* Instances of Lifecycle for TLC.                                         *)
(***************************************************************************)
EXTENDS Lifecycle, TLC

\* Calls and pairs are interchangeable; used by the runs that check an
\* invariant only, never by the one that checks liveness.
Symmetry == Permutations(Calls) \cup Permutations(Pairs)

=============================================================================
