---------------------------- MODULE MCSwipeMatch ----------------------------
(***************************************************************************)
(* Instances of SwipeMatch for TLC.                                        *)
(***************************************************************************)
EXTENDS SwipeMatch, TLC

\* Dogs and requests are only compared for equality.  Not used in the run
\* that checks liveness.
Symmetry == Permutations(Dogs) \cup Permutations(Requests)
=============================================================================
