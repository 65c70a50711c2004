---------------------------- MODULE MCSwipeFeed -----------------------------
(***************************************************************************)
(* Instances of SwipeFeed for TLC.                                         *)
(***************************************************************************)
EXTENDS SwipeFeed, TLC

CONSTANTS a, b, c, ann, bob

\* Ann owns one dog, Bob two, one of which is registered later.
MCOwnerOf == a :> ann @@ b :> bob @@ c :> bob

Symmetry == Permutations(Requests)
=============================================================================
