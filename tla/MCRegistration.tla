--------------------------- MODULE MCRegistration ---------------------------
(***************************************************************************)
(* Instances of Registration for TLC.                                      *)
(***************************************************************************)
EXTENDS Registration, TLC

Symmetry == Permutations(Emails) \cup Permutations(OwnerPosts) \cup Permutations(DogPosts)
=============================================================================
