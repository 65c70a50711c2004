------------------------------ MODULE MCSignUp ------------------------------
(***************************************************************************)
(* Instances of SignUp for TLC.                                            *)
(***************************************************************************)
EXTENDS SignUp, TLC

Symmetry == Permutations(Emails) \cup Permutations(OwnerPosts) \cup Permutations(DogPosts)
=============================================================================
