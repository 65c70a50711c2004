--------------------------- MODULE MCDBConnection ---------------------------
(***************************************************************************)
(* Instances of DBConnection for TLC.                                      *)
(***************************************************************************)
EXTENDS DBConnection, TLC

Symmetry == Permutations(Requests)
=============================================================================
