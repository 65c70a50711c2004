--------------------------- MODULE MCChatAccount ---------------------------
(***************************************************************************)
(* Instances of ChatAccount for TLC.                                       *)
(***************************************************************************)
EXTENDS ChatAccount
=============================================================================
