------------------------------- MODULE MCChat -------------------------------
(***************************************************************************)
(* Instances of Chat for TLC.                                              *)
(***************************************************************************)
EXTENDS Chat, TLC

CONSTANTS ann, bob, eve

\* ann may choose between two, and bob writes to her.
MCListed == ann :> {bob, eve} @@ bob :> {ann} @@ eve :> {}

\* ann's profile is her own, bob's still that of eve, who used the phone before.
MCStale == ann :> {ann} @@ bob :> {eve} @@ eve :> {}

\* ann's profile is fetched at some time, bob's has been.
MCFetching == ann :> {None, ann} @@ bob :> {bob} @@ eve :> {}
=============================================================================
