------------------------------ MODULE Matching ------------------------------
(***************************************************************************)
(* What the matching backend promises, free of requests, tables and        *)
(* statements.  A dog (that is, its owner) likes another; two dogs that    *)
(* like each other become a match, and nothing else does.                  *)
(*                                                                         *)
(* SwipeMatch, the model of Swipe.SendSwipe, is shown to implement it.     *)
(***************************************************************************)
CONSTANT Dogs

VARIABLES
  likes,    \* the ordered pairs <<a, b>> such that a likes b
  matched   \* the unordered pairs {a, b} that are matches

avars == <<likes, matched>>

Init ==
  /\ likes = {}
  /\ matched = {}

Mutual(a, b) == <<a, b>> \in likes /\ <<b, a>> \in likes

Like(a, b) ==
  /\ likes' = likes \cup {<<a, b>>}
  /\ UNCHANGED matched

Match(a, b) ==
  /\ Mutual(a, b)
  /\ matched' = matched \cup {{a, b}}
  /\ UNCHANGED likes

Next == \E a, b \in Dogs : Like(a, b) \/ Match(a, b)

\* The safety part of the promise.
Safety == Init /\ [][Next]_avars

\* The liveness part: a mutual like does become a match.
Live == \A a, b \in Dogs : Mutual(a, b) ~> ({a, b} \in matched)
=============================================================================
