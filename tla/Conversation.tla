---------------------------- MODULE Conversation ----------------------------
(***************************************************************************)
(* What a chat promises, free of documents, queues and listeners: somebody *)
(* says something to somebody else, and each of the two keeps a copy, in   *)
(* the order in which it was said.  A copy may be missing.                 *)
(*                                                                         *)
(* Chat, the model of ChatLogViewModel over Firestore, is shown to         *)
(* implement it.                                                           *)
(***************************************************************************)
EXTENDS Naturals, Sequences

CONSTANTS Users, Texts

VARIABLES
  said,   \* all that was said, in order
  kept    \* the places in said of which each user has a copy

cvars == <<said, kept>>

\* From one to another, the same way.
SameWay(m, n) == said[m].from = said[n].from /\ said[m].to = said[n].to

Init ==
  /\ said = <<>>
  /\ kept = [u \in Users |-> {}]

Say(u, v, text) ==
  /\ said' = Append(said, [from |-> u, to |-> v, text |-> text])
  /\ UNCHANGED kept

\* A copy is kept by one of the two, and never one of what was said earlier
\* than something of which there is a copy.
Keep(u, n) ==
  /\ u \in {said[n].from, said[n].to}
  /\ \A m \in kept[u] : SameWay(m, n) => m < n
  /\ kept' = [kept EXCEPT ![u] = @ \cup {n}]
  /\ UNCHANGED said

Next ==
  \/ \E u, v \in Users, text \in Texts : u # v /\ Say(u, v, text)
  \/ \E u \in Users, n \in DOMAIN said : Keep(u, n)

Safety == Init /\ [][Next]_cvars
=============================================================================
