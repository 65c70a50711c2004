----------------------------- MODULE MCCardDeck -----------------------------
(***************************************************************************)
(* Instances of CardDeck for TLC: two accounts, one of which has a dog,    *)
(* and a dog of somebody who does not use this phone.                      *)
(***************************************************************************)
EXTENDS CardDeck, TLC

CONSTANTS
  ann, bob, eve,   \* owners
  a, e             \* the dogs of ann and of eve

MCOwnerOf == a :> ann @@ e :> eve
=============================================================================
