\* Two appearances of LoginView, by sign-out, sign-up or relaunch, two accounts
\* and two faults.
CONSTANTS
  ann = ann
  bob = bob
  eve = eve
  a = a
  e = e
  Emails = {ann, bob}
  Dogs = {a, e}
  OwnerOf <- MCOwnerOf
  Good = {a, e}
  MaxLoaders = 2
  MaxFaults = 2
SPECIFICATION FairSpec
INVARIANTS
  TypeOK
  NoCardTwice
  OwnDogExplained
  LostCardExplained
  OldCardsGone
PROPERTY DeckFills
