\* One list being built while two swipes and a registration take place.
CONSTANTS
  a = a
  b = b
  c = c
  ann = ann
  bob = bob
  Dogs = {a, b, c}
  Outcomes = {0, 1}
  Requests = {r1, r2}
  MaxFaults = 0
  Feeds = {f1}
  Owners = {ann, bob}
  OwnerOf <- MCOwnerOf
  Registered = {a, b}
SPECIFICATION FeedSpec
SYMMETRY Symmetry
INVARIANTS
  ListLeavesOutSwiped
  ListOffersTheRest
  OwnDogNotOffered
