\* Three users, two of them online, with two conversations, two messages and one
\* refused write; bob's phone still has the profile of eve.
CONSTANTS
  ann = ann
  bob = bob
  eve = eve
  Listed <- MCListed
  Profiles <- MCStale
  Users = {ann, bob, eve}
  Texts = {hi}
  Online = {ann, bob}
  MaxOpens = 2
  MaxMessages = 2
  MaxFaults = 1
SPECIFICATION Spec
INVARIANTS
  TypeOK
  LogInOrder
  RecentWasSent
  RecentOpensItsPeer
PROPERTIES
  ImplementsConversation
  DraftsKept
