\* Three requests about two dogs: a dog may like twice, change its mind, or
\* swipe on itself.  One exception, anywhere.
CONSTANTS
  Dogs = {a, b}
  Outcomes = {0, 1}
  Requests = {r1, r2, r3}
  MaxFaults = 1
SPECIFICATION FairSpec
INVARIANTS
  MatchSound
  MatchComplete
  DuplicatesExplained
PROPERTIES
  ImplementsMatching
  MutualLikesMatch
