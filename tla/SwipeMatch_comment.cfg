\* One exception in one of two requests.
CONSTANTS
  Dogs = {a, b}
  Outcomes = {0, 1}
  Requests = {r1, r2}
  MaxFaults = 1
SPECIFICATION Spec
SYMMETRY Symmetry
INVARIANT MatchesFollowOutcomes
