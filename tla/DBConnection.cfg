\* Every endpoint against every other, with one external exception and a pool
\* that two sign-ups exhaust.
CONSTANTS
  Requests = {r1, r2}
  Endpoints = {"GetOwners", "GetDogs", "GetDogByEmail", "GetDogId", "GetMatchingInfo",
               "GetDogIdFromOwner", "GetMatchInfo", "GetMessageInfo",
               "GetInefficientMessageInfo", "GetOwnerEmail", "GetOwnerID", "GetID",
               "CreateDog", "CreateOwner", "SendSwipe", "GetListSwipes"}
  MaxPoolSize = 2
  MaxFaults = 1
  Null = Null
SPECIFICATION Spec
SYMMETRY Symmetry
INVARIANTS
  TypeOK
  NoNullDereference
  FailureExplained
  LeakExplained
