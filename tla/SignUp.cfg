\* Two passes through the forms for two accounts, with one loss.
CONSTANTS
  Emails = {e1, e2}
  OwnerPosts = {o1, o2}
  DogPosts = {d1}
  MaxFaults = 0
  MaxAsks = 2
  MaxLosses = 1
SPECIFICATION SignUpSpec
SYMMETRY Symmetry
INVARIANTS
  SignUpTypeOK
  DogsStayInTheirForm
  ForgottenOwnerExplained
  TabsOnlyForOwners
  OwnersStayRecognised
PROPERTIES
  ImplementsRegistration
