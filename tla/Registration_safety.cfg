\* Two sign-ups, for one email or two, and two dogs, of one owner or two or of
\* none, with two exceptions.
CONSTANTS
  Emails = {e1, e2}
  OwnerPosts = {o1, o2}
  DogPosts = {d1, d2}
  MaxFaults = 2
SPECIFICATION Spec
SYMMETRY Symmetry
INVARIANTS
  OneOwnerPerEmail
  OwnerIdIsOwn
  DogIdIsOwn
  RejectionExplained
