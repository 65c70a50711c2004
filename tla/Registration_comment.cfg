\* One dog posted for one owner, with one exception.
CONSTANTS
  Emails = {e1}
  OwnerPosts = {o1}
  DogPosts = {d1}
  MaxFaults = 1
SPECIFICATION Spec
PROPERTY NotCreatedWhenRefused
