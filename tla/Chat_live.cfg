\* The same users and bounds, no write refused; ann's profile may not be there yet.
CONSTANTS
  ann = ann
  bob = bob
  eve = eve
  Listed <- MCListed
  Profiles <- MCFetching
  Users = {ann, bob, eve}
  Texts = {hi}
  Online = {ann, bob}
  MaxOpens = 2
  MaxMessages = 2
  MaxFaults = 0
SPECIFICATION FairSpec
PROPERTY WatchersSee
