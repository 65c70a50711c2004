\* Two accounts, two sessions, two builds of the tabs and of the chat, and a fault.
CONSTANTS
  Emails = {ann, bob}
  MaxSessions = 2
  MaxViews = 2
  MaxShows = 2
  MaxFaults = 1
SPECIFICATION FairSpec
INVARIANTS
  NotSomebodyElse
  OwnDocument
  DocumentMissingExplained
  ProfileExplained
PROPERTIES
  ChatReady
