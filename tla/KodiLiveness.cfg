SPECIFICATION FairSpec
CONSTANTS
  Items = {"movie"}
  NoItem = NoItem
  Episodes = {}
  AddonItems = {}
  Volumes = {0}
  Listings = {"movies", "sources"}
  UnpagedListings = {"sources"}
  CommandKinds = {"player"}
  kMaxPendingCommands = 2
  kMaxPendingLibraryRequests = 2
  kMaxToleratedPollTimeouts = 2
  MaxPages = 2
  BadReplies = FALSE
  MaxChanges = 0
  MaxCommands = 1
  MaxRequests = 1
  InitialDelay = 1
  MaxDelay = 1
PROPERTY KodiProgress
