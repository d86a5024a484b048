SPECIFICATION QueuesSpec
CONSTANTS
  Items = {"movie"}
  NoItem = NoItem
  Episodes = {}
  AddonItems = {}
  Volumes = {0, 1}
  Listings = {"movies"}
  UnpagedListings = {}
  CommandKinds = {"player", "stop", "mute", "other"}
  kMaxPendingCommands = 2
  kMaxPendingLibraryRequests = 2
  kMaxToleratedPollTimeouts = 2
  MaxPages = 2
  BadReplies = TRUE
  MaxChanges = 0
  MaxCommands = 3
  MaxRequests = 2
  InitialDelay = 1
  MaxDelay = 1
INVARIANT LibrarySafe
PROPERTY CommandsImplementChannel
