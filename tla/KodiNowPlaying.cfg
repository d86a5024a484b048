SPECIFICATION Spec
CONSTANTS
  Items = {"movie", "episode"}
  NoItem = NoItem
  Episodes = {"episode"}
  AddonItems = {"movie"}
  Volumes = {0, 1}
  Listings = {}
  UnpagedListings = {}
  CommandKinds = {}
  kMaxPendingCommands = 1
  kMaxPendingLibraryRequests = 1
  kMaxToleratedPollTimeouts = 2
  MaxPages = 1
  BadReplies = FALSE
  MaxChanges = 2
  MaxCommands = 0
  MaxRequests = 0
  InitialDelay = 1
  MaxDelay = 1
INVARIANTS NowPlayingAgrees ScreenNotBehind
