SPECIFICATION ControlsSpec
CONSTANTS
  PlayedTitles = {t1}
  NoTitle = NoTitle
  MaxPosted = 2
INVARIANT OfflineReadsNotReachable
