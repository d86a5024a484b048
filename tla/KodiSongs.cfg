SPECIFICATION ScreensSpec
CONSTANTS
  PlayedTitles = {t1}
  NoTitle = NoTitle
  MaxPosted = 1
  Subjects = {"browse"}
  Hosts = {h1, h2}
  NoHost = NoHost
  Kinds = {"press"}
  Payloads = {h1, h2}
  Activities = {a1}
  NoActivity = NoActivity
  kMaxPendingCommands = 1
  MaxCommands = 1
  InitialDelay = 1
  MaxDelay = 1
  MaxBacklog = 1
  DeviceCommands = {"Number1", "Number0", "DirectionDown", "Select"}
  MaxGroupSize = 3
  MaxTouches = 3
  MaxHolds = 1
  ViewHeight = 3
  kRowPitch = 2
  kRowGap = 1
  kOverscan = 1
  HeaderHeight = 1
  MaxItems = 7
  MaxFills = 2
  BrowseScreens = {"music"}
  Items = {1, 2}
  kMaxPendingLibrary = 2
  MaxTaps = 5
  MaxDrops = 1
  MaxOthers = 1
  MaxAnswers = 3
  SliderValues = {5, 60}
  WebValues = {0, 250}
  Messages = {m1}
  NoMessage = NoMessage
  kAutoDismiss = 2
  MaxNotifications = 2
  MaxQuickEvents = 3
  MaxSize = 13
  kLibraryPageSize = 3
  MaxPages = 4
  Columns = 4
  kMaxRowSpan = 2
  AskedSpans = {0, 1, 2, 5}
  MaxWidgets = 4
  PackVolts = {646, 680, 840}
  RailVolts = {400, 840}
  CallerSets = {{"timer", "worker"}, {"timer", "ui"}, {"worker", "ui"}}
  MaxChanges = 2
  MaxFaults = 1
  Servers = {"honours", "rejects", "ignores"}
INVARIANT SongsOfOpenAlbum
CHECK_DEADLOCK FALSE
