SPECIFICATION ServicesFairSpec
CONSTANTS
  Subjects = {"power", "wifi", "lifecycle", "log", "auth", "weather", "discovery",
              "activities"}
  Timer = timer
  Tickers = {timer}
  Uploads = {u1}
  NoUpload = NoUpload
  Percents = {0}
  BatteryReadings <- MCBatteryReadings
  SleepVetoes = TRUE
  MaxUiQueue = 2
  Images = {v1, v2, dead, torn}
  Complete = {v1, v2, dead}
  Serving = {v1, v2}
  Factory = v1
  Blank = Blank
  MaxUploads = 3
  FormCreds = {home, cafe, junk}
  ValidCreds = {home, cafe}
  GoodCreds = {home}
  NoCreds = NoCreds
  MaxSetupAttempts = 1
  RecoveryAttempts = 2
  MaxQueued = 2
  MaxDisturbances = 2
  MaxPublishes = 3
  MaxLogEntries = 2
  MaxLogged = 3
  MaxLogFaults = 1
  MaxReads = 2
  AuthWorkers = {wa, wb}
  Browser = wa
  Passwords = {right, wrong}
  NoPassword = NoPassword
  NoToken = NoToken
  MaxFailedLogins = 2
  LockoutDuration = 2
  SessionLifetime = 2
  MaxTime = 3
  MaxLogins = 2
  MaxFetches = 2
  HttpWorkers = {ha, hb}
  SettingKeys = {"device_name", "hub_host", "reset_reason"}
  DeviceName = "device_name"
  ReservedKey = "admin_pw_hash"
  CrashKey = "reset_reason"
  BadKey = "../x"
  SettingValues = {"v1", "odd"}
  Unset = "unset"
  ValidFor <- MCValidFor
  Hostnames = {"v1"}
  EditedFiles <- MCEditedFiles
  Junk = Junk
  DefaultName = "homedeck"
  MaxSettingWrites = 1
  PageKinds = {"device_name", "harmony", "kodi"}
  MaxPageEvents = 1
  WsClients <- MCWsClients
  MaxQueuedMessages = 2
  MaxMessageFrames = 2
  MaxWsFrames = 4
  WeatherPlaces = {pa, pb}
  NoPlace = NoPlace
  MaxLocationSaves = 1
  MaxRestarts = 1
  Devices = {"den", "hall"}
  Hosts = {manual}
  None = None
  Records <- MCRecords
  MaxRecords = 2
  MaxTargetSaves = 1
  Activities = {tv, music}
  NoActivity = NoActivity
  MaxActivityTaps = 2
  MaxHubEvents = 1
INVARIANTS WeatherSafe DiscoverySafe
PROPERTIES PowerProgress ConnectivityProgress WaitersAnswered
CHECK_DEADLOCK FALSE
