SPECIFICATION ServicesSpec
CONSTANTS
  Subjects = {"power", "boot", "wifi", "lifecycle", "log", "auth", "settings",
              "pages", "websocket", "activities"}
  Timer = timer
  Tickers = {timer, main}
  Uploads = {u1, u2}
  NoUpload = NoUpload
  Percents = {0}
  BatteryReadings <- MCBatteryReadings
  SleepVetoes = FALSE
  MaxUiQueue = 2
  Images = {v1, v2, dead, torn}
  Complete = {v1, v2, dead}
  Serving = {v1, v2}
  Factory = v1
  Blank = Blank
  MaxUploads = 3
  FormCreds = {home, cafe, junk}
  ValidCreds = {home, cafe}
  GoodCreds = {home}
  NoCreds = NoCreds
  MaxSetupAttempts = 1
  RecoveryAttempts = 2
  MaxQueued = 1
  MaxDisturbances = 3
  MaxPublishes = 4
  MaxLogEntries = 3
  MaxLogged = 5
  MaxLogFaults = 2
  MaxReads = 1
  AuthWorkers = {wa, wb}
  Browser = wa
  Passwords = {right, wrong}
  NoPassword = NoPassword
  NoToken = NoToken
  MaxFailedLogins = 2
  LockoutDuration = 2
  SessionLifetime = 2
  MaxTime = 3
  MaxLogins = 3
  MaxFetches = 1
  HttpWorkers = {ha, hb}
  SettingKeys = {"device_name", "hub_host", "reset_reason"}
  DeviceName = "device_name"
  ReservedKey = "admin_pw_hash"
  CrashKey = "reset_reason"
  BadKey = "../x"
  SettingValues = {"v1", "odd"}
  Unset = "unset"
  ValidFor <- MCValidFor
  Hostnames = {"v1"}
  EditedFiles <- MCEditedFiles
  Junk = Junk
  DefaultName = "homedeck"
  MaxSettingWrites = 2
  PageKinds = {"device_name", "harmony", "kodi"}
  MaxPageEvents = 3
  WsClients <- MCWsClients
  MaxQueuedMessages = 2
  MaxMessageFrames = 2
  MaxWsFrames = 4
  WeatherPlaces = {pa, pb}
  NoPlace = NoPlace
  MaxLocationSaves = 1
  MaxRestarts = 1
  Devices = {"den", "hall"}
  Hosts = {manual}
  None = None
  Records <- MCRecords
  MaxRecords = 2
  MaxTargetSaves = 1
  Activities = {tv, music}
  NoActivity = NoActivity
  MaxActivityTaps = 2
  MaxHubEvents = 2
INVARIANTS
  PowerSafe BootSafe WifiSafe LifeSafe LogSafe AuthSafe SettingsSafe PagesSafe
  ActivitiesSafe
PROPERTIES PowerSteps GuessesThrottled MessagesIntact
CHECK_DEADLOCK FALSE
