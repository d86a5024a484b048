SPECIFICATION FairSpec
CONSTANTS
  Hosts = {h1}
  NoHost = NoHost
  Kinds = {"activity", "press", "release"}
  Payloads = {ir}
  Activities = {a1}
  NoActivity = NoActivity
  kMaxPendingCommands = 2
  MaxCommands = 3
  InitialDelay = 1
  MaxDelay = 1
INVARIANT NoSilentLoss
PROPERTIES ImplementsChannel LossAnnounced
