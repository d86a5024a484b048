SPECIFICATION BridgeFairSpec
CONSTANTS
  Hosts = {h1, h2}
  NoHost = NoHost
  Kinds = {"activity"}
  Payloads = {ir}
  Activities = {a1}
  NoActivity = NoActivity
  kMaxPendingCommands = 1
  MaxCommands = 1
  InitialDelay = 1
  MaxDelay = 2
INVARIANTS SocketMatchesPhase SnapshotOfOneHub SaveNotStranded OutageAnnounced
PROPERTIES HarmonyProgress RetriesStayQuiet
