SPECIFICATION LogSpec
CONSTANTS
  MaxLogEntries = 2
  MaxLogged = 4
  MaxLogFaults = 0
  MaxReads = 2
INVARIANT ViewComplete
CHECK_DEADLOCK FALSE
