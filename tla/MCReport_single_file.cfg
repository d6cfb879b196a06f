SPECIFICATION Spec
CONSTANTS
  Registry <- MCRegistry
  Jobs <- SingleFile
  MaxClock = 1
CHECK_DEADLOCK FALSE
INVARIANTS AllowancesReachTheRecordedPath
