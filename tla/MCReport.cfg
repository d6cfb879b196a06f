SPECIFICATION Spec
CONSTANTS
  Registry <- MCRegistry
  Jobs <- MCJobs
  MaxClock = 1
CHECK_DEADLOCK FALSE
INVARIANTS
  ReportIsValid
  EditsAreRefused
  NothingIsLost
  FingerprintsSurvive
  GateFollowsTheReport
  SarifShowsTheFindings
