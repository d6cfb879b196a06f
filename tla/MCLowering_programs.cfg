SPECIFICATION CompileSpec
CONSTANTS
  Node <- MCNode
  x = x
  Local = {x}
  N = 60
  Programs <- MCPrograms
INVARIANTS ReportedStoresAreDead ReadsThatFailAreReported RunsReachableCode
CHECK_DEADLOCK FALSE
