SPECIFICATION CompileSpec
CONSTANTS
  Node <- MCNode
  x = x
  Local = {x}
  N = 60
  Programs <- Withs
INVARIANTS ReportedStoresAreDead
CHECK_DEADLOCK FALSE
