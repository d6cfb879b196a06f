SPECIFICATION CompileSpec
CONSTANTS
  Node <- MCNode
  x = x
  Local = {x}
  N = 60
  Programs <- MissedReads
INVARIANTS FailingReadsAreReported
CHECK_DEADLOCK FALSE
