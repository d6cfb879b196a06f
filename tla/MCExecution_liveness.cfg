SPECIFICATION FairRunSpec
CONSTANTS
  N = 4
  x = x
  l1 = l1
  l2 = l2
  Local = {x}
  Loc = {l1, l2}
  Problem = "Liveness"
  MCParams = {{}}
  Cfgs <- MCCfgs
INVARIANTS SettledOffQueue ExactOnPaths ReplayAgrees FactsCoverTheRun DeadStoresAreNeverRead
PROPERTIES OnlyGrows Terminates ImplementsLeastSolution
CHECK_DEADLOCK FALSE
