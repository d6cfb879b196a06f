SPECIFICATION RunSpec
CONSTANTS
  N = 4
  x = x
  l1 = l1
  l2 = l2
  Local = {x}
  Loc = {l1, l2}
  Problem = "MayUnbound"
  MCParams = {{}, {x}}
  Cfgs <- MCCfgs
INVARIANTS UnboundReadsAreReported ExactOnPaths
CHECK_DEADLOCK FALSE
