SPECIFICATION Spec
CONSTANTS
  x = x
  y = y
  z = z
  Name = {x, y, z}
  Line = {1, 2}
  Bit = {"html", "sql"}
  MaxTransfers = 21
  MaxNames = 2
  MaxBlocks = 11
  Files <- MCFiles
INVARIANTS ToldItsSuccessors VerdictsFitThePaths
PROPERTIES SolverIsGivenGraphs
CHECK_DEADLOCK FALSE
