SPECIFICATION MCSpec
CONSTANTS
  Id = {"q", "r"}
  Table = {"posts", "users"}
  Allow = {"posts"}
  MaxStatements = 2
  Base = 2
  Limit = 2
  MaxReceived = 9
  Instance = {"one", "two", ""}
  Watched = "one"
  Call = {"acquire", "eat", "look", "eet"}
  Protocols <- MCProtocols
  MaxLine = 2
  Budget = 4
CHECK_DEADLOCK FALSE
INVARIANTS
  DecisionIsOfTheBound
  SameFramesHoweverCut
  OnlyWholeStreamsFinish
  FailsOnlyOnOversize
  VerdictFitsTrace
  ViolationsPointAtTheirCause
PROPERTIES
  InstanceIsIndependent
