SPECIFICATION FairSpec
CONSTANTS
  Root = "root"
  Path <- MCPath
  Parent <- MCParent
  Display <- MCDisplay
  Language <- MCLanguage
  Kinds <- MCKinds
  Ignored = {"gen.py"}
  Opaque = {"target"}
  MaxChanges = 1
  Options <- MCOptions
CHECK_DEADLOCK FALSE
INVARIANTS
  NothingUnseen
  CompleteMeansAll
  GateSawTheRequired
  AccountingAgrees
  InventoryNamesPathsOnce
PROPERTIES Finishes
