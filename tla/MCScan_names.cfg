SPECIFICATION Spec
CONSTANTS
  Root = "root"
  Path <- LossyPath
  Parent <- LossyParent
  Display <- LossyDisplay
  Language <- LossyLanguage
  Kinds <- LossyKinds
  Ignored = {}
  Opaque = {}
  MaxChanges = 0
  Options <- MCOptions
CHECK_DEADLOCK FALSE
INVARIANTS
  InventoryNamesPathsOnce
