SPECIFICATION Spec
CONSTANTS
  Session = {s1, s2}
  Nonce = {n1, n2}
  Artifact = {a1, a2}
  Blank = Blank
  MaxTime = 2
SYMMETRY Symmetry
CHECK_DEADLOCK FALSE
INVARIANTS
  EarnedStates
  OneArtifact
  NonceOpensOneSession
  CleanTracesFinish
PROPERTIES
  ExpiryIsFinal
