CONSTANTS
  StageCmds <- MCStageCmds
  AptOutputs <- MCAptOutputs
  URIs = {"u1", "u2"}
  Files = {"f1", "f2"}
  Digests = {"d1"}
  BaseLayers = 1
  MaxLines = 3
SPECIFICATION Spec
INVARIANTS
  TypeOK
  HistoryMatchesLayers
  StepNumbering
PROPERTIES
  ImageRefined
  AptRoundTrip
