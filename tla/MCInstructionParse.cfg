CONSTANTS
  Dockerfiles <- MCDockerfiles
  Words <- MCWords
  Lower <- MCLower
  ValidStageName <- MCValidStageName
  NoValue = NoValue
SPECIFICATION Spec
INVARIANTS
  TypeOK
  ParseMatchesReference
  AptYieldsPackage
  RunNetworkMode
