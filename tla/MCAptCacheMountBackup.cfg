CONSTANTS
  Builds <- MCBuilds
  IndexFiles = {"Release", "Packages"}
  MaxGen = 3
  NoBuild = NoBuild
SPECIFICATION Spec
INVARIANT
  BackupConsistent
