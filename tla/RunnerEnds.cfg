SPECIFICATION FairRunnerSpec
CONSTANTS
  Media = {sel}
  Selected = sel
  NoMedium = none
  Volumes = {}
  Chunks = 1
  Platforms = {"linux", "macos"}
  Faults = {"read", "serve", "wait"}
  Acts = {"cancel"}
PROPERTIES
  RunEnds
CHECK_DEADLOCK FALSE
