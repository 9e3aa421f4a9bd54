SPECIFICATION RunnerSpec
CONSTANTS
  Media = {sel}
  Selected = sel
  NoMedium = none
  Volumes = {}
  Chunks = 1
  Platforms = {"linux"}
  Faults = {}
  Acts = {"cancel"}
INVARIANTS
  CleanupAlwaysTried
CHECK_DEADLOCK FALSE
