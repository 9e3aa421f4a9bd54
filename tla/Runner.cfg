SPECIFICATION RunnerSpec
CONSTANTS
  Media = {sel}
  Selected = sel
  NoMedium = none
  Volumes = {}
  Chunks = 2
  Platforms = {"linux", "macos", "windows"}
  Faults = {"identity", "read", "touch", "kill", "serve", "wait"}
  Acts = {"cancel", "card"}
INVARIANTS
  RunnerInv
  SuccessIsTrue
  SuccessIsTold
  WordingIsTrue
CHECK_DEADLOCK FALSE
