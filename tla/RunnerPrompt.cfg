SPECIFICATION PromptedRunnerSpec
CONSTANTS
  Media = {sel}
  Selected = sel
  NoMedium = none
  Volumes = {}
  Chunks = 1
  Platforms = {"linux"}
  Faults = {}
  Acts = {"cancel"}
PROPERTIES
  CancelEnds
CHECK_DEADLOCK FALSE
