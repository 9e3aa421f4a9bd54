SPECIFICATION FairRunnerSpec
CONSTANTS
  Media = {sel}
  Selected = sel
  NoMedium = none
  Volumes = {}
  Chunks = 1
  Platforms = {"macos"}
  Faults = {"read"}
  Acts = {"cancel"}
PROPERTIES
  MonitorFailureEnds
CHECK_DEADLOCK FALSE
