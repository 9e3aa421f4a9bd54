SPECIFICATION Spec
CONSTANTS
  Downloads = {d1, d2, d3}
  Nobody = nobody
  Foreign = foreign
  Size = 2
  NoSize = nosize
INVARIANTS
  DownloadInv
  OnlyRequestedBytes
  NothingLeftBehind
PROPERTIES
  PublishReplacesNothing
CHECK_DEADLOCK FALSE
