SPECIFICATION FairSpec
CONSTANTS
  Media = {sel, other}
  Selected = sel
  NoMedium = none
  Volumes = {vol1, vol2}
  Chunks = 3
INVARIANTS
  IndInv
  OnlySelectedWritten
  OnlyCheckedBytesWritten
  SyncedBeforeRelease
  EjectTried
  VerifiedIsTrue
  CompletedIsDurable
  StopsSoonAfterCancel
PROPERTIES
  KeepsPromise
  Terminates
  NoWriteUnderMount
  PrimaryErrorSurvives
CHECK_DEADLOCK FALSE
