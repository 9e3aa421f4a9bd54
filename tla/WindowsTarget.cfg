SPECIFICATION Spec
CONSTANTS
  Disks = {sel, other}
  Selected = sel
  NoDisk = none
  Volumes = {vol1, vol2}
  NewVolumes = {boot, root}
  Sector = 2
  Capacity = 4
  Buffer = 3
  MaxEvents = 5
INVARIANTS
  IndInv
  NeverSelfBlocked
  EjectProvesTheCard
  BackToUser
CHECK_DEADLOCK FALSE
