SPECIFICATION Spec
CONSTANTS
  Media = {sel, other}
  Selected = sel
  NoMedium = none
  Whole = sda
  Parts = {sda1, sda2}
  Maps = {dm0, dm1}
  System = nvme
  Anonymous = anon
  Sector = 2
  Capacity = 4
  Buffer = 3
  MaxEvents = 2
INVARIANTS
  IndInv
  UnmountIsExact
  VerifierIsExact
PROPERTIES
  SystemUntouched
  CallsHitTheCard
CHECK_DEADLOCK FALSE
