SPECIFICATION Spec
CONSTANTS
  Runs = {r1, r2}
  Calls = {c1, c2, c3}
  NoRun = none
SYMMETRY Symmetry
INVARIANTS
  Inv
  NoLostRequest
  OneRun
CHECK_DEADLOCK FALSE
