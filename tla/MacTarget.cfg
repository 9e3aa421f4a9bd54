SPECIFICATION FairSpec
CONSTANTS
  Media = {sel, card, image}
  Selected = sel
  NoMedium = none
  Cards = {sel, card}
  Attempts = 4
  Gap = 3
INVARIANTS
  IndInv
  MissingMeansGone
PROPERTIES
  CallsHitTheCard
  JobEnds
CHECK_DEADLOCK FALSE
