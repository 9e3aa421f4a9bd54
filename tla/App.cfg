SPECIFICATION FairSpec
CONSTANTS
  pi4 = pi4
  pi5 = pi5
  Boards = {pi4, pi5}
  NoSchema = v1
  Drives = {card, stick}
  TooSmall = {stick}
  Answers <- MCAnswers
  None = none
  MaxRequests = 2
INVARIANTS
  AppInv
  NeverLeavesWriter
PROPERTIES
  QuitEnds
CHECK_DEADLOCK FALSE
