SPECIFICATION FairSpec
CONSTANTS
  NExits = 1
  Quantity = 2
  HoldEnabled = TRUE
  Polls = 1
  MaxLives = 2
PROPERTIES
  CallsReturn
  StopIsFinal
