SPECIFICATION Spec
CONSTANTS
  NExits = 2
  Quantity = 2
  HoldEnabled = TRUE
  Polls = 1
  MaxLives = 2
PROPERTIES
  ExitsIgnoreStorage
