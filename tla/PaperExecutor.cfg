SPECIFICATION Spec
CONSTANTS
  NExits = 2
  Quantity = 2
  HoldEnabled = TRUE
  Polls = 1
  MaxLives = 2
INVARIANTS
  NeverReposted
  OneLiveOrder
  NeverOversold
  FlatIsFlat
  IntentsAreDurable
  ProtectedIsCovered
  ProtectionEndsOnRecord
PROPERTIES
  RecoverNeverSubmits
  Implements
