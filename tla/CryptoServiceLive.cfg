SPECIFICATION FairSpec
CONSTANTS
  NSymbols = 1
  SeedQty = 2
  SeedTried = {1}
  Lot = 2
  BuyLots = 1
  ForeignUnits = {}
  Faults = FALSE
  MaxOrders = 3
  MaxDay = 2
  MaxLives = 1
PROPERTIES
  PendingResolves
