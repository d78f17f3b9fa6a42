SPECIFICATION Spec
CONSTANTS
  NSymbols = 1
  SeedQty = 0
  SeedTried = {}
  Lot = 2
  BuyLots = 1
  ForeignUnits = {1, 2}
  Faults = FALSE
  MaxOrders = 3
  MaxDay = 2
  MaxLives = 1
INVARIANTS
  OwnershipWithinFees
