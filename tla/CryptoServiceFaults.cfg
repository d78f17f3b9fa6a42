SPECIFICATION Spec
CONSTANTS
  NSymbols = 2
  SeedQty = 2
  SeedTried = {1}
  Lot = 2
  BuyLots = 1
  ForeignUnits = {}
  Faults = TRUE
  MaxOrders = 3
  MaxDay = 2
  MaxLives = 2
INVARIANTS
  NeverReposted
  EntryOncePerDay
  OwnershipExact
  OrdersAreBacked
PROPERTIES
  HaltIsDurable
