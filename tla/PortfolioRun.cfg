SPECIFICATION Spec
CONSTANTS
  Symbols = {s1, s2}
  Cash = 2
  Target = 2
  Retries = 1
  MaxCycles = 3
INVARIANTS
  ExposedIsReserved
  ReservationsFit
  FinalIsHonest
PROPERTIES
  NoEntryAfterFailure
