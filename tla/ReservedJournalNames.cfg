SPECIFICATION JournalSpec
CONSTANTS
  Processes = {p1, p2}
  Capacity = 3
  MaxRecords = 4
  NamesSurvive = FALSE
  Damage = FALSE
INVARIANTS
  AcknowledgedKept
