SPECIFICATION Spec
CHECK_DEADLOCK FALSE
CONSTANTS
  Batches = {b1, b2}
  Beat = Beat
  Torn = Torn
  None = None
  MaxLines = 4
  Kills = TRUE
INVARIANTS TypeOK
PROPERTIES CleanRunDrains DeliverySpec
