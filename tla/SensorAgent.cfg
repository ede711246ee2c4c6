SPECIFICATION FairSpec
CONSTANTS
  MaxCaptures = 3
  Kills = TRUE
INVARIANTS TypeOK NothingLost DuplicatesAreUnsure QueueInOrder
PROPERTIES QueueDrains DeliverySpec
