CONSTANTS
  p1 = p1
  p2 = p2
  r1 = r1
  r2 = r2
  Phones = {p1}
  Requests <- OneRequest
  Owner <- OwnerOfOne
  MaxEntries = 2
  MaxInFlight = 2
  MaxDrops = 3
  MaxCrashes = 2
SPECIFICATION FairSpec
PROPERTIES NoneIsForgotten EverySendIsAnswered
CHECK_DEADLOCK FALSE
