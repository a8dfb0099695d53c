CONSTANTS
  p1 = p1
  p2 = p2
  r1 = r1
  r2 = r2
  Phones = {p1, p2}
  Requests <- TwoRequests
  Owner <- OwnerOfTwo
  MaxEntries = 1
  MaxInFlight = 2
  MaxDrops = 0
  MaxCrashes = 1
SPECIFICATION Spec
INVARIANTS RunsOnce EntryIsOutstanding RestartVerdictIsTrue AcceptedIsKept
CHECK_DEADLOCK FALSE
