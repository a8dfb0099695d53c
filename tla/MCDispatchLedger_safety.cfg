CONSTANTS
  r1 = r1
  r2 = r2
  r3 = r3
  None = None
  Runs = {r1, r2, r3}
  Setups <- SafetySetups
  MaxMessages = 2
SPECIFICATION Spec
SYMMETRY Symmetry
INVARIANTS LedgerInv EndsOnce NothingStreamedIsLost StampedByItsRun
CHECK_DEADLOCK FALSE
