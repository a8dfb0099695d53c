CONSTANTS
  r1 = r1
  r2 = r2
  p1 = p1
  p2 = p2
  None = None
  Runs = {r1, r2}
  Phones = {p1}
  Capable = {p1}
  Shapes = {"none", "text"}
  MaxIds = 1
  MaxRev = 1
  MaxAttempts = 2
  MaxFailures = 1
  MaxCrashes = 0
SPECIFICATION Spec
PROPERTY CurrentEvidenceStays
CHECK_DEADLOCK FALSE
