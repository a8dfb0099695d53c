CONSTANTS
  r1 = r1
  r2 = r2
  p1 = p1
  p2 = p2
  None = None
  Runs = {r1}
  Phones = {p1, p2}
  Capable = {p1}
  Shapes = {"none", "blank", "local", "text"}
  MaxIds = 1
  MaxRev = 2
  MaxAttempts = 2
  MaxFailures = 1
  MaxCrashes = 1
SPECIFICATION FairSpec
INVARIANTS SettledOnce EvidenceIsCurrent
PROPERTIES ObservationSettles GatewayLearns
CHECK_DEADLOCK FALSE
