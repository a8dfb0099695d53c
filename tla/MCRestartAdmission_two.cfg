CONSTANTS
  o1 = o1
  o2 = o2
  o3 = o3
  s1 = s1
  s2 = s2
  Ops = {o1, o2, o3}
  Scopes = {s1, s2}
  Capacity = 2
  MaxBoot = 2
  MaxPreviews = 2
SPECIFICATION FairSpec
INVARIANTS OneAdmission RepliesAgree RecoveredByAnother
PROPERTIES ReceiptsAreKept RecoveryIsHeard
CHECK_DEADLOCK FALSE
