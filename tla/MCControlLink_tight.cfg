\* One slot everywhere: every overload path, and streams that are full after one
\* frame in both directions, under the fairness of the code.
SPECIFICATION FairSpec
CONSTANTS
  HostCalls = {p1, p2}
  ChildCalls = {n1}
  NoCall = NoCall
  AdmissionLimit = 1
  HighWater = 1
  ByteFloor = 1
INVARIANTS LinkInv AnswerIsNotLost
PROPERTIES ClosedIsQuiet KeepsContract EveryCallSettles
CHECK_DEADLOCK FALSE
