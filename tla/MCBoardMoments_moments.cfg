\* One card, watched or not, with or without a rule for its worker, two failures,
\* and one change of mind or one fault at any point of the chain.
SPECIFICATION FairSpec
CONSTANTS
  a = a
  Cards = {a}
  Ruled = {a}
  Classes = {"failure"}
  MaxPending = 2
  CardCap = 1
  PushBatch = 1
  MaxEvents = 2
  MaxTurns = 1
INVARIANTS StoreInv OwedIsKept
PROPERTIES KeepsContract OwedReachesPhone
CHECK_DEADLOCK FALSE
