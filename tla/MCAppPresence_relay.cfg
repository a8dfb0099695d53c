CONSTANTS
  s1 = s1
  s2 = s2
  Sessions = {s1, s2}
  NoKey = NoKey
  Setups <- AllSetups
SPECIFICATION Spec
INVARIANT RelayInv
PROPERTIES LeftIsDrained ListensAgain ReceiptComesTrue
CHECK_DEADLOCK FALSE
