\* Two messages to a new session while its greeting runs, a run of another session,
\* one more deadline than the first, any number of lost connections.
SPECIFICATION FairSpec
CONSTANTS
  Runs = {g, f}
  NoRun = NoRun
  Greeting = g
  MaxAttempts = 1
  MaxSends = 2
  MaxExtensions = 1
INVARIANTS GateInv SendsInOrder ReleasedWhenOver
PROPERTIES HeldSendsGo ShownIsTakenBack CapturedEndsGo
CHECK_DEADLOCK FALSE
