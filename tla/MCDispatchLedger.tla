-------------------------- MODULE MCDispatchLedger --------------------------
EXTENDS DispatchLedger, TLC

CONSTANTS r1, r2, r3

Symmetry == Permutations(Runs)

Setup(kinds, steer, refusals, slow, messages, commands) ==
  [kinds |-> kinds, steer |-> steer, refusals |-> refusals, slow |-> slow,
   messages |-> messages, commands |-> commands]

\* Hermes takes messages and slash commands in their order.
Order == Setup({"text", "slash"}, FALSE, FALSE, FALSE, 2, 3)

\* Bursts that merge, messages steered into a running turn, dispatches that fail after
\* others have begun.
Burst == Setup({"photo", "slash"}, TRUE, FALSE, TRUE, 2, 3)

\* A cancelling command among turns and their session ends.
Stops == Setup({"photo", "stop"}, FALSE, FALSE, FALSE, 1, 1)

\* The provider refuses calls for good.
Refused == Setup({"photo"}, FALSE, TRUE, FALSE, 1, 0)

SafetySetups == {Order, Burst, Stops, Refused}
LiveSetups == {Setup({"photo"}, TRUE, FALSE, FALSE, 1, 0)}
GraceSetups == {Setup({"text", "stop"}, FALSE, FALSE, FALSE, 1, 1)}
=============================================================================
