---------------------------- MODULE CallContract ----------------------------
(***************************************************************************)
(* What the control link promises the code that calls over it (PROTOCOL.md,*)
(* "Write flow control and overload"): a call is started at most once, it  *)
(* is settled once, a result comes from an execution, and `not_sent' is    *)
(* said only of a call that did not run and never will.                    *)
(***************************************************************************)
EXTENDS Naturals

CONSTANT Calls

VARIABLES outcome, runs

Init ==
  /\ outcome = [c \in Calls |-> "idle"]
  /\ runs = [c \in Calls |-> 0]

Submit(c) ==
  /\ outcome[c] = "idle"
  /\ outcome' = [outcome EXCEPT ![c] = "waiting"]
  /\ UNCHANGED runs

\* The call may start after its caller gave up, never after `not_sent'.
Start(c) ==
  /\ outcome[c] \notin {"idle", "not_sent"}
  /\ runs[c] = 0
  /\ runs' = [runs EXCEPT ![c] = 1]
  /\ UNCHANGED outcome

\* Closing the link settles many calls in one step.
Settles(c) ==
  \/ outcome'[c] = outcome[c]
  \/ /\ outcome[c] \in {"idle", "waiting"}
     /\ outcome'[c] \in {"ok", "error", "truncated", "uncertain", "not_sent"}
     /\ outcome'[c] \in {"ok", "error"} => runs[c] = 1
     /\ outcome'[c] = "not_sent" => runs[c] = 0

Settle ==
  /\ outcome' \in [Calls -> {"idle", "waiting", "ok", "error", "truncated",
                             "uncertain", "not_sent"}]
  /\ \A c \in Calls : Settles(c)
  /\ UNCHANGED runs

Next == Settle \/ \E c \in Calls : Submit(c) \/ Start(c)

Spec == Init /\ [][Next]_<<outcome, runs>>
=============================================================================
