---------------------------- MODULE GreetingGate ----------------------------
(***************************************************************************)
(* The gate of runtime/greeting-send-gate.cjs, as session-service.cjs uses *)
(* it over the gateway connection of UpstreamClient: a new session starts  *)
(* with a greeting run, and what the wearer sends meanwhile is held until  *)
(* that run is over, was aborted for the sends, cannot be waited for any   *)
(* longer, or the connection goes.                                         *)
(*                                                                         *)
(* One new session; session keys are minted, so a gate is armed once for   *)
(* its key.  Runs other than the greeting belong to other sessions, and    *)
(* the gateway's events name their session.                                *)
(***************************************************************************)
EXTENDS UpstreamClient

CONSTANTS Greeting,     \* the run of the session's greeting
          MaxSends,     \* messages the wearer sends to the session
          MaxExtensions \* deadlines that fit in maxHoldMs (5 in the code)

ASSUME GateAssumption == /\ Greeting \in Runs
                         /\ MaxSends \in Nat /\ MaxExtensions \in Nat

VARIABLES
  run,     \* the gateway's view of each run
  minted,  \* newSession was called
  gate,    \* the session's gate
  held,    \* its queue
  sent,    \* messages dispatched so far: they are 1, 2, ...
  gone,    \* those whose send() has run, in that order
  overed   \* the gate was flushed because the greeting ended or was aborted

gateVars == <<gate, held, gone, overed>>
vars == <<client, run, minted, gate, held, sent, gone, overed>>

NoGate == [open |-> FALSE, started |-> FALSE, run |-> NoRun, acked |-> FALSE,
           text |-> FALSE, preempted |-> FALSE, awaiting |-> FALSE,
           terminal |-> "none", timer |-> "none", left |-> 0]
Armed == [NoGate EXCEPT !.open = TRUE, !.timer = "armed", !.left = MaxExtensions]

Init == /\ ClientInit
        /\ run = [r \in Runs |-> "none"] /\ minted = FALSE
        /\ gate = NoGate /\ held = <<>> /\ sent = 0 /\ gone = <<>> /\ overed = FALSE
-----------------------------------------------------------------------------
(* The gate. *)

\* flush: every held send runs, in its order, in the step that removes the gate.
Flush(reason) ==
  /\ gate' = NoGate /\ overed' = (reason \in {"greeting_end", "greeting_aborted"})
  /\ gone' = gone \o held /\ held' = <<>>
FlushIfOpen(reason) == IF gate.open THEN Flush(reason) ELSE UNCHANGED gateVars

Holds(g) == gate' = g /\ UNCHANGED <<held, gone, overed>>

\* maybePreempt: an early message may abort a greeting that has shown no text; the
\* request goes out in a job of its own.
MayPreempt(g, queued) ==
  g.open /\ ~g.preempted /\ ~g.text /\ g.acked /\ queued # <<>>
Preempting(g, queued) ==
  IF MayPreempt(g, queued) THEN [g EXCEPT !.preempted = TRUE] ELSE g
PreemptJob(g, queued) ==
  IF MayPreempt(g, queued) THEN <<Result("preempt", "ok")>> ELSE <<>>

\* onActivity, for a terminal activity: held for the receipt of an abort that is on
\* its way.
Terminal(reason) ==
  IF gate.awaiting THEN Holds([gate EXCEPT !.terminal = reason]) ELSE Flush(reason)

EndSeen(reported) ==
  IF gate.open /\ gate.started /\ gate.run \in {NoRun, reported}
  THEN Terminal("greeting_end") ELSE UNCHANGED gateVars
ErrorSeen(r) ==
  IF gate.open /\ gate.run \in {NoRun, r}
  THEN Terminal("greeting_error") ELSE UNCHANGED gateVars
-----------------------------------------------------------------------------
(* The session service. *)

\* newSession asks for the greeting if the connection is shown; a request that is
\* refused flushes the empty gate at once.  Bound: the bootstrap is over.
NewSession ==
  /\ life = "on" /\ ~minted /\ jobs = <<>> /\ boot = NoBoot
  /\ minted' = TRUE
  /\ IF shown /\ Connected
     THEN Ask({"greet"}) /\ Holds(Armed)
     ELSE UNCHANGED <<pending, asked, gateVars>>
  /\ UNCHANGED <<life, sock, hello, retry, jobs, history, queue, active, shown, boot,
                 run, sent>>

\* Mutant: a send that has asked for the abort already does not queue the next.
UserSendPast ==
  /\ life = "on" /\ minted /\ sent < MaxSends /\ jobs = <<>>
  /\ sent' = sent + 1
  /\ IF gate.open /\ ~gate.preempted
     THEN /\ held' = Append(held, sent')
          /\ gate' = Preempting(gate, held')
          /\ jobs' = PreemptJob(gate, held')
          /\ UNCHANGED <<gone, overed>>
     ELSE gone' = Append(gone, sent') /\ UNCHANGED <<gate, held, overed, jobs>>
  /\ UNCHANGED <<life, sock, hello, retry, pending, asked, history, queue, active,
                 shown, boot, run, minted>>

\* dispatchUserSend
UserSend ==
  /\ life = "on" /\ minted /\ sent < MaxSends /\ jobs = <<>>
  /\ sent' = sent + 1
  /\ IF gate.open
     THEN /\ held' = Append(held, sent')
          /\ gate' = Preempting(gate, held')
          /\ jobs' = PreemptJob(gate, held')
          /\ UNCHANGED <<gone, overed>>
     ELSE gone' = Append(gone, sent') /\ UNCHANGED <<gate, held, overed, jobs>>
  /\ UNCHANGED <<life, sock, hello, retry, pending, asked, history, queue, active,
                 shown, boot, run, minted>>

\* The session is deleted, cleared or left for another new one.
Evict ==
  /\ gate.open /\ jobs = <<>> /\ Flush("session_reset")
  /\ UNCHANGED <<client, run, minted, sent>>

Continues(kind) ==
  /\ IsJob(kind)
  /\ UNCHANGED <<life, sock, hello, retry, history, queue, shown, boot, run, minted,
                 sent>>
Continue(kind) == Continues(kind) /\ UNCHANGED active

GreetAccepted ==
  /\ Continues("greet") /\ Head(jobs).value = "accepted"
  /\ RunAccepted(Greeting)
  /\ LET g == [gate EXCEPT !.started = TRUE, !.run = Greeting, !.acked = TRUE] IN
     IF gate.open
     THEN Holds(Preempting(g, held)) /\ jobs' = Tail(jobs) \o PreemptJob(g, held)
     ELSE UNCHANGED gateVars /\ jobs' = Tail(jobs)
  /\ UNCHANGED <<pending, asked>>

GreetRefused ==
  /\ Continue("greet") /\ Head(jobs).value # "accepted"
  /\ FlushIfOpen(IF Head(jobs).value = "rejected" THEN "greeting_send_rejected"
                 ELSE "session_reset")
  /\ jobs' = Tail(jobs) /\ UNCHANGED <<pending, asked>>

\* preemptGreetingForEarlyAsk: eligible is asked again before the abort is sent.  An
\* abort that cannot be sent is noted and taken back within the step.
Preempt ==
  /\ Continue("preempt")
  /\ jobs' = Tail(jobs)
  /\ IF gate.open /\ ~gate.text /\ Connected
     THEN Holds([gate EXCEPT !.awaiting = TRUE]) /\ Ask({"abort"})
     ELSE UNCHANGED <<gateVars, pending, asked>>

\* Mutant: any answer to the abort counts as an abort.
AbortAnsweredAlways ==
  /\ Continue("abort") /\ FlushIfOpen("greeting_aborted")
  /\ jobs' = Tail(jobs) /\ UNCHANGED <<pending, asked>>

AbortAnswered ==
  /\ Continue("abort")
  /\ jobs' = Tail(jobs) /\ UNCHANGED <<pending, asked>>
  /\ \/ Head(jobs).value = "aborted" /\ FlushIfOpen("greeting_aborted")
     \/ /\ Head(jobs).value # "aborted"
        /\ IF ~gate.open \/ ~gate.awaiting THEN UNCHANGED gateVars
           ELSE IF gate.terminal # "none" THEN Flush(gate.terminal)
           ELSE Holds([gate EXCEPT !.awaiting = FALSE])

\* onDeadline: the gate gives up, or asks the gateway whether the greeting lives.
Deadline ==
  /\ gate.open /\ gate.timer = "armed" /\ jobs = <<>>
  /\ IF gate.run = NoRun \/ held = <<>> \/ gate.left = 0 \/ ~Connected
     THEN Flush("deadline") /\ UNCHANGED <<pending, asked>>
     ELSE Holds([gate EXCEPT !.timer = "asking"]) /\ Ask({"live"})
  /\ UNCHANGED <<life, sock, hello, retry, jobs, history, queue, active, shown, boot,
                 run, minted, sent>>

\* Mutants: a live greeting is waited for without a deadline, or without end.
LiveAnsweredUntimed ==
  /\ Continue("live")
  /\ jobs' = Tail(jobs) /\ UNCHANGED <<pending, asked>>
  /\ IF Head(jobs).value = "live" THEN UNCHANGED gateVars ELSE FlushIfOpen("deadline")

LiveAnsweredForever ==
  /\ Continue("live")
  /\ jobs' = Tail(jobs) /\ UNCHANGED <<pending, asked>>
  /\ IF Head(jobs).value = "live" /\ gate.open
     THEN Holds([gate EXCEPT !.timer = "armed"]) ELSE FlushIfOpen("deadline")

LiveAnswered ==
  /\ Continue("live")
  /\ jobs' = Tail(jobs) /\ UNCHANGED <<pending, asked>>
  /\ IF Head(jobs).value = "live" /\ gate.open
     THEN Holds([gate EXCEPT !.timer = "armed", !.left = @ - 1])
     ELSE FlushIfOpen("deadline")
-----------------------------------------------------------------------------
(* The gateway. *)

InFlight == {"accepted", "running"}
Ended == {"aborted", "reported", "over"}

RunBecomes(r, state) == run' = [run EXCEPT ![r] = state]
Untouched == UNCHANGED <<run, minted, gateVars, sent>>

GatewayAnswers ==
  \/ /\ \E kind \in {"connect", "status", "identity", "history"}, v \in {"ok", "err"} :
          Answer(kind, v)
     /\ Untouched
  \/ /\ \E v \in {"rejected", "err"} : Answer("greet", v)
     /\ Untouched
  \/ /\ Answer("greet", "accepted") /\ run[Greeting] = "none"
     /\ RunBecomes(Greeting, "accepted") /\ UNCHANGED <<minted, gateVars, sent>>
  \/ /\ Answer("live", IF run[Greeting] \in InFlight THEN "live" ELSE "over")
     /\ Untouched
  \/ /\ \/ Answer("abort", "not")
        \/ run[Greeting] \in {"aborted", "reported"} /\ Answer("abort", "aborted")
     /\ Untouched

\* The gateway carries out the abort; its answer and the run's last event follow in
\* either order.
GatewayAborts ==
  /\ "abort" \in asked /\ run[Greeting] \in InFlight
  /\ RunBecomes(Greeting, "aborted")
  /\ UNCHANGED <<client, minted, gateVars, sent>>

\* Events that find no listener are lost.  Bound: a run of another session begins
\* while the gate is open, when it can be taken for the greeting.
GatewayStarts(r) ==
  /\ IF r = Greeting THEN run[r] = "accepted" ELSE run[r] = "none" /\ gate.open
  /\ RunBecomes(r, "running")
  /\ IF Listening THEN RunStarts(r) ELSE UNCHANGED client
  /\ IF Listening /\ r = Greeting /\ gate.open
     THEN Holds([gate EXCEPT !.started = TRUE, !.run = IF @ = NoRun THEN r ELSE @])
     ELSE UNCHANGED gateVars
  /\ UNCHANGED <<minted, sent>>

GatewayStreams ==
  /\ run[Greeting] = "running" /\ Listening /\ gate.open /\ ~gate.text
  /\ Holds([gate EXCEPT !.text = TRUE])
  /\ UNCHANGED <<client, run, minted, sent>>

Ends(r) == \/ run[r] \in InFlight /\ RunBecomes(r, "over")
           \/ run[r] = "aborted" /\ RunBecomes(r, "reported")

\* A captured end is reported when the queue is drained.
GatewayEnds(r) ==
  /\ Ends(r)
  /\ IF Listening THEN RunEnds(r) ELSE UNCHANGED client
  /\ IF Listening /\ history /\ r = Greeting
     THEN EndSeen(Reported([run |-> r, active |-> active])) ELSE UNCHANGED gateVars
  /\ UNCHANGED <<minted, sent>>

GatewayFails(r) ==
  /\ Ends(r)
  /\ IF Listening THEN RunFails ELSE UNCHANGED client
  /\ IF Listening /\ r = Greeting THEN ErrorSeen(r) ELSE UNCHANGED gateVars
  /\ UNCHANGED <<minted, sent>>
-----------------------------------------------------------------------------
(* The composition. *)

\* A status event other than "connected" releases every gate.
Disconnects(action) == action /\ FlushIfOpen("upstream_disconnected")
                              /\ UNCHANGED <<run, minted, sent>>
DrainsEnds ==
  /\ HistoryResolved
  /\ LET ends == {e \in Range(queue) : e.run = Greeting} IN
     IF ends = {} THEN UNCHANGED gateVars ELSE \E e \in ends : EndSeen(Reported(e))
  /\ UNCHANGED <<run, minted, sent>>

Timeouts(kind) == RpcTimeout(kind, {"greet", "abort"}) /\ Untouched
Kinds == {"connect", "status", "identity", "history", "greet", "abort", "live"}

Job == \/ (HelloArrives \/ ConnectFails \/ BootAnswered) /\ Untouched
       \/ DrainsEnds
       \/ GreetAccepted \/ GreetRefused \/ Preempt \/ AbortAnswered \/ LiveAnswered

Socket == (SocketOpens \/ SendConnect \/ EstablishTimeout \/ TickTimeout) /\ Untouched
Next ==
  \/ Start /\ Untouched
  \/ Socket
  \/ Disconnects(Reconnect) \/ Disconnects(SocketCloses)
  \/ Disconnects(Shutdown) \/ Disconnects(Stop)
  \/ BootRetry /\ Untouched
  \/ \E kind \in Kinds : Timeouts(kind)
  \/ Job
  \/ NewSession \/ UserSend \/ Evict \/ Deadline
  \/ GatewayAnswers \/ GatewayAborts \/ GatewayStreams
  \/ \E r \in Runs : GatewayStarts(r) \/ GatewayEnds(r) \/ GatewayFails(r)

Spec == Init /\ [][Next]_vars

\* Timers fire, promises continue and close() ends; the gateway owes nothing.
Fairness ==
  /\ WF_vars(Job)
  /\ WF_vars(EstablishTimeout /\ Untouched) /\ WF_vars(SendConnect /\ Untouched)
  /\ WF_vars(sock = "closing" /\ Disconnects(SocketCloses))
  /\ WF_vars(Disconnects(Reconnect))
  /\ \A kind \in Kinds : WF_vars(Timeouts(kind))
  /\ WF_vars(Deadline)

FairSpec == Spec /\ Fairness
-----------------------------------------------------------------------------
(* Properties. *)

RequestOut(kind) == kind \in pending \/ \E j \in Range(jobs) : j.kind = kind

\* The gate and the requests it waits for keep to each other: a gate that waits for
\* a receipt or for the liveness of its run has that request in flight or settled,
\* so that no gate is left without a timer; messages are held by an open gate only, and
\* a started client that has no socket has a reconnection armed.
GateInv ==
  /\ life \in {"new", "on", "stopped"} /\ sock \in {"none", "opening", "open", "closing"}
  /\ hello \in {"unsent", "sent", "done"} /\ pending \cup asked \subseteq Kinds
  /\ active \in Runs \cup {NoRun} /\ gate.run \in {NoRun, Greeting}
  /\ gate.awaiting => RequestOut("abort")
  /\ gate.open => gate.timer = "armed" \/ (gate.timer = "asking" /\ RequestOut("live"))
  /\ held # <<>> => gate.open
  /\ life = "on" /\ sock = "none" => retry

\* What the wearer sends to the session goes to the gateway once and in the order it
\* was sent, whatever opens the gate while more is being sent.
SendsInOrder == gone \o held = [i \in 1..sent |-> i]

\* A gate that says the greeting ended or was aborted is right about the gateway:
\* the held sends do not run into the greeting.
ReleasedWhenOver == overed => run[Greeting] \in Ended

\* A held message goes, although the gateway may never answer or never end the run.
HeldSendsGo == held # <<>> ~> held = <<>>

\* A connection shown after it was lost (the bootstrap's other half settled late) is
\* taken back.
ShownIsTakenBack == shown ~> (Connected \/ ~shown)

\* A run end captured before the history is committed or goes with its connection.
CapturedEndsGo == queue # <<>> ~> (queue = <<>> \/ life = "stopped")
=============================================================================
