--------------------------- MODULE UpstreamClient ---------------------------
(***************************************************************************)
(* The relay's connection to an OpenClaw gateway: the client of            *)
(* gateway/openclaw-client.cjs (socket, handshake, requests in flight,     *)
(* reconnection, run ends held back until the history is in) and what      *)
(* runtime/upstream-runtime.cjs shows the phone of it (openclawConnected,  *)
(* set by status events and by the bootstrap requests).                    *)
(*                                                                         *)
(* A promise is settled by one event and its continuation runs later, as a *)
(* job: ws emits several messages of one chunk before the jobs run, so a   *)
(* frame may be read between a response and its continuation; a timer, the *)
(* phone or the close of the socket may not.  The gateway and the wire are *)
(* external: a frame is read in the step in which the gateway sends it.    *)
(***************************************************************************)
EXTENDS Naturals, Sequences, FiniteSets, SequencesExt

CONSTANTS Runs,         \* agent runs the gateway reports
          NoRun,
          MaxAttempts   \* retries of the bootstrap (4 in the code)

ASSUME AttemptsAssumption == MaxAttempts \in Nat \ {0} /\ NoRun \notin Runs

VARIABLES
  life,      \* "new", "on" or "stopped"
  sock,      \* _ws: "none", "opening", "open", "closing"
  hello,     \* "unsent", "sent" (_connectSent) or "done" (_handshakeGeneration)
  retry,     \* _reconnectTimer is armed
  pending,   \* _pending: the requests in flight, by what they ask
  asked,     \* the requests the gateway has not answered
  jobs,      \* settled promises whose continuations have not run
  history,   \* _historyResolved
  queue,     \* _eventQueue: run ends captured before it
  active,    \* _activeRunId
  shown,     \* openclawConnected
  boot       \* refreshUpstreamBootstrap: its two results, its attempt, its timer

client == <<life, sock, hello, retry, pending, asked, jobs, history, queue,
            active, shown, boot>>

Result(kind, value) == [kind |-> kind, value |-> value]
NoBoot == [status |-> "none", identity |-> "none", attempt |-> 0, timer |-> FALSE]

ClientInit ==
  /\ life = "new" /\ sock = "none" /\ hello = "unsent" /\ retry = FALSE
  /\ pending = {} /\ asked = {} /\ jobs = <<>>
  /\ history = FALSE /\ queue = <<>> /\ active = NoRun
  /\ shown = FALSE /\ boot = NoBoot
-----------------------------------------------------------------------------
(* Requests and the bootstrap. *)

Connected == sock = "open" /\ hello = "done"
Ask(kinds) == pending' = pending \cup kinds /\ asked' = asked \cup kinds

\* A gateway event or response reaches the client: also while close() waits for
\* the peer, and between the hello and its continuation.
Readable == sock \in {"open", "closing"}
Listening == Readable /\ (hello = "done" \/ Result("connect", "ok") \in Range(jobs))

\* The bootstrap after both requests settled: one answer is enough to say connected.
BootSays(b) == "ok" \in {b.status, b.identity}
BootSettled(b) == b.status # "none" /\ "asked" \notin {b.status, b.identity}
BootOver(b) ==
  IF BootSays(b) THEN NoBoot
  ELSE [NoBoot EXCEPT !.timer = b.attempt < MaxAttempts, !.attempt = b.attempt]

\* A new bootstrap: refused at once (and retried) without a connection.
BootStarts(attempt, connected) ==
  IF connected
  THEN [status |-> "asked", identity |-> "asked", attempt |-> attempt, timer |-> FALSE]
  ELSE BootOver([status |-> "err", identity |-> "err", attempt |-> attempt, timer |-> FALSE])

\* Mutant: the status events of a drop are not applied.
DropsUnseen ==
  /\ pending' = {} /\ asked' = {} /\ jobs' = <<>> /\ boot' = NoBoot
  /\ UNCHANGED shown

\* A connection is dropped: _flushPendingErrors rejects what is pending, the status
\* event hides the connection, then the bootstrap's continuation may show it again.
BootFailed == [boot EXCEPT !.status = IF @ = "asked" THEN "err" ELSE @,
                           !.identity = IF @ = "asked" THEN "err" ELSE @]
Drops ==
  /\ pending' = {} /\ asked' = {} /\ jobs' = <<>>
  /\ IF boot.status = "none"
     THEN shown' = FALSE /\ UNCHANGED boot
     ELSE shown' = BootSays(BootFailed) /\ boot' = BootOver(BootFailed)
-----------------------------------------------------------------------------
(* The socket. *)

\* _connect forgets the previous socket, its runs and its captured ends.
Connect ==
  /\ sock' = "opening" /\ hello' = "unsent" /\ retry' = FALSE
  /\ history' = FALSE /\ queue' = <<>> /\ active' = NoRun

\* The runtime's first bootstrap finds no connection and arms its retry.
Start ==
  /\ life = "new" /\ life' = "on"
  /\ Connect
  /\ boot' = BootStarts(0, FALSE)
  /\ UNCHANGED <<pending, asked, jobs, shown>>

\* The timer may fire while the old socket is still closing, after a shutdown; the
\* close event of a socket that was replaced is ignored.
Reconnect ==
  /\ life = "on" /\ retry /\ jobs = <<>>
  /\ Connect /\ Drops
  /\ UNCHANGED life

SocketOpens ==
  /\ sock = "opening" /\ sock' = "open"
  /\ UNCHANGED <<life, hello, retry, pending, asked, jobs, history, queue, active,
                 shown, boot>>

\* On the gateway's challenge, or 750 ms without one.
SendConnect ==
  /\ sock = "open" /\ hello = "unsent"
  /\ hello' = "sent" /\ Ask({"connect"})
  /\ UNCHANGED <<life, sock, retry, jobs, history, queue, active, shown, boot>>

\* The close event: the peer has gone or has answered close().
SocketCloses ==
  /\ sock # "none" /\ jobs = <<>>
  /\ sock' = "none" /\ retry' = TRUE
  /\ Drops
  /\ UNCHANGED <<life, hello, history, queue, active>>

Closing == /\ sock' = "closing"
           /\ UNCHANGED <<life, hello, retry, pending, asked, jobs, history, queue,
                          active, shown, boot>>
EstablishTimeout == sock = "opening" /\ Closing
TickTimeout == Connected /\ jobs = <<>> /\ Closing

\* A "shutdown" event: the phone is told and the reconnection armed while the
\* requests of the dying socket are still pending.
Shutdown ==
  /\ Listening
  /\ shown' = FALSE /\ retry' = TRUE /\ sock' = "closing"
  /\ UNCHANGED <<life, hello, pending, asked, jobs, history, queue, active, boot>>

Stop ==
  /\ life = "on" /\ jobs = <<>>
  /\ life' = "stopped" /\ sock' = "none" /\ retry' = FALSE /\ active' = NoRun
  /\ pending' = {} /\ asked' = {} /\ shown' = FALSE /\ boot' = NoBoot
  /\ UNCHANGED <<hello, jobs, history, queue>>
-----------------------------------------------------------------------------
(* Responses, timeouts and the client's own continuations. *)

\* A response to a request that timed out finds no entry and is ignored.
Settle(kind, value) ==
  IF kind \in pending
  THEN pending' = pending \ {kind} /\ jobs' = Append(jobs, Result(kind, value))
  ELSE UNCHANGED <<pending, jobs>>

Answer(kind, value) ==
  /\ Readable /\ kind \in asked
  /\ asked' = asked \ {kind}
  /\ Settle(kind, value)
  /\ UNCHANGED <<life, sock, hello, retry, history, queue, active, shown, boot>>

\* RPC_ACK_TIMEOUT_MS.  What a late answer would say matters only for the requests
\* in `effects', which the gateway may still carry out.
RpcTimeout(kind, effects) ==
  /\ kind \in pending /\ jobs = <<>>
  /\ Settle(kind, "err")
  /\ asked' = asked \ ({kind} \ effects)
  /\ UNCHANGED <<life, sock, hello, retry, history, queue, active, shown, boot>>

IsJob(kind) == jobs # <<>> /\ Head(jobs).kind = kind

\* The hello: requests may flow, the phone is told, the bootstrap and the history
\* are asked for (and refused if the socket is already closing).
HelloArrives ==
  /\ IsJob("connect") /\ Head(jobs).value = "ok"
  /\ hello' = "done" /\ shown' = TRUE
  /\ boot' = BootStarts(0, sock = "open")
  /\ IF sock = "open"
     THEN Ask({"status", "identity", "history"}) /\ jobs' = Tail(jobs)
     ELSE /\ jobs' = Append(Tail(jobs), Result("history", "err"))
          /\ UNCHANGED <<pending, asked>>
  /\ UNCHANGED <<life, sock, retry, history, queue, active>>

ConnectFails ==
  /\ IsJob("connect") /\ Head(jobs).value = "err"
  /\ jobs' = Tail(jobs) /\ sock' = "closing"
  /\ UNCHANGED <<life, hello, retry, pending, asked, history, queue, active, shown, boot>>

\* Mutant: the captured ends wait for a history that could be read.
HistoryResolvedOk ==
  /\ IsJob("history")
  /\ jobs' = Tail(jobs)
  /\ history' = (Head(jobs).value = "ok")
  /\ queue' = IF history' THEN <<>> ELSE queue
  /\ active' = IF history' THEN NoRun ELSE active
  /\ UNCHANGED <<life, sock, hello, retry, pending, asked, shown, boot>>

\* _postConnect goes on whether or not the history could be read, and drains the
\* captured ends; the active run goes if one of them had captured it.
HistoryResolved ==
  /\ IsJob("history")
  /\ jobs' = Tail(jobs)
  /\ history' = TRUE /\ queue' = <<>>
  /\ active' = IF \E e \in Range(queue) : e.active = active THEN NoRun ELSE active
  /\ UNCHANGED <<life, sock, hello, retry, pending, asked, shown, boot>>

BootAnswered ==
  /\ IsJob("status") \/ IsJob("identity")
  /\ LET b == [boot EXCEPT ![Head(jobs).kind] = Head(jobs).value] IN
     /\ boot' = IF BootSettled(b) THEN BootOver(b) ELSE b
     /\ shown' = (shown \/ (BootSettled(b) /\ BootSays(b)))
  /\ jobs' = Tail(jobs)
  /\ UNCHANGED <<life, sock, hello, retry, pending, asked, history, queue, active>>

BootRetry ==
  /\ boot.timer /\ jobs = <<>>
  /\ boot' = BootStarts(boot.attempt + 1, Connected)
  /\ IF Connected THEN Ask({"status", "identity"}) ELSE UNCHANGED <<pending, asked>>
  /\ UNCHANGED <<life, sock, hello, retry, jobs, history, queue, active, shown>>
-----------------------------------------------------------------------------
(* Agent events. *)

\* sendMessage takes an accepted run for the active one, whatever has begun since.
RunAccepted(r) == active' = r

RunStarts(r) ==
  /\ active' = r
  /\ UNCHANGED <<life, sock, hello, retry, pending, asked, jobs, history, queue, shown, boot>>

\* An end is reported for the active run, whichever run it names.
Reported(e) == IF e.active # NoRun THEN e.active ELSE e.run

RunEnds(r) ==
  /\ IF history THEN active' = NoRun /\ UNCHANGED queue
     ELSE queue' = Append(queue, [run |-> r, active |-> active]) /\ UNCHANGED active
  /\ UNCHANGED <<life, sock, hello, retry, pending, asked, jobs, history, shown, boot>>

RunFails ==
  /\ active' = NoRun
  /\ UNCHANGED <<life, sock, hello, retry, pending, asked, jobs, history, queue, shown, boot>>
=============================================================================
