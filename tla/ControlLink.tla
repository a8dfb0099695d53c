---------------------------- MODULE ControlLink ----------------------------
(***************************************************************************)
(* The NDJSON control link between the gateway plugin ("host":             *)
(* control_link.py, class LinkProcess) and the Node runtime child          *)
(* ("child": hermes-control-link.cjs).  Both ends issue calls and serve    *)
(* the other's.  Each end has one FIFO of encoded frames in front of its   *)
(* stream; `wire[e]` is what e's stream was given and the other end has    *)
(* not read yet.                                                           *)
(*                                                                         *)
(* The two ends differ where the code does.  Node pumps its queue inside   *)
(* the call that enqueues and stops on write() = false until `drain';      *)
(* Python has a writer task that awaits drain() after each frame.  Node    *)
(* settles a call in the event that ends it; Python resolves or cancels a  *)
(* future and runs request()'s except/finally block when the owning task   *)
(* resumes.                                                                *)
(***************************************************************************)
EXTENDS Naturals, Sequences, FiniteSets

CONSTANTS
  HostCalls,       \* calls the host makes (ids "p1", "p2", ...; never reused)
  ChildCalls,      \* calls the child makes (ids "n1", "n2", ...)
  NoCall,          \* the call field of a handshake frame
  AdmissionLimit,  \* LINK_ADMISSION_LIMIT
  HighWater,       \* frames in flight at which a stream asks its writer to wait
  ByteFloor        \* fewest buffered frames that can exhaust LINK_WRITE_MAX_BYTES

ASSUME CallsAssumption ==
  /\ HostCalls \cap ChildCalls = {}
  /\ NoCall \notin HostCalls \cup ChildCalls
  /\ IsFiniteSet(HostCalls \cup ChildCalls)

ASSUME LimitsAssumption ==
  /\ AdmissionLimit \in Nat \ {0}
  /\ HighWater \in Nat \ {0}
  /\ ByteFloor \in Nat \ {0}

Ends == {"host", "child"}
Peer(e) == IF e = "host" THEN "child" ELSE "host"
Calls == HostCalls \cup ChildCalls
CallsOf(e) == IF e = "host" THEN HostCalls ELSE ChildCalls

Verdicts == {"ok", "error", "truncated", "uncertain", "not_sent"}

\* Frames.  An oversized frame becomes a marker that keeps its routing fields:
\* tag "cut" on a request, "truncated" on a response.
Hello == [type |-> "hello", call |-> NoCall, tag |-> "ok"]
HelloAck == [type |-> "ack", call |-> NoCall, tag |-> "ok"]
Request(c, tag) == [type |-> "req", call |-> c, tag |-> tag]
Response(c, tag) == [type |-> "res", call |-> c, tag |-> tag]
Frames == {Hello, HelloAck}
            \cup {Request(c, t) : c \in Calls, t \in {"full", "cut"}}
            \cup {Response(c, t) : c \in Calls, t \in {"ok", "error", "truncated"}}

VARIABLES
  ready, closed,  \* per end: handshake done; link finished
  greeted,        \* the host has read the child's hello
  queue, wire,    \* per end: frames not yet given to / given to the stream
  blocked,        \* the child's stream returned false and has not drained
  handlers,       \* per end: calls it is executing
  pending,        \* calls in their caller's pending map
  issued,         \* calls whose frame the caller knows it gave to the stream
  cancelled,      \* host calls whose task was cancelled or timed out
  future,         \* what a host call's future was resolved with
  outcome,        \* what the caller was told
  runs            \* history: how often the other end started the call

vars == <<ready, closed, greeted, queue, wire, blocked, handlers, pending,
          issued, cancelled, future, outcome, runs>>

SeqRange(s) == {s[i] : i \in DOMAIN s}
DropAt(s, i) == [j \in 1..(Len(s) - 1) |-> IF j < i THEN s[j] ELSE s[j + 1]]

IsRequest(f, c) == f.type = "req" /\ f.call = c
Requested(s) == {c \in Calls : \E f \in SeqRange(s) : IsRequest(f, c)}

\* removeQueued / _remove_queued: a call has at most one request frame queued.
WithoutRequest(s, c) ==
  IF c \in Requested(s)
  THEN DropAt(s, CHOOSE i \in DOMAIN s : IsRequest(s[i], c))
  ELSE s

Init ==
  /\ ready = [e \in Ends |-> FALSE]
  /\ closed = [e \in Ends |-> FALSE]
  /\ greeted = FALSE
  /\ queue = [e \in Ends |-> <<>>]
  /\ wire = [e \in Ends |-> IF e = "child" THEN <<Hello>> ELSE <<>>]
  /\ blocked = (HighWater = 1)
  /\ handlers = [e \in Ends |-> {}]
  /\ pending = {} /\ issued = {} /\ cancelled = {}
  /\ future = [c \in HostCalls |-> "waiting"]
  /\ outcome = [c \in Calls |-> "idle"]
  /\ runs = [c \in Calls |-> 0]

-----------------------------------------------------------------------------
(* Closing.  Queued frames are discarded; bytes the stream holds may or may
   not have reached the pipe; nothing more is read. *)

Verdict(c) == IF c \in issued THEN "uncertain" ELSE "not_sent"

\* _finish: futures still waiting fail with their delivery; the tasks that own
\* them have yet to resume, so `issued' is kept for those already cancelled.
HostFinish ==
  /\ closed' = [closed EXCEPT !["host"] = TRUE]
  /\ ready' = [ready EXCEPT !["host"] = FALSE]
  /\ queue' = [queue EXCEPT !["host"] = <<>>]
  /\ \E n \in 0..Len(wire["host"]) :
       wire' = [e \in Ends |-> IF e = "host" THEN SubSeq(wire[e], 1, n) ELSE <<>>]
  /\ handlers' = [handlers EXCEPT !["host"] = {}]
  /\ future' = [c \in HostCalls |->
       IF c \in pending \ cancelled /\ future[c] = "waiting"
       THEN Verdict(c) ELSE future[c]]
  /\ pending' = pending \ HostCalls
  /\ UNCHANGED <<greeted, blocked, issued, cancelled, outcome, runs>>

\* onEnd: every pending entry is rejected at once.  Node cannot cancel handlers:
\* they stay active until they return.
ChildEnd(done) ==
  /\ closed' = [closed EXCEPT !["child"] = TRUE]
  /\ ready' = [ready EXCEPT !["child"] = FALSE]
  /\ queue' = [queue EXCEPT !["child"] = <<>>]
  /\ \E n \in 0..Len(wire["child"]) :
       wire' = [e \in Ends |-> IF e = "child" THEN SubSeq(wire[e], 1, n) ELSE <<>>]
  /\ blocked' = FALSE
  /\ handlers' = [handlers EXCEPT !["child"] = @ \ done]
  /\ outcome' = [c \in Calls |->
       IF c \in pending \cap ChildCalls THEN Verdict(c) ELSE outcome[c]]
  /\ pending' = pending \ ChildCalls
  /\ issued' = issued \ ChildCalls
  /\ UNCHANGED <<greeted, cancelled, future, runs>>

Close(e) == \/ e = "host" /\ HostFinish
            \/ e = "child" /\ ChildEnd({})

\* stop(), terminate(), or the death of the process.
Stop(e) == ~closed[e] /\ Close(e)

\* EOF, EPIPE or child exit: the other end is gone.
PeerGone(e) == ~closed[e] /\ closed[Peer(e)] /\ Close(e)

\* No hello (host) or no ack (child) within LINK_HANDSHAKE_TIMEOUT, or one that
\* carries another protocol version.
HandshakeFails(e) ==
  /\ ~closed[e] /\ ~ready[e]
  /\ e = "host" => ~greeted
  /\ Close(e)

-----------------------------------------------------------------------------
(* Admission and writing. *)

\* writeFrame / _send_frame refuse on the frame count, or on the byte budget,
\* which queue and stream share.
QueueFull(e) == Len(queue[e]) >= AdmissionLimit
BytesMayOverflow(e) == Len(queue[e]) + Len(wire[e]) >= ByteFloor
Refuses(e) == QueueFull(e) \/ BytesMayOverflow(e)
Admits(e) == ~QueueFull(e)

\* pumpWrites on queue q: write until write() returns false or q is empty.
Burst(q) == IF Len(q) < HighWater - Len(wire["child"])
            THEN Len(q) ELSE HighWater - Len(wire["child"])
ChildPump(q, free, entries) ==
  LET n == IF free THEN Burst(q) ELSE 0
  IN /\ queue' = [queue EXCEPT !["child"] = SubSeq(q, n + 1, Len(q))]
     /\ wire' = [wire EXCEPT !["child"] = @ \o SubSeq(q, 1, n)]
     /\ blocked' = (free => Len(wire["child"]) + n >= HighWater)
     /\ issued' = issued \cup (Requested(SubSeq(q, 1, n)) \cap entries)

\* onDrain.
ChildDrain ==
  /\ ~closed["child"] /\ blocked /\ Len(wire["child"]) < HighWater
  /\ ChildPump(queue["child"], TRUE, pending)
  /\ UNCHANGED <<ready, closed, greeted, handlers, pending, cancelled, future,
                 outcome, runs>>

\* Mutant: the frame is given to the stream before it is marked issued.
HostWriteUnmarked ==
  /\ ~closed["host"] /\ queue["host"] # <<>>
  /\ Len(wire["host"]) < HighWater
  /\ wire' = [wire EXCEPT !["host"] = Append(@, Head(queue["host"]))]
  /\ queue' = [queue EXCEPT !["host"] = Tail(@)]
  /\ UNCHANGED <<ready, closed, greeted, blocked, handlers, pending, issued,
                 cancelled, future, outcome, runs>>

\* _write_frames: the frame of a call that was cancelled, or whose future is
\* done, is dropped; any other is written once the stream has drained.
HostWrite ==
  /\ ~closed["host"] /\ queue["host"] # <<>>
  /\ Len(wire["host"]) < HighWater
  /\ LET f == Head(queue["host"])
         dead == f.type = "req" /\ (f.call \in cancelled \/ future[f.call] # "waiting")
     IN /\ wire' = IF dead THEN wire ELSE [wire EXCEPT !["host"] = Append(@, f)]
        /\ issued' = IF ~dead /\ f.type = "req" /\ f.call \in pending
                     THEN issued \cup {f.call} ELSE issued
  /\ queue' = [queue EXCEPT !["host"] = Tail(@)]
  /\ UNCHANGED <<ready, closed, greeted, blocked, handlers, pending, cancelled,
                 future, outcome, runs>>

-----------------------------------------------------------------------------
(* Making a call. *)

Overloaded(e) == Cardinality(pending \cap CallsOf(e)) >= AdmissionLimit \/ Refuses(e)

\* request() on either end before the link is ready, after it closed, or while
\* it is overloaded: told at once that nothing was sent.
RefuseCall(e, c) ==
  /\ c \in CallsOf(e) /\ outcome[c] = "idle"
  /\ ~ready[e] \/ Overloaded(e)
  /\ outcome' = [outcome EXCEPT ![c] = "not_sent"]
  /\ UNCHANGED <<ready, closed, greeted, queue, wire, blocked, handlers, pending,
                 issued, cancelled, future, runs>>

Callable(e, c) ==
  /\ c \in CallsOf(e) /\ outcome[c] = "idle" /\ ready[e]
  /\ Cardinality(pending \cap CallsOf(e)) < AdmissionLimit
  /\ Admits(e)

HostRequest(c) ==
  /\ Callable("host", c)
  /\ outcome' = [outcome EXCEPT ![c] = "waiting"]
  /\ pending' = pending \cup {c}
  /\ queue' = [queue EXCEPT !["host"] = Append(@, Request(c, "full"))]
  /\ UNCHANGED <<ready, closed, greeted, wire, blocked, handlers, issued,
                 cancelled, future, runs>>

\* request()'s finally block takes the marker of an oversized request back out
\* of the queue before the writer task can run.
HostRequestOversized(c) ==
  /\ Callable("host", c)
  /\ outcome' = [outcome EXCEPT ![c] = "truncated"]
  /\ UNCHANGED <<ready, closed, greeted, queue, wire, blocked, handlers, pending,
                 issued, cancelled, future, runs>>

ChildRequest(c) ==
  /\ Callable("child", c)
  /\ outcome' = [outcome EXCEPT ![c] = "waiting"]
  /\ pending' = pending \cup {c}
  /\ ChildPump(Append(queue["child"], Request(c, "full")), ~blocked, pending')
  /\ UNCHANGED <<ready, closed, greeted, handlers, cancelled, future, runs>>

\* Mutant: the caller of an oversized request is told it was not sent.
ChildRequestOversizedNotSent(c) ==
  /\ Callable("child", c)
  /\ outcome' = [outcome EXCEPT ![c] = "not_sent"]
  /\ ChildPump(Append(queue["child"], Request(c, "cut")), ~blocked, pending)
  /\ UNCHANGED <<ready, closed, greeted, handlers, pending, cancelled, future, runs>>

\* Node fails the call locally but its marker stays queued or was written.
ChildRequestOversized(c) ==
  /\ Callable("child", c)
  /\ outcome' = [outcome EXCEPT ![c] = "truncated"]
  /\ ChildPump(Append(queue["child"], Request(c, "cut")), ~blocked, pending)
  /\ UNCHANGED <<ready, closed, greeted, handlers, pending, cancelled, future, runs>>

\* The wait_for timer or a cancellation of the owning task.
HostCancel(c) ==
  /\ c \in HostCalls \ cancelled /\ outcome[c] = "waiting"
  /\ cancelled' = cancelled \cup {c}
  /\ UNCHANGED <<ready, closed, greeted, queue, wire, blocked, handlers, pending,
                 issued, future, outcome, runs>>

\* The owning task resumes: request()'s except and finally blocks.
HostResume(c) ==
  /\ c \in HostCalls /\ outcome[c] = "waiting"
  /\ c \in cancelled \/ future[c] # "waiting"
  /\ outcome' = [outcome EXCEPT ![c] =
                   IF c \in cancelled THEN Verdict(c) ELSE future[c]]
  /\ pending' = pending \ {c}
  /\ issued' = issued \ {c}
  /\ queue' = [queue EXCEPT !["host"] = WithoutRequest(@, c)]
  /\ UNCHANGED <<ready, closed, greeted, wire, blocked, handlers, cancelled,
                 future, runs>>

\* The timeoutMs timer or the abort signal.
ChildCancel(c) ==
  /\ c \in pending \cap ChildCalls
  /\ outcome' = [outcome EXCEPT ![c] = Verdict(c)]
  /\ pending' = pending \ {c}
  /\ issued' = issued \ {c}
  /\ queue' = [queue EXCEPT !["child"] = WithoutRequest(@, c)]
  /\ UNCHANGED <<ready, closed, greeted, wire, blocked, handlers, cancelled,
                 future, runs>>

-----------------------------------------------------------------------------
(* Reading: _handle_line and handleFrame. *)

\* Mutant: one lock for reading and writing.
ArrivesUnlocked(e, type) ==
  /\ ~closed[e] /\ wire[Peer(e)] # <<>>
  /\ Head(wire[Peer(e)]).type = type
  /\ Len(wire[e]) < HighWater

Arrives(e, type) ==
  /\ ~closed[e] /\ wire[Peer(e)] # <<>>
  /\ Head(wire[Peer(e)]).type = type

Consume(e) == wire' = [wire EXCEPT ![Peer(e)] = Tail(@)]

HostReadHello ==
  /\ Arrives("host", "hello") /\ ~ready["host"]
  /\ greeted' = TRUE
  /\ Consume("host")
  /\ UNCHANGED <<ready, closed, queue, blocked, handlers, pending, issued,
                 cancelled, future, outcome, runs>>

\* start() resumes after the hello event: send the ack, become ready.
HostAck ==
  /\ greeted /\ ~ready["host"] /\ ~closed["host"] /\ Admits("host")
  /\ queue' = [queue EXCEPT !["host"] = Append(@, HelloAck)]
  /\ ready' = [ready EXCEPT !["host"] = TRUE]
  /\ UNCHANGED <<closed, greeted, wire, blocked, handlers, pending, issued,
                 cancelled, future, outcome, runs>>

ChildReadAck ==
  /\ Arrives("child", "ack") /\ ~ready["child"]
  /\ ready' = [ready EXCEPT !["child"] = TRUE]
  /\ Consume("child")
  /\ UNCHANGED <<closed, greeted, queue, blocked, handlers, pending, issued,
                 cancelled, future, outcome, runs>>

\* A request starts its handler; one handler too many closes the link.
ReadRequest(e) ==
  /\ Arrives(e, "req") /\ ready[e]
  /\ IF Cardinality(handlers[e]) >= AdmissionLimit
     THEN Close(e)
     ELSE LET c == Head(wire[Peer(e)]).call
          IN /\ handlers' = [handlers EXCEPT ![e] = @ \cup {c}]
             /\ runs' = [runs EXCEPT ![c] = @ + 1]
             /\ Consume(e)
             /\ UNCHANGED <<ready, closed, greeted, queue, blocked, pending,
                            issued, cancelled, future, outcome>>

\* _handle_response: pops the entry; a future that is already done keeps its
\* result (the response is then only counted as a protocol error).
HostReadResponse ==
  /\ Arrives("host", "res") /\ ready["host"]
  /\ LET f == Head(wire["child"])
     IN /\ future' = [c \in HostCalls |->
             IF c = f.call /\ c \in pending \ cancelled /\ future[c] = "waiting"
             THEN f.tag ELSE future[c]]
        /\ pending' = pending \ {f.call}
  /\ Consume("host")
  /\ UNCHANGED <<ready, closed, greeted, queue, blocked, handlers, issued,
                 cancelled, outcome, runs>>

ChildReadResponse ==
  /\ Arrives("child", "res") /\ ready["child"]
  /\ LET f == Head(wire["host"])
     IN /\ outcome' = [c \in Calls |->
             IF c = f.call /\ c \in pending THEN f.tag ELSE outcome[c]]
        /\ pending' = pending \ {f.call}
        /\ issued' = issued \ {f.call}
  /\ Consume("child")
  /\ UNCHANGED <<ready, closed, greeted, queue, blocked, handlers, cancelled,
                 future, runs>>

-----------------------------------------------------------------------------
(* A handler returns: its response must fit, or the link closes. *)

\* Mutants: a response that does not fit is dropped; a late one is written.
ChildRespondDrops(c, tag) ==
  /\ c \in handlers["child"] /\ ~closed["child"]
  /\ ChildPump(IF Admits("child") THEN Append(queue["child"], Response(c, tag))
               ELSE queue["child"], ~blocked, pending)
  /\ handlers' = [handlers EXCEPT !["child"] = @ \ {c}]
  /\ UNCHANGED <<ready, closed, greeted, pending, cancelled, future, outcome, runs>>
ChildRespondLate(c, tag) ==
  /\ c \in handlers["child"]
  /\ ChildPump(Append(queue["child"], Response(c, tag)), ~blocked, pending)
  /\ handlers' = [handlers EXCEPT !["child"] = @ \ {c}]
  /\ UNCHANGED <<ready, closed, greeted, pending, cancelled, future, outcome, runs>>

HostRespond(c, tag) ==
  /\ c \in handlers["host"]
  /\ \/ /\ Admits("host")
        /\ queue' = [queue EXCEPT !["host"] = Append(@, Response(c, tag))]
        /\ handlers' = [handlers EXCEPT !["host"] = @ \ {c}]
        /\ UNCHANGED <<ready, closed, greeted, wire, blocked, pending, issued,
                       cancelled, future, outcome, runs>>
     \/ Refuses("host") /\ HostFinish

ChildRespond(c, tag) ==
  /\ c \in handlers["child"] /\ ~closed["child"]
  /\ \/ /\ Admits("child")
        /\ ChildPump(Append(queue["child"], Response(c, tag)), ~blocked, pending)
        /\ handlers' = [handlers EXCEPT !["child"] = @ \ {c}]
        /\ UNCHANGED <<ready, closed, greeted, pending, cancelled, future,
                       outcome, runs>>
     \/ Refuses("child") /\ ChildEnd({c})

\* Its late response is suppressed.
ChildHandlerEndsLate(c) ==
  /\ c \in handlers["child"] /\ closed["child"]
  /\ handlers' = [handlers EXCEPT !["child"] = @ \ {c}]
  /\ UNCHANGED <<ready, closed, greeted, queue, wire, blocked, pending, issued,
                 cancelled, future, outcome, runs>>

Respond(c) == \E tag \in {"ok", "error", "truncated"} :
                 HostRespond(c, tag) \/ ChildRespond(c, tag)

Read(e) == \/ ReadRequest(e)
           \/ e = "host" /\ (HostReadHello \/ HostReadResponse)
           \/ e = "child" /\ (ChildReadAck \/ ChildReadResponse)

Next ==
  \/ HostAck \/ HostWrite \/ ChildDrain
  \/ \E e \in Ends : Read(e) \/ Stop(e) \/ PeerGone(e) \/ HandshakeFails(e)
  \/ \E e \in Ends, c \in Calls : RefuseCall(e, c)
  \/ \E c \in Calls : \/ HostRequest(c) \/ HostRequestOversized(c)
                      \/ ChildRequest(c) \/ ChildRequestOversized(c)
                      \/ HostCancel(c) \/ HostResume(c) \/ ChildCancel(c)
                      \/ Respond(c) \/ ChildHandlerEndsLate(c)

Spec == Init /\ [][Next]_vars

\* Both event loops keep running and handlers return.  No timer, cancellation or
\* closure is assumed.
Fairness ==
  /\ WF_vars(HostAck) /\ WF_vars(HostWrite) /\ WF_vars(ChildDrain)
  /\ \A e \in Ends : WF_vars(Read(e)) /\ WF_vars(PeerGone(e))
  /\ \A c \in Calls : WF_vars(Respond(c)) /\ WF_vars(HostResume(c))

FairSpec == Spec /\ Fairness
-----------------------------------------------------------------------------
(* Properties. *)

\* Every variable keeps its type.
TypeOK ==
  /\ ready \in [Ends -> BOOLEAN] /\ closed \in [Ends -> BOOLEAN]
  /\ greeted \in BOOLEAN /\ blocked \in BOOLEAN
  /\ queue \in [Ends -> Seq(Frames)] /\ wire \in [Ends -> Seq(Frames)]
  /\ handlers \in [Ends -> SUBSET Calls]
  /\ pending \subseteq Calls /\ issued \subseteq Calls
  /\ cancelled \subseteq HostCalls
  /\ future \in [HostCalls -> Verdicts \cup {"waiting"}]
  /\ outcome \in [Calls -> Verdicts \cup {"idle", "waiting"}]
  /\ runs \in [Calls -> Nat]

\* A call whose caller was told `not_sent' -- it timed out, was cancelled, was
\* refused, or the link closed under it -- has not run at the other end and no
\* frame that could still start it exists.
NotSentNeverRuns ==
  \A c \in Calls : outcome[c] = "not_sent" =>
    /\ runs[c] = 0
    /\ \A e \in Ends : c \notin Requested(queue[e]) \cup Requested(wire[e])

\* While both ends are open, the answer to a call that ran is held somewhere on
\* its way back until the caller has it: "responses are never silently dropped".
AnswerIsNotLost ==
  \A e \in Ends : \A c \in CallsOf(e) :
    /\ outcome[c] = "waiting" /\ runs[c] > 0
    /\ ~closed["host"] /\ ~closed["child"]
    => \/ c \in handlers[Peer(e)]
       \/ \E f \in SeqRange(queue[Peer(e)]) \cup SeqRange(wire[Peer(e)]) :
            f.type = "res" /\ f.call = c
       \/ e = "host" /\ (c \in cancelled \/ future[c] # "waiting")

\* Once an end has closed it writes nothing more, starts no handler and leaves no
\* call of its own pending, even when its timers and tasks wake afterwards.
ClosedIsQuiet ==
  [][\A e \in Ends : closed[e] =>
       /\ closed'[e]
       /\ queue'[e] = <<>> /\ Len(wire'[e]) <= Len(wire[e])
       /\ handlers'[e] \subseteq handlers[e]
       /\ pending' \cap CallsOf(e) = {}]_vars

\* The link keeps the contract its callers rely on.
Contract == INSTANCE CallContract
              WITH Calls <- Calls, outcome <- outcome, runs <- runs
KeepsContract == Contract!Spec

\* With no timer, cancellation or closure assumed, every call settles as long as
\* handlers return: two ends that wait for their streams to drain keep reading,
\* so they never wait on each other.
EveryCallSettles ==
  \A c \in Calls : outcome[c] = "waiting" ~> outcome[c] # "waiting"
-----------------------------------------------------------------------------
(* The inductive invariant behind NotSentNeverRuns and KeepsContract. *)

Responded(s) == {c \in Calls : \E f \in SeqRange(s) : f.type = "res" /\ f.call = c}

\* At most one request frame per call.
OneRequestEach(s) ==
  \A i, j \in DOMAIN s :
    s[i].type = "req" /\ s[j].type = "req" /\ s[i].call = s[j].call => i = j

\* What must be true of a call the other end may have: its caller has not been
\* told `not_sent', nor can be, because it knows the frame was issued.
Sent(c) == /\ outcome[c] \notin {"idle", "not_sent"}
           /\ outcome[c] = "waiting" => c \in issued

FramesInv ==
  \A e \in Ends :
    /\ OneRequestEach(queue[e]) /\ OneRequestEach(wire[e])
    /\ Requested(queue[e]) \cap Requested(wire[e]) = {}
    /\ Requested(queue[e]) \cup Requested(wire[e]) \subseteq CallsOf(e)
    /\ handlers[e] \cup Responded(queue[e]) \cup Responded(wire[e])
         \subseteq CallsOf(Peer(e))

QueuedInv ==
  \A e \in Ends : \A c \in Requested(queue[e]) :
    /\ runs[c] = 0 /\ c \notin issued
    /\ outcome[c] \in {"waiting", "truncated"}
    /\ outcome[c] = "waiting" =>
         c \in pending \/ (e = "host" /\ (c \in cancelled \/ future[c] # "waiting"))

WireInv ==
  \A e \in Ends : \A c \in Requested(wire[e]) : runs[c] = 0 /\ Sent(c)

RunsInv ==
  /\ \A c \in Calls : runs[c] \in {0, 1} /\ (runs[c] = 1 => Sent(c))
  /\ \A c \in Calls : outcome[c] \in {"ok", "error"} => runs[c] = 1
  /\ \A e \in Ends : \A c \in handlers[e] : runs[c] = 1
  /\ \A e \in Ends : \A c \in Responded(queue[e]) \cup Responded(wire[e]) : runs[c] = 1

PendingInv ==
  /\ \A c \in pending \cup issued : outcome[c] = "waiting"
  /\ \A c \in ChildCalls : outcome[c] = "waiting" => c \in pending

FutureInv ==
  \A c \in HostCalls :
    /\ future[c] \in {"ok", "error"} => runs[c] = 1
    /\ future[c] = "not_sent" =>
         runs[c] = 0 /\ c \notin issued /\ c \notin Requested(wire["host"])

StreamInv ==
  /\ \A e \in Ends : ready[e] => ~closed[e]
  /\ ~blocked /\ ~closed["child"] => Len(wire["child"]) < HighWater

\* A call is queued, or issued, or settled, never two of them at odds: the
\* bookkeeping on both ends agrees with where the call's one frame is.
LinkInv == /\ FramesInv /\ QueuedInv /\ WireInv /\ RunsInv
           /\ PendingInv /\ FutureInv /\ StreamInv
=============================================================================
