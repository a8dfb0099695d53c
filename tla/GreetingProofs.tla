--------------------------- MODULE GreetingProofs ---------------------------
(***************************************************************************)
(* Proofs about GreetingGate, for any runs, number of messages, deadlines  *)
(* and bootstrap retries: what the wearer sends goes to the gateway once   *)
(* and in order, whatever opens the gate; a gate that waits has something  *)
(* to wait for, and one that says the greeting is over is right.           *)
(***************************************************************************)
EXTENDS GreetingGate, TLAPS

IsGate(g) == "open" \in DOMAIN g

\* Messages are held by an open gate only: one that is sent past a closed gate
\* overtakes none.
OrderInv ==
  /\ IsGate(gate) /\ held \in Seq(Nat) /\ gone \in Seq(Nat) /\ sent \in Nat
  /\ held # <<>> => gate.open
  /\ SendsInOrder

\* What a step does to the gate: nothing, a flush, or a change of an open gate (or
\* of one that holds nothing).
Passes == UNCHANGED <<held, gone>> /\ IsGate(gate') /\ (gate.open => gate'.open)
Empties == gate' = NoGate /\ gone' = gone \o held /\ held' = <<>>
Kept == UNCHANGED sent /\ (Passes \/ Empties)

LEMMA GateShapes ==
  /\ IsGate(NoGate) /\ ~NoGate.open
  /\ IsGate(Armed) /\ Armed.open
BY DEF NoGate, Armed, IsGate

LEMMA JoinAppend ==
  ASSUME NEW s \in Seq(Nat), NEW t \in Seq(Nat), NEW e \in Nat
  PROVE  s \o Append(t, e) = Append(s \o t, e)
<1> DEFINE a == s \o Append(t, e)
           b == Append(s \o t, e)
<1>1. /\ a \in Seq(Nat) /\ b \in Seq(Nat)
      /\ Len(a) = Len(s) + Len(t) + 1 /\ Len(b) = Len(a)
  OBVIOUS
<1>2. ASSUME NEW i \in 1..(Len(s) + Len(t) + 1) PROVE a[i] = b[i]
  OBVIOUS
<1> HIDE DEF a, b
<1>3. a = b
  BY <1>1, <1>2
<1> QED
  BY <1>3 DEF a, b

LEMMA InitOrder == Init => OrderInv
<1> SUFFICES ASSUME Init PROVE OrderInv
  OBVIOUS
<1>1. gate = NoGate /\ held = <<>> /\ gone = <<>> /\ sent = 0
  BY DEF Init
<1>2. gone \o held = [i \in 1..sent |-> i]
  BY <1>1
<1> QED
  BY <1>1, <1>2, GateShapes DEF OrderInv, SendsInOrder

\* A step that passes or empties keeps the order.
LEMMA KeptOrder == ASSUME OrderInv, Kept PROVE OrderInv'
<1>1. CASE Passes
  BY <1>1 DEF Kept, Passes, OrderInv, SendsInOrder
<1>2. CASE Empties
  <2>1. gone' \in Seq(Nat) /\ held' = <<>> /\ gone' \o held' = gone'
    BY <1>2 DEF Empties, OrderInv
  <2>2. gone' = gone \o held /\ IsGate(gate')
    BY <1>2, GateShapes DEF Empties
  <2> QED
    BY <2>1, <2>2 DEF Kept, OrderInv, SendsInOrder
<1> QED
  BY <1>1, <1>2 DEF Kept

\* A message joins the end: of the queue when the gate is open, and of what has gone
\* when nothing is held.
LEMMA UserSendOrder == ASSUME OrderInv, UserSend PROVE OrderInv'
<1>1. sent' = sent + 1 /\ sent \in Nat /\ held \in Seq(Nat) /\ gone \in Seq(Nat)
  BY DEF UserSend, OrderInv
<1>2. [i \in 1..sent' |-> i] = Append([i \in 1..sent |-> i], sent')
  BY <1>1
<1>3. CASE gate.open
  <2>1. held' = Append(held, sent') /\ gone' = gone /\ gate' = Preempting(gate, held')
    BY <1>3 DEF UserSend
  <2>2. IsGate(gate') /\ gate'.open
    BY <1>3, <2>1 DEF Preempting, OrderInv, IsGate
  <2>3. gone' \o held' = Append(gone \o held, sent') /\ held' \in Seq(Nat)
    BY <1>1, <2>1, JoinAppend
  <2>4. held' # <<>> => gate'.open
    BY <2>2
  <2>5. gone' \o held' = [i \in 1..sent' |-> i]
    BY <1>2, <2>3 DEF OrderInv, SendsInOrder
  <2>6. gone' \in Seq(Nat) /\ sent' \in Nat
    BY <1>1, <2>1
  <2> QED
    BY <2>2, <2>3, <2>4, <2>5, <2>6 DEF OrderInv, SendsInOrder
<1>4. CASE ~gate.open
  <2>1. gone' = Append(gone, sent') /\ UNCHANGED <<gate, held>> /\ held = <<>>
    BY <1>4 DEF UserSend, OrderInv
  <2>2. gone \o held = gone /\ gone' \o held' = gone' /\ gone' \in Seq(Nat)
    BY <1>1, <2>1
  <2>3. gone' \o held' = Append(gone \o held, sent')
    BY <2>1, <2>2
  <2> QED
    BY <1>1, <1>2, <2>1, <2>2, <2>3 DEF OrderInv, SendsInOrder
<1> QED
  BY <1>3, <1>4

\* The pieces the steps are made of.
LEMMA Pieces ==
  ASSUME OrderInv
  PROVE  /\ UNCHANGED gateVars => Passes
         /\ \A reason : Flush(reason) => Empties
         /\ \A reason : FlushIfOpen(reason) => Passes \/ Empties
         /\ \A g : Holds(g) /\ IsGate(g) /\ g.open => Passes
         /\ \A queued : Holds(Preempting(gate, queued)) => Passes
<1>1. UNCHANGED gateVars => Passes
  BY DEF gateVars, Passes, OrderInv
<1>2. \A reason : Flush(reason) => Empties
  BY DEF Flush, Empties
<1>3. \A g : Holds(g) /\ IsGate(g) /\ g.open => Passes
  BY DEF Holds, Passes
<1>4. \A queued : Holds(Preempting(gate, queued)) => Passes
  BY DEF Holds, Passes, Preempting, MayPreempt, OrderInv, IsGate
<1> QED
  BY <1>1, <1>2, <1>3, <1>4 DEF FlushIfOpen

\* A change of an open gate that only sets what it waits for.
LEMMA Updates ==
  ASSUME OrderInv, gate.open
  PROVE  /\ \A k \in {"greeting_end", "greeting_error"} :
              Holds([gate EXCEPT !.terminal = k]) => Passes
         /\ \A v \in BOOLEAN : Holds([gate EXCEPT !.awaiting = v]) => Passes
         /\ Holds([gate EXCEPT !.text = TRUE]) => Passes
         /\ Holds([gate EXCEPT !.timer = "asking"]) => Passes
         /\ Holds([gate EXCEPT !.timer = "armed", !.left = @ - 1]) => Passes
<1>1. IsGate(gate)
  BY DEF OrderInv
<1>2. /\ \A k \in {"greeting_end", "greeting_error"} :
           IsGate([gate EXCEPT !.terminal = k]) /\ [gate EXCEPT !.terminal = k].open
      /\ \A v \in BOOLEAN :
           IsGate([gate EXCEPT !.awaiting = v]) /\ [gate EXCEPT !.awaiting = v].open
  BY <1>1 DEF IsGate
<1>3. /\ IsGate([gate EXCEPT !.text = TRUE]) /\ [gate EXCEPT !.text = TRUE].open
      /\ IsGate([gate EXCEPT !.timer = "asking"])
      /\ [gate EXCEPT !.timer = "asking"].open
  BY <1>1 DEF IsGate
<1>4. /\ IsGate([gate EXCEPT !.timer = "armed", !.left = @ - 1])
      /\ [gate EXCEPT !.timer = "armed", !.left = @ - 1].open
  BY <1>1 DEF IsGate
<1> QED
  BY <1>2, <1>3, <1>4, Pieces

\* The greeting is under way, as its acknowledgement or its first event says.
LEMMA Starts ==
  ASSUME OrderInv, gate.open
  PROVE  /\ \A queued : Holds(Preempting(
              [gate EXCEPT !.started = TRUE, !.run = Greeting, !.acked = TRUE], queued))
              => Passes
         /\ \A r \in Runs : Holds(
              [gate EXCEPT !.started = TRUE, !.run = IF @ = NoRun THEN r ELSE @]) => Passes
<1>1. IsGate(gate)
  BY DEF OrderInv
<1> DEFINE g == [gate EXCEPT !.started = TRUE, !.run = Greeting, !.acked = TRUE]
<1>2. IsGate(g) /\ g.open
  BY <1>1 DEF IsGate
<1> HIDE DEF g
<1>3. \A queued : IsGate(Preempting(g, queued)) /\ Preempting(g, queued).open
  <2>1. IsGate([g EXCEPT !.preempted = TRUE]) /\ [g EXCEPT !.preempted = TRUE].open
    BY <1>2 DEF IsGate
  <2> QED
    BY <1>2, <2>1 DEF Preempting
<1>4. \A r \in Runs :
        /\ IsGate([gate EXCEPT !.started = TRUE, !.run = IF @ = NoRun THEN r ELSE @])
        /\ [gate EXCEPT !.started = TRUE, !.run = IF @ = NoRun THEN r ELSE @].open
  BY <1>1 DEF IsGate
<1>5. \A queued : Holds(Preempting(g, queued)) => Passes
  BY <1>3, Pieces
<1>6. \A r \in Runs : Holds(
        [gate EXCEPT !.started = TRUE, !.run = IF @ = NoRun THEN r ELSE @]) => Passes
  BY <1>4, Pieces
<1> QED
  BY <1>5, <1>6 DEF g

LEMMA SeenFacts ==
  ASSUME OrderInv
  PROVE  /\ \A reported : EndSeen(reported) => Passes \/ Empties
         /\ \A r : ErrorSeen(r) => Passes \/ Empties
<1>1. ASSUME gate.open, NEW k \in {"greeting_end", "greeting_error"}, Terminal(k)
      PROVE  Passes \/ Empties
  BY <1>1, Updates, Pieces DEF Terminal
<1>2. ASSUME NEW reported, EndSeen(reported) PROVE Passes \/ Empties
  BY <1>1, <1>2, Pieces DEF EndSeen
<1>3. ASSUME NEW r, ErrorSeen(r) PROVE Passes \/ Empties
  BY <1>1, <1>3, Pieces DEF ErrorSeen
<1> QED
  BY <1>2, <1>3

-----------------------------------------------------------------------------
(* The steps. *)

LEMMA UntouchedKept == ASSUME OrderInv, Untouched PROVE Kept
BY Pieces DEF Untouched, Kept

LEMMA JobKept == ASSUME OrderInv, Job PROVE Kept
<1>1. CASE (HelloArrives \/ ConnectFails \/ BootAnswered) /\ Untouched
  BY <1>1, UntouchedKept
<1>2. CASE DrainsEnds
  BY <1>2, Pieces, SeenFacts DEF DrainsEnds, Kept
<1>3. CASE GreetAccepted
  BY <1>3, Pieces, Starts DEF GreetAccepted, RunAccepted, Continues, Kept
<1>4. CASE GreetRefused
  BY <1>4, Pieces DEF GreetRefused, Continue, Continues, Kept
<1>5. CASE Preempt
  BY <1>5, Pieces, Updates DEF Preempt, Continue, Continues, Kept
<1>6. CASE AbortAnswered
  BY <1>6, Pieces, Updates DEF AbortAnswered, Continue, Continues, Kept
<1>7. CASE LiveAnswered
  BY <1>7, Pieces, Updates DEF LiveAnswered, Continue, Continues, Kept
<1> QED
  BY <1>1, <1>2, <1>3, <1>4, <1>5, <1>6, <1>7 DEF Job

LEMMA GatewayKept ==
  ASSUME OrderInv,
         \/ GatewayAnswers \/ GatewayAborts \/ GatewayStreams
         \/ \E r \in Runs : GatewayStarts(r) \/ GatewayEnds(r) \/ GatewayFails(r)
  PROVE  Kept
<1>1. CASE GatewayAnswers
  BY <1>1, UntouchedKept, Pieces DEF GatewayAnswers, Kept
<1>2. CASE GatewayAborts
  BY <1>2, Pieces DEF GatewayAborts, Kept
<1>3. CASE GatewayStreams
  BY <1>3, Updates DEF GatewayStreams, Kept
<1>4. ASSUME NEW r \in Runs, GatewayStarts(r) PROVE Kept
  BY <1>4, Pieces, Starts DEF GatewayStarts, Kept
<1>5. ASSUME NEW r \in Runs, GatewayEnds(r) PROVE Kept
  BY <1>5, Pieces, SeenFacts DEF GatewayEnds, Kept
<1>6. ASSUME NEW r \in Runs, GatewayFails(r) PROVE Kept
  BY <1>6, Pieces, SeenFacts DEF GatewayFails, Kept
<1> QED
  BY <1>1, <1>2, <1>3, <1>4, <1>5, <1>6

LEMMA NextOrder == OrderInv /\ [Next]_vars => OrderInv'
<1> SUFFICES ASSUME OrderInv, [Next]_vars PROVE OrderInv'
  OBVIOUS
<1>1. CASE ((Start \/ BootRetry) /\ Untouched) \/ Socket
  BY <1>1, UntouchedKept, KeptOrder DEF Socket
<1>0. ASSUME NEW kind \in Kinds, Timeouts(kind) PROVE OrderInv'
  BY <1>0, UntouchedKept, KeptOrder DEF Timeouts
<1>2. CASE \/ Disconnects(Reconnect) \/ Disconnects(SocketCloses)
           \/ Disconnects(Shutdown) \/ Disconnects(Stop)
  <2>1. FlushIfOpen("upstream_disconnected") /\ UNCHANGED sent
    BY <1>2 DEF Disconnects
  <2> QED
    BY <2>1, Pieces, KeptOrder DEF Kept
<1>3. CASE Job
  BY <1>3, JobKept, KeptOrder
<1>4. CASE NewSession
  BY <1>4, Pieces, GateShapes, KeptOrder DEF NewSession, Kept
<1>5. CASE UserSend
  BY <1>5, UserSendOrder
<1>6. CASE Evict
  BY <1>6, Pieces, KeptOrder DEF Evict, Kept
<1>7. CASE Deadline
  BY <1>7, Pieces, Updates, KeptOrder DEF Deadline, Kept
<1>8. CASE \/ GatewayAnswers \/ GatewayAborts \/ GatewayStreams
           \/ \E r \in Runs : GatewayStarts(r) \/ GatewayEnds(r) \/ GatewayFails(r)
  BY <1>8, GatewayKept, KeptOrder
<1>9. CASE UNCHANGED vars
  BY <1>9, Pieces, KeptOrder DEF vars, gateVars, Kept
<1> QED
  BY <1>0, <1>1, <1>2, <1>3, <1>4, <1>5, <1>6, <1>7, <1>8, <1>9 DEF Next

\* What the wearer sends to a session goes to the gateway once and in the order it was
\* sent (greeting-send-gate.cjs, flush; session-service.cjs, dispatchUserSend).
THEOREM OrderCorrect == Spec => []SendsInOrder
<1>1. Spec => []OrderInv
  BY InitOrder, NextOrder, PTL DEF Spec
<1>2. OrderInv => SendsInOrder
  BY DEF OrderInv
<1> QED
  BY <1>1, <1>2, PTL

-----------------------------------------------------------------------------
(* The gate and the requests it waits for. *)

Results == [kind : Kinds \cup {"preempt"},
            value : {"ok", "err", "accepted", "rejected", "live", "over", "aborted", "not"}]
Over == run[Greeting] \in Ended
Aborted == Result("abort", "aborted")

ClientType ==
  /\ life \in {"new", "on", "stopped"} /\ sock \in {"none", "opening", "open", "closing"}
  /\ hello \in {"unsent", "sent", "done"} /\ pending \cup asked \subseteq Kinds
  /\ active \in Runs \cup {NoRun} /\ jobs \in Seq(Results)
  /\ queue \in Seq([run : Runs, active : Runs \cup {NoRun}])
  /\ life = "on" /\ sock = "none" => retry
Gates ==
  [open : BOOLEAN, started : BOOLEAN, run : {NoRun, Greeting}, acked : BOOLEAN,
   text : BOOLEAN, preempted : BOOLEAN, awaiting : BOOLEAN,
   terminal : {"none", "greeting_end", "greeting_error"},
   timer : {"none", "armed", "asking"}, left : Int]
GateType == gate \in Gates
Waits ==
  /\ gate.awaiting => gate.open /\ RequestOut("abort")
  /\ gate.open => gate.timer = "armed" \/ (gate.timer = "asking" /\ RequestOut("live"))

\* Whatever says that the greeting is over is right: a flush, an end that was noted, the
\* receipt of an abort, a captured end.
Evidence ==
  /\ run \in [Runs -> {"none", "accepted", "running", "aborted", "reported", "over"}]
  /\ overed => Over
  /\ gate.terminal = "greeting_end" => Over
  /\ Aborted \in Range(jobs) => Over
  /\ \A e \in Range(queue) : e.run = Greeting => Over

WaitInv == ClientType /\ GateType /\ Waits /\ Evidence

LEMMA RangeFacts ==
  ASSUME NEW S, NEW s \in Seq(S)
  PROVE  /\ \A e : Range(Append(s, e)) = Range(s) \cup {e}
         /\ \A t \in Seq(S) : Range(s \o t) = Range(s) \cup Range(t)
         /\ s # <<>> => /\ Tail(s) \in Seq(S) /\ Head(s) \in S
                        /\ Range(s) = {Head(s)} \cup Range(Tail(s))
         /\ Range(s) \subseteq S
<1>1. ASSUME NEW e PROVE Range(Append(s, e)) = Range(s) \cup {e}
  <2> DEFINE a == Append(s, e)
  <2>1. DOMAIN a = 1 .. Len(s) + 1 /\ DOMAIN s = 1 .. Len(s) /\ Len(s) \in Nat
    OBVIOUS
  <2>2. a[Len(s) + 1] = e /\ \A i \in 1 .. Len(s) : a[i] = s[i]
    OBVIOUS
  <2>3. \A i \in 1 .. Len(s) + 1 : i = Len(s) + 1 \/ i \in 1 .. Len(s)
    BY <2>1
  <2>4. Len(s) + 1 \in 1 .. Len(s) + 1 /\ 1 .. Len(s) \subseteq 1 .. Len(s) + 1
    BY <2>1
  <2> HIDE DEF a
  <2>5. Range(a) = Range(s) \cup {e}
    BY <2>1, <2>2, <2>3, <2>4 DEF Range
  <2> QED
    BY <2>5 DEF a
<1>2. ASSUME NEW t \in Seq(S) PROVE Range(s \o t) = Range(s) \cup Range(t)
  <2> DEFINE a == s \o t
  <2>1. /\ DOMAIN a = 1 .. Len(s) + Len(t) /\ DOMAIN s = 1 .. Len(s) /\ DOMAIN t = 1 .. Len(t)
        /\ Len(s) \in Nat /\ Len(t) \in Nat
    OBVIOUS
  <2>2. /\ \A i \in 1 .. Len(s) : a[i] = s[i] /\ i \in 1 .. Len(s) + Len(t)
        /\ \A i \in 1 .. Len(t) : a[Len(s) + i] = t[i] /\ Len(s) + i \in 1 .. Len(s) + Len(t)
    OBVIOUS
  <2>3. \A i \in 1 .. Len(s) + Len(t) : i \in 1 .. Len(s) \/ (i - Len(s) \in 1 .. Len(t) /\ Len(s) + (i - Len(s)) = i)
    BY <2>1
  <2> HIDE DEF a
  <2>4. \A i \in DOMAIN a : (\E j \in DOMAIN s : a[i] = s[j]) \/ (\E j \in DOMAIN t : a[i] = t[j])
    BY <2>1, <2>2, <2>3
  <2>5. /\ \A j \in DOMAIN s : \E i \in DOMAIN a : a[i] = s[j]
        /\ \A j \in DOMAIN t : \E i \in DOMAIN a : a[i] = t[j]
    BY <2>1, <2>2
  <2>6. Range(a) = Range(s) \cup Range(t)
    BY <2>4, <2>5 DEF Range
  <2> QED
    BY <2>6 DEF a
<1>3. ASSUME s # <<>>
      PROVE  Tail(s) \in Seq(S) /\ Head(s) \in S /\ Range(s) = {Head(s)} \cup Range(Tail(s))
  <2> DEFINE t == Tail(s)
  <2>1. /\ t \in Seq(S) /\ Head(s) = s[1] /\ Len(s) \in Nat /\ Len(s) >= 1
        /\ DOMAIN s = 1 .. Len(s) /\ DOMAIN t = 1 .. Len(s) - 1
    BY <1>3
  <2>2. \A i \in 1 .. Len(s) - 1 : t[i] = s[i + 1]
    BY <1>3
  <2> HIDE DEF t
  <2>3. \A i \in DOMAIN s : s[i] = Head(s) \/ \E j \in DOMAIN t : t[j] = s[i]
    <3>1. ASSUME NEW i \in 1 .. Len(s), i # 1 PROVE i - 1 \in 1 .. Len(s) - 1 /\ (i - 1) + 1 = i
      BY <2>1, <3>1
    <3> QED
      BY <2>1, <2>2, <3>1
  <2>4. \A j \in DOMAIN t : \E i \in DOMAIN s : t[j] = s[i]
    <3>1. \A j \in 1 .. Len(s) - 1 : j + 1 \in 1 .. Len(s)
      BY <2>1
    <3> QED
      BY <2>1, <2>2, <3>1
  <2>5. 1 \in DOMAIN s
    BY <2>1
  <2>6. Range(s) = {Head(s)} \cup Range(t) /\ Head(s) \in S
    BY <2>1, <2>3, <2>4, <2>5 DEF Range
  <2> QED
    BY <2>1, <2>6 DEF t
<1>4. Range(s) \subseteq S
  BY DEF Range
<1> QED
  BY <1>1, <1>2, <1>3, <1>4

\* A request that is out stays out until its continuation has run.
Still(k) == RequestOut(k) => RequestOut(k)'
Brings == /\ ClientType'
          /\ Aborted \in Range(jobs') => Aborted \in Range(jobs) \/ Over'
          /\ \A e \in Range(queue') : e \in Range(queue) \/ (e.run = Greeting => Over')
ClientKeeps == Brings /\ Still("abort") /\ Still("live")

LEMMA EmptyRange == Range(<<>>) = {}
BY DEF Range

LEMMA SettleKeeps ==
  ASSUME ClientType, NEW kind \in Kinds, NEW v \in {"ok", "err", "accepted", "rejected", "live", "over", "aborted", "not"},
         Settle(kind, v)
  PROVE  /\ pending' \subseteq pending /\ jobs' \in Seq(Results)
         /\ \A k : Still(k)
         /\ Range(jobs') \subseteq Range(jobs) \cup {Result(kind, v)}
<1>1. CASE kind \in pending
  <2>1. pending' = pending \ {kind} /\ jobs' = Append(jobs, Result(kind, v))
    BY <1>1 DEF Settle
  <2>2. Result(kind, v) \in Results /\ Result(kind, v).kind = kind
    BY DEF Result, Results
  <2>3. Range(jobs') = Range(jobs) \cup {Result(kind, v)} /\ jobs' \in Seq(Results)
    BY <2>1, <2>2, RangeFacts DEF ClientType
  <2> QED
    BY <2>1, <2>2, <2>3 DEF Still, RequestOut
<1>2. CASE kind \notin pending
  BY <1>2 DEF Settle, Still, RequestOut, ClientType
<1> QED
  BY <1>1, <1>2

LEMMA AskKeeps ==
  ASSUME ClientType, NEW kinds \in SUBSET Kinds, Ask(kinds)
  PROVE  /\ pending' \cup asked' \subseteq Kinds /\ pending \subseteq pending'
         /\ jobs' = jobs => \A k : Still(k)
BY DEF Ask, ClientType, Still, RequestOut

\* A continuation runs: only what it waited for is gone.
LEMMA Consumes ==
  ASSUME ClientType, NEW kind, IsJob(kind), jobs' = Tail(jobs), pending \subseteq pending'
  PROVE  /\ jobs' \in Seq(Results) /\ Head(jobs) \in Range(jobs) /\ Head(jobs) \in Results
         /\ Range(jobs') \subseteq Range(jobs)
         /\ \A k : k # kind => Still(k)
<1>1. /\ Range(jobs) = {Head(jobs)} \cup Range(jobs') /\ jobs' \in Seq(Results)
      /\ Head(jobs) \in Results /\ Head(jobs).kind = kind
  BY RangeFacts DEF ClientType, IsJob
<1> QED
  BY <1>1 DEF Still, RequestOut

LEMMA NoRequest ==
  ASSUME ClientType, pending \subseteq pending', jobs' = jobs
  PROVE  \A k : Still(k)
BY DEF Still, RequestOut

LEMMA SocketKeeps ==
  ASSUME ClientType,
         \/ Start \/ SocketOpens \/ SendConnect \/ EstablishTimeout \/ TickTimeout \/ BootRetry
         \/ RunFails \/ \E r \in Runs : RunStarts(r)
  PROVE  ClientKeeps
<1> USE DEF ClientType
<1>1. CASE Start
  <2>1. life' = "on" /\ sock' = "opening" /\ hello' = "unsent" /\ queue' = <<>> /\ active' = NoRun
        /\ UNCHANGED <<pending, asked, jobs>>
    BY <1>1 DEF Start, Connect
  <2>2. Range(queue') \subseteq Range(queue)
    BY <2>1, EmptyRange
  <2> QED
    BY <2>1, <2>2, NoRequest DEF ClientKeeps, Brings
<1>2. CASE SocketOpens \/ EstablishTimeout \/ TickTimeout
  <2>1. UNCHANGED <<life, hello, retry, pending, asked, jobs, queue, active>> /\ sock' \in {"open", "closing"}
    BY <1>2 DEF SocketOpens, EstablishTimeout, TickTimeout, Closing
  <2> QED
    BY <2>1, NoRequest DEF ClientKeeps, Brings
<1>3. CASE SendConnect
  <2>1. UNCHANGED <<life, sock, retry, jobs, queue, active>> /\ hello' = "sent" /\ Ask({"connect"})
    BY <1>3 DEF SendConnect
  <2>2. {"connect"} \in SUBSET Kinds
    BY DEF Kinds
  <2> QED
    BY <2>1, <2>2, AskKeeps DEF ClientKeeps, Brings
<1>4. CASE BootRetry
  <2>1. /\ UNCHANGED <<life, sock, hello, retry, jobs, queue, active>>
        /\ Ask({"status", "identity"}) \/ UNCHANGED <<pending, asked>>
    BY <1>4 DEF BootRetry
  <2>2. {"status", "identity"} \in SUBSET Kinds
    BY DEF Kinds
  <2> QED
    BY <2>1, <2>2, AskKeeps, NoRequest DEF ClientKeeps, Brings
<1>5. CASE RunFails \/ \E r \in Runs : RunStarts(r)
  <2>1. UNCHANGED <<life, sock, hello, retry, pending, asked, jobs, queue>> /\ active' \in Runs \cup {NoRun}
    BY <1>5 DEF RunFails, RunStarts
  <2> QED
    BY <2>1, NoRequest DEF ClientKeeps, Brings
<1> QED
  BY <1>1, <1>2, <1>3, <1>4, <1>5

LEMMA AnswerKeeps ==
  ASSUME ClientType, NEW kind \in Kinds, NEW v \in {"ok", "err", "accepted", "rejected", "live", "over", "aborted", "not"},
         \/ Answer(kind, v)
         \/ v = "err" /\ \E effects : RpcTimeout(kind, effects)
  PROVE  /\ ClientType' /\ \A k : Still(k)
         /\ Range(queue') \subseteq Range(queue)
         /\ Aborted \in Range(jobs') => Aborted \in Range(jobs) \/ (kind = "abort" /\ v = "aborted")
<1>1. /\ Settle(kind, v) /\ asked' \subseteq asked
      /\ UNCHANGED <<life, sock, hello, retry, queue, active>>
  BY DEF Answer, RpcTimeout
<1>2. ClientType'
  BY <1>1, SettleKeeps DEF ClientType
<1>3. Result(kind, v) = Aborted => kind = "abort" /\ v = "aborted"
  BY DEF Result, Aborted
<1> QED
  BY <1>1, <1>2, <1>3, SettleKeeps

LEMMA JobKeeps ==
  ASSUME ClientType, HelloArrives \/ ConnectFails \/ BootAnswered
  PROVE  ClientKeeps
<1>1. CASE HelloArrives
  <2>1. IsJob("connect") /\ hello' = "done" /\ UNCHANGED <<life, sock, retry, queue, active>>
    BY <1>1 DEF HelloArrives
  <2> DEFINE err == Result("history", "err")
  <2>2. /\ Head(jobs) \in Range(jobs) /\ Head(jobs).kind = "connect" /\ Tail(jobs) \in Seq(Results)
        /\ Range(jobs) = {Head(jobs)} \cup Range(Tail(jobs))
    BY <2>1, RangeFacts DEF ClientType, IsJob
  <2>3. err \in Results /\ err # Aborted
    BY DEF Result, Results, Kinds, Aborted
  <2> HIDE DEF err
  <2>4. /\ jobs' \in Seq(Results)
        /\ Range(Tail(jobs)) \subseteq Range(jobs') /\ Range(jobs') \subseteq Range(jobs) \cup {err}
        /\ pending \subseteq pending' /\ pending' \cup asked' \subseteq Kinds
    <3>1. CASE sock = "open"
      <4>1. Ask({"status", "identity", "history"}) /\ jobs' = Tail(jobs)
        BY <1>1, <3>1 DEF HelloArrives
      <4>2. {"status", "identity", "history"} \in SUBSET Kinds
        BY DEF Kinds
      <4> QED
        BY <2>2, <4>1, <4>2, AskKeeps
    <3>2. CASE sock # "open"
      <4>1. jobs' = Append(Tail(jobs), err) /\ UNCHANGED <<pending, asked>>
        BY <1>1, <3>2 DEF HelloArrives, err
      <4>2. Range(jobs') = Range(Tail(jobs)) \cup {err}
        BY <2>2, <4>1, RangeFacts
      <4> QED
        BY <2>2, <2>3, <4>1, <4>2 DEF ClientType
    <3> QED
      BY <3>1, <3>2
  <2>5. Still("abort") /\ Still("live")
    BY <2>2, <2>4 DEF Still, RequestOut
  <2>6. ClientType'
    BY <2>1, <2>4 DEF ClientType
  <2> QED
    BY <2>1, <2>3, <2>4, <2>5, <2>6 DEF ClientKeeps, Brings
<1>2. CASE ConnectFails
  <2>1. /\ IsJob("connect") /\ jobs' = Tail(jobs) /\ sock' = "closing"
        /\ UNCHANGED <<life, hello, retry, pending, asked, queue, active>>
    BY <1>2 DEF ConnectFails
  <2>2. ClientType'
    BY <2>1, Consumes DEF ClientType
  <2> QED
    BY <2>1, <2>2, Consumes DEF ClientKeeps, Brings
<1>3. CASE BootAnswered
  <2>1. /\ IsJob("status") \/ IsJob("identity")
        /\ jobs' = Tail(jobs) /\ UNCHANGED <<life, sock, hello, retry, pending, asked, queue, active>>
    BY <1>3 DEF BootAnswered
  <2>2. ClientType'
    BY <2>1, Consumes DEF ClientType
  <2> QED
    BY <2>1, <2>2, Consumes DEF ClientKeeps, Brings
<1> QED
  BY <1>1, <1>2, <1>3

\* The connection goes: nothing is out any more.
LEMMA DropKeeps ==
  ASSUME ClientType, Reconnect \/ SocketCloses \/ Shutdown \/ Stop
  PROVE  Brings
<1>1. CASE Reconnect
  <2>1. /\ sock' = "opening" /\ hello' = "unsent" /\ queue' = <<>> /\ active' = NoRun /\ life' = life
        /\ pending' = {} /\ asked' = {} /\ jobs' = <<>>
    BY <1>1 DEF Reconnect, Connect, Drops
  <2>2. Range(queue') \subseteq Range(queue) /\ Range(jobs') = {}
    BY <2>1, EmptyRange
  <2> QED
    BY <2>1, <2>2 DEF Brings, ClientType
<1>2. CASE SocketCloses
  <2>1. /\ sock' = "none" /\ retry' = TRUE /\ UNCHANGED <<life, hello, queue, active>>
        /\ pending' = {} /\ asked' = {} /\ jobs' = <<>>
    BY <1>2 DEF SocketCloses, Drops
  <2>2. Range(jobs') = {}
    BY <2>1, EmptyRange
  <2> QED
    BY <2>1, <2>2 DEF Brings, ClientType
<1>3. CASE Shutdown
  <2>1. sock' = "closing" /\ UNCHANGED <<life, hello, pending, asked, jobs, queue, active>>
    BY <1>3 DEF Shutdown
  <2> QED
    BY <2>1 DEF Brings, ClientType
<1>4. CASE Stop
  <2>1. /\ life' = "stopped" /\ sock' = "none" /\ active' = NoRun /\ pending' = {} /\ asked' = {}
        /\ UNCHANGED <<hello, jobs, queue>>
    BY <1>4 DEF Stop
  <2> QED
    BY <2>1 DEF Brings, ClientType
<1> QED
  BY <1>1, <1>2, <1>3, <1>4

-----------------------------------------------------------------------------
(* What a step may do to the gate. *)

\* The gateway does not take back that the greeting is over.
RunsOn == /\ run' \in [Runs -> {"none", "accepted", "running", "aborted", "reported", "over"}]
          /\ Over => Over'

LEMMA SameRun == ASSUME Evidence, run' = run PROVE RunsOn
BY DEF Evidence, RunsOn, Over

LEMMA NoGateType ==
  /\ gate = NoGate => GateType /\ ~gate.open /\ ~gate.awaiting /\ gate.terminal = "none"
  /\ gate' = NoGate => GateType' /\ ~gate'.open /\ ~gate'.awaiting /\ gate'.terminal = "none"
<1>1. NoGate \in Gates
      /\ ~NoGate.open /\ ~NoGate.awaiting /\ NoGate.terminal = "none"
  BY DEF NoGate, Gates
<1> QED
  BY <1>1 DEF GateType, Gates

LEMMA PassWaits ==
  ASSUME WaitInv, ClientKeeps, UNCHANGED gateVars, RunsOn PROVE WaitInv'
<1>1. UNCHANGED <<gate, overed>>
  BY DEF gateVars
<1>2. Waits'
  BY <1>1 DEF WaitInv, Waits, ClientKeeps, Still
<1>3. Evidence'
  BY <1>1 DEF WaitInv, Evidence, ClientKeeps, Brings, RunsOn
<1> QED
  BY <1>1, <1>2, <1>3 DEF WaitInv, GateType, Gates, ClientKeeps, Brings

LEMMA FlushWaits ==
  ASSUME WaitInv, Brings, RunsOn, NEW reason, Flush(reason),
         reason \in {"greeting_end", "greeting_aborted"} => Over'
  PROVE  WaitInv'
<1>1. gate' = NoGate /\ overed' = (reason \in {"greeting_end", "greeting_aborted"})
  BY DEF Flush
<1>2. GateType' /\ ~gate'.open /\ ~gate'.awaiting /\ gate'.terminal = "none"
  BY <1>1, NoGateType
<1>3. Evidence'
  BY <1>1, <1>2 DEF WaitInv, Evidence, Brings, RunsOn
<1> QED
  BY <1>2, <1>3 DEF WaitInv, Waits, Brings

LEMMA HoldWaits ==
  ASSUME WaitInv, Brings, RunsOn, NEW g, Holds(g), GateType', Waits',
         gate'.terminal = "greeting_end" => Over'
  PROVE  WaitInv'
<1>1. overed' = overed
  BY DEF Holds
<1>2. Evidence'
  BY <1>1 DEF WaitInv, Evidence, Brings, RunsOn
<1> QED
  BY <1>2 DEF WaitInv, Brings

\* A flush that says nothing of the greeting, if there is a gate.
LEMMA QuietFlush ==
  ASSUME WaitInv, Brings, RunsOn, NEW reason, FlushIfOpen(reason),
         reason \notin {"greeting_end", "greeting_aborted"}
  PROVE  WaitInv'
<1>1. CASE gate.open
  BY <1>1, FlushWaits DEF FlushIfOpen
<1>2. CASE ~gate.open
  <2>1. UNCHANGED <<gate, overed>>
    BY <1>2 DEF FlushIfOpen, gateVars
  <2>2. ~gate.awaiting
    BY <1>2 DEF WaitInv, Waits
  <2>3. Waits'
    BY <1>2, <2>1, <2>2 DEF Waits
  <2>4. Evidence'
    BY <2>1 DEF WaitInv, Evidence, Brings, RunsOn
  <2> QED
    BY <2>1, <2>3, <2>4 DEF WaitInv, GateType, Gates, Brings
<1> QED
  BY <1>1, <1>2

\* A gate that changes what it knows of the greeting, and waits for what it waited for.
LEMMA NotesWaits ==
  ASSUME WaitInv, Brings, Still("abort"), Still("live"), RunsOn, NEW g, Holds(g), GateType',
         g.awaiting = gate.awaiting, g.open = gate.open, g.timer = gate.timer,
         g.terminal = "greeting_end" => gate.terminal = "greeting_end" \/ Over'
  PROVE  WaitInv'
<1>1. gate' = g
  BY DEF Holds
<1>2. Waits'
  BY <1>1 DEF WaitInv, Waits, Still
<1>3. gate'.terminal = "greeting_end" => Over'
  BY <1>1 DEF WaitInv, Evidence, RunsOn
<1> QED
  BY <1>2, <1>3, HoldWaits

LEMMA SeenWaits ==
  ASSUME WaitInv, Brings, Still("abort"), Still("live"), RunsOn, Over',
         (\E reported : EndSeen(reported)) \/ (\E r : ErrorSeen(r))
  PROVE  WaitInv'
<1>1. ClientKeeps
  BY DEF ClientKeeps
<1>2. ASSUME NEW k \in {"greeting_end", "greeting_error"}, Terminal(k) PROVE WaitInv'
  <2>1. CASE gate.awaiting
    <3> DEFINE g == [gate EXCEPT !.terminal = k]
    <3>1. Holds(g)
      BY <1>2, <2>1 DEF Terminal
    <3>2. g.awaiting = gate.awaiting /\ g.open = gate.open /\ g.timer = gate.timer /\ (gate' = g => GateType')
      BY DEF WaitInv, GateType, Gates
    <3> HIDE DEF g
    <3>3. GateType'
      BY <3>1, <3>2 DEF Holds
    <3> QED
      BY <3>1, <3>2, <3>3, NotesWaits
  <2>2. CASE ~gate.awaiting
    BY <1>2, <2>2, FlushWaits DEF Terminal
  <2> QED
    BY <2>1, <2>2
<1> QED
  BY <1>1, <1>2, PassWaits DEF EndSeen, ErrorSeen

-----------------------------------------------------------------------------
(* The gateway's steps. *)

LEMMA SameClient == ASSUME ClientType, UNCHANGED client PROVE ClientKeeps
<1>1. UNCHANGED <<life, sock, hello, retry, pending, asked, jobs, queue, active>>
  BY DEF client
<1> QED
  BY <1>1, NoRequest DEF ClientKeeps, Brings, ClientType

LEMMA AnswersWaits == ASSUME WaitInv, GatewayAnswers PROVE WaitInv'
<1> USE DEF WaitInv
<1> DEFINE Values == {"ok", "err", "accepted", "rejected", "live", "over", "aborted", "not"}
<1>1. ASSUME NEW kind \in Kinds, NEW v \in Values, Answer(kind, v), UNCHANGED gateVars, RunsOn,
             kind = "abort" /\ v = "aborted" => Over'
      PROVE  WaitInv'
  <2>1. ClientKeeps
    BY <1>1, AnswerKeeps DEF ClientKeeps, Brings
  <2> QED
    BY <1>1, <2>1, PassWaits
<1>2. Untouched => RunsOn /\ UNCHANGED gateVars
  BY SameRun DEF Untouched
<1>3. CASE /\ \E kind \in {"connect", "status", "identity", "history"}, v \in {"ok", "err"} : Answer(kind, v)
           /\ Untouched
  BY <1>1, <1>2, <1>3 DEF Kinds
<1>4. CASE (\E v \in {"rejected", "err"} : Answer("greet", v)) /\ Untouched
  BY <1>1, <1>2, <1>4 DEF Kinds
<1>5. CASE Answer("greet", "accepted") /\ run[Greeting] = "none" /\ RunBecomes(Greeting, "accepted") /\ UNCHANGED gateVars
  <2>1. RunsOn
    BY <1>5, GateAssumption DEF RunsOn, RunBecomes, Evidence, Over, Ended
  <2> QED
    BY <1>1, <1>5, <2>1 DEF Kinds
<1>6. CASE Answer("live", IF run[Greeting] \in InFlight THEN "live" ELSE "over") /\ Untouched
  BY <1>1, <1>2, <1>6 DEF Kinds
<1>7. CASE Answer("abort", "not") /\ Untouched
  BY <1>1, <1>2, <1>7 DEF Kinds
<1>8. CASE run[Greeting] \in {"aborted", "reported"} /\ Answer("abort", "aborted") /\ Untouched
  <2>1. Over'
    BY <1>8 DEF Untouched, Over, Ended
  <2> QED
    BY <1>1, <1>2, <1>8, <2>1 DEF Kinds
<1> QED
  BY <1>3, <1>4, <1>5, <1>6, <1>7, <1>8 DEF GatewayAnswers

LEMMA EndsRuns ==
  ASSUME WaitInv, NEW r \in Runs, Ends(r)
  PROVE  RunsOn /\ (r = Greeting => Over')
BY GateAssumption DEF WaitInv, Evidence, Ends, RunBecomes, RunsOn, Over, Ended, InFlight

LEMMA GatewayWaits ==
  ASSUME WaitInv,
         \/ GatewayAnswers \/ GatewayAborts \/ GatewayStreams
         \/ \E r \in Runs : GatewayStarts(r) \/ GatewayEnds(r) \/ GatewayFails(r)
  PROVE  WaitInv'
<1> USE DEF WaitInv
<1>1. CASE GatewayAborts
  <2>1. RunsOn /\ UNCHANGED <<client, gateVars>>
    BY <1>1, GateAssumption DEF GatewayAborts, RunBecomes, Evidence, RunsOn, Over, Ended
  <2> QED
    BY <2>1, SameClient, PassWaits
<1>2. CASE GatewayStreams
  <2> DEFINE g == [gate EXCEPT !.text = TRUE]
  <2>1. Holds(g) /\ UNCHANGED <<client, run>>
    BY <1>2 DEF GatewayStreams
  <2>2. /\ g.awaiting = gate.awaiting /\ g.open = gate.open /\ g.timer = gate.timer /\ g.terminal = gate.terminal
        /\ gate' = g => GateType'
    BY DEF GateType, Gates
  <2> HIDE DEF g
  <2>3. GateType' /\ ClientKeeps /\ RunsOn
    BY <2>1, <2>2, SameClient, SameRun DEF Holds
  <2> QED
    BY <2>1, <2>2, <2>3, NotesWaits DEF ClientKeeps
<1>3. ASSUME NEW r \in Runs, GatewayStarts(r) PROVE WaitInv'
  <2>1. RunsOn
    BY <1>3, GateAssumption DEF GatewayStarts, RunBecomes, Evidence, RunsOn, Over, Ended
  <2>2. ClientKeeps
    BY <1>3, SocketKeeps, SameClient DEF GatewayStarts
  <2>3. CASE UNCHANGED gateVars
    BY <2>1, <2>2, <2>3, PassWaits
  <2>4. CASE r = Greeting /\ Holds([gate EXCEPT !.started = TRUE, !.run = IF @ = NoRun THEN r ELSE @])
    <3> DEFINE g == [gate EXCEPT !.started = TRUE, !.run = IF @ = NoRun THEN r ELSE @]
    <3>1. /\ g.awaiting = gate.awaiting /\ g.open = gate.open /\ g.timer = gate.timer /\ g.terminal = gate.terminal
          /\ gate' = g => GateType'
      BY <2>4 DEF GateType, Gates
    <3>2. Holds(g)
      BY <2>4
    <3> HIDE DEF g
    <3>3. GateType'
      BY <3>1, <3>2 DEF Holds
    <3> QED
      BY <2>1, <2>2, <3>1, <3>2, <3>3, NotesWaits DEF ClientKeeps
  <2> QED
    BY <1>3, <2>3, <2>4 DEF GatewayStarts
<1>4. ASSUME NEW r \in Runs, GatewayEnds(r) PROVE WaitInv'
  <2>1. RunsOn /\ (r = Greeting => Over')
    BY <1>4, EndsRuns DEF GatewayEnds
  <2>2. ClientKeeps
    <3>1. CASE UNCHANGED client
      BY <3>1, SameClient
    <3>2. CASE RunEnds(r)
      <4>1. UNCHANGED <<life, sock, hello, retry, pending, asked, jobs>> /\ active' \in Runs \cup {NoRun}
        BY <3>2 DEF RunEnds, ClientType
      <4>2. /\ queue' \in Seq([run : Runs, active : Runs \cup {NoRun}])
            /\ \A e \in Range(queue') : e \in Range(queue) \/ e.run = r
        <5>1. CASE history
          BY <3>2, <5>1 DEF RunEnds, ClientType
        <5>2. CASE ~history
          <6> DEFINE e == [run |-> r, active |-> active]
          <6>1. queue' = Append(queue, e) /\ e \in [run : Runs, active : Runs \cup {NoRun}] /\ e.run = r
            BY <3>2, <5>2 DEF RunEnds, ClientType
          <6> HIDE DEF e
          <6>2. Range(queue') = Range(queue) \cup {e}
            BY <6>1, RangeFacts DEF ClientType
          <6> QED
            BY <6>1, <6>2 DEF ClientType
        <5> QED
          BY <5>1, <5>2
      <4> QED
        BY <2>1, <4>1, <4>2, NoRequest DEF ClientKeeps, Brings, ClientType
    <3> QED
      BY <1>4, <3>1, <3>2 DEF GatewayEnds
  <2>3. CASE UNCHANGED gateVars
    BY <2>1, <2>2, <2>3, PassWaits
  <2>4. CASE r = Greeting /\ \E reported : EndSeen(reported)
    BY <2>1, <2>2, <2>4, SeenWaits DEF ClientKeeps
  <2> QED
    BY <1>4, <2>3, <2>4 DEF GatewayEnds
<1>5. ASSUME NEW r \in Runs, GatewayFails(r) PROVE WaitInv'
  <2>1. RunsOn /\ (r = Greeting => Over')
    BY <1>5, EndsRuns DEF GatewayFails
  <2>2. ClientKeeps
    BY <1>5, SocketKeeps, SameClient DEF GatewayFails
  <2>3. CASE UNCHANGED gateVars
    BY <2>1, <2>2, <2>3, PassWaits
  <2>4. CASE r = Greeting /\ ErrorSeen(r)
    BY <2>1, <2>2, <2>4, SeenWaits DEF ClientKeeps
  <2> QED
    BY <1>5, <2>3, <2>4 DEF GatewayFails
<1> QED
  BY <1>1, <1>2, <1>3, <1>4, <1>5, AnswersWaits

-----------------------------------------------------------------------------
(* The session's steps. *)

LEMMA PreemptingFacts ==
  ASSUME NEW g \in Gates,
         NEW queued
  PROVE  LET p == Preempting(g, queued) IN
         /\ gate' = p => GateType'
         /\ p.awaiting = g.awaiting /\ p.open = g.open /\ p.timer = g.timer /\ p.terminal = g.terminal
         /\ PreemptJob(g, queued) \in Seq(Results) /\ Aborted \notin Range(PreemptJob(g, queued))
<1>1. /\ gate' = Preempting(g, queued) => GateType'
      /\ Preempting(g, queued).awaiting = g.awaiting /\ Preempting(g, queued).open = g.open
      /\ Preempting(g, queued).timer = g.timer /\ Preempting(g, queued).terminal = g.terminal
  BY DEF Preempting, GateType, Gates
<1>2. PreemptJob(g, queued) = <<>> \/ PreemptJob(g, queued) = <<Result("preempt", "ok")>>
  BY DEF PreemptJob
<1>3. <<>> \in Seq(Results) /\ <<Result("preempt", "ok")>> \in Seq(Results)
  BY DEF Results, Result
<1>4. Range(<<>>) = {} /\ Range(<<Result("preempt", "ok")>>) = {Result("preempt", "ok")}
  BY EmptyRange DEF Range
<1>5. Result("preempt", "ok") # Aborted
  BY DEF Result, Aborted
<1> QED
  BY <1>1, <1>2, <1>3, <1>4, <1>5

LEMMA UserSendWaits == ASSUME WaitInv, UserSend PROVE WaitInv'
<1> USE DEF WaitInv
<1>1. /\ UNCHANGED <<life, sock, hello, retry, pending, asked, queue, active, run>> /\ jobs = <<>>
      /\ \/ UNCHANGED <<gate, overed, jobs>>
         \/ /\ gate' = Preempting(gate, held') /\ jobs' = PreemptJob(gate, held') /\ UNCHANGED overed
  BY DEF UserSend
<1>2. RunsOn
  BY <1>1, SameRun
<1>3. \A k : Still(k)
  <2>1. \A k : RequestOut(k) => k \in pending
    BY <1>1, EmptyRange DEF RequestOut
  <2> QED
    BY <1>1, <2>1 DEF Still, RequestOut
<1>4. CASE UNCHANGED <<gate, overed, jobs>>
  <2>1. Brings
    BY <1>1, <1>4 DEF Brings, ClientType
  <2>2. GateType' /\ Waits' /\ Evidence'
    BY <1>1, <1>3, <1>4 DEF GateType, Gates, Waits, Evidence, Still, Over
  <2> QED
    BY <2>1, <2>2 DEF Brings
<1>5. CASE gate' = Preempting(gate, held') /\ jobs' = PreemptJob(gate, held') /\ UNCHANGED overed
  <2>1. /\ GateType' /\ gate'.awaiting = gate.awaiting /\ gate'.open = gate.open /\ gate'.timer = gate.timer
        /\ gate'.terminal = gate.terminal /\ jobs' \in Seq(Results) /\ Aborted \notin Range(jobs')
    BY <1>5, PreemptingFacts DEF GateType, Gates
  <2>2. ClientType' /\ Waits'
    BY <1>1, <1>3, <2>1 DEF ClientType, Waits, Still
  <2>3. Evidence'
    BY <1>1, <1>5, <2>1 DEF Evidence, Over
  <2> QED
    BY <2>1, <2>2, <2>3
<1> QED
  BY <1>1, <1>4, <1>5

LEMMA NewSessionWaits == ASSUME WaitInv, NewSession PROVE WaitInv'
<1> USE DEF WaitInv
<1>1. /\ UNCHANGED <<life, sock, hello, retry, jobs, queue, active, run>>
      /\ \/ UNCHANGED <<pending, asked, gateVars>>
         \/ Ask({"greet"}) /\ Holds(Armed)
  BY DEF NewSession
<1>2. {"greet"} \in SUBSET Kinds
  BY DEF Kinds
<1>3. ClientKeeps
  BY <1>1, <1>2, AskKeeps, NoRequest DEF ClientKeeps, Brings, ClientType
<1>4. RunsOn
  BY <1>1, SameRun
<1>5. CASE UNCHANGED gateVars
  BY <1>3, <1>4, <1>5, PassWaits
<1>6. CASE Holds(Armed)
  <2>1. /\ Armed \in Gates
        /\ ~Armed.awaiting /\ Armed.timer = "armed" /\ Armed.terminal = "none"
    <3>1. /\ NoGate \in Gates
          /\ ~NoGate.awaiting /\ NoGate.terminal = "none"
      BY DEF NoGate, Gates
    <3>2. MaxExtensions \in Int
      BY GateAssumption
    <3>3. Armed = [NoGate EXCEPT !.open = TRUE, !.timer = "armed", !.left = MaxExtensions]
      BY DEF Armed
    <3> QED
      BY <3>1, <3>2, <3>3 DEF Gates
  <2>2. GateType' /\ Waits' /\ gate'.terminal = "none"
    BY <1>6, <2>1 DEF Holds, GateType, Gates, Waits
  <2> QED
    BY <1>3, <1>4, <1>6, <2>2, HoldWaits DEF ClientKeeps
<1> QED
  BY <1>1, <1>5, <1>6

LEMMA DeadlineWaits == ASSUME WaitInv, Deadline PROVE WaitInv'
<1> USE DEF WaitInv
<1>1. /\ UNCHANGED <<life, sock, hello, retry, jobs, queue, active, run>>
      /\ \/ Flush("deadline") /\ UNCHANGED <<pending, asked>>
         \/ Holds([gate EXCEPT !.timer = "asking"]) /\ Ask({"live"})
  BY DEF Deadline
<1>2. {"live"} \in SUBSET Kinds
  BY DEF Kinds
<1>3. ClientKeeps
  BY <1>1, <1>2, AskKeeps, NoRequest DEF ClientKeeps, Brings, ClientType
<1>4. RunsOn
  BY <1>1, SameRun
<1>5. CASE Flush("deadline")
  BY <1>3, <1>4, <1>5, FlushWaits DEF ClientKeeps
<1>6. CASE Holds([gate EXCEPT !.timer = "asking"]) /\ Ask({"live"})
  <2>1. gate' = [gate EXCEPT !.timer = "asking"] /\ RequestOut("live")'
    BY <1>6 DEF Holds, Ask, RequestOut
  <2>2. GateType' /\ gate'.timer = "asking" /\ gate'.awaiting = gate.awaiting /\ gate'.open = gate.open
        /\ gate'.terminal = gate.terminal
    BY <2>1 DEF GateType, Gates
  <2>3. Waits'
    BY <1>3, <2>1, <2>2 DEF Waits, ClientKeeps, Still
  <2>4. gate'.terminal = "greeting_end" => Over'
    BY <1>4, <2>2 DEF Evidence, RunsOn
  <2> QED
    BY <1>3, <1>4, <1>6, <2>2, <2>3, <2>4, HoldWaits DEF ClientKeeps
<1> QED
  BY <1>1, <1>5, <1>6

LEMMA ContinueBrings ==
  ASSUME WaitInv, NEW kind, Continues(kind), active' \in {active, Greeting}, jobs' = Tail(jobs),
         pending \subseteq pending', pending' \cup asked' \subseteq Kinds
  PROVE  /\ Brings /\ RunsOn /\ \A k : k # kind => Still(k)
         /\ Head(jobs) \in Range(jobs) /\ Head(jobs).kind = kind /\ Head(jobs) \in Results
<1>1. /\ IsJob(kind) /\ UNCHANGED <<life, sock, hello, retry, queue, run>>
      /\ active \in Runs \cup {NoRun} => active' \in Runs \cup {NoRun}
  BY GateAssumption DEF Continues
<1>2. ClientType /\ Evidence
  BY DEF WaitInv
<1>3. /\ jobs' \in Seq(Results) /\ Head(jobs) \in Range(jobs) /\ Head(jobs) \in Results
      /\ Range(jobs') \subseteq Range(jobs) /\ \A k : k # kind => Still(k)
  BY <1>1, <1>2, Consumes
<1> QED
  BY <1>1, <1>2, <1>3, SameRun DEF Brings, ClientType, IsJob

LEMMA GreetWaits == ASSUME WaitInv, GreetAccepted \/ GreetRefused PROVE WaitInv'
<1> USE DEF WaitInv
<1>1. CASE GreetRefused
  <2>1. Brings /\ RunsOn
    BY <1>1, ContinueBrings DEF GreetRefused, Continue, ClientType
  <2>2. PICK reason \in {"greeting_send_rejected", "session_reset"} : FlushIfOpen(reason)
    BY <1>1 DEF GreetRefused
  <2> QED
    BY <2>1, <2>2, QuietFlush
<1>2. CASE GreetAccepted /\ ~gate.open
  <2>1. /\ Brings /\ RunsOn /\ Still("abort") /\ Still("live") /\ UNCHANGED gateVars
    BY <1>2, ContinueBrings DEF GreetAccepted, RunAccepted, ClientType
  <2> QED
    BY <2>1, PassWaits DEF ClientKeeps
<1>3. CASE GreetAccepted /\ gate.open
  <2> DEFINE g == [gate EXCEPT !.started = TRUE, !.run = Greeting, !.acked = TRUE]
             more == PreemptJob(g, held)
  <2>1. /\ Continues("greet") /\ active' = Greeting
        /\ Holds(Preempting(g, held)) /\ jobs' = Tail(jobs) \o more
        /\ UNCHANGED <<pending, asked>>
    BY <1>3 DEF GreetAccepted, RunAccepted
  <2>2. g \in Gates
        /\ g.awaiting = gate.awaiting /\ g.open = gate.open /\ g.timer = gate.timer /\ g.terminal = gate.terminal
    BY DEF GateType, Gates
  <2> HIDE DEF g
  <2>3. /\ gate' = Preempting(g, held) => GateType'
        /\ Preempting(g, held).awaiting = gate.awaiting /\ Preempting(g, held).open = gate.open
        /\ Preempting(g, held).timer = gate.timer /\ Preempting(g, held).terminal = gate.terminal
        /\ more \in Seq(Results) /\ Aborted \notin Range(more)
    BY <2>2, PreemptingFacts
  <2> HIDE DEF more
  <2>4. /\ IsJob("greet") /\ UNCHANGED <<life, sock, hello, retry, queue, run>>
        /\ active' \in Runs
    BY <2>1, GateAssumption DEF Continues
  <2>5. /\ Range(jobs) = {Head(jobs)} \cup Range(Tail(jobs)) /\ Tail(jobs) \in Seq(Results) /\ Head(jobs).kind = "greet"
    BY <2>4, RangeFacts DEF IsJob, ClientType
  <2>6. jobs' \in Seq(Results) /\ Range(jobs') = Range(Tail(jobs)) \cup Range(more)
    <3> DEFINE u == Tail(jobs)
    <3>0. u \in Seq(Results)
      BY <2>5
    <3> HIDE DEF u
    <3>1. \A t \in Seq(Results) : Range(u \o t) = Range(u) \cup Range(t)
      BY <3>0, RangeFacts
    <3>2. jobs' \in Seq(Results)
      BY <2>1, <2>3, <2>5
    <3> QED
      BY <2>1, <2>3, <3>1, <3>2 DEF u
  <2>7. Brings /\ RunsOn
    BY <2>1, <2>3, <2>4, <2>5, <2>6, SameRun DEF Brings, ClientType
  <2>8. Still("abort") /\ Still("live")
    BY <2>1, <2>5, <2>6 DEF Still, RequestOut
  <2>9. GateType'
    BY <2>1, <2>3 DEF Holds
  <2> QED
    BY <2>1, <2>3, <2>7, <2>8, <2>9, NotesWaits
<1> QED
  BY <1>1, <1>2, <1>3

LEMMA PreemptWaits == ASSUME WaitInv, Preempt PROVE WaitInv'
<1> USE DEF WaitInv
<1>1. /\ Continue("preempt") /\ jobs' = Tail(jobs)
      /\ \/ UNCHANGED <<gateVars, pending, asked>>
         \/ gate.open /\ Holds([gate EXCEPT !.awaiting = TRUE]) /\ Ask({"abort"})
  BY DEF Preempt
<1>2. {"abort"} \in SUBSET Kinds
  BY DEF Kinds
<1>3. pending \subseteq pending' /\ pending' \cup asked' \subseteq Kinds
  BY <1>1, <1>2, AskKeeps DEF ClientType
<1>4. Brings /\ RunsOn /\ Still("abort") /\ Still("live")
  BY <1>1, <1>3, ContinueBrings DEF Continue
<1>5. CASE UNCHANGED gateVars
  BY <1>4, <1>5, PassWaits DEF ClientKeeps
<1>6. CASE gate.open /\ Holds([gate EXCEPT !.awaiting = TRUE]) /\ Ask({"abort"})
  <2>1. gate' = [gate EXCEPT !.awaiting = TRUE] /\ RequestOut("abort")'
    BY <1>6 DEF Holds, Ask, RequestOut
  <2>2. GateType' /\ gate'.open /\ gate'.timer = gate.timer /\ gate'.terminal = gate.terminal
    BY <1>6, <2>1 DEF GateType, Gates
  <2>3. Waits'
    BY <1>4, <1>6, <2>1, <2>2 DEF Waits, Still
  <2>4. gate'.terminal = "greeting_end" => Over'
    BY <1>4, <2>2 DEF Evidence, RunsOn
  <2> QED
    BY <1>4, <1>6, <2>2, <2>3, <2>4, HoldWaits
<1> QED
  BY <1>1, <1>5, <1>6

LEMMA AbortAnsweredWaits == ASSUME WaitInv, AbortAnswered PROVE WaitInv'
<1> USE DEF WaitInv
<1>1. /\ Brings /\ RunsOn /\ Still("live") /\ Head(jobs) \in Range(jobs) /\ Head(jobs).kind = "abort" /\ Head(jobs) \in Results
  BY ContinueBrings DEF AbortAnswered, Continue, ClientType
<1>2. CASE Head(jobs).value = "aborted" /\ FlushIfOpen("greeting_aborted")
  <2>1. Head(jobs) = Aborted
    BY <1>1, <1>2 DEF Aborted, Result, Results
  <2>2. Over'
    BY <1>1, <2>1 DEF Evidence, RunsOn
  <2>3. CASE gate.open
    BY <1>1, <1>2, <2>2, <2>3, FlushWaits DEF FlushIfOpen
  <2>4. CASE ~gate.open
    <3>1. FlushIfOpen("deadline")
      BY <1>2, <2>4 DEF FlushIfOpen
    <3> QED
      BY <1>1, <3>1, QuietFlush
  <2> QED
    BY <2>3, <2>4
<1>3. CASE ~gate.awaiting /\ UNCHANGED gateVars
  <2>1. UNCHANGED <<gate, overed>>
    BY <1>3 DEF gateVars
  <2>2. Waits' /\ GateType'
    BY <1>1, <1>3, <2>1 DEF Waits, Still, GateType, Gates
  <2>3. Evidence'
    BY <1>1, <2>1 DEF Evidence, Brings, RunsOn
  <2> QED
    BY <1>1, <2>2, <2>3 DEF Brings
<1>4. CASE gate.terminal # "none" /\ Flush(gate.terminal)
  <2>1. gate.terminal \in {"greeting_end", "greeting_aborted"} => Over'
    BY <1>1 DEF GateType, Gates, Evidence, RunsOn
  <2> QED
    BY <1>1, <1>4, <2>1, FlushWaits
<1>5. CASE Holds([gate EXCEPT !.awaiting = FALSE])
  <2>1. gate' = [gate EXCEPT !.awaiting = FALSE]
    BY <1>5 DEF Holds
  <2>2. GateType' /\ ~gate'.awaiting /\ gate'.open = gate.open /\ gate'.timer = gate.timer /\ gate'.terminal = gate.terminal
    BY <2>1 DEF GateType, Gates
  <2>3. Waits' /\ (gate'.terminal = "greeting_end" => Over')
    BY <1>1, <2>2 DEF Waits, Still, Evidence, RunsOn
  <2> QED
    BY <1>1, <1>5, <2>2, <2>3, HoldWaits
<1>6. ~gate.open => ~gate.awaiting
  BY DEF Waits
<1> QED
  BY <1>2, <1>3, <1>4, <1>5, <1>6 DEF AbortAnswered

LEMMA LiveAnsweredWaits == ASSUME WaitInv, LiveAnswered PROVE WaitInv'
<1> USE DEF WaitInv
<1>1. Brings /\ RunsOn /\ Still("abort")
  BY ContinueBrings DEF LiveAnswered, Continue, ClientType
<1>2. CASE FlushIfOpen("deadline")
  BY <1>1, <1>2, QuietFlush
<1>3. CASE gate.open /\ Holds([gate EXCEPT !.timer = "armed", !.left = @ - 1])
  <2>1. gate' = [gate EXCEPT !.timer = "armed", !.left = gate.left - 1]
    BY <1>3 DEF Holds
  <2>2. GateType' /\ gate'.open /\ gate'.timer = "armed" /\ gate'.terminal = gate.terminal /\ gate'.awaiting = gate.awaiting
    <3>1. gate.left \in Int /\ gate.left - 1 \in Int
      BY DEF GateType, Gates
    <3> DEFINE l == gate.left - 1
    <3> HIDE DEF l
    <3>2. gate' = [gate EXCEPT !.timer = "armed", !.left = l] /\ l \in Int
      BY <2>1, <3>1 DEF l
    <3> QED
      BY <1>3, <3>2 DEF GateType, Gates
  <2>3. Waits' /\ (gate'.terminal = "greeting_end" => Over')
    BY <1>1, <1>3, <2>2 DEF Waits, Still, Evidence, RunsOn
  <2> QED
    BY <1>1, <1>3, <2>2, <2>3, HoldWaits
<1> QED
  BY <1>2, <1>3 DEF LiveAnswered

LEMMA DrainsWaits == ASSUME WaitInv, DrainsEnds PROVE WaitInv'
<1> USE DEF WaitInv
<1>1. /\ IsJob("history") /\ jobs' = Tail(jobs) /\ queue' = <<>> /\ active' \in {active, NoRun}
      /\ UNCHANGED <<life, sock, hello, retry, pending, asked, run>>
  BY DEF DrainsEnds, HistoryResolved
<1>2. /\ jobs' \in Seq(Results) /\ Range(jobs') \subseteq Range(jobs) /\ \A k : k # "history" => Still(k)
  BY <1>1, Consumes
<1>3. Brings /\ RunsOn /\ Still("abort") /\ Still("live")
  BY <1>1, <1>2, EmptyRange, SameRun DEF Brings, ClientType
<1>4. CASE UNCHANGED gateVars
  BY <1>3, <1>4, PassWaits DEF ClientKeeps
<1>5. ASSUME NEW e \in Range(queue), e.run = Greeting, EndSeen(Reported(e)) PROVE WaitInv'
  <2>1. Over'
    BY <1>3, <1>5 DEF Evidence, RunsOn
  <2> QED
    BY <1>3, <1>5, <2>1, SeenWaits
<1> QED
  BY <1>4, <1>5 DEF DrainsEnds

LEMMA NextWaits == WaitInv /\ [Next]_vars => WaitInv'
<1> SUFFICES ASSUME WaitInv, [Next]_vars PROVE WaitInv'
  OBVIOUS
<1>0. ClientType /\ Evidence
  BY DEF WaitInv
<1>1. Untouched /\ ClientKeeps => WaitInv'
  BY <1>0, SameRun, PassWaits DEF Untouched
<1>2. CASE (Start /\ Untouched) \/ (BootRetry /\ Untouched) \/ Socket
  BY <1>0, <1>1, <1>2, SocketKeeps DEF Socket
<1>3. ASSUME NEW kind \in Kinds, Timeouts(kind) PROVE WaitInv'
  <2>1. ClientKeeps
    BY <1>0, <1>3, AnswerKeeps DEF Timeouts, ClientKeeps, Brings
  <2> QED
    BY <1>1, <1>3, <2>1 DEF Timeouts
<1>4. CASE Disconnects(Reconnect) \/ Disconnects(SocketCloses) \/ Disconnects(Shutdown) \/ Disconnects(Stop)
  <2>1. Brings /\ RunsOn /\ FlushIfOpen("upstream_disconnected")
    BY <1>0, <1>4, DropKeeps, SameRun DEF Disconnects
  <2> QED
    BY <2>1, QuietFlush
<1>5. CASE Job
  BY <1>0, <1>1, <1>5, JobKeeps, DrainsWaits, GreetWaits, PreemptWaits, AbortAnsweredWaits, LiveAnsweredWaits DEF Job
<1>6. CASE Evict
  <2>1. UNCHANGED <<client, run>> /\ Flush("session_reset")
    BY <1>6 DEF Evict
  <2> QED
    BY <1>0, <2>1, SameClient, SameRun, FlushWaits DEF ClientKeeps
<1>7. CASE UNCHANGED vars
  <2>1. UNCHANGED client /\ UNCHANGED run /\ UNCHANGED gateVars
    BY <1>7 DEF vars, gateVars
  <2> QED
    BY <1>0, <2>1, SameClient, SameRun, PassWaits DEF ClientKeeps
<1> QED
  BY <1>2, <1>3, <1>4, <1>5, <1>6, <1>7, NewSessionWaits, UserSendWaits, DeadlineWaits, GatewayWaits DEF Next

LEMMA InitWaits == Init => WaitInv
<1> SUFFICES ASSUME Init PROVE WaitInv
  OBVIOUS
<1>1. ClientType
  BY DEF Init, ClientInit, ClientType
<1>2. GateType /\ Waits
  BY NoGateType DEF Init, Waits
<1>3. Evidence
  BY <1>2, EmptyRange, NoGateType DEF Init, ClientInit, Evidence
<1> QED
  BY <1>1, <1>2, <1>3 DEF WaitInv

LEMMA WaitsAlways == Spec => []WaitInv
BY InitWaits, NextWaits, PTL DEF Spec

\* The gate and the requests it waits for keep to each other, and a started client
\* without a socket has a reconnection armed (greeting-send-gate.cjs, onDeadline and
\* holdForAbortReceipt; openclaw-client.cjs, _flushPendingErrors): no gate is left
\* without a timer, whatever is dropped, late or refused.
THEOREM GateCorrect == Spec => []GateInv
<1>1. Spec => []OrderInv
  BY InitOrder, NextOrder, PTL DEF Spec
<1>2. OrderInv /\ WaitInv => GateInv
  BY DEF OrderInv, WaitInv, ClientType, GateType, Gates, Waits, GateInv
<1> QED
  BY <1>1, <1>2, WaitsAlways, PTL

\* A gate that says that the greeting ended or was aborted is right about the gateway:
\* what opened it (an end, one that was captured before the history, the receipt of an
\* abort, an end noted while the receipt was on its way) is evidence of the run's end.
THEOREM ReleaseCorrect == Spec => []ReleasedWhenOver
<1>1. WaitInv => ReleasedWhenOver
  BY DEF WaitInv, Evidence, Over, ReleasedWhenOver
<1> QED
  BY <1>1, WaitsAlways, PTL
=============================================================================
