----------------------------- MODULE RelaySend -----------------------------
(***************************************************************************)
(* A message a phone sends, from the relay's worker thread to the main     *)
(* thread and back (relay-worker-transport.cjs, relay-worker-queue.cjs,    *)
(* relay-worker-supervisor.cjs, relay-operation-registry.cjs).             *)
(*                                                                         *)
(* The worker owns the sockets and a queue of sends main has not           *)
(* acknowledged; it answers for main when main is late.  Main's registry   *)
(* remembers every operation it began, so that a copy of a send is not     *)
(* begun again.  The two exchange messages over a FIFO port each way.  The *)
(* worker thread may die: its queue, its sockets and what main posted to   *)
(* it are lost, the registry is not, and what the worker posted is handled *)
(* before main sees the exit.                                              *)
(*                                                                         *)
(* Timers are nondeterministic: an entry of the queue may expire whenever  *)
(* it is there.  The registry forgets an operation after 90 s; the model   *)
(* covers one such window.                                                 *)
(***************************************************************************)
EXTENDS Naturals, Sequences, FiniteSets

CONSTANTS
  Phones, Requests,
  Owner,        \* the phone a request id belongs to
  MaxEntries,   \* messageSendMaxEntries
  MaxInFlight,  \* bound: messages between the threads when a phone sends
  MaxDrops,     \* bound: sockets that break
  MaxCrashes    \* bound: deaths of the worker thread

ASSUME OwnerAssumption == Owner \in [Requests -> Phones]
ASSUME PhonesAssumption == IsFiniteSet(Phones)
ASSUME BoundsAssumption ==
  MaxEntries \in Nat /\ MaxInFlight \in Nat /\ MaxDrops \in Nat /\ MaxCrashes \in Nat

WorkerVerdicts == {"timeout", "full", "restarted"}
Finals == {"accepted", "rejected"} \cup WorkerVerdicts
Receipts == {"worker_receipt", "main_receipt"}

VARIABLES
  worker,     \* "up", or "dead" until main has seen the exit and spawned another
  conn,       \* per phone: its client id with this worker, 0 when not connected
  nextId,     \* client ids count from 1 in every worker
  queued,     \* the worker's entries: the client id of the send, 0 when none
  retained,   \* finals the worker gave itself and still repeats
  toMain, toWorker,
  registry,   \* main: what became of an operation
  replyTo,    \* main: the client id a running operation will answer
  runs,       \* history: how often main began the operation
  told,       \* what the phone has been told of its request
  asked,      \* requests a phone listed when it resumed, unanswered so far
  drops, crashes

vars == <<worker, conn, nextId, queued, retained, toMain, toWorker, registry,
          replyTo, runs, told, asked, drops, crashes>>

ClientIds == 0..(Cardinality(Phones) + MaxDrops)

SendCopy(r, c) == [kind |-> "send", req |-> r, client |-> c]
Reconcile(rs, c) == [kind |-> "reconcile", reqs |-> rs, client |-> c]
Frame(k, r, c) == [kind |-> k, req |-> r, client |-> c]
Result(rs, c) == [kind |-> "result", answer |-> [r \in rs |-> registry[r]], client |-> c]

SeqRange(s) == {s[i] : i \in DOMAIN s}
Copies(r) == {i \in DOMAIN toMain : toMain[i].kind = "send" /\ toMain[i].req = r}

Answered(r) == told[r] \cap Finals # {}
\* The phone knows the worker has the request and nothing more.
WorkerOnly(r) == told[r] = {"worker_receipt"}
RequestsOf(p) == {r \in Requests : Owner[r] = p}

\* A frame for client c about r reaches the phone that is waiting for it.  Ids
\* start again with every worker: a late one may name another phone.
Reaches(c, r) == c # 0 /\ conn[Owner[r]] = c
Tell(c, r, v) ==
  /\ told' = IF Reaches(c, r) THEN [told EXCEPT ![r] = @ \cup v] ELSE told
  /\ asked' = IF Reaches(c, r) THEN asked \ {r} ELSE asked

\* Mutant: one message to the worker at a time.
PostWhenIdle(fs) == IF worker = "up" /\ toWorker = <<>> THEN fs ELSE toWorker

\* postToWorker.
Post(fs) == IF worker = "up" THEN toWorker \o fs ELSE toWorker

Init ==
  /\ worker = "up"
  /\ conn = [p \in Phones |-> 0]
  /\ nextId = 1
  /\ queued = [r \in Requests |-> 0]
  /\ retained = [r \in Requests |-> "none"]
  /\ toMain = <<>> /\ toWorker = <<>>
  /\ registry = [r \in Requests |-> "none"]
  /\ replyTo = [r \in Requests |-> 0]
  /\ runs = [r \in Requests |-> 0]
  /\ told = [r \in Requests |-> {}]
  /\ asked = {}
  /\ drops = 0 /\ crashes = 0

-----------------------------------------------------------------------------
(* The phone and its socket. *)

\* Mutant: the pending requests of a reconnecting phone are not asked about.
ConnectForgets(p) ==
  /\ worker = "up" /\ conn[p] = 0
  /\ conn' = [conn EXCEPT ![p] = nextId]
  /\ nextId' = nextId + 1
  /\ UNCHANGED <<worker, queued, retained, toMain, toWorker, registry, replyTo,
                 runs, told, asked, drops, crashes>>

\* A phone connects and resumes, listing the requests of which it knows only that
\* a worker had them; the worker asks main about those.
Connect(p) ==
  /\ worker = "up" /\ conn[p] = 0
  /\ conn' = [conn EXCEPT ![p] = nextId]
  /\ nextId' = nextId + 1
  /\ LET pending == {r \in RequestsOf(p) : WorkerOnly(r)}
     IN /\ asked' = asked \cup pending
        /\ toMain' = IF pending = {} THEN toMain
                     ELSE Append(toMain, Reconcile(pending, nextId))
  /\ UNCHANGED <<worker, queued, retained, toWorker, registry, replyTo, runs,
                 told, drops, crashes>>

Disconnect(p) ==
  /\ conn[p] # 0 /\ drops < MaxDrops
  /\ conn' = [conn EXCEPT ![p] = 0]
  /\ asked' = asked \ RequestsOf(p)
  /\ drops' = drops + 1
  /\ UNCHANGED <<worker, nextId, queued, retained, toMain, toWorker, registry,
                 replyTo, runs, told, crashes>>

\* The phone sends, or sends again, a request it has no final for and is not
\* already asking about.  handleSend: a final the worker gave is repeated; a
\* request it holds is forwarded again; a new one needs room in the queue.
Send(r) ==
  LET c == conn[Owner[r]]
      held == {q \in Requests : queued[q] # 0}
      forward == toMain' = Append(toMain, SendCopy(r, c))
  IN /\ c # 0 /\ ~Answered(r) /\ r \notin asked
     /\ Len(toMain) + Len(toWorker) < MaxInFlight
     /\ \/ /\ retained[r] # "none"
           /\ Tell(c, r, {retained[r]})
           /\ UNCHANGED <<queued, retained, toMain>>
        \/ /\ retained[r] = "none" /\ r \in held
           /\ Tell(c, r, {"worker_receipt"})
           /\ forward
           /\ UNCHANGED <<queued, retained>>
        \/ /\ retained[r] = "none" /\ r \notin held
           /\ Cardinality(held) >= MaxEntries
           /\ retained' = [retained EXCEPT ![r] = "full"]
           /\ Tell(c, r, {"full"})
           /\ UNCHANGED <<queued, toMain>>
        \/ /\ retained[r] = "none" /\ r \notin held
           /\ Cardinality(held) < MaxEntries
           /\ queued' = [queued EXCEPT ![r] = c]
           /\ Tell(c, r, {"worker_receipt"})
           /\ forward
           /\ UNCHANGED retained
     /\ UNCHANGED <<worker, conn, nextId, toWorker, registry, replyTo, runs, drops,
                    crashes>>

-----------------------------------------------------------------------------
(* The worker. *)

\* expire(): the entry's TTL passed; the worker answers for main.  Main still has
\* the copy that was forwarded.
Expire(r) ==
  /\ worker = "up" /\ queued[r] # 0
  /\ queued' = [queued EXCEPT ![r] = 0]
  /\ retained' = [retained EXCEPT ![r] = "timeout"]
  /\ Tell(queued[r], r, {"timeout"})
  /\ UNCHANGED <<worker, conn, nextId, toMain, toWorker, registry, replyTo, runs,
                 drops, crashes>>

\* pruneRetainedFinals.
ForgetFinal(r) ==
  /\ retained[r] # "none"
  /\ retained' = [retained EXCEPT ![r] = "none"]
  /\ UNCHANGED <<worker, conn, nextId, queued, toMain, toWorker, registry,
                 replyTo, runs, told, asked, drops, crashes>>

\* handleMainMessage, main.frame: a receipt or a final of main settles the entry,
\* whichever client it is for, and is passed on if the client is still there.
SettlesEntry(f) == f.kind \in {"main_receipt", "accepted", "rejected"}
TakeFrame ==
  /\ worker = "up" /\ toWorker # <<>> /\ Head(toWorker).kind # "result"
  /\ LET f == Head(toWorker)
     IN /\ queued' = IF SettlesEntry(f) THEN [queued EXCEPT ![f.req] = 0] ELSE queued
        /\ Tell(f.client, f.req, {f.kind})
  /\ toWorker' = Tail(toWorker)
  /\ UNCHANGED <<worker, conn, nextId, retained, toMain, registry, replyTo, runs,
                 drops, crashes>>

\* Mutant: an operation main began but did not finish counts as unknown.
KnownFinal(a) == a \in {"accepted", "rejected"}

\* reconcileOldEpochPending: what main does not know is rejected, and the
\* rejection retained.
Known(a) == a # "none"
AnswerOf(a) == CASE ~Known(a) -> {"restarted"}
                 [] a = "open" -> {"main_receipt"}
                 [] OTHER -> {"main_receipt", a}
TakeResult ==
  /\ worker = "up" /\ toWorker # <<>> /\ Head(toWorker).kind = "result"
  /\ LET f == Head(toWorker)
         rs == DOMAIN f.answer
         here == {r \in rs : Reaches(f.client, r)}
     IN /\ retained' = [r \in Requests |->
             IF r \in rs /\ ~Known(f.answer[r]) THEN "restarted" ELSE retained[r]]
        /\ told' = [r \in Requests |->
             IF r \in here THEN told[r] \cup AnswerOf(f.answer[r]) ELSE told[r]]
        /\ asked' = asked \ here
  /\ toWorker' = Tail(toWorker)
  /\ UNCHANGED <<worker, conn, nextId, queued, toMain, registry, replyTo, runs,
                 drops, crashes>>

-----------------------------------------------------------------------------
(* Main. *)

\* Mutant: every copy begins the operation again.
BeginAlways(r) == TRUE

\* beginMessageSend: is this the first copy?
Begins(r) == registry[r] = "none"

\* Mutant: main acknowledges only the first copy.
ReceiptOnce(r, c) == IF registry[r] = "none" THEN <<Frame("main_receipt", r, c)>> ELSE <<>>

\* The supervisor acknowledges every copy before it is handled.
ReceiptFor(r, c) == <<Frame("main_receipt", r, c)>>

\* handleSend: refused while the backend is away, before it is registered; begun;
\* or a copy, which is answered with what is known.
TakeSend ==
  /\ toMain # <<>> /\ Head(toMain).kind = "send"
  /\ LET r == Head(toMain).req
         c == Head(toMain).client
     IN \/ /\ toWorker' = Post(ReceiptFor(r, c) \o <<Frame("rejected", r, c)>>)
           /\ UNCHANGED <<registry, replyTo, runs>>
        \/ /\ Begins(r)
           /\ toWorker' = Post(ReceiptFor(r, c))
           /\ registry' = [registry EXCEPT ![r] = "open"]
           /\ replyTo' = [replyTo EXCEPT ![r] = c]
           /\ runs' = [runs EXCEPT ![r] = @ + 1]
        \/ /\ ~Begins(r)
           /\ toWorker' = Post(ReceiptFor(r, c) \o
                IF registry[r] = "open" THEN <<>> ELSE <<Frame(registry[r], r, c)>>)
           /\ UNCHANGED <<registry, replyTo, runs>>
  /\ toMain' = Tail(toMain)
  /\ UNCHANGED <<worker, conn, nextId, queued, retained, told, asked, drops, crashes>>

\* operation.reconcile.
TakeReconcile ==
  /\ toMain # <<>> /\ Head(toMain).kind = "reconcile"
  /\ LET m == Head(toMain)
     IN toWorker' = Post(<<Result(m.reqs, m.client)>>)
  /\ toMain' = Tail(toMain)
  /\ UNCHANGED <<worker, conn, nextId, queued, retained, registry, replyTo, runs,
                 told, asked, drops, crashes>>

\* Mutant: the final is not kept.
FinishForgets(r, final) ==
  /\ registry[r] = "open"
  /\ registry' = [registry EXCEPT ![r] = "none"]
  /\ toWorker' = Post(<<Frame(final, r, replyTo[r])>>)
  /\ UNCHANGED <<worker, conn, nextId, queued, retained, toMain, replyTo, runs,
                 told, asked, drops, crashes>>

\* onSend settles: the final is kept and sent to the client that began it.
Finish(r, final) ==
  /\ registry[r] = "open"
  /\ registry' = [registry EXCEPT ![r] = final]
  /\ toWorker' = Post(<<Frame(final, r, replyTo[r])>>)
  /\ UNCHANGED <<worker, conn, nextId, queued, retained, toMain, replyTo, runs,
                 told, asked, drops, crashes>>

-----------------------------------------------------------------------------
(* The worker thread dies and is replaced. *)

WorkerDies ==
  /\ worker = "up" /\ crashes < MaxCrashes
  /\ worker' = "dead"
  /\ crashes' = crashes + 1
  /\ conn' = [p \in Phones |-> 0]
  /\ queued' = [r \in Requests |-> 0]
  /\ retained' = [r \in Requests |-> "none"]
  /\ toWorker' = <<>>
  /\ asked' = {}
  /\ UNCHANGED <<nextId, toMain, registry, replyTo, runs, told, drops>>

\* The exit event comes after the port is drained.
WorkerRestarts ==
  /\ worker = "dead" /\ toMain = <<>>
  /\ worker' = "up"
  /\ nextId' = 1
  /\ UNCHANGED <<conn, queued, retained, toMain, toWorker, registry, replyTo,
                 runs, told, asked, drops, crashes>>

MainStep == TakeSend \/ TakeReconcile
WorkerStep == TakeFrame \/ TakeResult

Next ==
  \/ \E p \in Phones : Connect(p) \/ Disconnect(p)
  \/ \E r \in Requests : Send(r) \/ Expire(r) \/ ForgetFinal(r)
  \/ \E r \in Requests, final \in {"accepted", "rejected"} : Finish(r, final)
  \/ MainStep \/ WorkerStep
  \/ WorkerDies \/ WorkerRestarts

Spec == Init /\ [][Next]_vars

\* Both threads run, operations settle, a dead worker is replaced and phones
\* reconnect.  Nobody has to send twice, and no timer has to fire.
Fairness ==
  /\ WF_vars(MainStep) /\ WF_vars(WorkerStep) /\ WF_vars(WorkerRestarts)
  /\ \A p \in Phones : WF_vars(Connect(p))
  /\ \A r \in Requests : WF_vars(\E final \in {"accepted", "rejected"} : Finish(r, final))

FairSpec == Spec /\ Fairness
-----------------------------------------------------------------------------
(* Properties. *)

\* Every variable keeps its type.
TypeOK ==
  /\ worker \in {"up", "dead"}
  /\ conn \in [Phones -> ClientIds] /\ nextId \in 1..(Cardinality(Phones) + MaxDrops + 1)
  /\ queued \in [Requests -> ClientIds]
  /\ retained \in [Requests -> WorkerVerdicts \cup {"none"}]
  /\ registry \in [Requests -> {"none", "open", "accepted", "rejected"}]
  /\ replyTo \in [Requests -> ClientIds]
  /\ runs \in [Requests -> Nat]
  /\ told \in [Requests -> SUBSET (Finals \cup Receipts)]
  /\ asked \subseteq Requests
  /\ \A f \in SeqRange(toMain) : f.kind \in {"send", "reconcile"} /\ f.client \in ClientIds
  /\ \A f \in SeqRange(toWorker) :
       f.kind \in {"main_receipt", "accepted", "rejected", "result"} /\ f.client \in ClientIds
  /\ drops \in 0..MaxDrops /\ crashes \in 0..MaxCrashes

\* However often a request is sent, forwarded, expired, reconciled and sent again
\* over restarted workers, main begins it once.
RunsOnce == \A r \in Requests : runs[r] <= 1

\* An entry is in the worker's queue only while something that will settle it is
\* on its way: otherwise it would expire, and the phone be told `timeout', though
\* main had answered.
EntryIsOutstanding ==
  /\ TypeOK
  /\ \A r \in Requests : queued[r] # 0 =>
       \/ Copies(r) # {}
       \/ \E f \in SeqRange(toWorker) : SettlesEntry(f) /\ f.req = r

\* A phone told that the worker restarted before main accepted its message was
\* told the truth: main had not begun it and never will.
RestartVerdictIsTrue ==
  \A r \in Requests : "restarted" \in told[r] => runs[r] = 0 /\ Copies(r) = {}

\* A phone is told `accepted' only of a message main did begin and whose final
\* main keeps: asking again gets the same answer.
AcceptedIsKept ==
  \A r \in Requests : "accepted" \in told[r] => runs[r] = 1 /\ registry[r] = "accepted"

\* Unless a socket breaks or the worker dies, every message sent gets a final
\* though it is sent only once.
EverySendIsAnswered ==
  \A r \in Requests : told[r] # {} ~> Answered(r) \/ drops + crashes > 0

\* However the sockets break and the worker dies, a phone does not stay with a
\* worker's receipt alone: it hears of main, or is told the message was lost.
NoneIsForgotten ==
  \A r \in Requests : WorkerOnly(r) ~> ~WorkerOnly(r)
=============================================================================
