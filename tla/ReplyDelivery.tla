---------------------------- MODULE ReplyDelivery ----------------------------
(***************************************************************************)
(* The evidence that a reply reached the glasses (reply-delivery.cjs, its  *)
(* coordinator, hermes-reply-delivery-link.cjs, and the records kept by    *)
(* first_run.py).                                                          *)
(*                                                                         *)
(* The gateway publishes a finished phone turn as the current candidate    *)
(* and asks the relay to observe it.  The relay waits for the reply to be  *)
(* in the conversation, sends a probe to the client the message came from  *)
(* and takes its receipt; each observation settles and is reported to the  *)
(* gateway, which keeps one record, of the current candidate.  Meanwhile   *)
(* entries are revised, clients come and go, the worker that holds the     *)
(* sockets restarts, deadlines pass and reports are lost.                  *)
(***************************************************************************)
EXTENDS Integers, FiniteSets, Sequences, SequencesExt

CONSTANTS
  Runs,         \* phone turns
  Phones,
  Capable,      \* phones that answer probes
  Shapes,       \* states of an entry: some of none, blank, local and text
  None,
  MaxIds,       \* bound: connections of one worker epoch
  MaxRev,       \* bound: revisions of a reply
  MaxAttempts,  \* maxAttempts of a report
  MaxFailures,  \* bound: reports and answers the link loses
  MaxCrashes    \* bound: worker restarts

ASSUME PhonesAssumption == Capable \subseteq Phones /\ None \notin Phones \cup Runs
ASSUME RunsAssumption == IsFiniteSet(Runs)
ASSUME ShapesAssumption == {"none", "text"} \subseteq Shapes
                           /\ Shapes \subseteq {"none", "blank", "local", "text"}
ASSUME BoundsAssumption == /\ MaxIds \in Nat /\ MaxRev \in Nat /\ MaxFailures \in Nat
                           /\ MaxCrashes \in Nat /\ MaxAttempts \in Nat \ {0}

Ids == 1..MaxIds
Statuses == {"accepted", "unconfirmed", "unsupported"}

VARIABLES
  holder,    \* client id |-> the phone that is connected under it
  nextId, crashes,
  sender,    \* run |-> the phone that sent its message
  acks,      \* <<run, client id>>: sends the gateway has not acknowledged yet
  origin,    \* runOrigins: run |-> client id
  reply,     \* run |-> its entry in the conversation: shape and revision
  errored,   \* runs the relay knows to have failed
  att,       \* run |-> its pending attempt
  done,      \* run |-> what its last attempt settled as
  waits,     \* run |-> why it waits for its entry
  tracked,   \* runs whose attempt follows the entry
  late,      \* runs whose deadline has passed
  sweeping,  \* the sweep timer runs
  probes,    \* probes and the receipts they bring
  tries,     \* run |-> attempts made
  told,      \* run |-> what was announced of it
  seen,      \* run |-> the revision of the accepted receipt, and the entry then shown
  queue,     \* reports to the gateway: run, status, attempts
  flight,    \* the report under way
  retrying,  \* the retry timer runs
  failures,
  current,   \* gateway: the candidate
  published, \* gateway: runs that became candidates
  record,    \* gateway: its record
  asks       \* observations requested of the relay

clients == <<holder, nextId, crashes, sender, acks>>
pipe == <<queue, flight, retrying>>
relay == <<att, done, waits, tracked, sweeping, probes, tries, told, pipe>>
gateway == <<current, published, record>>
vars == <<clients, origin, reply, errored, relay, late, seen, failures, gateway, asks>>

NoAttempt == [n |-> 0, id |-> 0, rev |-> 0]
NoFlight == [run |-> None, status |-> "accepted", phase |-> "none"]

Init ==
  /\ holder = [i \in Ids |-> None] /\ nextId = 1 /\ crashes = 0
  /\ sender = [r \in Runs |-> None] /\ acks = {} /\ origin = [r \in Runs |-> 0]
  /\ reply = [r \in Runs |-> [shape |-> "none", rev |-> 0]] /\ errored = {}
  /\ att = [r \in Runs |-> NoAttempt] /\ done = [r \in Runs |-> "none"]
  /\ waits = [r \in Runs |-> "no"] /\ tracked = {} /\ late = {} /\ sweeping = FALSE
  /\ probes = {} /\ tries = [r \in Runs |-> 0] /\ told = [r \in Runs |-> <<>>]
  /\ seen = [r \in Runs |-> None]
  /\ queue = <<>> /\ flight = NoFlight /\ retrying = FALSE /\ failures = 0
  /\ current = None /\ published = {} /\ record = [run |-> None, status |-> "none"] /\ asks = {}

-----------------------------------------------------------------------------
(* The link that reports to the gateway: functions of a world w. *)

World == [att |-> att, done |-> done, waits |-> waits, tracked |-> tracked,
          sweeping |-> sweeping, probes |-> probes, tries |-> tries, told |-> told,
          queue |-> queue, flight |-> flight, retrying |-> retrying]
Becomes(v) == \E w \in {v} :
  /\ att' = w.att /\ done' = w.done /\ waits' = w.waits /\ tracked' = w.tracked
  /\ sweeping' = w.sweeping /\ probes' = w.probes /\ tries' = w.tries /\ told' = w.told
  /\ queue' = w.queue /\ flight' = w.flight /\ retrying' = w.retrying

\* One report is under way at a time, and none while the retry timer runs.
Drain(w) ==
  IF w.flight # NoFlight \/ w.retrying \/ w.queue = <<>> THEN w
  ELSE [w EXCEPT !.flight = [run |-> w.queue[1].run, status |-> w.queue[1].status,
                             phase |-> "sent"]]

\* The reports of other runs: a run has one place in the queue.
Others(w, r) ==
  LET at == {i \in DOMAIN w.queue : w.queue[i].run = r}
  IN IF at = {} THEN w.queue ELSE RemoveAt(w.queue, CHOOSE i \in at : TRUE)

Report(w, r, status) ==
  Drain([w EXCEPT !.told[r] = Append(@, status),
                  !.queue = Append(Others(w, r), [run |-> r, status |-> status, tries |-> 0])])

-----------------------------------------------------------------------------
(* The coordinator. *)

Pending(w) == {r \in Runs : w.att[r] # NoAttempt}
Waiting(w) == {r \in Runs : w.waits[r] # "no"}

\* Mutant: a late attempt stays pending.
DropKeeps(r, w) == Report([w EXCEPT !.done[r] = "unconfirmed"], r, "unconfirmed")

Drop(r, w) == Report([w EXCEPT !.att[r] = NoAttempt, !.done[r] = "unconfirmed"], r, "unconfirmed")
DropAll(w, rs) == FoldSet(Drop, w, rs)

\* Mutant: the sweep stops though replies are awaited.
StopForgetsWaiting(w) ==
  IF ~w.sweeping THEN w
  ELSE LET v == IF w.tracked = {} THEN w ELSE DropAll(w, Pending(w) \cap late)
       IN IF v.tracked \cap Pending(v) = {} THEN [v EXCEPT !.sweeping = FALSE] ELSE v

\* stopSweepIfIdle: counting what is pending expires what is late.
StopIfIdle(w) ==
  IF ~w.sweeping THEN w
  ELSE LET v == IF w.tracked = {} THEN w ELSE DropAll(w, Pending(w) \cap late)
       IN IF Waiting(v) \cup (v.tracked \cap Pending(v)) = {} THEN [v EXCEPT !.sweeping = FALSE]
          ELSE v

Announce(w, r, status) == StopIfIdle(Report(w, r, status))

Settle(w, r, status) ==
  Announce([w EXCEPT !.att[r] = NoAttempt, !.done[r] = status], r, status)

DropNow(w, rs) == IF rs = {} THEN w ELSE StopIfIdle(DropAll(w, rs))
Expire(w) == DropNow(w, Pending(w) \cap late)

Terminal(w, r, status) ==
  Announce([w EXCEPT !.att[r] = NoAttempt, !.done[r] = "none"], r, status)

Track(w, r) == [w EXCEPT !.tracked = @ \cup {r}, !.sweeping = TRUE]

\* Mutant: an attempt is kept whatever became of its entry.
SameAttempt(a, id, rev) == a # NoAttempt /\ a.id = id

SameTarget(a, id, rev) == a.id = id /\ a.rev = rev

NewAttempt(w, r, id, rev) ==
  LET n == w.tries[r] + 1
  IN [w EXCEPT !.att[r] = [n |-> n, id |-> id, rev |-> rev], !.tries[r] = n, !.done[r] = "none",
               !.probes = @ \cup {[run |-> r, n |-> n, id |-> id, rev |-> rev]}]

Recipient(r) == origin[r]

\* createReplyDelivery.observe
Observe(w0, r, rev) ==
  LET w == Expire(w0)
      id == Recipient(r)
  IN CASE w.done[r] = "accepted" -> w
       [] w.done[r] # "accepted" /\ holder[id] = None -> Settle(w, r, "unconfirmed")
       [] w.done[r] # "accepted" /\ holder[id] \in Phones \ Capable -> Settle(w, r, "unsupported")
       [] OTHER -> Track(IF SameTarget(w.att[r], id, rev) THEN w ELSE NewAttempt(w, r, id, rev), r)

\* tryObserve: only a missing, blank or unacknowledged entry leaves r waiting.
Settles(r, e) == r \in errored \/ e.shape = "text"
TryObserve(w, r, e) ==
  CASE r \in errored -> Terminal(w, r, "unconfirmed")
    [] r \notin errored /\ e.shape = "text" /\ origin[r] = 0 -> Terminal(w, r, "unconfirmed")
    [] r \notin errored /\ e.shape = "text" /\ origin[r] # 0 -> Observe(w, r, e.rev)
    [] OTHER -> w

\* notifyEntriesChanged, after the entries became es.
NotifyWaiting(w, es) ==
  FoldSet(LAMBDA r, v : [TryObserve(v, r, es[r]) EXCEPT !.waits[r] =
                           IF Settles(r, es[r]) THEN "no" ELSE es[r].shape], w, Waiting(w))
NotifyTracked(w, es) ==
  FoldSet(LAMBDA r, v : LET u == Expire(v)
                        IN IF r \in Pending(u) THEN TryObserve(u, r, es[r])
                           ELSE [u EXCEPT !.tracked = @ \ {r}],
          w, w.tracked \ Waiting(w))
Notify(w, es) == NotifyTracked(NotifyWaiting(w, es), es)

\* The observe method of the link.
Asked(r) ==
  /\ r \in asks /\ asks' = asks \ {r}
  /\ LET w == TryObserve(World, r, reply[r])
     IN Becomes(IF Settles(r, reply[r]) THEN w
                ELSE [w EXCEPT !.waits[r] = reply[r].shape, !.sweeping = TRUE])
  /\ UNCHANGED <<clients, origin, reply, errored, late, seen, failures, gateway>>

\* The conversation changes: an entry comes, is revised, goes with its session, or
\* comes back with it.
EntryChanges(r, shape, rev) ==
  /\ sender[r] # None
  /\ LET e == [shape |-> shape, rev |-> rev]
         es == [reply EXCEPT ![r] = e]
     IN /\ e # reply[r]
        /\ shape = "text" => rev > 0
        /\ rev = reply[r].rev \/ (shape = "text" /\ rev = reply[r].rev + 1)
        /\ reply' = es
        /\ Becomes(Notify(World, es))
  /\ UNCHANGED <<clients, origin, errored, late, seen, failures, gateway, asks>>

\* A receipt of the client a probe went to: accepted for the attempt it names.
Receipt(p) ==
  /\ p \in probes /\ holder[p.id] \in Capable
  /\ LET w == [World EXCEPT !.probes = @ \ {p}]
         a == att[p.run]
     IN IF a.n = p.n /\ a.id = p.id /\ a.rev = p.rev
        THEN /\ Becomes(Expire(Settle(w, p.run, "accepted")))
             /\ seen' = [seen EXCEPT ![p.run] = [rev |-> p.rev, entry |-> reply[p.run]]]
        ELSE Becomes(Expire(w)) /\ UNCHANGED seen
  /\ UNCHANGED <<clients, origin, reply, errored, late, failures, gateway, asks>>

\* 30 s have passed since r was first observed.
DeadlinePasses(r) ==
  /\ r \in Pending(World) \cup Waiting(World) /\ r \notin late
  /\ late' = late \cup {r}
  /\ UNCHANGED <<clients, origin, reply, errored, relay, seen, failures, gateway, asks>>

\* The sweep: late attempts and late waits end.
EndWait(r, w) ==
  Terminal([w EXCEPT !.waits[r] = "no"], r,
           IF w.waits[r] = "none" THEN "unconfirmed" ELSE "unsupported")
Sweep ==
  /\ sweeping
  /\ LET w == Expire(World)
         v == FoldSet(EndWait, w, Waiting(w) \cap late)
     IN Becomes(StopIfIdle([v EXCEPT !.tracked = @ \cap Pending(v)]))
  /\ UNCHANGED <<clients, origin, reply, errored, late, seen, failures, gateway, asks>>

-----------------------------------------------------------------------------
(* Clients. *)

\* A socket opens: client ids are numbered from 1 in each worker epoch.
Connect(p) ==
  /\ nextId <= MaxIds
  /\ holder' = [holder EXCEPT ![nextId] = p] /\ nextId' = nextId + 1
  /\ UNCHANGED <<crashes, sender, acks, origin, reply, errored, relay, late, seen, failures,
                 gateway, asks>>

\* A client closes: its attempts end and its origins are forgotten.
Disconnect(i) ==
  /\ holder[i] # None
  /\ holder' = [holder EXCEPT ![i] = None]
  /\ Becomes(DropNow([World EXCEPT !.probes = {p \in @ : p.id # i}],
                     {r \in Pending(World) : att[r].id = i}))
  /\ origin' = [r \in Runs |-> IF origin[r] = i THEN 0 ELSE origin[r]]
  /\ UNCHANGED <<nextId, crashes, sender, acks, reply, errored, late, seen, failures, gateway,
                 asks>>

\* The worker exits: its clients are gone, and the coordinator is not told.
WorkerRestarts ==
  /\ crashes < MaxCrashes /\ crashes' = crashes + 1
  /\ holder' = [i \in Ids |-> None] /\ nextId' = 1 /\ probes' = {}
  /\ UNCHANGED <<sender, acks, origin, reply, errored, late, seen, failures, gateway, asks,
                 att, done, waits, tracked, sweeping, tries, told, pipe>>

\* Entries other than the replies may change with it.
Refreshed == {World, Notify(World, reply)}

\* The entries are sent again: to a client that attached, or with other changes.
EntriesResent ==
  /\ Becomes(Notify(World, reply))
  /\ UNCHANGED <<clients, origin, reply, errored, late, seen, failures, gateway, asks>>

\* A client sends the message of run r.
Send(r, i) ==
  /\ sender[r] = None /\ holder[i] # None
  /\ sender' = [sender EXCEPT ![r] = holder[i]] /\ acks' = acks \cup {<<r, i>>}
  /\ \E w \in Refreshed : Becomes(w)
  /\ UNCHANGED <<holder, nextId, crashes, origin, reply, errored, late, seen, failures, gateway,
                 asks>>

\* The gateway's answer names the run: its origin is noted, connected or not.
Ack(r, i) ==
  /\ <<r, i>> \in acks /\ acks' = acks \ {<<r, i>>}
  /\ origin' = [origin EXCEPT ![r] = i]
  /\ \E w \in Refreshed : Becomes(w)
  /\ UNCHANGED <<holder, nextId, crashes, sender, reply, errored, late, seen, failures, gateway,
                 asks>>

-----------------------------------------------------------------------------
(* The gateway. *)

\* The run failed; the frame that says so is acknowledged before its candidate is
\* published.
NoteError(r) ==
  /\ sender[r] # None /\ r \notin published \cup errored
  /\ errored' = errored \cup {r}
  /\ UNCHANGED <<clients, origin, reply, relay, late, seen, failures, gateway, asks>>

\* The turn of r becomes the current candidate, once.
Publish(r) ==
  /\ sender[r] # None /\ r \notin published
  /\ current' = r /\ published' = published \cup {r} /\ asks' = asks \cup {r}
  /\ UNCHANGED <<clients, origin, reply, errored, relay, late, seen, failures, record>>

\* Mutant: any candidate's report is written.
RecordsAny(r) == r # None

Records(r) == r = current

\* record_reply_delivery: an accepted observation of the candidate is kept.
Recorded(r, status) == IF record = [run |-> r, status |-> "accepted"] THEN record
                       ELSE [run |-> r, status |-> status]

\* The link is not ready or the child cannot observe, or it is too old to know how: the
\* gateway says so itself.
AskFails(r) ==
  /\ r \in asks /\ asks' = asks \ {r}
  /\ \E status \in {"unconfirmed", "unsupported"} :
       record' = IF Records(r) THEN Recorded(r, status) ELSE record
  /\ UNCHANGED <<clients, origin, reply, errored, relay, late, seen, failures, current,
                 published>>

\* The report reaches the gateway.
Deliver ==
  /\ flight.phase = "sent"
  /\ LET r == flight.run
     IN IF Records(r)
        THEN /\ record' = Recorded(r, flight.status)
             /\ flight' = [flight EXCEPT !.phase = "ok"]
        ELSE UNCHANGED record /\ flight' = [flight EXCEPT !.phase = "unknown"]
  /\ UNCHANGED <<clients, origin, reply, errored, att, done, waits, tracked, sweeping, probes,
                 tries, told, queue, retrying, late, seen, failures, current, published,
                 asks>>

\* Taken, or refused for good: the next report.
Answered ==
  /\ flight.phase \in {"ok", "unknown"}
  /\ Becomes(Drain([World EXCEPT !.flight = NoFlight, !.queue = Others(World, flight.run)]))
  /\ UNCHANGED <<clients, origin, reply, errored, late, seen, failures, gateway, asks>>

\* Mutant: a report is tried once.
LastTry(e) == TRUE

Exhausted(e) == e.tries + 1 >= MaxAttempts

\* The report or its answer is lost, or the gateway could not write: retried, and
\* given up after MaxAttempts.
Fails ==
  /\ flight.phase # "none" /\ failures < MaxFailures /\ failures' = failures + 1
  /\ LET w == [World EXCEPT !.flight = NoFlight]
     IN Becomes(IF Exhausted(queue[1]) THEN Drain([w EXCEPT !.queue = Tail(@)])
                ELSE [w EXCEPT !.queue[1].tries = @ + 1, !.retrying = TRUE])
  /\ UNCHANGED <<clients, origin, reply, errored, late, seen, gateway, asks>>

RetryTimer ==
  /\ retrying
  /\ Becomes(Drain([World EXCEPT !.retrying = FALSE]))
  /\ UNCHANGED <<clients, origin, reply, errored, late, seen, failures, gateway, asks>>

Next ==
  \/ Sweep \/ WorkerRestarts \/ Deliver \/ Answered \/ Fails \/ RetryTimer
  \/ EntriesResent
  \/ \E p \in Phones : Connect(p)
  \/ \E i \in Ids : Disconnect(i)
  \/ \E p \in probes : Receipt(p)
  \/ \E r \in Runs :
       \/ Asked(r) \/ DeadlinePasses(r) \/ NoteError(r) \/ Publish(r) \/ AskFails(r)
       \/ \E i \in Ids : Send(r, i) \/ Ack(r, i)
       \/ \E shape \in Shapes, rev \in 0..MaxRev : EntryChanges(r, shape, rev)

Spec == Init /\ [][Next]_vars

\* Timers fire, the gateway answers reports and time passes.
Fairness ==
  /\ WF_vars(Sweep) /\ WF_vars(Deliver) /\ WF_vars(Answered) /\ WF_vars(RetryTimer)
  /\ \A r \in Runs : WF_vars(DeadlinePasses(r))

FairSpec == Spec /\ Fairness
-----------------------------------------------------------------------------
(* Properties. *)

\* Every variable keeps its type.
TypeOK ==
  /\ holder \in [Ids -> Phones \cup {None}] /\ nextId \in 1..(MaxIds + 1)
  /\ sender \in [Runs -> Phones \cup {None}] /\ acks \subseteq Runs \X Ids
  /\ origin \in [Runs -> Ids \cup {0}]
  /\ reply \in [Runs -> [shape : Shapes, rev : 0..MaxRev]] /\ errored \subseteq Runs
  /\ att \in [Runs -> [n : Nat, id : Ids \cup {0}, rev : 0..MaxRev]]
  /\ done \in [Runs -> Statuses \cup {"none"}]
  /\ waits \in [Runs -> {"no", "none", "blank", "local"}]
  /\ tracked \subseteq Runs /\ late \subseteq Runs /\ sweeping \in BOOLEAN
  /\ probes \subseteq [run : Runs, n : Nat, id : Ids, rev : 1..MaxRev]
  /\ told \in [Runs -> Seq(Statuses)]
  /\ queue \in Seq([run : Runs, status : Statuses, tries : 0..(MaxAttempts - 1)])
  /\ flight.phase \in {"none", "sent", "ok", "unknown"} /\ retrying \in BOOLEAN
  /\ current \in Runs \cup {None} /\ record.run \in Runs \cup {None} /\ asks \subseteq Runs

\* Types hold, and an observation is announced once: deadlines, disconnects, receipts,
\* errors and changes of the conversation do not end it twice.
SettledOnce == TypeOK /\ \A r \in Runs : Len(told[r]) <= 1

\* A receipt counts for the revision the conversation shows at that moment, never
\* for one that has been replaced since its probe was sent.
EvidenceIsCurrent ==
  \A r \in Runs : seen[r] # None /\ seen[r].entry.shape = "text"
                   => seen[r].rev = seen[r].entry.rev

\* While a candidate is current, a late report of an earlier one does not replace the
\* evidence the gateway has for it.
CurrentEvidenceStays ==
  [][current' = current /\ record = [run |-> current, status |-> "accepted"]
       => record' = record]_vars

Observed(r) == att[r] # NoAttempt \/ waits[r] # "no"

\* Every observation settles, whatever the phone does.
ObservationSettles == \A r \in Runs : Observed(r) ~> (told[r] # <<>>)

\* An accepted receipt reaches the gateway's record while its candidate is current,
\* though fewer than MaxAttempts reports or answers are lost.
GatewayLearns ==
  \A r \in Runs : (seen[r] # None) ~>
    (record = [run |-> r, status |-> "accepted"] \/ current # r)
=============================================================================
