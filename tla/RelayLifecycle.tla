--------------------------- MODULE RelayLifecycle ---------------------------
(***************************************************************************)
(* The supervisor of the relay worker on the main thread: it starts the    *)
(* worker, replaces one that dies, follows which phones are connected, and *)
(* gives a phone that vanishes a time of grace before what waits on the    *)
(* glasses of its session is torn down.                                    *)
(*                                                                         *)
(* src/dist-cjs/runtime/relay-worker-supervisor.cjs with the messages that *)
(* relay-worker-transport.cjs and relay-worker-entry.cjs post to it.       *)
(* Clients that are no apps, requests between phones and the frames that   *)
(* pass through are in other modules or left out.                          *)
(***************************************************************************)
EXTENDS Integers, Sequences, FiniteSets, SequencesExt
CONSTANTS Sessions,
          NoKey, \* the key of a hello that names no session
          Setups \* what a behaviour may contain, see `setup'
ASSUME RelayAssumption ==
  /\ NoKey \notin Sessions /\ Sessions # {} /\ "none" \notin Sessions \cup {NoKey}
  /\ IsFiniteSet(Setups) /\ Setups # {}
  /\ \A s \in Setups : /\ s.host \in {"hermes", "openclaw"} /\ s.keys \subseteq Sessions \cup {NoKey}
                       /\ {s.ids, s.deaths, s.moves, s.fails} \subseteq Nat

Keys == Sessions \cup {NoKey}
Ids == 1 .. Max({s.ids : s \in Setups})

VARIABLES
  setup, \* the member of Setups this behaviour keeps to: the host, the keys of hellos, and
         \* bounds: connections of one worker; workers that fail, hang or die; times a wearer
         \* changes the session or hides the app; pulls and receipts that fail
  worker, \* none, booting, stuck, up, dying (its posted messages are still to come)
  ready, \* readyPromise: pending, resolved, rejected
  everReady, conflict, missing, \* a worker was ready; the start failed for good; the entry is gone
  restarting, watchdog, \* timers
  close, \* no, waiting, done
  ear, \* close() still listens for the next message of the worker
  port, \* messages of the worker
  sockets, nextId, \* the worker's sockets: the key a client said hello with, or none
  address, \* the supervisor has an address
  clients, \* main's clients: the key of the hello, the selected one, the replaced one
  away, \* goingAwayClientIds
  graces, \* pendingAppDisconnectDrains
  settling, \* appResumeSettleTimers
  active, \* the session the relay serves to a phone that names none
  hooked, frames, \* the plugin listens to onAppPresenceChanged; what it sent to the adapter
  deaths, moves, \* counted faults and choices
  left, torn \* history: sessions without a phone that are to be torn down; torn down while viewed

lifecycle == <<worker, ready, everReady, conflict, missing, restarting, watchdog>>
closing_ == <<close, ear>>
table == <<clients, away, graces, settling>>
counts == <<setup, deaths, moves>>
relay == <<lifecycle, closing_, port, sockets, nextId, address, table, active, counts, left, torn,
           hooked, frames>>

None == "none"
NoClient == [own |-> None, selected |-> NoKey, replaced |-> NoKey]
NoGrace == {None}
closing == close # "no"
pre == ready = "pending"

Dirty == [kind |-> "dirty"]
Message(kind, id, key) == [kind |-> kind, id |-> id, key |-> key]
Post(m) == port' = Append(port, m)
\* onAppPresenceChanged: the plugin pushes presence.dirty.
Rings(b) == /\ frames' = IF b /\ hooked THEN Append(frames, Dirty) ELSE frames
            /\ UNCHANGED hooked

(* Which phones serve a session. *)

Connected == {i \in Ids : clients[i].own # None}
Viewed(c) == IF c.selected # NoKey THEN c.selected ELSE c.own
SessionKeys(c) == {c.selected, c.own} \ {NoKey}
\* Mutant: only the key of the hello counts.
AnswersHello(key, match, c) == key = NoKey \/ c.own \in match
Answers(key, match, c) == key = NoKey \/ SessionKeys(c) \cap match # {}
Served(cs, key, match) == \E i \in Ids : cs[i].own # None /\ Answers(key, match, cs[i])
ViewedIn(cs) == {Viewed(cs[i]) : i \in {j \in Ids : cs[j].own # None}} \ {NoKey}

\* onAppClientDisconnect, or onAppClientSessionLeft: what waits on the glasses is torn down.
TornDown(key) == IF key = NoKey THEN active ELSE key
Drain(key, cs) == /\ left' = {s \in left : ~Served(cs, s, {s})} \ {TornDown(key)}
                  /\ torn' = torn \cup ({TornDown(key)} \cap ViewedIn(cs))

----------------------------------------------------------------------------
(* The worker. *)

\* Mutant: a worker that is started again has no watchdog.
StartWorkerUnwatched == /\ worker' = "booting" /\ watchdog' = ~everReady
                        /\ sockets' = [i \in Ids |-> None] /\ nextId' = 1
StartWorker == /\ worker' = "booting" /\ watchdog' = TRUE
               /\ sockets' = [i \in Ids |-> None] /\ nextId' = 1

Works == UNCHANGED <<ready, everReady, conflict, missing, restarting, watchdog, closing_,
                     address, table, active, setup, moves, left, torn>> /\ Rings(FALSE)
Boots == /\ worker = "booting" /\ worker' = "up" /\ Post(Message("ready", 0, NoKey))
         /\ Works /\ UNCHANGED <<sockets, nextId, deaths>>
\* The start hangs, or fails and says so; the port may be held by somebody else.
Dies == /\ deaths < setup.deaths /\ deaths' = deaths + 1
Hangs == /\ worker = "booting" /\ worker' = "stuck" /\ Dies
         /\ Works /\ UNCHANGED <<port, sockets, nextId>>
BootFails(kind) == /\ worker = "booting" /\ worker' = "stuck" /\ Dies
                   /\ Post(Message(kind, 0, NoKey))
                   /\ Works /\ UNCHANGED <<sockets, nextId>>
\* The thread ends on its own; its sockets end with it.
Crashes == /\ worker \in {"booting", "up"} /\ worker' = "dying" /\ Dies
           /\ sockets' = [i \in Ids |-> None]
           /\ Works /\ UNCHANGED <<port, nextId>>

\* The files of the plugin are gone: the thread ends with an error that says so.
EntryGone == /\ worker = "booting" /\ worker' = "dying" /\ Dies
             /\ missing' = TRUE
             /\ UNCHANGED <<ready, everReady, conflict, restarting, watchdog, closing_, port, sockets,
                            nextId, address, table, active, setup, moves, left, torn>> /\ Rings(FALSE)

\* A phone says hello, goes into the background, leaves.
Hello(key) == /\ worker = "up" /\ nextId <= setup.ids /\ key \in setup.keys
              /\ sockets' = [sockets EXCEPT ![nextId] = key] /\ nextId' = nextId + 1
              /\ Post(Message("hello", nextId, key))
              /\ Works /\ UNCHANGED <<worker, deaths>>
Says(kind, i, key) == /\ worker = "up" /\ sockets[i] # None /\ moves < setup.moves
                      /\ moves' = moves + 1
                      /\ Post(Message(kind, i, key))
                      /\ UNCHANGED <<setup, lifecycle, closing_, sockets, nextId, address, table,
                                     active, deaths, left, torn>> /\ Rings(FALSE)
Leaves(i) == /\ worker = "up" /\ sockets[i] # None
             /\ sockets' = [sockets EXCEPT ![i] = None]
             /\ Post(Message("bye", i, NoKey))
             /\ Works /\ UNCHANGED <<worker, nextId, deaths>>
\* The worker handles "shutdown": sockets are terminated, and their ends come first.
ShutsDown ==
  /\ worker \in {"booting", "stuck", "up"} /\ close = "waiting"
  /\ worker' = "closed"
  /\ port' = port \o SetToSeq({Message("bye", i, NoKey) : i \in {j \in Ids : sockets[j] # None}})
                  \o <<Message("closed", 0, NoKey)>>
  /\ sockets' = [i \in Ids |-> None]
  /\ Works /\ UNCHANGED <<nextId, deaths>>

----------------------------------------------------------------------------
(* The supervisor handles a message. *)

\* terminate() of a worker that has not ended by itself.
Terminates == worker' = IF worker = "none" THEN "none" ELSE "dying"
\* close()'s own listener takes the next message, whatever it is.
Heard(kind) == /\ ear' = FALSE
               /\ IF ear /\ kind = "closed" THEN Terminates /\ sockets' = [i \in Ids |-> None]
                  ELSE UNCHANGED <<worker, sockets>>
Takes(kind) == /\ port # <<>> /\ port[1].kind = kind /\ port' = Tail(port)
Aside == UNCHANGED <<nextId, restarting, counts, close>>

Ready == /\ Takes("ready") /\ Heard("ready")
         /\ everReady' = TRUE /\ conflict' = FALSE /\ watchdog' = FALSE /\ address' = TRUE
         /\ ready' = IF pre THEN "resolved" ELSE ready
         /\ UNCHANGED <<missing, table, active, left, torn>> /\ Rings(FALSE) /\ Aside
\* worker.error: a start that failed is over; a conflict at the first start is for good.
Error(kind) ==
  /\ Takes(kind) /\ ear' = FALSE
  /\ conflict' = (conflict \/ (kind = "conflict" /\ setup.host = "hermes" /\ pre /\ ~everReady))
  /\ IF pre THEN Terminates /\ sockets' = [i \in Ids |-> None] ELSE UNCHANGED <<worker, sockets>>
  /\ UNCHANGED <<ready, everReady, missing, watchdog, address, table, active, left, torn>>
  /\ Rings(FALSE) /\ Aside
Closed == /\ Takes("closed") /\ Heard("closed")
          /\ UNCHANGED <<ready, everReady, conflict, missing, watchdog, address, table, active,
                         left, torn>> /\ Rings(FALSE) /\ Aside

\* cancelAppDisconnectGrace: a phone is back on a session that has a grace armed.
\* Mutant: whoever comes, every grace is over.
BackAll(c) == {k \in Keys : graces[k] # NoGrace}
Back(c) == {k \in Keys : graces[k] # NoGrace /\ Answers(k, graces[k], c)}
CancelGrace(c) == /\ graces' = [k \in Keys |-> IF k \in Back(c) THEN NoGrace ELSE graces[k]]
                  /\ settling' = (settling \/ Back(c) # {})
Identified ==
  LET m == port[1]
      c == [NoClient EXCEPT !.own = m.key]
  IN /\ Takes("hello") /\ Heard("hello")
     /\ clients' = [clients EXCEPT ![m.id] = c]
     /\ CancelGrace(c)
     /\ left' = {s \in left : ~Answers(s, {s}, c)}
     /\ UNCHANGED <<away, active, torn, ready, everReady, conflict, missing, watchdog, address>>
     /\ Rings(TRUE) /\ Aside

\* drainAppSessionAfterGrace: now, or when the grace is over.
Arm(key, match, now, viewed, cs) ==
  IF now THEN Drain(key, cs) /\ graces' = [graces EXCEPT ![key] = NoGrace]
  ELSE graces' = [graces EXCEPT ![key] = match] /\ UNCHANGED torn
       /\ left' = left \cup (({key} \cap {viewed}) \ {NoKey})
Disconnected ==
  LET m == port[1]
      c == clients[m.id]
      match == SessionKeys(c)
      cs == [clients EXCEPT ![m.id] = NoClient]
  IN /\ Takes("bye") /\ Heard("bye")
     /\ clients' = cs /\ away' = away \ {m.id}
     /\ IF c.own # None /\ ~Served(cs, c.own, match)
        THEN Arm(c.own, match, m.id \in away \/ closing, Viewed(c), cs)
        ELSE UNCHANGED <<graces, left, torn>>
     /\ UNCHANGED <<settling, active, ready, everReady, conflict, missing, watchdog, address>>
     /\ Rings(c.own # None) /\ Aside

GoingAway == /\ Takes("away") /\ Heard("away")
             /\ away' = IF clients[port[1].id].own # None THEN away \cup {port[1].id} ELSE away
             /\ UNCHANGED <<clients, graces, settling, active, left, torn, ready, everReady,
                            conflict, missing, watchdog, address>> /\ Rings(FALSE) /\ Aside
Visible == /\ Takes("visible") /\ Heard("visible")
           /\ away' = away \ {port[1].id}
           /\ UNCHANGED <<clients, graces, settling, active, left, torn, ready, everReady,
                          conflict, missing, watchdog, address>> /\ Rings(FALSE) /\ Aside

\* applyReportedSessionKey: a report of the session just replaced is ignored for 5 s.
Reported(c, key, guarded) ==
  IF guarded /\ key = c.replaced THEN c
  ELSE [c EXCEPT !.replaced = NoKey,
                 !.selected = IF c.replaced # NoKey \/ key # Viewed(c) THEN key ELSE @]
Reports ==
  LET m == port[1] IN
  /\ Takes("report") /\ Heard("report")
  /\ IF clients[m.id].own = None THEN UNCHANGED table /\ UNCHANGED left /\ Rings(FALSE)
     ELSE \E guarded \in BOOLEAN :
       LET c == Reported(clients[m.id], m.key, guarded) IN
       /\ clients' = [clients EXCEPT ![m.id] = c]
       /\ IF guarded /\ m.key = clients[m.id].replaced THEN UNCHANGED <<graces, settling>>
          ELSE CancelGrace(c)
       /\ left' = {s \in left : ~Answers(s, {s}, c)}
       /\ UNCHANGED away /\ \E said \in BOOLEAN : Rings(said)
  /\ UNCHANGED <<active, torn, ready, everReady, conflict, missing, watchdog, address>> /\ Aside

\* noteAppClientSessionSelected: the switch that a phone asked for is done. A session
\* that its last phone leaves is torn down.
Selects(i, key) ==
  LET was == Viewed(clients[i])
      c == [clients[i] EXCEPT !.selected = key, !.replaced = IF was = key THEN NoKey ELSE was]
      cs == [clients EXCEPT ![i] = c]
  IN /\ clients[i].own # None /\ moves < setup.moves /\ moves' = moves + 1
     /\ active' = key
     /\ clients' = cs /\ CancelGrace(c) /\ UNCHANGED away
     /\ IF was \notin {NoKey, key} /\ was \notin ViewedIn(cs) THEN Drain(was, cs)
        ELSE left' = {s \in left : ~Answers(s, {s}, c)} /\ UNCHANGED torn
     /\ UNCHANGED <<setup, lifecycle, closing_, port, sockets, nextId, address, deaths>> /\ Rings(FALSE)

----------------------------------------------------------------------------
(* Timers, exits and close(). *)

Timer == UNCHANGED <<port, closing_, counts, active, everReady, missing>>

GraceEnds(key) ==
  /\ graces[key] # NoGrace
  /\ graces' = [graces EXCEPT ![key] = NoGrace]
  /\ IF Served(clients, key, graces[key]) THEN UNCHANGED <<left, torn>> ELSE Drain(key, clients)
  /\ UNCHANGED <<lifecycle, sockets, nextId, address, clients, away, settling>> /\ Timer /\ Rings(FALSE)
Settles == /\ settling /\ settling' = FALSE /\ Rings(~closing)
           /\ UNCHANGED <<lifecycle, sockets, nextId, address, clients, away, graces, left, torn>> /\ Timer

\* It may also beat a worker.ready that is on the port.
WatchdogFires ==
  /\ watchdog /\ watchdog' = FALSE
  /\ \/ worker = "stuck" /\ UNCHANGED deaths
     \/ worker = "up" /\ Dies
  /\ Terminates /\ sockets' = [i \in Ids |-> None]
  /\ UNCHANGED <<ready, everReady, conflict, missing, restarting, closing_, port, nextId, address,
                 table, active, setup, moves, left, torn>> /\ Rings(FALSE)
RestartFires == /\ restarting /\ restarting' = FALSE
                /\ StartWorker
                /\ UNCHANGED <<ready, conflict, address, table, left, torn>> /\ Timer /\ Rings(FALSE)

Forgets == clients' = [i \in Ids |-> NoClient]
\* The worker is gone and nothing of it is on the port.
Exits ==
  /\ worker = "dying" /\ port = <<>> /\ close = "no"
  /\ worker' = "none" /\ watchdog' = FALSE /\ address' = FALSE /\ conflict' = FALSE
  /\ Forgets
  /\ IF conflict /\ pre THEN ready' = "rejected" /\ UNCHANGED restarting
     ELSE /\ restarting' = ~missing
          /\ ready' = IF missing THEN ready ELSE "pending"
  /\ UNCHANGED <<everReady, missing, port, closing_, sockets, nextId, away, graces, settling, active, counts, left, torn>>
  /\ Rings(FALSE)

\* close(): timers are cleared, the worker is asked to end and ended after 500 ms.
Close ==
  /\ close = "no"
  /\ close' = IF worker = "none" THEN "done" ELSE "waiting"
  /\ ear' = (worker # "none")
  /\ ready' = IF pre THEN "rejected" ELSE ready
  /\ restarting' = FALSE /\ watchdog' = FALSE
  /\ graces' = [k \in Keys |-> NoGrace] /\ settling' = FALSE /\ away' = {} /\ left' = {}
  /\ UNCHANGED <<worker, everReady, conflict, missing, port, sockets, nextId, address, clients,
                 active, counts, torn>> /\ Rings(FALSE)
CloseTimeout == /\ close = "waiting" /\ worker \in {"booting", "stuck", "up", "closed"}
                /\ Terminates /\ sockets' = [i \in Ids |-> None] /\ Rings(FALSE)
                /\ UNCHANGED <<ready, everReady, conflict, missing, restarting, watchdog, closing_, port,
                               nextId, address, table, active, counts, left, torn>>
CloseEnds == /\ close = "waiting" /\ worker = "dying" /\ port = <<>>
             /\ close' = "done" /\ ear' = FALSE /\ worker' = "none" /\ address' = FALSE /\ Forgets
             /\ UNCHANGED <<ready, everReady, conflict, missing, restarting, watchdog, port, sockets,
                            nextId, away, graces, settling, active, counts, left, torn>> /\ Rings(FALSE)
=============================================================================
