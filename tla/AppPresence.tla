----------------------------- MODULE AppPresence -----------------------------
(***************************************************************************)
(* The relay's lifecycle together with the way its truth reaches the       *)
(* adapter: the plugin pushes that something changed, the adapter pulls    *)
(* what is true now and writes it into the app-presence receipt.           *)
(*                                                                         *)
(* src/dist-cjs/runtime/hermes-presence-push.cjs, src/presence.py and      *)
(* their use in hermes-runtime-entry.cjs and adapter.py. The versions of   *)
(* the phones and the facts about the glasses are left out of the receipt; *)
(* the control link between the two is in order and stays up.              *)
(***************************************************************************)
EXTENDS RelayLifecycle
VARIABLES
  asked, \* the request of a pull is on its way, with its number
  pull, \* the pull the pump waits for, or none
  got, \* its answer, which the pump's task has not seen yet, or none
  pending, \* _pending
  pump, \* absent (OpenClaw is the host), on, stopped
  receipt, \* what the last write left
  fails,
  missed \* history: the truth changed and nothing said so since the last push

presence == <<asked, pull, got, pending, pump, receipt, fails, missed>>
vars == <<relay, presence>>

Truth == [listening |-> address, count |-> Cardinality(Connected)]
NoFacts == [listening |-> FALSE, count |-> -1] \* nulls, with an error code
Shutdown == [listening |-> FALSE, count |-> 0]

Idle == 0
NoAnswer == [listening |-> FALSE, count |-> -2]
Number == fails + 1 \* of a pull; a failed one has another number than the next
Answer(n, v) == [kind |-> "answer", number |-> n, value |-> v]

----------------------------------------------------------------------------
Init == /\ worker = "booting" /\ ready = "pending" /\ everReady = FALSE /\ conflict = FALSE
        /\ missing = FALSE /\ restarting = FALSE /\ watchdog = TRUE
        /\ close = "no" /\ ear = FALSE /\ port = <<>>
        /\ sockets = [i \in Ids |-> None] /\ nextId = 1 /\ address = FALSE
        /\ clients = [i \in Ids |-> NoClient] /\ away = {}
        /\ graces = [k \in Keys |-> NoGrace] /\ settling = FALSE
        /\ active = (CHOOSE s \in Sessions : TRUE) /\ deaths = 0 /\ moves = 0 /\ left = {} /\ torn = {}
        /\ hooked = FALSE /\ frames = <<>>
        /\ setup \in Setups
        /\ pump = IF setup.host = "hermes" THEN "on" ELSE "absent"
        /\ pull = IF pump = "on" THEN 1 ELSE Idle
        /\ asked = pull /\ got = NoAnswer /\ pending = FALSE
        /\ receipt = NoFacts /\ fails = 0 /\ missed = FALSE

\* The relay has started: the plugin hooks in and pushes once.
Starts == /\ setup.host = "hermes" /\ everReady /\ ~hooked /\ close = "no"
          /\ hooked' = TRUE /\ frames' = Append(frames, Dirty) /\ missed' = FALSE
          /\ UNCHANGED <<lifecycle, closing_, port, sockets, nextId, address, table, active, counts,
                         left, torn, asked, pull, got, pending, pump, receipt, fails>>

\* The plugin answers a pull; before it has hooked in there is no such method.
Projects == /\ asked # Idle /\ asked' = Idle
            /\ frames' = Append(frames, Answer(asked, IF hooked THEN Truth ELSE NoFacts))
            /\ UNCHANGED <<lifecycle, closing_, port, sockets, nextId, address, table, active,
                           counts, left, torn, hooked, pull, got, pending, pump, receipt, fails, missed>>

Adapter == UNCHANGED <<lifecycle, closing_, port, sockets, nextId, address, table, active, counts,
                       left, torn, hooked>>
Asks(n) == pull' = n /\ asked' = n
\* Mutant: what is asked for during a pull is dropped.
ScheduleDrops == IF pull # Idle THEN UNCHANGED <<pull, asked, pending>>
                 ELSE Asks(Number) /\ UNCHANGED pending
\* schedule(): one pull at a time, and one more for all that ask meanwhile.
Schedule == IF pull # Idle THEN pending' = TRUE /\ UNCHANGED <<pull, asked>>
            ELSE Asks(Number) /\ UNCHANGED pending
HandleDirty == /\ frames # <<>> /\ frames[1].kind = "dirty" /\ frames' = Tail(frames)
               /\ IF pump = "on" THEN Schedule ELSE UNCHANGED <<pull, asked, pending>>
               /\ Adapter /\ UNCHANGED <<got, pump, receipt, fails, missed>>
\* The fallback: a pull every 30 s.
Tick == /\ pump = "on" /\ Schedule
        /\ Adapter /\ UNCHANGED <<frames, got, pump, receipt, fails, missed>>

\* The answer of a pull that timed out is dropped.
Answered ==
  /\ frames # <<>> /\ frames[1].kind = "answer" /\ frames' = Tail(frames)
  /\ got' = IF frames[1].number = pull THEN frames[1].value ELSE got
  /\ Adapter /\ UNCHANGED <<asked, pull, pending, pump, receipt, fails, missed>>
\* The pull is over and its body written: once more if somebody asked meanwhile.
Again(n) == /\ pending' = FALSE /\ got' = NoAnswer
            /\ IF pending THEN Asks(n) ELSE pull' = Idle /\ UNCHANGED asked
Pulled ==
  /\ got # NoAnswer
  /\ \/ receipt' = got /\ Again(Number) /\ UNCHANGED <<fails, missed>>
     \/ /\ fails < setup.fails /\ fails' = fails + 1 /\ missed' = TRUE
        /\ Again(Number + 1) /\ UNCHANGED receipt
  /\ Adapter /\ UNCHANGED <<frames, pump>>
TimesOut == /\ pull # Idle /\ got = NoAnswer /\ fails < setup.fails /\ fails' = fails + 1
            /\ receipt' = NoFacts /\ missed' = TRUE
            /\ Again(Number + 1)
            /\ Adapter /\ UNCHANGED <<frames, pump>>
\* disconnect(): the pump is stopped first.
PumpStops == /\ pump = "on" /\ pump' = "stopped"
             /\ pull' = Idle /\ got' = NoAnswer /\ receipt' = Shutdown
             /\ Adapter /\ UNCHANGED <<frames, asked, pending, fails, missed>>

----------------------------------------------------------------------------
Handles == \/ Ready \/ Error("error") \/ Error("conflict") \/ Closed
           \/ Identified \/ Disconnected \/ GoingAway \/ Visible \/ Reports
RelayStep ==
  \/ Boots \/ Hangs \/ BootFails("error") \/ BootFails("conflict") \/ Crashes \/ EntryGone
  \/ \E key \in Keys : Hello(key)
  \/ \E i \in Ids : Leaves(i) \/ Says("away", i, NoKey) \/ Says("visible", i, NoKey)
  \/ \E i \in Ids, key \in Sessions : Says("report", i, key) \/ Selects(i, key)
  \/ ShutsDown
  \/ Handles
  \/ \E key \in Keys : GraceEnds(key)
  \/ Settles \/ WatchdogFires \/ RestartFires \/ Exits
  \/ pump # "on" /\ Close
  \/ CloseTimeout \/ CloseEnds
\* The rest looks on: a push says what a step changed, and only a push does.
Told == /\ missed' = IF frames' # frames THEN FALSE ELSE missed \/ Truth' # Truth
        /\ UNCHANGED <<asked, pull, got, pending, pump, receipt, fails>>

Next == (RelayStep /\ Told) \/ Starts \/ Projects \/ HandleDirty \/ Tick \/ Answered \/ Pulled
        \/ TimesOut \/ PumpStops
\* Threads, timers and the link run. Phones, faults, the 30 s fallback and a stop need not.
\* Each of Runs can happen only so often, so that weak fairness of one is that of all.
Runs == \/ Boots \/ Handles \/ WatchdogFires \/ RestartFires \/ Exits
        \/ \E key \in Keys : GraceEnds(key)
Fairness == /\ WF_vars((Runs /\ Told) \/ Starts)
            /\ WF_vars(Projects) /\ WF_vars(HandleDirty \/ Answered) /\ WF_vars(Pulled)
Spec == Init /\ [][Next]_vars /\ Fairness

----------------------------------------------------------------------------
TypeOK ==
  /\ worker \in {"none", "booting", "stuck", "up", "dying", "closed"}
  /\ ready \in {"pending", "resolved", "rejected"} /\ close \in {"no", "waiting", "done"}
  /\ \A i \in Ids : /\ clients[i].own \in Keys \cup {None}
                   /\ {clients[i].selected, clients[i].replaced} \subseteq Keys
  /\ left \subseteq Sessions /\ graces \in [Keys -> {NoGrace} \cup SUBSET Sessions]
  /\ pull \in 0 .. Number /\ pump \in {"absent", "on", "stopped"}

\* What waits on the glasses is torn down only when no phone is on its session: not
\* by the end of a grace that a phone answered, nor by a wearer who leaves it to
\* another phone (relay-worker-supervisor.cjs:1320-1374).
ServedIsKept == torn = {}
RelayInv == TypeOK /\ ServedIsKept

\* A session whose phone vanished is torn down in the end, unless a phone comes
\* back to it, also over the death of the worker and a second phone that vanishes
\* (relay-worker-supervisor.cjs:1320).
LeftIsDrained == \A s \in Sessions : s \in left ~> s \notin left

Over == close # "no" \/ missing \/ ready = "rejected" \/ pump = "stopped"

\* Whatever dies, hangs or fails to start, the relay listens again, or is closed or
\* has failed for good (relay-worker-supervisor.cjs:260-283, 1172-1237).
ListensAgain == <>[](address \/ Over)

\* "pushes that arrive while a pull is in flight coalesce into a single follow-up"
\* (src/presence.py:14-15): what a push announced is in the receipt in the end,
\* without the fallback, unless the pull or the write failed.
ReceiptComesTrue == setup.host = "hermes" => <>[](receipt = Truth \/ missed \/ Over)
=============================================================================
