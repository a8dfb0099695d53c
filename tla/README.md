# A verification project for OcuClaw

TLA+ models of the OcuClaw plugin for Hermes Agent, the TLC runs that check them and the
TLAPS proofs about them. Everything is translated from the code; where a document is meant,
it is `src/PROTOCOL.md`.

## 1. The system

OcuClaw lets a phone with smart glasses talk to an agent that runs under a Hermes gateway.

```
 glasses - phone --WebSocket--> relay worker thread --port--> relay main thread   (one Node process)
                                                              |               \
                                                     NDJSON control link       WebSocket
                                                       (stdin/stdout)             \
                                                              |                 OpenClaw gateway
                                               gateway plugin (Python, asyncio) - Hermes
```

- The **gateway plugin** (`*.py`) runs inside the gateway process. `adapter.py` is Hermes'
  messaging platform for the phone: it takes dispatches, receives what agents send and edit,
  and spawns the Node runtime. `board_*.py` follow the boards of tasks that agents keep.
- The **Node runtime** (`dist-cjs/`) is the relay. Its main thread holds sessions and
  conversation state; a worker thread owns the sockets, so that a busy main thread does not
  drop phones. The two exchange messages over a port.
- The **control link** joins the two processes with one JSON frame per line. Either end calls
  the other. With OpenClaw as the host the relay is a client of that gateway instead.

### Components

| component | state | operations | hard behaviour | what makes it correct | module |
|---|---|---|---|---|---|
| control link (`control_link.py`, `hermes-control-link.cjs`) | pending calls, issued ids, bounded write queue, handlers, closed and ready flags, at each end | request, serve, write, drain, cancel, time out, truncate, close | cancellation and closure against a frame being written; both streams full | a call runs at most once, settles once, `not_sent` is the truth, nobody waits for ever | `ControlLink`, `CallContract` |
| message send between relay threads (`relay-worker-queue`, `-transport`, `-supervisor`, `relay-operation-registry`) | worker entries and retained finals, client ids, registry of operations | send, forward, receipt, final, expire, resume, reconcile | copies of a send; the worker answers for main; the worker dies; sockets break | a message is begun once; what the phone is told is true; it is not left without an answer | `RelaySend` |
| gateway restart (`restart_rpc.py`) | receipt file, boot id, draining | preview, execute, status | the process dies by design in the middle; writes fail; replies are lost | an operation reaches the native restart once; replies never contradict | `RestartAdmission` |
| dispatch ledger (`dispatch.py`, parts of `adapter.py`) | records of a session in order, riders, marks, stashed closures, open messages | dispatch, send, edit, session end, completion, cancel, fail, sweep | replies, hook thread and callbacks arrive in several orders; turns merge, are absorbed or refused | a reply is stamped with its run, committed once; a run is closed once, and is closed | `DispatchLedger` |
| reply delivery evidence (`reply-delivery*.cjs`, `hermes-reply-delivery-link.cjs`, `first_run.py`) | attempts, waits, origins, report queue, candidate and record | observe, probe, receipt, revise, expire, report, record | revisions and disconnects against a probe; lost reports; a new worker | evidence is of the current revision and the right phone, settles once, reaches the gateway | `ReplyDelivery` |
| gateway client (`openclaw-client.cjs`, bootstrap of `upstream-runtime.cjs`) | socket, handshake, pending requests, captured run ends, what the phone is shown | connect, hello, request, time out, shutdown, reconnect, stop | responses and drops against continuations that have not run yet | a lost connection is not shown; captured ends are reported or go with the connection | `UpstreamClient` |
| greeting send gate (`greeting-send-gate.cjs`, `session-service.cjs`) | a gate per new session: held sends, the greeting's run, timers | arm, hold, note events, preempt, release, evict | an abort, its receipt, the run's end, the deadline and a drop race | held sends go out once, in order, do go out, and not into the greeting | `GreetingGate` |
| board watches and moments (`board_moments.py` and neighbours, `hermes-board-moments.cjs`) | watches, rule, policy, checkpoint, deliveries, pairing | watch, catch up, push, acknowledge, release, coalesce, resend, re-pair | crash between cursor and delivery; a step left on its thread; a board replaced or pruned | a wanted event is a delivery until the phone took it, a newer one replaced it or nobody wants it | `BoardMoments`, `MomentContract` |
| relay lifecycle (`relay-worker-supervisor.cjs`, entry and transport of the worker) | worker, readiness, watchdog, restart timer, clients, graces, close | start, ready, exit, restart, hello, leave, select, grace, close | the replacement dies as well; phones return under other ids; close waits for a dead worker | it listens again or fails for good; a session with a phone is not torn down, one without is | `RelayLifecycle` |
| presence (`presence.py`, `receipts.py`, `hermes-presence-push.cjs`) | pull in flight, follow-up flag, receipt | dirty push, pull, write, tick, stop | pushes during a pull; failing pulls; a shutdown receipt | what a push announced is in the receipt in the end | `AppPresence` |
| phone pairing (`pairing.py`, `domain/pairing/`) | exchange, credential, completion | offer, claim, confirm, expire | two phones, expiry against confirmation | one credential per exchange | section 7 |
| Even AI (`even-ai/`) | waiting requests, recovery file | ask, answer, recover | restart with an answer outstanding | an answer is given once | section 7 |
| sessions, routers, session watches | session lists, pending prompts | many small ones | polling timers | candidates, see section 7 | not modelled |
| management, setup, command line, Cloudways, UI tools, speech and prediction, vendored code | little, or external | reads, reports, installers, text | few | outside the core | not modelled |

`PROJECT.json` has the same list with every group of files and the reason for what is left out,
and under `hazards` what is hard to test in this code, at its line.

### How they meet

A message of the phone enters the worker (`RelaySend`), is begun by main, goes over the link
(`ControlLink`) as `dispatch.send`, becomes a record of the ledger (`DispatchLedger`), and its
reply comes back the same way. When the turn ends, the gateway publishes it as the candidate
of the first-run evidence and the relay proves that the reply reached the phone
(`ReplyDelivery`). Under OpenClaw the message goes to the gateway's WebSocket (`UpstreamClient`),
behind the gate of a new session (`GreetingGate`). The supervisor (`RelayLifecycle`) replaces the
worker under all of them and is the source of what the presence receipt says (`AppPresence`).

Two pairs are composed: `GreetingGate` extends `UpstreamClient`, so that the gate meets every
drop, timeout and late answer of the connection it really has; `AppPresence` extends
`RelayLifecycle`, so that what is pulled changes as phones and workers come and go. The other
modules are checked apart: each has, in the place of the others, what they may do to it (frames
lost by a closed link, clients that vanish with a worker, turns that end in any order).

## 2. Modules

Each component has one module, with the state as variables, one action per handler or event and
its properties at the end. `MC<Module>.tla` makes the small instances and each `.cfg` is one
run. Definitions headed "Mutant:" are deliberate bugs: each stands before the definition it would
replace, is used by nothing, and shows which mistake a property detects.

**ControlLink.** The two ends differ as the code does. Node pumps its queue inside the call
that enqueues and stops when `write()` returns false; Python has a writer task that waits for
the stream after each frame, and a cancelled or resolved request runs its `finally` block only
when its task resumes. So the host has `cancelled`, `future` and `HostResume` where the child
has `ChildCancel` and `ChildEnd` in one step. A stream is a FIFO that takes `HighWater` frames
before it asks to wait; the byte budget is a number of frames that can exhaust it. Closing may
lose any suffix of what the stream holds. `runs` counts how often the other end started a call.

**CallContract.** What the link promises its callers: `Submit`, `Start`, `Settle`. `ControlLink`
instantiates it with its own `outcome` and `runs`.

**RelaySend.** `queued` and `retained` are the worker's, `registry` and `replyTo` main's, and
`toMain`, `toWorker` the port. One action handles one message of the port. Client ids restart with
every worker, as in the code, so a frame may name a phone it was not meant for. A crash loses
the worker's state and what main posted; what the worker had posted is handled first.

**RestartAdmission.** The handler does not await, so a step of it is interrupted only by the
death of the process: `Admit` (durable fence), `Call`, `Record`. A write may fail before or
after it replaced the file, and a file that cannot be read refuses the request. `told` keeps what every reply
said of the phase of an operation; a refusal says nothing of it and changes nothing.

**DispatchLedger.** Functions of a "world" record (the variables the ledger changes) compose as
the handlers do: pop, terminal, commit. Hermes is external: turns start, merge photos, absorb
messages, end and die as the plugin's comments and guards allow. The session-end hook is two
steps, its checks and its pop of the head, both on the agent's thread while the loop goes on. The pop
takes the ledger's lock twice, to look for an open message and then to close the head; a message that opens
between the two is committed with the closing, which `EndPop` allows for any open message.

**ReplyDelivery.** The phone, the worker's client ids, the relay's attempts and waits, the
sweep timer, the report queue with one report in flight, and the gateway's candidate and record.
Announcing, settling and rescheduling compose as functions of a world, since they call each other
within one event.

**UpstreamClient** has no specification of its own: it is the connection that GreetingGate extends.
A promise is settled by one event and its continuation runs as a *job* later: `ws` may emit
several frames of one chunk before the jobs run, while timers, close events and the phone may
not come between. That is the difference that lets a half-answered bootstrap or a run end fall
between a response and what waits for it. `pending` is what the client waits for, `asked` what the
gateway has not answered; a request that timed out leaves the first and not the second when the
gateway may still act on it.

**GreetingGate.** `gate` is the session's gate with its timer and the abort it waits for, `held` its
queue, `gone` what has been dispatched. `Flush` runs all held sends in the step that removes the
gate, as `flush` does; every cause of release is an action or a part of one. `run` is the gateway's
own view of each run, which events may report late, or not at all when nothing is listening.

**BoardMoments.** The board and its log belong to Hermes; rows may be pruned and the board replaced.
A catch-up step reads preferences, then the board, perhaps finds its place lost, and commits
(`ReadStore`, `ReadBoard`, `Boundary`, `Resets`, `Commits`): each is a transaction on a thread of its own, and
the second lane, `stray`, is a step that an earlier pump left running there. The pump pushes what
is due, at most `PushBatch` at once, and releases what nobody wants. An acknowledgement that the old link sent on
is stored by a thread of its own and may come after the link is gone. `owed` is a history variable: which
events somebody asked for and still wants, by a watch or by the rule.

**MomentContract** is what the chain promises of one event: unread, pending, then acknowledged,
replaced by a newer one of its card, or dropped when nobody wants it. `BoardMoments` implements it
under the mapping of `StateOf` (`KeepsContract`).

**RelayLifecycle** has the supervisor: the worker's thread (`booting`, `stuck`, `up`, `dying`), the port, the
readiness promise, the watchdog and the restart timer, the clients main believes in, and the
grace of a phone that vanished. `setup` is the host and the bounds of one behaviour.

**AppPresence** composes it with the push, the pull and the receipt, and holds Init and Next: a
step of the relay changes what is true, `missed` says whether something was changed that no push
announced.

## 3. Runs

| run | bounds | properties | what it shows |
|---|---|---|---|
| `link_tight` | 2+1 calls, one slot in every queue, streams of one frame | LinkInv, AnswerIsNotLost, ClosedIsQuiet, KeepsContract, EveryCallSettles | overload, cancellation, truncation and closure in every order; full streams do not wait on each other |
| `send_crash` | 2 phones, 1 request each, a queue of 1, copies of a request, 1 dead worker | RunsOnce, EntryIsOutstanding, RestartVerdictIsTrue, AcceptedIsKept | retries, timeouts, a full queue, retained finals, reused client ids |
| `send_live` | 1 phone, 3 broken sockets, 2 dead workers | NoneIsForgotten, EverySendIsAnswered | reconcile ends every doubt; one attempt is enough while nothing breaks |
| `restart_two` | 3 operations, a store of 2 receipts, 2 boots, 2 sets of profiles | OneAdmission, RepliesAgree, RecoveredByAnother, ReceiptsAreKept, RecoveryIsHeard | crashes and failed writes at every point; a full store; a phone that goes on asking hears of the return |
| `ledger_safety` | 3 runs, four settings (below) | LedgerInv, EndsOnce, NothingStreamedIsLost, StampedByItsRun | orders of sends, edits, hooks, callbacks, timers, cancellation, refusals |
| `ledger_live` | 3 photo runs, absorption | EveryRunEnds | every run is closed |
| `ledger_grace` | 2 runs, `/stop` | EveryRunEnds: violated | the finding of section 4 |
| `reply_two` | 2 turns | CurrentEvidenceStays | late reports of a replaced candidate |
| `reply_live` | 1 turn, 2 phones, every shape of entry, a revision, 1 lost report, 1 dead worker | SettledOnce, EvidenceIsCurrent, ObservationSettles, GatewayLearns | evidence is of what is shown; observations end once and the gateway hears |
| `gate` | 2 messages, the greeting and a run of another session, one extension of the deadline, any number of drops | GateInv, SendsInOrder, ReleasedWhenOver, HeldSendsGo, ShownIsTakenBack, CapturedEndsGo | a gate releases once, in order, at the latest by its deadline, whatever the gateway never answers |
| `moments` | 1 card, 2 events, pushes of 1, 1 change of mind or fault anywhere | StoreInv, OwedIsKept, KeepsContract, OwedReachesPhone | the chain from event to acknowledgement with crashes, lost pushes, stray steps, replaced boards and re-pairing |
| `relay` | 6 settings: 3 connections, 2 dead workers | RelayInv, LeftIsDrained, ListensAgain, ReceiptComesTrue | graces against returning phones, replacements that die, pulls against pushes |

**Bounds.** One slot in every queue makes every overload path reachable with two calls; two
calls at one end are what competition for a slot needs. In `send_crash` the requests of two phones
compete for one queue entry, and two messages on the port when a phone sends are two copies of a
request or one of each; broken sockets are in `send_live`, where a second dead worker is needed for
a reply addressed to an epoch twice gone. Two boots are the one that was asked and the one that
proves recovery; the proofs of section 5 cover any number of boots, operations and receipts. Three
runs of the ledger are one that is active, one that waits and one that rides or cancels. Two runs
of ReplyDelivery are the current candidate and the one it replaced. Two messages behind a gate
are one that arms the preemption and one that joins it; `Runs` of `gate` are the greeting and one
whose start or end may be taken for it. Two events of a card are one and the newer one that replaces
it; two cards meet only in the limit on pushes, and the same instance with two cards (about a
million states) passes when run by hand. The store of `moments` has room for two deliveries, so that one can replace
the other; with two events it is never full when a step begins, and the branch that pauses the tail (`room <= 0` in
`ReadBoard`) is covered by the theorems about BoardMoments only. Counters that only bound the exploration (`MaxInFlight`, `MaxDrops`,
`MaxCrashes`, `MaxBoot`, `MaxPreviews`, `MaxMessages`, `MaxIds`, `MaxRev`, `MaxFailures`,
`MaxSends`, `MaxEvents`, `MaxTurns`, and `ids`, `deaths`, `moves` and `fails` of a relay setting) are constants
named in the guards. Runs of the ledger are interchangeable, and `ledger_safety` uses symmetry; runs with liveness do
not. Deadlock is not checked: every model ends when its bounded inputs are used up.

**Settings of the ledger.** What a behaviour may contain is one of the constant `Setups`, chosen in
the initial state and kept: which kinds are dispatched, whether Hermes absorbs messages into a
running turn, whether the provider refuses calls, whether failures come late, how many messages a
turn sends and how many commands there are. `ledger_safety` has four: messages and slash commands
in order, two messages a turn; photo bursts and slash commands with absorption and late failures;
one `/stop` among photos; photos with refusals. Not every pair is combined, for size; the theorems
of section 5 cover every setting. NothingStreamedIsLost speaks of turns: what a refused turn
streams after it was closed may land on the record of a slash command (the hazard at
`dispatch.py:366`). StampedByItsRun is about messages and slash commands that Hermes takes in their
order (`Orderly`): where it absorbs, refuses, merges or is handed a dispatch late, runs do get
stamped on the text of others, which is what section 4 tells of. With four runs in that setting,
3.8 million states, `ledger_safety`'s properties hold when run by hand.

**Settings of the relay.** `Boot`, `Death` and `Crowd` have Hermes as the host, where there is a receipt and phones name no session;
`Grace`, `Wander` and `Three` have OpenClaw, where hellos name sessions and graces matter. Each has
the deaths, connections, changes of session and failed pulls it is about.

**What the models merge.** *Moments*: the reads and the write of a checkpoint's creation, the reads
of the store, and the read and write of a rule, are one step each; one watch is set at a time, and the
board does not go while it is, nor between the read and the commit of a step; the first pairing is already recorded; there is
one stray step, and one acknowledgement that outlives its link, which is stored before the next pump looks at the pairing (nothing in the
code says so: stored after that, it would settle for the new phone what the old one took); the
window of a push limit passes only when a delivery waits for it. *Gate*: a
session is begun when the bootstrap is over, and a run of another session begins while the gate is
open. *Relay*: a session switch and its answer are one step; bind retries inside the worker are not there, nor the watchdog that each of
them arms anew (`worker_listen_holder_retry`); one settle timer
stands for several; the port and the link are in order and up; a terminated worker's posted
messages are still handled; clients that are not apps are left out.

**Fairness.** *Link*: reading, writing and resuming tasks happen (event loops run), handlers
return; no timer, cancellation or closure is assumed. *RelaySend*: both threads handle
their messages, main answers what it began, phones reconnect and a dead worker is replaced; expiry
is not assumed. *Restart*: the handler continues, a drain ends, the gateway boots again, and the
phone repeats its request; the process may still die a bounded number of times. *Ledger*: timers
and tasks of the plugin run; Hermes calls the completion callback of a turn (strong fairness: it is
interrupted by other steps of the same turn). *ReplyDelivery*: timers, the link and the report task
run; nothing is assumed of phones or of when the worker dies. *Gate*: jobs run, the timers of the
client and of the gate fire, a closing socket closes; the gateway owes nothing, neither an answer
nor the end of a run. *Moments*: the pump runs, and the steps that can happen only so often (a stray step, the second
half of a watch, a phone that returns, quiet hours that end) do; a phone that is online takes what was pushed, its
acknowledgement arrives, and time passes. *Relay*: the threads run, the watchdog, the restart timer
and the graces fire, and pulls are answered; nothing is assumed of phones, of faults, of the 30 s
tick or of a stop.

## 4. Findings

`ledger_grace` is violated. A cancelling command meets a run whose closing waits for the tail of its stream
(`adapter.py:11016`): the closure is taken, nothing emits a terminal, and the run is never closed.
`PROJECT.json` quotes the sentence it contradicts.

Other disagreements and oddities were met while modelling. They have no run: the models contain
them, or leave them out where they say so, and the properties are stated so that they hold beside them.

- A refused run gets two terminals when its message is committed in the middle of its own closing
  (`adapter.py:11125`), although `dispatch.py:546` says that must not be. EndsOnce excepts refused runs.
- A final that arrives just after the session end is stamped with a promoted follow-up
  (`dispatch.py:366`) rather than with the run retained for it (`dispatch.py:63`). StampedByItsRun
  excepts messages sent after the session end.
- The janitor closes a head that errored and promotes nobody (`sweep_stale`, `dispatch.py:535`), so that with a slash command
  pending the next send fails `pop_slash_head`, and `note_send`
  (`dispatch.py:386`) activates the pending slash record and makes the message its own, although
  `adapter.py:5606-5609` says that such a record "never passes through `note_send`". The send after
  it is taken for the command's reply.
- A photo that arrives when a turn's session has ended (or a command has replied) but its completion
  has not run merges, in Hermes, into the turn that is queued next; for the ledger that turn's record
  is active already, and it keeps the photo apart (`dispatch.py:302-311`, against "Busy dispatches
  mirror hermes's REAL busy bookkeeping", `dispatch.py:35`). The record it gets is of no turn, and the
  text of the turn after is stamped with it. It takes four runs; `Orderly` leaves photos out for it.
- A worker's timeout says that main "did not accept the message" (`relay-worker-protocol.cjs:244`)
  from the age of its own entry (`relay-worker-queue.cjs:130`), while main may have begun it: in RelaySend,
  `Send`, `TakeSend`, then `Expire` before `TakeFrame`.
- A dead worker's clients are cleared without the disconnect handler
  (`relay-worker-supervisor.cjs:1184`) and without a presence push or a drain of their sessions; ids
  restart, `goingAwayClientIds` is kept, and another phone's receipt may be taken for the one a
  message came from (`PROTOCOL.md:2325`).
- The operation barrier has a single slot (`relay-worker-supervisor.cjs:719`), and frames may be posted twice.
- `close()` listens for the next message of the worker only (`relay-worker-supervisor.cjs:1282`):
  another message uses it up, and close waits for its timeout (`ear` in RelayLifecycle).
- A worker whose entry is missing before it was ever ready leaves `start()` unsettled.
- A phone that selected another session than its hello's: on disconnect only the hello's session is
  drained, and a reported change of session drains nothing.
- A bootstrap half answered when the connection drops shows it as connected until the next status event
  (`upstream-runtime.cjs:1641`); ShownIsTakenBack says that one comes.
- A run's end is attributed to `_activeRunId`, and the text of any run overwrites `_runTextBuffer`
  (`openclaw-client.cjs`): `Reported` in UpstreamClient.
- A second `connect()` after the child ended builds another presence pump and board pump beside the old
  ones (the `stray` lane of BoardMoments), and on Python 3.11 and earlier `wait_for` may swallow the
  cancellation of a pull, which then overwrites the shutdown receipt.
- A crash between `set_mode(off)` and `note_watch(off)` leaves the start of the watch, and a later watch
  replays the events since (`board_moments.py:466`).
- A catch-up step reads the preferences before the board, so that the event just after a watch or a
  rule was set may be passed (`board_moments.py:564`, against `:19-21`). `Late` in BoardMoments leaves
  such events out of what is owed.
- A new pairing reopens every taken delivery of a card, several of which may now be pending
  (`board_moments.py:919`, against `:38-39`). `Reopened` in MomentContract allows it.

## 5. Proofs

Every safety property that a run checks, invariant or action property, is a theorem, and so are the two
refinements. The proofs hold for every value of the constants, under the assumptions named in the
modules and repeated below; TLC evaluates those in every run. In each module the lemmas about data
come first (sequences, sets, what a helper returns), then what the operators of the model keep, one
lemma per action, and last the lemma about `Next` and the theorems.

**ControlLinkProofs** (finite disjoint sets of calls, positive limits). `TypeCorrect`,
`InvCorrect`, `NotSentCorrect`, `ContractCorrect`, `AnswersCorrect`, `QuietCorrect`. That a call told
`not_sent` never runs is not inductive: that it has no frame under way depends on which calls each
end believes issued, and that on where the one frame of the call is. `LinkInv` says so: frames are of
the right end's calls and unique (FramesInv), a queued request is not issued and not run (QueuedInv),
one on the wire is known to be issued (WireInv), results come from executions (RunsInv), the pending
map and futures agree with outcomes (PendingInv, FutureInv), and streams and flags agree (StreamInv).
`ContractCorrect` maps each step to `Submit`, `Start`, `Settle` or a stutter of `CallContract`, under
the invariant. `HoldInv` is for the other two: a host call that waits is pending or its task has
something to resume with (HostPending), a call that ran has its answer somewhere while both ends are
open (AnswerInv: what an end that closes had not read is lost, and its caller is told `uncertain`),
and a closed end has nothing queued, pending or running (QuietInv).

**RestartProofs** (bounds are naturals). `TypeCorrect`, `AdmissionCorrect`, `RepliesCorrect`,
`ReceiptsCorrect`, `RecoveryCorrect`. `OneAdmission` needs `FenceInv`: an operation without a
receipt was never called, and one being handled has its receipt and is not called until its call.
`RepliesAgree` needs `ReplyInv`, which ties the phase on disk to what the native call answered and
to what was told, at each step of the handler. `StoreStep` says what a step may do to the receipts;
ReceiptsAreKept follows from it, and so does RecoveredByAnother with `BootInv`: no receipt is of a
boot to come.

**RelaySendProofs** (every request has an owner, finitely many phones, bounds are naturals; any number
of requests, broken sockets and dead workers). `BeginCorrect` and `AcceptedCorrect` need the
registry to agree with what was begun and every frame that says `accepted` with the registry.
`RestartVerdictCorrect` is the hard one: the worker gives the verdict `restarted` for main, on an
answer that was true when main gave it, and copies of the message may be on the way. `Sealed` says
when it stays true: main has not begun the message, no copy of it is on the port, and the phone will
not send it (it has a final, or it knows of a worker's receipt only and is away or asking). Three
things make it inductive. A question is behind every copy of what it asks about (`BehindInv`),
because the phone stopped sending before it asked. What is on its way about a message that is being
asked about was meant for an earlier client id (`AskedInv`), so that no late receipt ends the
silence; and an id on its way was given out by the worker that lives, unless main has begun the
message (`IdsInv`), so that ids that restart do no harm here. `EntryCorrect` rests on `QueueInv`: a
worker gives an id to a phone that is there or has dropped, so that the ids stay within their type,
and an entry of the queue has its message or the frame that settles it on the port.

**DispatchProofs** (any runs, settings and messages per turn; None is no run). `LedgerCorrect`,
`EndsCorrect`, `StreamsCorrect`, `StampsCorrect`. The functions of a world are proved first: each
keeps `Sound(w, K, n)`, where K are the runs that have left the fifo and owe a terminal, and n counts
what each turn has sent. It says that a record is in one place, a rider on one carrier, and a mark of
a run that headed the session; that a run still in the fifo or in K has no terminal; that a message
is the current one of one record, is not sent before its number, and is uncommitted while it is open;
and what was shown. `Kept` says where shown text is: committed, open, or of a cancelled run. `IInv`
adds what ties the ledger to its surroundings: the stages of a dispatch in its handler and in Hermes,
one stashed closure per run (Tails), one command per drained run (Drains), cancelled runs out of the
fifo (Cancels), and `Sealed`: a record of the fifo whose message is committed names one that Hermes
has sealed or left for the next, without which an edit could commit it again. `StampsCorrect`
needs a second invariant, `OrderInv`, about orderly settings. `InRow(d, e)` matches the fifo with
Hermes: the turn that still sends (if d is 1), then what Hermes has queued, in its order, then the
dispatch that is failing (if e is 1). It holds as long as nothing was stamped with another run, and
then the run at the head is the turn that sends; the first message that breaks it comes after the
session end.

**ReplyProofs** (finitely many runs; `None` is no phone and no run; shapes include a text and its
absence). `AnnouncedOnce`, `EvidenceCorrect`, `EvidenceStays`. The actions announce and settle many
runs in one step, by folds over sets; a lemma by least counterexample says what such a fold keeps,
and `Sound` what each function of a world keeps: a run that is tried or waits has not been announced,
reports are of runs that were, and the head of the report queue is the one under way. `ReplyInv` adds that an attempt on a visible text is
of the revision shown (ShownInv), and that a recorded run is one nobody asks about again
(RecordIsAnswer).

**GreetingProofs** (the greeting is a run; any runs, messages, extensions and retries).
`OrderCorrect`: what was dispatched followed by what is held is what the wearer sent, in order. A step
leaves both alone, empties the queue in its order, or adds one message; and messages are held by an
open gate only, so that one sent past the gate overtakes none. `GateCorrect` and `ReleaseCorrect`
rest on `WaitInv`: a gate that awaits a receipt or asks about its run has that request at the client
(Waits), and each thing that says that the greeting is over, a noted end, a receipt behind a job, a
captured end, is right about the gateway's run (Evidence).

**BoardProofs** (any cards, rule, classes, store size, numbers of events and faults). `StoreCorrect`,
`OwedCorrect`, `ContractCorrect`. `CoreInv` says what each step of each lane has read and how much of
it can have changed since: a lifetime that a step found gone has not come back, deliveries found are
of events between the two cursors, and the board stays while they are held. `OwedInv` says where an
owed event is: without a delivery it is ahead of the cursor and of every step under way, and each
step that will pass it carries it to the store; with one, the delivery is not dropped.
`ContractCorrect` maps each step of the chain to one of `MomentContract`, or to a stutter, for every
card and event.

**PresenceProofs** (AppPresence with the relay it extends; any sessions, ids, deaths, moves and failed
pulls). `TornDownUnseen`: what waits on the glasses is torn down only for a session no phone is on.
`PresenceInv` adds to the types that a grace waits for a phone on the very session it would tear down.

TLC checks `LinkInv` in `link_tight`; the other strengthenings were checked by TLC on small instances
before they were proved. Model-checked only: liveness under fairness, and with it ENABLED, which the
prover does not handle: EveryCallSettles, NoneIsForgotten, EverySendIsAnswered, RecoveryIsHeard,
EveryRunEnds, ObservationSettles, GatewayLearns, HeldSendsGo, ShownIsTakenBack, CapturedEndsGo,
OwedReachesPhone, LeftIsDrained, ListensAgain and ReceiptComesTrue. No theorem depends on the library's
induction theorems, which the provers cannot instantiate: where an induction is needed (a fold, the
least or greatest of some numbers) a least counterexample is taken from the well-foundedness of the
naturals.

## 6. What is not modelled

In the modelled parts: the 90 s retention of the operation registry (one window is covered), the
barrier that holds back main's frames while a send resolves, the idempotency index of the ledger,
draining when the relay disconnects, deferral of turns restored at startup, slash confirmation,
eviction at 128 entries, expiry of a candidate, the binding of evidence to a credential, a
restart of the Node runtime alone; device pairing, chat streams and tools of the OpenClaw client;
several boards and profiles, an unknown moment policy, a board file restored in place; health
probes, nudges, and replay of approvals in the supervisor. Payloads are
abstract everywhere: texts are shapes, frames carry a call and a tag, times are orders of events.

Left out altogether: generated tables, font metrics, vendored packages, installers that drive
other programs, and projections of Hermes' own stores (see `components`). Together with the
word tables, the fonts and the management projections they are most of the repository's lines, which is why
the share of lines the models cover is small.

## 7. Plan

Done, in order of importance: ControlLink with CallContract, RelaySend, RestartAdmission,
DispatchLedger, ReplyDelivery, GreetingGate over UpstreamClient, BoardMoments with MomentContract,
AppPresence over RelayLifecycle; the proofs of every safety property about them.

Next:

1. Abstract specifications, with proofs of their refinement, of the sending chain (a message is begun
   at most once, its verdict is true) and of the ledger (a run is begun, streams, is closed).
2. The operation barrier, with the frame producers of `relay-core.cjs`; the retention of the registry
   once the phone's own timeout is known.
3. The idempotency index and draining in DispatchLedger.
4. Pairing, the Even AI waiter and its recovery, the session writer, the routers of pending prompts,
   the glasses backpressure latch.
