--------------------------- MODULE DispatchLedger ---------------------------
(***************************************************************************)
(* Which run a reply belongs to (dispatch.py and the dispatch, send, edit  *)
(* and hook handlers of adapter.py), for one session.                      *)
(*                                                                         *)
(* Hermes tells the adapter which chat a message is for, not which turn    *)
(* wrote it.  The ledger keeps the runs of the phone's dispatches in the   *)
(* order Hermes is expected to take them and stamps what arrives with the  *)
(* run at its head.  Replies, the session-end hook (on the agent's thread) *)
(* and the platform's completion callback arrive in several orders; a turn *)
(* may be cancelled, fail, or never start.                                 *)
(*                                                                         *)
(* One action is one synchronous stretch of the gateway loop, or what a    *)
(* hook does under the ledger's lock.                                      *)
(***************************************************************************)
EXTENDS Naturals, FiniteSets, Sequences, SequencesExt

CONSTANTS
  Runs,         \* run ids the phone's dispatches mint
  None,
  Setups,       \* what a behaviour may contain, see `setup'
  MaxMessages   \* bound: messages of a turn

\* kinds: what phones dispatch; steer: Hermes may absorb a message into a running
\* turn; refusals: the provider may refuse a call for good; slow: handle_message may
\* suspend before it raises; messages: how many a turn sends; commands: how many of
\* the dispatches are commands.
ASSUME SetupsAssumption ==
  Setups \subseteq [kinds : SUBSET {"text", "photo", "slash", "stop"}, steer : BOOLEAN,
                   refusals : BOOLEAN, slow : BOOLEAN, messages : 0..MaxMessages,
                   commands : Nat]
ASSUME NoneAssumption == None \notin Runs
ASSUME BoundAssumption == MaxMessages \in Nat

\* Message k of the turn of run t: the id send() mints.
Messages == Runs \X (1..MaxMessages)
NoMessage == <<None, 0>>

VARIABLES
  fifo,       \* the session's records, oldest first
  rec,        \* run |-> its record
  cancelled,  \* runs whose delivery was cancelled
  marks,      \* provider-error marks
  stash,      \* <<run, completed>>: closures waiting for their tail
  lastEnded,  \* the run whose late final send is expected
  handler,    \* run |-> where its dispatch handler is
  drained,    \* run |-> records its /stop is closing
  native,     \* Hermes: run |-> what became of its turn
  queue,      \* Hermes: turns waiting
  photos,     \* Hermes: turns that carry media
  probing,    \* turns whose session-end hook has passed its checks
  text,       \* Hermes: turn |-> its current message: none, open, sealed, failed
  count,      \* Hermes: turn |-> messages sent
  out,        \* what the phone was sent, and the history of marks and stamps
  setup       \* the member of Setups this behaviour keeps to

ledger == <<fifo, rec, marks, out>>
hermes == <<native, queue, photos, probing, text, count>>
vars == <<ledger, cancelled, stash, lastEnded, handler, drained, hermes, setup>>

Kinds == setup.kinds

NoRecord == [state |-> "none", kind |-> "turn", media |-> FALSE, riders |-> {},
             msg |-> NoMessage, open |-> FALSE, error |-> FALSE]

Init ==
  /\ fifo = <<>> /\ rec = [r \in Runs |-> NoRecord]
  /\ cancelled = {} /\ marks = {} /\ stash = {} /\ lastEnded = None
  /\ handler = [r \in Runs |-> "none"] /\ drained = [r \in Runs |-> {}]
  /\ native = [r \in Runs |-> "none"] /\ queue = <<>> /\ photos = {} /\ probing = {}
  /\ text = [r \in Runs |-> "none"] /\ count = [r \in Runs |-> 0]
  /\ out = [ends |-> [r \in Runs |-> <<>>], commits |-> [m \in Messages |-> <<>>],
            shown |-> {}, refused |-> {}, strays |-> {}]
  /\ setup \in Setups

-----------------------------------------------------------------------------
(* The ledger: functions of a world w, the variables it may change. *)

World == [fifo |-> fifo, rec |-> rec, marks |-> marks, out |-> out]
Becomes(w) == fifo' = w.fifo /\ rec' = w.rec /\ marks' = w.marks /\ out' = w.out

\* The first run of q that stands at one of the places.
First(q, places) == IF places = {} THEN None ELSE q[Min(places)]
InState(w, s) == {i \in DOMAIN w.fifo : w.rec[w.fifo[i]].state = s}
Active(w) == First(w.fifo, InState(w, "active"))
Pending(w) == First(w.fifo, InState(w, "pending"))

Activate(w, r) == IF r = None THEN w ELSE [w EXCEPT !.rec[r].state = "active"]

\* Remove r, which has one place; the next pending record becomes active.
Without(q, r) == RemoveAt(q, CHOOSE i \in DOMAIN q : q[i] = r)
PopOnly(w, r) == [w EXCEPT !.fifo = Without(@, r), !.rec[r].state = "gone"]
Pop(w, r) == Activate(PopOnly(w, r), Pending(PopOnly(w, r)))

Group(w, r) == {r} \cup w.rec[r].riders

\* Terminal activity for a set of runs.
Terminal(w, rs, ok) ==
  [w EXCEPT !.out.ends =
     [r \in Runs |-> IF r \in rs THEN Append(@[r], IF ok THEN "end" ELSE "error") ELSE @[r]]]

\* A commit of a provider-refused run closes it as errored: its group when it is
\* still at the head, and else the run itself.
NoteCommit(w, r) ==
  IF r \notin w.marks THEN w
  ELSE LET v == [w EXCEPT !.marks = @ \ {r}]
       IN IF Active(v) = r THEN Terminal(Pop(v, r), Group(v, r), FALSE)
          ELSE Terminal(v, {r}, FALSE)

Commit(w, m, r) ==
  LET sealed == [w EXCEPT !.rec[r].open = IF w.rec[r].msg = m THEN FALSE ELSE @]
  IN NoteCommit(IF r \in cancelled THEN sealed
                ELSE [sealed EXCEPT !.out.commits[m] = Append(@, r)], r)

CommitOpen(w, r) == IF w.rec[r].open THEN Commit(w, w.rec[r].msg, r) ELSE w

-----------------------------------------------------------------------------
(* Dispatch. *)

Busy == ToSet(fifo) \cap {r \in Runs : rec[r].state \in {"active", "pending"}} # {}

\* The pending turn photos merge into.
HeadSlot == First(fifo, {i \in InState(World, "pending") : rec[fifo[i]].kind = "turn"})

Merges(k) == /\ k \in {"text", "photo"} /\ HeadSlot # None
             /\ k = "photo" \/ rec[HeadSlot].media

NewRecord(k, s) ==
  [NoRecord EXCEPT !.state = s, !.media = (k = "photo"),
                   !.kind = IF k \in {"slash", "stop"} THEN "slash" ELSE "turn"]

\* DispatchLedger.begin
BeginRecord(w, r, k) ==
  LET carrier == [w.rec[HeadSlot] EXCEPT !.riders = @ \cup {r}, !.media = @ \/ k = "photo"]
  IN IF Merges(k)
     THEN [w EXCEPT !.rec[r] = NewRecord(k, "rider"), !.rec[HeadSlot] = carrier]
     ELSE [w EXCEPT !.rec[r] = NewRecord(k, IF Busy THEN "pending" ELSE "active"),
                    !.fifo = Append(@, r)]

\* One more command is within the bound.
CommandsLeft ==
  Cardinality({r \in Runs : rec[r].kind = "slash" \/ handler[r] = "closing"}) < setup.commands

AtWork == {"running", "refused", "ended", "dying"}
Processing == {t \in Runs : native[t] \in AtWork}

Drained == UNION {Group(World, r) : r \in ToSet(fifo)}

\* /stop, /new and /reset: every record of the session is drained and sealed; then
\* the handler awaits the denial of open approvals.
Stop(r) ==
  /\ handler[r] = "none" /\ "stop" \in Kinds /\ CommandsLeft
  /\ cancelled' = cancelled \cup Processing \cup Drained
  /\ fifo' = <<>>
  /\ rec' = [x \in Runs |-> IF x \in Drained
                            THEN [rec[x] EXCEPT !.state = "gone", !.riders = {}] ELSE rec[x]]
  /\ lastEnded' = None
  /\ drained' = [drained EXCEPT ![r] = Drained]
  /\ handler' = [handler EXCEPT ![r] = "closing"]
  /\ UNCHANGED <<setup, marks, out, stash, hermes>>

\* The drained runs end, and the command gets its own record.
StopBegins(r) ==
  /\ handler[r] = "closing"
  /\ Becomes(BeginRecord(Terminal(World, drained[r], FALSE), r, "stop"))
  /\ lastEnded' = None
  /\ drained' = [drained EXCEPT ![r] = {}]
  /\ handler' = [handler EXCEPT ![r] = "killing"]
  /\ UNCHANGED <<setup, cancelled, stash, hermes>>

NativeBusy == \E t \in Runs : native[t] \in AtWork \ {"dying"}

\* Hermes merges photo bursts into the waiting turn, as the ledger expects.
NativeSlot == First(queue, {i \in DOMAIN queue : rec[queue[i]].kind = "turn"})
NativeMerges(k) == k # "slash" /\ NativeSlot # None /\ (k = "photo" \/ NativeSlot \in photos)

Lands(r, where) ==
  /\ native' = [native EXCEPT ![r] = where] /\ handler' = [handler EXCEPT ![r] = "done"]
  /\ queue' = IF where = "queued" THEN Append(queue, r) ELSE queue

Carries(t, k) == photos' = IF k = "photo" THEN photos \cup {t} ELSE photos

\* handle_message: Hermes starts the turn, queues it, merges it (or lets the running
\* turn absorb it), or raises later.
Accept(r, k) ==
  \/ ~NativeBusy /\ Lands(r, "running") /\ Carries(r, k)
  \/ NativeBusy /\ NativeMerges(k) /\ Lands(r, "merged") /\ Carries(NativeSlot, k)
  \/ NativeBusy /\ ~NativeMerges(k) /\ Lands(r, "queued") /\ Carries(r, k)
  \/ NativeBusy /\ setup.steer /\ k # "slash" /\ Lands(r, "merged") /\ UNCHANGED photos
  \/ handler' = [handler EXCEPT ![r] = "failing"] /\ UNCHANGED <<native, queue, photos>>

Free(r) == /\ handler[r] = "none"
           /\ setup.slow \/ \A x \in Runs : handler[x] # "failing"

\* handle_dispatch of a message or an ordinary command.
Begin(r, k) ==
  /\ Free(r) /\ k \in Kinds \ {"stop"} /\ (k = "slash" => CommandsLeft)
  /\ Becomes(BeginRecord(World, r, k))
  /\ Accept(r, k)
  /\ lastEnded' = None
  /\ UNCHANGED <<setup, cancelled, stash, drained, probing, text, count>>

\* handle_message of a cancelling command: Hermes kills the turn, drops the queue
\* and runs the command.
HandStop(r) ==
  /\ handler[r] = "killing"
  /\ handler' = [handler EXCEPT ![r] = "done"]
  /\ native' = [t \in Runs |-> CASE t = r -> "running"
                                 [] native[t] \in AtWork -> "dying"
                                 [] native[t] = "queued" -> "merged"
                                 [] OTHER -> native[t]]
  /\ queue' = <<>>
  /\ UNCHANGED <<setup, ledger, cancelled, stash, lastEnded, drained, probing, text, count, photos>>

\* The turn of t is over for Hermes; the next queued one starts.
Leaves(t) ==
  /\ native' = [x \in Runs |->
       CASE x = t -> "done"
         [] x # t /\ native[t] # "dying" /\ queue # <<>> /\ x = queue[1] -> "running"
         [] OTHER -> native[x]]
  /\ queue' = IF native[t] # "dying" /\ queue # <<>> THEN Tail(queue) ELSE queue

\* Mutant: the next pending record becomes active though one is.
PromoteAlways(w) == Activate(w, Pending(w))

Promote(w) == IF Active(w) = None THEN Activate(w, Pending(w)) ELSE w

\* r rides on no record of the fifo any more.
Drops(w, carriers, r) ==
  [w EXCEPT !.rec = [c \in Runs |-> IF c \in carriers
                                    THEN [w.rec[c] EXCEPT !.riders = @ \ {r}] ELSE w.rec[c]]]

\* discard_records: the record with its riders, or the rider from its carrier.
Discard(w, r) ==
  LET carriers == {c \in ToSet(w.fifo) : r \in w.rec[c].riders}
  IN Promote(IF r \in ToSet(w.fifo) THEN Terminal(PopOnly(w, r), Group(w, r), FALSE)
             ELSE IF carriers = {} THEN w
             ELSE Terminal(Drops(w, carriers, r), {r}, FALSE))

\* handle_message raised, for a slash command also after its reply.
Fails(r) ==
  /\ \/ handler[r] \in {"failing", "killing"} /\ UNCHANGED <<native, queue>>
     \/ rec[r].kind = "slash" /\ native[r] = "running" /\ Leaves(r)
  /\ Becomes(Discard(World, r))
  /\ handler' = [handler EXCEPT ![r] = "failed"]
  /\ UNCHANGED <<setup, cancelled, stash, lastEnded, drained, probing, text, count, photos>>

-----------------------------------------------------------------------------
(* What Hermes sends. *)

Current(t) == <<t, count[t]>>
Following(t) == <<t, count[t] + 1>>

\* A message of turn t is shown as run r's: the first that is not its own is kept,
\* with when it was.
When(t) == IF t = lastEnded THEN "expected" ELSE native[t]
Stamp(w, t, r) ==
  IF r = t \/ w.out.strays # {} THEN w ELSE [w EXCEPT !.out.strays = @ \cup {<<t, When(t), r>>}]

\* The reply of a slash command completes it.
SlashReply(w, m, h) ==
  Terminal([Pop(w, h) EXCEPT !.out.commits[m] = Append(@, h)], Group(w, h), TRUE)

\* Mutant: a fresh send drops the message that is still open.
OpensOver(w, m, r) ==
  [Activate(w, r) EXCEPT !.rec[r].msg = m, !.rec[r].open = TRUE, !.rec[r].error = FALSE,
                         !.out.shown = @ \cup {<<m, r>>}]

\* note_send: m becomes the record's open message, and the one it replaces is
\* committed.
Opens(w, m, r) ==
  LET was == w.rec[r]
      now == [Activate(w, r) EXCEPT !.rec[r].msg = m, !.rec[r].open = TRUE,
                                    !.rec[r].error = FALSE, !.out.shown = @ \cup {<<m, r>>}]
  IN IF was.open THEN Commit(now, was.msg, r) ELSE now

Uncorrelated(w, m) == [w EXCEPT !.out.commits[m] = Append(@, None)]

\* The record activity is for: the active one, or the first pending.
Heading == IF Active(World) # None THEN Active(World) ELSE Pending(World)

HeadsSlash(r) == r # None /\ r = Active(World) /\ rec[r].kind = "slash"

SendsUnder(t, m) ==
  LET r == Heading
  IN IF HeadsSlash(r) THEN Becomes(Stamp(SlashReply(World, m, r), t, r)) /\ UNCHANGED lastEnded
     ELSE IF r # None THEN Becomes(Stamp(Opens(World, m, r), t, r)) /\ UNCHANGED lastEnded
     ELSE /\ Becomes(IF lastEnded = None THEN Stamp(Uncorrelated(World, m), t, None)
                     ELSE Stamp(Commit(World, m, lastEnded), t, lastEnded))
          /\ lastEnded' = None

\* adapter.send by the turn of t.  After its session end only the final reply is
\* still to come: none was streamed, or its last edit was refused.
Send(t) ==
  /\ count[t] < setup.messages
  /\ \/ native[t] \in {"running", "refused", "dying"} /\ text[t] # "failed"
     \/ native[t] \in AtWork /\ text[t] = "failed"
     \/ native[t] = "ended" /\ text[t] = "none"
  /\ rec[t].kind = "slash" => count[t] = 0
  /\ IF t \in cancelled THEN UNCHANGED <<ledger, lastEnded>> ELSE SendsUnder(t, Following(t))
  /\ count' = [count EXCEPT ![t] = @ + 1]
  /\ text' = [text EXCEPT ![t] = IF native[t] = "ended" \/ rec[t].kind = "slash"
                                 THEN "sealed" ELSE "open"]
  /\ UNCHANGED <<setup, cancelled, stash, handler, drained, native, queue, probing, photos>>

Waiting(r) == r \in {c[1] : c \in stash}

\* The closing of a run whose tail was deferred.
CloseTail(w, r, ok) == Terminal(CommitOpen(w, r), Group(w, r), ok)

\* edit_message with finalize: of a stashed tail, of the head's own message, or of
\* neither, which Hermes is told.
Finalize(t) ==
  /\ text[t] = "open" /\ native[t] \in AtWork
  /\ LET m == Current(t)
         h == Active(World)
     IN \/ /\ t \in cancelled
           /\ text' = [text EXCEPT ![t] = "sealed"] /\ UNCHANGED <<ledger, stash>>
        \/ \E c \in stash :
             /\ t \notin cancelled /\ rec[c[1]].msg = m
             /\ stash' = stash \ {c}
             /\ Becomes(CloseTail(World, c[1], c[2]))
             /\ text' = [text EXCEPT ![t] = "sealed"]
        \/ /\ t \notin cancelled /\ \A c \in stash : rec[c[1]].msg # m
           /\ UNCHANGED stash
           /\ IF h # None /\ rec[h].msg = m
              THEN /\ Becomes(Commit([World EXCEPT !.rec[h].error = FALSE], m, h))
                   /\ text' = [text EXCEPT ![t] = "sealed"]
              ELSE UNCHANGED ledger /\ text' = [text EXCEPT ![t] = "failed"]
  /\ UNCHANGED <<setup, cancelled, lastEnded, handler, drained, native, queue, probing, count, photos>>

\* A tool, model or reasoning hook of a running turn refreshes the head.
Hook(t) ==
  /\ native[t] = "running" /\ rec[t].kind = "turn" /\ t \notin cancelled /\ Heading # None
  /\ Becomes([Activate(World, Heading) EXCEPT !.rec[Heading].error = FALSE])
  /\ UNCHANGED <<setup, cancelled, stash, lastEnded, handler, drained, hermes>>

\* The provider refuses the call for good: the turn will have no session end.
Refuse(t) ==
  /\ setup.refusals /\ native[t] = "running" /\ rec[t].kind = "turn" /\ t \notin probing
  /\ native' = [native EXCEPT ![t] = "refused"]
  /\ IF Heading = None \/ t \in cancelled THEN UNCHANGED ledger
     ELSE LET w == Activate(World, Heading)
          IN Becomes(IF rec[Heading].kind = "slash" THEN w
                     ELSE [w EXCEPT !.rec[Heading].error = TRUE, !.marks = @ \cup {Heading},
                                    !.out.refused = @ \cup {Heading}])
  /\ UNCHANGED <<setup, cancelled, stash, lastEnded, handler, drained, queue, probing, text, count, photos>>

-----------------------------------------------------------------------------
(* How runs end. *)

\* The session-end hook, on the agent's thread, passes its checks.
EndProbe(t) ==
  /\ native[t] \in {"running", "dying"} /\ rec[t].kind = "turn"
  /\ t \notin probing /\ t \notin cancelled
  /\ ~HeadsSlash(Heading)
  /\ probing' = probing \cup {t}
  /\ UNCHANGED <<setup, ledger, cancelled, stash, lastEnded, handler, drained, native, queue, text,
                 count, photos>>

EndIgnored(t) ==
  /\ native[t] = "running" /\ rec[t].kind = "turn" /\ t \notin probing
  /\ t \in cancelled \/ HeadsSlash(Heading)
  /\ native' = [native EXCEPT ![t] = "ended"]
  /\ UNCHANGED <<setup, ledger, cancelled, stash, lastEnded, handler, drained, queue, probing, text,
                 count, photos>>

\* It pops the head, whichever that is by now: an open message defers the closing.  One
\* that opens after this check, before the lock is taken again to close, is committed.
EndPop(t, ok) ==
  /\ t \in probing
  /\ probing' = probing \ {t}
  /\ native' = [native EXCEPT ![t] = IF @ = "running" THEN "ended" ELSE @]
  /\ LET h == Active(World)
     IN \/ h = None /\ UNCHANGED <<ledger, stash, lastEnded>>
        \/ /\ h # None /\ rec[h].open
           /\ Becomes(Pop(World, h))
           /\ stash' = stash \cup {<<h, ok>>} /\ UNCHANGED lastEnded
        \/ /\ h # None
           /\ Becomes(Terminal(CommitOpen(Pop(World, h), h), Group(World, h), ok))
           /\ lastEnded' = h /\ UNCHANGED stash
  /\ UNCHANGED <<setup, cancelled, handler, drained, queue, text, count, photos>>

\* Mutant: the fallback leaves the closure for the edit.
FallbackKeeps(r, ok) ==
  /\ <<r, ok>> \in stash
  /\ Becomes(IF r \in cancelled THEN World ELSE CloseTail(World, r, ok))
  /\ UNCHANGED <<setup, stash, cancelled, lastEnded, handler, drained, hermes>>

\* No last edit came within 1.5 s.
Fallback(r, ok) ==
  /\ <<r, ok>> \in stash
  /\ stash' = stash \ {<<r, ok>>}
  /\ Becomes(IF r \in cancelled THEN World ELSE CloseTail(World, r, ok))
  /\ UNCHANGED <<setup, cancelled, lastEnded, handler, drained, hermes>>

\* Mutant: the callback completes whatever heads the session.
OwnsAny(t) == Active(World) # None

Owns(t) == Active(World) = t

\* on_processing_complete: closes its own run only if that still heads the session.
Complete(t, ok) ==
  /\ native[t] \in AtWork /\ (native[t] # "dying" => t \notin probing)
  /\ text[t] = "failed" => count[t] = setup.messages
  /\ ok => native[t] \in {"ended", "refused"} \/ rec[t].kind = "slash"
  /\ Leaves(t)
  /\ LET h == Active(World)
     IN Becomes(IF Owns(t) THEN Terminal(CommitOpen(Pop(World, h), h), Group(World, h), ok)
                ELSE World)
  /\ UNCHANGED <<setup, cancelled, stash, lastEnded, handler, drained, probing, text, count, photos>>

\* Every turn Hermes still has shows activity within the janitor's 30 minutes.
Live(r) == native[r] \in AtWork \cup {"queued"} \/ handler[r] \in {"failing", "killing"}

\* Mutant: the janitor closes the head alone.
SweepsAlone(h) == {h}

Sweeps(h) == Group(World, h)

\* The janitor: a head 5 s after its provider failed, a stale head, and a stale
\* pending record when nothing heads the session.
Sweep ==
  /\ LET h == Active(World)
         p == Pending(World)
     IN \/ /\ h # None /\ rec[h].error
           /\ Becomes(Terminal(PopOnly(World, h), Sweeps(h), FALSE))
        \/ /\ h # None /\ ~rec[h].error /\ ~Live(h)
           /\ Becomes(Terminal(Pop(World, h), Sweeps(h), FALSE))
        \/ /\ h = None /\ p # None /\ ~Live(p)
           /\ Becomes(Terminal(PopOnly(World, p), Sweeps(p), FALSE))
  /\ UNCHANGED <<setup, cancelled, stash, lastEnded, handler, drained, hermes>>

\* The late final send was expected for two seconds.
GraceExpires ==
  /\ lastEnded # None /\ lastEnded' = None
  /\ UNCHANGED <<setup, ledger, cancelled, stash, handler, drained, hermes>>

Next ==
  \/ Sweep \/ GraceExpires
  \/ \E r \in Runs :
       \/ Stop(r) \/ StopBegins(r) \/ HandStop(r) \/ Fails(r)
       \/ Send(r) \/ Finalize(r) \/ Hook(r) \/ Refuse(r) \/ EndProbe(r) \/ EndIgnored(r)
       \/ \E k \in Kinds : Begin(r, k)
       \/ \E ok \in BOOLEAN : EndPop(r, ok) \/ Fallback(r, ok) \/ Complete(r, ok)

Spec == Init /\ [][Next]_vars

\* Handlers return, Hermes sends a refused reply again and completes its turns, timers
\* fire and the janitor runs.
Fairness ==
  /\ WF_vars(Sweep)
  /\ \A r \in Runs :
       /\ WF_vars(StopBegins(r)) /\ WF_vars(HandStop(r) \/ Fails(r))
       /\ WF_vars(\E ok \in BOOLEAN : EndPop(r, ok))
       /\ WF_vars(\E ok \in BOOLEAN : Fallback(r, ok))
       /\ WF_vars(text[r] = "failed" /\ Send(r))
       /\ SF_vars(\E ok \in BOOLEAN : Complete(r, ok))

FairSpec == Spec /\ Fairness
-----------------------------------------------------------------------------
(* Properties. *)

\* Every variable keeps its type.
TypeOK ==
  /\ fifo \in Seq(Runs)
  /\ rec \in [Runs -> [state : {"none", "active", "pending", "rider", "gone"},
                       kind : {"turn", "slash"}, media : BOOLEAN, riders : SUBSET Runs,
                       msg : Messages \cup {NoMessage}, open : BOOLEAN, error : BOOLEAN]]
  /\ cancelled \subseteq Runs /\ marks \subseteq Runs /\ stash \subseteq Runs \X BOOLEAN
  /\ lastEnded \in Runs \cup {None}
  /\ handler \in [Runs -> {"none", "closing", "failing", "killing", "done", "failed"}]
  /\ drained \in [Runs -> SUBSET Runs]
  /\ native \in [Runs -> {"none", "queued", "merged", "running", "refused", "ended",
                          "dying", "done"}]
  /\ queue \in Seq(Runs) /\ photos \subseteq Runs /\ probing \subseteq Runs
  /\ text \in [Runs -> {"none", "open", "sealed", "failed"}]
  /\ count \in [Runs -> 0..MaxMessages]
  /\ out.ends \in [Runs -> Seq({"end", "error"})]
  /\ out.commits \in [Messages -> Seq(Runs \cup {None})]
  /\ out.refused \subseteq Runs
  /\ setup \in Setups

\* Types hold, one record at most heads the session, a record is in one place only,
\* and what is stashed or ended has left the ledger.
LedgerInv ==
  /\ TypeOK
  /\ Cardinality({r \in Runs : rec[r].state = "active"}) <= 1
  /\ \A i, j \in DOMAIN fifo : fifo[i] = fifo[j] => i = j
  /\ \A r \in Runs : rec[r].state \in {"active", "pending"} <=> r \in ToSet(fifo)
  /\ \A r, s \in ToSet(fifo) : r # s => Group(World, r) \cap Group(World, s) = {}
  /\ \A c \in stash : rec[c[1]].state = "gone"
  /\ \A r \in ToSet(fifo) : ~Waiting(r) /\ Group(World, r) \cap {x \in Runs : out.ends[x] # <<>>} = {}

\* A run whose provider did not refuse it is closed once, and a message reaches the
\* conversation once: hooks, callbacks, edits, timers, the janitor and cancellation
\* never report two terminals or commit a message again, whichever comes first.
EndsOnce ==
  /\ \A r \in Runs \ out.refused : Len(out.ends[r]) <= 1
  /\ \A m \in Messages : Len(out.commits[m]) <= 1

\* A turn that ended well has every message that was streamed under it in the
\* conversation.
NothingStreamedIsLost ==
  \A s \in out.shown :
    rec[s[2]].kind = "turn" /\ out.ends[s[2]] = <<"end">> => out.commits[s[1]] # <<>>

\* Hermes takes the dispatches one by one, in their order, and its turns reach their
\* session end.  (A photo that comes after the session end of a turn and before its
\* completion merges with a turn that is still queued for Hermes and active for the
\* ledger, which keeps it apart.)
Orderly == ~setup.steer /\ ~setup.slow /\ ~setup.refusals /\ Kinds \subseteq {"text", "slash"}

\* When Hermes takes dispatches in their order, what a running turn sends is stamped
\* with its own run: the first message to meet another run is a final reply after the
\* session end.
StampedByItsRun == Orderly => \A s \in out.strays : s[2] \in {"ended", "expected"}

Begun(r) == rec[r].state # "none"

\* Every run the phone dispatched is closed, so that what waits for it goes on (a run
\* stays begun, and stays closed).
EveryRunEnds == <>[](\A r \in Runs : Begun(r) => out.ends[r] # <<>>)
=============================================================================
