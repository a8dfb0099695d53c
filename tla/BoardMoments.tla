---------------------------- MODULE BoardMoments ----------------------------
(***************************************************************************)
(* Board moments: how an event of a watched card on a Hermes board reaches *)
(* the phone.  A read-only tail turns events into pending deliveries in    *)
(* OcuClaw's own store, a pump pushes them over the control link, and only *)
(* the phone's acknowledgement settles one.                                *)
(*                                                                         *)
(* src/board_moments.py, board_tail.py, board_watch.py, board_policy.py,   *)
(* set_watch of board_management.py, hermes-board-moments.cjs.  One        *)
(* profile, one board at a time, one worker with a rule.  Every function   *)
(* that opens a transaction runs on its own thread and is one action; the  *)
(* several reads and the commit of a catch-up step are separate ones.      *)
(***************************************************************************)
EXTENDS Integers, Sequences, FiniteSets
CONSTANTS Cards,
          Ruled, \* the cards the worker of the rule is assigned to
          Classes, \* of "review", "question", "failure", "done", "none"
          MaxPending, CardCap, PushBatch,
          MaxEvents, MaxTurns \* bounds: events on the board, changes by the wearer and faults together
ASSUME BoardAssumption == /\ Ruled \subseteq Cards
                          /\ Classes \subseteq {"review", "question", "failure", "done", "none"}
                          /\ MaxPending \in Nat \ {0} /\ CardCap \in Nat \ {0} /\ PushBatch \in Nat \ {0}
                          /\ MaxEvents \in Nat /\ MaxTurns \in Nat

VARIABLES
  log, \* the board's events, oldest first, numbered over every lifetime
  life, there, first, removed, \* the lifetime, whether its file is there, the last event before it, rows pruned
  watch, since, rule, policy, \* the wearer's watches, where each starts, the worker's rule, the moment policy
  cp, rows, authority, \* the tail's checkpoint, the deliveries, the pairing the store serves
  op, catch, pump, \* the watch being set, the catch-up steps on threads, the pump
  online, toPhone, acks, taken, \* the phone, frames on their way, acks on their way, what this phone took
  old, held, \* events past their day, quiet hours (or a policy nobody can read)
  turns, \* changes and faults so far
  owed \* history: the events somebody wants, and by what

board == <<log, life, there, first, removed>>
prefs == <<watch, since, rule, policy>>
store == <<cp, rows, authority>>
steps == <<op, catch, pump>>
phone == <<online, toPhone, acks, taken>>
times == <<old, held>>
core == <<board, prefs, store, steps, phone, times, turns>>
vars == <<core, owed>>

Ids == 1 .. MaxEvents
Lanes == {"own", "stray"} \* the pump's own step, and one that an earlier pump left on its thread
Unset == -1
NoCp == [life |-> 0, cursor |-> 0, anchor |-> 0]
RuleModes == {"off", "notify", "notify_failures"}
Idle == [pc |-> "idle", watched |-> {}, rule |-> [mode |-> "off", since |-> 0], since |-> [c \in Cards |-> Unset],
         cp |-> NoCp, room |-> 0, policy |-> "on", found |-> {}, byRule |-> {}, next |-> NoCp, gone |-> FALSE]
NoOp == [kind |-> "none"]
Turn == turns < MaxTurns /\ turns' = turns + 1
NoRow == [st |-> "none", due |-> FALSE, tried |-> FALSE, rule |-> FALSE, seen |-> "no"]

CardOf(n) == log[n].card
Allows(mode, class) == class \in CASE mode = "notify" -> {"review", "question"}
                                   [] mode = "notify_failures" -> {"review", "question", "failure"}
                                   [] OTHER -> {}
Pending == {n \in Ids : rows[n].st = "pending"}

----------------------------------------------------------------------------
\* The board (Hermes) and its tail.

Present == (first + 1 .. Len(log)) \ removed
CheckpointAt(c) ==
  LET below == {n \in Present : n <= c}
  IN [life |-> life, cursor |-> c, anchor |-> IF below = {} THEN 0 ELSE CHOOSE n \in below : \A m \in below : m <= n]
\* The file is the one read before, the anchor row is still there and no unread row is missing.
Continuous(c) == there /\ c.life = life /\ c.anchor \notin removed /\ (c.cursor + 1 .. Len(log)) \cap removed = {}

Idles == UNCHANGED <<prefs, store, steps, phone, times, turns>>
Happens(card, class) ==
  /\ there /\ Len(log) < MaxEvents
  /\ log' = Append(log, [card |-> card, class |-> class])
  /\ UNCHANGED <<life, there, first, removed>> /\ Idles
\* Retention deletes a row.
Prunes(n) == /\ n \in Present /\ n >= cp.anchor /\ Turn
             /\ removed' = removed \cup {n}
             /\ UNCHANGED <<log, life, there, first, prefs, store, steps, phone, times>>
\* The board is removed; another one may be created under its name.
\* Bound: not while a watch is being set, or between the read and the commit of a step.
BoardGoes == /\ there /\ op = NoOp /\ (\A l \in Lanes : catch[l].pc # "commit") /\ Turn
             /\ there' = FALSE
             /\ UNCHANGED <<log, life, first, removed, prefs, store, steps, phone, times>>
BoardComes == /\ ~there
              /\ there' = TRUE /\ life' = life + 1 /\ first' = Len(log)
              /\ UNCHANGED <<log, removed>> /\ Idles

----------------------------------------------------------------------------
\* The wearer's preferences: watches, the rule and the policy.

RuleOn(n, mode) == rows[n].rule /\ Allows(mode, log[n].class)
Cancel(S) == [n \in Ids |-> IF n \in S /\ rows[n].st = "pending" THEN [rows[n] EXCEPT !.st = "dropped"] ELSE rows[n]]
Quietly == UNCHANGED <<board, catch, pump, phone, times, authority>>

\* The board's checkpoint is taken if there is none.  Bound: with the read of the board in one step.
TakeCheckpoint == cp' = IF cp = NoCp THEN CheckpointAt(Len(log)) ELSE cp
\* set_watch, notify: store the start, the board's current event, then the mode.
WatchNotes(c) == /\ op = NoOp /\ there /\ c \notin watch /\ Turn
                 /\ TakeCheckpoint
                 /\ since' = [since EXCEPT ![c] = IF @ = Unset THEN Len(log) ELSE @]
                 /\ op' = [kind |-> "on", card |-> c]
                 /\ UNCHANGED <<watch, rule, policy, rows>> /\ Quietly
WatchSets == /\ op.kind = "on"
             /\ watch' = watch \cup {op.card} /\ op' = NoOp
             /\ UNCHANGED <<since, rule, policy, cp, rows, turns>> /\ Quietly
\* set_watch, off: store the mode, then forget the start and cancel what only the watch kept.
UnwatchSets(c) == /\ op = NoOp /\ c \in watch /\ Turn
                  /\ watch' = watch \ {c} /\ op' = [kind |-> "off", card |-> c]
                  /\ UNCHANGED <<since, rule, policy, cp, rows>> /\ Quietly
\* Mutant: what the rule still wants is cancelled as well.
UnwatchNotesAll == /\ op.kind = "off"
                   /\ since' = [since EXCEPT ![op.card] = Unset]
                   /\ rows' = Cancel({n \in Pending : CardOf(n) = op.card})
                   /\ op' = NoOp
                   /\ UNCHANGED <<watch, rule, policy, cp, turns>> /\ Quietly
UnwatchNotes == /\ op.kind = "off"
                /\ since' = [since EXCEPT ![op.card] = Unset]
                /\ rows' = Cancel({n \in Pending : CardOf(n) = op.card /\ ~RuleOn(n, rule.mode)})
                /\ op' = NoOp
                /\ UNCHANGED <<watch, rule, policy, cp, turns>> /\ Quietly
\* The store refuses a write: the request fails where it is.
OpFails == /\ op # NoOp /\ Turn
           /\ op' = NoOp
           /\ UNCHANGED <<prefs, cp, rows>> /\ Quietly

RuleCancels(mode) == Cancel({n \in Pending : rows[n].rule /\ CardOf(n) \notin watch /\ ~Allows(mode, log[n].class)})
RuleSets(mode) == /\ there /\ Ruled # {} /\ mode \in RuleModes \ {"off", rule.mode} /\ Turn
                  /\ TakeCheckpoint
                  /\ rule' = [mode |-> mode, since |-> IF rule.mode = "off" THEN Len(log) ELSE rule.since]
                  /\ rows' = RuleCancels(mode)
                  /\ UNCHANGED <<watch, since, policy, op>> /\ Quietly
RuleOff == /\ rule.mode # "off" /\ Turn
           /\ rule' = [mode |-> "off", since |-> 0] /\ rows' = RuleCancels("off")
           /\ UNCHANGED <<watch, since, policy, cp, op>> /\ Quietly

\* "done" also tells the wearer of completions.
SetPolicy(p) == /\ p # policy /\ policy' = p /\ Turn
                /\ rows' = Cancel({n \in Pending : p = "off" \/ (p = "on" /\ log[n].class = "done")})
                /\ UNCHANGED <<watch, since, rule, cp, op>> /\ Quietly

----------------------------------------------------------------------------
\* tail_scope: read the watches, read the store, read the board, commit.

Over(l) == /\ catch' = [catch EXCEPT ![l] = Idle]
           /\ pump' = IF l = "own" THEN [pump EXCEPT !.pc = "due"] ELSE pump
Goes(l, c) == catch' = [catch EXCEPT ![l] = c] /\ UNCHANGED pump
Reading == UNCHANGED <<board, prefs, store, op, phone, times, turns>>
Committing == UNCHANGED <<board, watch, policy, authority, op, phone, times, turns>>

\* Bound: the step reads the watches, the rule and the rest of the store in one piece.
ReadStore == /\ pump.pc = "tail" /\ catch["own"] = Idle
             /\ IF watch = {} /\ rule.mode = "off" THEN Over("own")
                ELSE Goes("own", [Idle EXCEPT !.pc = "board", !.watched = watch, !.rule = rule, !.cp = cp, !.since = since,
                                              !.policy = policy, !.room = MaxPending - Cardinality(Pending)])
             /\ Reading

\* What an event is to the watch and the rule that this step has read.
Since(c, n) == CardOf(n) \in c.watched /\ n > c.since[CardOf(n)]
ByWatch(c, n) == /\ Since(c, n) /\ log[n].class # "none"
                 /\ log[n].class = "done" => c.policy = "done"
ByRule(c, n) == CardOf(n) \in Ruled /\ n > c.rule.since /\ Allows(c.rule.mode, log[n].class)
Unread(c) == {n \in Present : n > c.cp.cursor}
Batch(c) == {n \in Unread(c) : Cardinality({m \in Unread(c) : m <= n}) <= c.room}
Last(S, default) == IF S = {} THEN default ELSE CHOOSE n \in S : \A m \in S : m <= n
Found(c) == {n \in Batch(c) : c.policy # "off" /\ n \notin old /\ (ByWatch(c, n) \/ ByRule(c, n))}

ReadBoard(l) ==
  LET c == catch[l] IN
  /\ c.pc = "board"
  /\ \/ /\ c.cp = NoCp /\ ~there \* nothing to read yet
        /\ Over(l)
     \/ /\ c.cp = NoCp /\ there
        /\ Goes(l, [Idle EXCEPT !.pc = "boundary", !.next = CheckpointAt(Len(log))])
     \/ /\ c.cp # NoCp /\ c.room <= 0 \* paused: the cursor stays
        /\ Over(l)
     \/ /\ c.cp # NoCp /\ c.room > 0 /\ ~Continuous(c.cp)
        /\ Goes(l, [Idle EXCEPT !.pc = "reset", !.cp = c.cp, !.next = IF there THEN CheckpointAt(Len(log)) ELSE NoCp,
                             !.gone = ~there \/ c.cp.life # life])
     \/ /\ c.cp # NoCp /\ c.room > 0 /\ Continuous(c.cp)
        /\ Goes(l, [Idle EXCEPT !.pc = "commit", !.cp = c.cp, !.since = c.since,
                             !.next = CheckpointAt(Last(Batch(c), c.cp.cursor)), !.found = Found(c), !.byRule = {n \in Found(c) : ByRule(c, n)}])
  /\ Reading

Boundary(l) == /\ catch[l].pc = "boundary"
               /\ cp' = IF cp = NoCp THEN catch[l].next ELSE cp
               /\ Over(l)
               /\ UNCHANGED <<since, rule, rows>> /\ Committing

\* A step whose checkpoint another one moved first changes nothing.
Overtaken(l) == /\ catch[l].pc \in {"commit", "reset"} /\ cp # catch[l].cp
                /\ Over(l) /\ Reading

\* The board was replaced or pruned: start again at its current event.
Resets(l) == /\ catch[l].pc = "reset" /\ cp = catch[l].cp
             /\ cp' = catch[l].next
             /\ since' = [c \in Cards |-> Unset]
             /\ rule' = IF rule.mode = "off" THEN rule ELSE [rule EXCEPT !.since = catch[l].next.cursor]
             /\ rows' = IF catch[l].gone THEN Cancel(Pending) ELSE rows
             /\ Over(l) /\ Committing

\* A watch or a rule that is off by now raises nothing.
StillWatched(c, n) == CardOf(n) \in watch /\ n > c.since[CardOf(n)]
StillRuled(c, n) == n \in c.byRule /\ Allows(rule.mode, log[n].class)
Kept(c) == {n \in c.found : rows[n].st = "none" /\ (StillWatched(c, n) \/ StillRuled(c, n))}
Newer(n, S) == \E m \in S : m > n /\ CardOf(m) = CardOf(n)
Store(c) == [n \in Ids |->
  IF n \in Kept(c)
  THEN [st |-> IF Newer(n, Kept(c)) THEN "coalesced" ELSE "pending",
        due |-> TRUE, tried |-> FALSE, rule |-> StillRuled(c, n), seen |-> "no"]
  ELSE IF rows[n].st = "pending" /\ Newer(n, Kept(c)) THEN [rows[n] EXCEPT !.st = "coalesced"] ELSE rows[n]]
\* The deliveries and the cursor in one transaction.
Commits(l) == /\ catch[l].pc = "commit" /\ cp = catch[l].cp
              /\ rows' = Store(catch[l]) /\ cp' = catch[l].next
              /\ Over(l)
              /\ UNCHANGED <<since, rule>> /\ Committing

----------------------------------------------------------------------------
\* The pump: reload, authority, tail, due, push, release.

Pumping == UNCHANGED <<board, prefs, cp, op, catch, acks, taken, times>>
At(pc) == pump' = [pump EXCEPT !.pc = pc]
Reload == /\ pump.pc = "reload"
          /\ rows' = [n \in Ids |-> IF n \in Pending THEN [rows[n] EXCEPT !.due = TRUE] ELSE rows[n]]
          /\ At("idle")
          /\ UNCHANGED <<authority, online, toPhone, turns>> /\ Pumping
\* Mutant: a new pairing is only recorded.
CheckAuthorityOnly == /\ pump.pc = "idle" /\ authority' = "current" /\ At("tail")
                      /\ UNCHANGED <<rows, online, toPhone, turns>> /\ Pumping
\* A new pairing makes what the old one took pending again, and all of it due.
\* Bound: an ack of the old one still on its thread (NewLink) is stored before that.
CheckAuthority ==
  /\ pump.pc = "idle" /\ (authority = "other" => acks = {})
  /\ authority' = "current"
  /\ rows' = IF authority # "other" THEN rows
             ELSE [n \in Ids |-> IF rows[n].st = "pending" \/ (rows[n].st = "acked" /\ n \notin old)
                                 THEN [rows[n] EXCEPT !.st = "pending", !.due = TRUE] ELSE rows[n]]
  /\ At("tail")
  /\ UNCHANGED <<online, toPhone, turns>> /\ Pumping

Recent(c) == Cardinality({n \in Ids : rows[n].seen = "fresh" /\ CardOf(n) = c})
Unwanted(n) == n \in old \/ (CardOf(n) \notin watch /\ ~RuleOn(n, rule.mode))
Ready == {n \in Pending : /\ ~Unwanted(n) /\ rows[n].due /\ policy # "off" /\ ~held
                          /\ rows[n].tried \/ Recent(CardOf(n)) < CardCap}
\* As many as one push carries; those of one commit are in no order.
Sends == {S \in SUBSET Ready : Cardinality(S) <= PushBatch /\ (S = Ready \/ Cardinality(S) = PushBatch)}
Due == /\ pump.pc = "due"
       /\ \E S \in Sends :
            /\ rows' = [n \in Ids |-> IF n \in S THEN [rows[n] EXCEPT !.due = FALSE, !.tried = TRUE]
                                      ELSE IF n \in Pending /\ Unwanted(n) THEN [rows[n] EXCEPT !.st = "dropped"] ELSE rows[n]]
            /\ pump' = [pc |-> IF S = {} THEN "idle" ELSE "push", moments |-> S]
       /\ UNCHANGED <<authority, online, toPhone, turns>> /\ Pumping

\* The push rings at the relay, which sends it to every phone that is there.
Push == /\ pump.pc = "push"
        /\ toPhone' = IF online THEN toPhone \cup pump.moments ELSE toPhone
        /\ pump' = IF online THEN [pc |-> "idle", moments |-> {}] ELSE [pump EXCEPT !.pc = "release"]
        /\ UNCHANGED <<rows, authority, online, turns>> /\ Pumping
\* The request fails, whether or not the relay had it.
PushFails == /\ pump.pc = "push" /\ Turn
             /\ \E had \in {{}, pump.moments} : toPhone' = IF online THEN toPhone \cup had ELSE toPhone
             /\ pump' = [pc |-> "idle", moments |-> {}]
             /\ UNCHANGED <<rows, authority, online>> /\ Pumping
Release == /\ pump.pc = "release"
           /\ rows' = [n \in Ids |-> IF n \in Pending \cap pump.moments THEN [rows[n] EXCEPT !.due = TRUE] ELSE rows[n]]
           /\ pump' = [pc |-> "idle", moments |-> {}]
           /\ UNCHANGED <<authority, online, toPhone, turns>> /\ Pumping

----------------------------------------------------------------------------
\* The phone, the relay's queue of its acks, and the clock.

Standing == UNCHANGED <<board, prefs, cp, authority, steps, old>>
PhoneTakes(n) == /\ n \in toPhone /\ online
                 /\ toPhone' = toPhone \ {n} /\ taken' = taken \cup {n} /\ acks' = acks \cup {n}
                 /\ UNCHANGED <<rows, online, held, turns>> /\ Standing
PhoneLeaves == /\ online /\ Turn
               /\ online' = FALSE /\ toPhone' = {}
               /\ UNCHANGED <<rows, acks, taken, held>> /\ Standing
PhoneReturns == /\ ~online /\ online' = TRUE
                /\ UNCHANGED <<rows, toPhone, acks, taken, held, turns>> /\ Standing
\* Mutant: an ack settles whatever it names.
AckAny(n) == /\ n \in acks /\ acks' = acks \ {n}
             /\ rows' = [rows EXCEPT ![n].st = "acked", ![n].seen = "fresh"]
             /\ UNCHANGED <<online, toPhone, taken, held, turns>> /\ Standing
\* ack: a pending delivery is settled, a coalesced one only counts for its card's cap.
Ack(n) == /\ n \in acks /\ acks' = acks \ {n}
          /\ rows' = [rows EXCEPT ![n] = CASE @.st = "pending" -> [@ EXCEPT !.st = "acked", !.seen = "fresh"]
                                           [] @.st = "coalesced" /\ @.seen = "no" -> [@ EXCEPT !.seen = "fresh"]
                                           [] OTHER -> @]
          /\ UNCHANGED <<online, toPhone, taken, held, turns>> /\ Standing
\* Mutant: only what has never been sent is sent again.
ResendUntried(n) == /\ n \in Pending /\ ~rows[n].due /\ ~rows[n].tried
                    /\ rows' = [rows EXCEPT ![n].due = TRUE]
                    /\ UNCHANGED <<phone, held, turns>> /\ Standing
ResendDue(n) == /\ n \in Pending /\ ~rows[n].due
                /\ rows' = [rows EXCEPT ![n].due = TRUE]
                /\ UNCHANGED <<phone, held, turns>> /\ Standing
\* Bound: the card's window is looked at when a delivery waits for it.
WindowPasses(n) == /\ rows[n].seen = "fresh" /\ \E m \in Pending : ~rows[m].tried /\ CardOf(m) = CardOf(n)
                   /\ rows' = [rows EXCEPT ![n].seen = "past"]
                   /\ UNCHANGED <<phone, held, turns>> /\ Standing
QuietBegins == /\ ~held /\ held' = TRUE /\ Turn
               /\ UNCHANGED <<rows, phone>> /\ Standing
QuietEnds == /\ held /\ held' = FALSE
             /\ UNCHANGED <<rows, phone, turns>> /\ Standing
\* An event's day is over, the oldest first.
Ages(n) == /\ n \in 1 .. Len(log) /\ n \notin old /\ 1 .. n - 1 \subseteq old
           /\ Turn
           /\ old' = old \cup {n}
           /\ UNCHANGED <<board, prefs, store, steps, phone, held>>

----------------------------------------------------------------------------
\* A new control link, with the same pairing or another one, and a crash of the
\* gateway.  A catch-up step on a thread outlives its pump, but not the process,
\* and so does the one ack that the old link had sent on.

NewLink(pairing) == /\ Turn
                    /\ authority' = IF pairing = "new" THEN "other" ELSE authority
                    /\ taken' = IF pairing = "new" THEN {} ELSE taken
                    /\ toPhone' = {}
                    /\ pump' = [pc |-> "reload", moments |-> {}]
                    /\ UNCHANGED <<board, prefs, cp, rows, online, times>>
Reconnects(pairing) == /\ NewLink(pairing)
                       /\ catch["own"] = Idle \/ catch["stray"] = Idle \* bound: one stray step
                       /\ catch' = [own |-> Idle, stray |-> IF catch["own"] = Idle THEN catch["stray"] ELSE catch["own"]]
                       /\ acks' \in {{}} \cup {{n} : n \in acks}
                       /\ UNCHANGED op
Crashes == /\ NewLink("same") /\ acks' = {}
           /\ catch' = [l \in Lanes |-> Idle] /\ op' = NoOp

----------------------------------------------------------------------------
Wanted(n, by) ==
  /\ n \in first + 1 .. Len(log) /\ there /\ n \notin old /\ policy # "off"
  /\ rows[n].st # "none" \/ (cp # NoCp /\ Continuous(cp))
  /\ CASE by = "watch" -> CardOf(n) \in watch /\ log[n].class # "none" /\ (log[n].class = "done" => policy = "done")
       [] by = "rule" -> CardOf(n) \in Ruled /\ Allows(rule.mode, log[n].class)
\* A catch-up step under way has read the preferences before they asked for this.
TooLate(n, by) == \E l \in Lanes : LET c == catch[l] IN
  /\ c.pc = "board"
  /\ \/ c.policy = "off" \/ (log[n].class = "done" /\ c.policy # "done")
     \/ by = "watch" /\ CardOf(n) \notin c.watched
     \/ by = "rule" /\ ~Allows(c.rule.mode, log[n].class)
New == Ids \X {"watch", "rule"}
Wants == {p \in New : p[1] = Len(log) /\ Wanted(p[1], p[2])}
Late == {p \in Wants : TooLate(p[1], p[2])}
\* History: an event is owed from when it happens for as long as it is wanted.
Promises == owed' = {p \in owed : Wanted(p[1], p[2])'}
                      \cup (IF log' = log THEN {} ELSE Wants' \ Late')

Init == /\ log = <<>> /\ life = 1 /\ there = TRUE /\ first = 0 /\ removed = {}
        \* a board on which nothing has happened, with or without a watch, and then a rule
        /\ watch \in {{}, Cards} /\ since = [c \in Cards |-> IF c \in watch THEN 0 ELSE Unset]
        /\ \E mode \in {"off", "notify_failures"} : rule = [mode |-> IF watch = {} THEN "off" ELSE mode, since |-> 0]
        /\ cp = IF watch = {} /\ rule.mode = "off" THEN NoCp ELSE CheckpointAt(0)
        /\ policy = "on"
        /\ rows = [n \in Ids |-> NoRow] /\ authority = "current"
        /\ op = NoOp /\ catch = [l \in Lanes |-> Idle] /\ pump = [pc |-> "idle", moments |-> {}]
        /\ online = TRUE /\ toPhone = {} /\ acks = {} /\ taken = {}
        /\ old = {} /\ held = FALSE /\ turns = 0 /\ owed = {}

Hermes == \/ \E c \in Cards, k \in Classes : Happens(c, k)
          \/ \E n \in Ids : Prunes(n)
          \/ BoardGoes \/ BoardComes
Wearer == \/ \E c \in Cards : WatchNotes(c) \/ UnwatchSets(c)
          \/ WatchSets \/ UnwatchNotes \/ OpFails
          \/ (\E m \in RuleModes : RuleSets(m)) \/ RuleOff
          \/ \E p \in {"on", "off"} \cup ({"done"} \cap Classes) : SetPolicy(p)
Step(l) == ReadBoard(l) \/ Boundary(l) \/ Overtaken(l) \/ Resets(l) \/ Commits(l)
Pump == Reload \/ CheckAuthority \/ ReadStore \/ Step("own") \/ Due \/ Push \/ Release
Phone == PhoneReturns \/ \E n \in Ids : PhoneTakes(n) \/ Ack(n)
Clock == QuietEnds \/ \E n \in Ids : ResendDue(n) \/ WindowPasses(n)
Fault == \/ PushFails \/ PhoneLeaves \/ QuietBegins \/ Crashes
         \/ \E n \in Ids : Ages(n)
         \/ \E p \in {"same", "new"} : Reconnects(p)
Next == (Hermes \/ Wearer \/ Pump \/ Step("stray") \/ Phone \/ Clock \/ Fault) /\ Promises
Spec == Init /\ [][Next]_vars

----------------------------------------------------------------------------
\* What the store holds as taken is on the phone of the pairing the store serves,
\* over lost pushes, late acks, restarts and new pairings.
AckedWasTaken == authority = "current" => \A n \in Ids : rows[n].st = "acked" => n \in taken \cup old

\* Types, and what the store keeps: a delivery is of an event that somebody may have
\* watched, the cursor is on the board that is there and has passed each event of it
\* with a delivery, a push carries only what the store has marked as sent, and what is
\* settled was taken by the phone (a push is a doorbell, board_moments.py:22-23).
CheckpointType == [life : 0 .. life, cursor : Int, anchor : Int]
StoreInv ==
  /\ log \in Seq([card : Cards, class : Classes]) /\ first \in 0 .. Len(log) /\ removed \subseteq 1 .. Len(log)
  /\ watch \subseteq Cards /\ since \in [Cards -> -1 .. Len(log)] /\ rule \in [mode : RuleModes, since : 0 .. Len(log)]
  /\ cp \in CheckpointType /\ cp.cursor \in 0 .. Len(log) /\ cp.anchor <= cp.cursor
  /\ \A n \in Ids : rows[n].st # "none" => n <= Len(log) /\ log[n].class # "none"
  /\ \A n \in Ids : (rows[n].st # "none" /\ n > first /\ there) => cp.life = life /\ n <= cp.cursor
  /\ \A n \in pump.moments : rows[n].tried
  /\ AckedWasTaken

\* board_moments.py:19-21: the cursor never moves past an event whose moment
\* was not stored.  What somebody asked for before the catch-up step under way
\* read the preferences is ahead of the cursor or has a delivery that is still
\* pending, was taken, or gave way to a newer one of its card.
OwedIsKept == \A p \in owed : \/ rows[p[1]].st = "none" /\ p[1] > cp.cursor
                             \/ rows[p[1]].st \in {"pending", "acked", "coalesced"}

\* The chain implements the contract of MomentContract.
Events == Ids
StateOf(n) == CASE rows[n].st # "none" -> rows[n].st
                [] n > Len(log) -> "unread"
                [] n > first /\ there /\ (cp = NoCp \/ cp.life # life \/ n > cp.cursor) -> "unread"
                [] OTHER -> "skipped"
Contract == INSTANCE MomentContract WITH owed <- {n \in Ids : \E by \in {"watch", "rule"} : <<n, by>> \in owed},
                                         state <- [n \in Ids |-> StateOf(n)],
                                         same <- [n \in Ids |-> {m \in Ids : {n, m} \subseteq 1 .. Len(log) /\ CardOf(m) = CardOf(n)}]
KeepsContract == Contract!Spec

\* The loop of the pump, the threads, the phone and the clock go on.  Nothing
\* says that the board, the wearer or a fault does.  What each change or fault
\* allows once or twice shares one condition.
Once == Step("stray") \/ WatchSets \/ UnwatchNotes \/ PhoneReturns \/ QuietEnds
Fairness == /\ WF_core(Pump) /\ WF_core(Once)
            /\ WF_core(\E n \in Ids : PhoneTakes(n)) /\ WF_core(\E n \in Ids : Ack(n))
            /\ WF_core(\E n \in Ids : ResendDue(n) \/ WindowPasses(n))
FairSpec == Spec /\ Fairness

\* What is owed reaches the phone, or a newer moment of its card took its place,
\* or it is not owed any more: however the pushes, the link and the phone fail.
Outstanding == {n \in {p[1] : p \in owed} : rows[n].st \notin {"acked", "coalesced"}}
OwedReachesPhone == Outstanding # {} ~> Outstanding = {}
=============================================================================
