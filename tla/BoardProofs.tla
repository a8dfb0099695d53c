---------------------------- MODULE BoardProofs ----------------------------
(***************************************************************************)
(* Proofs about BoardMoments, for any cards, rule, classes, sizes of the   *)
(* store and numbers of events and faults: what the store keeps, that an   *)
(* owed moment is never passed over, and that the chain implements         *)
(* MomentContract.                                                         *)
(***************************************************************************)
EXTENDS BoardMoments, TLAPS, FiniteSetTheorems, WellFoundedInduction

(* The inductive invariant. *)

Checkpoints == [life : Nat, cursor : Nat, anchor : Nat]
Policies == {"on", "off", "done"}
Rows == [st : {"none", "pending", "acked", "coalesced", "dropped"}, due : BOOLEAN,
         tried : BOOLEAN, rule : BOOLEAN, seen : {"no", "fresh", "past"}]
Rules == [mode : RuleModes, since : Nat]
Steps == [pc : {"idle", "board", "boundary", "reset", "commit"}, watched : SUBSET Cards,
          rule : Rules, since : [Cards -> Int], cp : Checkpoints, room : Int,
          policy : Policies, found : SUBSET Ids, byRule : SUBSET Ids, next : Checkpoints,
          gone : BOOLEAN]

BoardType == /\ log \in Seq([card : Cards, class : Classes]) /\ Len(log) <= MaxEvents
             /\ life \in Nat \ {0} /\ there \in BOOLEAN
             /\ first \in 0 .. Len(log) /\ removed \subseteq 1 .. Len(log)

PrefsType == /\ watch \subseteq Cards /\ policy \in Policies
             /\ since \in [Cards -> Int] /\ \A c \in Cards : since[c] \in -1 .. Len(log)
             /\ rule \in Rules /\ rule.since <= Len(log)

\* A checkpoint is of a lifetime there has been and of an event that happened.
Known(k) == /\ k \in Checkpoints /\ k.life <= life /\ k.cursor <= Len(log)
            /\ k.anchor <= k.cursor /\ (k.life = 0 => k = NoCp)

StoreType == Known(cp) /\ rows \in [Ids -> Rows] /\ authority \in {"current", "other"}

OpType == /\ op = NoOp \/ op \in [kind : {"on", "off"}, card : Cards]
          /\ op.kind = "off" => op.card \notin watch

PumpType == pump \in [pc : {"reload", "idle", "tail", "due", "push", "release"},
                      moments : SUBSET Ids]

\* An ack on its way from the pairing the store serves is of a moment that phone took.
PhoneType == /\ acks \subseteq Ids /\ taken \subseteq Ids
             /\ authority = "current" => acks \subseteq taken

\* What a catch-up step has read was so then: a board it found gone has not come back
\* under the same lifetime, and while it holds deliveries the board stays.
Reads(c) == /\ Known(c.cp)
            /\ \A card \in Cards : c.since[card] <= Len(log)
            /\ c.rule.since <= Len(log)
FindsReset(c) == /\ Known(c.cp) /\ c.cp # NoCp /\ Known(c.next) /\ ~Continuous(c.cp)
                 /\ there /\ c.cp.life = life => /\ ~c.gone /\ c.next.life = life
                                                 /\ c.next.cursor >= c.cp.cursor
FindsRows(c) == /\ there /\ c.cp.life = life /\ c.next.life = life
                /\ Known(c.cp) /\ Known(c.next) /\ c.cp.cursor <= c.next.cursor
                /\ c.byRule \subseteq c.found
                /\ \A n \in c.found : /\ n > first /\ n > c.cp.cursor /\ n <= c.next.cursor
                                      /\ log[n].class # "none"
Lane(c) == /\ c \in Steps
           /\ c.pc = "board" => Reads(c)
           /\ c.pc = "boundary" => Known(c.next)
           /\ c.pc = "reset" => FindsReset(c)
           /\ c.pc = "commit" => FindsRows(c)
CatchInv == /\ DOMAIN catch = Lanes /\ catch = [l \in Lanes |-> catch[l]]
            /\ \A l \in Lanes : Lane(catch[l])

RowsInv ==
  /\ \A n \in Ids : rows[n].st # "none" => n <= Len(log) /\ log[n].class # "none"
  /\ \A n \in Ids : (rows[n].st # "none" /\ n > first /\ there) => cp.life = life /\ n <= cp.cursor
  /\ \A n \in pump.moments : rows[n].st # "none" /\ rows[n].tried
  /\ AckedWasTaken

\* The preferences a step has read ask for event n.
Asks(c, n, by) ==
  /\ c.policy # "off"
  /\ by = "watch" => /\ CardOf(n) \in c.watched /\ n > c.since[CardOf(n)]
                     /\ log[n].class = "done" => c.policy = "done"
  /\ by = "rule" => n > c.rule.since /\ Allows(c.rule.mode, log[n].class)

\* An owed event without a delivery is ahead of the cursor and of every step under way,
\* and each step that will pass it has what it takes to store it.
Ahead(n, by) ==
  /\ n > cp.cursor
  /\ by = "watch" => n > since[CardOf(n)]
  /\ by = "rule" => n > rule.since
  /\ \A l \in Lanes : LET c == catch[l] IN
       /\ c.pc = "board" => Asks(c, n, by)
       /\ c.pc = "commit" /\ n > c.cp.cursor /\ n <= c.next.cursor =>
            /\ n \in c.found
            /\ by = "watch" => n > c.since[CardOf(n)]
            /\ by = "rule" => n \in c.byRule
\* And one with a delivery keeps it.
Stored(n, by) == /\ rows[n].st \in {"pending", "acked", "coalesced"}
                 /\ by = "rule" => rows[n].rule
Assured(n, by) == IF rows[n].st = "none" THEN Ahead(n, by) ELSE Stored(n, by)
OwedInv == /\ owed \subseteq New
           /\ \A p \in owed : Wanted(p[1], p[2]) /\ Assured(p[1], p[2])

CoreInv == /\ BoardType /\ PrefsType /\ StoreType /\ OpType /\ PumpType /\ PhoneType
           /\ CatchInv /\ RowsInv
IInv == CoreInv /\ OwedInv

-----------------------------------------------------------------------------
(* Numbers, sequences and checkpoints. *)

LEMMA LeastOf == ASSUME NEW T \in SUBSET Nat, T # {}
                 PROVE  \E x \in T : \A y \in T : x <= y
<1>1. PICK x \in T : \A y \in T : ~ (<<y, x>> \in OpToRel(<, Nat))
  BY NatLessThanWellFounded, WFMin
<1>2. ASSUME NEW y \in T PROVE x <= y
  <2>1. ~ (y < x)
    BY <1>1 DEF OpToRel
  <2> QED
    BY <2>1
<1> QED
  BY <1>2

LEMMA GreatestOf == ASSUME NEW m \in Nat, NEW T \in SUBSET (0 .. m), T # {}
                    PROVE  \E x \in T : \A y \in T : y <= x
<1> DEFINE U == {i \in Nat : m - i \in T}
<1>1. U # {}
  <2>1. PICK x \in T : TRUE
    OBVIOUS
  <2>2. m - (m - x) = x /\ m - x \in Nat
    BY <2>1
  <2> QED
    BY <2>2, <2>1
<1>2. PICK i \in U : \A j \in U : i <= j
  BY <1>1, LeastOf
<1>3. \A y \in T : m - y \in U
  <2>1. \A y \in T : m - (m - y) = y /\ m - y \in Nat
    OBVIOUS
  <2> QED
    BY <2>1
<1>4. m - i \in T /\ \A y \in T : y <= m - i
  BY <1>2, <1>3
<1> QED
  BY <1>4

LEMMA Checkpointing ==
  ASSUME BoardType, NEW c \in 0 .. Len(log)
  PROVE  /\ Known(CheckpointAt(c)) /\ CheckpointAt(c) # NoCp
         /\ CheckpointAt(c).life = life /\ CheckpointAt(c).cursor = c
<1> DEFINE below == {n \in Present : n <= c}
           top == IF below = {} THEN 0 ELSE CHOOSE n \in below : \A m \in below : m <= n
<1>1. top \in Nat /\ top <= c
  <2>1. CASE below # {}
    <3>1. below \subseteq 0 .. c /\ c \in Nat
      BY DEF Present, BoardType
    <3>2. \E n \in below : \A m \in below : m <= n
      BY <2>1, <3>1, GreatestOf
    <3> QED
      BY <3>1, <3>2
  <2> QED
    BY <2>1 DEF BoardType
<1>2. CheckpointAt(c) = [life |-> life, cursor |-> c, anchor |-> top]
  BY DEF CheckpointAt
<1> QED
  BY <1>1, <1>2 DEF Known, Checkpoints, NoCp, BoardType

LEMMA LastOf ==
  ASSUME NEW m \in Nat, NEW T \in SUBSET (0 .. m), NEW d \in 0 .. m,
         \A n \in T : d <= n
  PROVE  Last(T, d) \in d .. m /\ \A n \in T : n <= Last(T, d)
<1>1. CASE T # {}
  <2>1. \E x \in T : \A y \in T : y <= x
    BY <1>1, GreatestOf
  <2>2. Last(T, d) \in T /\ \A n \in T : n <= Last(T, d)
    BY <1>1, <2>1 DEF Last
  <2>3. Last(T, d) \in 0 .. m /\ d <= Last(T, d)
    BY <2>2
  <2> QED
    BY <2>2, <2>3
<1> QED
  BY <1>1 DEF Last

\* Only the next event joins the log.
LEMMA LogGrows ==
  ASSUME BoardType, NEW e \in [card : Cards, class : Classes], Len(log) < MaxEvents,
         log' = Append(log, e)
  PROVE  /\ log' \in Seq([card : Cards, class : Classes])
         /\ Len(log') = Len(log) + 1 /\ Len(log') <= MaxEvents
         /\ \A n \in 1 .. Len(log) : log'[n] = log[n]
         /\ log'[Len(log')] = e
BY BoardAssumption DEF BoardType

LEMMA EventAt == ASSUME BoardType, NEW n \in 1 .. Len(log)
                 PROVE  n \in Nat /\ log[n] \in [card : Cards, class : Classes] /\ CardOf(n) \in Cards
<1> DEFINE E == [card : Cards, class : Classes]
<1>1. log \in Seq(E)
  BY DEF BoardType
<1> HIDE DEF E
<1>2. n \in Nat /\ log[n] \in E
  BY <1>1
<1> QED
  BY <1>2 DEF CardOf, E

-----------------------------------------------------------------------------
(* The board's own steps. *)

\* A checkpoint that is not continuous does not become so again.
LEMMA StaysBroken ==
  ASSUME CoreInv, Hermes, NEW k, Known(k), ~Continuous(k)
  PROVE  ~Continuous(k)'
<1>1. CASE \E c \in Cards, e \in Classes : Happens(c, e)
  <2>1. PICK c \in Cards, e \in Classes : Happens(c, e)
    BY <1>1
  <2>2. /\ Len(log') = Len(log) + 1 /\ Len(log) \in Nat /\ k.cursor \in Nat
        /\ UNCHANGED <<life, there, removed>>
    BY <2>1, LogGrows DEF Happens, CoreInv, BoardType, Known, Checkpoints
  <2> QED
    BY <2>2 DEF Continuous
<1>2. CASE \E n \in Ids : Prunes(n)
  <2>1. PICK n \in Ids : Prunes(n)
    BY <1>2
  <2>2. removed \subseteq removed' /\ UNCHANGED <<life, there, log>>
    BY <2>1 DEF Prunes
  <2> QED
    BY <2>2 DEF Continuous
<1>3. CASE BoardGoes
  BY <1>3 DEF BoardGoes, Continuous
<1>4. CASE BoardComes
  BY <1>4 DEF BoardComes, Continuous, Known, Checkpoints, CoreInv, BoardType
<1> QED
  BY <1>1, <1>2, <1>3, <1>4 DEF Hermes

LEMMA HermesFrame ==
  ASSUME CoreInv, Hermes
  PROVE  /\ BoardType'
         /\ Len(log) <= Len(log') /\ \A n \in 1 .. Len(log) : log'[n] = log[n]
         /\ life <= life' /\ (~there /\ there' => life < life')
         /\ (life' = life /\ there' => there /\ first' = first)
         /\ (life' # life => first' = Len(log'))
         /\ UNCHANGED <<prefs, store, steps, phone, times>>
<1> USE DEF CoreInv, BoardType
<1>1. ASSUME NEW c \in Cards, NEW e \in Classes, Happens(c, e)
      PROVE  /\ BoardType' /\ Len(log') = Len(log) + 1
             /\ \A n \in 1 .. Len(log) : log'[n] = log[n]
             /\ UNCHANGED <<life, there, first, prefs, store, steps, phone, times>> /\ there
  <2>1. /\ log' \in Seq([card : Cards, class : Classes])
        /\ Len(log') = Len(log) + 1 /\ Len(log') <= MaxEvents
        /\ \A n \in 1 .. Len(log) : log'[n] = log[n]
    BY <1>1, LogGrows DEF Happens
  <2>2. UNCHANGED <<life, there, first, removed, prefs, store, steps, phone, times>> /\ there
    BY <1>1 DEF Happens, Idles
  <2> QED
    BY <2>1, <2>2
<1>2. ASSUME NEW n \in Ids, Prunes(n)
      PROVE  BoardType' /\ UNCHANGED <<log, life, there, first, prefs, store, steps, phone, times>>
  <2>1. n \in 1 .. Len(log)
    BY <1>2 DEF Prunes, Present
  <2> QED
    BY <1>2, <2>1 DEF Prunes
<1>3. CASE BoardGoes
  <2>1. there' = FALSE /\ UNCHANGED <<log, life, first, removed>>
    BY <1>3 DEF BoardGoes
  <2>2. UNCHANGED <<prefs, store, steps, phone, times>>
    BY <1>3 DEF BoardGoes
  <2>3. BoardType'
    BY <2>1
  <2>4. Len(log) \in Nat /\ life \in Nat
    OBVIOUS
  <2> QED
    BY <2>1, <2>2, <2>3, <2>4
<1>4. CASE BoardComes
  <2>1. ~there /\ there' = TRUE /\ life' = life + 1 /\ first' = Len(log) /\ UNCHANGED <<log, removed>>
    BY <1>4 DEF BoardComes
  <2>2. UNCHANGED <<prefs, store, steps, phone, times>>
    BY <1>4 DEF BoardComes, Idles
  <2> QED
    BY <2>1, <2>2
<1> QED
  <2>0. Len(log) \in Nat /\ life \in Nat
    OBVIOUS
  <2>1. CASE \E c \in Cards, e \in Classes : Happens(c, e)
    <3>1. PICK c \in Cards, e \in Classes : Happens(c, e)
      BY <2>1
    <3>2. /\ BoardType' /\ Len(log') = Len(log) + 1 /\ there
          /\ \A n \in 1 .. Len(log) : log'[n] = log[n]
          /\ UNCHANGED <<life, there, first, prefs, store, steps, phone, times>>
      BY <1>1, <3>1
    <3>3. Len(log) <= Len(log') /\ life <= life'
      BY <2>0, <3>2
    <3> QED
      BY <3>2, <3>3
  <2>2. CASE \E n \in Ids : Prunes(n)
    <3>1. PICK n \in Ids : Prunes(n)
      BY <2>2
    <3> QED
      BY <1>2, <2>0, <3>1
  <2> QED
    BY <2>1, <2>2, <1>3, <1>4 DEF Hermes

LEMMA HermesLane ==
  ASSUME CoreInv, Hermes, NEW l \in Lanes
  PROVE  Lane(catch[l])'
<1> DEFINE c == catch[l]
<1>1. Lane(c) /\ catch' = catch
  BY HermesFrame DEF CoreInv, CatchInv, steps
<1>2. \A k : Known(k) => Known(k)'
  BY HermesFrame DEF Known, Checkpoints, CoreInv, BoardType
<1>3. CASE c.pc = "board"
  BY <1>1, <1>2, <1>3, HermesFrame DEF Lane, Reads, Steps, Rules, CoreInv, BoardType
<1>4. CASE c.pc = "boundary"
  BY <1>1, <1>2, <1>4 DEF Lane
<1>5. CASE c.pc = "reset"
  <2>1. FindsReset(c)
    BY <1>1, <1>5 DEF Lane
  <2>2. Known(c.cp)' /\ Known(c.next)' /\ ~Continuous(c.cp)' /\ c.cp # NoCp
    BY <1>1, <2>1, <1>2, StaysBroken DEF FindsReset
  <2>3. there' /\ c.cp.life = life' => there /\ life' = life
    BY <2>1, HermesFrame DEF FindsReset, Known, Checkpoints, CoreInv, BoardType
  <2>4. FindsReset(c)'
    BY <1>1, <2>1, <2>2, <2>3 DEF FindsReset
  <2> QED
    BY <1>1, <1>5, <2>4 DEF Lane
<1>6. CASE c.pc = "commit"
  <2>1. FindsRows(c)
    BY <1>1, <1>6 DEF Lane
  <2>2. there' /\ life' = life /\ first' = first
    BY <1>6, <2>1, HermesFrame DEF Hermes, Happens, Prunes, BoardGoes, BoardComes, FindsRows
  <2>3. \A n \in c.found : log'[n] = log[n]
    <3>1. \A n \in c.found : n \in 1 .. Len(log)
      BY <2>1, <1>1 DEF FindsRows, Lane, Steps, Known, Checkpoints, CoreInv, BoardType, Ids
    <3> QED
      BY <3>1, HermesFrame
  <2>4. FindsRows(c)'
    BY <1>1, <1>2, <2>1, <2>2, <2>3 DEF FindsRows
  <2> QED
    BY <1>1, <1>6, <2>4 DEF Lane
<1>7. CASE c.pc = "idle"
  BY <1>1, <1>7 DEF Lane
<1> QED
  BY <1>1, <1>3, <1>4, <1>5, <1>6, <1>7 DEF Lane, Steps

LEMMA HermesCore == ASSUME CoreInv, Hermes PROVE CoreInv'
<1>1. BoardType'
  BY HermesFrame
<1>2. PrefsType'
  <2>1. UNCHANGED <<watch, since, rule, policy>> /\ Len(log) <= Len(log')
    BY HermesFrame DEF prefs
  <2>2. Len(log) \in Nat /\ Len(log') \in Nat
    BY <1>1 DEF CoreInv, BoardType
  <2> QED
    BY <2>1, <2>2 DEF CoreInv, PrefsType, Rules
<1>3. StoreType' /\ OpType' /\ PumpType' /\ PhoneType'
  <2>1. Known(cp)'
    BY HermesFrame DEF CoreInv, StoreType, Known, Checkpoints, BoardType, store
  <2> QED
    BY <2>1, HermesFrame DEF CoreInv, StoreType, OpType, PumpType, PhoneType, store, steps, phone, prefs
<1>4. CatchInv'
  BY HermesLane, HermesFrame DEF CatchInv, CoreInv, steps
<1>5. RowsInv'
  <2>1. \A n \in Ids : rows[n].st # "none" => /\ n <= Len(log') /\ log'[n].class # "none"
                                              /\ n > first' /\ there' => life' = life /\ n > first /\ there
    BY HermesFrame DEF CoreInv, RowsInv, BoardType, Ids
  <2> QED
    BY <2>1, HermesFrame DEF CoreInv, RowsInv, AckedWasTaken, store, steps, phone, times
<1> QED
  BY <1>1, <1>2, <1>3, <1>4, <1>5 DEF CoreInv

-----------------------------------------------------------------------------
(* What a step leaves alone, and how it may change the deliveries. *)

LEMMA BoardFrame == ASSUME CoreInv, UNCHANGED board PROVE BoardType' /\ \A k : Known(k)' <=> Known(k)
BY DEF CoreInv, board, BoardType, Known

LEMMA CatchFrame == ASSUME CoreInv, UNCHANGED <<board, catch>> PROVE CatchInv'
BY DEF CoreInv, CatchInv, board, Lane, Reads, FindsReset, FindsRows, Known, Continuous

\* Deliveries come and keep their marks: none is made or forgotten.
Fade == /\ rows' \in [Ids -> Rows]
        /\ \A n \in Ids : /\ rows'[n].st = "none" <=> rows[n].st = "none"
                          /\ rows[n].tried => rows'[n].tried
                          /\ rows'[n].rule = rows[n].rule

\* What is settled stays so, for the phone of the same pairing.
Settles == /\ authority' = authority /\ taken \subseteq taken' /\ old \subseteq old'
           /\ \A n \in Ids : rows'[n].st = "acked" => rows[n].st = "acked"

\* The cursor goes on along the board that is there.
GoesOn == there /\ cp.life = life => cp'.life = life /\ cp.cursor <= cp'.cursor

LEMMA SameRows == ASSUME CoreInv, rows' = rows PROVE Fade /\ \A n \in Ids : rows'[n].st = "acked" => rows[n].st = "acked"
BY DEF CoreInv, StoreType, Fade

LEMMA RowsFrame ==
  ASSUME CoreInv, UNCHANGED board, Fade, GoesOn, StoreType', AckedWasTaken',
         \A n \in pump'.moments : n \in Ids /\ rows[n].st # "none" /\ rows'[n].tried
  PROVE  RowsInv'
<1>1. \A n \in Ids : rows'[n].st # "none" => n <= Len(log) /\ log[n].class # "none"
  BY DEF CoreInv, RowsInv, Fade
<1>2. cp.cursor \in Nat /\ cp'.cursor \in Nat
  BY DEF CoreInv, StoreType, Known, Checkpoints
<1>3. ASSUME NEW n \in Ids, rows'[n].st # "none", n > first, there
      PROVE  cp'.life = life /\ n <= cp'.cursor
  <2>1. cp.life = life /\ n <= cp.cursor
    BY <1>3 DEF CoreInv, RowsInv, Fade
  <2> QED
    BY <1>2, <1>3, <2>1 DEF GoesOn, Ids
<1>4. \A n \in pump'.moments : rows'[n].st # "none" /\ rows'[n].tried
  BY DEF Fade
<1> QED
  BY <1>1, <1>3, <1>4 DEF board, RowsInv

LEMMA AckedFrame == ASSUME CoreInv, Settles PROVE AckedWasTaken'
BY DEF CoreInv, RowsInv, AckedWasTaken, Settles

\* Most steps change neither the board nor what a catch-up step has read, and settle
\* nothing.
LEMMA QuietStep ==
  ASSUME CoreInv, UNCHANGED <<board, catch, phone, authority>>, Fade, GoesOn, Settles, Known(cp'),
         pump'.moments \subseteq pump.moments, PrefsType', OpType', PumpType'
  PROVE  CoreInv'
<1>1. BoardType' /\ CatchInv' /\ StoreType'
  BY BoardFrame, CatchFrame DEF Fade, StoreType, CoreInv, Known, board
<1>2. PhoneType'
  BY DEF CoreInv, PhoneType, phone
<1>3. \A n \in pump'.moments : n \in Ids /\ rows[n].st # "none" /\ rows'[n].tried
  BY DEF CoreInv, RowsInv, PumpType, Fade
<1>4. RowsInv'
  BY <1>1, <1>3, RowsFrame, AckedFrame
<1> QED
  BY <1>1, <1>2, <1>4 DEF CoreInv

LEMMA Cancelling ==
  ASSUME CoreInv, NEW S, rows' = Cancel(S)
  PROVE  /\ Fade /\ \A n \in Ids : rows'[n].st = "acked" => rows[n].st = "acked"
         /\ \A n \in Ids : \/ rows'[n] = rows[n]
                           \/ n \in S /\ rows[n].st = "pending" /\ rows'[n].st = "dropped"
<1>1. \A n \in Ids : rows[n] \in Rows
  BY DEF CoreInv, StoreType
<1>2. \A n \in Ids : [rows[n] EXCEPT !.st = "dropped"] \in Rows
  BY <1>1 DEF Rows
<1>3. \A n \in Ids : rows'[n] = IF n \in S /\ rows[n].st = "pending" THEN [rows[n] EXCEPT !.st = "dropped"] ELSE rows[n]
  BY DEF Cancel
<1>4. rows' \in [Ids -> Rows]
  BY <1>1, <1>2 DEF Cancel
<1>5. \A n \in Ids : \/ rows'[n] = rows[n]
                     \/ /\ n \in S /\ rows[n].st = "pending" /\ rows'[n].st = "dropped"
                        /\ rows'[n].tried = rows[n].tried /\ rows'[n].rule = rows[n].rule
  BY <1>1, <1>3 DEF Rows
<1> QED
  BY <1>4, <1>5 DEF Fade

LEMMA Taking ==
  ASSUME CoreInv, TakeCheckpoint
  PROVE  /\ Known(cp') /\ GoesOn /\ cp' # NoCp
         /\ cp # NoCp => cp' = cp
         /\ cp = NoCp => cp'.life = life /\ cp'.cursor = Len(log)
<1>1. Len(log) \in 0 .. Len(log) /\ BoardType
  BY DEF CoreInv, BoardType
<1>2. /\ Known(CheckpointAt(Len(log))) /\ CheckpointAt(Len(log)) # NoCp
      /\ CheckpointAt(Len(log)).life = life /\ CheckpointAt(Len(log)).cursor = Len(log)
  BY <1>1, Checkpointing
<1>3. cp' = IF cp = NoCp THEN CheckpointAt(Len(log)) ELSE cp
  BY DEF TakeCheckpoint
<1>4. Known(cp) /\ cp.cursor <= Len(log) /\ cp.cursor \in Nat /\ cp.cursor <= cp.cursor
  BY DEF CoreInv, StoreType, Known, Checkpoints
<1> QED
  BY <1>2, <1>3, <1>4 DEF GoesOn

-----------------------------------------------------------------------------
(* The wearer's steps. *)

LEMMA WearerCore == ASSUME CoreInv, Wearer PROVE CoreInv'
<1>1. /\ Len(log) \in Nat /\ -1 \in -1 .. Len(log) /\ Len(log) \in -1 .. Len(log) /\ Unset = -1
      /\ Known(cp) /\ (cp' = cp => GoesOn)
  BY DEF CoreInv, BoardType, Unset, StoreType, GoesOn, Known, Checkpoints
<1>2. ASSUME NEW c \in Cards, WatchNotes(c) PROVE CoreInv'
  <2>1. PrefsType'
    BY <1>1, <1>2 DEF WatchNotes, Quietly, board, CoreInv, PrefsType
  <2>2. OpType' /\ PumpType'
    BY <1>2 DEF WatchNotes, Quietly, CoreInv, OpType, PumpType
  <2>3. Fade /\ Settles /\ UNCHANGED <<board, catch, phone, authority, pump>>
    BY <1>2, SameRows DEF WatchNotes, Quietly, Settles, phone, times
  <2> QED
    BY <1>2, <2>1, <2>2, <2>3, Taking, QuietStep DEF WatchNotes
<1>3. CASE WatchSets
  <2>1. PrefsType' /\ OpType' /\ PumpType'
    BY <1>3 DEF WatchSets, Quietly, board, CoreInv, PrefsType, OpType, PumpType, NoOp
  <2>2. Fade /\ Settles /\ UNCHANGED <<board, catch, phone, authority, pump, cp>>
    BY <1>3, SameRows DEF WatchSets, Quietly, Settles, phone, times
  <2> QED
    BY <1>1, <2>1, <2>2, QuietStep
<1>4. ASSUME NEW c \in Cards, UnwatchSets(c) PROVE CoreInv'
  <2>1. PrefsType' /\ OpType' /\ PumpType'
    BY <1>4 DEF UnwatchSets, Quietly, board, CoreInv, PrefsType, OpType, PumpType
  <2>2. Fade /\ Settles /\ UNCHANGED <<board, catch, phone, authority, pump, cp>>
    BY <1>4, SameRows DEF UnwatchSets, Quietly, Settles, phone, times
  <2> QED
    BY <1>1, <2>1, <2>2, QuietStep
<1>5. CASE UnwatchNotes
  <2>1. PrefsType' /\ OpType' /\ PumpType'
    BY <1>1, <1>5 DEF UnwatchNotes, Quietly, board, CoreInv, PrefsType, OpType, PumpType, NoOp
  <2>2. UNCHANGED <<board, catch, phone, authority, pump, cp, taken, old>>
    BY <1>5 DEF UnwatchNotes, Quietly, phone, times
  <2>3. Fade /\ Settles
    BY <1>5, <2>2, Cancelling DEF UnwatchNotes, Settles
  <2> QED
    BY <1>1, <2>1, <2>2, <2>3, QuietStep
<1>6. CASE OpFails
  <2>1. PrefsType' /\ OpType' /\ PumpType'
    BY <1>6 DEF OpFails, Quietly, board, prefs, CoreInv, PrefsType, OpType, PumpType, NoOp
  <2>2. Fade /\ Settles /\ UNCHANGED <<board, catch, phone, authority, pump, cp>>
    BY <1>6, SameRows DEF OpFails, Quietly, Settles, phone, times
  <2> QED
    BY <1>1, <2>1, <2>2, QuietStep
<1>7. ASSUME NEW m \in RuleModes, RuleSets(m) PROVE CoreInv'
  <2>1. PrefsType' /\ OpType' /\ PumpType'
    BY <1>1, <1>7 DEF RuleSets, Quietly, board, CoreInv, PrefsType, OpType, PumpType, Rules
  <2>2. UNCHANGED <<board, catch, phone, authority, pump, taken, old>>
    BY <1>7 DEF RuleSets, Quietly, phone, times
  <2>3. Fade /\ Settles
    BY <1>7, <2>2, Cancelling DEF RuleSets, RuleCancels, Settles
  <2> QED
    BY <1>7, <2>1, <2>2, <2>3, Taking, QuietStep DEF RuleSets
<1>8. CASE RuleOff
  <2>1. PrefsType' /\ OpType' /\ PumpType'
    BY <1>1, <1>8 DEF RuleOff, RuleModes, Quietly, board, CoreInv, PrefsType, OpType, PumpType, Rules
  <2>2. UNCHANGED <<board, catch, phone, authority, pump, cp, taken, old>>
    BY <1>8 DEF RuleOff, Quietly, phone, times
  <2>3. Fade /\ Settles
    BY <1>8, <2>2, Cancelling DEF RuleOff, RuleCancels, Settles
  <2> QED
    BY <1>1, <2>1, <2>2, <2>3, QuietStep
<1>9. ASSUME NEW p \in {"on", "off"} \cup ({"done"} \cap Classes), SetPolicy(p) PROVE CoreInv'
  <2>1. PrefsType' /\ OpType' /\ PumpType'
    BY <1>9 DEF SetPolicy, Policies, Quietly, board, CoreInv, PrefsType, OpType, PumpType
  <2>2. UNCHANGED <<board, catch, phone, authority, pump, cp, taken, old>>
    BY <1>9 DEF SetPolicy, Quietly, phone, times
  <2>3. Fade /\ Settles
    BY <1>9, <2>2, Cancelling DEF SetPolicy, Settles
  <2> QED
    BY <1>1, <2>1, <2>2, <2>3, QuietStep
<1> QED
  BY <1>2, <1>3, <1>4, <1>5, <1>6, <1>7, <1>8, <1>9 DEF Wearer
-----------------------------------------------------------------------------
(* The catch-up steps. *)

LEMMA IdleLane == Lane(Idle)
BY DEF Lane, Steps, Idle, Rules, RuleModes, NoCp, Checkpoints, Policies, Unset

LEMMA LaneFrame ==
  ASSUME CoreInv, UNCHANGED board, NEW l \in Lanes, NEW c, Lane(c), catch' = [catch EXCEPT ![l] = c]
  PROVE  CatchInv'
<1>1. \A d : Lane(d)' <=> Lane(d)
  BY DEF board, Lane, Reads, FindsReset, FindsRows, Known, Continuous
<1>2. /\ DOMAIN catch' = Lanes /\ catch' = [k \in Lanes |-> catch'[k]]
      /\ \A k \in Lanes : catch'[k] = IF k = l THEN c ELSE catch[k]
  BY DEF CoreInv, CatchInv
<1>3. \A k \in Lanes : Lane(catch'[k])
  BY <1>2 DEF CoreInv, CatchInv
<1> QED
  BY <1>1, <1>2, <1>3 DEF CatchInv

\* A step ends, or goes on with what it has read.
LEMMA StepFrame ==
  ASSUME CoreInv, UNCHANGED <<board, phone, authority, op>>, NEW l \in Lanes, NEW c, Lane(c),
         Over(l) \/ Goes(l, c),
         Fade, GoesOn, Settles, Known(cp'), PrefsType', watch' = watch
  PROVE  CoreInv'
<1>1. CatchInv'
  BY IdleLane, LaneFrame DEF Over, Goes
<1>2. PumpType' /\ pump'.moments = pump.moments
  BY DEF Over, Goes, CoreInv, PumpType
<1>3. BoardType' /\ StoreType' /\ OpType' /\ PhoneType'
  BY BoardFrame DEF Fade, StoreType, CoreInv, Known, board, OpType, PhoneType, phone
<1>4. \A n \in pump'.moments : n \in Ids /\ rows[n].st # "none" /\ rows'[n].tried
  BY <1>2 DEF CoreInv, RowsInv, PumpType, Fade
<1>5. RowsInv'
  BY <1>3, <1>4, RowsFrame, AckedFrame
<1> QED
  BY <1>1, <1>2, <1>3, <1>5 DEF CoreInv

LEMMA Finding ==
  ASSUME CoreInv, NEW l \in Lanes, catch[l].pc = "board"
  PROVE  LET c == catch[l]
             found == Found(c)
             end == Last(Batch(c), c.cp.cursor)
         IN /\ found \subseteq Ids
            /\ end \in c.cp.cursor .. Len(log) /\ c.cp.cursor \in Nat
            /\ \A n \in Batch(c) : n <= end
            /\ \A n \in found : /\ n > first /\ n > c.cp.cursor /\ n <= end
                                /\ log[n].class # "none"
<1> DEFINE c == catch[l]
<1>1. c \in Steps /\ Reads(c)
  BY DEF CoreInv, CatchInv, Lane
<1>2. /\ Len(log) \in Nat /\ first \in Nat /\ Len(log) <= MaxEvents /\ MaxEvents \in Nat
      /\ c.cp.cursor \in Nat /\ c.cp.cursor <= Len(log)
  BY <1>1, BoardAssumption DEF CoreInv, BoardType, Reads, Known, Checkpoints
<1>3. Batch(c) \in SUBSET (0 .. Len(log)) /\ \A n \in Batch(c) : n > first /\ n > c.cp.cursor /\ n \in Ids
  BY <1>2 DEF Batch, Unread, Present, Ids
<1>4. /\ Last(Batch(c), c.cp.cursor) \in c.cp.cursor .. Len(log)
      /\ \A n \in Batch(c) : n <= Last(Batch(c), c.cp.cursor)
  <2>1. \A n \in Batch(c) : c.cp.cursor <= n
    BY <1>2, <1>3
  <2>2. c.cp.cursor \in 0 .. Len(log)
    BY <1>2
  <2> QED
    BY <1>2, <1>3, <2>1, <2>2, LastOf
<1>5. \A n \in Found(c) : n \in Batch(c) /\ log[n].class # "none"
  BY DEF Found, ByWatch, ByRule, Allows
<1> QED
  BY <1>2, <1>3, <1>4, <1>5

LEMMA ReadBoardCore == ASSUME CoreInv, NEW l \in Lanes, ReadBoard(l) PROVE CoreInv'
<1> DEFINE c == catch[l]
<1>1. /\ c.pc = "board" /\ c \in Steps /\ Reads(c) /\ Known(c.cp)
      /\ UNCHANGED <<board, prefs, store, op, phone, times>>
  BY DEF ReadBoard, Reading, CoreInv, CatchInv, Lane, Reads
<1>2. /\ UNCHANGED <<board, phone, authority, op, watch, cp, rows, taken, old>> /\ PrefsType'
      /\ Fade /\ GoesOn /\ Settles /\ Known(cp')
  <2>1. UNCHANGED <<board, phone, authority, op, watch, since, rule, policy, cp, rows, taken, old>>
    BY <1>1 DEF store, prefs, phone, times
  <2>2. cp.cursor <= cp.cursor
    BY DEF CoreInv, StoreType, Known, Checkpoints
  <2>3. GoesOn /\ Settles /\ Known(cp') /\ Fade
    BY <2>1, <2>2, SameRows DEF CoreInv, StoreType, Settles, GoesOn
  <2> QED
    BY <2>1, <2>3 DEF CoreInv, PrefsType, board
<1>3. BoardType /\ Len(log) \in 0 .. Len(log) /\ Idle \in Steps
  BY IdleLane DEF CoreInv, BoardType, Lane
<1> DEFINE now == CheckpointAt(Len(log))
<1>4. Known(now) /\ now \in Checkpoints /\ now.life = life /\ now.cursor = Len(log)
  BY <1>3, Checkpointing DEF Known
<1>5. CASE Over(l)
  BY <1>2, <1>5, IdleLane, StepFrame
<1>6. ASSUME NEW d, Lane(d), Goes(l, d) PROVE CoreInv'
  BY <1>2, <1>6, StepFrame
<1>7. Lane([Idle EXCEPT !.pc = "boundary", !.next = now])
  <2> DEFINE d == [Idle EXCEPT !.pc = "boundary", !.next = now]
  <2>1. d \in Steps /\ d.pc = "boundary" /\ d.next = now
    BY <1>3, <1>4 DEF Steps, Idle
  <2> QED
    BY <2>1, <1>4 DEF Lane
<1>8. ASSUME c.cp # NoCp, ~Continuous(c.cp)
      PROVE  Lane([Idle EXCEPT !.pc = "reset", !.cp = c.cp, !.next = IF there THEN now ELSE NoCp,
                               !.gone = ~there \/ c.cp.life # life])
  <2> DEFINE next == IF there THEN now ELSE NoCp
             gone == ~there \/ c.cp.life # life
             d == [Idle EXCEPT !.pc = "reset", !.cp = c.cp, !.next = next, !.gone = gone]
  <2>1. next \in Checkpoints /\ Known(next) /\ gone \in BOOLEAN
    BY <1>3, <1>4 DEF NoCp, Checkpoints, Known, BoardType
  <2>2. d \in Steps /\ d.pc = "reset" /\ d.cp = c.cp /\ d.next = next /\ d.gone = gone
    BY <1>1, <1>3, <2>1 DEF Steps, Idle
  <2>3. there /\ c.cp.life = life => ~gone /\ next.life = life /\ next.cursor >= c.cp.cursor
    BY <1>1, <1>3, <1>4 DEF Known, Checkpoints
  <2> QED
    BY <1>1, <1>8, <2>1, <2>2, <2>3 DEF Lane, FindsReset
<1>9. ASSUME c.cp # NoCp, Continuous(c.cp)
      PROVE  Lane([Idle EXCEPT !.pc = "commit", !.cp = c.cp, !.since = c.since,
                             !.next = CheckpointAt(Last(Batch(c), c.cp.cursor)), !.found = Found(c),
                             !.byRule = {n \in Found(c) : ByRule(c, n)}])
  <2> DEFINE end == Last(Batch(c), c.cp.cursor)
             next == CheckpointAt(end)
             d == [Idle EXCEPT !.pc = "commit", !.cp = c.cp, !.since = c.since, !.next = next,
                               !.found = Found(c), !.byRule = {n \in Found(c) : ByRule(c, n)}]
  <2>1. /\ Found(c) \subseteq Ids /\ end \in c.cp.cursor .. Len(log) /\ c.cp.cursor \in Nat
        /\ \A n \in Found(c) : n > first /\ n > c.cp.cursor /\ n <= end /\ log[n].class # "none"
    BY <1>1, Finding
  <2>2. Known(next) /\ next \in Checkpoints /\ next.life = life /\ next.cursor = end
    <3>1. end \in 0 .. Len(log)
      BY <2>1
    <3> QED
      BY <1>3, <3>1, Checkpointing DEF Known
  <2>3. /\ d \in Steps /\ d.pc = "commit" /\ d.cp = c.cp /\ d.next = next
        /\ d.found = Found(c) /\ d.byRule \subseteq Found(c)
    <3> HIDE DEF next
    <3> QED
      BY <1>1, <1>3, <2>1, <2>2 DEF Steps, Idle
  <2> HIDE DEF next, end
  <2>4. FindsRows(d)
    <3> HIDE DEF d
    <3>1. c.cp.cursor <= end
      BY <2>1
    <3> QED
      BY <1>1, <1>9, <2>1, <2>2, <2>3, <3>1 DEF FindsRows, Continuous
  <2> QED
    <3> HIDE DEF d
    <3>1. Lane(d)
      BY <2>3, <2>4 DEF Lane
    <3> QED
      BY <3>1 DEF d, next, end
<1> HIDE DEF now
<1> QED
  BY <1>5, <1>6, <1>7, <1>8, <1>9 DEF ReadBoard, now

\* What a step leaves as it was, when it only reads the store.
LEMMA Keeping ==
  ASSUME CoreInv, UNCHANGED <<board, prefs, store, op, phone, times>>
  PROVE  /\ UNCHANGED <<phone, authority, op, watch, cp, rows>>
         /\ PrefsType' /\ Fade /\ GoesOn /\ Settles /\ Known(cp')
<1>1. UNCHANGED <<board, phone, authority, op, watch, since, rule, policy, cp, rows, taken, old>>
  BY DEF store, prefs, phone, times
<1>2. cp.cursor <= cp.cursor
  BY DEF CoreInv, StoreType, Known, Checkpoints
<1>3. GoesOn /\ Settles /\ Known(cp') /\ Fade
  BY <1>1, <1>2, SameRows DEF CoreInv, StoreType, Settles, GoesOn
<1> QED
  BY <1>1, <1>3 DEF CoreInv, PrefsType, board

LEMMA BoundaryCore == ASSUME CoreInv, NEW l \in Lanes, Boundary(l) PROVE CoreInv'
<1> DEFINE c == catch[l]
<1>1. /\ Known(c.next) /\ Known(cp) /\ Over(l)
      /\ UNCHANGED <<board, phone, authority, op, watch, since, rule, policy, rows, taken, old>>
  BY DEF Boundary, Committing, CoreInv, CatchInv, Lane, StoreType, phone, times
<1>2. Known(cp') /\ GoesOn
  <2>1. cp' = IF cp = NoCp THEN c.next ELSE cp
    BY DEF Boundary
  <2>2. cp.cursor \in Nat /\ cp.cursor <= cp.cursor /\ NoCp.life = 0 /\ life # 0
    BY <1>1 DEF Known, Checkpoints, NoCp, CoreInv, BoardType
  <2> QED
    BY <1>1, <2>1, <2>2 DEF GoesOn
<1>3. Fade /\ Settles /\ PrefsType'
  BY <1>1, SameRows DEF Settles, CoreInv, PrefsType, board
<1> QED
  BY <1>1, <1>2, <1>3, IdleLane, StepFrame

LEMMA OvertakenCore == ASSUME CoreInv, NEW l \in Lanes, Overtaken(l) PROVE CoreInv'
<1>1. UNCHANGED <<board, prefs, store, op, phone, times>> /\ Over(l)
  BY DEF Overtaken, Reading
<1> QED
  BY <1>1, Keeping, IdleLane, StepFrame

LEMMA ResetsCore == ASSUME CoreInv, NEW l \in Lanes, Resets(l) PROVE CoreInv'
<1> DEFINE c == catch[l]
<1>1. /\ Known(c.next) /\ FindsReset(c) /\ c.cp = cp /\ Over(l)
      /\ UNCHANGED <<board, phone, authority, op, watch, policy, taken, old>>
  BY DEF Resets, Committing, CoreInv, CatchInv, Lane, FindsReset, phone, times
<1>2. Known(cp') /\ GoesOn
  <2>1. cp' = c.next
    BY DEF Resets
  <2> QED
    BY <1>1, <2>1 DEF GoesOn, FindsReset, Known, Checkpoints
<1>3. Fade /\ Settles
  <2>1. \/ rows' = Cancel(Pending)
        \/ rows' = rows
    BY DEF Resets
  <2> QED
    BY <1>1, <2>1, Cancelling, SameRows DEF Settles
<1>4. PrefsType'
  <2>1. /\ since' = [k \in Cards |-> Unset]
        /\ rule' = IF rule.mode = "off" THEN rule ELSE [rule EXCEPT !.since = c.next.cursor]
        /\ c.next.cursor \in Nat /\ c.next.cursor <= Len(log) /\ Len(log) \in Nat
    BY <1>1 DEF Resets, Known, Checkpoints, CoreInv, BoardType
  <2> QED
    BY <1>1, <2>1 DEF CoreInv, PrefsType, board, Rules, Unset
<1> QED
  BY <1>1, <1>2, <1>3, <1>4, IdleLane, StepFrame

\* What a commit does to a delivery: it makes those of the events it found and is
\* still asked for, and the newest of a card replaces the pending ones.
LEMMA Storing ==
  ASSUME CoreInv, NEW l \in Lanes, Commits(l)
  PROVE  LET c == catch[l] IN
         /\ FindsRows(c) /\ c.cp = cp /\ cp' = c.next /\ c \in Steps
         /\ rows' \in [Ids -> Rows]
         /\ \A n \in Kept(c) : /\ rows[n].st = "none" /\ n \in c.found /\ n \in Ids
                               /\ rows'[n].st = IF Newer(n, Kept(c)) THEN "coalesced" ELSE "pending"
                               /\ rows'[n].rule = StillRuled(c, n)
         /\ \A n \in Ids \ Kept(c) :
              \/ rows'[n] = rows[n]
              \/ /\ rows[n].st = "pending" /\ Newer(n, Kept(c)) /\ rows'[n].st = "coalesced"
                 /\ rows'[n].tried = rows[n].tried /\ rows'[n].rule = rows[n].rule
<1> DEFINE c == catch[l]
<1>1. FindsRows(c) /\ c.cp = cp /\ cp' = c.next /\ c \in Steps /\ rows' = Store(c)
  BY DEF Commits, CoreInv, CatchInv, Lane
<1>2. \A n \in Ids : rows[n] \in Rows
  BY DEF CoreInv, StoreType
<1>3. \A n : StillRuled(c, n) \in BOOLEAN
  BY DEF StillRuled, Allows
<1>4. \A n \in Kept(c) : rows[n].st = "none" /\ n \in c.found /\ n \in Ids
  BY <1>1 DEF Kept, Steps
<1>5. \A n \in Ids : rows'[n] =
        IF n \in Kept(c)
        THEN [st |-> IF Newer(n, Kept(c)) THEN "coalesced" ELSE "pending",
              due |-> TRUE, tried |-> FALSE, rule |-> StillRuled(c, n), seen |-> "no"]
        ELSE IF rows[n].st = "pending" /\ Newer(n, Kept(c)) THEN [rows[n] EXCEPT !.st = "coalesced"] ELSE rows[n]
  BY <1>1 DEF Store
<1>6. \A n \in Ids : [rows[n] EXCEPT !.st = "coalesced"] \in Rows
  BY <1>2 DEF Rows
<1>7. \A n \in Ids : [st |-> IF Newer(n, Kept(c)) THEN "coalesced" ELSE "pending",
              due |-> TRUE, tried |-> FALSE, rule |-> StillRuled(c, n), seen |-> "no"] \in Rows
  BY <1>3 DEF Rows
<1>8. rows' \in [Ids -> Rows]
  <2>1. rows' = [n \in Ids |-> rows'[n]]
    BY <1>1 DEF Store
  <2>2. \A n \in Ids : rows'[n] \in Rows
    BY <1>2, <1>5, <1>6, <1>7
  <2> QED
    BY <2>1, <2>2
<1>9. \A n \in Ids \ Kept(c) :
              \/ rows'[n] = rows[n]
              \/ /\ rows[n].st = "pending" /\ Newer(n, Kept(c)) /\ rows'[n].st = "coalesced"
                 /\ rows'[n].tried = rows[n].tried /\ rows'[n].rule = rows[n].rule
  BY <1>2, <1>5 DEF Rows
<1>10. ASSUME NEW n \in Kept(c)
      PROVE  /\ rows'[n].st = IF Newer(n, Kept(c)) THEN "coalesced" ELSE "pending"
             /\ rows'[n].rule = StillRuled(c, n)
  <2> DEFINE s == IF Newer(n, Kept(c)) THEN "coalesced" ELSE "pending"
             r == StillRuled(c, n)
  <2>1. rows'[n] = [st |-> s, due |-> TRUE, tried |-> FALSE, rule |-> r, seen |-> "no"]
    BY <1>4, <1>5
  <2> HIDE DEF s, r
  <2>2. rows'[n].st = s /\ rows'[n].rule = r
    BY <2>1
  <2> QED
    BY <2>2 DEF s, r
<1> HIDE DEF c
<1> QED
  BY <1>1, <1>4, <1>8, <1>9, <1>10, Zenon DEF c

LEMMA CommitsCore == ASSUME CoreInv, NEW l \in Lanes, Commits(l) PROVE CoreInv'
<1> DEFINE c == catch[l]
<1>1. /\ Over(l) /\ c.cp = cp /\ cp' = c.next /\ FindsRows(c) /\ c \in Steps
      /\ UNCHANGED <<board, phone, authority, op, watch, since, rule, policy, taken, old>>
  BY Storing DEF Commits, Committing, phone, times
<1>2. CatchInv'
  BY <1>1, IdleLane, LaneFrame DEF Over
<1>3. PumpType' /\ pump'.moments = pump.moments
  BY <1>1 DEF Over, CoreInv, PumpType
<1>4. BoardType' /\ StoreType' /\ OpType' /\ PhoneType' /\ PrefsType'
  BY <1>1, BoardFrame, Storing DEF StoreType, CoreInv, board, OpType, PhoneType, phone, FindsRows, PrefsType
<1>5. /\ \A n \in Ids : rows'[n].st # "none" => n \in c.found \/ rows[n].st # "none"
      /\ \A n \in Ids : rows'[n].st = "acked" => rows[n].st = "acked"
      /\ \A n \in Ids : rows[n].st # "none" /\ rows[n].tried => rows'[n].st # "none" /\ rows'[n].tried
  BY Storing
<1>6. cp.cursor \in Nat /\ cp'.cursor \in Nat /\ cp.cursor <= cp'.cursor /\ cp'.life = life /\ Len(log) \in Nat
      /\ cp'.cursor <= Len(log)
  BY <1>1 DEF FindsRows, Known, Checkpoints, CoreInv, BoardType
<1>7. AckedWasTaken'
  BY <1>1, <1>5, AckedFrame DEF Settles
<1>8. \A n \in c.found : n > first /\ n <= cp'.cursor /\ n <= Len(log) /\ n \in Ids /\ log[n].class # "none"
  BY <1>1, <1>6 DEF FindsRows, Steps, Ids
<1>9. \A n \in Ids : rows'[n].st # "none" => n <= Len(log) /\ log[n].class # "none"
  BY <1>5, <1>8 DEF CoreInv, RowsInv
<1>10. \A n \in Ids : (rows'[n].st # "none" /\ n > first /\ there) => cp'.life = life /\ n <= cp'.cursor
  <2>1. ASSUME NEW n \in Ids, rows'[n].st # "none", n > first, there
        PROVE  n <= cp'.cursor
    <3>1. CASE rows[n].st # "none"
      <4>1. n <= cp.cursor
        BY <2>1, <3>1 DEF CoreInv, RowsInv
      <4> QED
        BY <4>1, <1>6 DEF Ids
    <3> QED
      BY <2>1, <3>1, <1>5, <1>8
  <2> QED
    BY <2>1, <1>6
<1>11. RowsInv'
  <2>1. \A n \in pump'.moments : rows'[n].st # "none" /\ rows'[n].tried
    BY <1>3, <1>5 DEF CoreInv, RowsInv, PumpType
  <2>2. UNCHANGED <<log, first, there, life>>
    BY <1>1 DEF board
  <2> QED
    BY <1>7, <1>9, <1>10, <2>1, <2>2 DEF RowsInv
<1> QED
  BY <1>2, <1>3, <1>4, <1>11 DEF CoreInv

LEMMA StepCore == ASSUME CoreInv, NEW l \in Lanes, Step(l) PROVE CoreInv'
BY ReadBoardCore, BoundaryCore, OvertakenCore, ResetsCore, CommitsCore DEF Step

-----------------------------------------------------------------------------
(* The pump, the phone, the clock and the faults. *)

LEMMA ReadStoreCore == ASSUME CoreInv, ReadStore PROVE CoreInv'
<1> DEFINE room == MaxPending - Cardinality(Pending)
           c == [Idle EXCEPT !.pc = "board", !.watched = watch, !.rule = rule, !.cp = cp,
                             !.since = since, !.policy = policy, !.room = room]
<1>1. UNCHANGED <<board, prefs, store, op, phone, times>> /\ "own" \in Lanes
  BY DEF ReadStore, Reading, Lanes
<1>2. room \in Int
  <2>1. IsFiniteSet(Ids)
    BY BoardAssumption, FS_Interval DEF Ids
  <2>2. Cardinality(Pending) \in Nat
    BY <2>1, FS_Subset, FS_CardinalityType DEF Pending
  <2> QED
    BY <2>2, BoardAssumption
<1>3. Lane(c)
  <2>1. Idle \in Steps
    BY IdleLane DEF Lane
  <2>2. /\ c \in Steps /\ c.pc = "board" /\ c.cp = cp /\ c.since = since /\ c.rule = rule
    <3> HIDE DEF room
    <3> QED
      BY <1>2, <2>1 DEF Steps, Idle, CoreInv, PrefsType, StoreType, Known
  <2>3. Reads(c)
    BY <2>2 DEF Reads, CoreInv, PrefsType, StoreType, BoardType
  <2> QED
    BY <2>2, <2>3 DEF Lane
<1>4. Over("own") \/ Goes("own", c)
  BY DEF ReadStore
<1> HIDE DEF c
<1> QED
  BY <1>1, <1>3, <1>4, Keeping, IdleLane, StepFrame

\* A step of the pump that only marks deliveries, or gives one up.
LEMMA PumpFrame ==
  ASSUME CoreInv, UNCHANGED <<board, prefs, cp, op, catch, acks, taken, times>>,
         authority' \in {"current", "other"}, authority' = authority \/ acks = {},
         rows' \in [Ids -> Rows], AckedWasTaken', PumpType',
         \A n \in Ids : rows'[n].st = "none" <=> rows[n].st = "none",
         \A n \in pump'.moments : n \in Ids /\ rows[n].st # "none" /\ rows'[n].tried
  PROVE  CoreInv'
<1>1. BoardType' /\ CatchInv' /\ StoreType'
  BY BoardFrame, CatchFrame DEF StoreType, CoreInv, Known, board
<1>2. PhoneType' /\ PrefsType' /\ OpType'
  BY DEF CoreInv, PhoneType, PrefsType, OpType, prefs, board
<1>3. RowsInv'
  BY DEF CoreInv, RowsInv, board
<1> QED
  BY <1>1, <1>2, <1>3 DEF CoreInv

LEMMA PumpCore == ASSUME CoreInv, Pump \/ PushFails PROVE CoreInv'
<1>1. /\ \A n \in Ids : rows[n] \in Rows
      /\ PumpType /\ authority \in {"current", "other"} /\ AckedWasTaken
      /\ rows \in [Ids -> Rows]
      /\ \A n \in pump.moments : n \in Ids /\ rows[n].st # "none" /\ rows[n].tried
  BY DEF CoreInv, StoreType, PumpType, RowsInv
<1>2. CASE Reload
  <2>1. /\ UNCHANGED <<board, prefs, cp, op, catch, acks, taken, times, authority>>
        /\ pump' = [pump EXCEPT !.pc = "idle"]
        /\ rows' = [n \in Ids |-> IF n \in Pending THEN [rows[n] EXCEPT !.due = TRUE] ELSE rows[n]]
    BY <1>2 DEF Reload, Pumping, At
  <2>2. /\ rows' \in [Ids -> Rows]
        /\ \A n \in Ids : rows'[n].st = rows[n].st /\ rows'[n].tried = rows[n].tried
    BY <1>1, <2>1 DEF Rows
  <2>3. PumpType' /\ pump'.moments = pump.moments
    BY <1>1, <2>1 DEF PumpType
  <2>4. AckedWasTaken'
    BY <1>1, <2>1, <2>2 DEF AckedWasTaken, times
  <2> QED
    BY <1>1, <2>1, <2>2, <2>3, <2>4, PumpFrame
<1>3. CASE CheckAuthority
  <2>1. /\ UNCHANGED <<board, prefs, cp, op, catch, acks, taken, times>>
        /\ pump' = [pump EXCEPT !.pc = "tail"] /\ authority' = "current"
    BY <1>3 DEF CheckAuthority, Pumping, At
  <2>2. CASE authority # "other"
    <3>1. rows' = rows /\ authority' = authority
      BY <1>1, <1>3, <2>1, <2>2 DEF CheckAuthority
    <3>2. PumpType' /\ pump'.moments = pump.moments
      BY <1>1, <2>1 DEF PumpType
    <3>3. AckedWasTaken'
      BY <1>1, <2>1, <3>1 DEF AckedWasTaken, times
    <3> QED
      BY <1>1, <2>1, <3>1, <3>2, <3>3, PumpFrame
  <2>3. CASE authority = "other"
    <3>5. acks = {}
      BY <1>3, <2>3 DEF CheckAuthority
    <3>1. rows' = [n \in Ids |-> IF rows[n].st = "pending" \/ (rows[n].st = "acked" /\ n \notin old)
                                 THEN [rows[n] EXCEPT !.st = "pending", !.due = TRUE] ELSE rows[n]]
      BY <1>3, <2>3 DEF CheckAuthority
    <3>2. /\ rows' \in [Ids -> Rows]
          /\ \A n \in Ids : /\ rows'[n].st = "none" <=> rows[n].st = "none"
                            /\ rows'[n].tried = rows[n].tried
                            /\ rows'[n].st = "acked" => n \in old
      BY <1>1, <3>1 DEF Rows
    <3>3. PumpType' /\ pump'.moments = pump.moments
      BY <1>1, <2>1 DEF PumpType
    <3>4. AckedWasTaken'
      BY <2>1, <3>2 DEF AckedWasTaken, times
    <3> QED
      BY <1>1, <2>1, <3>5, <3>2, <3>3, <3>4, PumpFrame
  <2> QED
    BY <2>2, <2>3
<1>4. CASE ReadStore
  BY <1>4, ReadStoreCore
<1>5. CASE Step("own")
  BY <1>5, StepCore DEF Lanes
<1>6. CASE Due
  <2>0. PICK S \in Sends :
          /\ rows' = [n \in Ids |-> IF n \in S THEN [rows[n] EXCEPT !.due = FALSE, !.tried = TRUE]
                                    ELSE IF n \in Pending /\ Unwanted(n) THEN [rows[n] EXCEPT !.st = "dropped"] ELSE rows[n]]
          /\ pump' = [pc |-> IF S = {} THEN "idle" ELSE "push", moments |-> S]
    BY <1>6 DEF Due
  <2>1. /\ UNCHANGED <<board, prefs, cp, op, catch, acks, taken, times, authority>>
        /\ pump' = [pc |-> IF S = {} THEN "idle" ELSE "push", moments |-> S]
        /\ rows' = [n \in Ids |-> IF n \in S THEN [rows[n] EXCEPT !.due = FALSE, !.tried = TRUE]
                                  ELSE IF n \in Pending /\ Unwanted(n) THEN [rows[n] EXCEPT !.st = "dropped"] ELSE rows[n]]
    BY <1>6, <2>0 DEF Due, Pumping
  <2>2. S \subseteq Ids /\ \A n \in S : n \in Ids /\ rows[n].st = "pending"
    BY <2>0 DEF Sends, Ready, Pending
  <2>3. /\ rows' \in [Ids -> Rows]
        /\ \A n \in Ids : /\ rows'[n].st = "none" <=> rows[n].st = "none"
                          /\ rows'[n].st = "acked" => rows[n].st = "acked"
                          /\ n \in S => rows'[n].tried
    BY <1>1, <2>1, <2>2 DEF Rows, Pending
  <2>4. PumpType' /\ pump'.moments = S
    BY <2>1, <2>2 DEF PumpType
  <2>5. AckedWasTaken'
    BY <1>1, <2>1, <2>3 DEF AckedWasTaken, times
  <2> QED
    BY <1>1, <2>1, <2>2, <2>3, <2>4, <2>5, PumpFrame
<1>7. CASE Push \/ PushFails
  <2>1. UNCHANGED <<board, prefs, cp, op, catch, acks, taken, times, authority, rows>>
    BY <1>7 DEF Push, PushFails, Pumping
  <2>2. PumpType' /\ pump'.moments \subseteq pump.moments
    BY <1>1, <1>7 DEF Push, PushFails, PumpType
  <2>3. AckedWasTaken'
    BY <1>1, <2>1 DEF AckedWasTaken, times
  <2> QED
    BY <1>1, <2>1, <2>2, <2>3, PumpFrame
<1>8. CASE Release
  <2>1. /\ UNCHANGED <<board, prefs, cp, op, catch, acks, taken, times, authority>>
        /\ pump' = [pc |-> "idle", moments |-> {}]
        /\ rows' = [n \in Ids |-> IF n \in Pending \cap pump.moments THEN [rows[n] EXCEPT !.due = TRUE] ELSE rows[n]]
    BY <1>8 DEF Release, Pumping
  <2>2. /\ rows' \in [Ids -> Rows]
        /\ \A n \in Ids : rows'[n].st = rows[n].st
    BY <1>1, <2>1 DEF Rows
  <2>3. PumpType' /\ pump'.moments = {}
    BY <2>1 DEF PumpType
  <2>4. AckedWasTaken'
    BY <1>1, <2>1, <2>2 DEF AckedWasTaken, times
  <2> QED
    BY <1>1, <2>1, <2>2, <2>3, <2>4, PumpFrame
<1> QED
  BY <1>2, <1>3, <1>4, <1>5, <1>6, <1>7, <1>8 DEF Pump

\* The phone's and the clock's steps leave what the pump and the tail have.
LEMMA StandingFrame ==
  ASSUME CoreInv, Standing, PhoneType', AckedWasTaken', rows' \in [Ids -> Rows],
         \A n \in Ids : /\ rows'[n].st = "none" <=> rows[n].st = "none"
                        /\ rows[n].tried => rows'[n].tried
  PROVE  CoreInv'
<1>1. BoardType' /\ CatchInv' /\ StoreType'
  BY BoardFrame, CatchFrame DEF StoreType, CoreInv, Known, board, Standing, steps
<1>2. PrefsType' /\ OpType' /\ PumpType'
  BY DEF CoreInv, PrefsType, OpType, PumpType, prefs, board, Standing, steps
<1>3. RowsInv'
  BY DEF CoreInv, RowsInv, PumpType, board, Standing, steps
<1> QED
  BY <1>1, <1>2, <1>3 DEF CoreInv

LEMMA PhoneCore == ASSUME CoreInv, Phone \/ PhoneLeaves PROVE CoreInv'
<1>1. rows \in [Ids -> Rows] /\ AckedWasTaken /\ PhoneType /\ \A n \in Ids : rows[n] \in Rows
  BY DEF CoreInv, StoreType, RowsInv
<1>2. CASE PhoneReturns \/ PhoneLeaves
  <2>1. UNCHANGED <<rows, acks, taken, old, authority>> /\ Standing
    BY <1>2 DEF PhoneReturns, PhoneLeaves, Standing
  <2>2. PhoneType' /\ AckedWasTaken'
    BY <1>1, <2>1 DEF PhoneType, AckedWasTaken
  <2> QED
    BY <1>1, <2>1, <2>2, StandingFrame
<1>3. ASSUME NEW n \in Ids, PhoneTakes(n) PROVE CoreInv'
  <2>1. UNCHANGED <<rows, old, authority>> /\ Standing /\ taken' = taken \cup {n} /\ acks' = acks \cup {n}
    BY <1>3 DEF PhoneTakes, Standing
  <2>2. PhoneType' /\ AckedWasTaken'
    BY <1>1, <2>1 DEF PhoneType, AckedWasTaken
  <2> QED
    BY <1>1, <2>1, <2>2, StandingFrame
<1>4. ASSUME NEW n \in Ids, Ack(n) PROVE CoreInv'
  <2>1. UNCHANGED <<taken, old, authority>> /\ Standing /\ acks' = acks \ {n} /\ n \in acks
    BY <1>4 DEF Ack, Standing
  <2>2. /\ rows' \in [Ids -> Rows]
        /\ \A m \in Ids : /\ rows'[m].st = "none" <=> rows[m].st = "none"
                          /\ rows'[m].tried = rows[m].tried
                          /\ rows'[m].st = "acked" => m = n \/ rows[m].st = "acked"
    <3> DEFINE row == CASE rows[n].st = "pending" -> [rows[n] EXCEPT !.st = "acked", !.seen = "fresh"]
                        [] rows[n].st = "coalesced" /\ rows[n].seen = "no" -> [rows[n] EXCEPT !.seen = "fresh"]
                        [] OTHER -> rows[n]
    <3>1. rows' = [rows EXCEPT ![n] = row]
      BY <1>4 DEF Ack
    <3>2. row \in Rows /\ (row.st = "none" <=> rows[n].st = "none") /\ row.tried = rows[n].tried
      BY <1>1 DEF Rows
    <3> HIDE DEF row
    <3> QED
      BY <1>1, <3>1, <3>2
  <2>3. PhoneType' /\ AckedWasTaken'
    BY <1>1, <2>1, <2>2 DEF PhoneType, AckedWasTaken
  <2> QED
    BY <1>1, <2>1, <2>2, <2>3, StandingFrame
<1> QED
  BY <1>2, <1>3, <1>4 DEF Phone

LEMMA ClockCore == ASSUME CoreInv, Clock \/ QuietBegins PROVE CoreInv'
<1>1. rows \in [Ids -> Rows] /\ AckedWasTaken /\ PhoneType /\ \A n \in Ids : rows[n] \in Rows
  BY DEF CoreInv, StoreType, RowsInv
<1>2. CASE QuietEnds \/ QuietBegins
  <2>1. UNCHANGED <<rows, acks, taken, old, authority>> /\ Standing
    BY <1>2 DEF QuietEnds, QuietBegins, Standing, phone
  <2>2. PhoneType' /\ AckedWasTaken'
    BY <1>1, <2>1 DEF PhoneType, AckedWasTaken
  <2> QED
    BY <1>1, <2>1, <2>2, StandingFrame
<1>3. ASSUME NEW n \in Ids, ResendDue(n) \/ WindowPasses(n) PROVE CoreInv'
  <2>1. UNCHANGED <<acks, taken, old, authority>> /\ Standing
    BY <1>3 DEF ResendDue, WindowPasses, Standing, phone
  <2>2. \/ rows' = [rows EXCEPT ![n].due = TRUE]
        \/ rows' = [rows EXCEPT ![n].seen = "past"]
    BY <1>3 DEF ResendDue, WindowPasses
  <2>3. /\ rows' \in [Ids -> Rows]
        /\ \A m \in Ids : rows'[m].st = rows[m].st /\ rows'[m].tried = rows[m].tried
    <3>1. ASSUME NEW row \in Rows, row.st = rows[n].st, row.tried = rows[n].tried, rows' = [rows EXCEPT ![n] = row]
          PROVE  /\ rows' \in [Ids -> Rows]
                 /\ \A m \in Ids : rows'[m].st = rows[m].st /\ rows'[m].tried = rows[m].tried
      BY <1>1, <3>1
    <3>2. CASE rows' = [rows EXCEPT ![n].due = TRUE]
      <4> DEFINE row == [rows[n] EXCEPT !.due = TRUE]
      <4>1. row \in Rows /\ row.st = rows[n].st /\ row.tried = rows[n].tried
        BY <1>1 DEF Rows
      <4>2. rows' = [rows EXCEPT ![n] = row]
        BY <3>2
      <4> HIDE DEF row
      <4> QED
        BY <3>1, <4>1, <4>2
    <3>3. CASE rows' = [rows EXCEPT ![n].seen = "past"]
      <4> DEFINE row == [rows[n] EXCEPT !.seen = "past"]
      <4>1. row \in Rows /\ row.st = rows[n].st /\ row.tried = rows[n].tried
        BY <1>1 DEF Rows
      <4>2. rows' = [rows EXCEPT ![n] = row]
        BY <3>3
      <4> HIDE DEF row
      <4> QED
        BY <3>1, <4>1, <4>2
    <3> QED
      BY <2>2, <3>2, <3>3
  <2>4. PhoneType' /\ AckedWasTaken'
    BY <1>1, <2>1, <2>3 DEF PhoneType, AckedWasTaken
  <2> QED
    BY <1>1, <2>1, <2>3, <2>4, StandingFrame
<1> QED
  BY <1>2, <1>3 DEF Clock

LEMMA NewLinkCore ==
  ASSUME CoreInv, NEW pairing \in {"same", "new"}, NewLink(pairing), acks' \subseteq acks, OpType', CatchInv'
  PROVE  CoreInv'
<1>1. /\ UNCHANGED <<board, prefs, cp, rows, times>> /\ acks' \subseteq acks /\ pump' = [pc |-> "reload", moments |-> {}]
      /\ authority' = IF pairing = "new" THEN "other" ELSE authority
      /\ taken' = IF pairing = "new" THEN {} ELSE taken
  BY DEF NewLink
<1>2. BoardType' /\ StoreType' /\ PrefsType'
  BY <1>1, BoardFrame DEF StoreType, CoreInv, Known, board, PrefsType, prefs
<1>3. PumpType' /\ PhoneType'
  BY <1>1 DEF PumpType, PhoneType, CoreInv
<1>4. AckedWasTaken'
  BY <1>1 DEF AckedWasTaken, CoreInv, RowsInv, times
<1>5. RowsInv'
  BY <1>1, <1>4 DEF CoreInv, RowsInv, board
<1> QED
  BY <1>2, <1>3, <1>5 DEF CoreInv

LEMMA FaultCore == ASSUME CoreInv, Fault PROVE CoreInv'
<1>1. CASE Crashes
  <2>1. NewLink("same") /\ acks' \subseteq acks /\ catch' = [l \in Lanes |-> Idle] /\ op' = NoOp
    BY <1>1 DEF Crashes
  <2>2. Lane(Idle)'
    BY IdleLane, <2>1 DEF Lane, Steps, Idle
  <2>3. CatchInv' /\ OpType'
    BY <2>1, <2>2 DEF CatchInv, OpType, NoOp
  <2> QED
    BY <2>1, <2>3, NewLinkCore
<1>2. ASSUME NEW p \in {"same", "new"}, Reconnects(p) PROVE CoreInv'
  <2>1. /\ NewLink(p) /\ acks' \subseteq acks /\ op' = op /\ UNCHANGED <<board, watch>>
        /\ catch' = [own |-> Idle, stray |-> IF catch["own"] = Idle THEN catch["stray"] ELSE catch["own"]]
    BY <1>2 DEF Reconnects, NewLink, prefs
  <2>2. \A c : Lane(c)' <=> Lane(c)
    BY <2>1 DEF board, Lane, Reads, FindsReset, FindsRows, Known, Continuous
  <2>3. /\ DOMAIN catch' = Lanes /\ catch' = [l \in Lanes |-> catch'[l]]
        /\ \A l \in Lanes : catch'[l] = Idle \/ \E k \in Lanes : catch'[l] = catch[k]
    BY <2>1 DEF Lanes
  <2>4. CatchInv'
    BY <2>2, <2>3, IdleLane DEF CatchInv, CoreInv
  <2>5. OpType'
    BY <2>1 DEF OpType, CoreInv
  <2> QED
    BY <2>1, <2>4, <2>5, NewLinkCore
<1>3. ASSUME NEW n \in Ids, Ages(n) PROVE CoreInv'
  <2>1. UNCHANGED <<board, prefs, store, steps, phone, cp, rows, authority, catch, op, pump, acks, taken>> /\ old \subseteq old'
    BY <1>3 DEF Ages, store, steps, phone
  <2>2. Fade /\ Settles /\ PrefsType' /\ OpType' /\ PumpType' /\ Known(cp')
    BY <2>1, SameRows DEF Settles, CoreInv, PrefsType, prefs, board, OpType, PumpType, StoreType
  <2>3. GoesOn
    BY <2>1 DEF GoesOn, CoreInv, StoreType, Known, Checkpoints
  <2> QED
    BY <2>1, <2>2, <2>3, QuietStep
<1> QED
  BY <1>1, <1>2, <1>3, PumpCore, PhoneCore, ClockCore DEF Fault

LEMMA NextCore == ASSUME CoreInv, [Next]_vars PROVE CoreInv'
<1>1. CASE UNCHANGED vars
  <2>1. UNCHANGED <<board, prefs, cp, rows, authority, catch, op, pump, acks, taken, old, phone>>
    BY <1>1 DEF vars, core, store, steps, phone, times
  <2>2. Fade /\ Settles /\ PrefsType' /\ OpType' /\ PumpType' /\ Known(cp')
    BY <2>1, SameRows DEF Settles, CoreInv, PrefsType, prefs, board, OpType, PumpType, StoreType
  <2>3. GoesOn
    BY <2>1 DEF GoesOn, CoreInv, StoreType, Known, Checkpoints
  <2> QED
    BY <2>1, <2>2, <2>3, QuietStep
<1>2. CASE Next
  BY <1>2, HermesCore, WearerCore, PumpCore, StepCore, PhoneCore, ClockCore, FaultCore DEF Next, Lanes
<1> QED
  BY <1>1, <1>2

LEMMA InitCore == Init => CoreInv
<1> SUFFICES ASSUME Init PROVE CoreInv
  OBVIOUS
<1>1. BoardType /\ Len(log) = 0
  BY BoardAssumption DEF Init, BoardType
<1>2. PrefsType
  BY <1>1 DEF Init, PrefsType, Rules, RuleModes, Policies, Unset
<1>3. Known(cp)
  <2>1. Known(CheckpointAt(0))
    BY <1>1, Checkpointing
  <2>2. Known(NoCp)
    BY <1>1 DEF Known, NoCp, Checkpoints, BoardType
  <2> QED
    BY <2>1, <2>2 DEF Init
<1>4. rows = [n \in Ids |-> NoRow] /\ NoRow \in Rows /\ NoRow.st = "none" /\ authority = "current"
  BY DEF Init, NoRow, Rows
<1>5. OpType /\ PumpType /\ PhoneType
  BY DEF Init, OpType, NoOp, PumpType, PhoneType
<1>6. CatchInv
  BY IdleLane DEF Init, CatchInv
<1>7. RowsInv
  BY <1>4 DEF Init, RowsInv, AckedWasTaken
<1> QED
  BY <1>1, <1>2, <1>3, <1>4, <1>5, <1>6, <1>7 DEF CoreInv, StoreType
LEMMA CoreAlways == Spec => []CoreInv
<1>1. Init => CoreInv
  BY InitCore
<1>2. CoreInv /\ [Next]_vars => CoreInv'
  BY NextCore
<1> QED
  BY <1>1, <1>2, PTL DEF Spec

\* What the store keeps: every delivery is of an event that happened and that somebody
\* may have watched, the cursor stays on the board that is there and has passed each of
\* its events that has a delivery, a push carries only what is marked as sent, and what
\* is settled was taken by the phone of the pairing the store serves: over every order
\* of the steps of two catch-ups, the pump, the wearer, the link, the phone, a crash and
\* a board that is pruned, removed and made again (board_moments.py).
THEOREM StoreCorrect == Spec => []StoreInv
<1>1. ASSUME CoreInv PROVE StoreInv
  <2>0. CoreInv
    BY <1>1
  <2> USE DEF CoreInv
  <2>1. Len(log) \in Nat /\ life \in Nat
    BY <2>0 DEF BoardType
  <2>2. since \in [Cards -> -1 .. Len(log)]
    BY <2>0 DEF PrefsType
  <2>3. rule \in [mode : RuleModes, since : 0 .. Len(log)]
    BY <2>0, <2>1 DEF PrefsType, Rules
  <2>4. cp \in CheckpointType /\ cp.cursor \in 0 .. Len(log) /\ cp.anchor <= cp.cursor
    BY <2>0, <2>1 DEF StoreType, Known, Checkpoints, CheckpointType
  <2> QED
    BY <2>0, <2>2, <2>3, <2>4 DEF BoardType, PrefsType, RowsInv, StoreInv
<1> QED
  BY <1>1, CoreAlways, PTL

-----------------------------------------------------------------------------
(* An owed event is not passed over. *)

LEMMA WantedNow ==
  ASSUME CoreInv, NEW n \in Ids, NEW by \in {"watch", "rule"}, Wanted(n, by)
  PROVE  /\ n > first /\ n \in 1 .. Len(log) /\ there /\ n \notin old /\ policy # "off"
         /\ rows[n].st = "none" => cp # NoCp /\ Continuous(cp)
         /\ by = "watch" => /\ CardOf(n) \in watch /\ log[n].class # "none"
                            /\ log[n].class = "done" => policy = "done"
         /\ by = "rule" => /\ CardOf(n) \in Ruled /\ Allows(rule.mode, log[n].class)
                           /\ rule.mode # "off" /\ log[n].class # "done" /\ log[n].class # "none"
<1>1. first \in Nat /\ Len(log) \in Nat /\ n \in first + 1 .. Len(log)
  BY DEF CoreInv, BoardType, Wanted
<1>2. n > first /\ n \in 1 .. Len(log)
  BY <1>1
<1> QED
  BY <1>2 DEF Wanted, Allows

LEMMA WantedThen ==
  ASSUME NEW n \in Ids, NEW by \in {"watch", "rule"}, Wanted(n, by)'
  PROVE  /\ there' /\ n \notin old' /\ policy' # "off" /\ n \in first' + 1 .. Len(log')
         /\ rows'[n].st = "none" => cp' # NoCp /\ Continuous(cp)'
         /\ by = "watch" => /\ log'[n].card \in watch'
                            /\ log'[n].class = "done" => policy' = "done"
         /\ by = "rule" => /\ Allows(rule'.mode, log'[n].class)
                           /\ rule'.mode # "off" /\ log'[n].class # "done"
BY DEF Wanted, Allows, CardOf

\* What most steps do to a delivery: it comes from nowhere and is not given up.
Marks(n) == /\ rows'[n].st = "none" <=> rows[n].st = "none"
            /\ rows'[n].rule = rows[n].rule
            /\ rows'[n].st = "dropped" => rows[n].st = "dropped"

LEMMA AssuredFrame ==
  ASSUME CoreInv, CoreInv', NEW n \in Ids, NEW by \in {"watch", "rule"}, Assured(n, by),
         Marks(n), catch' = catch, log'[n] = log[n],
         rows[n].st = "none" => /\ cp' = cp
                                /\ by = "watch" => n > since'[CardOf(n)]
                                /\ by = "rule" => n > rule'.since
  PROVE  Assured(n, by)'
<1>1. CASE rows[n].st = "none"
  <2>1. Ahead(n, by)
    BY <1>1 DEF Assured
  <2>2. \A c : Asks(c, n, by) => Asks(c, n, by)'
    BY DEF Asks, CardOf
  <2>3. Ahead(n, by)'
    BY <1>1, <2>1, <2>2 DEF Ahead, CardOf
  <2> QED
    BY <1>1, <2>3 DEF Assured, Marks
<1>2. CASE rows[n].st # "none"
  <2>1. rows[n].st \in {"pending", "acked", "coalesced"} /\ (by = "rule" => rows[n].rule)
    BY <1>2 DEF Assured, Stored
  <2>2. rows'[n] \in Rows
    BY DEF CoreInv, StoreType
  <2> QED
    BY <1>2, <2>1, <2>2 DEF Marks, Assured, Stored, Rows
<1> QED
  BY <1>1, <1>2

LEMMA HermesAssures ==
  ASSUME CoreInv, CoreInv', Hermes, NEW n \in Ids, NEW by \in {"watch", "rule"},
         Wanted(n, by), Assured(n, by)
  PROVE  Assured(n, by)'
<1>1. /\ log'[n] = log[n] /\ UNCHANGED <<prefs, store, steps>>
  BY WantedNow, HermesFrame
<1>2. Marks(n) /\ catch' = catch /\ cp' = cp /\ since' = since /\ rule' = rule
  BY <1>1 DEF Marks, store, steps, prefs
<1>3. rows[n].st = "none" => /\ by = "watch" => n > since[CardOf(n)]
                             /\ by = "rule" => n > rule.since
  BY DEF Assured, Ahead
<1> QED
  BY <1>1, <1>2, <1>3, AssuredFrame

LEMMA WearerAssures ==
  ASSUME CoreInv, CoreInv', Wearer, NEW n \in Ids, NEW by \in {"watch", "rule"},
         Wanted(n, by), Wanted(n, by)', Assured(n, by)
  PROVE  Assured(n, by)'
<1>1. /\ rows[n].st = "none" => /\ by = "watch" => n > since[CardOf(n)]
                                /\ by = "rule" => n > rule.since
                                /\ cp # NoCp
      /\ rows[n].st # "none" /\ by = "rule" => rows[n].rule
      /\ CardOf(n) \in Cards /\ n > -1 /\ since \in [Cards -> Int]
      /\ by = "watch" => CardOf(n) \in watch
      /\ by = "rule" => rule.mode # "off" /\ Allows(rule.mode, log[n].class)
  <2>1. n \in 1 .. Len(log) /\ log \in Seq([card : Cards, class : Classes]) /\ since \in [Cards -> Int]
    BY WantedNow DEF CoreInv, BoardType, PrefsType
  <2>2. CardOf(n) \in Cards /\ n > -1
    <3>1. n \in Nat /\ CardOf(n) \in Cards
      BY <2>1, EventAt DEF CoreInv
    <3> QED
      BY <3>1
  <2> QED
    BY <2>1, <2>2, WantedNow DEF Assured, Ahead, Stored
<1>2. ASSUME catch' = catch, log' = log, Marks(n), rows[n].st = "none" => cp' = cp,
             since' = since \/ (by = "watch" => n > since'[CardOf(n)]),
             rule' = rule \/ (by = "rule" => rule'.since = rule.since)
      PROVE  Assured(n, by)'
  BY <1>1, <1>2, AssuredFrame
<1>3. ASSUME NEW c \in Cards, WatchNotes(c) PROVE Assured(n, by)'
  <2>1. UNCHANGED <<catch, log, rule, rows>> /\ c \notin watch
    BY <1>3 DEF WatchNotes, Quietly, board
  <2>2. rows[n].st = "none" => cp' = cp
    BY <1>1, <1>3 DEF WatchNotes, TakeCheckpoint
  <2>3. since'[CardOf(n)] = IF CardOf(n) = c /\ since[c] = Unset THEN Len(log) ELSE since[CardOf(n)]
    BY <1>1, <1>3 DEF WatchNotes
  <2>4. rows[n].st = "none" => (by = "watch" => n > since'[CardOf(n)])
    BY <1>1, <2>1, <2>3
  <2> QED
    BY <1>1, <2>1, <2>2, <2>4, AssuredFrame DEF Marks
<1>4. CASE \/ WatchSets \/ OpFails
           \/ \E c \in Cards : UnwatchSets(c)
  <2>1. UNCHANGED <<catch, log, rule, rows, since, cp>>
    BY <1>4 DEF WatchSets, OpFails, UnwatchSets, Quietly, board, prefs
  <2> QED
    BY <1>2, <2>1 DEF Marks
<1>5. CASE UnwatchNotes
  <2>1. UNCHANGED <<catch, log, rule, watch, cp>> /\ op.kind = "off"
        /\ since' = [since EXCEPT ![op.card] = Unset]
        /\ rows' = Cancel({m \in Pending : CardOf(m) = op.card /\ ~RuleOn(m, rule.mode)})
    BY <1>5 DEF UnwatchNotes, Quietly, board
  <2>2. since'[CardOf(n)] = since[CardOf(n)] \/ since'[CardOf(n)] = -1
    BY <1>1, <2>1 DEF Unset
  <2>3. Marks(n)
    <3>1. ~(CardOf(n) = op.card /\ ~RuleOn(n, rule.mode) /\ rows[n].st # "none")
      BY <1>1, <2>1 DEF RuleOn, CoreInv, OpType
    <3>2. rows[n].st = "pending" => n \notin {m \in Pending : CardOf(m) = op.card /\ ~RuleOn(m, rule.mode)}
      BY <3>1
    <3> QED
      BY <2>1, <3>2, Cancelling DEF Marks
  <2> QED
    BY <1>1, <2>1, <2>2, <2>3, AssuredFrame
<1>6. ASSUME NEW m \in RuleModes, rule'.mode = m, rows' = RuleCancels(m), log' = log, watch' = watch PROVE Marks(n)
  <2>1. ~(rows[n].rule /\ CardOf(n) \notin watch /\ ~Allows(m, log[n].class) /\ rows[n].st # "none")
    BY <1>1, <1>6, WantedThen
  <2>2. rows[n].st = "pending" =>
          n \notin {i \in Pending : rows[i].rule /\ CardOf(i) \notin watch /\ ~Allows(m, log[i].class)}
    BY <2>1
  <2> QED
    BY <1>6, <2>2, Cancelling DEF RuleCancels, Marks
<1>7. ASSUME NEW m \in RuleModes, RuleSets(m) PROVE Assured(n, by)'
  <2>1. UNCHANGED <<catch, log, since, watch>> /\ rows' = RuleCancels(m)
        /\ rule' = [mode |-> m, since |-> IF rule.mode = "off" THEN Len(log) ELSE rule.since]
    BY <1>7 DEF RuleSets, Quietly, board
  <2>2. rows[n].st = "none" => cp' = cp
    BY <1>1, <1>7 DEF RuleSets, TakeCheckpoint
  <2>3. Marks(n) /\ (by = "rule" => rule'.since = rule.since)
    BY <1>1, <1>6, <2>1
  <2> QED
    BY <1>2, <2>1, <2>2, <2>3
<1>8. CASE RuleOff
  <2>1. UNCHANGED <<catch, log, since, watch, cp>> /\ rows' = RuleCancels("off") /\ rule'.mode = "off"
    BY <1>8 DEF RuleOff, Quietly, board
  <2>2. Marks(n) /\ by # "rule"
    BY <1>6, <2>1, WantedThen DEF RuleModes
  <2> QED
    BY <1>2, <2>1, <2>2
<1>9. ASSUME NEW p \in {"on", "off"} \cup ({"done"} \cap Classes), SetPolicy(p) PROVE Assured(n, by)'
  <2>1. UNCHANGED <<catch, log, since, watch, rule, cp>> /\ policy' = p
        /\ rows' = Cancel({m \in Pending : p = "off" \/ (p = "on" /\ log[m].class = "done")})
    BY <1>9 DEF SetPolicy, Quietly, board
  <2>2. p # "off" /\ ~(p = "on" /\ log[n].class = "done")
    BY <2>1, WantedThen
  <2>3. Marks(n)
    BY <2>1, <2>2, Cancelling DEF Marks
  <2> QED
    BY <1>2, <2>1, <2>3
<1> QED
  BY <1>3, <1>4, <1>5, <1>7, <1>8, <1>9 DEF Wearer

LEMMA ReadStoreAssures ==
  ASSUME CoreInv, CoreInv', ReadStore, NEW n \in Ids, NEW by \in {"watch", "rule"},
         Wanted(n, by), Assured(n, by)
  PROVE  Assured(n, by)'
<1>1. UNCHANGED <<log, prefs, store, watch, since, rule, policy, cp, rows>>
  BY DEF ReadStore, Reading, board, prefs, store
<1>2. CASE rows[n].st # "none"
  BY <1>1, <1>2 DEF Assured, Stored
<1>3. CASE rows[n].st = "none"
  <2> DEFINE c == [Idle EXCEPT !.pc = "board", !.watched = watch, !.rule = rule, !.cp = cp, !.since = since,
                               !.policy = policy, !.room = MaxPending - Cardinality(Pending)]
  <2>1. Ahead(n, by)
    BY <1>3 DEF Assured
  <2>2. /\ c.pc = "board" /\ c.watched = watch /\ c.rule = rule /\ c.since = since /\ c.policy = policy
        /\ Idle.pc = "idle"
    BY DEF Idle
  <2>3. \A l \in Lanes : catch'[l] = catch[l] \/ catch'[l] = Idle \/ catch'[l] = c
    BY DEF ReadStore, Over, Goes, CoreInv, CatchInv
  <2> HIDE DEF c
  <2>4. Asks(c, n, by)
    BY <2>1, <2>2, WantedNow DEF Asks, Ahead
  <2>5. \A d : Asks(d, n, by)' <=> Asks(d, n, by)
    BY <1>1 DEF Asks, CardOf
  <2>6. Ahead(n, by)'
    <3>1. n > cp'.cursor /\ (by = "watch" => n > since'[CardOf(n)']) /\ (by = "rule" => n > rule'.since)
      BY <1>1, <2>1 DEF Ahead, CardOf
    <3>2. \A l \in Lanes : catch'[l].pc = "board" => Asks(catch[l], n, by)'
      <4>1. ASSUME NEW l \in Lanes, catch'[l].pc = "board" PROVE Asks(catch[l], n, by)'
        <5>1. CASE catch'[l] = catch[l]
          <6>1. Asks(catch[l], n, by)
            BY <2>1, <4>1, <5>1 DEF Ahead
          <6> QED
            BY <1>1, <5>1, <6>1 DEF Asks, CardOf
        <5>2. CASE catch'[l] = c
          BY <1>1, <2>4, <5>2 DEF Asks, CardOf
        <5> QED
          BY <2>2, <2>3, <4>1, <5>1, <5>2
      <4> QED
        BY <4>1
    <3>3. \A l \in Lanes : catch'[l].pc = "commit" => catch'[l] = catch[l]
      BY <2>2, <2>3
    <3>4. CardOf(n)' = CardOf(n)
      BY <1>1 DEF CardOf
    <3> QED
      BY <2>1, <3>1, <3>2, <3>3, <3>4 DEF Ahead
  <2> QED
    BY <1>1, <1>3, <2>6 DEF Assured
<1> QED
  BY <1>2, <1>3

\* What a step has to find of what it will pass.
LEMMA FindsOwed ==
  ASSUME CoreInv, NEW l \in Lanes, catch[l].pc = "board", Continuous(catch[l].cp),
         NEW n \in Ids, NEW by \in {"watch", "rule"}, Wanted(n, by), Asks(catch[l], n, by),
         n > catch[l].cp.cursor, n <= Last(Batch(catch[l]), catch[l].cp.cursor)
  PROVE  n \in Found(catch[l]) /\ (by = "rule" => ByRule(catch[l], n))
<1> DEFINE c == catch[l]
           end == Last(Batch(c), c.cp.cursor)
<1>1. c \in Steps /\ Reads(c) /\ c.cp.cursor \in Nat /\ c.room \in Int /\ first \in Nat /\ Len(log) \in Nat
  BY DEF CoreInv, CatchInv, Lane, Reads, Known, Checkpoints, Steps, BoardType
<1>0. n \in Nat
  BY <1>1, WantedNow
<1>2. n \in Unread(c)
  <2>1. n \in c.cp.cursor + 1 .. Len(log) /\ n \in first + 1 .. Len(log)
    BY <1>1, WantedNow
  <2>2. n \notin removed
    BY <2>1 DEF Continuous
  <2> QED
    BY <2>1, <2>2 DEF Unread, Present
<1>3. end \in Batch(c) /\ n <= end
  <2>1. Batch(c) # {}
    BY <1>0, <1>1 DEF Last
  <2>2. Batch(c) \in SUBSET (0 .. Len(log))
    BY <1>1 DEF Batch, Unread, Present
  <2>3. \E x \in Batch(c) : \A y \in Batch(c) : y <= x
    BY <1>1, <2>1, <2>2, GreatestOf
  <2> QED
    BY <2>1, <2>3 DEF Last
<1>4. n \in Batch(c)
  <2> DEFINE A == {m \in Unread(c) : m <= n}
             B == {m \in Unread(c) : m <= end}
  <2>1. IsFiniteSet(B)
    <3>0. 0 \in Int /\ Len(log) \in Int
      BY <1>1
    <3>1. IsFiniteSet(0 .. Len(log))
      BY <3>0, FS_Interval
    <3>2. \A m \in Unread(c) : m \in 0 .. Len(log)
      BY <1>1 DEF Unread, Present
    <3> QED
      BY <3>1, <3>2, FS_Subset
  <2>2. A \subseteq B
    <3>1. \A m \in Unread(c) : m \in Int
      BY <1>1 DEF Unread, Present
    <3>2. end \in Int /\ n \in Int
      BY <1>0, <1>1, <1>3, <3>1 DEF Batch
    <3> HIDE DEF end
    <3> QED
      BY <1>3, <3>1, <3>2
  <2>3. Cardinality(B) <= c.room /\ Cardinality(A) <= Cardinality(B) /\ Cardinality(A) \in Nat /\ Cardinality(B) \in Nat
    BY <1>3, <2>1, <2>2, FS_Subset, FS_CardinalityType DEF Batch
  <2>4. Cardinality(A) <= c.room
    BY <1>1, <2>3
  <2> QED
    BY <1>2, <2>4 DEF Batch
<1>5. n \notin old /\ c.policy # "off" /\ (by = "rule" => ByRule(c, n)) /\ (by = "watch" => ByWatch(c, n))
  BY WantedNow DEF Asks, ByRule, ByWatch, Since
<1> QED
  BY <1>4, <1>5 DEF Found

LEMMA ReadBoardAssures ==
  ASSUME CoreInv, CoreInv', NEW l \in Lanes, ReadBoard(l), NEW n \in Ids, NEW by \in {"watch", "rule"},
         Wanted(n, by), Assured(n, by)
  PROVE  Assured(n, by)'
<1> DEFINE c == catch[l]
<1>1. UNCHANGED <<log, watch, since, rule, policy, cp, rows>> /\ c.pc = "board" /\ c \in Steps
  BY DEF ReadBoard, Reading, board, prefs, store, CoreInv, CatchInv, Lane
<1>2. CASE rows[n].st # "none"
  BY <1>1, <1>2 DEF Assured, Stored
<1>3. CASE rows[n].st = "none"
  <2>1. Ahead(n, by) /\ Asks(c, n, by)
    BY <1>1, <1>3 DEF Assured, Ahead
  <2>2. /\ \A k \in Lanes \ {l} : catch'[k] = catch[k]
        /\ catch'[l].pc # "board"
        /\ catch'[l].pc = "commit" =>
             /\ Continuous(c.cp) /\ catch'[l].cp = c.cp /\ catch'[l].since = c.since
             /\ catch'[l].next = CheckpointAt(Last(Batch(c), c.cp.cursor)) /\ catch'[l].found = Found(c)
             /\ catch'[l].byRule = {m \in Found(c) : ByRule(c, m)}
    <3>1. DOMAIN catch = Lanes /\ Idle.pc = "idle"
      BY DEF CoreInv, CatchInv, Idle
    <3>2. /\ \A k \in Lanes \ {l} : catch'[k] = catch[k]
          /\ \/ catch'[l] = Idle
             \/ catch'[l] = [Idle EXCEPT !.pc = "boundary", !.next = CheckpointAt(Len(log))]
             \/ catch'[l] = [Idle EXCEPT !.pc = "reset", !.cp = c.cp, !.next = IF there THEN CheckpointAt(Len(log)) ELSE NoCp,
                             !.gone = ~there \/ c.cp.life # life]
             \/ /\ Continuous(c.cp)
                /\ catch'[l] = [Idle EXCEPT !.pc = "commit", !.cp = c.cp, !.since = c.since,
                             !.next = CheckpointAt(Last(Batch(c), c.cp.cursor)), !.found = Found(c), !.byRule = {m \in Found(c) : ByRule(c, m)}]
      BY <3>1 DEF ReadBoard, Over, Goes
    <3> QED
      BY <3>1, <3>2 DEF Idle
  <2>3. CheckpointAt(Last(Batch(c), c.cp.cursor)).cursor = Last(Batch(c), c.cp.cursor)
    BY DEF CheckpointAt
  <2>4. CardOf(n)' = CardOf(n) /\ \A d : Asks(d, n, by)' <=> Asks(d, n, by)
    BY <1>1 DEF Asks, CardOf
  <2>5. catch'[l].pc = "commit" /\ n > catch'[l].cp.cursor /\ n <= catch'[l].next.cursor =>
           /\ n \in catch'[l].found
           /\ by = "watch" => n > catch'[l].since[CardOf(n)]
           /\ by = "rule" => n \in catch'[l].byRule
    BY <1>1, <2>1, <2>2, <2>3, FindsOwed DEF Asks
  <2>6. Ahead(n, by)'
    BY <1>1, <2>1, <2>2, <2>4, <2>5 DEF Ahead
  <2> QED
    BY <1>1, <1>3, <2>6 DEF Assured
<1> QED
  BY <1>2, <1>3

\* A step that ends without a delivery.
LEMMA EndsAssures ==
  ASSUME CoreInv, CoreInv', NEW l \in Lanes, Over(l), UNCHANGED <<log, cp, since, rule, rows>>,
         NEW n \in Ids, NEW by \in {"watch", "rule"}, Assured(n, by)
  PROVE  Assured(n, by)'
<1>1. \A k \in Lanes : catch'[k] = catch[k] \/ catch'[k] = Idle
  BY DEF Over, CoreInv, CatchInv
<1>2. CASE rows[n].st # "none"
  BY <1>2 DEF Assured, Stored
<1>3. CASE rows[n].st = "none"
  <2>1. Ahead(n, by)
    BY <1>3 DEF Assured
  <2>2. \A d : Asks(d, n, by) => Asks(d, n, by)'
    BY DEF Asks, CardOf
  <2>3. Idle.pc = "idle" /\ CardOf(n)' = CardOf(n)
    BY DEF Idle, CardOf
  <2>4. Ahead(n, by)'
    BY <1>1, <2>1, <2>2, <2>3 DEF Ahead
  <2> QED
    BY <1>3, <2>4 DEF Assured
<1> QED
  BY <1>2, <1>3

LEMMA ResetsAssures ==
  ASSUME CoreInv, CoreInv', NEW l \in Lanes, Resets(l), NEW n \in Ids, NEW by \in {"watch", "rule"},
         Wanted(n, by), Assured(n, by)
  PROVE  Assured(n, by)'
<1>1. /\ FindsReset(catch[l]) /\ catch[l].cp = cp /\ UNCHANGED <<log>>
      /\ rows' = IF catch[l].gone THEN Cancel(Pending) ELSE rows
  BY DEF Resets, Committing, CoreInv, CatchInv, Lane, FindsReset, board
<1>2. rows[n].st # "none"
  BY <1>1, WantedNow DEF FindsReset
<1>3. there /\ cp.life = life
  BY <1>2, WantedNow DEF CoreInv, RowsInv
<1>4. rows' = rows
  BY <1>1, <1>3 DEF FindsReset
<1> QED
  BY <1>2, <1>4 DEF Assured, Stored

LEMMA CommitsAssures ==
  ASSUME CoreInv, CoreInv', NEW l \in Lanes, Commits(l), NEW n \in Ids, NEW by \in {"watch", "rule"},
         Wanted(n, by), Assured(n, by)
  PROVE  Assured(n, by)'
<1> DEFINE c == catch[l]
<1>1. /\ FindsRows(c) /\ c.cp = cp /\ cp' = c.next /\ c \in Steps /\ c.pc = "commit"
      /\ UNCHANGED <<log, since, rule, watch>>
      /\ rows \in [Ids -> Rows] /\ rows' \in [Ids -> Rows]
      /\ \A k \in Lanes : catch'[k] = catch[k] \/ catch'[k] = Idle
  <2>1. /\ \A k \in Lanes : catch'[k] = catch[k] \/ catch'[k] = Idle
        /\ UNCHANGED <<log, since, rule, watch>> /\ c.pc = "commit"
    BY DEF Commits, Over, Committing, board, CoreInv, CatchInv
  <2>2. FindsRows(c) /\ c.cp = cp /\ cp' = c.next /\ c \in Steps /\ rows' \in [Ids -> Rows]
    BY Storing
  <2> QED
    BY <2>1, <2>2 DEF CoreInv, StoreType
<1>2. n \notin Kept(c) => \/ rows'[n] = rows[n]
                          \/ /\ rows[n].st = "pending" /\ rows'[n].st = "coalesced"
                             /\ rows'[n].rule = rows[n].rule
  BY Storing
<1>3. n \in Kept(c) => /\ rows[n].st = "none" /\ n \in c.found
                       /\ rows'[n].st \in {"pending", "coalesced"} /\ rows'[n].rule = StillRuled(c, n)
  BY Storing
<1>4. CASE rows[n].st # "none"
  BY <1>2, <1>3, <1>4 DEF Assured, Stored
<1>5. CASE rows[n].st = "none" /\ n \in Kept(c)
  <2>1. n > c.cp.cursor /\ n <= c.next.cursor
    BY <1>1, <1>3, <1>5 DEF FindsRows
  <2>2. by = "rule" => StillRuled(c, n)
    BY <1>1, <1>5, <2>1, WantedNow DEF Assured, Ahead, StillRuled
  <2> QED
    BY <1>3, <1>5, <2>2 DEF Assured, Stored
<1>6. CASE rows[n].st = "none" /\ n \notin Kept(c)
  <2>1. Ahead(n, by)
    BY <1>6 DEF Assured
  <2>2. ~(n <= c.next.cursor)
    <3>1. SUFFICES ASSUME n <= c.next.cursor PROVE FALSE
      OBVIOUS
    <3>2. n \in c.found /\ (by = "watch" => n > c.since[CardOf(n)]) /\ (by = "rule" => n \in c.byRule)
      BY <1>1, <2>1, <3>1 DEF Ahead
    <3>3. by = "watch" => StillWatched(c, n)
      BY <3>2, WantedNow DEF StillWatched
    <3>4. by = "rule" => StillRuled(c, n)
      BY <3>2, WantedNow DEF StillRuled
    <3> QED
      BY <1>6, <3>2, <3>3, <3>4 DEF Kept
  <2>3. n > cp'.cursor
    <3>1. n \in Nat /\ c.next.cursor \in Nat
      BY <1>1 DEF Ids, FindsRows, Known, Checkpoints
    <3> QED
      BY <1>1, <2>2, <3>1
  <2>4. \A d : Asks(d, n, by) => Asks(d, n, by)'
    BY <1>1 DEF Asks, CardOf
  <2>5. Idle.pc = "idle" /\ CardOf(n)' = CardOf(n)
    BY <1>1 DEF Idle, CardOf
  <2>6. Ahead(n, by)'
    BY <1>1, <2>1, <2>3, <2>4, <2>5 DEF Ahead
  <2> QED
    BY <1>2, <1>6, <2>6 DEF Assured
<1> QED
  BY <1>4, <1>5, <1>6

LEMMA StepAssures ==
  ASSUME CoreInv, CoreInv', NEW l \in Lanes, Step(l), NEW n \in Ids, NEW by \in {"watch", "rule"},
         Wanted(n, by), Assured(n, by)
  PROVE  Assured(n, by)'
<1>1. CASE Boundary(l)
  <2>1. rows[n].st = "none" => cp' = cp
    BY <1>1, WantedNow DEF Boundary
  <2>2. UNCHANGED <<log, since, rule, rows>> /\ Over(l)
    BY <1>1 DEF Boundary, Committing, board
  <2>3. CASE rows[n].st # "none"
    BY <2>2, <2>3 DEF Assured, Stored
  <2> QED
    BY <2>1, <2>2, <2>3, EndsAssures
<1>2. CASE Overtaken(l)
  BY <1>2, EndsAssures DEF Overtaken, Reading, board, prefs, store
<1> QED
  BY <1>1, <1>2, ReadBoardAssures, ResetsAssures, CommitsAssures DEF Step

\* The other steps of the pump, the phone, the clock and a fault leave the tail alone,
\* and give up only what nobody wants.
LEMMA MarksAssure ==
  ASSUME CoreInv, CoreInv', NEW n \in Ids, NEW by \in {"watch", "rule"}, Assured(n, by),
         Marks(n), UNCHANGED <<catch, log, cp, since, rule>>
  PROVE  Assured(n, by)'
<1>1. rows[n].st = "none" => /\ by = "watch" => n > since[CardOf(n)]
                             /\ by = "rule" => n > rule.since
  BY DEF Assured, Ahead
<1> QED
  BY <1>1, AssuredFrame

LEMMA DueMarks ==
  ASSUME CoreInv, Due, NEW n \in Ids, NEW by \in {"watch", "rule"}, Wanted(n, by), Assured(n, by)
  PROVE  Marks(n)
<1>1. rows[n] \in Rows
  BY DEF CoreInv, StoreType
<1>2. \E S \in Sends :
        rows'[n] = IF n \in S THEN [rows[n] EXCEPT !.due = FALSE, !.tried = TRUE]
                   ELSE IF n \in Pending /\ Unwanted(n) THEN [rows[n] EXCEPT !.st = "dropped"] ELSE rows[n]
  BY DEF Due
<1>3. ~(n \in Pending /\ Unwanted(n))
  BY WantedNow DEF Unwanted, RuleOn, Pending, Assured, Stored
<1> QED
  BY <1>1, <1>2, <1>3 DEF Marks, Rows

\* The steps that leave the tail alone and mark a delivery.
Other == \/ Reload \/ CheckAuthority \/ Push \/ PushFails \/ Release \/ PhoneReturns \/ PhoneLeaves
         \/ QuietBegins \/ QuietEnds
         \/ \E m \in Ids : \/ PhoneTakes(m) \/ Ack(m) \/ ResendDue(m)
                           \/ WindowPasses(m) \/ Ages(m)
LEMMA OtherMarks ==
  ASSUME CoreInv, NEW n \in Ids, Other
  PROVE  Marks(n) /\ UNCHANGED <<catch, log, cp, since, rule>>
<1>1. rows \in [Ids -> Rows] /\ rows[n] \in Rows
  BY DEF CoreInv, StoreType
<1>2. UNCHANGED <<catch, log, cp, since, rule>>
  BY DEF Other, Reload, CheckAuthority, Push, PushFails, Release, Pumping, PhoneReturns, PhoneLeaves, QuietBegins, QuietEnds,
         PhoneTakes, Ack, ResendDue, WindowPasses, Ages, Standing, board, prefs, store, steps
<1>3. CASE UNCHANGED rows
  BY <1>2, <1>3 DEF Marks
<1>4. CASE Reload \/ CheckAuthority \/ Release
  <2>1. \/ rows'[n] = rows[n]
        \/ rows'[n] = [rows[n] EXCEPT !.due = TRUE]
        \/ rows[n].st \in {"pending", "acked"} /\ rows'[n] = [rows[n] EXCEPT !.st = "pending", !.due = TRUE]
    BY <1>4 DEF Reload, CheckAuthority, Release
  <2> QED
    BY <1>1, <1>2, <2>1 DEF Marks, Rows
<1>5. CASE \E m \in Ids : Ack(m)
  <2>1. PICK m \in Ids : Ack(m)
    BY <1>5
  <2>2. \/ rows'[n] = rows[n]
        \/ rows[n].st = "pending" /\ rows'[n] = [rows[n] EXCEPT !.st = "acked", !.seen = "fresh"]
        \/ rows'[n] = [rows[n] EXCEPT !.seen = "fresh"]
    BY <1>1, <2>1 DEF Ack
  <2> QED
    BY <1>1, <1>2, <2>2 DEF Marks, Rows
<1>6. CASE \E m \in Ids : ResendDue(m) \/ WindowPasses(m)
  <2>1. PICK m \in Ids : ResendDue(m) \/ WindowPasses(m)
    BY <1>6
  <2>2. \/ rows'[n] = rows[n]
        \/ rows'[n] = [rows[n] EXCEPT !.due = TRUE]
        \/ rows'[n] = [rows[n] EXCEPT !.seen = "past"]
    BY <1>1, <2>1 DEF ResendDue, WindowPasses
  <2> QED
    BY <1>1, <1>2, <2>2 DEF Marks, Rows
<1> QED
  BY <1>2, <1>3, <1>4, <1>5, <1>6 DEF Other, Push, PushFails, PhoneReturns, PhoneLeaves, QuietBegins, QuietEnds,
                                      PhoneTakes, Ages, store, phone

LEMMA NewLinkAssures ==
  ASSUME CoreInv, CoreInv', Crashes \/ (\E p \in {"same", "new"} : Reconnects(p)),
         NEW n \in Ids, NEW by \in {"watch", "rule"}, Assured(n, by)
  PROVE  Assured(n, by)'
<1>1. UNCHANGED <<log, cp, since, rule, rows>>
  BY DEF Crashes, Reconnects, NewLink, board, prefs
<1>2. \A l \in Lanes : catch'[l] = Idle \/ \E k \in Lanes : catch'[l] = catch[k]
  BY DEF Crashes, Reconnects, Lanes
<1>3. CASE rows[n].st # "none"
  BY <1>1, <1>3 DEF Assured, Stored
<1>4. CASE rows[n].st = "none"
  <2>1. Ahead(n, by)
    BY <1>4 DEF Assured
  <2>2. \A d : Asks(d, n, by) => Asks(d, n, by)'
    BY <1>1 DEF Asks, CardOf
  <2>3. Idle.pc = "idle" /\ CardOf(n)' = CardOf(n)
    BY <1>1 DEF Idle, CardOf
  <2>4. Ahead(n, by)'
    BY <1>1, <1>2, <2>1, <2>2, <2>3 DEF Ahead
  <2> QED
    BY <1>1, <1>4, <2>4 DEF Assured
<1> QED
  BY <1>3, <1>4

\* The kinds of steps.
LEMMA Groups ==
  ASSUME Next
  PROVE  \/ Hermes \/ Wearer \/ ReadStore \/ Due \/ Other \/ Crashes
         \/ \E l \in Lanes : Step(l)
         \/ \E p \in {"same", "new"} : Reconnects(p)
BY DEF Next, Pump, Phone, Clock, Fault, Other, Lanes

LEMMA OnlyHappens == ASSUME Next, log' # log PROVE \E k \in Cards, e \in Classes : Happens(k, e)
<1>1. Hermes \/ UNCHANGED log
  BY Groups DEF Wearer, Step, WatchNotes, UnwatchSets, WatchSets, UnwatchNotes,
         OpFails, RuleSets, RuleOff, SetPolicy, Quietly, ReadBoard, Boundary, Overtaken, Resets, Commits,
         Reading, Committing, Other, Reload, CheckAuthority, ReadStore, Due, Push, PushFails, Release, Pumping,
         PhoneReturns, PhoneTakes, PhoneLeaves, Ack, Standing, QuietEnds, QuietBegins, ResendDue,
         WindowPasses, Ages, Crashes, Reconnects, NewLink, board
<1> QED
  BY <1>1 DEF Hermes, Prunes, BoardGoes, BoardComes

LEMMA StepsAssure ==
  ASSUME CoreInv, CoreInv', Next, NEW n \in Ids, NEW by \in {"watch", "rule"},
         Wanted(n, by), Wanted(n, by)', Assured(n, by)
  PROVE  Assured(n, by)'
<1>1. CASE Hermes
  BY <1>1, HermesAssures
<1>2. CASE Wearer
  BY <1>2, WearerAssures
<1>3. CASE ReadStore \/ \E l \in Lanes : Step(l)
  BY <1>3, ReadStoreAssures, StepAssures
<1>4. CASE Due
  <2>1. UNCHANGED <<catch, log, cp, since, rule>>
    BY <1>4 DEF Due, Pumping, board, prefs
  <2> QED
    BY <1>4, <2>1, DueMarks, MarksAssure
<1>5. CASE Other
  BY <1>5, OtherMarks, MarksAssure
<1>6. CASE Crashes \/ (\E p \in {"same", "new"} : Reconnects(p))
  BY <1>6, NewLinkAssures
<1> QED
  BY <1>1, <1>2, <1>3, <1>4, <1>5, <1>6, Groups

\* An event that somebody asked for before the steps under way read the preferences is
\* ahead of the cursor and of those steps.
LEMMA HappensAssures ==
  ASSUME CoreInv, CoreInv', Next, log' # log, NEW n \in Ids, NEW by \in {"watch", "rule"},
         n = Len(log'), Wanted(n, by)', ~TooLate(n, by)'
  PROVE  Assured(n, by)'
<1>1. PICK k \in Cards, e \in Classes : Happens(k, e)
  BY OnlyHappens
<1>2. /\ Len(log') = Len(log) + 1 /\ Len(log) \in Nat
      /\ UNCHANGED <<prefs, store, steps, since, rule, cp, rows, catch>>
  BY <1>1, LogGrows DEF Happens, Idles, prefs, store, steps, CoreInv, BoardType
<1>3. n > Len(log)
  BY <1>2
<1>4. rows'[n].st = "none"
  BY <1>2, <1>3 DEF CoreInv, RowsInv, Ids
<1>5. CardOf(n)' \in Cards
  <2>1. BoardType' /\ n \in 1 .. Len(log')
    BY <1>2 DEF CoreInv
  <2> QED
    BY <2>1, LogGrows, <1>1, <1>2 DEF CardOf, Happens, CoreInv
<1>6. /\ n > cp'.cursor /\ n > since'[CardOf(n)'] /\ n > rule'.since
  BY <1>2, <1>3, <1>5 DEF CoreInv, StoreType, Known, Checkpoints, PrefsType, Rules, Ids
<1>7. ASSUME NEW l \in Lanes, catch[l].pc = "board"
      PROVE  Asks(catch[l], n, by)'
  <2> DEFINE c == catch[l]
  <2>1. c \in Steps /\ Reads(c)
    BY <1>7 DEF CoreInv, CatchInv, Lane
  <2>2. n > c.since[CardOf(n)'] /\ n > c.rule.since
    BY <1>2, <1>3, <1>5, <2>1 DEF Reads, Steps, Rules, Ids
  <2>3. /\ c.policy # "off" /\ ~(log'[n].class = "done" /\ c.policy # "done")
        /\ by = "watch" => CardOf(n)' \in c.watched
        /\ by = "rule" => Allows(c.rule.mode, log'[n].class)
    BY <1>2, <1>7 DEF TooLate, CardOf
  <2> QED
    BY <1>2, <2>2, <2>3 DEF Asks, CardOf
<1>8. ASSUME NEW l \in Lanes, catch[l].pc = "commit" PROVE ~(n <= catch[l].next.cursor)
  BY <1>2, <1>3, <1>8 DEF CoreInv, CatchInv, Lane, FindsRows, Known, Checkpoints, Ids
<1>9. Ahead(n, by)'
  BY <1>2, <1>6, <1>7, <1>8 DEF Ahead
<1> QED
  BY <1>4, <1>9 DEF Assured

LEMMA OwedNext == ASSUME IInv, [Next]_vars PROVE OwedInv'
<1>1. CoreInv /\ CoreInv' /\ owed \subseteq New
  BY NextCore DEF IInv, OwedInv
<1>2. CASE UNCHANGED vars
  <2>1. /\ UNCHANGED <<log, life, there, first, removed, watch, since, rule, policy, cp, rows, catch, old, owed>>
    BY <1>2 DEF vars, core, board, prefs, store, steps, times
  <2>2. \A n, by : Wanted(n, by)' <=> Wanted(n, by)
    BY <2>1 DEF Wanted, Continuous, CardOf
  <2>3. \A n, by : Assured(n, by)' <=> Assured(n, by)
    BY <2>1 DEF Assured, Ahead, Stored, Asks, CardOf
  <2> QED
    BY <2>1, <2>2, <2>3 DEF IInv, OwedInv
<1>3. CASE Next
  <2>1. owed' = {p \in owed : Wanted(p[1], p[2])'} \cup (IF log' = log THEN {} ELSE Wants' \ Late')
    BY <1>3 DEF Next, Promises
  <2>2. ASSUME NEW p \in owed, Wanted(p[1], p[2])'
        PROVE  Assured(p[1], p[2])'
    <3>1. p[1] \in Ids /\ p[2] \in {"watch", "rule"} /\ Wanted(p[1], p[2]) /\ Assured(p[1], p[2])
      BY <1>1 DEF New, IInv, OwedInv
    <3> QED
      BY <1>1, <1>3, <2>2, <3>1, StepsAssure
  <2>3. ASSUME NEW p \in Wants' \ Late', log' # log
        PROVE  p \in New /\ Wanted(p[1], p[2])' /\ Assured(p[1], p[2])'
    <3>1. p \in New /\ p[1] \in Ids /\ p[2] \in {"watch", "rule"} /\ p[1] = Len(log')
          /\ Wanted(p[1], p[2])' /\ ~TooLate(p[1], p[2])'
      BY <2>3 DEF Wants, Late, New
    <3> QED
      BY <1>1, <1>3, <2>3, <3>1, HappensAssures
  <2> QED
    BY <1>1, <2>1, <2>2, <2>3 DEF OwedInv
<1> QED
  BY <1>2, <1>3

LEMMA Always == Spec => []IInv
<1>1. Init => IInv
  BY InitCore DEF IInv, OwedInv, Init
<1>2. IInv /\ [Next]_vars => IInv'
  BY NextCore, OwedNext DEF IInv
<1> QED
  BY <1>1, <1>2, PTL DEF Spec

\* The cursor never moves past an event whose moment was not stored
\* (board_moments.py:19-21): what somebody asked for before the catch-up step under way
\* read the preferences is ahead of the cursor, or has a delivery that is pending, was
\* taken or gave way to a newer one of its card.
THEOREM OwedCorrect == Spec => []OwedIsKept
<1>1. IInv => OwedIsKept
  BY DEF IInv, OwedInv, Assured, Ahead, Stored, OwedIsKept
<1> QED
  BY <1>1, Always, PTL

-----------------------------------------------------------------------------
(* The chain keeps its contract. *)

Asked == {n \in Ids : \E by \in {"watch", "rule"} : <<n, by>> \in owed}

\* The cases of StateOf exclude one another.
StateCases == \A n \in Ids :
  /\ rows[n].st # "none" => StateOf(n) = rows[n].st
  /\ rows[n].st = "none" /\ n > Len(log) => StateOf(n) = "unread"
  /\ rows[n].st = "none" /\ ~(n > Len(log)) =>
       StateOf(n) = IF n > first /\ there /\ (cp = NoCp \/ cp.life # life \/ n > cp.cursor)
                    THEN "unread" ELSE "skipped"

LEMMA StateIs == CoreInv => StateCases
<1> SUFFICES ASSUME CoreInv, NEW n \in Ids
             PROVE  /\ rows[n].st # "none" => StateOf(n) = rows[n].st
                    /\ rows[n].st = "none" /\ n > Len(log) => StateOf(n) = "unread"
                    /\ rows[n].st = "none" /\ ~(n > Len(log)) =>
                         StateOf(n) = IF n > first /\ there /\ (cp = NoCp \/ cp.life # life \/ n > cp.cursor)
                                      THEN "unread" ELSE "skipped"
  BY DEF StateCases
<1>1. CASE rows[n].st # "none"
  <2>1. ~(n > Len(log))
    BY <1>1 DEF CoreInv, RowsInv, BoardType, Ids
  <2>2. ~(n > first /\ there /\ (cp = NoCp \/ cp.life # life \/ n > cp.cursor))
    <3>1. SUFFICES ASSUME n > first, there PROVE cp # NoCp /\ cp.life = life /\ ~(n > cp.cursor)
      OBVIOUS
    <3>2. cp.life = life /\ n <= cp.cursor
      BY <1>1, <3>1 DEF CoreInv, RowsInv
    <3>3. cp.cursor \in Nat /\ n \in Nat /\ life # 0 /\ NoCp.life = 0
      BY DEF CoreInv, StoreType, Known, Checkpoints, Ids, BoardType, NoCp
    <3> QED
      BY <3>2, <3>3
  <2> QED
    BY <1>1, <2>1, <2>2 DEF StateOf
<1>2. CASE rows[n].st = "none" /\ n > Len(log)
  BY <1>2 DEF StateOf
<1>3. CASE rows[n].st = "none" /\ ~(n > Len(log))
  BY <1>3 DEF StateOf
<1> QED
  BY <1>1, <1>2, <1>3

LEMMA StateWillBe == CoreInv' => StateCases'
BY StateIs, PTL

AskedStates == \A n \in Asked : StateOf(n) \in {"unread", "pending", "acked", "coalesced"}

LEMMA AskedFor == CoreInv /\ OwedInv => AskedStates
<1> SUFFICES ASSUME CoreInv, OwedInv, NEW n \in Asked
             PROVE  StateOf(n) \in {"unread", "pending", "acked", "coalesced"}
  BY DEF AskedStates
<1>1. PICK by \in {"watch", "rule"} : <<n, by>> \in owed
  BY DEF Asked
<1>2. n \in Ids /\ Wanted(n, by) /\ Assured(n, by)
  BY <1>1 DEF Asked, OwedInv
<1>3. n > first /\ there /\ ~(n > Len(log))
  BY <1>2, WantedNow DEF CoreInv, BoardType
<1> QED
  BY <1>2, <1>3, StateIs DEF Assured, Ahead, Stored, StateCases

LEMMA AskedThen == (CoreInv /\ OwedInv)' => AskedStates'
BY AskedFor, PTL

\* A step that makes no delivery and takes none back.
Fades(n) == \/ rows'[n].st = rows[n].st
            \/ rows[n].st = "pending" /\ rows'[n].st \in {"acked", "dropped"}

\* The board is as it was and the cursor goes on.
Stays == UNCHANGED board /\ GoesOn

LEMMA WearerFades == ASSUME CoreInv, Wearer PROVE Stays /\ \A n \in Ids : Fades(n)
<1>1. cp' = cp => GoesOn
  BY DEF CoreInv, StoreType, GoesOn, Known, Checkpoints
<1>2. Wearer => UNCHANGED board
  BY DEF Wearer, WatchNotes, UnwatchSets, WatchSets, UnwatchNotes, OpFails, RuleSets, RuleOff, SetPolicy, Quietly
<1>3. TakeCheckpoint \/ cp' = cp
  BY DEF Wearer, WatchNotes, UnwatchSets, WatchSets, UnwatchNotes, OpFails, RuleSets, RuleOff, SetPolicy
<1>4. rows' = rows \/ \E S : rows' = Cancel(S)
  BY DEF Wearer, WatchNotes, UnwatchSets, WatchSets, UnwatchNotes, OpFails, RuleSets, RuleOff, SetPolicy, RuleCancels
<1>5. \A n \in Ids : Fades(n)
  BY <1>4, Cancelling DEF Fades
<1> QED
  BY <1>1, <1>2, <1>3, <1>5, Taking DEF Stays

LEMMA StepFades ==
  ASSUME CoreInv, NEW l \in Lanes, Step(l), ~Commits(l)
  PROVE  Stays /\ \A n \in Ids : Fades(n)
<1>1. cp' = cp => GoesOn
  BY DEF CoreInv, StoreType, GoesOn, Known, Checkpoints
<1>2. CASE ReadBoard(l) \/ Overtaken(l)
  BY <1>1, <1>2 DEF ReadBoard, Overtaken, Reading, store, Stays, Fades
<1>3. CASE Boundary(l)
  <2>1. UNCHANGED <<board, rows>> /\ cp' = IF cp = NoCp THEN catch[l].next ELSE cp
    BY <1>3 DEF Boundary, Committing
  <2>2. GoesOn
    BY <1>1, <2>1 DEF GoesOn, CoreInv, BoardType, NoCp
  <2> QED
    BY <2>1, <2>2 DEF Stays, Fades
<1>4. CASE Resets(l)
  <2>1. /\ FindsReset(catch[l]) /\ catch[l].cp = cp /\ cp' = catch[l].next /\ UNCHANGED board
        /\ rows' = Cancel(Pending) \/ rows' = rows
    BY <1>4 DEF Resets, Committing, CoreInv, CatchInv, Lane
  <2>2. GoesOn
    BY <2>1 DEF GoesOn, FindsReset, Known, Checkpoints
  <2>3. \A n \in Ids : Fades(n)
    BY <2>1, Cancelling DEF Fades
  <2> QED
    BY <2>1, <2>2, <2>3 DEF Stays
<1> QED
  BY <1>2, <1>3, <1>4 DEF Step

LEMMA OtherFades ==
  ASSUME CoreInv, ReadStore \/ Due \/ Other \/ Crashes \/ (\E p \in {"same", "new"} : Reconnects(p)),
         ~CheckAuthority
  PROVE  Stays /\ \A n \in Ids : Fades(n)
<1>1. UNCHANGED <<board, cp>>
  BY DEF ReadStore, Reading, Due, Other, Reload, CheckAuthority, Push, PushFails, Release, Pumping, PhoneReturns,
         PhoneLeaves, QuietBegins, QuietEnds, PhoneTakes, Ack, ResendDue, WindowPasses, Ages, Standing, store,
         Crashes, Reconnects, NewLink
<1>2. Stays
  BY <1>1 DEF CoreInv, StoreType, GoesOn, Known, Checkpoints, Stays
<1>3. ASSUME NEW n \in Ids PROVE Fades(n)
  <2>0. rows \in [Ids -> Rows] /\ rows[n] \in Rows
    BY DEF CoreInv, StoreType
  <2>1. CASE rows' = rows
    BY <2>1 DEF Fades
  <2>2. CASE Reload \/ Release
    <3>1. \/ rows'[n] = rows[n]
          \/ rows'[n] = [rows[n] EXCEPT !.due = TRUE]
      BY <2>2 DEF Reload, Release
    <3> QED
      BY <2>0, <3>1 DEF Fades, Rows
  <2>3. CASE Due
    <3>1. \/ rows'[n] = rows[n]
          \/ rows'[n] = [rows[n] EXCEPT !.due = FALSE, !.tried = TRUE]
          \/ rows[n].st = "pending" /\ rows'[n] = [rows[n] EXCEPT !.st = "dropped"]
      BY <2>3 DEF Due, Pending
    <3> QED
      BY <2>0, <3>1 DEF Fades, Rows
  <2>4. CASE \E m \in Ids : Ack(m)
    <3>1. PICK m \in Ids : Ack(m)
      BY <2>4
    <3>2. \/ rows'[n] = rows[n]
          \/ rows[n].st = "pending" /\ rows'[n] = [rows[n] EXCEPT !.st = "acked", !.seen = "fresh"]
          \/ rows'[n] = [rows[n] EXCEPT !.seen = "fresh"]
      BY <2>0, <3>1 DEF Ack
    <3> QED
      BY <2>0, <3>2 DEF Fades, Rows
  <2>5. CASE \E m \in Ids : ResendDue(m) \/ WindowPasses(m)
    <3>1. PICK m \in Ids : ResendDue(m) \/ WindowPasses(m)
      BY <2>5
    <3>2. \/ rows'[n] = rows[n]
          \/ rows'[n] = [rows[n] EXCEPT !.due = TRUE]
          \/ rows'[n] = [rows[n] EXCEPT !.seen = "past"]
      BY <2>0, <3>1 DEF ResendDue, WindowPasses
    <3> QED
      BY <2>0, <3>2 DEF Fades, Rows
  <2> QED
    BY <2>1, <2>2, <2>3, <2>4, <2>5 DEF Other, ReadStore, Reading, Push, PushFails, PhoneReturns, PhoneLeaves,
       QuietBegins, QuietEnds, PhoneTakes, Ages, Crashes, Reconnects, NewLink, store, phone
<1> QED
  BY <1>2, <1>3

\* What the tail has passed it does not read again.
LEMMA PassedStays ==
  ASSUME CoreInv, CoreInv', Hermes \/ Stays, NEW n \in Ids, rows[n].st = "none", rows'[n].st = "none",
         StateOf(n) = "skipped"
  PROVE  StateOf(n)' = "skipped"
<1>1. /\ n \in Nat /\ Len(log) \in Nat /\ first \in Nat /\ ~(n > Len(log)) /\ n <= Len(log)
      /\ ~(n > first /\ there /\ (cp = NoCp \/ cp.life # life \/ n > cp.cursor))
  BY StateIs DEF StateCases, Ids, CoreInv, BoardType
<1>2. CASE Stays
  <2>1. UNCHANGED <<log, life, there, first>> /\ GoesOn
    BY <1>2 DEF Stays, board
  <2>2. n > first /\ there => cp'.life = life /\ cp' # NoCp /\ ~(n > cp'.cursor)
    <3>1. SUFFICES ASSUME n > first, there PROVE cp'.life = life /\ cp' # NoCp /\ ~(n > cp'.cursor)
      OBVIOUS
    <3>2. cp # NoCp /\ cp.life = life /\ n <= cp.cursor
      BY <1>1, <3>1 DEF CoreInv, StoreType, Known, Checkpoints
    <3>3. cp'.life = life /\ cp.cursor <= cp'.cursor /\ cp.cursor \in Nat /\ cp'.cursor \in Nat /\ life # 0
      BY <2>1, <3>1, <3>2 DEF GoesOn, CoreInv, BoardType, StoreType, Known, Checkpoints
    <3> QED
      BY <1>1, <3>2, <3>3 DEF NoCp
  <2> QED
    BY <1>1, <2>1, <2>2, StateWillBe DEF StateCases
<1>3. CASE Hermes
  <2>1. cp' = cp /\ Len(log) <= Len(log') /\ Len(log') \in Nat
    BY <1>3, HermesFrame DEF store, CoreInv, BoardType
  <2>2. \/ UNCHANGED <<life, there, first>>
        \/ there' = FALSE
        \/ first' = Len(log)
    BY <1>3 DEF Hermes, Happens, Prunes, BoardGoes, BoardComes
  <2> QED
    BY <1>1, <2>1, <2>2, StateWillBe DEF StateCases
<1> QED
  BY <1>2, <1>3

LEMMA FadingMoves ==
  ASSUME CoreInv, CoreInv', OwedInv', Hermes \/ Stays, NEW n \in Ids, Fades(n)
  PROVE  \/ StateOf(n)' = StateOf(n)
         \/ StateOf(n) = "pending" /\ StateOf(n)' = "acked"
         \/ n \notin Asked' /\ StateOf(n) = "unread" /\ StateOf(n)' = "skipped"
         \/ n \notin Asked' /\ StateOf(n) = "pending" /\ StateOf(n)' = "dropped"
<1>1. n \in Asked' => StateOf(n)' \in {"unread", "pending", "acked", "coalesced"}
  BY AskedThen DEF AskedStates
<1>2. CASE rows[n].st = "none"
  <2>1. rows'[n].st = "none"
    BY <1>2 DEF Fades
  <2>2. StateOf(n) \in {"unread", "skipped"} /\ StateOf(n)' \in {"unread", "skipped"}
    BY <1>2, <2>1, StateIs, StateWillBe DEF StateCases
  <2> QED
    BY <1>1, <1>2, <2>1, <2>2, PassedStays
<1>3. CASE rows[n].st # "none"
  <2>1. StateOf(n) = rows[n].st /\ rows'[n].st # "none" /\ StateOf(n)' = rows'[n].st
    BY <1>3, StateIs, StateWillBe DEF StateCases, Fades
  <2> QED
    BY <1>1, <1>3, <2>1 DEF Fades
<1> QED
  BY <1>2, <1>3

LEMMA CommitsMoves ==
  ASSUME CoreInv, CoreInv', OwedInv', NEW l \in Lanes, Commits(l), NEW n \in Ids
  PROVE  \/ StateOf(n)' = StateOf(n)
         \/ StateOf(n) = "unread" /\ StateOf(n)' = "pending"
         \/ /\ StateOf(n) \in {"unread", "pending"} /\ StateOf(n)' = "coalesced"
            /\ \E m \in Ids : /\ {n, m} \subseteq 1 .. Len(log) /\ CardOf(m) = CardOf(n) /\ m > n
                              /\ StateOf(m) = "unread" /\ StateOf(m)' \in {"pending", "coalesced"}
         \/ n \notin Asked' /\ StateOf(n) = "unread" /\ StateOf(n)' = "skipped"
<1> DEFINE c == catch[l]
<1>1. /\ FindsRows(c) /\ c.cp = cp /\ c.next = cp' /\ c \in Steps
      /\ Len(log) \in Nat /\ Len(log) <= MaxEvents /\ MaxEvents \in Nat /\ UNCHANGED board
  BY Storing, BoardAssumption DEF Commits, Committing, CoreInv, BoardType
<1>2. ASSUME NEW m \in Kept(c)
      PROVE  /\ m \in Ids /\ m \in 1 .. Len(log) /\ StateOf(m) = "unread"
             /\ StateOf(m)' = IF Newer(m, Kept(c)) THEN "coalesced" ELSE "pending"
  <2>1. /\ rows[m].st = "none" /\ m \in c.found /\ m \in Ids
        /\ rows'[m].st = IF Newer(m, Kept(c)) THEN "coalesced" ELSE "pending"
    BY Storing
  <2>2. m > first /\ there /\ m > cp.cursor /\ m <= c.next.cursor
    BY <1>1, <2>1 DEF FindsRows
  <2>3. m \in 1 .. Len(log)
    BY <1>1, <2>1, <2>2 DEF FindsRows, Known, Checkpoints, Ids
  <2>4. ~(m > Len(log))
    BY <1>1, <2>3
  <2> QED
    BY <2>1, <2>2, <2>3, <2>4, StateIs, StateWillBe DEF StateCases
<1>3. \A m \in Ids : Newer(m, Kept(c)) /\ m \in 1 .. Len(log) =>
        \E k \in Ids : /\ {m, k} \subseteq 1 .. Len(log) /\ CardOf(k) = CardOf(m) /\ k > m
                       /\ StateOf(k) = "unread" /\ StateOf(k)' \in {"pending", "coalesced"}
  BY <1>2 DEF Newer
<1>4. CASE n \in Kept(c)
  BY <1>2, <1>3, <1>4
<1>5. CASE n \notin Kept(c)
  <2>1. \/ rows'[n] = rows[n]
        \/ rows[n].st = "pending" /\ Newer(n, Kept(c)) /\ rows'[n].st = "coalesced"
    BY <1>5, Storing
  <2>2. CASE rows'[n] = rows[n]
    <3>1. Stays /\ Fades(n)
      BY <1>1, <2>2 DEF Stays, GoesOn, FindsRows, Fades
    <3> QED
      BY <3>1, <2>2, FadingMoves, StateIs, StateWillBe DEF StateCases
  <2>3. CASE rows[n].st = "pending" /\ Newer(n, Kept(c)) /\ rows'[n].st = "coalesced"
    <3>1. n \in 1 .. Len(log)
      BY <1>1, <2>3 DEF CoreInv, RowsInv, Ids
    <3>2. StateOf(n) = "pending" /\ StateOf(n)' = "coalesced"
      BY <2>3, StateIs, StateWillBe DEF StateCases
    <3> QED
      BY <1>3, <2>3, <3>1, <3>2
  <2> QED
    BY <2>1, <2>2, <2>3
<1> QED
  BY <1>4, <1>5

LEMMA AuthorityMoves ==
  ASSUME CoreInv, CoreInv', CheckAuthority, NEW n \in Ids
  PROVE  StateOf(n)' = StateOf(n) \/ (StateOf(n) = "acked" /\ StateOf(n)' = "pending")
<1>1. UNCHANGED <<log, life, there, first, cp>>
  BY DEF CheckAuthority, Pumping, board
<1>2. rows[n] \in Rows /\ rows \in [Ids -> Rows]
  BY DEF CoreInv, StoreType
<1>3. \/ rows'[n] = rows[n]
      \/ rows[n].st \in {"pending", "acked"} /\ rows'[n] = [rows[n] EXCEPT !.st = "pending", !.due = TRUE]
  BY <1>2 DEF CheckAuthority
<1>4. rows'[n].st = rows[n].st \/ (rows[n].st = "acked" /\ rows'[n].st = "pending")
  BY <1>2, <1>3 DEF Rows
<1> QED
  BY <1>1, <1>4, StateIs, StateWillBe DEF StateCases

\* An event is first owed when it happens.
LEMMA AskedAnew ==
  ASSUME IInv, CoreInv', Next, NEW n \in Asked' \ Asked PROVE StateOf(n)' = "unread"
<1>1. PICK by \in {"watch", "rule"} : <<n, by>> \in owed'
  BY DEF Asked
<1>2. n \in Ids /\ <<n, by>> \notin owed
  BY DEF Asked
<1>3. <<n, by>> \in Wants' \ Late' /\ log' # log
  BY <1>1, <1>2 DEF Next, Promises
<1>4. n = Len(log') /\ Wanted(n, by)' /\ ~TooLate(n, by)'
  BY <1>3 DEF Wants, Late
<1>5. Assured(n, by)'
  BY <1>2, <1>3, <1>4, HappensAssures DEF IInv
<1>6. PICK k \in Cards, e \in Classes : Happens(k, e)
  BY <1>3, OnlyHappens
<1>7. rows'[n].st = "none"
  <2>1. Len(log') = Len(log) + 1 /\ Len(log) \in Nat /\ rows' = rows
    BY <1>6, LogGrows DEF Happens, Idles, store, IInv, CoreInv, BoardType
  <2> QED
    BY <1>2, <1>4, <2>1 DEF IInv, CoreInv, RowsInv, Ids
<1>8. n > first' /\ there' /\ ~(n > Len(log')) /\ n > cp'.cursor
  <2>1. there' /\ n \in first' + 1 .. Len(log') /\ first' \in Nat /\ Len(log') \in Nat
    BY <1>2, <1>4, WantedThen DEF CoreInv, BoardType
  <2> QED
    BY <1>5, <1>7, <2>1 DEF Assured, Ahead
<1> QED
  BY <1>2, <1>7, <1>8, StateWillBe DEF StateCases

THEOREM ContractCorrect == Spec => KeepsContract
<1>1. Init => Contract!Init
  <2> SUFFICES ASSUME Init PROVE Contract!Init
    OBVIOUS
  <2>1. CoreInv /\ owed = {} /\ log = <<>> /\ rows = [n \in Ids |-> NoRow]
    BY InitCore DEF Init
  <2>2. \A n \in Ids : StateOf(n) = "unread"
    BY <2>1, StateIs DEF StateCases, NoRow, Ids
  <2> QED
    BY <2>1, <2>2 DEF Contract!Init, Events
<1>2. ASSUME IInv, IInv', [Next]_vars
      PROVE  [Contract!Next]_<<Asked, [n \in Ids |-> StateOf(n)]>>
  <2>1. CASE UNCHANGED vars
    <3>1. UNCHANGED <<log, life, there, first, cp, rows, owed>>
      BY <2>1 DEF vars, core, board, store
    <3> QED
      BY <3>1 DEF StateOf, Asked
  <2>2. CASE Next
    <3>1. Asked' \ Asked \subseteq {n \in Ids : StateOf(n)' = "unread"}
      BY <1>2, <2>2, AskedAnew DEF IInv, Asked
    <3>2. CASE CheckAuthority
      <4>1. \A n \in Ids : Contract!Reopened(n)
        BY <1>2, <3>2, AuthorityMoves DEF IInv, Contract!Reopened, Contract!Becomes
      <4> QED
        BY <3>1, <4>1 DEF Contract!Next, Events, Asked
    <3>3. CASE \E l \in Lanes : Commits(l)
      <4>1. \A n \in Ids : Contract!Moved(n)
        BY <1>2, <3>3, CommitsMoves DEF IInv, Contract!Moved, Contract!Becomes, Contract!Replaced, Asked
      <4> QED
        BY <3>1, <4>1 DEF Contract!Next, Events, Asked
    <3>4. CASE ~CheckAuthority /\ ~(\E l \in Lanes : Commits(l))
      <4>1. Hermes \/ Stays
        BY <1>2, <2>2, <3>4, Groups, WearerFades, StepFades, OtherFades DEF IInv
      <4>2. \A n \in Ids : Fades(n)
        BY <1>2, <2>2, <3>4, Groups, HermesFrame, WearerFades, StepFades, OtherFades DEF IInv, Fades, store
      <4>3. \A n \in Ids : Contract!Moved(n)
        BY <1>2, <4>1, <4>2, FadingMoves DEF IInv, Contract!Moved, Contract!Becomes, Asked
      <4> QED
        BY <3>1, <4>3 DEF Contract!Next, Events, Asked
    <3> QED
      BY <3>2, <3>3, <3>4
  <2> QED
    BY <1>2, <2>1, <2>2
<1> QED
  BY <1>1, <1>2, Always, PTL DEF Spec, KeepsContract, Contract!Spec, Asked
=============================================================================
