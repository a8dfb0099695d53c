----------------------------- MODULE ReplyProofs -----------------------------
(***************************************************************************)
(* Proofs about ReplyDelivery, for any phones, runs, shapes of entries and *)
(* bounds: a reply's observation is announced once, evidence counts for    *)
(* the revision that is shown, and the evidence the gateway has for the    *)
(* current candidate stays.                                                *)
(***************************************************************************)
EXTENDS ReplyDelivery, FiniteSetTheorems, WellFoundedInduction, TLAPS

(* Folds over a finite set. J[s] is what holds when the elements of s have *)
(* been taken, Pick(s) the last of them.                                   *)

Pick(s) == CHOOSE x \in s : TRUE

LEMMA PickIsMember == ASSUME NEW s, s # {} PROVE Pick(s) \in s
BY DEF Pick

\* One element less, one less to count.
LEMMA PickCounts ==
  ASSUME NEW S, IsFiniteSet(S), NEW s \in SUBSET S, s # {}
  PROVE  /\ s \ {Pick(s)} \in SUBSET S /\ Cardinality(s) \in Nat \ {0}
         /\ Cardinality(s \ {Pick(s)}) = Cardinality(s) - 1
<1>1. IsFiniteSet(s)
  BY FS_Subset
<1>2. Cardinality(s) \in Nat
  BY <1>1, FS_CardinalityType
<1>3. Cardinality(s) # 0
  BY <1>1, FS_EmptySet
<1>4. Cardinality(s \ {Pick(s)}) = Cardinality(s) - 1
  BY <1>1, FS_RemoveElement, PickIsMember
<1> QED BY <1>2, <1>3, <1>4

\* Whatever is built up by taking elements stays in J.
LEMMA TakenStays ==
  ASSUME NEW S, IsFiniteSet(S), NEW J, NEW g, g[{}] \in J[{}],
         \A s \in SUBSET S : s # {} /\ g[s \ {Pick(s)}] \in J[s \ {Pick(s)}] => g[s] \in J[s]
  PROVE  \A s \in SUBSET S : g[s] \in J[s]
<1> DEFINE Bad == {n \in Nat : \E s \in SUBSET S : Cardinality(s) = n /\ g[s] \notin J[s]}
<1>1. Bad = {}
  <2> SUFFICES ASSUME Bad # {} PROVE FALSE
    OBVIOUS
  <2>1. Bad \subseteq Nat
    OBVIOUS
  <2> HIDE DEF Bad
  <2>2. PICK n \in Bad : \A m \in Bad : <<m, n>> \notin OpToRel(<, Nat)
    BY <2>1, NatLessThanWellFounded, WFMin
  <2>3. n \in Nat
    BY <2>1, <2>2
  <2>4. PICK s \in SUBSET S : Cardinality(s) = n /\ g[s] \notin J[s]
    BY <2>2 DEF Bad
  <2>5. s # {}
    BY <2>4
  <2>6. s \ {Pick(s)} \in SUBSET S /\ n - 1 \in Nat /\ Cardinality(s \ {Pick(s)}) = n - 1
    BY <2>4, <2>5, PickCounts
  <2>7. <<n - 1, n>> \in OpToRel(<, Nat)
    BY <2>3, <2>6 DEF OpToRel
  <2>8. n - 1 \notin Bad
    BY <2>2, <2>7
  <2>9. g[s \ {Pick(s)}] \in J[s \ {Pick(s)}]
    BY <2>6, <2>8 DEF Bad
  <2> QED BY <2>4, <2>5, <2>9
<1>2. ASSUME NEW s \in SUBSET S PROVE Cardinality(s) \in Nat
  BY FS_Subset, FS_CardinalityType
<1> QED BY <1>1, <1>2

\* The function a fold is defined by exists.
Iterates(g, S, base, F) ==
  g = [s \in SUBSET S |-> IF s = {} THEN base ELSE F[<<Pick(s), g[s \ {Pick(s)}]>>]]

LEMMA FoldExists ==
  ASSUME NEW S, IsFiniteSet(S), NEW F, NEW base
  PROVE  \E g : Iterates(g, S, base, F)
<1> DEFINE Body(g, s) == IF s = {} THEN base ELSE F[<<Pick(s), g[s \ {Pick(s)}]>>]
           UpTo(n) == \E g : \A s \in SUBSET S : Cardinality(s) <= n => g[s] = Body(g, s)
           Bad == {n \in Nat : ~UpTo(n)}
<1>1. \A s \in SUBSET S : Cardinality(s) \in Nat
  BY FS_Subset, FS_CardinalityType
<1>2. UpTo(0)
  <2> DEFINE g == [s \in SUBSET S |-> base]
  <2>1. ASSUME NEW s \in SUBSET S, Cardinality(s) <= 0 PROVE g[s] = Body(g, s)
    <3>1. ASSUME s # {} PROVE FALSE
      <4>1. Cardinality(s) \in Nat \ {0}
        BY <3>1, PickCounts
      <4> QED BY <2>1, <4>1
    <3> QED BY <3>1
  <2> QED BY <2>1
<1>3. ASSUME NEW n \in Nat, UpTo(n) PROVE UpTo(n + 1)
  <2>1. PICK g : \A s \in SUBSET S : Cardinality(s) <= n => g[s] = Body(g, s)
    BY <1>3
  <2> DEFINE h == [s \in SUBSET S |-> Body(g, s)]
  <2>2. ASSUME NEW s \in SUBSET S, Cardinality(s) <= n + 1 PROVE h[s] = Body(h, s)
    <3>1. CASE s = {}
      BY <3>1
    <3>2. CASE s # {}
      <4>1. s \ {Pick(s)} \in SUBSET S /\ Cardinality(s \ {Pick(s)}) <= n
        BY <1>1, <2>2, <3>2, PickCounts
      <4>2. h[s \ {Pick(s)}] = g[s \ {Pick(s)}]
        BY <2>1, <4>1
      <4> QED BY <3>2, <4>2
    <3> QED BY <3>1, <3>2
  <2> HIDE DEF h
  <2> QED BY <2>2
<1>4. Bad = {}
  <2> SUFFICES ASSUME Bad # {} PROVE FALSE
    OBVIOUS
  <2>1. Bad \subseteq Nat
    OBVIOUS
  <2> HIDE DEF Bad
  <2>2. PICK n \in Bad : \A m \in Bad : <<m, n>> \notin OpToRel(<, Nat)
    BY <2>1, NatLessThanWellFounded, WFMin
  <2>3. n \in Nat /\ ~UpTo(n)
    BY <2>2 DEF Bad
  <2> HIDE DEF UpTo
  <2>4. n # 0
    BY <1>2, <2>3
  <2>5. n - 1 \in Nat /\ <<n - 1, n>> \in OpToRel(<, Nat)
    BY <2>3, <2>4 DEF OpToRel
  <2>6. UpTo(n - 1)
    BY <2>2, <2>5 DEF Bad
  <2>7. UpTo((n - 1) + 1)
    BY <1>3, <2>5, <2>6
  <2> QED BY <2>3, <2>7
<1>5. UpTo(Cardinality(S))
  BY <1>1, <1>4
<1>6. PICK g : \A s \in SUBSET S : Cardinality(s) <= Cardinality(S) => g[s] = Body(g, s)
  BY <1>5
<1>7. \A s \in SUBSET S : Cardinality(s) <= Cardinality(S)
  BY FS_Subset
<1> DEFINE h == [s \in SUBSET S |-> g[s]]
<1>8. ASSUME NEW s \in SUBSET S PROVE h[s] = Body(h, s)
  <2>1. s # {} => s \ {Pick(s)} \in SUBSET S
    OBVIOUS
  <2> QED BY <1>6, <1>7, <2>1
<1>9. h = [s \in SUBSET S |-> Body(h, s)]
  BY <1>8
<1> HIDE DEF h
<1> QED BY <1>9 DEF Iterates

LEMMA FoldStays ==
  ASSUME NEW S, IsFiniteSet(S), NEW J, NEW F, NEW base, base \in J[{}],
         \A s \in SUBSET S : s # {} => \A v \in J[s \ {Pick(s)}] : F[<<Pick(s), v>>] \in J[s]
  PROVE  \E g : Iterates(g, S, base, F) /\ \A s \in SUBSET S : g[s] \in J[s]
<1>1. PICK g : Iterates(g, S, base, F)
  BY FoldExists
<1>2. g[{}] = base /\ \A s \in SUBSET S : s # {} => g[s] = F[<<Pick(s), g[s \ {Pick(s)}]>>]
  BY <1>1 DEF Iterates
<1>3. \A s \in SUBSET S : s # {} /\ g[s \ {Pick(s)}] \in J[s \ {Pick(s)}] => g[s] \in J[s]
  BY <1>2
<1>4. \A s \in SUBSET S : g[s] \in J[s]
  BY <1>2, <1>3, TakenStays
<1> QED BY <1>1, <1>4

----------------------------------------------------------------------------
(* The inductive invariant, of a world w: free are the runs that nobody    *)
(* has observed yet, x the run whose wait is just being answered, if any.  *)

Attempts == [n : Nat, id : Ids \cup {0}, rev : 0..MaxRev]
Entries == [shape : Shapes, rev : 0..MaxRev]
Reports == [run : Runs, status : Statuses, tries : 0..(MaxAttempts - 1)]
Flights == [run : Runs \cup {None}, status : Statuses, phase : {"none", "sent", "ok", "unknown"}]
Atts == [Runs -> Attempts]
Dones == [Runs -> Statuses \cup {"none"}]
Waits == [Runs -> {"no", "none", "blank", "local"}]
Tolds == [Runs -> {<<>>} \cup {<<s>> : s \in Statuses}]
Probes == [run : Runs, n : Nat, id : Ids, rev : 1..MaxRev]
Tries == [Runs -> Nat]
Queues == Seq(Reports)
Worlds == [att : Atts, done : Dones, waits : Waits, tracked : SUBSET Runs, sweeping : BOOLEAN,
           probes : SUBSET Probes, tries : Tries, told : Tolds, queue : Queues,
           flight : Flights, retrying : BOOLEAN]

\* What waits or is tried has not been announced, and what is announced stays so.
Unsettled(w, x) ==
  \A r \in Runs : /\ w.waits[r] # "no" /\ r \notin x => w.att[r] = NoAttempt /\ w.told[r] = <<>>
                  /\ w.att[r] # NoAttempt => w.told[r] = <<>> /\ r \in w.tracked
                  /\ w.done[r] # "none" => w.told[r] # <<>>
Untouched(w, free) ==
  \A r \in free : w.told[r] = <<>> /\ w.att[r] = NoAttempt /\ w.waits[r] = "no"
\* What is reported has been announced, and the head of the queue is under way.
Reported(w) ==
  /\ \A i \in DOMAIN w.queue : w.told[w.queue[i].run] # <<>>
  /\ w.flight # NoFlight => w.queue # <<>> /\ w.queue[1].run = w.flight.run
  /\ w.flight.phase = "none" => w.flight = NoFlight

Sound(w, free, x) == w \in Worlds /\ Unsettled(w, x) /\ Untouched(w, free) /\ Reported(w)

\* rs are dropped from w and nothing else that an observation keeps is changed.
Dropped(w, v, rs) ==
  /\ v.waits = w.waits /\ v.tracked = w.tracked /\ v.probes = w.probes /\ v.tries = w.tries
  /\ \A r \in rs : v.att[r] = NoAttempt
  /\ \A r \in Runs \ rs : v.att[r] = w.att[r] /\ v.told[r] = w.told[r] /\ v.done[r] = w.done[r]

----------------------------------------------------------------------------
(* Reports. *)

LEMMA NoFlightIs == NoFlight \in Flights /\ NoFlight.phase = "none" /\ NoAttempt \in Attempts
BY BoundsAssumption DEF NoFlight, Flights, Statuses, NoAttempt, Attempts

\* A report is taken up.
LEMMA DrainKeeps ==
  ASSUME NEW w, NEW free, NEW x, Sound(w, free, x)
  PROVE  /\ Sound(Drain(w), free, x)
         /\ Drain(w).att = w.att /\ Drain(w).told = w.told /\ Drain(w).done = w.done
         /\ Drain(w).waits = w.waits /\ Drain(w).tracked = w.tracked
         /\ Drain(w).probes = w.probes /\ Drain(w).tries = w.tries
         /\ Drain(w).queue = w.queue
<1>1. CASE w.flight # NoFlight \/ w.retrying \/ w.queue = <<>>
  BY <1>1 DEF Drain
<1>2. CASE ~(w.flight # NoFlight \/ w.retrying \/ w.queue = <<>>)
  <2> DEFINE f == [run |-> w.queue[1].run, status |-> w.queue[1].status, phase |-> "sent"]
  <2>1. Drain(w) = [w EXCEPT !.flight = f]
    BY <1>2 DEF Drain
  <2>2. w.queue \in Seq(Reports) /\ w.queue # <<>>
    BY <1>2 DEF Sound, Worlds, Queues
  <2>3. w.queue[1] \in Reports
    BY <2>2
  <2>4. f \in Flights /\ f.run = w.queue[1].run /\ f.phase = "sent"
    BY <2>3 DEF Reports, Flights
  <2> HIDE DEF f
  <2>5. Drain(w) \in Worlds
    BY <2>1, <2>4 DEF Sound, Worlds
  <2>6. /\ Drain(w).att = w.att /\ Drain(w).told = w.told /\ Drain(w).done = w.done
        /\ Drain(w).waits = w.waits /\ Drain(w).tracked = w.tracked
        /\ Drain(w).probes = w.probes /\ Drain(w).tries = w.tries
        /\ Drain(w).queue = w.queue /\ Drain(w).flight = f
    BY <2>1 DEF Sound, Worlds
  <2>7. Unsettled(Drain(w), x) /\ Untouched(Drain(w), free)
    BY <2>6 DEF Sound, Unsettled, Untouched
  <2>8. Reported(Drain(w))
    BY <2>2, <2>4, <2>6 DEF Sound, Reported
  <2> QED BY <2>5, <2>6, <2>7, <2>8 DEF Sound
<1> QED BY <1>1, <1>2

\* A report goes to the end of the queue, beside those of other runs.
LEMMA QueueGrows ==
  ASSUME NEW w, NEW free, NEW x, Sound(w, free, x), NEW r \in Runs, w.told[r] = <<>>
  PROVE  Others(w, r) = w.queue
BY DEF Others, Sound, Reported

\* The attempt of r is over.
Ending(w, r, d) == [w EXCEPT !.att[r] = NoAttempt, !.done[r] = d]

\* An observation of r that has not been announced ends: it is announced.
LEMMA EndKeeps ==
  ASSUME NEW w, NEW free, NEW x, Sound(w, free, x), NEW r \in Runs, r \notin free, w.told[r] = <<>>,
         w.waits[r] = "no" \/ r \in x,
         NEW d \in Statuses \cup {"none"}, NEW status \in Statuses, NEW v,
         v = Report(Ending(w, r, d), r, status)
  PROVE  Sound(v, free, x) /\ Dropped(w, v, {r}) /\ v.told[r] # <<>>
<1> DEFINE e == [run |-> r, status |-> status, tries |-> 0]
           a == [w EXCEPT !.att[r] = NoAttempt, !.done[r] = d]
           u == [a EXCEPT !.told[r] = Append(@, status), !.queue = Append(w.queue, e)]
<1>0. w \in Worlds
  BY DEF Sound
<1>1. e \in Reports /\ e.run = r
  BY BoundsAssumption DEF Reports
<1>2. v = Drain(u)
  <2>1. a.told[r] = <<>> /\ a.queue = w.queue
    BY <1>0 DEF Worlds
  <2>2. Others(a, r) = w.queue
    BY <2>1, QueueGrows DEF Others
  <2> QED BY <2>2 DEF Report, Ending
<1> HIDE DEF e
<1>3. /\ u.att = [w.att EXCEPT ![r] = NoAttempt] /\ u.done = [w.done EXCEPT ![r] = d]
      /\ u.told = [w.told EXCEPT ![r] = <<status>>] /\ u.queue = Append(w.queue, e)
      /\ u.waits = w.waits /\ u.tracked = w.tracked /\ u.probes = w.probes /\ u.tries = w.tries
      /\ u.flight = w.flight /\ u.retrying = w.retrying /\ u.sweeping = w.sweeping
  BY <1>0 DEF Worlds, Tolds
<1>4. u \in Worlds
  <2>1. [w.att EXCEPT ![r] = NoAttempt] \in Atts
    BY <1>0, NoFlightIs DEF Worlds, Atts
  <2>2. [w.done EXCEPT ![r] = d] \in Dones
    BY <1>0 DEF Worlds, Dones
  <2>3. [w.told EXCEPT ![r] = Append(@, status)] \in Tolds
    BY <1>0 DEF Worlds, Tolds
  <2>4. Append(w.queue, e) \in Queues
    BY <1>0, <1>1 DEF Worlds, Queues
  <2>5. a \in Worlds /\ a.told = w.told
    BY <1>0, <2>1, <2>2 DEF Worlds
  <2> HIDE DEF a
  <2> QED BY <2>3, <2>4, <2>5 DEF Worlds
<1> HIDE DEF u
<1>5. Unsettled(u, x) /\ Untouched(u, free)
  BY <1>0, <1>3 DEF Sound, Unsettled, Untouched, Worlds, Atts, Dones, Tolds
<1>6. Reported(u)
  <2>1. u.queue = Append(w.queue, e) /\ w.queue \in Seq(Reports)
    BY <1>0, <1>3 DEF Worlds, Queues
  <2>2. ASSUME NEW i \in DOMAIN u.queue PROVE u.told[u.queue[i].run] # <<>>
    <3>1. CASE i \in DOMAIN w.queue
      <4>1. u.queue[i] = w.queue[i] /\ w.queue[i] \in Reports
        BY <2>1, <3>1
      <4>2. w.told[w.queue[i].run] # <<>> /\ w.queue[i].run \in Runs
        BY <3>1, <4>1 DEF Sound, Reported, Reports
      <4> QED BY <1>0, <1>3, <4>1, <4>2 DEF Worlds, Tolds
    <3>2. CASE i = Len(w.queue) + 1
      <4>1. u.queue[i].run = r
        BY <1>1, <2>1, <3>2
      <4> QED BY <1>0, <1>3, <4>1 DEF Worlds, Tolds
    <3> QED BY <2>1, <3>1, <3>2
  <2>3. w.queue # <<>> => u.queue # <<>> /\ u.queue[1] = w.queue[1]
    BY <2>1
  <2> QED BY <1>3, <2>2, <2>3 DEF Sound, Reported
<1>7. Sound(u, free, x)
  BY <1>4, <1>5, <1>6 DEF Sound
<1>8. Sound(v, free, x) /\ v.att = u.att /\ v.told = u.told /\ v.done = u.done
      /\ v.waits = u.waits /\ v.tracked = u.tracked /\ v.probes = u.probes /\ v.tries = u.tries
  BY <1>2, <1>7, DrainKeeps
<1>9. Dropped(w, v, {r})
  BY <1>0, <1>3, <1>8 DEF Dropped, Worlds, Atts, Dones, Tolds
<1>10. v.told[r] # <<>>
  <2>1. w.told \in Tolds /\ v.told = [w.told EXCEPT ![r] = <<status>>]
    BY <1>0, <1>3, <1>8 DEF Worlds
  <2> QED BY <2>1 DEF Tolds
<1> QED BY <1>8, <1>9, <1>10

----------------------------------------------------------------------------
(* What is late or disconnected is dropped. *)

LEMMA DropOne ==
  ASSUME NEW w, NEW free, NEW x, Sound(w, free, x), NEW r \in Pending(w)
  PROVE  /\ r \in Runs /\ r \notin free
         /\ Sound(Drop(r, w), free, x) /\ Dropped(w, Drop(r, w), {r})
<1>1. r \in Runs /\ w.att[r] # NoAttempt
  BY DEF Pending
<1>2. r \notin free /\ w.told[r] = <<>> /\ (w.waits[r] = "no" \/ r \in x)
  BY <1>1 DEF Sound, Untouched, Unsettled
<1>3. "unconfirmed" \in Statuses
  BY DEF Statuses
<1>4. Drop(r, w) = Report(Ending(w, r, "unconfirmed"), r, "unconfirmed")
  BY DEF Drop, Ending
<1>5. Sound(Drop(r, w), free, x) /\ Dropped(w, Drop(r, w), {r})
  BY <1>1, <1>2, <1>3, <1>4, EndKeeps
<1> QED BY <1>1, <1>2, <1>5

LEMMA DropAllKeeps ==
  ASSUME NEW w, NEW free, NEW x, Sound(w, free, x), NEW rs \in SUBSET Pending(w)
  PROVE  Sound(DropAll(w, rs), free, x) /\ Dropped(w, DropAll(w, rs), rs)
<1> DEFINE J == [s \in SUBSET rs |-> {v \in Worlds : Sound(v, free, x) /\ Dropped(w, v, s)}]
           F == [p \in rs \X Worlds |-> Drop(p[1], p[2])]
           It(g) == g = [s \in SUBSET rs |-> IF s = {} THEN w ELSE Drop(Pick(s), g[s \ {Pick(s)}])]
           G == CHOOSE g : It(g)
<1>0. IsFiniteSet(rs)
  BY FS_Subset, RunsAssumption DEF Pending
<1>1. w \in J[{}]
  BY DEF Sound, Dropped
<1>2. ASSUME NEW s \in SUBSET rs, s # {}, NEW v \in J[s \ {Pick(s)}]
      PROVE  Drop(Pick(s), v) \in J[s] /\ F[<<Pick(s), v>>] = Drop(Pick(s), v)
  <2>1. Pick(s) \in s /\ v \in Worlds /\ Sound(v, free, x) /\ Dropped(w, v, s \ {Pick(s)})
    BY <1>2, PickIsMember
  <2>2. Pick(s) \in Pending(v)
    BY <2>1 DEF Pending, Dropped
  <2>3. Sound(Drop(Pick(s), v), free, x) /\ Dropped(v, Drop(Pick(s), v), {Pick(s)})
    BY <2>1, <2>2, DropOne
  <2>4. s \subseteq Runs
    BY DEF Pending
  <2>5. Dropped(w, Drop(Pick(s), v), s)
    BY <2>1, <2>3, <2>4 DEF Dropped
  <2>6. Drop(Pick(s), v) \in J[s]
    BY <2>3, <2>5 DEF Sound
  <2> QED BY <2>1, <2>6
<1>3. \A s \in SUBSET rs : J[s] \subseteq Worlds
  OBVIOUS
<1> HIDE DEF J, F
<1>4. \E g : It(g)
  <2>1. \A s \in SUBSET rs : s # {} => \A v \in J[s \ {Pick(s)}] : F[<<Pick(s), v>>] \in J[s]
    BY <1>2
  <2>2. PICK g : Iterates(g, rs, w, F) /\ \A s \in SUBSET rs : g[s] \in J[s]
    BY <1>0, <1>1, <2>1, FoldStays
  <2>3. \A s \in SUBSET rs : s # {} => F[<<Pick(s), g[s \ {Pick(s)}]>>] = Drop(Pick(s), g[s \ {Pick(s)}])
    BY <1>2, <2>2
  <2>4. It(g)
    BY <2>2, <2>3 DEF Iterates
  <2> QED BY <2>4
<1>5. It(G)
  BY <1>4
<1>6. DropAll(w, rs) = G[rs]
  BY DEF DropAll, FoldSet, MapThenFoldSet, Pick
<1> HIDE DEF G
<1>7. G[{}] = w /\ \A s \in SUBSET rs : s # {} => G[s] = Drop(Pick(s), G[s \ {Pick(s)}])
  BY <1>5
<1>8. \A s \in SUBSET rs : s # {} /\ G[s \ {Pick(s)}] \in J[s \ {Pick(s)}] => G[s] \in J[s]
  BY <1>2, <1>7
<1>9. G[rs] \in J[rs]
  BY <1>0, <1>1, <1>7, <1>8, TakenStays
<1> QED BY <1>6, <1>9 DEF J

\* Dropping twice is dropping both.
LEMMA DroppedAgain ==
  ASSUME NEW w, NEW u, NEW v, NEW rs \in SUBSET Runs, NEW ss \in SUBSET Runs,
         Dropped(w, u, rs), Dropped(u, v, ss)
  PROVE  Dropped(w, v, rs \cup ss)
BY DEF Dropped

LEMMA DroppedNone == ASSUME NEW w PROVE Dropped(w, w, {})
BY DEF Dropped

\* The sweep timer is not part of what is dropped, nor of soundness.
LEMMA SweepingAside ==
  ASSUME NEW w, NEW free, NEW x, Sound(w, free, x), NEW b \in BOOLEAN
  PROVE  Sound([w EXCEPT !.sweeping = b], free, x) /\ Dropped(w, [w EXCEPT !.sweeping = b], {})
<1> DEFINE v == [w EXCEPT !.sweeping = b]
<1>1. w \in Worlds
  BY DEF Sound
<1>2. v \in Worlds
  BY <1>1 DEF Worlds
<1>3. /\ v.att = w.att /\ v.done = w.done /\ v.told = w.told /\ v.queue = w.queue
      /\ v.waits = w.waits /\ v.tracked = w.tracked /\ v.probes = w.probes /\ v.tries = w.tries
      /\ v.flight = w.flight
  BY <1>1 DEF Worlds
<1> HIDE DEF v
<1>4. Sound(v, free, x) /\ Dropped(w, v, {})
  BY <1>2, <1>3 DEF Sound, Unsettled, Untouched, Reported, Dropped
<1> QED BY <1>4 DEF v

LEMMA StopKeeps ==
  ASSUME NEW w, NEW free, NEW x, Sound(w, free, x)
  PROVE  \E rs \in SUBSET (Pending(w) \cap late) :
           Sound(StopIfIdle(w), free, x) /\ Dropped(w, StopIfIdle(w), rs)
<1> DEFINE v == IF w.tracked = {} THEN w ELSE DropAll(w, Pending(w) \cap late)
<1>1. PICK rs \in SUBSET (Pending(w) \cap late) : Sound(v, free, x) /\ Dropped(w, v, rs)
  <2>1. CASE w.tracked = {}
    BY <2>1, DroppedNone
  <2>2. CASE w.tracked # {}
    BY <2>2, DropAllKeeps
  <2> QED BY <2>1, <2>2
<1>2. CASE ~w.sweeping
  BY <1>2, DroppedNone DEF StopIfIdle
<1>3. CASE w.sweeping
  <2>1. StopIfIdle(w) = v \/ StopIfIdle(w) = [v EXCEPT !.sweeping = FALSE]
    BY <1>3 DEF StopIfIdle
  <2> HIDE DEF v
  <2>2. CASE StopIfIdle(w) = v
    BY <1>1, <2>2
  <2>3. CASE StopIfIdle(w) = [v EXCEPT !.sweeping = FALSE]
    <3>0. Sound([v EXCEPT !.sweeping = FALSE], free, x) /\ Dropped(v, [v EXCEPT !.sweeping = FALSE], {})
      BY <1>1, SweepingAside
    <3>1. Sound(StopIfIdle(w), free, x) /\ Dropped(v, StopIfIdle(w), {})
      BY <2>3, <3>0
    <3>2. Dropped(w, StopIfIdle(w), rs \cup {})
      BY <1>1, <3>1, DroppedAgain DEF Pending
    <3>3. rs \cup {} = rs
      OBVIOUS
    <3> QED BY <3>1, <3>2, <3>3
  <2> QED BY <2>1, <2>2, <2>3
<1> QED BY <1>2, <1>3

LEMMA DropNowKeeps ==
  ASSUME NEW w, NEW free, NEW x, Sound(w, free, x), NEW rs \in SUBSET Pending(w)
  PROVE  \E ss \in SUBSET (Pending(w) \cap late) :
           Sound(DropNow(w, rs), free, x) /\ Dropped(w, DropNow(w, rs), rs \cup ss)
<1>1. CASE rs = {}
  BY <1>1, DroppedNone DEF DropNow
<1>2. CASE rs # {}
  <2> DEFINE v == DropAll(w, rs)
  <2>1. Sound(v, free, x) /\ Dropped(w, v, rs)
    BY DropAllKeeps
  <2>2. DropNow(w, rs) = StopIfIdle(v)
    BY <1>2 DEF DropNow
  <2> HIDE DEF v
  <2>3. PICK ss \in SUBSET (Pending(v) \cap late) : Sound(StopIfIdle(v), free, x) /\ Dropped(v, StopIfIdle(v), ss)
    BY <2>1, StopKeeps
  <2>4. Pending(v) \subseteq Pending(w)
    BY <2>1 DEF Dropped, Pending
  <2>5. Dropped(w, StopIfIdle(v), rs \cup ss)
    BY <2>1, <2>3, DroppedAgain DEF Pending
  <2> QED BY <2>2, <2>3, <2>4, <2>5
<1> QED BY <1>1, <1>2

\* What is late is no longer pending afterwards.
LEMMA ExpireKeeps ==
  ASSUME NEW w, NEW free, NEW x, Sound(w, free, x)
  PROVE  Sound(Expire(w), free, x) /\ Dropped(w, Expire(w), Pending(w) \cap late)
<1>1. PICK ss \in SUBSET (Pending(w) \cap late) :
        /\ Sound(DropNow(w, Pending(w) \cap late), free, x)
        /\ Dropped(w, DropNow(w, Pending(w) \cap late), (Pending(w) \cap late) \cup ss)
  BY DropNowKeeps
<1>2. (Pending(w) \cap late) \cup ss = Pending(w) \cap late
  OBVIOUS
<1> QED BY <1>1, <1>2 DEF Expire

----------------------------------------------------------------------------
(* One reply is looked at. *)

\* What an observation of r does to the others: their attempts may end.
Moved(w, v, r) ==
  /\ v.waits = w.waits /\ w.tracked \subseteq v.tracked /\ v.tracked \subseteq w.tracked \cup {r}
  /\ \A q \in Runs \ {r} : v.att[q] = w.att[q] \/ v.att[q] = NoAttempt

LEMMA DroppedIsMoved ==
  ASSUME NEW w, NEW v, NEW rs, NEW r \in Runs, Dropped(w, v, rs)
  PROVE  Moved(w, v, r)
BY DEF Dropped, Moved

LEMMA MovedTwice ==
  ASSUME NEW w, NEW u, NEW v, NEW r \in Runs, Moved(w, u, r), Moved(u, v, r)
  PROVE  Moved(w, v, r)
BY DEF Moved

\* The observation of r ends.
LEMMA AnnounceKeeps ==
  ASSUME NEW w, NEW free, NEW x, Sound(w, free, x), NEW r \in Runs, r \notin free, w.told[r] = <<>>,
         w.waits[r] = "no" \/ r \in x,
         NEW d \in Statuses \cup {"none"}, NEW status \in Statuses, NEW v,
         v = Announce(Ending(w, r, d), r, status)
  PROVE  Sound(v, free, x) /\ Moved(w, v, r) /\ v.att[r] = NoAttempt
<1> DEFINE u == Report(Ending(w, r, d), r, status)
<1>2. v = StopIfIdle(u)
  BY DEF Announce
<1>0. u = Report(Ending(w, r, d), r, status)
  OBVIOUS
<1> HIDE DEF u
<1>1. Sound(u, free, x) /\ Dropped(w, u, {r})
  BY <1>0, EndKeeps
<1>3. PICK rs \in SUBSET (Pending(u) \cap late) : Sound(v, free, x) /\ Dropped(u, v, rs)
  BY <1>1, <1>2, StopKeeps
<1>4. Dropped(w, v, {r} \cup rs)
  BY <1>1, <1>3, DroppedAgain DEF Pending
<1>5. v.att[r] = NoAttempt
  BY <1>4 DEF Dropped
<1> QED BY <1>3, <1>4, <1>5, DroppedIsMoved

\* A probe is sent: the attempt of r is a new one.
LEMMA NewKeeps ==
  ASSUME NEW w, NEW free, NEW x, Sound(w, free, x), NEW r \in Runs, r \notin free, w.told[r] = <<>>,
         w.waits[r] = "no" \/ r \in x, NEW id \in Ids, NEW rev \in 1..MaxRev, NEW v,
         v = Track(NewAttempt(w, r, id, rev), r)
  PROVE  Sound(v, free, x) /\ Moved(w, v, r) /\ v.att[r].rev = rev
<1> DEFINE n == w.tries[r] + 1
           a == [n |-> n, id |-> id, rev |-> rev]
           p == [run |-> r, n |-> n, id |-> id, rev |-> rev]
           u == NewAttempt(w, r, id, rev)
<1>0. w \in Worlds
  BY DEF Sound
<1>1. n \in Nat \ {0}
  BY <1>0 DEF Worlds, Tries
<1> HIDE DEF n
<1>2. a \in Attempts /\ a # NoAttempt /\ a.rev = rev /\ p \in Probes
  BY <1>1, BoundsAssumption DEF Attempts, NoAttempt, Probes
<1>3. u = [w EXCEPT !.att[r] = a, !.tries[r] = n, !.done[r] = "none", !.probes = @ \cup {p}]
  BY DEF NewAttempt, n
<1> HIDE DEF a, p
<1>4. [w.att EXCEPT ![r] = a] \in Atts
  BY <1>0, <1>2 DEF Worlds, Atts
<1>5. [w.tries EXCEPT ![r] = n] \in Tries
  BY <1>0, <1>1 DEF Worlds, Tries
<1>6. [w.done EXCEPT ![r] = "none"] \in Dones
  BY <1>0 DEF Worlds, Dones
<1>7. w.probes \cup {p} \in SUBSET Probes
  BY <1>0, <1>2 DEF Worlds
<1>8. /\ u \in Worlds /\ u.att = [w.att EXCEPT ![r] = a] /\ u.done = [w.done EXCEPT ![r] = "none"]
      /\ u.told = w.told /\ u.waits = w.waits /\ u.tracked = w.tracked
      /\ u.queue = w.queue /\ u.flight = w.flight
  BY <1>0, <1>3, <1>4, <1>5, <1>6, <1>7 DEF Worlds
<1> HIDE DEF u
<1>9. /\ v \in Worlds /\ v.att = u.att /\ v.done = u.done /\ v.told = u.told /\ v.waits = u.waits
      /\ v.tracked = u.tracked \cup {r} /\ v.queue = u.queue /\ v.flight = u.flight
  BY <1>8 DEF Track, Worlds, u
<1>10. v.att[r] = a /\ v.done[r] = "none" /\ \A q \in Runs \ {r} : v.att[q] = w.att[q] /\ v.done[q] = w.done[q]
  BY <1>0, <1>8, <1>9 DEF Worlds, Atts, Dones
<1>11. Unsettled(v, x) /\ Untouched(v, free) /\ Reported(v)
  BY <1>8, <1>9, <1>10 DEF Sound, Unsettled, Untouched, Reported
<1>12. Moved(w, v, r)
  BY <1>8, <1>9, <1>10 DEF Moved
<1> QED BY <1>2, <1>9, <1>10, <1>11, <1>12 DEF Sound

\* An attempt that is for the right client and revision goes on.
LEMMA TrackKeeps ==
  ASSUME NEW w, NEW free, NEW x, Sound(w, free, x), NEW r \in Runs
  PROVE  Sound(Track(w, r), free, x) /\ Moved(w, Track(w, r), r) /\ Track(w, r).att = w.att
<1>0. w \in Worlds
  BY DEF Sound
<1> DEFINE v == Track(w, r)
<1>1. /\ v \in Worlds /\ v.att = w.att /\ v.done = w.done /\ v.told = w.told /\ v.waits = w.waits
      /\ v.tracked = w.tracked \cup {r} /\ v.queue = w.queue /\ v.flight = w.flight
  BY <1>0 DEF Track, Worlds
<1> HIDE DEF v
<1>2. Sound(v, free, x) /\ Moved(w, v, r) /\ v.att = w.att
  BY <1>1 DEF Sound, Unsettled, Untouched, Reported, Moved
<1> QED BY <1>2 DEF v

\* What r must be for it to be observed: not announced, and not late while it is pending.
Observable(w, free, x, r) ==
  /\ r \notin free /\ w.told[r] = <<>> /\ (w.waits[r] = "no" \/ r \in x)
  /\ w.att[r] = NoAttempt \/ r \notin late

LEMMA ObserveKeeps ==
  ASSUME NEW w0, NEW free, NEW x, Sound(w0, free, x), NEW r \in Runs, Observable(w0, free, x, r),
         NEW rev \in 1..MaxRev, Recipient(r) \in Ids, NEW v, v = Observe(w0, r, rev)
  PROVE  Sound(v, free, x) /\ Moved(w0, v, r) /\ (v.att[r] # NoAttempt => v.att[r].rev = rev)
<1> DEFINE w == Expire(w0)
           id == Recipient(r)
<1>1. Sound(w, free, x) /\ Dropped(w0, w, Pending(w0) \cap late)
  BY ExpireKeeps
<1>2. Moved(w0, w, r)
  BY <1>1, DroppedIsMoved
<1>3. r \notin free /\ w.told[r] = <<>> /\ (w.waits[r] = "no" \/ r \in x)
  BY <1>1 DEF Dropped, Observable, Pending
<1>4. w.done[r] # "accepted"
  BY <1>1, <1>3 DEF Sound, Unsettled
<1>5. \/ v = Settle(w, r, "unconfirmed") \/ v = Settle(w, r, "unsupported")
      \/ v = Track(IF SameTarget(w.att[r], id, rev) THEN w ELSE NewAttempt(w, r, id, rev), r)
  BY <1>4 DEF Observe
<1> HIDE DEF w
<1>6. ASSUME NEW s \in Statuses, v = Settle(w, r, s)
      PROVE  Sound(v, free, x) /\ Moved(w, v, r) /\ v.att[r] = NoAttempt
  <2>1. v = Announce(Ending(w, r, s), r, s)
    BY <1>6 DEF Settle, Ending
  <2> QED BY <1>1, <1>3, <1>6, <2>1, AnnounceKeeps
<1>7. CASE \E s \in Statuses : v = Settle(w, r, s)
  BY <1>2, <1>6, <1>7, MovedTwice
<1>8. CASE v = Track(w, r) /\ SameTarget(w.att[r], id, rev)
  <2>1. Sound(v, free, x) /\ Moved(w, v, r) /\ v.att = w.att
    BY <1>1, <1>8, TrackKeeps
  <2> QED BY <1>2, <1>8, <2>1, MovedTwice DEF SameTarget
<1>9. CASE v = Track(NewAttempt(w, r, id, rev), r)
  <2>1. Sound(v, free, x) /\ Moved(w, v, r) /\ v.att[r].rev = rev
    BY <1>1, <1>3, <1>9, NewKeeps
  <2> QED BY <1>2, <2>1, MovedTwice
<1>10. {"unconfirmed", "unsupported"} \subseteq Statuses
  BY DEF Statuses
<1> QED BY <1>5, <1>7, <1>8, <1>9, <1>10

LEMMA TryKeeps ==
  ASSUME NEW w, NEW free, NEW x, Sound(w, free, x), NEW r \in Runs, Observable(w, free, x, r),
         NEW e \in Entries, e.shape = "text" => e.rev > 0, origin \in [Runs -> Ids \cup {0}],
         NEW v, v = TryObserve(w, r, e)
  PROVE  /\ Sound(v, free, x) /\ Moved(w, v, r)
         /\ v.att[r] # NoAttempt /\ e.shape = "text" => v.att[r].rev = e.rev
         /\ ~Settles(r, e) => v = w
<1>1. CASE v = Terminal(w, r, "unconfirmed")
  <2>1. Sound(v, free, x) /\ Moved(w, v, r) /\ v.att[r] = NoAttempt
    <3>1. "unconfirmed" \in Statuses
      BY DEF Statuses
    <3>2. r \notin free /\ w.told[r] = <<>> /\ (w.waits[r] = "no" \/ r \in x)
      BY DEF Observable
    <3>3. v = Announce(Ending(w, r, "none"), r, "unconfirmed")
      BY <1>1 DEF Terminal, Ending
    <3> QED BY <3>1, <3>2, <3>3, AnnounceKeeps
  <2>2. CASE Settles(r, e)
    BY <2>1, <2>2
  <2>3. CASE ~Settles(r, e)
    BY <2>1, <2>3 DEF TryObserve, Settles
  <2> QED BY <2>2, <2>3
<1>2. CASE e.shape = "text" /\ origin[r] # 0 /\ v = Observe(w, r, e.rev)
  <2>1. Recipient(r) \in Ids /\ e.rev \in 1..MaxRev
    BY <1>2, BoundsAssumption DEF Recipient, Entries
  <2>2. Sound(v, free, x) /\ Moved(w, v, r) /\ (v.att[r] # NoAttempt => v.att[r].rev = e.rev)
    BY <1>2, <2>1, ObserveKeeps
  <2> QED BY <1>2, <2>2 DEF Settles
<1>3. CASE e.shape # "text" /\ v = w
  <2>1. Moved(w, w, r)
    BY DEF Moved
  <2> QED BY <1>3, <2>1
<1> QED BY <1>1, <1>2, <1>3 DEF TryObserve

----------------------------------------------------------------------------
(* The entries have changed: first those who wait, then those who are followed. *)

EntriesOK(es) == /\ es \in [Runs -> Entries] /\ \A r \in Runs : es[r].shape = "text" => es[r].rev > 0
                 /\ origin \in [Runs -> Ids \cup {0}]

AnswerWait(r, v, es) ==
  [TryObserve(v, r, es[r]) EXCEPT !.waits[r] = IF Settles(r, es[r]) THEN "no" ELSE es[r].shape]

LEMMA AnswerWaitKeeps ==
  ASSUME NEW v, NEW free, Sound(v, free, {}), NEW r \in Runs, v.waits[r] # "no", NEW es, EntriesOK(es)
  PROVE  /\ Sound(AnswerWait(r, v, es), free, {})
         /\ \A q \in Runs \ {r} : AnswerWait(r, v, es).waits[q] = v.waits[q]
<1> DEFINE t == TryObserve(v, r, es[r])
           z == IF Settles(r, es[r]) THEN "no" ELSE es[r].shape
           u == [t EXCEPT !.waits[r] = z]
<1>1. r \notin free /\ v.told[r] = <<>> /\ v.att[r] = NoAttempt
  BY DEF Sound, Untouched, Unsettled
<1>2. Sound(v, free, {r}) /\ Observable(v, free, {r}, r)
  BY <1>1 DEF Sound, Unsettled, Observable
<1>3. es[r] \in Entries /\ (es[r].shape = "text" => es[r].rev > 0) /\ origin \in [Runs -> Ids \cup {0}]
  BY DEF EntriesOK
<1>4. Sound(t, free, {r}) /\ Moved(v, t, r) /\ (~Settles(r, es[r]) => t = v)
  BY <1>2, <1>3, TryKeeps
<1>5. z \in {"no", "none", "blank", "local"}
  BY <1>3, ShapesAssumption DEF Settles, Entries
<1>6. t \in Worlds
  BY <1>4 DEF Sound
<1>7. AnswerWait(r, v, es) = u
  BY DEF AnswerWait
<1> HIDE DEF t, z
<1>8. [t.waits EXCEPT ![r] = z] \in Waits
  BY <1>5, <1>6 DEF Worlds, Waits
<1>9. /\ u \in Worlds /\ u.att = t.att /\ u.done = t.done /\ u.told = t.told
      /\ u.tracked = t.tracked /\ u.queue = t.queue /\ u.flight = t.flight
      /\ u.waits = [t.waits EXCEPT ![r] = z]
  BY <1>6, <1>8 DEF Worlds
<1>10. u.waits[r] = z /\ \A q \in Runs \ {r} : u.waits[q] = t.waits[q]
  BY <1>6, <1>9 DEF Worlds, Waits
<1> HIDE DEF u
<1>11. Unsettled(u, {})
  <2>1. CASE Settles(r, es[r])
    <3>1. z = "no"
      BY <2>1 DEF z
    <3> QED BY <1>4, <1>9, <1>10, <3>1 DEF Sound, Unsettled
  <2>2. CASE ~Settles(r, es[r])
    BY <1>1, <1>4, <1>9, <1>10, <2>2 DEF Sound, Unsettled
  <2> QED BY <2>1, <2>2
<1>12. Untouched(u, free) /\ Reported(u)
  BY <1>1, <1>4, <1>9, <1>10 DEF Sound, Untouched, Reported
<1>13. \A q \in Runs \ {r} : u.waits[q] = v.waits[q]
  BY <1>4, <1>10 DEF Moved
<1> QED BY <1>7, <1>9, <1>11, <1>12, <1>13 DEF Sound

LEMMA NotifyWaitingKeeps ==
  ASSUME NEW w, NEW free, Sound(w, free, {}), NEW es, EntriesOK(es)
  PROVE  Sound(NotifyWaiting(w, es), free, {})
<1> DEFINE S == Waiting(w)
           J == [s \in SUBSET S |-> {v \in Worlds : Sound(v, free, {}) /\ \A r \in S \ s : v.waits[r] # "no"}]
           F == [p \in S \X Worlds |-> AnswerWait(p[1], p[2], es)]
           It(g) == g = [s \in SUBSET S |-> IF s = {} THEN w ELSE AnswerWait(Pick(s), g[s \ {Pick(s)}], es)]
           G == CHOOSE g : It(g)
<1>0. S \subseteq Runs
  BY DEF Waiting
<1>1. w \in J[{}]
  BY DEF Sound, Waiting
<1>2. ASSUME NEW s \in SUBSET S, s # {}, NEW v \in J[s \ {Pick(s)}]
      PROVE  AnswerWait(Pick(s), v, es) \in J[s] /\ F[<<Pick(s), v>>] = AnswerWait(Pick(s), v, es)
  <2>1. /\ Pick(s) \in s /\ v \in Worlds /\ Sound(v, free, {})
        /\ \A r \in S \ (s \ {Pick(s)}) : v.waits[r] # "no"
    BY <1>2, PickIsMember
  <2>2. Pick(s) \in Runs /\ v.waits[Pick(s)] # "no"
    BY <1>0, <2>1
  <2>3. /\ Sound(AnswerWait(Pick(s), v, es), free, {})
        /\ \A q \in Runs \ {Pick(s)} : AnswerWait(Pick(s), v, es).waits[q] = v.waits[q]
    BY <2>1, <2>2, AnswerWaitKeeps
  <2>4. \A r \in S \ s : AnswerWait(Pick(s), v, es).waits[r] # "no"
    BY <1>0, <2>1, <2>3
  <2> QED BY <2>1, <2>3, <2>4 DEF Sound
<1>3. \A s \in SUBSET S : J[s] \subseteq Worlds
  OBVIOUS
<1>4. IsFiniteSet(S)
  BY <1>0, FS_Subset, RunsAssumption
<1> HIDE DEF J, F, S
<1>5. \E g : It(g)
  <2>1. \A s \in SUBSET S : s # {} => \A v \in J[s \ {Pick(s)}] : F[<<Pick(s), v>>] \in J[s]
    BY <1>2
  <2>2. PICK g : Iterates(g, S, w, F) /\ \A s \in SUBSET S : g[s] \in J[s]
    BY <1>1, <1>4, <2>1, FoldStays
  <2>3. \A s \in SUBSET S : s # {} => F[<<Pick(s), g[s \ {Pick(s)}]>>] = AnswerWait(Pick(s), g[s \ {Pick(s)}], es)
    BY <1>2, <2>2
  <2>4. It(g)
    BY <2>2, <2>3 DEF Iterates
  <2> QED BY <2>4
<1>6. It(G)
  BY <1>5
<1>7. NotifyWaiting(w, es) = G[S]
  BY DEF NotifyWaiting, AnswerWait, FoldSet, MapThenFoldSet, Pick, S
<1> HIDE DEF G
<1>8. G[{}] = w /\ \A s \in SUBSET S : s # {} => G[s] = AnswerWait(Pick(s), G[s \ {Pick(s)}], es)
  BY <1>6
<1>9. \A s \in SUBSET S : s # {} /\ G[s \ {Pick(s)}] \in J[s \ {Pick(s)}] => G[s] \in J[s]
  BY <1>2, <1>8
<1>10. G[S] \in J[S]
  BY <1>1, <1>4, <1>8, <1>9, TakenStays
<1> QED BY <1>7, <1>10 DEF J

\* What is pending is for the revision that is shown.
Shows(v, es, r) == v.att[r] # NoAttempt /\ es[r].shape = "text" => v.att[r].rev = es[r].rev

AnswerTracked(r, v, es) ==
  IF r \in Pending(Expire(v)) THEN TryObserve(Expire(v), r, es[r])
  ELSE [Expire(v) EXCEPT !.tracked = @ \ {r}]

Untrack(w, rs) == [w EXCEPT !.tracked = w.tracked \cap rs]

LEMMA UntrackKeeps ==
  ASSUME NEW w, NEW free, Sound(w, free, {}), NEW rs \in SUBSET Runs, Pending(w) \subseteq rs
  PROVE  Sound(Untrack(w, rs), free, {}) /\ Untrack(w, rs).att = w.att
<1> DEFINE v == [w EXCEPT !.tracked = w.tracked \cap rs]
<1>1. w \in Worlds
  BY DEF Sound
<1>2. /\ v \in Worlds /\ v.att = w.att /\ v.done = w.done /\ v.told = w.told /\ v.waits = w.waits
      /\ v.tracked = w.tracked \cap rs /\ v.queue = w.queue /\ v.flight = w.flight
  BY <1>1 DEF Worlds
<1> HIDE DEF v
<1>3. Sound(v, free, {})
  BY <1>2 DEF Sound, Unsettled, Untouched, Reported, Pending
<1> QED BY <1>2, <1>3 DEF v, Untrack

LEMMA AnswerTrackedKeeps ==
  ASSUME NEW v, NEW free, Sound(v, free, {}), NEW r \in Runs, NEW es, EntriesOK(es), NEW u,
         u = AnswerTracked(r, v, es)
  PROVE  /\ Sound(u, free, {}) /\ Shows(u, es, r)
         /\ \A q \in Runs \ {r} : u.att[q] = v.att[q] \/ u.att[q] = NoAttempt
<1> DEFINE t == Expire(v)
<1>1. Sound(t, free, {}) /\ Dropped(v, t, Pending(v) \cap late)
  BY ExpireKeeps
<1>2. \/ r \in Pending(t) /\ u = TryObserve(t, r, es[r])
      \/ r \notin Pending(t) /\ u = [t EXCEPT !.tracked = @ \ {r}]
  BY DEF AnswerTracked
<1> HIDE DEF t
<1>3. \A q \in Runs : t.att[q] = v.att[q] \/ t.att[q] = NoAttempt
  BY <1>1 DEF Dropped
<1>4. CASE r \in Pending(t) /\ u = TryObserve(t, r, es[r])
  <2>1. Observable(t, free, {}, r)
    BY <1>1, <1>4 DEF Observable, Sound, Unsettled, Untouched, Pending, Dropped
  <2>2. es[r] \in Entries /\ (es[r].shape = "text" => es[r].rev > 0) /\ origin \in [Runs -> Ids \cup {0}]
    BY DEF EntriesOK
  <2>3. /\ Sound(u, free, {}) /\ Moved(t, u, r)
        /\ u.att[r] # NoAttempt /\ es[r].shape = "text" => u.att[r].rev = es[r].rev
    BY <1>1, <1>4, <2>1, <2>2, TryKeeps
  <2> QED BY <1>3, <2>3 DEF Moved, Shows
<1>5. CASE r \notin Pending(t) /\ u = [t EXCEPT !.tracked = @ \ {r}]
  <2>1. t.tracked \ {r} = t.tracked \cap (Runs \ {r}) /\ Pending(t) \subseteq Runs \ {r}
    BY <1>1, <1>5 DEF Sound, Worlds, Pending
  <2>2. u = Untrack(t, Runs \ {r})
    BY <1>5, <2>1 DEF Untrack
  <2>3. Sound(u, free, {}) /\ u.att = t.att
    BY <1>1, <2>1, <2>2, UntrackKeeps
  <2> QED BY <1>3, <1>5, <2>3 DEF Shows, Pending
<1> QED BY <1>2, <1>4, <1>5

LEMMA NotifyTrackedKeeps ==
  ASSUME NEW w, NEW free, Sound(w, free, {}), NEW es, EntriesOK(es)
  PROVE  /\ Sound(NotifyTracked(w, es), free, {})
         /\ \A r \in Runs : Shows(NotifyTracked(w, es), es, r)
<1> DEFINE S == w.tracked \ Waiting(w)
           J == [s \in SUBSET S |-> {v \in Worlds : Sound(v, free, {}) /\ \A r \in Runs : r \in S \ s \/ Shows(v, es, r)}]
           F == [p \in S \X Worlds |-> AnswerTracked(p[1], p[2], es)]
           It(g) == g = [s \in SUBSET S |-> IF s = {} THEN w ELSE AnswerTracked(Pick(s), g[s \ {Pick(s)}], es)]
           G == CHOOSE g : It(g)
<1>0. S \subseteq Runs
  BY DEF Sound, Worlds
<1>1. w \in J[{}]
  <2>1. \A r \in Runs : w.att[r] # NoAttempt => r \in S
    BY DEF Sound, Unsettled, Waiting
  <2> QED BY <2>1 DEF Sound, Shows
<1>2. ASSUME NEW s \in SUBSET S, s # {}, NEW v \in J[s \ {Pick(s)}]
      PROVE  AnswerTracked(Pick(s), v, es) \in J[s] /\ F[<<Pick(s), v>>] = AnswerTracked(Pick(s), v, es)
  <2> DEFINE u == AnswerTracked(Pick(s), v, es)
  <2>1. /\ Pick(s) \in s /\ v \in Worlds /\ Sound(v, free, {})
        /\ \A r \in Runs : r \in S \ (s \ {Pick(s)}) \/ Shows(v, es, r)
    BY <1>2, PickIsMember
  <2>2. Pick(s) \in Runs
    BY <1>0, <2>1
  <2>3. /\ Sound(u, free, {}) /\ Shows(u, es, Pick(s))
        /\ \A q \in Runs \ {Pick(s)} : u.att[q] = v.att[q] \/ u.att[q] = NoAttempt
    BY <2>1, <2>2, AnswerTrackedKeeps
  <2>4. F[<<Pick(s), v>>] = u
    BY <2>1
  <2> HIDE DEF u, S
  <2>5. \A r \in Runs : r \in S \ s \/ Shows(u, es, r)
    BY <2>1, <2>3 DEF Shows
  <2>6. u \in J[s]
    BY <2>3, <2>5 DEF Sound
  <2> QED BY <2>4, <2>6 DEF u
<1>3. \A s \in SUBSET S : J[s] \subseteq Worlds
  OBVIOUS
<1>4. IsFiniteSet(S)
  BY <1>0, FS_Subset, RunsAssumption
<1> HIDE DEF J, F, S
<1>5. \E g : It(g)
  <2>1. \A s \in SUBSET S : s # {} => \A v \in J[s \ {Pick(s)}] : F[<<Pick(s), v>>] \in J[s]
    BY <1>2
  <2>2. PICK g : Iterates(g, S, w, F) /\ \A s \in SUBSET S : g[s] \in J[s]
    BY <1>1, <1>4, <2>1, FoldStays
  <2>3. \A s \in SUBSET S : s # {} => F[<<Pick(s), g[s \ {Pick(s)}]>>] = AnswerTracked(Pick(s), g[s \ {Pick(s)}], es)
    BY <1>2, <2>2
  <2>4. It(g)
    BY <2>2, <2>3 DEF Iterates
  <2> QED BY <2>4
<1>6. It(G)
  BY <1>5
<1>7. NotifyTracked(w, es) = G[S]
  BY DEF NotifyTracked, AnswerTracked, FoldSet, MapThenFoldSet, Pick, S
<1> HIDE DEF G
<1>8. G[{}] = w /\ \A s \in SUBSET S : s # {} => G[s] = AnswerTracked(Pick(s), G[s \ {Pick(s)}], es)
  BY <1>6
<1>9. \A s \in SUBSET S : s # {} /\ G[s \ {Pick(s)}] \in J[s \ {Pick(s)}] => G[s] \in J[s]
  BY <1>2, <1>8
<1>10. G[S] \in J[S]
  BY <1>1, <1>4, <1>8, <1>9, TakenStays
<1> QED BY <1>7, <1>10 DEF J

LEMMA NotifyKeeps ==
  ASSUME NEW w, NEW free, Sound(w, free, {}), NEW es, EntriesOK(es)
  PROVE  Sound(Notify(w, es), free, {}) /\ \A r \in Runs : Shows(Notify(w, es), es, r)
BY NotifyWaitingKeeps, NotifyTrackedKeeps DEF Notify

\* The late waits end.
LEMMA EndWaitKeeps ==
  ASSUME NEW v, NEW free, Sound(v, free, {}), NEW r \in Runs, v.waits[r] # "no"
  PROVE  /\ Sound(EndWait(r, v), free, {})
         /\ \A q \in Runs \ {r} : EndWait(r, v).waits[q] = v.waits[q]
         /\ \A q \in Runs : EndWait(r, v).att[q] = v.att[q] \/ EndWait(r, v).att[q] = NoAttempt
<1> DEFINE u == [v EXCEPT !.waits[r] = "no"]
<1>1. v \in Worlds /\ r \notin free /\ v.told[r] = <<>>
  BY DEF Sound, Untouched, Unsettled
<1>2. [v.waits EXCEPT ![r] = "no"] \in Waits
  BY <1>1 DEF Worlds, Waits
<1>3. /\ u \in Worlds /\ u.att = v.att /\ u.done = v.done /\ u.told = v.told
      /\ u.tracked = v.tracked /\ u.queue = v.queue /\ u.flight = v.flight
      /\ u.waits = [v.waits EXCEPT ![r] = "no"]
  BY <1>1, <1>2 DEF Worlds
<1>4. u.waits[r] = "no" /\ \A q \in Runs \ {r} : u.waits[q] = v.waits[q]
  BY <1>1, <1>3 DEF Worlds, Waits
<1>5. PICK s \in Statuses : EndWait(r, v) = Announce(Ending(u, r, "none"), r, s)
  BY DEF EndWait, Terminal, Ending, Statuses
<1> HIDE DEF u
<1>6. Sound(u, free, {})
  BY <1>3, <1>4 DEF Sound, Unsettled, Untouched, Reported
<1>7. Sound(EndWait(r, v), free, {}) /\ Moved(u, EndWait(r, v), r) /\ EndWait(r, v).att[r] = NoAttempt
  BY <1>1, <1>3, <1>4, <1>5, <1>6, AnnounceKeeps
<1> QED BY <1>3, <1>4, <1>7 DEF Moved

EndWaits(w) == FoldSet(EndWait, w, Waiting(w) \cap late)

LEMMA EndWaitsKeep ==
  ASSUME NEW w, NEW free, Sound(w, free, {})
  PROVE  /\ Sound(EndWaits(w), free, {})
         /\ \A r \in Runs : EndWaits(w).att[r] = w.att[r] \/ EndWaits(w).att[r] = NoAttempt
<1> DEFINE S == Waiting(w) \cap late
           J == [s \in SUBSET S |-> {v \in Worlds : Sound(v, free, {}) /\ (\A r \in S \ s : v.waits[r] # "no")
                                                /\ \A r \in Runs : v.att[r] = w.att[r] \/ v.att[r] = NoAttempt}]
           F == [p \in S \X Worlds |-> EndWait(p[1], p[2])]
           It(g) == g = [s \in SUBSET S |-> IF s = {} THEN w ELSE EndWait(Pick(s), g[s \ {Pick(s)}])]
           G == CHOOSE g : It(g)
<1>0. S \subseteq Runs
  BY DEF Waiting
<1>1. w \in J[{}]
  BY DEF Sound, Waiting
<1>2. ASSUME NEW s \in SUBSET S, s # {}, NEW v \in J[s \ {Pick(s)}]
      PROVE  EndWait(Pick(s), v) \in J[s] /\ F[<<Pick(s), v>>] = EndWait(Pick(s), v)
  <2>1. /\ Pick(s) \in s /\ v \in Worlds /\ Sound(v, free, {})
        /\ \A r \in S \ (s \ {Pick(s)}) : v.waits[r] # "no"
        /\ \A r \in Runs : v.att[r] = w.att[r] \/ v.att[r] = NoAttempt
    BY <1>2, PickIsMember
  <2>2. Pick(s) \in Runs /\ v.waits[Pick(s)] # "no"
    BY <1>0, <2>1
  <2>3. /\ Sound(EndWait(Pick(s), v), free, {})
        /\ \A q \in Runs \ {Pick(s)} : EndWait(Pick(s), v).waits[q] = v.waits[q]
        /\ \A q \in Runs : EndWait(Pick(s), v).att[q] = v.att[q] \/ EndWait(Pick(s), v).att[q] = NoAttempt
    BY <2>1, <2>2, EndWaitKeeps
  <2>4. \A r \in S \ s : EndWait(Pick(s), v).waits[r] # "no"
    BY <1>0, <2>1, <2>3
  <2>5. \A r \in Runs : EndWait(Pick(s), v).att[r] = w.att[r] \/ EndWait(Pick(s), v).att[r] = NoAttempt
    BY <2>1, <2>3
  <2> QED BY <2>1, <2>3, <2>4, <2>5 DEF Sound
<1>3. \A s \in SUBSET S : J[s] \subseteq Worlds
  OBVIOUS
<1>4. IsFiniteSet(S)
  BY <1>0, FS_Subset, RunsAssumption
<1> HIDE DEF J, F, S
<1>5. \E g : It(g)
  <2>1. \A s \in SUBSET S : s # {} => \A v \in J[s \ {Pick(s)}] : F[<<Pick(s), v>>] \in J[s]
    BY <1>2
  <2>2. PICK g : Iterates(g, S, w, F) /\ \A s \in SUBSET S : g[s] \in J[s]
    BY <1>1, <1>4, <2>1, FoldStays
  <2>3. \A s \in SUBSET S : s # {} => F[<<Pick(s), g[s \ {Pick(s)}]>>] = EndWait(Pick(s), g[s \ {Pick(s)}])
    BY <1>2, <2>2
  <2>4. It(g)
    BY <2>2, <2>3 DEF Iterates
  <2> QED BY <2>4
<1>6. It(G)
  BY <1>5
<1>7. EndWaits(w) = G[S]
  BY DEF EndWaits, FoldSet, MapThenFoldSet, Pick, S
<1> HIDE DEF G
<1>8. G[{}] = w /\ \A s \in SUBSET S : s # {} => G[s] = EndWait(Pick(s), G[s \ {Pick(s)}])
  BY <1>6
<1>9. \A s \in SUBSET S : s # {} /\ G[s \ {Pick(s)}] \in J[s \ {Pick(s)}] => G[s] \in J[s]
  BY <1>2, <1>8
<1>10. G[S] \in J[S]
  BY <1>1, <1>4, <1>8, <1>9, TakenStays
<1> QED BY <1>7, <1>10 DEF J

----------------------------------------------------------------------------
(* The queue of reports. *)

LEMMA OthersAre ==
  ASSUME NEW w \in Worlds, NEW r
  PROVE  /\ Others(w, r) \in Queues
         /\ \A i \in DOMAIN Others(w, r) : \E j \in DOMAIN w.queue : Others(w, r)[i] = w.queue[j]
<1> DEFINE at == {i \in DOMAIN w.queue : w.queue[i].run = r}
<1>0. w.queue \in Seq(Reports)
  BY DEF Worlds, Queues
<1>1. CASE at = {}
  BY <1>0, <1>1 DEF Others, Queues
<1>2. CASE at # {}
  <2> DEFINE k == CHOOSE i \in at : TRUE
             a == SubSeq(w.queue, 1, k - 1)
             b == SubSeq(w.queue, k + 1, Len(w.queue))
  <2>1. k \in 1 .. Len(w.queue)
    BY <1>0, <1>2
  <2>2. Others(w, r) = a \o b
    BY <1>2 DEF Others, RemoveAt
  <2> HIDE DEF k
  <2>3. a \in Seq(Reports) /\ b \in Seq(Reports) /\ Len(a) = k - 1 /\ Len(b) = Len(w.queue) - k
    BY <1>0, <2>1
  <2>4. ASSUME NEW i \in 1 .. (k - 1) PROVE a[i] = w.queue[i]
    BY <1>0, <2>1
  <2>5. ASSUME NEW i \in 1 .. (Len(w.queue) - k) PROVE b[i] = w.queue[k + i]
    BY <1>0, <2>1
  <2> HIDE DEF a, b
  <2>6. ASSUME NEW i \in DOMAIN Others(w, r)
        PROVE  \E j \in DOMAIN w.queue : Others(w, r)[i] = w.queue[j]
    <3>1. i \in 1 .. (Len(a) + Len(b))
      BY <2>2, <2>3
    <3>2. CASE i <= k - 1
      <4>1. Others(w, r)[i] = a[i] /\ i \in 1 .. (k - 1)
        BY <2>1, <2>2, <2>3, <3>1, <3>2
      <4>2. i \in DOMAIN w.queue
        BY <1>0, <2>1, <4>1
      <4> QED BY <2>4, <4>1, <4>2
    <3>3. CASE i > k - 1
      <4>1. i - (k - 1) \in 1 .. (Len(w.queue) - k)
        BY <1>0, <2>1, <2>3, <3>1, <3>3
      <4>2. Others(w, r)[i] = b[i - (k - 1)]
        BY <2>1, <2>2, <2>3, <3>1, <3>3
      <4>3. k + (i - (k - 1)) \in DOMAIN w.queue
        BY <1>0, <2>1, <4>1
      <4> QED BY <2>5, <4>1, <4>2, <4>3
    <3> QED BY <2>1, <3>1, <3>2, <3>3
  <2> QED BY <2>2, <2>3, <2>6 DEF Queues
<1> QED BY <1>1, <1>2

\* A queue made of what was in it, with nothing under way, is sound.
Requeued(w, q, b) == [w EXCEPT !.flight = NoFlight, !.queue = q, !.retrying = b]

LEMMA RequeueKeeps ==
  ASSUME NEW w, NEW free, Sound(w, free, {}), NEW q \in Queues, NEW b \in BOOLEAN,
         \A i \in DOMAIN q : \E j \in DOMAIN w.queue : q[i].run = w.queue[j].run
  PROVE  Sound(Requeued(w, q, b), free, {}) /\ Requeued(w, q, b).att = w.att
<1> DEFINE v == Requeued(w, q, b)
<1>0. w \in Worlds
  BY DEF Sound
<1>1. /\ v \in Worlds /\ v.att = w.att /\ v.done = w.done /\ v.told = w.told /\ v.waits = w.waits
      /\ v.tracked = w.tracked /\ v.queue = q /\ v.flight = NoFlight
  BY <1>0, NoFlightIs DEF Requeued, Worlds
<1> HIDE DEF v
<1>2. Unsettled(v, {}) /\ Untouched(v, free)
  BY <1>1 DEF Sound, Unsettled, Untouched
<1>3. \A i \in DOMAIN q : w.told[q[i].run] # <<>>
  BY DEF Sound, Reported
<1>4. Reported(v)
  BY <1>1, <1>3 DEF Reported
<1>5. Sound(v, free, {})
  BY <1>1, <1>2, <1>4 DEF Sound
<1> QED BY <1>1, <1>5 DEF v

----------------------------------------------------------------------------
(* The invariant of the system. *)

\* Runs no observation of which has been taken up.
Free == asks \cup (Runs \ published)

ClientType == /\ holder \in [Ids -> Phones \cup {None}] /\ nextId \in 1..(MaxIds + 1)
              /\ sender \in [Runs -> Phones \cup {None}] /\ acks \subseteq Runs \X Ids
EntryType == EntriesOK(reply) /\ errored \subseteq Runs /\ late \subseteq Runs
SeenType == seen \in [Runs -> {None} \cup [rev : Nat, entry : Entries]]
GatewayType == /\ current \in Runs \cup {None} /\ published \subseteq Runs
               /\ record \in [run : Runs \cup {None}, status : Statuses \cup {"none"}]
               /\ asks \subseteq published
\* What is recorded has been answered: nobody is to be asked for it again.
RecordIsAnswer == record.run \notin Free
WorldInv == World \in Worlds /\ Sound(World, Free, {})
ShownInv == \A r \in Runs : att[r] # NoAttempt /\ reply[r].shape = "text" => att[r].rev = reply[r].rev

ReplyInv == /\ ClientType /\ EntryType /\ SeenType /\ GatewayType /\ RecordIsAnswer
            /\ WorldInv /\ ShownInv /\ EvidenceIsCurrent

\* The link's variables become a world that is sound.
LEMMA BecomesIs ==
  ASSUME NEW v \in Worlds, Becomes(v)
  PROVE  World' = v
<1>1. /\ att' = v.att /\ done' = v.done /\ waits' = v.waits /\ tracked' = v.tracked
      /\ sweeping' = v.sweeping /\ probes' = v.probes /\ tries' = v.tries /\ told' = v.told
      /\ queue' = v.queue /\ flight' = v.flight /\ retrying' = v.retrying
  BY DEF Becomes
<1> QED BY <1>1 DEF World, Worlds

LEMMA BecomesKeeps ==
  ASSUME NEW v, NEW free, Sound(v, free, {}), Becomes(v), Free' = free
  PROVE  WorldInv' /\ att' = v.att
<1>1. v \in Worlds
  BY DEF Sound
<1>2. World' = v /\ att' = v.att
  BY <1>1, BecomesIs DEF Becomes
<1> QED BY <1>1, <1>2 DEF WorldInv

LEMMA WorldStays ==
  ASSUME WorldInv, UNCHANGED <<relay, asks, published>>
  PROVE  WorldInv'
BY DEF WorldInv, World, relay, pipe, Free

\* A run that is taken up is no longer free; all the others stay as they were.
LEMMA FreeShrinks ==
  ASSUME NEW w, NEW free, Sound(w, free, {}), NEW r
  PROVE  Sound(w, free \ {r}, {})
BY DEF Sound, Untouched

LEMMA AskedIsFree ==
  ASSUME GatewayType, NEW r \in asks, asks' = asks \ {r}, published' = published
  PROVE  r \in Runs /\ r \in Free /\ Free' = Free \ {r}
BY DEF GatewayType, Free

----------------------------------------------------------------------------
(* The initial state. *)

LEMMA Begins == ASSUME Init PROVE ReplyInv
<1>1. ClientType /\ EntryType /\ SeenType /\ GatewayType
  BY ShapesAssumption, BoundsAssumption
     DEF Init, ClientType, EntryType, EntriesOK, Entries, SeenType, GatewayType, Ids
<1>2. RecordIsAnswer
  BY PhonesAssumption DEF Init, RecordIsAnswer, Free
<1>3. World \in Worlds
  <2>1. att \in Atts /\ done \in Dones /\ waits \in Waits /\ tries \in Tries /\ told \in Tolds
    BY NoFlightIs DEF Init, Atts, Dones, Waits, Tries, Tolds
  <2>2. queue \in Queues /\ flight \in Flights /\ probes \in SUBSET Probes
    BY NoFlightIs DEF Init, Queues
  <2>3. tracked \in SUBSET Runs /\ sweeping \in BOOLEAN /\ retrying \in BOOLEAN
    BY DEF Init
  <2> QED BY <2>1, <2>2, <2>3 DEF World, Worlds
<1>4. Sound(World, Free, {})
  <2>1. Unsettled(World, {}) /\ Untouched(World, Free)
    BY DEF Init, World, Unsettled, Untouched, Free
  <2>2. Reported(World)
    BY DEF Init, World, Reported
  <2> QED BY <1>3, <2>1, <2>2 DEF Sound
<1>5. ShownInv /\ EvidenceIsCurrent
  BY DEF Init, ShownInv, EvidenceIsCurrent
<1> QED BY <1>1, <1>2, <1>3, <1>4, <1>5 DEF ReplyInv, WorldInv

----------------------------------------------------------------------------
(* The relay's steps. *)

\* What a step of the relay leaves alone unless it says so.
Beside == <<holder, nextId, sender, acks, errored, record, current, published>>

LEMMA BesideStays ==
  ASSUME ReplyInv, UNCHANGED Beside, UNCHANGED asks
  PROVE  ClientType' /\ GatewayType' /\ RecordIsAnswer' /\ Free' = Free
BY DEF ReplyInv, Beside, ClientType, GatewayType, RecordIsAnswer, Free

\* Attempts that stay or end are for what is shown, if what is shown stays.
LEMMA ShownStays ==
  ASSUME ShownInv, reply' = reply, \A r \in Runs : att'[r] = att[r] \/ att'[r] = NoAttempt
  PROVE  ShownInv'
BY DEF ShownInv

LEMMA EntryStays ==
  ASSUME EntryType, SeenType, EvidenceIsCurrent, UNCHANGED <<reply, origin, errored, late, seen>>
  PROVE  EntryType' /\ SeenType' /\ EvidenceIsCurrent'
BY DEF EntryType, EntriesOK, SeenType, EvidenceIsCurrent

LEMMA AskedKeeps == ASSUME ReplyInv, NEW r \in Runs, Asked(r) PROVE ReplyInv'
<1> DEFINE w == TryObserve(World, r, reply[r])
           v == [World EXCEPT !.waits[r] = reply[r].shape, !.sweeping = TRUE]
           f == Free \ {r}
<1>1. /\ r \in asks /\ asks' = asks \ {r} /\ UNCHANGED Beside
      /\ UNCHANGED <<origin, reply, late, seen>>
  BY DEF Asked, Beside, clients, gateway
<1>2. Becomes(IF Settles(r, reply[r]) THEN w ELSE [w EXCEPT !.waits[r] = reply[r].shape, !.sweeping = TRUE])
  BY DEF Asked
<1>3. r \in Free /\ Free' = f
  BY <1>1, AskedIsFree DEF ReplyInv, Beside
<1>4. World \in Worlds /\ Sound(World, Free, {}) /\ Sound(World, f, {})
  BY FreeShrinks DEF ReplyInv, WorldInv
<1>5. World.told[r] = <<>> /\ World.att[r] = NoAttempt /\ World.waits[r] = "no"
  BY <1>3, <1>4 DEF Sound, Untouched
<1>6. Observable(World, f, {}, r)
  BY <1>5 DEF Observable
<1>7. reply[r] \in Entries /\ (reply[r].shape = "text" => reply[r].rev > 0) /\ origin \in [Runs -> Ids \cup {0}]
  BY DEF ReplyInv, EntryType, EntriesOK
<1>8. /\ Sound(w, f, {}) /\ Moved(World, w, r)
      /\ w.att[r] # NoAttempt /\ reply[r].shape = "text" => w.att[r].rev = reply[r].rev
      /\ ~Settles(r, reply[r]) => w = World
  BY <1>4, <1>6, <1>7, TryKeeps
<1> HIDE DEF w, f
<1>9. /\ WorldInv'
      /\ \A q \in Runs : \/ att'[q] = att[q]
                         \/ att'[q] = NoAttempt
                         \/ q = r /\ (reply[r].shape = "text" => att'[r].rev = reply[r].rev)
  <2>1. CASE Settles(r, reply[r])
    <3>1. Becomes(w)
      BY <1>2, <2>1
    <3>2. WorldInv' /\ att' = w.att
      BY <1>3, <1>8, <3>1, BecomesKeeps
    <3> QED BY <1>8, <3>2 DEF Moved, World
  <2>2. CASE ~Settles(r, reply[r])
    <3>1. reply[r].shape \in {"none", "blank", "local"}
      BY <1>7, <2>2, ShapesAssumption DEF Settles, Entries
    <3>2. [World.waits EXCEPT ![r] = reply[r].shape] \in Waits
      BY <1>4, <3>1 DEF Worlds, Waits
    <3>3. /\ v \in Worlds /\ v.att = World.att /\ v.done = World.done /\ v.told = World.told
          /\ v.tracked = World.tracked /\ v.queue = World.queue /\ v.flight = World.flight
          /\ v.waits = [World.waits EXCEPT ![r] = reply[r].shape]
      BY <1>4, <3>2 DEF Worlds
    <3>4. \A q \in Runs \ {r} : v.waits[q] = World.waits[q]
      BY <1>4, <3>3 DEF Worlds, Waits
    <3>5. Becomes(v)
      BY <1>2, <1>8, <2>2
    <3> HIDE DEF v
    <3>6. Sound(v, f, {})
      <4>1. Unsettled(v, {})
        BY <1>4, <1>5, <3>3, <3>4 DEF Sound, Unsettled
      <4>2. Untouched(v, f)
        BY <1>4, <3>3, <3>4, <1>3 DEF Sound, Untouched, f, ReplyInv, GatewayType, Free
      <4> QED BY <1>4, <3>3, <4>1, <4>2 DEF Sound, Reported
    <3>7. WorldInv' /\ att' = v.att
      BY <1>3, <3>5, <3>6, BecomesKeeps
    <3> QED BY <3>3, <3>7 DEF World
  <2> QED BY <2>1, <2>2
<1>10. ShownInv'
  BY <1>1, <1>9 DEF ReplyInv, ShownInv
<1>11. GatewayType' /\ RecordIsAnswer' /\ ClientType'
  BY <1>1, <1>3 DEF ReplyInv, GatewayType, RecordIsAnswer, ClientType, Beside, f
<1> QED BY <1>1, <1>9, <1>10, <1>11, EntryStays DEF ReplyInv, Beside

LEMMA EntryChangeKeeps ==
  ASSUME ReplyInv, NEW r \in Runs, NEW shape \in Shapes, NEW rev \in 0..MaxRev,
         EntryChanges(r, shape, rev)
  PROVE  ReplyInv'
<1> DEFINE e == [shape |-> shape, rev |-> rev]
           es == [reply EXCEPT ![r] = e]
<1>1. /\ shape = "text" => rev > 0
      /\ reply' = es /\ Becomes(Notify(World, es))
      /\ UNCHANGED Beside /\ UNCHANGED <<origin, late, seen, asks>>
  BY DEF EntryChanges, Beside, clients, gateway
<1>2. EntriesOK(es)
  <2>1. e \in Entries
    BY DEF Entries
  <2> QED BY <1>1, <2>1 DEF ReplyInv, EntryType, EntriesOK
<1> HIDE DEF es
<1>3. Sound(World, Free, {})
  BY DEF ReplyInv, WorldInv
<1>4. Sound(Notify(World, es), Free, {}) /\ \A q \in Runs : Shows(Notify(World, es), es, q)
  BY <1>2, <1>3, NotifyKeeps
<1>5. ClientType' /\ GatewayType' /\ RecordIsAnswer' /\ Free' = Free
  BY <1>1, BesideStays
<1>6. WorldInv' /\ att' = Notify(World, es).att
  BY <1>1, <1>4, <1>5, BecomesKeeps
<1>7. ShownInv'
  BY <1>1, <1>4, <1>6 DEF ShownInv, Shows
<1>8. EntryType' /\ SeenType' /\ EvidenceIsCurrent'
  BY <1>1, <1>2 DEF ReplyInv, EntryType, EntriesOK, SeenType, EvidenceIsCurrent, Beside
<1> QED BY <1>5, <1>6, <1>7, <1>8 DEF ReplyInv

\* The entries as they are may be looked at again.
LEMMA ResentKeeps ==
  ASSUME ReplyInv, Becomes(World) \/ Becomes(Notify(World, reply)), Free' = Free, reply' = reply
  PROVE  WorldInv' /\ ShownInv'
<1>1. Sound(World, Free, {}) /\ EntriesOK(reply)
  BY DEF ReplyInv, WorldInv, EntryType
<1>2. CASE Becomes(World)
  <2>1. WorldInv' /\ att' = World.att
    BY <1>1, <1>2, BecomesKeeps
  <2> QED BY <2>1, ShownStays DEF World, ReplyInv
<1>3. CASE Becomes(Notify(World, reply))
  <2>1. Sound(Notify(World, reply), Free, {}) /\ \A q \in Runs : Shows(Notify(World, reply), reply, q)
    BY <1>1, NotifyKeeps
  <2>2. WorldInv' /\ att' = Notify(World, reply).att
    BY <1>3, <2>1, BecomesKeeps
  <2> QED BY <2>1, <2>2 DEF ShownInv, Shows
<1> QED BY <1>2, <1>3

LEMMA EntriesResentKeeps == ASSUME ReplyInv, EntriesResent PROVE ReplyInv'
<1>1. /\ Becomes(Notify(World, reply)) /\ UNCHANGED Beside
      /\ UNCHANGED <<reply, origin, late, seen, asks>>
  BY DEF EntriesResent, Beside, clients, gateway
<1>2. ClientType' /\ GatewayType' /\ RecordIsAnswer' /\ Free' = Free
  BY <1>1, BesideStays
<1> QED BY <1>1, <1>2, ResentKeeps, EntryStays DEF ReplyInv, Beside

\* A set of probes is forgotten.
Forgetting(w, ps) == [w EXCEPT !.probes = ps]
LEMMA ForgetKeeps ==
  ASSUME NEW w, NEW free, Sound(w, free, {}), NEW ps \in SUBSET w.probes
  PROVE  /\ Sound(Forgetting(w, ps), free, {}) /\ Forgetting(w, ps).att = w.att
         /\ Forgetting(w, ps).told = w.told /\ Forgetting(w, ps).waits = w.waits
<1> DEFINE v == Forgetting(w, ps)
<1>0. w \in Worlds
  BY DEF Sound
<1>1. /\ v \in Worlds /\ v.att = w.att /\ v.done = w.done /\ v.told = w.told /\ v.waits = w.waits
      /\ v.tracked = w.tracked /\ v.queue = w.queue /\ v.flight = w.flight
  BY <1>0 DEF Forgetting, Worlds
<1> HIDE DEF v
<1>2. Sound(v, free, {})
  BY <1>1 DEF Sound, Unsettled, Untouched, Reported
<1> QED BY <1>1, <1>2 DEF v

LEMMA ReceiptKeeps == ASSUME ReplyInv, NEW p \in probes, Receipt(p) PROVE ReplyInv'
<1> DEFINE r == p.run
           w == [World EXCEPT !.probes = @ \ {p}]
<1>1. /\ UNCHANGED Beside /\ UNCHANGED <<reply, origin, late, asks>>
  BY DEF Receipt, Beside, clients, gateway
<1>2. ClientType' /\ GatewayType' /\ RecordIsAnswer' /\ Free' = Free
  BY <1>1, BesideStays
<1>3. World \in Worlds /\ Sound(World, Free, {}) /\ World.probes = probes /\ World.att = att
  BY DEF ReplyInv, WorldInv, World
<1>4. p \in Probes
  BY <1>3 DEF Worlds
<1>5. w = Forgetting(World, probes \ {p})
  BY <1>3 DEF Forgetting, World
<1>6. Sound(w, Free, {}) /\ w.att = att /\ w.told = told /\ w.waits = waits
  BY <1>3, <1>5, ForgetKeeps DEF World
<1>7. \/ /\ att[r].n = p.n /\ att[r].id = p.id /\ att[r].rev = p.rev
         /\ Becomes(Expire(Settle(w, r, "accepted")))
         /\ seen' = [seen EXCEPT ![r] = [rev |-> p.rev, entry |-> reply[r]]]
      \/ Becomes(Expire(w)) /\ seen' = seen
  BY DEF Receipt
<1> HIDE DEF w
<1>8. CASE Becomes(Expire(w)) /\ seen' = seen
  <2>1. Sound(Expire(w), Free, {}) /\ Dropped(w, Expire(w), Pending(w) \cap late)
    BY <1>6, ExpireKeeps
  <2>2. WorldInv' /\ att' = Expire(w).att
    BY <1>2, <1>8, <2>1, BecomesKeeps
  <2>3. \A q \in Runs : att'[q] = att[q] \/ att'[q] = NoAttempt
    BY <1>6, <2>1, <2>2 DEF Dropped
  <2> QED BY <1>1, <1>2, <1>8, <2>2, <2>3, ShownStays, EntryStays DEF ReplyInv, Beside
<1>9. CASE /\ att[r].n = p.n /\ att[r].id = p.id /\ att[r].rev = p.rev
           /\ Becomes(Expire(Settle(w, r, "accepted")))
           /\ seen' = [seen EXCEPT ![r] = [rev |-> p.rev, entry |-> reply[r]]]
  <2>1. r \in Runs /\ p.id \in Ids /\ p.rev \in Nat /\ att[r] # NoAttempt
    <3>1. r \in Runs /\ p.id \in Ids /\ p.rev \in Nat
      BY <1>4, BoundsAssumption DEF Probes
    <3>2. att[r].id # 0
      BY <1>9, <3>1, BoundsAssumption DEF Ids
    <3> QED BY <3>1, <3>2 DEF NoAttempt
  <2>2. r \notin Free /\ w.told[r] = <<>> /\ w.waits[r] = "no"
    BY <1>6, <2>1 DEF Sound, Unsettled, Untouched
  <2>3. Settle(w, r, "accepted") = Announce(Ending(w, r, "accepted"), r, "accepted")
    BY DEF Settle, Ending
  <2>4. "accepted" \in Statuses
    BY DEF Statuses
  <2> DEFINE u == Settle(w, r, "accepted")
  <2>5. Sound(u, Free, {}) /\ Moved(w, u, r) /\ u.att[r] = NoAttempt
    BY <1>6, <2>1, <2>2, <2>3, <2>4, AnnounceKeeps
  <2> HIDE DEF u
  <2>6. Sound(Expire(u), Free, {}) /\ Dropped(u, Expire(u), Pending(u) \cap late)
    BY <2>5, ExpireKeeps
  <2>7. WorldInv' /\ att' = Expire(u).att
    BY <1>2, <1>9, <2>6, BecomesKeeps DEF u
  <2>8. \A q \in Runs : att'[q] = att[q] \/ att'[q] = NoAttempt
    BY <1>6, <2>5, <2>6, <2>7 DEF Dropped, Moved
  <2>9. ShownInv'
    BY <1>1, <2>8, ShownStays DEF ReplyInv
  <2>10. reply[r].shape = "text" => p.rev = reply[r].rev
    BY <1>9, <2>1 DEF ReplyInv, ShownInv
  <2>11. reply[r] \in Entries
    BY <2>1 DEF ReplyInv, EntryType, EntriesOK
  <2> HIDE DEF r
  <2>12. SeenType' /\ EvidenceIsCurrent'
    BY <1>9, <2>1, <2>10, <2>11 DEF ReplyInv, SeenType, EvidenceIsCurrent
  <2>13. EntryType'
    BY <1>1 DEF ReplyInv, EntryType, EntriesOK, Beside
  <2> QED BY <1>2, <2>7, <2>9, <2>12, <2>13 DEF ReplyInv
<1> QED BY <1>7, <1>8, <1>9

LEMMA DeadlineKeeps == ASSUME ReplyInv, NEW r \in Runs, DeadlinePasses(r) PROVE ReplyInv'
<1>1. /\ late' = late \cup {r} /\ UNCHANGED Beside /\ UNCHANGED <<reply, origin, seen, asks, relay>>
  BY DEF DeadlinePasses, Beside, clients, gateway
<1>2. ClientType' /\ GatewayType' /\ RecordIsAnswer'
  BY <1>1, BesideStays
<1>3. EntryType' /\ SeenType' /\ EvidenceIsCurrent'
  BY <1>1 DEF ReplyInv, EntryType, EntriesOK, SeenType, EvidenceIsCurrent, Beside
<1>4. WorldInv' /\ ShownInv'
  BY <1>1, WorldStays, ShownStays DEF ReplyInv, Beside, relay
<1> QED BY <1>2, <1>3, <1>4 DEF ReplyInv

LEMMA SweepKeeps == ASSUME ReplyInv, Sweep PROVE ReplyInv'
<1> DEFINE w == Expire(World)
           v == EndWaits(w)
           u == Untrack(v, Pending(v))
<1>1. UNCHANGED Beside /\ UNCHANGED <<reply, origin, late, seen, asks>>
  BY DEF Sweep, Beside, clients, gateway
<1>2. Becomes(StopIfIdle(u))
  BY DEF Sweep, EndWaits, Untrack
<1>3. Sound(w, Free, {}) /\ Dropped(World, w, Pending(World) \cap late)
  BY ExpireKeeps DEF ReplyInv, WorldInv
<1>4. \A r \in Runs : w.att[r] = att[r] \/ w.att[r] = NoAttempt
  BY <1>3 DEF Dropped, World
<1> HIDE DEF w
<1>5. Sound(v, Free, {}) /\ \A r \in Runs : v.att[r] = w.att[r] \/ v.att[r] = NoAttempt
  BY <1>3, EndWaitsKeep
<1> HIDE DEF v
<1>6. Sound(u, Free, {}) /\ u.att = v.att
  BY <1>5, UntrackKeeps DEF Pending
<1> HIDE DEF u
<1>7. PICK rs \in SUBSET (Pending(u) \cap late) :
        Sound(StopIfIdle(u), Free, {}) /\ Dropped(u, StopIfIdle(u), rs)
  BY <1>6, StopKeeps
<1>8. ClientType' /\ GatewayType' /\ RecordIsAnswer' /\ Free' = Free
  BY <1>1, BesideStays
<1>9. WorldInv' /\ att' = StopIfIdle(u).att
  BY <1>2, <1>7, <1>8, BecomesKeeps
<1>10. \A r \in Runs : att'[r] = att[r] \/ att'[r] = NoAttempt
  BY <1>4, <1>5, <1>6, <1>7, <1>9 DEF Dropped
<1> QED BY <1>1, <1>8, <1>9, <1>10, ShownStays, EntryStays DEF ReplyInv, Beside

----------------------------------------------------------------------------
(* Clients. *)

LEMMA ConnectKeeps == ASSUME ReplyInv, NEW p \in Phones, Connect(p) PROVE ReplyInv'
<1>1. ClientType'
  BY BoundsAssumption DEF ReplyInv, ClientType, Connect, Ids
<1>2. UNCHANGED <<reply, origin, errored, late, seen, relay, gateway, asks>>
  BY DEF Connect
<1>3. GatewayType' /\ RecordIsAnswer'
  BY <1>2 DEF ReplyInv, GatewayType, RecordIsAnswer, Free, gateway
<1>4. WorldInv' /\ ShownInv'
  BY <1>2, WorldStays, ShownStays DEF ReplyInv, gateway, relay
<1> QED BY <1>1, <1>2, <1>3, <1>4, EntryStays DEF ReplyInv

LEMMA DisconnectKeeps == ASSUME ReplyInv, NEW i \in Ids, Disconnect(i) PROVE ReplyInv'
<1> DEFINE w == Forgetting(World, {p \in probes : p.id # i})
           rs == {r \in Pending(World) : att[r].id = i}
<1>1. /\ holder' = [holder EXCEPT ![i] = None]
      /\ origin' = [r \in Runs |-> IF origin[r] = i THEN 0 ELSE origin[r]]
      /\ UNCHANGED <<nextId, sender, acks, reply, errored, late, seen, gateway, asks>>
  BY DEF Disconnect
<1>2. Becomes(DropNow(w, rs))
  BY DEF Disconnect, Forgetting, World
<1>3. Sound(World, Free, {}) /\ World.probes = probes /\ World.att = att
  BY DEF ReplyInv, WorldInv, World
<1>4. Sound(w, Free, {}) /\ w.att = att
  BY <1>3, ForgetKeeps
<1>5. rs \subseteq Pending(w)
  BY <1>3, <1>4 DEF Pending
<1> HIDE DEF w, rs
<1>6. PICK ss \in SUBSET (Pending(w) \cap late) :
        Sound(DropNow(w, rs), Free, {}) /\ Dropped(w, DropNow(w, rs), rs \cup ss)
  BY <1>4, <1>5, DropNowKeeps
<1>7. Free' = Free
  BY <1>1 DEF Free, gateway
<1>8. WorldInv' /\ att' = DropNow(w, rs).att
  BY <1>2, <1>6, <1>7, BecomesKeeps
<1>9. \A r \in Runs : att'[r] = att[r] \/ att'[r] = NoAttempt
  BY <1>4, <1>6, <1>8 DEF Dropped
<1>10. ClientType' /\ GatewayType' /\ RecordIsAnswer'
  BY <1>1 DEF ReplyInv, ClientType, GatewayType, RecordIsAnswer, Free, gateway
<1>11. EntryType' /\ SeenType' /\ EvidenceIsCurrent'
  BY <1>1 DEF ReplyInv, EntryType, EntriesOK, SeenType, EvidenceIsCurrent
<1> QED BY <1>1, <1>8, <1>9, <1>10, <1>11, ShownStays DEF ReplyInv

LEMMA WorkerKeeps == ASSUME ReplyInv, WorkerRestarts PROVE ReplyInv'
<1>1. /\ holder' = [i \in Ids |-> None] /\ nextId' = 1 /\ probes' = {}
      /\ UNCHANGED <<sender, acks, origin, reply, errored, late, seen, gateway, asks>>
      /\ UNCHANGED <<att, done, waits, tracked, sweeping, tries, told, pipe>>
  BY DEF WorkerRestarts
<1>2. ClientType' /\ GatewayType' /\ RecordIsAnswer' /\ Free' = Free
  BY <1>1, BoundsAssumption DEF ReplyInv, ClientType, GatewayType, RecordIsAnswer, Free, gateway
<1>3. Sound(Forgetting(World, {}), Free, {})
  BY ForgetKeeps DEF ReplyInv, WorldInv
<1>4. World' = Forgetting(World, {})
  BY <1>1 DEF World, Forgetting, pipe
<1>5. WorldInv'
  BY <1>2, <1>3, <1>4 DEF WorldInv, Sound
<1> QED BY <1>1, <1>2, <1>5, EntryStays, ShownStays DEF ReplyInv

LEMMA SendKeeps == ASSUME ReplyInv, NEW r \in Runs, NEW i \in Ids, Send(r, i) PROVE ReplyInv'
<1>1. /\ holder[i] # None /\ sender' = [sender EXCEPT ![r] = holder[i]] /\ acks' = acks \cup {<<r, i>>}
      /\ UNCHANGED <<holder, nextId, origin, reply, errored, late, seen, gateway, asks>>
      /\ Becomes(World) \/ Becomes(Notify(World, reply))
  BY DEF Send, Refreshed
<1>2. ClientType' /\ GatewayType' /\ RecordIsAnswer' /\ Free' = Free
  BY <1>1 DEF ReplyInv, ClientType, GatewayType, RecordIsAnswer, Free, gateway
<1> QED BY <1>1, <1>2, ResentKeeps, EntryStays DEF ReplyInv

LEMMA AckKeeps == ASSUME ReplyInv, NEW r \in Runs, NEW i \in Ids, Ack(r, i) PROVE ReplyInv'
<1>1. /\ acks' = acks \ {<<r, i>>} /\ origin' = [origin EXCEPT ![r] = i]
      /\ UNCHANGED <<holder, nextId, sender, reply, errored, late, seen, gateway, asks>>
      /\ Becomes(World) \/ Becomes(Notify(World, reply))
  BY DEF Ack, Refreshed
<1>2. ClientType' /\ GatewayType' /\ RecordIsAnswer' /\ Free' = Free
  BY <1>1 DEF ReplyInv, ClientType, GatewayType, RecordIsAnswer, Free, gateway
<1>3. EntryType' /\ SeenType' /\ EvidenceIsCurrent'
  BY <1>1 DEF ReplyInv, EntryType, EntriesOK, SeenType, EvidenceIsCurrent
<1> QED BY <1>1, <1>2, <1>3, ResentKeeps DEF ReplyInv

----------------------------------------------------------------------------
(* The gateway. *)

LEMMA NoteErrorKeeps == ASSUME ReplyInv, NEW r \in Runs, NoteError(r) PROVE ReplyInv'
<1>1. /\ errored' = errored \cup {r}
      /\ UNCHANGED <<clients, origin, reply, relay, late, seen, gateway, asks>>
  BY DEF NoteError
<1>2. ClientType' /\ GatewayType' /\ RecordIsAnswer'
  BY <1>1 DEF ReplyInv, ClientType, GatewayType, RecordIsAnswer, Free, gateway, clients
<1>3. EntryType' /\ SeenType' /\ EvidenceIsCurrent'
  BY <1>1 DEF ReplyInv, EntryType, EntriesOK, SeenType, EvidenceIsCurrent
<1>4. WorldInv' /\ ShownInv'
  BY <1>1, WorldStays, ShownStays DEF ReplyInv, gateway, relay
<1> QED BY <1>2, <1>3, <1>4 DEF ReplyInv

LEMMA PublishKeeps == ASSUME ReplyInv, NEW r \in Runs, Publish(r) PROVE ReplyInv'
<1>1. /\ r \notin published /\ current' = r /\ published' = published \cup {r} /\ asks' = asks \cup {r}
      /\ UNCHANGED <<clients, origin, reply, errored, relay, late, seen, record>>
  BY DEF Publish
<1>2. Free' = Free
  BY <1>1 DEF Free
<1>3. ClientType' /\ GatewayType' /\ RecordIsAnswer'
  BY <1>1, <1>2 DEF ReplyInv, ClientType, GatewayType, RecordIsAnswer, clients
<1>4. WorldInv'
  BY <1>1, <1>2 DEF ReplyInv, WorldInv, World, relay, pipe
<1>5. ShownInv'
  BY <1>1, ShownStays DEF ReplyInv, relay
<1> QED BY <1>1, <1>3, <1>4, <1>5, EntryStays DEF ReplyInv

LEMMA AskFailsKeeps == ASSUME ReplyInv, NEW r \in Runs, AskFails(r) PROVE ReplyInv'
<1>1. /\ r \in asks /\ asks' = asks \ {r}
      /\ \/ record' = record
         \/ /\ Records(r)
            /\ \E status \in {"unconfirmed", "unsupported"} : record' = [run |-> r, status |-> status]
      /\ UNCHANGED <<clients, origin, reply, errored, relay, late, seen, current, published>>
  BY DEF AskFails, Recorded
<1>2. r \in Free /\ Free' = Free \ {r}
  BY <1>1, AskedIsFree DEF ReplyInv
<1>3. ClientType' /\ GatewayType'
  BY <1>1 DEF ReplyInv, ClientType, GatewayType, clients, Statuses
<1>4. RecordIsAnswer'
  BY <1>1, <1>2 DEF ReplyInv, RecordIsAnswer
<1>5. Sound(World, Free \ {r}, {}) /\ World' = World /\ World \in Worlds
  BY <1>1, FreeShrinks DEF ReplyInv, WorldInv, World, relay, pipe
<1>6. WorldInv'
  BY <1>2, <1>5 DEF WorldInv
<1>7. ShownInv'
  BY <1>1, ShownStays DEF ReplyInv, relay
<1> QED BY <1>1, <1>3, <1>4, <1>6, <1>7, EntryStays DEF ReplyInv

\* What is under way to the gateway is of a run that has been announced.
LEMMA UnderWay ==
  ASSUME ReplyInv, flight.phase # "none"
  PROVE  /\ queue \in Seq(Reports) /\ queue # <<>> /\ queue[1] \in Reports
         /\ flight \in Flights /\ flight.run = queue[1].run /\ flight.run \notin Free
<1>1. World \in Worlds /\ Sound(World, Free, {}) /\ World.queue = queue /\ World.flight = flight
  BY DEF ReplyInv, WorldInv, World
<1>2. flight # NoFlight
  BY NoFlightIs
<1>3. queue \in Seq(Reports) /\ queue # <<>> /\ flight.run = queue[1].run /\ flight \in Flights
  BY <1>1, <1>2 DEF Sound, Reported, Worlds, Queues
<1>4. 1 \in DOMAIN queue /\ queue[1] \in Reports
  BY <1>3
<1>5. World.told[queue[1].run] # <<>>
  BY <1>1, <1>4 DEF Sound, Reported
<1> QED BY <1>1, <1>3, <1>4, <1>5 DEF Sound, Untouched

LEMMA DeliverKeeps == ASSUME ReplyInv, Deliver PROVE ReplyInv'
<1> DEFINE r == flight.run
<1>1. /\ flight.phase = "sent"
      /\ \/ /\ Records(r) /\ flight' = [flight EXCEPT !.phase = "ok"]
            /\ record' = IF record = [run |-> r, status |-> "accepted"] THEN record
                         ELSE [run |-> r, status |-> flight.status]
         \/ record' = record /\ flight' = [flight EXCEPT !.phase = "unknown"]
      /\ UNCHANGED <<clients, origin, reply, errored, att, done, waits, tracked, sweeping, probes>>
      /\ UNCHANGED <<tries, told, queue, retrying, late, seen, current, published, asks>>
  BY DEF Deliver, Recorded
<1>2. /\ queue \in Seq(Reports) /\ queue # <<>> /\ queue[1] \in Reports
      /\ flight \in Flights /\ r = queue[1].run /\ r \notin Free
  BY <1>1, UnderWay
<1>3. r \in Runs /\ flight.status \in Statuses
  BY <1>2 DEF Reports, Flights
<1>4. Free' = Free /\ ClientType' /\ GatewayType' /\ RecordIsAnswer'
  BY <1>1, <1>2, <1>3 DEF ReplyInv, ClientType, GatewayType, RecordIsAnswer, Free, clients
<1>5. flight' \in Flights /\ flight'.run = r /\ flight'.phase # "none"
  BY <1>1, <1>2 DEF Flights
<1>6. World' = [World EXCEPT !.flight = flight']
  BY <1>1 DEF World
<1>7. World' \in Worlds
  BY <1>5, <1>6 DEF ReplyInv, WorldInv, Worlds
<1>8. /\ World'.att = World.att /\ World'.done = World.done /\ World'.told = World.told
      /\ World'.waits = World.waits /\ World'.tracked = World.tracked
      /\ World'.queue = World.queue /\ World'.flight = flight' /\ World.queue = queue
  BY <1>6 DEF World
<1> DEFINE v == World'
<1>9. Sound(v, Free, {})
  <2>1. Unsettled(v, {}) /\ Untouched(v, Free)
    BY <1>8 DEF ReplyInv, WorldInv, Sound, Unsettled, Untouched
  <2>2. Reported(v)
    BY <1>2, <1>5, <1>8 DEF ReplyInv, WorldInv, Sound, Reported
  <2> QED BY <1>7, <2>1, <2>2 DEF Sound
<1>10. WorldInv'
  BY <1>4, <1>7, <1>9 DEF WorldInv
<1> QED BY <1>1, <1>4, <1>10, ShownStays, EntryStays DEF ReplyInv

\* Steps of the queue: something is taken from it and the next is taken up.
LEMMA PipeKeeps ==
  ASSUME ReplyInv, NEW q \in Queues, NEW b \in BOOLEAN,
         \A i \in DOMAIN q : \E j \in DOMAIN queue : q[i].run = queue[j].run,
         Becomes(Requeued(World, q, b)) \/ Becomes(Drain(Requeued(World, q, b))),
         UNCHANGED <<clients, origin, reply, errored, late, seen, gateway, asks>>
  PROVE  ReplyInv'
<1> DEFINE w == Requeued(World, q, b)
<1>1. Sound(World, Free, {}) /\ World.queue = queue /\ World.att = att
  BY DEF ReplyInv, WorldInv, World
<1>2. Sound(w, Free, {}) /\ w.att = att
  BY <1>1, RequeueKeeps
<1> HIDE DEF w
<1>3. Sound(Drain(w), Free, {}) /\ Drain(w).att = att
  BY <1>2, DrainKeeps
<1>4. ClientType' /\ GatewayType' /\ RecordIsAnswer' /\ Free' = Free
  BY BesideStays DEF Beside, clients, gateway
<1>5. WorldInv' /\ att' = att
  BY <1>2, <1>3, <1>4, BecomesKeeps DEF w
<1> QED BY <1>4, <1>5, ShownStays, EntryStays DEF ReplyInv

\* The one record with these fields: the provers compare records by their sets.
With(q, b) ==
  [att : {att}, done : {done}, waits : {waits}, tracked : {tracked}, sweeping : {sweeping},
   probes : {probes}, tries : {tries}, told : {told}, queue : {q}, flight : {NoFlight},
   retrying : {b}]

LEMMA RequeuedIs ==
  ASSUME NEW q, NEW b, NEW w \in With(q, b)
  PROVE  w = Requeued(World, q, b)
<1>1. Requeued(World, q, b) \in With(q, b)
  BY DEF World, Requeued, With
<1> QED BY <1>1 DEF With

LEMMA AnsweredKeeps == ASSUME ReplyInv, Answered PROVE ReplyInv'
<1> DEFINE q == Others(World, flight.run)
<1>1. World \in Worlds /\ World.queue = queue /\ World.retrying = retrying /\ retrying \in BOOLEAN
  BY DEF ReplyInv, WorldInv, World, Worlds
<1>2. q \in Queues /\ \A i \in DOMAIN q : \E j \in DOMAIN queue : q[i] = queue[j]
  BY <1>1, OthersAre
<1>3. Becomes(Drain(Requeued(World, q, retrying)))
  <2>1. [World EXCEPT !.flight = NoFlight, !.queue = q] = Requeued(World, q, retrying)
    <3> HIDE DEF q
    <3>1. [World EXCEPT !.flight = NoFlight, !.queue = q] \in With(q, retrying)
      BY DEF World, With
    <3> QED BY <3>1, RequeuedIs
  <2> QED BY <2>1 DEF Answered
<1>4. UNCHANGED <<clients, origin, reply, errored, late, seen, gateway, asks>>
  BY DEF Answered
<1> HIDE DEF q
<1>5. \A i \in DOMAIN q : \E j \in DOMAIN queue : q[i].run = queue[j].run
  BY <1>2
<1> QED BY <1>1, <1>2, <1>3, <1>4, <1>5, PipeKeeps

LEMMA FailsKeeps == ASSUME ReplyInv, Fails PROVE ReplyInv'
<1>1. /\ flight.phase # "none"
      /\ UNCHANGED <<clients, origin, reply, errored, late, seen, gateway, asks>>
  BY DEF Fails
<1>2. queue \in Seq(Reports) /\ queue # <<>> /\ queue[1] \in Reports
  BY <1>1, UnderWay
<1>3. retrying \in BOOLEAN
  BY DEF ReplyInv, WorldInv, World, Worlds
<1>4. CASE Exhausted(queue[1])
  <2>1. Becomes(Drain(Requeued(World, Tail(queue), retrying)))
    <3> DEFINE w == [World EXCEPT !.flight = NoFlight]
    <3>1. /\ w.queue = queue
          /\ w = [att |-> att, done |-> done, waits |-> waits, tracked |-> tracked,
                  sweeping |-> sweeping, probes |-> probes, tries |-> tries, told |-> told,
                  queue |-> queue, flight |-> NoFlight, retrying |-> retrying]
      BY DEF World
    <3> HIDE DEF w
    <3>2. [w EXCEPT !.queue = Tail(@)] = [w EXCEPT !.queue = Tail(queue)]
      BY <3>1
    <3>3. [w EXCEPT !.queue = Tail(queue)] = Requeued(World, Tail(queue), retrying)
      <4>1. [w EXCEPT !.queue = Tail(queue)] \in With(Tail(queue), retrying)
        BY <3>1 DEF With
      <4> QED BY <4>1, RequeuedIs
    <3> QED BY <1>4, <3>2, <3>3 DEF Fails, w
  <2>2. Tail(queue) \in Queues
    BY <1>2 DEF Queues
  <2>3. \A i \in DOMAIN Tail(queue) : i + 1 \in DOMAIN queue /\ Tail(queue)[i].run = queue[i + 1].run
    BY <1>2
  <2> QED BY <1>1, <1>3, <2>1, <2>2, <2>3, PipeKeeps
<1>5. CASE ~Exhausted(queue[1])
  <2> DEFINE e == [queue[1] EXCEPT !.tries = @ + 1]
             q == [queue EXCEPT ![1].tries = @ + 1]
  <2>1. e \in Reports /\ e.run = queue[1].run
    BY <1>2, <1>5, BoundsAssumption DEF Exhausted, Reports
  <2>2. q = [queue EXCEPT ![1] = e]
    BY <1>2
  <2>3. Becomes(Requeued(World, q, TRUE))
    <3> DEFINE w == [World EXCEPT !.flight = NoFlight]
    <3>1. /\ w.queue = queue
          /\ w = [att |-> att, done |-> done, waits |-> waits, tracked |-> tracked,
                  sweeping |-> sweeping, probes |-> probes, tries |-> tries, told |-> told,
                  queue |-> queue, flight |-> NoFlight, retrying |-> retrying]
      BY DEF World
    <3> HIDE DEF w
    <3>2. [w EXCEPT !.queue[1].tries = @ + 1, !.retrying = TRUE] = [w EXCEPT !.queue = q, !.retrying = TRUE]
      BY <3>1
    <3>3. [w EXCEPT !.queue = q, !.retrying = TRUE] = Requeued(World, q, TRUE)
      <4> HIDE DEF q
      <4>1. [w EXCEPT !.queue = q, !.retrying = TRUE] \in With(q, TRUE)
        BY DEF w, World, With
      <4> QED BY <4>1, RequeuedIs
    <3> QED BY <1>5, <3>2, <3>3 DEF Fails, w
  <2> HIDE DEF e, q
  <2>4. q \in Seq(Reports) /\ \A i \in DOMAIN q : i \in DOMAIN queue /\ q[i].run = queue[i].run
    BY <1>2, <2>1, <2>2
  <2> QED BY <1>1, <2>3, <2>4, PipeKeeps DEF Queues
<1> QED BY <1>4, <1>5

LEMMA RetryKeeps == ASSUME ReplyInv, RetryTimer PROVE ReplyInv'
<1> DEFINE w == [World EXCEPT !.retrying = FALSE]
<1>1. Becomes(Drain(w)) /\ UNCHANGED <<clients, origin, reply, errored, late, seen, gateway, asks>>
  BY DEF RetryTimer
<1>2. World \in Worlds /\ Sound(World, Free, {})
  BY DEF ReplyInv, WorldInv
<1>3. /\ w \in Worlds /\ w.att = World.att /\ w.done = World.done /\ w.told = World.told
      /\ w.waits = World.waits /\ w.tracked = World.tracked
      /\ w.queue = World.queue /\ w.flight = World.flight
  BY <1>2 DEF Worlds
<1> HIDE DEF w
<1>4. Sound(w, Free, {})
  BY <1>2, <1>3 DEF Sound, Unsettled, Untouched, Reported
<1>5. Sound(Drain(w), Free, {}) /\ Drain(w).att = att
  BY <1>3, <1>4, DrainKeeps DEF World
<1>6. ClientType' /\ GatewayType' /\ RecordIsAnswer' /\ Free' = Free
  BY <1>1, BesideStays DEF Beside, clients, gateway
<1>7. WorldInv' /\ att' = att
  BY <1>1, <1>5, <1>6, BecomesKeeps
<1> QED BY <1>1, <1>6, <1>7, ShownStays, EntryStays DEF ReplyInv

----------------------------------------------------------------------------
(* Every step keeps the invariant. *)

LEMMA StepKeeps == ReplyInv /\ [Next]_vars => ReplyInv'
<1> SUFFICES ASSUME ReplyInv, [Next]_vars PROVE ReplyInv'
  OBVIOUS
<1>1. CASE UNCHANGED vars
  <2>1. UNCHANGED <<clients, origin, reply, errored, relay, late, seen, gateway, asks>>
    BY <1>1 DEF vars
  <2>2. ClientType' /\ GatewayType' /\ RecordIsAnswer'
    BY <2>1, BesideStays DEF Beside, clients, gateway
  <2>3. WorldInv' /\ ShownInv'
    BY <2>1, WorldStays, ShownStays DEF ReplyInv, gateway, relay
  <2> QED BY <2>1, <2>2, <2>3, EntryStays DEF ReplyInv
<1>2. CASE Next
  BY <1>2, SweepKeeps, WorkerKeeps, DeliverKeeps, AnsweredKeeps, FailsKeeps, RetryKeeps,
     EntriesResentKeeps, ConnectKeeps, DisconnectKeeps, ReceiptKeeps, AskedKeeps, DeadlineKeeps,
     NoteErrorKeeps, PublishKeeps, AskFailsKeeps, SendKeeps, AckKeeps, EntryChangeKeeps DEF Next
<1> QED BY <1>1, <1>2

LEMMA ReplyInvariant == Spec => []ReplyInv
BY Begins, StepKeeps, PTL DEF Spec

\* Types hold, and an observation is announced once: deadlines, disconnects, receipts,
\* errors and changes of the conversation do not end it twice.
THEOREM AnnouncedOnce == Spec => []SettledOnce
<1>1. ReplyInv => SettledOnce
  <2> SUFFICES ASSUME ReplyInv PROVE TypeOK /\ \A r \in Runs : Len(told[r]) <= 1
    BY DEF SettledOnce
  <2>1. /\ att \in Atts /\ done \in Dones /\ waits \in Waits /\ tracked \in SUBSET Runs
        /\ sweeping \in BOOLEAN /\ probes \in SUBSET Probes /\ told \in Tolds /\ queue \in Queues
        /\ flight \in Flights /\ retrying \in BOOLEAN
    BY DEF ReplyInv, WorldInv, World, Worlds
  <2>2. \A r \in Runs : told[r] \in Seq(Statuses) /\ Len(told[r]) <= 1
    <3> SUFFICES ASSUME NEW r \in Runs PROVE told[r] \in Seq(Statuses) /\ Len(told[r]) <= 1
      OBVIOUS
    <3>1. told[r] = <<>> \/ \E s \in Statuses : told[r] = <<s>>
      BY <2>1 DEF Tolds
    <3>2. CASE told[r] = <<>>
      BY <3>2
    <3>3. ASSUME NEW s \in Statuses, told[r] = <<s>>
          PROVE  told[r] \in Seq(Statuses) /\ Len(told[r]) <= 1
      <4>1. <<s>> \in Seq(Statuses) /\ Len(<<s>>) = 1
        OBVIOUS
      <4> QED BY <3>3, <4>1
    <3> QED BY <3>1, <3>2, <3>3
  <2>3. told \in [Runs -> Seq(Statuses)]
    BY <2>1, <2>2 DEF Tolds
  <2>4. reply \in [Runs -> Entries] /\ origin \in [Runs -> Ids \cup {0}] /\ errored \subseteq Runs /\ late \subseteq Runs
    BY DEF ReplyInv, EntryType, EntriesOK
  <2>5. ClientType /\ current \in Runs \cup {None} /\ record.run \in Runs \cup {None} /\ asks \subseteq Runs
    BY DEF ReplyInv, GatewayType
  <2>6. flight.phase \in {"none", "sent", "ok", "unknown"}
    BY <2>1 DEF Flights
  <2>7. TypeOK
    BY <2>1, <2>3, <2>4, <2>5, <2>6
       DEF TypeOK, ClientType, Atts, Attempts, Dones, Waits, Probes, Queues, Reports, Entries
  <2> QED BY <2>2, <2>7
<1> QED BY <1>1, ReplyInvariant, PTL

\* A receipt counts for the revision the conversation shows at that moment.
THEOREM EvidenceCorrect == Spec => []EvidenceIsCurrent
<1>1. ReplyInv => EvidenceIsCurrent
  BY DEF ReplyInv
<1> QED BY <1>1, ReplyInvariant, PTL

\* While a candidate is current, no late report of another replaces the evidence the
\* gateway has for it, and no failure to ask does.
THEOREM EvidenceStays == Spec => CurrentEvidenceStays
<1> DEFINE Step == current' = current /\ record = [run |-> current, status |-> "accepted"]
                     => record' = record
<1>1. ReplyInv /\ [Next]_vars => [Step]_vars
  <2> SUFFICES ASSUME ReplyInv, Next, record = [run |-> current, status |-> "accepted"]
               PROVE  record' = record
    OBVIOUS
  <2>1. CASE Deliver
    BY <2>1 DEF Deliver, Records, Recorded
  <2>2. ASSUME NEW r \in Runs, AskFails(r) PROVE record' = record
    BY <2>2 DEF AskFails, Records, Recorded
  <2>3. CASE Sweep \/ Answered \/ Fails \/ RetryTimer \/ EntriesResent
    BY <2>3 DEF Sweep, Answered, Fails, RetryTimer, EntriesResent, gateway
  <2>4. CASE WorkerRestarts \/ \E p \in Phones : Connect(p)
    BY <2>4 DEF WorkerRestarts, Connect, gateway
  <2>5. CASE \E i \in Ids : Disconnect(i)
    BY <2>5 DEF Disconnect, gateway
  <2>6. CASE \E p \in probes : Receipt(p)
    BY <2>6 DEF Receipt, gateway
  <2>7. ASSUME NEW r \in Runs, Asked(r) \/ DeadlinePasses(r) \/ NoteError(r) \/ Publish(r)
        PROVE  record' = record
    BY <2>7 DEF Asked, DeadlinePasses, NoteError, Publish, gateway
  <2>8. ASSUME NEW r \in Runs, NEW i \in Ids, Send(r, i) \/ Ack(r, i) PROVE record' = record
    BY <2>8 DEF Send, Ack, gateway
  <2>9. ASSUME NEW r \in Runs, NEW shape \in Shapes, NEW rev \in 0..MaxRev, EntryChanges(r, shape, rev)
        PROVE  record' = record
    BY <2>9 DEF EntryChanges, gateway
  <2> QED BY <2>1, <2>2, <2>3, <2>4, <2>5, <2>6, <2>7, <2>8, <2>9 DEF Next
<1> QED BY <1>1, ReplyInvariant, PTL DEF Spec, CurrentEvidenceStays
=============================================================================
