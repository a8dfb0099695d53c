---------------------------- MODULE DispatchProofs ---------------------------
(***************************************************************************)
(* Proofs about DispatchLedger, for any runs, setups and numbers of        *)
(* messages: the ledger's records are in one place each, a run is closed   *)
(* once and a message committed once, whichever of the handlers, hooks,    *)
(* callbacks and timers comes first; what was streamed under a turn that   *)
(* ended well is in the conversation; and when Hermes takes the dispatches *)
(* in their order, what a running turn sends is stamped with its own run.  *)
(***************************************************************************)
EXTENDS DispatchLedger, NaturalsInduction, FiniteSetTheorems, SequenceTheorems,
        WellFoundedInduction, TLAPS

(* Sequences: the first of some places, and a sequence without one. *)

LEMMA MinIs ==
  ASSUME NEW P \in SUBSET Nat, P # {}
  PROVE  Min(P) \in P /\ \A j \in P : Min(P) <= j
<1>1. PICK k \in P : \A j \in P : <<j, k>> \notin OpToRel(<, Nat)
  BY NatLessThanWellFounded, WFMin
<1>2. \A j \in P : j \in Nat /\ k \in Nat
  OBVIOUS
<1>3. \A j \in P : ~(j < k)
  BY <1>1, <1>2 DEF OpToRel
<1>4. \A j \in P : k <= j
  BY <1>2, <1>3
<1> QED BY <1>4 DEF Min

LEMMA FirstIs ==
  ASSUME NEW q \in Seq(Runs), NEW P \in SUBSET DOMAIN q
  PROVE  \/ P = {} /\ First(q, P) = None
         \/ \E i \in P : First(q, P) = q[i] /\ q[i] \in Runs /\ \A j \in P : i <= j
<1>1. CASE P = {}
  BY <1>1 DEF First
<1>2. CASE P # {}
  <2>1. P \in SUBSET Nat
    OBVIOUS
  <2>2. Min(P) \in P /\ \A j \in P : Min(P) <= j
    BY <1>2, <2>1, MinIs
  <2>3. First(q, P) = q[Min(P)]
    BY <1>2 DEF First
  <2>4. q[Min(P)] \in Runs
    BY <2>2
  <2> QED BY <2>2, <2>3, <2>4
<1> QED BY <1>1, <1>2

\* Every run of q once.
Once(q) == \A i, j \in DOMAIN q : q[i] = q[j] => i = j

LEMMA WithoutIs ==
  ASSUME NEW q \in Seq(Runs), NEW k \in DOMAIN q, Once(q)
  PROVE  /\ Without(q, q[k]) \in Seq(Runs) /\ Len(Without(q, q[k])) = Len(q) - 1
         /\ \A i \in DOMAIN Without(q, q[k]) :
              /\ i < k => i \in DOMAIN q /\ Without(q, q[k])[i] = q[i]
              /\ i >= k => i + 1 \in DOMAIN q /\ Without(q, q[k])[i] = q[i + 1]
<1> DEFINE a == SubSeq(q, 1, k - 1)
           b == SubSeq(q, k + 1, Len(q))
           v == Without(q, q[k])
<1>1. k \in 1 .. Len(q) /\ Len(q) \in Nat
  OBVIOUS
<1>2. (CHOOSE i \in DOMAIN q : q[i] = q[k]) = k
  BY DEF Once
<1>3. v = a \o b
  BY <1>2 DEF Without, RemoveAt
<1>4. /\ a \in Seq(Runs) /\ Len(a) = k - 1 /\ \A i \in 1 .. (k - 1) : a[i] = q[i]
  BY <1>1
<1>5. /\ b \in Seq(Runs) /\ Len(b) = Len(q) - k /\ \A i \in 1 .. (Len(q) - k) : b[i] = q[k + i]
  BY <1>1
<1> HIDE DEF a, b, v
<1>6. /\ v \in Seq(Runs) /\ Len(v) = Len(q) - 1
      /\ \A i \in 1 .. Len(v) : v[i] = IF i <= Len(a) THEN a[i] ELSE b[i - Len(a)]
  <2>1. /\ a \o b \in Seq(Runs) /\ Len(a \o b) = Len(a) + Len(b)
        /\ \A i \in 1 .. Len(a) + Len(b) : (a \o b)[i] = IF i <= Len(a) THEN a[i] ELSE b[i - Len(a)]
    BY <1>4, <1>5, ConcatProperties
  <2>2. Len(a) + Len(b) = Len(q) - 1 /\ Len(a) + Len(b) \in Nat
    BY <1>1, <1>4, <1>5
  <2> QED BY <1>3, <2>1, <2>2
<1>7. ASSUME NEW i \in DOMAIN v, i < k PROVE i \in DOMAIN q /\ v[i] = q[i]
  <2>1. i \in 1 .. Len(v) /\ i \in 1 .. (k - 1) /\ i <= Len(a)
    BY <1>1, <1>4, <1>6, <1>7
  <2>2. i \in DOMAIN q /\ a[i] = q[i]
    BY <1>1, <1>4, <2>1
  <2>3. v[i] = a[i]
    BY <1>6, <2>1
  <2> QED BY <2>2, <2>3
<1>8. ASSUME NEW i \in DOMAIN v, i >= k PROVE i + 1 \in DOMAIN q /\ v[i] = q[i + 1]
  <2>1. i \in 1 .. (Len(q) - 1) /\ ~(i <= Len(a))
    BY <1>1, <1>4, <1>6, <1>8
  <2>2. i - (k - 1) \in 1 .. (Len(q) - k) /\ k + (i - (k - 1)) = i + 1
    BY <1>1, <1>8, <2>1
  <2>3. v[i] = b[i - (k - 1)]
    BY <1>4, <1>6, <2>1
  <2>4. b[i - (k - 1)] = q[i + 1]
    BY <1>5, <2>2
  <2> QED BY <1>1, <2>1, <2>3, <2>4
<1> QED BY <1>6, <1>7, <1>8 DEF v

LEMMA WithoutHas ==
  ASSUME NEW q \in Seq(Runs), NEW r \in ToSet(q), Once(q)
  PROVE  /\ Without(q, r) \in Seq(Runs) /\ Once(Without(q, r))
         /\ ToSet(Without(q, r)) = ToSet(q) \ {r}
<1>1. PICK k \in DOMAIN q : q[k] = r
  BY DEF ToSet
<1> DEFINE v == Without(q, r)
<1>2. /\ v \in Seq(Runs) /\ Len(v) = Len(q) - 1
      /\ \A i \in DOMAIN v : /\ i < k => i \in DOMAIN q /\ v[i] = q[i]
                             /\ i >= k => i + 1 \in DOMAIN q /\ v[i] = q[i + 1]
  BY <1>1, WithoutIs
<1> HIDE DEF v
<1>3. /\ k \in Nat /\ Len(q) \in Nat /\ DOMAIN q = 1 .. Len(q) /\ DOMAIN v = 1 .. Len(v)
  BY <1>2
<1>4. Once(v)
  <2> SUFFICES ASSUME NEW i \in DOMAIN v, NEW j \in DOMAIN v, v[i] = v[j] PROVE i = j
    BY DEF Once
  <2>1. i \in Nat /\ j \in Nat
    BY <1>3
  <2>2. CASE i < k /\ j < k
    BY <1>2, <2>2 DEF Once
  <2>3. CASE i >= k /\ j >= k
    <3>1. i + 1 = j + 1
      BY <1>2, <2>3 DEF Once
    <3> QED BY <2>1, <3>1
  <2>4. CASE i < k /\ j >= k
    <3>1. i = j + 1
      BY <1>2, <2>4 DEF Once
    <3> QED BY <1>3, <2>1, <2>4, <3>1
  <2>5. CASE i >= k /\ j < k
    <3>1. i + 1 = j
      BY <1>2, <2>5 DEF Once
    <3> QED BY <1>3, <2>1, <2>5, <3>1
  <2> QED BY <1>3, <2>1, <2>2, <2>3, <2>4, <2>5
<1>5. ASSUME NEW i \in DOMAIN v PROVE v[i] \in ToSet(q) \ {r}
  <2>1. i \in Nat
    BY <1>3
  <2>2. CASE i < k
    <3>1. i \in DOMAIN q /\ v[i] = q[i] /\ i # k
      BY <1>2, <1>3, <2>1, <2>2
    <3> QED BY <1>1, <3>1 DEF ToSet, Once
  <2>3. CASE i >= k
    <3>1. i + 1 \in DOMAIN q /\ v[i] = q[i + 1] /\ i + 1 # k
      BY <1>2, <1>3, <2>1, <2>3
    <3> QED BY <1>1, <3>1 DEF ToSet, Once
  <2> QED BY <1>3, <2>1, <2>2, <2>3
<1>6. ASSUME NEW j \in DOMAIN q, j # k PROVE q[j] \in ToSet(v)
  <2>1. j \in Nat /\ j <= Len(q) /\ j >= 1
    BY <1>3
  <2>2. CASE j < k
    <3>1. j \in DOMAIN v
      BY <1>2, <1>3, <2>1, <2>2
    <3>2. v[j] = q[j]
      BY <1>2, <2>2, <3>1
    <3> QED BY <3>1, <3>2 DEF ToSet
  <2>3. CASE j > k
    <3>1. j - 1 \in DOMAIN v /\ j - 1 >= k /\ (j - 1) + 1 = j
      BY <1>2, <1>3, <2>1, <2>3
    <3>2. v[j - 1] = q[j]
      BY <1>2, <3>1
    <3> QED BY <3>1, <3>2 DEF ToSet
  <2> QED BY <1>3, <1>6, <2>1, <2>2, <2>3
<1>7. ToSet(v) = ToSet(q) \ {r}
  <2>1. ToSet(v) \subseteq ToSet(q) \ {r}
    BY <1>5 DEF ToSet
  <2>2. ToSet(q) \ {r} \subseteq ToSet(v)
    BY <1>1, <1>6 DEF ToSet
  <2> QED BY <2>1, <2>2
<1> QED BY <1>2, <1>4, <1>7 DEF v

LEMMA AppendHas ==
  ASSUME NEW q \in Seq(Runs), NEW r \in Runs, r \notin ToSet(q), Once(q)
  PROVE  /\ Append(q, r) \in Seq(Runs) /\ Once(Append(q, r))
         /\ ToSet(Append(q, r)) = ToSet(q) \cup {r}
<1> DEFINE v == Append(q, r)
<1>1. /\ v \in Seq(Runs) /\ Len(v) = Len(q) + 1 /\ Len(q) \in Nat
      /\ \A i \in 1 .. Len(q) : v[i] = q[i]
      /\ v[Len(q) + 1] = r /\ DOMAIN v = 1 .. (Len(q) + 1) /\ DOMAIN q = 1 .. Len(q)
  OBVIOUS
<1> HIDE DEF v
<1>2. \A i \in DOMAIN q : q[i] # r
  BY DEF ToSet
<1>3. Once(v)
  BY <1>1, <1>2 DEF Once
<1>4. ToSet(v) = ToSet(q) \cup {r}
  <2>1. \A i \in DOMAIN v : v[i] \in ToSet(q) \cup {r}
    BY <1>1 DEF ToSet
  <2>2. \A i \in DOMAIN q : q[i] \in ToSet(v)
    BY <1>1 DEF ToSet
  <2>3. r \in ToSet(v)
    BY <1>1 DEF ToSet
  <2> QED BY <2>1, <2>2, <2>3 DEF ToSet
<1> QED BY <1>1, <1>3, <1>4 DEF v

-----------------------------------------------------------------------------
(* What a ledger can be. *)

States == {"none", "active", "pending", "rider", "gone"}
Turns == {"none", "queued", "merged", "running", "refused", "ended", "dying", "done"}
Recs == [state : States, kind : {"turn", "slash"}, media : BOOLEAN, riders : SUBSET Runs,
         msg : Messages \cup {NoMessage}, open : BOOLEAN, error : BOOLEAN]
Outs == [ends : [Runs -> Seq({"end", "error"})], commits : [Messages -> Seq(Runs \cup {None})],
         shown : SUBSET (Messages \X Runs), refused : SUBSET Runs,
         strays : SUBSET (Runs \X (Turns \cup {"expected"}) \X (Runs \cup {None}))]
Worlds == [fifo : Seq(Runs), rec : [Runs -> Recs], marks : SUBSET Runs, out : Outs]

\* A run has one place; the records in the fifo are the active and the pending ones,
\* and one at most is active.
Order(w) ==
  /\ Once(w.fifo)
  /\ \A r \in Runs : w.rec[r].state \in {"active", "pending"} <=> r \in ToSet(w.fifo)
  /\ \A r, s \in Runs : w.rec[r].state = "active" /\ w.rec[s].state = "active" => r = s

\* A rider rides on one record, and has no message; nor has a run that is not begun.
Riding(w) ==
  /\ \A c \in Runs : \A x \in w.rec[c].riders : w.rec[x].state = "rider"
  /\ \A c, d \in Runs : c # d => w.rec[c].riders \cap w.rec[d].riders = {}
  /\ \A r \in Runs : w.rec[r].state \in {"none", "rider"}
                       => w.rec[r].riders = {} /\ w.rec[r].msg = NoMessage /\ ~w.rec[r].open

\* A mark is of a run that headed the session.
Refusals(w) ==
  /\ w.marks \subseteq w.out.refused
  /\ \A r \in w.marks : w.rec[r].state \in {"active", "gone"}

\* Terminals: K is what still has one to come though it has left the fifo.
Ends(w, K) ==
  /\ \A c \in ToSet(w.fifo) : \A x \in Group(w, c) : w.out.ends[x] = <<>> /\ x \notin K
  /\ \A x \in Runs \ w.out.refused :
       Len(w.out.ends[x]) <= 1 /\ (x \in K => w.out.ends[x] = <<>>)
  /\ \A x \in Runs : w.rec[x].state = "none" => w.out.ends[x] = <<>> /\ x \notin K

\* Messages: n is how many each turn has sent. One is the current message of one record,
\* and what is open is not committed.
Texts(w, n) ==
  /\ \A m \in Messages : /\ Len(w.out.commits[m]) <= 1
                         /\ w.out.commits[m] # <<>> => m[2] <= n[m[1]]
  /\ \A r \in Runs : w.rec[r].msg # NoMessage => w.rec[r].msg[2] <= n[w.rec[r].msg[1]]
  /\ \A r, s \in Runs : w.rec[r].msg = w.rec[s].msg => r = s \/ w.rec[r].msg = NoMessage
  /\ \A r \in Runs : w.rec[r].open
                       => w.rec[r].msg # NoMessage /\ w.out.commits[w.rec[r].msg] = <<>>

\* What is shown is a record's that headed the session, and it is committed before a
\* turn ends well.
Streams(w) ==
  \A s \in w.out.shown :
    /\ w.rec[s[2]].state \in {"active", "gone"}
    /\ w.rec[s[2]].kind = "turn" /\ w.out.ends[s[2]] = <<"end">> => w.out.commits[s[1]] # <<>>

Sound(w, K, n) == /\ w \in Worlds /\ Order(w) /\ Riding(w) /\ Refusals(w)
                  /\ Ends(w, K) /\ Texts(w, n) /\ Streams(w)

\* What is shown is committed, open or of a cancelled run; X are the exceptions.
Kept(w, X) ==
  \A s \in w.out.shown \ X :
    \/ s[2] \in cancelled \/ w.out.commits[s[1]] # <<>>
    \/ w.rec[s[2]].open /\ w.rec[s[2]].msg = s[1]

\* Same fields.
SameState(v, w) == \A r \in Runs : v.rec[r].state = w.rec[r].state
SameRiders(v, w) == \A r \in Runs : v.rec[r].riders = w.rec[r].riders
SameKind(v, w) == \A r \in Runs : v.rec[r].kind = w.rec[r].kind
SameMessage(v, w) == \A r \in Runs : v.rec[r].msg = w.rec[r].msg /\ v.rec[r].open = w.rec[r].open
SameRecs(v, w) == SameRiders(v, w) /\ SameKind(v, w) /\ SameMessage(v, w)

\* No record of w is refused or carries media in v that did not.
Mild(w, v) ==
  /\ w.marks = {} => v.marks = {}
  /\ \A r \in Runs : (v.rec[r].error => w.rec[r].error) /\ (v.rec[r].media => w.rec[r].media)

-----------------------------------------------------------------------------
(* The steps of a ledger. *)

LEMMA ActivateIs ==
  ASSUME NEW w \in Worlds, NEW r \in Runs
  PROVE  /\ Activate(w, r) \in Worlds /\ Activate(w, r).fifo = w.fifo
         /\ Activate(w, r).marks = w.marks /\ Activate(w, r).out = w.out
         /\ SameRecs(Activate(w, r), w) /\ Mild(w, Activate(w, r))
         /\ \A x \in Runs : /\ x = r => Activate(w, r).rec[x].state = "active"
                            /\ x # r => Activate(w, r).rec[x] = w.rec[x]
<1> DEFINE e == [w.rec[r] EXCEPT !.state = "active"]
           v == [w EXCEPT !.rec = [w.rec EXCEPT ![r] = e]]
<1>1. /\ w.rec \in [Runs -> Recs] /\ w.rec[r] \in Recs
  BY DEF Worlds
<1>2. e \in Recs /\ e.riders = w.rec[r].riders /\ e.kind = w.rec[r].kind /\ e.msg = w.rec[r].msg
      /\ e.open = w.rec[r].open /\ e.state = "active"
      /\ e.error = w.rec[r].error /\ e.media = w.rec[r].media
  BY <1>1 DEF Recs, States
<1>3. Activate(w, r) = v
  BY NoneAssumption DEF Activate
<1> HIDE DEF e
<1>4. v \in Worlds /\ v.fifo = w.fifo /\ v.marks = w.marks /\ v.out = w.out
      /\ v.rec = [w.rec EXCEPT ![r] = e]
  BY <1>1, <1>2 DEF Worlds
<1> HIDE DEF v
<1>5. \A x \in Runs : v.rec[x] = IF x = r THEN e ELSE w.rec[x]
  BY <1>1, <1>4
<1> QED BY <1>2, <1>3, <1>4, <1>5 DEF SameRecs, SameRiders, SameKind, SameMessage, Mild

LEMMA PopOnlyIs ==
  ASSUME NEW w \in Worlds, NEW r \in ToSet(w.fifo), Once(w.fifo)
  PROVE  /\ PopOnly(w, r) \in Worlds /\ PopOnly(w, r).fifo = Without(w.fifo, r)
         /\ PopOnly(w, r).marks = w.marks /\ PopOnly(w, r).out = w.out
         /\ SameRecs(PopOnly(w, r), w) /\ Mild(w, PopOnly(w, r))
         /\ \A x \in Runs : /\ x = r => PopOnly(w, r).rec[x].state = "gone"
                            /\ x # r => PopOnly(w, r).rec[x] = w.rec[x]
<1> DEFINE e == [w.rec[r] EXCEPT !.state = "gone"]
           q == Without(w.fifo, r)
           v == [w EXCEPT !.fifo = q, !.rec = [w.rec EXCEPT ![r] = e]]
<1>0. w.fifo \in Seq(Runs)
  BY DEF Worlds
<1>1. r \in Runs /\ q \in Seq(Runs)
  BY <1>0, WithoutHas DEF ToSet
<1>2. /\ w.rec \in [Runs -> Recs] /\ w.rec[r] \in Recs
  BY <1>1 DEF Worlds
<1>3. e \in Recs /\ e.riders = w.rec[r].riders /\ e.kind = w.rec[r].kind /\ e.msg = w.rec[r].msg
      /\ e.open = w.rec[r].open /\ e.state = "gone"
      /\ e.error = w.rec[r].error /\ e.media = w.rec[r].media
  BY <1>2 DEF Recs, States
<1>4. PopOnly(w, r) = v
  BY DEF PopOnly
<1> HIDE DEF e, q
<1>5. v \in Worlds /\ v.fifo = q /\ v.marks = w.marks /\ v.out = w.out
      /\ v.rec = [w.rec EXCEPT ![r] = e]
  BY <1>1, <1>2, <1>3 DEF Worlds
<1> HIDE DEF v
<1>6. \A x \in Runs : v.rec[x] = IF x = r THEN e ELSE w.rec[x]
  BY <1>1, <1>2, <1>5
<1> QED BY <1>3, <1>4, <1>5, <1>6 DEF q, SameRecs, SameRiders, SameKind, SameMessage, Mild

LEMMA TerminalIs ==
  ASSUME NEW w \in Worlds, NEW rs, NEW ok \in BOOLEAN
  PROVE  /\ Terminal(w, rs, ok) \in Worlds /\ Terminal(w, rs, ok).fifo = w.fifo
         /\ Terminal(w, rs, ok).rec = w.rec /\ Terminal(w, rs, ok).marks = w.marks
         /\ Terminal(w, rs, ok).out.commits = w.out.commits
         /\ Terminal(w, rs, ok).out.shown = w.out.shown
         /\ Terminal(w, rs, ok).out.refused = w.out.refused
         /\ Terminal(w, rs, ok).out.strays = w.out.strays
         /\ \A x \in Runs :
              Terminal(w, rs, ok).out.ends[x] =
                IF x \in rs THEN Append(w.out.ends[x], IF ok THEN "end" ELSE "error") ELSE w.out.ends[x]
<1> DEFINE f == [x \in Runs |-> IF x \in rs THEN Append(w.out.ends[x], IF ok THEN "end" ELSE "error")
                                ELSE w.out.ends[x]]
           o == [w.out EXCEPT !.ends = f]
           v == [w EXCEPT !.out = o]
<1>1. w.out \in Outs /\ w.out.ends \in [Runs -> Seq({"end", "error"})]
  BY DEF Worlds, Outs
<1>2. (IF ok THEN "end" ELSE "error") \in {"end", "error"}
  OBVIOUS
<1>3. f \in [Runs -> Seq({"end", "error"})]
  BY <1>1, <1>2
<1>4. Terminal(w, rs, ok) = v
  BY DEF Terminal
<1>5. \A x \in Runs : f[x] = IF x \in rs THEN Append(w.out.ends[x], IF ok THEN "end" ELSE "error")
                             ELSE w.out.ends[x]
  OBVIOUS
<1> HIDE DEF f
<1>6. o \in Outs /\ o.ends = f /\ o.commits = w.out.commits /\ o.shown = w.out.shown
      /\ o.refused = w.out.refused /\ o.strays = w.out.strays
  BY <1>1, <1>3 DEF Outs
<1> HIDE DEF o
<1>7. v \in Worlds /\ v.fifo = w.fifo /\ v.rec = w.rec /\ v.marks = w.marks /\ v.out = o
  BY <1>6 DEF Worlds
<1> HIDE DEF v
<1> QED BY <1>4, <1>5, <1>6, <1>7

-----------------------------------------------------------------------------
(* The head, and what becoming active and leaving do. *)

LEMMA InFifo ==
  ASSUME NEW w \in Worlds
  PROVE  /\ w.fifo \in Seq(Runs) /\ ToSet(w.fifo) \subseteq Runs
         /\ w.rec \in [Runs -> Recs] /\ \A r \in Runs : w.rec[r] \in Recs
<1>1. w.fifo \in Seq(Runs) /\ w.rec \in [Runs -> Recs]
  BY DEF Worlds
<1> QED BY <1>1 DEF ToSet

LEMMA HeadIs ==
  ASSUME NEW w \in Worlds, NEW s
  PROVE  LET h == First(w.fifo, InState(w, s)) IN
         \/ h = None /\ \A r \in ToSet(w.fifo) : w.rec[r].state # s
         \/ h # None /\ h \in ToSet(w.fifo) /\ h \in Runs /\ w.rec[h].state = s
<1> DEFINE P == InState(w, s)
           h == First(w.fifo, P)
<1>1. w.fifo \in Seq(Runs) /\ ToSet(w.fifo) \subseteq Runs
  BY InFifo
<1>2. P \in SUBSET DOMAIN w.fifo
  BY DEF InState
<1>3. CASE P = {}
  <2>1. h = None
    BY <1>3 DEF First
  <2>2. \A r \in ToSet(w.fifo) : w.rec[r].state # s
    BY <1>3 DEF ToSet, InState
  <2> QED BY <2>1, <2>2
<1>4. CASE P # {}
  <2>1. PICK i \in P : h = w.fifo[i]
    BY <1>1, <1>2, <1>4, FirstIs
  <2>2. h \in ToSet(w.fifo) /\ w.rec[h].state = s
    BY <2>1 DEF InState, ToSet
  <2> QED BY <1>1, <2>2, NoneAssumption
<1> QED BY <1>3, <1>4

LEMMA ActiveIs ==
  ASSUME NEW w \in Worlds, Order(w)
  PROVE  \/ Active(w) = None /\ \A r \in Runs : w.rec[r].state # "active"
         \/ /\ Active(w) # None /\ Active(w) \in ToSet(w.fifo) /\ Active(w) \in Runs
            /\ \A r \in Runs : w.rec[r].state = "active" <=> r = Active(w)
<1>1. \/ Active(w) = None /\ \A r \in ToSet(w.fifo) : w.rec[r].state # "active"
      \/ /\ Active(w) # None /\ Active(w) \in ToSet(w.fifo) /\ Active(w) \in Runs
         /\ w.rec[Active(w)].state = "active"
  BY HeadIs DEF Active
<1> QED BY <1>1 DEF Order

LEMMA PendingIs ==
  ASSUME NEW w \in Worlds, Order(w)
  PROVE  \/ Pending(w) = None /\ \A r \in Runs : w.rec[r].state # "pending"
         \/ /\ Pending(w) # None /\ Pending(w) \in ToSet(w.fifo) /\ Pending(w) \in Runs
            /\ w.rec[Pending(w)].state = "pending"
<1>1. \/ Pending(w) = None /\ \A r \in ToSet(w.fifo) : w.rec[r].state # "pending"
      \/ /\ Pending(w) # None /\ Pending(w) \in ToSet(w.fifo) /\ Pending(w) \in Runs
         /\ w.rec[Pending(w)].state = "pending"
  BY HeadIs DEF Pending
<1> QED BY <1>1 DEF Order

LEMMA SameGroup ==
  ASSUME NEW v, NEW w, SameRiders(v, w)
  PROVE  \A r \in Runs : Group(v, r) = Group(w, r)
BY DEF SameRiders, Group

\* Who is in whose group.
LEMMA GroupIs ==
  ASSUME NEW w \in Worlds, Riding(w), NEW r \in Runs
  PROVE  /\ Group(w, r) \subseteq Runs /\ r \in Group(w, r)
         /\ \A x \in Group(w, r) : x = r \/ w.rec[x].state = "rider"
         /\ \A c \in Runs : c # r /\ w.rec[c].state # "rider" /\ w.rec[r].state # "rider"
              => Group(w, c) \cap Group(w, r) = {}
<1>1. \A x \in Runs : w.rec[x].riders \subseteq Runs
  BY InFifo DEF Recs
<1>2. Group(w, r) \subseteq Runs /\ r \in Group(w, r)
  BY <1>1 DEF Group
<1>3. \A x \in Group(w, r) : x = r \/ w.rec[x].state = "rider"
  BY DEF Group, Riding
<1>4. ASSUME NEW c \in Runs, c # r, w.rec[c].state # "rider", w.rec[r].state # "rider"
      PROVE  Group(w, c) \cap Group(w, r) = {}
  <2>1. c \notin w.rec[r].riders /\ r \notin w.rec[c].riders
    BY <1>4 DEF Riding
  <2>2. w.rec[c].riders \cap w.rec[r].riders = {}
    BY <1>4 DEF Riding
  <2> QED BY <1>4, <2>1, <2>2 DEF Group
<1> QED BY <1>2, <1>3, <1>4

LEMMA RidingStays ==
  ASSUME NEW w \in Worlds, NEW v, Riding(w), SameRiders(v, w), SameMessage(v, w),
         \A x \in Runs : v.rec[x].state \in {"none", "rider"} <=> w.rec[x].state \in {"none", "rider"},
         \A x \in Runs : w.rec[x].state = "rider" => v.rec[x].state = "rider"
  PROVE  Riding(v)
<1>1. \A c \in Runs : w.rec[c].riders \subseteq Runs /\ v.rec[c].riders = w.rec[c].riders
  BY InFifo DEF SameRiders, Recs
<1>2. \A c \in Runs : \A x \in v.rec[c].riders : v.rec[x].state = "rider"
  BY <1>1 DEF Riding
<1>3. \A c, d \in Runs : c # d => v.rec[c].riders \cap v.rec[d].riders = {}
  BY <1>1 DEF Riding
<1>4. \A r \in Runs : v.rec[r].state \in {"none", "rider"}
                      => v.rec[r].riders = {} /\ v.rec[r].msg = NoMessage /\ ~v.rec[r].open
  BY <1>1 DEF Riding, SameMessage
<1> QED BY <1>2, <1>3, <1>4 DEF Riding

LEMMA ActivateKeeps ==
  ASSUME NEW w, NEW K, NEW n, Sound(w, K, n), NEW r \in ToSet(w.fifo),
         \A x \in Runs : w.rec[x].state = "active" => x = r
  PROVE  Sound(Activate(w, r), K, n)
<1> DEFINE v == Activate(w, r)
<1>1. w \in Worlds /\ r \in Runs /\ ToSet(w.fifo) \subseteq Runs
  BY InFifo DEF Sound
<1>2. /\ v \in Worlds /\ v.fifo = w.fifo /\ v.marks = w.marks /\ v.out = w.out /\ SameRecs(v, w)
      /\ \A x \in Runs : /\ x = r => v.rec[x].state = "active"
                         /\ x # r => v.rec[x] = w.rec[x]
  BY <1>1, ActivateIs
<1> HIDE DEF v
<1>3. w.rec[r].state \in {"active", "pending"}
  BY <1>1 DEF Sound, Order
<1>4. Order(v)
  BY <1>1, <1>2, <1>3 DEF Sound, Order
<1>5. Riding(v)
  <2>1. Riding(w) /\ SameRiders(v, w) /\ SameMessage(v, w)
    BY <1>2 DEF Sound, SameRecs
  <2>2. \A x \in Runs : v.rec[x].state \in {"none", "rider"} <=> w.rec[x].state \in {"none", "rider"}
    BY <1>2, <1>3
  <2>3. \A x \in Runs : w.rec[x].state = "rider" => v.rec[x].state = "rider"
    BY <1>2, <1>3
  <2> QED BY <1>1, <2>1, <2>2, <2>3, RidingStays
<1>6. Refusals(v)
  BY <1>1, <1>2 DEF Sound, Refusals, Worlds
<1>7. Ends(v, K)
  <2>1. \A c \in Runs : Group(v, c) = Group(w, c)
    BY <1>2, SameGroup DEF SameRecs
  <2> QED BY <1>1, <1>2, <2>1 DEF Sound, Ends
<1>8. Texts(v, n)
  BY <1>2 DEF Sound, Texts, SameRecs, SameMessage
<1>9. Streams(v)
  <2>1. \A s \in w.out.shown : s[2] \in Runs
    BY <1>1 DEF Worlds, Outs
  <2> QED BY <1>2, <2>1 DEF Sound, Streams, SameRecs, SameKind
<1> QED BY <1>2, <1>4, <1>5, <1>6, <1>7, <1>8, <1>9 DEF Sound, v

LEMMA PopOnlyKeeps ==
  ASSUME NEW w, NEW K, NEW n, Sound(w, K, n), NEW r \in ToSet(w.fifo)
  PROVE  Sound(PopOnly(w, r), K \cup Group(w, r), n)
<1> DEFINE v == PopOnly(w, r)
           L == K \cup Group(w, r)
<1>1. w \in Worlds /\ r \in Runs /\ ToSet(w.fifo) \subseteq Runs /\ Once(w.fifo) /\ w.fifo \in Seq(Runs)
  BY InFifo DEF Sound, Order
<1>2. /\ v \in Worlds /\ v.fifo = Without(w.fifo, r) /\ v.marks = w.marks /\ v.out = w.out
      /\ SameRecs(v, w)
      /\ \A x \in Runs : /\ x = r => v.rec[x].state = "gone"
                         /\ x # r => v.rec[x] = w.rec[x]
  BY <1>1, PopOnlyIs
<1>3. Once(v.fifo) /\ ToSet(v.fifo) = ToSet(w.fifo) \ {r}
  BY <1>1, <1>2, WithoutHas
<1> HIDE DEF v
<1>4. w.rec[r].state \in {"active", "pending"}
  BY <1>1 DEF Sound, Order
<1>5. Order(v)
  BY <1>1, <1>2, <1>3, <1>4 DEF Sound, Order
<1>6. Riding(v)
  <2>1. Riding(w) /\ SameRiders(v, w) /\ SameMessage(v, w)
    BY <1>2 DEF Sound, SameRecs
  <2>2. \A x \in Runs : v.rec[x].state \in {"none", "rider"} <=> w.rec[x].state \in {"none", "rider"}
    BY <1>2, <1>4
  <2>3. \A x \in Runs : w.rec[x].state = "rider" => v.rec[x].state = "rider"
    BY <1>2, <1>4
  <2> QED BY <1>1, <2>1, <2>2, <2>3, RidingStays
<1>7. Refusals(v)
  BY <1>1, <1>2 DEF Sound, Refusals, Worlds
<1>8. Ends(v, L)
  <2>1. \A c \in Runs : Group(v, c) = Group(w, c)
    BY <1>2, SameGroup DEF SameRecs
  <2>2. \A c \in ToSet(v.fifo) : c \in ToSet(w.fifo) /\ c \in Runs /\ c # r
                                  /\ w.rec[c].state \in {"active", "pending"}
    BY <1>1, <1>3 DEF Sound, Order
  <2>3. Riding(w)
    BY DEF Sound
  <2>4. \A c \in ToSet(v.fifo) : Group(w, c) \cap Group(w, r) = {}
    BY <1>1, <1>4, <2>2, <2>3, GroupIs
  <2>5. \A c \in ToSet(v.fifo) : \A x \in Group(v, c) : v.out.ends[x] = <<>> /\ x \notin L
    BY <1>2, <2>1, <2>2, <2>4 DEF Sound, Ends
  <2>6. \A x \in Runs \ v.out.refused :
          Len(v.out.ends[x]) <= 1 /\ (x \in L => v.out.ends[x] = <<>>)
    BY <1>2 DEF Sound, Ends
  <2>7. \A x \in Group(w, r) : x \in Runs /\ w.rec[x].state # "none"
    BY <1>1, <1>4, <2>3, GroupIs
  <2>8. \A x \in Runs : v.rec[x].state = "none" => v.out.ends[x] = <<>> /\ x \notin L
    BY <1>2, <2>7 DEF Sound, Ends
  <2> QED BY <2>5, <2>6, <2>8 DEF Ends
<1>9. Texts(v, n)
  BY <1>2 DEF Sound, Texts, SameRecs, SameMessage
<1>10. Streams(v)
  <2>1. \A s \in w.out.shown : s[2] \in Runs
    BY <1>1 DEF Worlds, Outs
  <2> QED BY <1>2, <2>1 DEF Sound, Streams, SameRecs, SameKind
<1> QED BY <1>2, <1>5, <1>6, <1>7, <1>8, <1>9, <1>10 DEF Sound, v

\* What a closing leaves alone, and the way states go.
Onward(w, v) ==
  \A x \in Runs : \/ v.rec[x].state = w.rec[x].state
                  \/ w.rec[x].state \in {"active", "pending"} /\ v.rec[x].state \in {"active", "gone"}
Closes(w, v) ==
  /\ SameRecs(v, w) /\ Onward(w, v) /\ ToSet(v.fifo) \subseteq ToSet(w.fifo)
  /\ v.out.shown = w.out.shown /\ v.out.commits = w.out.commits /\ v.out.refused = w.out.refused

LEMMA ClosesOn ==
  ASSUME NEW u, NEW v, NEW w, Closes(u, v), Closes(v, w)
  PROVE  Closes(u, w)
<1>1. SameRecs(w, u)
  BY DEF Closes, SameRecs, SameRiders, SameKind, SameMessage
<1>2. Onward(u, w)
  BY DEF Closes, Onward
<1> QED BY <1>1, <1>2 DEF Closes

LEMMA ClosesNot == ASSUME NEW w PROVE Closes(w, w)
BY DEF Closes, SameRecs, SameRiders, SameKind, SameMessage, Onward

LEMMA KeptStays ==
  ASSUME NEW w \in Worlds, NEW v, NEW X, Kept(w, X), SameMessage(v, w),
         v.out.shown = w.out.shown, v.out.commits = w.out.commits
  PROVE  Kept(v, X)
<1>1. \A s \in w.out.shown : s[2] \in Runs
  BY DEF Worlds, Outs
<1> QED BY <1>1 DEF Kept, SameMessage

\* Refused runs may have more than one.
LEMMA SoundMore ==
  ASSUME NEW w, NEW K, NEW n, Sound(w, K, n), NEW L,
         \A x \in L \ K : /\ x \in w.out.refused /\ w.rec[x].state # "none"
                          /\ \A c \in ToSet(w.fifo) : x \notin Group(w, c)
  PROVE  Sound(w, L, n)
BY DEF Sound, Ends

LEMMA SoundLess ==
  ASSUME NEW w, NEW K, NEW n, Sound(w, K, n), NEW L \in SUBSET K
  PROVE  Sound(w, L, n)
BY DEF Sound, Ends

LEMMA PopKeeps ==
  ASSUME NEW w, NEW K, NEW n, Sound(w, K, n), NEW r \in Runs, w.rec[r].state = "active"
  PROVE  /\ Sound(Pop(w, r), K \cup Group(w, r), n) /\ Closes(w, Pop(w, r))
         /\ Pop(w, r).out = w.out /\ Pop(w, r).marks = w.marks /\ Pop(w, r).rec[r].state = "gone"
         /\ ToSet(Pop(w, r).fifo) = ToSet(w.fifo) \ {r}
<1> DEFINE u == PopOnly(w, r)
           p == Pending(u)
           v == Activate(u, p)
           L == K \cup Group(w, r)
<1>1. w \in Worlds /\ Once(w.fifo) /\ w.fifo \in Seq(Runs) /\ r \in ToSet(w.fifo)
  BY InFifo DEF Sound, Order
<1>2. Sound(u, L, n)
  BY <1>1, PopOnlyKeeps
<1>3. /\ u \in Worlds /\ u.fifo = Without(w.fifo, r) /\ u.marks = w.marks /\ u.out = w.out
      /\ SameRecs(u, w)
      /\ \A x \in Runs : /\ x = r => u.rec[x].state = "gone"
                         /\ x # r => u.rec[x] = w.rec[x]
  BY <1>1, PopOnlyIs
<1>4. ToSet(u.fifo) = ToSet(w.fifo) \ {r}
  BY <1>1, <1>3, WithoutHas
<1>5. Pop(w, r) = v
  BY DEF Pop
<1> HIDE DEF u
<1>6. \/ p = None
      \/ p # None /\ p \in ToSet(u.fifo) /\ p \in Runs /\ u.rec[p].state = "pending"
  BY <1>2, PendingIs DEF Sound
<1> HIDE DEF p
<1>7. CASE p = None
  <2>1. v = u
    BY <1>7 DEF Activate
  <2>2. Onward(w, u)
    BY <1>1, <1>3 DEF Onward
  <2> QED BY <1>2, <1>3, <1>4, <1>5, <2>1, <2>2 DEF Closes
<1>8. CASE p # None
  <2>1. \A x \in Runs : u.rec[x].state # "active"
    BY <1>1, <1>3 DEF Sound, Order
  <2>2. Sound(v, L, n)
    BY <1>2, <1>6, <1>8, <2>1, ActivateKeeps
  <2>3. /\ v.fifo = u.fifo /\ v.marks = u.marks /\ v.out = u.out /\ SameRecs(v, u)
        /\ \A x \in Runs : /\ x = p => v.rec[x].state = "active"
                           /\ x # p => v.rec[x] = u.rec[x]
    BY <1>3, <1>6, <1>8, ActivateIs
  <2> HIDE DEF v
  <2>4. w.rec[p].state = "pending" /\ p # r
    BY <1>3, <1>6, <1>8
  <2>5. Onward(w, v) /\ v.rec[r].state = "gone"
    BY <1>3, <1>6, <2>3, <2>4 DEF Onward
  <2>6. SameRecs(v, w)
    BY <1>3, <2>3 DEF SameRecs, SameRiders, SameKind, SameMessage
  <2> QED BY <1>3, <1>4, <1>5, <2>2, <2>3, <2>5, <2>6 DEF Closes
<1> QED BY <1>7, <1>8

\* Runs get their terminal: those that have one to come, and refused ones once more.
LEMMA TerminalKeeps ==
  ASSUME NEW w, NEW K, NEW n, Sound(w, K, n), NEW rs \in SUBSET Runs, NEW ok \in BOOLEAN,
         \A x \in rs : x \in K \cup w.out.refused /\ w.rec[x].state # "none",
         \A c \in ToSet(w.fifo) : Group(w, c) \cap rs = {},
         ok => \A s \in w.out.shown : s[2] \in rs /\ w.rec[s[2]].kind = "turn"
                                        => w.out.commits[s[1]] # <<>>
  PROVE  Sound(Terminal(w, rs, ok), K \ rs, n) /\ Closes(w, Terminal(w, rs, ok))
<1> DEFINE v == Terminal(w, rs, ok)
           end == IF ok THEN "end" ELSE "error"
<1>1. w \in Worlds /\ w.out \in Outs /\ w.out.ends \in [Runs -> Seq({"end", "error"})]
      /\ ToSet(w.fifo) \subseteq Runs
  BY InFifo DEF Sound, Worlds, Outs
<1>2. /\ v \in Worlds /\ v.fifo = w.fifo /\ v.rec = w.rec /\ v.marks = w.marks
      /\ v.out.commits = w.out.commits /\ v.out.shown = w.out.shown
      /\ v.out.refused = w.out.refused
      /\ \A x \in Runs : v.out.ends[x] = IF x \in rs THEN Append(w.out.ends[x], end) ELSE w.out.ends[x]
  BY <1>1, TerminalIs
<1> HIDE DEF v
<1>3. \A x \in Runs : Len(Append(w.out.ends[x], end)) = Len(w.out.ends[x]) + 1
                      /\ Append(w.out.ends[x], end)[Len(w.out.ends[x]) + 1] = end
                      /\ Len(w.out.ends[x]) \in Nat
  BY <1>1
<1>4. Closes(w, v)
  BY <1>2 DEF Closes, SameRecs, SameRiders, SameKind, SameMessage, Onward
<1>5. SameRiders(v, w) /\ \A c \in Runs : Group(v, c) = Group(w, c)
  BY <1>4, SameGroup DEF Closes, SameRecs
<1>6. Order(v) /\ Refusals(v) /\ Texts(v, n)
  BY <1>2 DEF Sound, Order, Refusals, Texts
<1>7. Riding(v)
  BY <1>2 DEF Sound, Riding
<1>8. Ends(v, K \ rs)
  <2>1. \A c \in ToSet(v.fifo) : \A x \in Group(v, c) : v.out.ends[x] = <<>> /\ x \notin K \ rs
    <3> SUFFICES ASSUME NEW c \in ToSet(w.fifo), NEW x \in Group(w, c)
                 PROVE  v.out.ends[x] = <<>> /\ x \notin K
      BY <1>1, <1>2, <1>5
    <3>1. x \in Runs
      BY <1>1, GroupIs DEF Sound
    <3>2. x \notin rs
      OBVIOUS
    <3> QED BY <1>2, <3>1, <3>2 DEF Sound, Ends
  <2>2. ASSUME NEW x \in Runs \ w.out.refused
        PROVE  Len(v.out.ends[x]) <= 1 /\ (x \in K \ rs => v.out.ends[x] = <<>>)
    <3>1. CASE x \in rs
      <4>1. w.out.ends[x] = <<>>
        BY <3>1 DEF Sound, Ends
      <4>2. Len(w.out.ends[x]) = 0
        BY <4>1
      <4>3. v.out.ends[x] = Append(w.out.ends[x], end) /\ x \notin K \ rs
        BY <1>2, <3>1
      <4> HIDE DEF end
      <4>4. Len(v.out.ends[x]) = 1
        BY <1>3, <4>2, <4>3
      <4> QED BY <4>3, <4>4
    <3>2. CASE x \notin rs
      BY <1>2, <3>2 DEF Sound, Ends
    <3> QED BY <3>1, <3>2
  <2>3. \A x \in Runs : v.rec[x].state = "none" => v.out.ends[x] = <<>> /\ x \notin K \ rs
    BY <1>2 DEF Sound, Ends
  <2> QED BY <1>2, <2>1, <2>2, <2>3 DEF Ends
<1>9. Streams(v)
  <2> SUFFICES ASSUME NEW s \in w.out.shown
               PROVE  /\ w.rec[s[2]].state \in {"active", "gone"}
                      /\ w.rec[s[2]].kind = "turn" /\ v.out.ends[s[2]] = <<"end">>
                           => w.out.commits[s[1]] # <<>>
    BY <1>2 DEF Streams
  <2>1. s[2] \in Runs /\ w.rec[s[2]].state \in {"active", "gone"}
    BY <1>1 DEF Outs, Sound, Streams
  <2>2. CASE s[2] \in rs
    <3>1. v.out.ends[s[2]] = Append(w.out.ends[s[2]], end)
      BY <1>2, <2>1, <2>2
    <3>2. v.out.ends[s[2]] = <<"end">> => end = "end"
      <4> SUFFICES ASSUME Append(w.out.ends[s[2]], end) = <<"end">> PROVE end = "end"
        BY <3>1
      <4>1. Len(w.out.ends[s[2]]) + 1 = 1
        BY <1>3, <2>1
      <4>2. Append(w.out.ends[s[2]], end)[1] = end
        BY <1>3, <2>1, <4>1
      <4>3. <<"end">>[1] = "end"
        OBVIOUS
      <4> HIDE DEF end
      <4> QED BY <4>2, <4>3
    <3> QED BY <2>1, <2>2, <3>2
  <2>3. CASE s[2] \notin rs
    BY <1>2, <2>1, <2>3 DEF Sound, Streams
  <2> QED BY <2>2, <2>3
<1> QED BY <1>2, <1>4, <1>6, <1>7, <1>8, <1>9 DEF Sound, v

-----------------------------------------------------------------------------
(* Commits. *)

\* What a commit leaves alone; what was committed stays so.
Commits(w, v) ==
  /\ SameRiders(v, w) /\ SameKind(v, w) /\ Onward(w, v) /\ ToSet(v.fifo) \subseteq ToSet(w.fifo)
  /\ \A x \in Runs : v.rec[x].msg = w.rec[x].msg /\ (v.rec[x].open => w.rec[x].open)
  /\ v.out.shown = w.out.shown /\ v.out.refused = w.out.refused
  /\ \A m \in Messages : w.out.commits[m] # <<>> => v.out.commits[m] # <<>>

LEMMA ClosesCommits == ASSUME NEW w, NEW v, Closes(w, v) PROVE Commits(w, v)
BY DEF Closes, Commits, SameRecs, SameMessage

LEMMA CommitsOn ==
  ASSUME NEW u, NEW v, NEW w, Commits(u, v), Commits(v, w)
  PROVE  Commits(u, w)
<1>1. SameRiders(w, u) /\ SameKind(w, u)
  BY DEF Commits, SameRiders, SameKind
<1>2. Onward(u, w)
  BY DEF Commits, Onward
<1> QED BY <1>1, <1>2 DEF Commits

LEMMA NoteCommitKeeps ==
  ASSUME NEW w, NEW K, NEW n, Sound(w, K, n), NEW r \in Runs
  PROVE  Sound(NoteCommit(w, r), K, n) /\ Closes(w, NoteCommit(w, r))
<1>1. CASE r \notin w.marks
  BY <1>1, ClosesNot DEF NoteCommit
<1>2. CASE r \in w.marks
  <2> DEFINE v == [w EXCEPT !.marks = @ \ {r}]
             u == NoteCommit(w, r)
             g == Group(v, r)
  <2>1. w \in Worlds
    BY DEF Sound
  <2>2. v \in Worlds /\ v.fifo = w.fifo /\ v.rec = w.rec /\ v.out = w.out /\ v.marks = w.marks \ {r}
    BY <2>1 DEF Worlds
  <2>3. u = IF Active(v) = r THEN Terminal(Pop(v, r), g, FALSE) ELSE Terminal(v, {r}, FALSE)
    BY <1>2 DEF NoteCommit
  <2> HIDE DEF v, u
  <2>4. Closes(w, v)
    BY <2>2 DEF Closes, SameRecs, SameRiders, SameKind, SameMessage, Onward
  <2>5. SameRiders(v, w) /\ \A c \in Runs : Group(v, c) = Group(w, c)
    BY <2>4, SameGroup DEF Closes, SameRecs
  <2>6. Ends(v, K)
    <3>1. ToSet(w.fifo) \subseteq Runs
      BY <2>1, InFifo
    <3> QED BY <2>2, <2>5, <3>1 DEF Sound, Ends
  <2>7. Order(v) /\ Riding(v) /\ Texts(v, n) /\ Streams(v) /\ Refusals(v)
    BY <2>2 DEF Sound, Order, Riding, Texts, Streams, Refusals
  <2>8. Sound(v, K, n)
    BY <2>2, <2>6, <2>7 DEF Sound
  <2>9. r \in v.out.refused /\ v.rec[r].state \in {"active", "gone"}
    BY <1>2, <2>2 DEF Sound, Refusals
  <2>10. \/ Active(v) = None /\ \A x \in Runs : v.rec[x].state # "active"
         \/ /\ Active(v) # None /\ Active(v) \in ToSet(v.fifo) /\ Active(v) \in Runs
            /\ \A x \in Runs : v.rec[x].state = "active" <=> x = Active(v)
    BY <2>2, <2>7, ActiveIs
  <2>11. CASE Active(v) = r
    <3> DEFINE p == Pop(v, r)
    <3>1. v.rec[r].state = "active" /\ r \in ToSet(v.fifo)
      BY <2>10, <2>11, NoneAssumption
    <3>2. /\ Sound(p, K \cup g, n) /\ Closes(v, p) /\ p.rec[r].state = "gone"
          /\ ToSet(p.fifo) = ToSet(v.fifo) \ {r}
      BY <2>8, <3>1, PopKeeps
    <3> HIDE DEF p
    <3>3. SameRiders(p, v) /\ \A c \in Runs : Group(p, c) = Group(v, c)
      BY <3>2, SameGroup DEF Closes, SameRecs
    <3>4. g \in SUBSET Runs /\ (\A x \in g : x = r \/ v.rec[x].state = "rider")
      BY <2>2, <2>7, GroupIs
    <3>5. \A x \in g : x \in (K \cup g) \cup p.out.refused /\ p.rec[x].state # "none"
      BY <3>2, <3>4, <3>1 DEF Closes, Onward
    <3>6. \A c \in ToSet(p.fifo) : Group(p, c) \cap g = {}
      <4>1. \A c \in ToSet(p.fifo) : \A x \in Group(p, c) : x \notin K \cup g
        BY <3>2 DEF Sound, Ends
      <4> QED BY <4>1
    <3> HIDE DEF g
    <3>7. Sound(Terminal(p, g, FALSE), (K \cup g) \ g, n) /\ Closes(p, Terminal(p, g, FALSE))
      BY <3>2, <3>4, <3>5, <3>6, TerminalKeeps
    <3>8. K \subseteq (K \cup g) \ g
      <4>1. \A x \in g : v.out.ends[x] = <<>> /\ x \notin K
        BY <2>6, <3>1 DEF Ends, g
      <4> QED BY <4>1
    <3>9. Sound(Terminal(p, g, FALSE), K, n)
      BY <3>7, <3>8, SoundLess
    <3>10. Closes(w, Terminal(p, g, FALSE))
      BY <2>4, <3>2, <3>7, ClosesOn
    <3> QED BY <2>3, <2>11, <3>9, <3>10 DEF p, u
  <2>12. CASE Active(v) # r
    <3> DEFINE rs == {r}
    <3>1. v.rec[r].state = "gone" /\ r \notin ToSet(v.fifo)
      BY <2>7, <2>9, <2>10, <2>12 DEF Order
    <3>2. rs \in SUBSET Runs /\ \A x \in rs : x \in K \cup v.out.refused /\ v.rec[x].state # "none"
      BY <2>9, <3>1
    <3>3. \A c \in ToSet(v.fifo) : c \in Runs
      BY <2>2, InFifo
    <3>4. \A c \in ToSet(v.fifo) : Group(v, c) \cap rs = {}
      BY <2>2, <2>7, <3>1, <3>3, GroupIs
    <3> HIDE DEF rs
    <3>5. Sound(Terminal(v, rs, FALSE), K \ rs, n) /\ Closes(v, Terminal(v, rs, FALSE))
      BY <2>8, <3>2, <3>4, TerminalKeeps
    <3> DEFINE t == Terminal(v, rs, FALSE)
    <3>6. \A x \in K \ (K \ rs) : x = r
      BY DEF rs
    <3>7. \A c \in Runs : Group(t, c) = Group(v, c)
      BY <3>5, SameGroup DEF Closes, SameRecs
    <3>8. r \in t.out.refused /\ t.rec[r].state # "none"
      BY <2>9, <3>1, <3>5 DEF Closes, Onward
    <3>9. \A c \in ToSet(t.fifo) : r \notin Group(t, c)
      BY <3>3, <3>4, <3>5, <3>7 DEF Closes, rs
    <3>10. t = u
      BY <2>3, <2>12 DEF rs
    <3> HIDE DEF t
    <3>11. Sound(t, K, n)
      BY <3>5, <3>6, <3>8, <3>9, SoundMore DEF t
    <3>12. Closes(w, t)
      BY <2>4, <3>5, ClosesOn DEF t
    <3> QED BY <3>10, <3>11, <3>12 DEF u
  <2> QED BY <2>11, <2>12
<1> QED BY <1>1, <1>2

\* What a commit of r's message m does before the mark is noted.
Stored(w, m, r) ==
  LET sealed == [w EXCEPT !.rec[r].open = IF w.rec[r].msg = m THEN FALSE ELSE @]
  IN IF r \in cancelled THEN sealed
     ELSE [sealed EXCEPT !.out.commits[m] = Append(@, r)]

LEMMA StoredIs ==
  ASSUME NEW w \in Worlds, NEW m \in Messages, NEW r \in Runs
  PROVE  LET v == Stored(w, m, r) IN
         /\ v \in Worlds /\ v.fifo = w.fifo /\ v.marks = w.marks
         /\ v.out.ends = w.out.ends /\ v.out.shown = w.out.shown /\ v.out.refused = w.out.refused
         /\ SameState(v, w) /\ SameRiders(v, w) /\ SameKind(v, w) /\ Mild(w, v)
         /\ v.out.strays = w.out.strays
         /\ \A x \in Runs : v.rec[x].msg = w.rec[x].msg
         /\ \A x \in Runs : v.rec[x].open = (w.rec[x].open /\ (x # r \/ w.rec[x].msg # m))
         /\ \A k \in Messages : k # m \/ r \in cancelled => v.out.commits[k] = w.out.commits[k]
         /\ r \notin cancelled => v.out.commits[m] = Append(w.out.commits[m], r)
<1> DEFINE b == IF w.rec[r].msg = m THEN FALSE ELSE w.rec[r].open
           e == [w.rec[r] EXCEPT !.open = b]
           s == [w EXCEPT !.rec = [w.rec EXCEPT ![r] = e]]
           l == Append(w.out.commits[m], r)
           o == [w.out EXCEPT !.commits = [w.out.commits EXCEPT ![m] = l]]
           t == [s EXCEPT !.out = o]
           v == Stored(w, m, r)
<1>1. /\ w.rec \in [Runs -> Recs] /\ w.rec[r] \in Recs /\ w.out \in Outs
      /\ w.out.commits \in [Messages -> Seq(Runs \cup {None})]
  BY DEF Worlds, Outs
<1>2. b \in BOOLEAN
  BY <1>1 DEF Recs
<1>3. /\ e \in Recs /\ e.riders = w.rec[r].riders /\ e.kind = w.rec[r].kind
      /\ e.msg = w.rec[r].msg /\ e.open = b /\ e.state = w.rec[r].state
      /\ e.error = w.rec[r].error /\ e.media = w.rec[r].media
  <2> HIDE DEF b
  <2> QED BY <1>1, <1>2 DEF Recs
<1>4. s = [w EXCEPT !.rec[r].open = IF w.rec[r].msg = m THEN FALSE ELSE @]
  OBVIOUS
<1>5. t = [s EXCEPT !.out.commits[m] = Append(@, r)]
  <2>1. s.out = w.out
    BY DEF Worlds
  <2> HIDE DEF s
  <2> QED BY <2>1
<1>6. v = IF r \in cancelled THEN s ELSE t
  <2> HIDE DEF s, t
  <2> QED BY <1>4, <1>5 DEF Stored
<1> HIDE DEF v, e
<1>7. s \in Worlds /\ s.fifo = w.fifo /\ s.marks = w.marks /\ s.out = w.out
      /\ s.rec = [w.rec EXCEPT ![r] = e]
  BY <1>1, <1>3 DEF Worlds
<1> HIDE DEF s
<1>8. l \in Seq(Runs \cup {None})
  BY <1>1
<1> HIDE DEF l
<1>9. /\ o \in Outs /\ o.ends = w.out.ends /\ o.shown = w.out.shown /\ o.refused = w.out.refused
      /\ o.strays = w.out.strays /\ o.commits = [w.out.commits EXCEPT ![m] = l]
  BY <1>1, <1>8 DEF Outs
<1> HIDE DEF o
<1>10. t \in Worlds /\ t.fifo = w.fifo /\ t.marks = w.marks /\ t.out = o /\ t.rec = s.rec
  BY <1>7, <1>9 DEF Worlds
<1> HIDE DEF t
<1>11. /\ v \in Worlds /\ v.fifo = w.fifo /\ v.marks = w.marks /\ v.rec = [w.rec EXCEPT ![r] = e]
       /\ v.out = IF r \in cancelled THEN w.out ELSE o
  BY <1>6, <1>7, <1>10
<1>12. \A x \in Runs : v.rec[x] = IF x = r THEN e ELSE w.rec[x]
  BY <1>1, <1>11
<1>13. SameState(v, w) /\ SameRiders(v, w) /\ SameKind(v, w) /\ \A x \in Runs : v.rec[x].msg = w.rec[x].msg
  BY <1>3, <1>12 DEF SameState, SameRiders, SameKind
<1>14. \A x \in Runs : v.rec[x].open = (w.rec[x].open /\ (x # r \/ w.rec[x].msg # m))
  <2> SUFFICES ASSUME NEW x \in Runs
               PROVE  v.rec[x].open = (w.rec[x].open /\ (x # r \/ w.rec[x].msg # m))
    OBVIOUS
  <2>1. w.rec[x].open \in BOOLEAN
    BY <1>1 DEF Recs
  <2>2. CASE x # r
    BY <1>12, <2>1, <2>2
  <2>3. CASE x = r
    <3>1. v.rec[x].open = b
      BY <1>3, <1>12, <2>3
    <3> QED BY <2>1, <2>3, <3>1
  <2> QED BY <2>2, <2>3
<1>15. v.out.ends = w.out.ends /\ v.out.shown = w.out.shown /\ v.out.refused = w.out.refused
       /\ v.out.strays = w.out.strays
  BY <1>9, <1>11
<1>16. \A k \in Messages : k # m \/ r \in cancelled => v.out.commits[k] = w.out.commits[k]
  BY <1>1, <1>9, <1>11
<1>17. r \notin cancelled => v.out.commits[m] = Append(w.out.commits[m], r)
  BY <1>1, <1>9, <1>11 DEF l
<1>18. Mild(w, v)
  BY <1>3, <1>11, <1>12 DEF Mild
<1> QED BY <1>11, <1>13, <1>14, <1>15, <1>16, <1>17, <1>18 DEF v

LEMMA CommitKeeps ==
  ASSUME NEW w, NEW K, NEW n, Sound(w, K, n), NEW m \in Messages, NEW r \in Runs,
         w.out.commits[m] = <<>>, m[2] <= n[m[1]],
         \A x \in Runs : x # r /\ w.rec[x].open => w.rec[x].msg # m
  PROVE  LET v == Commit(w, m, r) IN
         /\ Sound(v, K, n) /\ Commits(w, v)
         /\ \A x \in Runs : v.rec[x].open = (w.rec[x].open /\ (x # r \/ w.rec[x].msg # m))
         /\ \A k \in Messages : k # m => v.out.commits[k] = w.out.commits[k]
         /\ Kept(w, {<<m, r>>}) => Kept(v, {})
<1> DEFINE u == Stored(w, m, r)
           v == Commit(w, m, r)
<1>1. w \in Worlds /\ w.out.commits \in [Messages -> Seq(Runs \cup {None})]
      /\ \A s \in w.out.shown : s[1] \in Messages /\ s[2] \in Runs /\ s = <<s[1], s[2]>>
  BY DEF Sound, Worlds, Outs
<1>2. /\ u \in Worlds /\ u.fifo = w.fifo /\ u.marks = w.marks
      /\ u.out.ends = w.out.ends /\ u.out.shown = w.out.shown /\ u.out.refused = w.out.refused
      /\ SameState(u, w) /\ SameRiders(u, w) /\ SameKind(u, w)
      /\ \A x \in Runs : u.rec[x].msg = w.rec[x].msg
      /\ \A x \in Runs : u.rec[x].open = (w.rec[x].open /\ (x # r \/ w.rec[x].msg # m))
      /\ \A k \in Messages : k # m \/ r \in cancelled => u.out.commits[k] = w.out.commits[k]
      /\ r \notin cancelled => u.out.commits[m] = Append(w.out.commits[m], r)
  BY <1>1, StoredIs
<1>3. v = NoteCommit(u, r)
  BY DEF Commit, Stored
<1> HIDE DEF u, v
<1>4. /\ Len(u.out.commits[m]) <= 1 /\ (r \notin cancelled => u.out.commits[m] # <<>>)
      /\ \A k \in Messages : w.out.commits[k] # <<>> => u.out.commits[k] # <<>>
  <2>1. Len(Append(w.out.commits[m], r)) = 1
    BY <1>1
  <2>2. Len(u.out.commits[m]) <= 1
    BY <1>2, <2>1
  <2>3. r \notin cancelled => u.out.commits[m] # <<>>
    <3>1. Append(w.out.commits[m], r) # <<>>
      BY <2>1
    <3> QED BY <1>2, <3>1
  <2> QED BY <1>2, <2>2, <2>3
<1>5. Order(u) /\ Refusals(u)
  <2>1. w.marks \subseteq Runs /\ ToSet(w.fifo) \subseteq Runs
    BY <1>1, InFifo DEF Worlds
  <2> QED BY <1>2, <2>1 DEF Sound, Order, Refusals, SameState
<1>6. Riding(u)
  <2>1. \A c \in Runs : w.rec[c].riders \subseteq Runs
    BY <1>1, InFifo DEF Recs
  <2>2. \A c \in Runs : \A x \in u.rec[c].riders : u.rec[x].state = "rider"
    BY <1>2, <2>1 DEF Sound, Riding, SameState, SameRiders
  <2>3. \A c, d \in Runs : c # d => u.rec[c].riders \cap u.rec[d].riders = {}
    BY <1>2 DEF Sound, Riding, SameRiders
  <2>4. \A x \in Runs : u.rec[x].state \in {"none", "rider"}
                          => u.rec[x].riders = {} /\ u.rec[x].msg = NoMessage /\ ~u.rec[x].open
    BY <1>2 DEF Sound, Riding, SameState, SameRiders
  <2> QED BY <2>2, <2>3, <2>4 DEF Riding
<1>7. Ends(u, K)
  <2>1. \A c \in Runs : Group(u, c) = Group(w, c)
    BY <1>2, SameGroup
  <2>2. ToSet(w.fifo) \subseteq Runs
    BY <1>1, InFifo
  <2> QED BY <1>2, <2>1, <2>2 DEF Sound, Ends, SameState
<1>8. Texts(u, n)
  <2>1. \A k \in Messages : /\ Len(u.out.commits[k]) <= 1
                            /\ u.out.commits[k] # <<>> => k[2] <= n[k[1]]
    BY <1>2, <1>4 DEF Sound, Texts
  <2>2. ASSUME NEW x \in Runs, u.rec[x].open
        PROVE  u.rec[x].msg # NoMessage /\ u.out.commits[u.rec[x].msg] = <<>>
    <3>1. w.rec[x].open /\ w.rec[x].msg # m
      BY <1>2, <2>2
    <3>2. w.rec[x].msg \in Messages /\ w.out.commits[w.rec[x].msg] = <<>>
      BY <1>1, <3>1, InFifo DEF Sound, Texts, Recs
    <3> QED BY <1>2, <3>1, <3>2 DEF Sound, Texts
  <2>3. /\ \A x \in Runs : u.rec[x].msg # NoMessage => u.rec[x].msg[2] <= n[u.rec[x].msg[1]]
        /\ \A x, y \in Runs : u.rec[x].msg = u.rec[y].msg => x = y \/ u.rec[x].msg = NoMessage
    BY <1>2 DEF Sound, Texts
  <2> QED BY <2>1, <2>2, <2>3 DEF Texts
<1>9. Streams(u)
  <2> SUFFICES ASSUME NEW s \in w.out.shown
               PROVE  /\ u.rec[s[2]].state \in {"active", "gone"}
                      /\ u.rec[s[2]].kind = "turn" /\ u.out.ends[s[2]] = <<"end">>
                           => u.out.commits[s[1]] # <<>>
    BY <1>2 DEF Streams
  <2>1. u.rec[s[2]].state = w.rec[s[2]].state /\ u.rec[s[2]].kind = w.rec[s[2]].kind
    BY <1>1, <1>2 DEF SameState, SameKind
  <2>2. w.out.commits[s[1]] # <<>> => u.out.commits[s[1]] # <<>>
    BY <1>1, <1>4
  <2> QED BY <1>2, <2>1, <2>2 DEF Sound, Streams
<1>10. Sound(u, K, n)
  BY <1>2, <1>5, <1>6, <1>7, <1>8, <1>9 DEF Sound
<1>11. Sound(v, K, n) /\ Closes(u, v)
  BY <1>3, <1>10, NoteCommitKeeps
<1>12. Commits(w, u)
  BY <1>2, <1>4 DEF Commits, SameState, Onward
<1>13. Commits(w, v)
  BY <1>11, <1>12, ClosesCommits, CommitsOn
<1>14. ASSUME Kept(w, {<<m, r>>}) PROVE Kept(v, {})
  <2>1. Kept(u, {})
    <3> SUFFICES ASSUME NEW s \in w.out.shown
                 PROVE  \/ s[2] \in cancelled \/ u.out.commits[s[1]] # <<>>
                        \/ u.rec[s[2]].open /\ u.rec[s[2]].msg = s[1]
      BY <1>2 DEF Kept
    <3>1. CASE s[1] = m /\ s[2] = r
      BY <1>4, <3>1
    <3>2. CASE ~(s[1] = m /\ s[2] = r)
      <4>1. s \in w.out.shown \ {<<m, r>>}
        BY <1>1, <3>2
      <4>2. \/ s[2] \in cancelled \/ w.out.commits[s[1]] # <<>>
            \/ w.rec[s[2]].open /\ w.rec[s[2]].msg = s[1]
        BY <1>14, <4>1 DEF Kept
      <4> QED BY <1>1, <1>2, <1>4, <3>2, <4>2
    <3> QED BY <3>1, <3>2
  <2>2. SameMessage(v, u) /\ v.out.shown = u.out.shown /\ v.out.commits = u.out.commits
    BY <1>11 DEF Closes, SameRecs
  <2> QED BY <1>2, <2>1, <2>2, KeptStays
<1>15. /\ \A x \in Runs : v.rec[x].open = (w.rec[x].open /\ (x # r \/ w.rec[x].msg # m))
       /\ \A k \in Messages : k # m => v.out.commits[k] = w.out.commits[k]
  BY <1>2, <1>11 DEF Closes, SameRecs, SameMessage
<1> QED BY <1>11, <1>13, <1>14, <1>15 DEF v

LEMMA CommitOpenKeeps ==
  ASSUME NEW w, NEW K, NEW n, Sound(w, K, n), NEW r \in Runs, Kept(w, {})
  PROVE  LET v == CommitOpen(w, r) IN
         /\ Sound(v, K, n) /\ Commits(w, v) /\ Kept(v, {}) /\ ~v.rec[r].open
         /\ \A x \in Runs \ {r} : w.rec[x].open => v.rec[x].open
<1> DEFINE m == w.rec[r].msg
           v == CommitOpen(w, r)
<1>1. w \in Worlds /\ w.rec[r] \in Recs
  BY InFifo DEF Sound
<1>2. CASE ~w.rec[r].open
  <2>1. v = w
    BY <1>2 DEF CommitOpen
  <2> QED BY <1>2, <2>1, ClosesNot, ClosesCommits
<1>3. CASE w.rec[r].open
  <2>1. v = Commit(w, m, r)
    BY <1>3 DEF CommitOpen
  <2>2. /\ m \in Messages /\ w.out.commits[m] = <<>> /\ m[2] <= n[m[1]]
        /\ \A x \in Runs : x # r /\ w.rec[x].open => w.rec[x].msg # m
    BY <1>1, <1>3 DEF Sound, Texts, Recs
  <2>3. Kept(w, {<<m, r>>})
    BY DEF Kept
  <2> HIDE DEF m
  <2> DEFINE u == Commit(w, m, r)
  <2>4. /\ Sound(u, K, n) /\ Commits(w, u)
        /\ \A x \in Runs : u.rec[x].open = (w.rec[x].open /\ (x # r \/ w.rec[x].msg # m))
        /\ Kept(u, {})
    BY <2>2, <2>3, CommitKeeps
  <2> HIDE DEF u, v
  <2>5. ~u.rec[r].open
    BY <2>4 DEF m
  <2> QED BY <2>1, <2>4, <2>5 DEF u, v
<1> QED BY <1>2, <1>3

\* A message that nothing holds yet.
Fresh(w, m, n) == /\ m \in Messages /\ w.out.commits[m] = <<>> /\ m[2] <= n[m[1]]
                  /\ \A x \in Runs : w.rec[x].msg # m

\* The message goes to the conversation at once, as x's.
Adds(w, m, x) == [w EXCEPT !.out.commits[m] = Append(@, x)]

LEMMA AddsIs ==
  ASSUME NEW w \in Worlds, NEW m \in Messages, NEW x \in Runs \cup {None}
  PROVE  LET v == Adds(w, m, x) IN
         /\ v \in Worlds /\ v.fifo = w.fifo /\ v.marks = w.marks /\ v.rec = w.rec
         /\ v.out.strays = w.out.strays /\ v.out.ends = w.out.ends
         /\ v.out.shown = w.out.shown /\ v.out.refused = w.out.refused
         /\ \A k \in Messages : k # m => v.out.commits[k] = w.out.commits[k]
         /\ v.out.commits[m] = Append(w.out.commits[m], x)
<1> DEFINE l == Append(w.out.commits[m], x)
           o == [w.out EXCEPT !.commits = [w.out.commits EXCEPT ![m] = l]]
           t == [w EXCEPT !.out = o]
           v == Adds(w, m, x)
<1>1. w.out \in Outs /\ w.out.commits \in [Messages -> Seq(Runs \cup {None})]
  BY DEF Worlds, Outs
<1>2. v = t
  BY DEF Adds
<1> HIDE DEF v
<1>3. l \in Seq(Runs \cup {None})
  BY <1>1
<1> HIDE DEF l
<1>4. /\ o \in Outs /\ o.ends = w.out.ends /\ o.shown = w.out.shown /\ o.refused = w.out.refused
      /\ o.strays = w.out.strays /\ o.commits = [w.out.commits EXCEPT ![m] = l]
  BY <1>1, <1>3 DEF Outs
<1> HIDE DEF o
<1>5. t \in Worlds /\ t.fifo = w.fifo /\ t.marks = w.marks /\ t.out = o /\ t.rec = w.rec
  BY <1>4 DEF Worlds
<1> HIDE DEF t
<1>6. /\ \A k \in Messages : k # m => v.out.commits[k] = w.out.commits[k]
      /\ v.out.commits[m] = l
  BY <1>1, <1>2, <1>4, <1>5
<1> QED BY <1>2, <1>4, <1>5, <1>6 DEF v, l

LEMMA AddsKeeps ==
  ASSUME NEW w, NEW K, NEW n, Sound(w, K, n), NEW m, Fresh(w, m, n), NEW x \in Runs \cup {None}
  PROVE  LET v == Adds(w, m, x) IN
         /\ Sound(v, K, n) /\ Commits(w, v) /\ v.fifo = w.fifo /\ v.rec = w.rec
         /\ (Kept(w, {}) => Kept(v, {}))
<1> DEFINE v == Adds(w, m, x)
<1>1. w \in Worlds /\ m \in Messages /\ w.out.commits \in [Messages -> Seq(Runs \cup {None})]
      /\ \A s \in w.out.shown : s[1] \in Messages
  BY DEF Sound, Fresh, Worlds, Outs
<1>2. /\ v \in Worlds /\ v.fifo = w.fifo /\ v.marks = w.marks /\ v.rec = w.rec
      /\ v.out.ends = w.out.ends /\ v.out.shown = w.out.shown /\ v.out.refused = w.out.refused
      /\ \A k \in Messages : k # m => v.out.commits[k] = w.out.commits[k]
      /\ v.out.commits[m] = Append(w.out.commits[m], x)
  BY <1>1, AddsIs
<1> HIDE DEF v
<1>3. Len(v.out.commits[m]) = 1 /\ v.out.commits[m] # <<>>
  <2>1. Len(Append(w.out.commits[m], x)) = 1
    BY <1>1 DEF Fresh
  <2> QED BY <1>2, <2>1
<1>4. \A k \in Messages : w.out.commits[k] # <<>> => v.out.commits[k] # <<>>
  BY <1>2, <1>3
<1>5. \A c \in Runs : Group(v, c) = Group(w, c)
  BY <1>2 DEF Group
<1>6. Order(v) /\ Riding(v) /\ Refusals(v)
  BY <1>2 DEF Sound, Order, Riding, Refusals
<1>7. Ends(v, K)
  <2>1. ToSet(w.fifo) \subseteq Runs
    BY <1>1, InFifo
  <2> QED BY <1>2, <1>5, <2>1 DEF Sound, Ends
<1>8. Texts(v, n)
  <2>1. \A k \in Messages : /\ Len(v.out.commits[k]) <= 1
                            /\ v.out.commits[k] # <<>> => k[2] <= n[k[1]]
    <3> SUFFICES ASSUME NEW k \in Messages
                 PROVE  /\ Len(v.out.commits[k]) <= 1
                        /\ v.out.commits[k] # <<>> => k[2] <= n[k[1]]
      OBVIOUS
    <3>1. CASE k = m
      <4>1. Len(v.out.commits[m]) <= 1 /\ m[2] <= n[m[1]]
        BY <1>3 DEF Fresh
      <4> HIDE DEF Fresh
      <4> QED BY <3>1, <4>1
    <3>2. CASE k # m
      BY <1>2, <3>2 DEF Sound, Texts
    <3> QED BY <3>1, <3>2
  <2>2. ASSUME NEW y \in Runs, w.rec[y].open
        PROVE  w.rec[y].msg # NoMessage /\ v.out.commits[w.rec[y].msg] = <<>>
    <3>1. w.rec[y].msg \in Messages /\ w.rec[y].msg # NoMessage
      BY <1>1, <2>2, InFifo DEF Sound, Texts, Recs
    <3>2. w.out.commits[w.rec[y].msg] = <<>> /\ w.rec[y].msg # m
      BY <2>2 DEF Sound, Texts, Fresh
    <3> QED BY <1>2, <3>1, <3>2
  <2> QED BY <1>2, <2>1, <2>2 DEF Sound, Texts
<1>9. Streams(v)
  BY <1>1, <1>2, <1>4 DEF Sound, Streams
<1>10. Commits(w, v)
  BY <1>2, <1>4 DEF Commits, SameRiders, SameKind, Onward
<1>11. Kept(w, {}) => Kept(v, {})
  BY <1>1, <1>2, <1>4 DEF Kept
<1> QED BY <1>2, <1>6, <1>7, <1>8, <1>9, <1>10, <1>11 DEF Sound, v

\* Strays are only noted.
LEMMA StampKeeps ==
  ASSUME NEW w, NEW K, NEW n, Sound(w, K, n), NEW t \in Runs, NEW r \in Runs \cup {None},
         When(t) \in Turns \cup {"expected"}
  PROVE  LET v == Stamp(w, t, r) IN
         /\ Sound(v, K, n) /\ Closes(w, v) /\ v.fifo = w.fifo /\ v.rec = w.rec
         /\ v.marks = w.marks
         /\ r = t => v.out.strays = w.out.strays
         /\ r # t => v.out.strays # {} /\ v.out.strays \subseteq w.out.strays \cup {<<t, When(t), r>>}
<1> DEFINE s == w.out.strays \cup {<<t, When(t), r>>}
           o == [w.out EXCEPT !.strays = s]
           u == [w EXCEPT !.out = o]
           v == Stamp(w, t, r)
<1>1. w \in Worlds /\ w.out \in Outs
  BY DEF Sound, Worlds
<1>2. IF r = t \/ w.out.strays # {} THEN v = w ELSE v = u
  BY DEF Stamp
<1> HIDE DEF v
<1>3. s \subseteq Runs \X (Turns \cup {"expected"}) \X (Runs \cup {None})
  BY <1>1 DEF Outs
<1> HIDE DEF s
<1>4. /\ o.strays = s /\ o \in Outs /\ o.ends = w.out.ends /\ o.shown = w.out.shown /\ o.refused = w.out.refused
      /\ o.commits = w.out.commits
  BY <1>1, <1>3 DEF Outs
<1> HIDE DEF o
<1>5. u \in Worlds /\ u.fifo = w.fifo /\ u.marks = w.marks /\ u.out = o /\ u.rec = w.rec
  BY <1>1, <1>4 DEF Worlds
<1> HIDE DEF u
<1>6. /\ v \in Worlds /\ v.fifo = w.fifo /\ v.marks = w.marks /\ v.rec = w.rec
      /\ v.out.ends = w.out.ends /\ v.out.shown = w.out.shown /\ v.out.refused = w.out.refused
      /\ v.out.commits = w.out.commits
  BY <1>1, <1>2, <1>4, <1>5
<1>7. \A c \in Runs : Group(v, c) = Group(w, c)
  BY <1>6 DEF Group
<1>8. Order(v) /\ Riding(v) /\ Refusals(v) /\ Texts(v, n) /\ Streams(v)
  BY <1>6 DEF Sound, Order, Riding, Refusals, Texts, Streams
<1>9. Ends(v, K)
  <2>1. ToSet(w.fifo) \subseteq Runs
    BY <1>1, InFifo
  <2> QED BY <1>6, <1>7, <2>1 DEF Sound, Ends
<1>10. Closes(w, v)
  BY <1>6 DEF Closes, SameRecs, SameRiders, SameKind, SameMessage, Onward
<1>11. /\ r = t => v.out.strays = w.out.strays
       /\ r # t => v.out.strays # {} /\ v.out.strays \subseteq w.out.strays \cup {<<t, When(t), r>>}
  BY <1>2, <1>4, <1>5 DEF s
<1> QED BY <1>6, <1>8, <1>9, <1>10, <1>11 DEF Sound, v

-----------------------------------------------------------------------------
(* What holds in every state. *)

\* The runs that have left the fifo and still have their terminal to come.
Owing == (UNION {Group(World, c[1]) : c \in stash}) \cup (UNION {drained[r] : r \in Runs})

\* The types of what is not the ledger's.
RestOK ==
  /\ cancelled \subseteq Runs /\ stash \subseteq Runs \X BOOLEAN /\ lastEnded \in Runs \cup {None}
  /\ handler \in [Runs -> {"none", "closing", "failing", "killing", "done", "failed"}]
  /\ drained \in [Runs -> SUBSET Runs]
  /\ native \in [Runs -> Turns] /\ queue \in Seq(Runs) /\ photos \subseteq Runs
  /\ probing \subseteq Runs /\ text \in [Runs -> {"none", "open", "sealed", "failed"}]
  /\ count \in [Runs -> 0..MaxMessages] /\ setup \in Setups

\* A dispatch is begun, then handed to Hermes, whose turn then sends.
Stages ==
  /\ \A r \in Runs : handler[r] \in {"none", "closing"} <=> rec[r].state = "none"
  /\ \A r \in Runs : native[r] # "none" => handler[r] \in {"done", "failed"}
  /\ \A r \in Runs : count[r] > 0 => native[r] \in AtWork \cup {"done"}
  /\ Once(queue) /\ \A r \in ToSet(queue) : native[r] = "queued"

\* A deferred closing is of one record, which has left the fifo.
Tails ==
  /\ \A c \in stash : rec[c[1]].state = "gone"
  /\ \A c, d \in stash : c[1] = d[1] => c = d

\* Each run is drained by one command, and its closing is not deferred.
Drains ==
  /\ \A r \in Runs : \A x \in drained[r] : rec[x].state = "gone" /\ ~Waiting(x)
  /\ \A r, s \in Runs : r # s => drained[r] \cap drained[s] = {}

\* What is cancelled has left the fifo; the turn that writes the message of a cancelled
\* tail is cancelled or over.
Cancels ==
  /\ \A x \in cancelled : rec[x].state \in {"rider", "gone"}
  /\ \A c \in stash : c[1] \in cancelled /\ rec[c[1]].msg # NoMessage
       => rec[c[1]].msg[1] \in cancelled \/ native[rec[c[1]].msg[1]] = "done"

\* A record of the fifo that has committed its message shows one that Hermes has sealed,
\* or has left for the next.
Sealed ==
  \A r \in ToSet(fifo) : rec[r].msg # NoMessage /\ ~rec[r].open
    => text[rec[r].msg[1]] # "open" \/ count[rec[r].msg[1]] # rec[r].msg[2]

IInv == /\ Sound(World, Owing, count) /\ Kept(World, {}) /\ RestOK
        /\ Stages /\ Tails /\ Drains /\ Cancels /\ Sealed

-----------------------------------------------------------------------------
(* Steps of the ledger that several actions take. *)

LEMMA BecomesIs == ASSUME NEW w \in Worlds, Becomes(w) PROVE World' = w
BY DEF Becomes, World, Worlds

\* Turns only send more.
LEMMA SoundLater ==
  ASSUME NEW w, NEW K, NEW n \in [Runs -> Nat], Sound(w, K, n), NEW l \in [Runs -> Nat],
         \A t \in Runs : n[t] <= l[t]
  PROVE  Sound(w, K, l)
<1>1. w \in Worlds
  BY DEF Sound
<1>2. \A m \in Messages : m[1] \in Runs /\ m[2] \in Nat
  BY BoundAssumption DEF Messages
<1>3. \A m \in Messages : m[2] <= n[m[1]] => m[2] <= l[m[1]]
  BY <1>2
<1>4. \A r \in Runs : w.rec[r].msg # NoMessage => w.rec[r].msg \in Messages
  BY <1>1, InFifo DEF Recs
<1>5. Texts(w, l)
  BY <1>3, <1>4 DEF Sound, Texts
<1> QED BY <1>5 DEF Sound

\* The record takes m as its open message.
Takes(w, m, r) ==
  [Activate(w, r) EXCEPT !.rec[r].msg = m, !.rec[r].open = TRUE, !.rec[r].error = FALSE,
                         !.out.shown = @ \cup {<<m, r>>}]

LEMMA TakesIs ==
  ASSUME NEW w \in Worlds, NEW m \in Messages, NEW r \in Runs
  PROVE  LET v == Takes(w, m, r) IN
         /\ v \in Worlds /\ v.fifo = w.fifo /\ v.marks = w.marks
         /\ Mild(w, v) /\ v.out.strays = w.out.strays
         /\ SameRiders(v, w) /\ SameKind(v, w) /\ \A x \in Runs \ {r} : v.rec[x] = w.rec[x]
         /\ v.rec[r].state = "active" /\ v.rec[r].msg = m /\ v.rec[r].open
         /\ v.out.ends = w.out.ends /\ v.out.commits = w.out.commits
         /\ v.out.refused = w.out.refused /\ v.out.shown = w.out.shown \cup {<<m, r>>}
<1> DEFINE a == Activate(w, r)
           v == Takes(w, m, r)
           b == [a.rec[r] EXCEPT !.msg = m]
           t == [a EXCEPT !.rec = [a.rec EXCEPT ![r] = b]]
           c == [t.rec[r] EXCEPT !.open = TRUE]
           u == [t EXCEPT !.rec = [t.rec EXCEPT ![r] = c]]
           d == [u.rec[r] EXCEPT !.error = FALSE]
           x == [u EXCEPT !.rec = [u.rec EXCEPT ![r] = d]]
           s == x.out.shown \cup {<<m, r>>}
           o == [x.out EXCEPT !.shown = s]
           y == [x EXCEPT !.out = o]
<1>1. /\ a \in Worlds /\ a.fifo = w.fifo /\ a.marks = w.marks /\ a.out = w.out
      /\ SameRecs(a, w) /\ Mild(w, a) /\ a.rec[r].state = "active" /\ \A z \in Runs \ {r} : a.rec[z] = w.rec[z]
  BY ActivateIs
<1> HIDE DEF a
<1>2. v = y
  BY DEF Takes, a
<1> HIDE DEF v
<1>3. /\ a.rec \in [Runs -> Recs] /\ a.rec[r] \in Recs /\ a.out \in Outs
  BY <1>1 DEF Worlds
<1>4. /\ b \in Recs /\ b.riders = a.rec[r].riders /\ b.kind = a.rec[r].kind
      /\ b.state = a.rec[r].state /\ b.msg = m /\ b.media = a.rec[r].media
  BY <1>3 DEF Recs
<1> HIDE DEF b
<1>5. /\ t \in Worlds /\ t.fifo = a.fifo /\ t.marks = a.marks /\ t.out = a.out
      /\ t.rec = [a.rec EXCEPT ![r] = b]
  BY <1>1, <1>3, <1>4 DEF Worlds
<1> HIDE DEF t
<1>6. t.rec[r] = b /\ t.rec \in [Runs -> Recs] /\ \A z \in Runs \ {r} : t.rec[z] = a.rec[z]
  BY <1>3, <1>4, <1>5
<1>7. /\ c \in Recs /\ c.riders = b.riders /\ c.kind = b.kind /\ c.state = b.state /\ c.msg = b.msg
      /\ c.open /\ c.media = b.media
  BY <1>4, <1>6 DEF Recs
<1> HIDE DEF c
<1>8. /\ u \in Worlds /\ u.fifo = t.fifo /\ u.marks = t.marks /\ u.out = t.out
      /\ u.rec = [t.rec EXCEPT ![r] = c]
  BY <1>5, <1>6, <1>7 DEF Worlds
<1> HIDE DEF u
<1>9. u.rec[r] = c /\ u.rec \in [Runs -> Recs] /\ \A z \in Runs \ {r} : u.rec[z] = t.rec[z]
  BY <1>6, <1>7, <1>8
<1>10. /\ d \in Recs /\ d.riders = c.riders /\ d.kind = c.kind /\ d.state = c.state /\ d.msg = c.msg
       /\ d.open /\ d.media = c.media /\ ~d.error
  BY <1>7, <1>9 DEF Recs
<1> HIDE DEF d
<1>11. /\ x \in Worlds /\ x.fifo = u.fifo /\ x.marks = u.marks /\ x.out = u.out
       /\ x.rec = [u.rec EXCEPT ![r] = d]
  BY <1>8, <1>9, <1>10 DEF Worlds
<1> HIDE DEF x
<1>12. x.rec[r] = d /\ \A z \in Runs \ {r} : x.rec[z] = u.rec[z]
  BY <1>9, <1>10, <1>11
<1>13. x.out \in Outs /\ s \in SUBSET (Messages \X Runs) /\ s = w.out.shown \cup {<<m, r>>}
  BY <1>1, <1>3, <1>5, <1>8, <1>11 DEF Outs
<1> HIDE DEF s
<1>14. /\ o \in Outs /\ o.ends = x.out.ends /\ o.commits = x.out.commits
       /\ o.refused = x.out.refused /\ o.strays = x.out.strays /\ o.shown = s
  BY <1>13 DEF Outs
<1> HIDE DEF o
<1>15. y \in Worlds /\ y.fifo = x.fifo /\ y.marks = x.marks /\ y.rec = x.rec /\ y.out = o
  BY <1>11, <1>14 DEF Worlds
<1> HIDE DEF y
<1>16. \A z \in Runs \ {r} : y.rec[z] = w.rec[z]
  BY <1>1, <1>6, <1>9, <1>12, <1>15
<1>17. /\ y.rec[r].riders = w.rec[r].riders /\ y.rec[r].kind = w.rec[r].kind
       /\ y.rec[r].state = "active" /\ y.rec[r].msg = m /\ y.rec[r].open
  BY <1>1, <1>4, <1>7, <1>10, <1>12, <1>15 DEF SameRecs, SameRiders, SameKind
<1>18. SameRiders(y, w) /\ SameKind(y, w)
  BY <1>16, <1>17 DEF SameRiders, SameKind
<1>19. /\ y.fifo = w.fifo /\ y.marks = w.marks /\ y.out.ends = w.out.ends
       /\ y.out.commits = w.out.commits /\ y.out.refused = w.out.refused
       /\ y.out.shown = w.out.shown \cup {<<m, r>>} /\ y.out.strays = w.out.strays
  BY <1>1, <1>5, <1>8, <1>11, <1>13, <1>14, <1>15
<1>20. (y.rec[r].media => w.rec[r].media) /\ ~y.rec[r].error
  BY <1>1, <1>4, <1>7, <1>10, <1>12, <1>15 DEF Mild
<1>21. Mild(w, y)
  BY <1>16, <1>19, <1>20 DEF Mild
<1> QED BY <1>2, <1>15, <1>16, <1>17, <1>18, <1>19, <1>21 DEF v

LEMMA TakesKeeps ==
  ASSUME NEW w, NEW K, NEW n, Sound(w, K, n), NEW m, Fresh(w, m, n), NEW r \in ToSet(w.fifo),
         \A x \in Runs : w.rec[x].state = "active" => x = r, Kept(w, {})
  PROVE  LET v == Takes(w, m, r) IN
         /\ Sound(v, K, n) /\ Kept(v, {<<w.rec[r].msg, r>>})
         /\ ~w.rec[r].open => Kept(v, {})
<1> DEFINE v == Takes(w, m, r)
<1>0. w \in Worlds /\ m \in Messages /\ r \in Runs /\ ToSet(w.fifo) \subseteq Runs
  BY InFifo DEF Sound, Fresh
<1>1. /\ w \in Worlds /\ m \in Messages /\ r \in Runs /\ ToSet(w.fifo) \subseteq Runs
      /\ \A s \in w.out.shown : s[1] \in Messages /\ s[2] \in Runs /\ s = <<s[1], s[2]>>
  BY <1>0 DEF Worlds, Outs
<1>2. /\ v \in Worlds /\ v.fifo = w.fifo /\ v.marks = w.marks
      /\ SameRiders(v, w) /\ SameKind(v, w) /\ \A x \in Runs \ {r} : v.rec[x] = w.rec[x]
      /\ v.rec[r].state = "active" /\ v.rec[r].msg = m /\ v.rec[r].open
      /\ v.out.ends = w.out.ends /\ v.out.commits = w.out.commits
      /\ v.out.refused = w.out.refused /\ v.out.shown = w.out.shown \cup {<<m, r>>}
  BY <1>1, TakesIs
<1> HIDE DEF v
<1>3. w.rec[r].state \in {"active", "pending"}
  BY <1>1 DEF Sound, Order
<1>4. m # NoMessage
  BY <1>1, NoneAssumption DEF Messages, NoMessage
<1>5. Order(v)
  BY <1>1, <1>2, <1>3 DEF Sound, Order
<1>6. Riding(v)
  <2>1. \A c \in Runs : v.rec[c].riders = w.rec[c].riders /\ w.rec[c].riders \subseteq Runs
    BY <1>1, <1>2, InFifo DEF SameRiders, Recs
  <2>2. \A c \in Runs : \A x \in v.rec[c].riders : v.rec[x].state = "rider"
    BY <1>2, <1>3, <2>1 DEF Sound, Riding
  <2>3. \A c, d \in Runs : c # d => v.rec[c].riders \cap v.rec[d].riders = {}
    BY <2>1 DEF Sound, Riding
  <2>4. \A x \in Runs : v.rec[x].state \in {"none", "rider"}
                          => v.rec[x].riders = {} /\ v.rec[x].msg = NoMessage /\ ~v.rec[x].open
    BY <1>2 DEF Sound, Riding
  <2> QED BY <2>2, <2>3, <2>4 DEF Riding
<1>7. Refusals(v)
  BY <1>1, <1>2, <1>3 DEF Sound, Refusals, Worlds
<1>8. Ends(v, K)
  <2>1. \A c \in Runs : Group(v, c) = Group(w, c)
    BY <1>2, SameGroup
  <2> QED BY <1>1, <1>2, <1>3, <2>1 DEF Sound, Ends
<1>9. Texts(v, n)
  <2>1. \A k \in Messages : /\ Len(v.out.commits[k]) <= 1
                            /\ v.out.commits[k] # <<>> => k[2] <= n[k[1]]
    BY <1>2 DEF Sound, Texts
  <2>2. ASSUME NEW x \in Runs
        PROVE  /\ v.rec[x].msg # NoMessage => v.rec[x].msg[2] <= n[v.rec[x].msg[1]]
               /\ v.rec[x].open => v.rec[x].msg # NoMessage /\ v.out.commits[v.rec[x].msg] = <<>>
    <3>1. CASE x = r
      BY <1>2, <1>4, <3>1 DEF Fresh
    <3>2. CASE x # r
      BY <1>2, <3>2 DEF Sound, Texts
    <3> QED BY <3>1, <3>2
  <2>3. ASSUME NEW x \in Runs, NEW y \in Runs, v.rec[x].msg = v.rec[y].msg
        PROVE  x = y \/ v.rec[x].msg = NoMessage
    BY <1>2, <2>3 DEF Sound, Texts, Fresh
  <2> QED BY <2>1, <2>2, <2>3 DEF Texts
<1>10. Streams(v)
  <2> SUFFICES ASSUME NEW s \in v.out.shown
               PROVE  /\ v.rec[s[2]].state \in {"active", "gone"}
                      /\ v.rec[s[2]].kind = "turn" /\ v.out.ends[s[2]] = <<"end">>
                           => v.out.commits[s[1]] # <<>>
    BY DEF Streams
  <2>1. CASE s = <<m, r>>
    <3>1. w.out.ends[r] = <<>>
      BY DEF Sound, Ends, Group
    <3>2. s[2] = r /\ <<>> # <<"end">>
      BY <2>1
    <3> QED BY <1>2, <3>1, <3>2
  <2>2. CASE s \in w.out.shown
    <3>1. s[2] \in Runs /\ w.rec[s[2]].state \in {"active", "gone"}
      BY <1>1, <2>2 DEF Sound, Streams
    <3> QED BY <1>2, <2>2, <3>1 DEF Sound, Streams, SameKind
  <2> QED BY <1>2, <2>1, <2>2
<1>11. ASSUME NEW X, X = {<<w.rec[r].msg, r>>} \/ ~w.rec[r].open
       PROVE  Kept(v, X)
  <2> SUFFICES ASSUME NEW s \in v.out.shown \ X
               PROVE  \/ s[2] \in cancelled \/ v.out.commits[s[1]] # <<>>
                      \/ v.rec[s[2]].open /\ v.rec[s[2]].msg = s[1]
    BY DEF Kept
  <2>1. CASE s = <<m, r>>
    BY <1>2, <2>1
  <2>2. CASE s \in w.out.shown
    <3>1. \/ s[2] \in cancelled \/ w.out.commits[s[1]] # <<>>
          \/ w.rec[s[2]].open /\ w.rec[s[2]].msg = s[1]
      BY <2>2 DEF Kept
    <3>2. CASE s[2] = r
      <4>1. ~(w.rec[r].open /\ w.rec[r].msg = s[1])
        BY <1>1, <1>11, <2>2, <3>2
      <4> QED BY <1>2, <3>1, <3>2, <4>1
    <3>3. CASE s[2] # r
      BY <1>1, <1>2, <2>2, <3>1, <3>3
    <3> QED BY <3>2, <3>3
  <2> QED BY <1>2, <2>1, <2>2
<1> QED BY <1>2, <1>5, <1>6, <1>7, <1>8, <1>9, <1>10, <1>11 DEF Sound, v

\* What a step on a ledger may do to the records other steps rely on.
Moves(w, v) ==
  /\ SameRiders(v, w) /\ SameKind(v, w) /\ Onward(w, v) /\ ToSet(v.fifo) \subseteq ToSet(w.fifo)
  /\ \A x \in Runs : w.rec[x].state = "gone" => v.rec[x].msg = w.rec[x].msg

LEMMA CommitsMoves == ASSUME NEW w, NEW v, Commits(w, v) PROVE Moves(w, v)
BY DEF Commits, Moves

LEMMA MovesOn == ASSUME NEW u, NEW v, NEW w, Moves(u, v), Moves(v, w) PROVE Moves(u, w)
<1>1. SameRiders(w, u) /\ SameKind(w, u)
  BY DEF Moves, SameRiders, SameKind
<1>2. Onward(u, w)
  BY DEF Moves, Onward
<1>3. \A x \in Runs : u.rec[x].state = "gone" => w.rec[x].msg = u.rec[x].msg
  BY DEF Moves, Onward
<1> QED BY <1>1, <1>2, <1>3 DEF Moves

LEMMA OpensKeeps ==
  ASSUME NEW w, NEW K, NEW n, Sound(w, K, n), NEW m, Fresh(w, m, n), NEW r \in ToSet(w.fifo),
         \A x \in Runs : w.rec[x].state = "active" => x = r, Kept(w, {})
  PROVE  LET v == Opens(w, m, r) IN
         /\ Sound(v, K, n) /\ Kept(v, {}) /\ Moves(w, v)
         /\ v.rec[r].msg = m /\ v.rec[r].open
         /\ \A x \in Runs \ {r} : v.rec[x].msg = w.rec[x].msg /\ v.rec[x].open = w.rec[x].open
<1> DEFINE u == Takes(w, m, r)
           v == Opens(w, m, r)
           k == w.rec[r].msg
<1>1. w \in Worlds /\ m \in Messages /\ r \in Runs
  BY InFifo DEF Sound, Fresh
<1>2. v = IF w.rec[r].open THEN Commit(u, k, r) ELSE u
  BY DEF Opens, Takes
<1>3. Sound(u, K, n) /\ Kept(u, {<<k, r>>}) /\ (~w.rec[r].open => Kept(u, {}))
  BY TakesKeeps
<1>4. /\ SameRiders(u, w) /\ SameKind(u, w) /\ \A x \in Runs \ {r} : u.rec[x] = w.rec[x]
      /\ u.rec[r].state = "active" /\ u.rec[r].msg = m /\ u.rec[r].open
      /\ u.out.commits = w.out.commits /\ u.fifo = w.fifo
  BY <1>1, TakesIs
<1> HIDE DEF u, v
<1>5. w.rec[r].state \in {"active", "pending"}
  BY <1>1 DEF Sound, Order
<1>6. Moves(w, u)
  BY <1>4, <1>5 DEF Moves, Onward
<1>7. CASE ~w.rec[r].open
  BY <1>2, <1>3, <1>4, <1>6, <1>7 DEF v
<1>8. CASE w.rec[r].open
  <2>1. k \in Messages /\ w.out.commits[k] = <<>> /\ k[2] <= n[k[1]] /\ k # m
    BY <1>1, <1>8, InFifo DEF Sound, Texts, Recs, Fresh
  <2>2. \A x \in Runs : x # r => u.rec[x].msg # k
    BY <1>1, <1>4, <1>8 DEF Sound, Texts
  <2>3. /\ Sound(v, K, n) /\ Commits(u, v) /\ Kept(v, {})
        /\ \A x \in Runs : v.rec[x].open = (u.rec[x].open /\ (x # r \/ u.rec[x].msg # k))
    <3>1. /\ Sound(Commit(u, k, r), K, n) /\ Commits(u, Commit(u, k, r)) /\ Kept(Commit(u, k, r), {})
          /\ \A x \in Runs : Commit(u, k, r).rec[x].open = (u.rec[x].open /\ (x # r \/ u.rec[x].msg # k))
      BY <1>1, <1>3, <1>4, <2>1, <2>2, CommitKeeps
    <3> QED BY <1>2, <1>8, <3>1
  <2>4. Moves(w, v)
    BY <1>6, <2>3, CommitsMoves, MovesOn
  <2>5. \A x \in Runs : v.rec[x].msg = u.rec[x].msg
    BY <2>3 DEF Commits
  <2>6. v.rec[r].open /\ v.rec[r].msg = m
    BY <1>1, <1>4, <2>1, <2>3, <2>5
  <2>7. \A x \in Runs \ {r} : v.rec[x].msg = w.rec[x].msg /\ v.rec[x].open = w.rec[x].open
    <3>1. \A x \in Runs : u.rec[x].open \in BOOLEAN
      BY <1>3, InFifo DEF Sound, Recs
    <3> QED BY <1>4, <2>3, <2>5, <3>1
  <2> QED BY <2>3, <2>4, <2>6, <2>7 DEF v
<1> QED BY <1>7, <1>8

\* A record that has left the fifo closes with its riders; well only if nothing of it is
\* open.
LEMMA EndsKeeps ==
  ASSUME NEW w, NEW K, NEW n, Sound(w, K, n), Kept(w, {}), NEW r \in Runs, NEW ok \in BOOLEAN,
         w.rec[r].state = "gone", Group(w, r) \subseteq K,
         ok => r \notin cancelled /\ ~w.rec[r].open
  PROVE  LET v == Terminal(w, Group(w, r), ok) IN
         Sound(v, K \ Group(w, r), n) /\ Kept(v, {}) /\ Closes(w, v)
<1> DEFINE g == Group(w, r)
           v == Terminal(w, g, ok)
<1>1. w \in Worlds /\ ToSet(w.fifo) \subseteq Runs
  BY InFifo DEF Sound
<1>2. g \in SUBSET Runs /\ \A x \in g : x = r \/ w.rec[x].state = "rider"
  BY GroupIs, <1>1 DEF Sound
<1>3. \A x \in g : x \in K \cup w.out.refused /\ w.rec[x].state # "none"
  BY <1>2
<1>4. \A c \in ToSet(w.fifo) : Group(w, c) \cap g = {}
  BY DEF Sound, Ends
<1>5. ASSUME ok, NEW s \in w.out.shown, s[2] \in g
      PROVE  w.out.commits[s[1]] # <<>>
  <2>1. s[2] = r
    BY <1>2, <1>5 DEF Sound, Streams
  <2>2. \/ s[2] \in cancelled \/ w.out.commits[s[1]] # <<>>
        \/ w.rec[s[2]].open /\ w.rec[s[2]].msg = s[1]
    BY <1>5 DEF Kept
  <2> QED BY <1>5, <2>1, <2>2
<1> HIDE DEF g
<1>6. Sound(v, K \ g, n) /\ Closes(w, v)
  BY <1>2, <1>3, <1>4, <1>5, TerminalKeeps
<1>7. Kept(v, {})
  BY <1>1, <1>6, KeptStays DEF Closes, SameRecs
<1> QED BY <1>6, <1>7 DEF g

LEMMA CloseTailKeeps ==
  ASSUME NEW w, NEW K, NEW n, Sound(w, K, n), Kept(w, {}), NEW r \in Runs, NEW ok \in BOOLEAN,
         w.rec[r].state = "gone", Group(w, r) \subseteq K, ok => r \notin cancelled
  PROVE  LET v == CloseTail(w, r, ok) IN
         /\ Sound(v, K \ Group(w, r), n) /\ Kept(v, {}) /\ Commits(w, v)
         /\ \A x \in Runs \ {r} : w.rec[x].open => v.rec[x].open
<1> DEFINE u == CommitOpen(w, r)
           v == CloseTail(w, r, ok)
<1>1. Sound(u, K, n) /\ Commits(w, u) /\ Kept(u, {}) /\ ~u.rec[r].open
  BY CommitOpenKeeps
<1>2. v = Terminal(u, Group(w, r), ok)
  BY DEF CloseTail
<1> HIDE DEF u, v
<1>3. Group(u, r) = Group(w, r)
  BY <1>1, SameGroup DEF Commits
<1>4. u.rec[r].state = "gone"
  BY <1>1 DEF Commits, Onward
<1>5. Sound(v, K \ Group(w, r), n) /\ Kept(v, {}) /\ Closes(u, v)
  <2>1. LET t == Terminal(u, Group(u, r), ok) IN
        Sound(t, K \ Group(u, r), n) /\ Kept(t, {}) /\ Closes(u, t)
    BY <1>1, <1>3, <1>4, EndsKeeps
  <2> QED BY <1>2, <1>3, <2>1
<1>6. Commits(w, v)
  BY <1>1, <1>5, ClosesCommits, CommitsOn
<1>7. \A x \in Runs : v.rec[x].open = u.rec[x].open
  BY <1>5 DEF Closes, SameRecs, SameMessage
<1>8. \A x \in Runs \ {r} : w.rec[x].open => u.rec[x].open
  BY CommitOpenKeeps DEF u
<1> QED BY <1>5, <1>6, <1>7, <1>8 DEF v

LEMMA SlashReplyKeeps ==
  ASSUME NEW w, NEW K, NEW n, Sound(w, K, n), Kept(w, {}), NEW m, Fresh(w, m, n), NEW h \in Runs,
         w.rec[h].state = "active", w.rec[h].kind = "slash"
  PROVE  LET v == SlashReply(w, m, h) IN
         /\ Sound(v, K, n) /\ Kept(v, {}) /\ Moves(w, v)
         /\ \A x \in Runs : v.rec[x].msg = w.rec[x].msg /\ v.rec[x].open = w.rec[x].open
<1> DEFINE t == Pop(w, h)
           u == Adds(t, m, h)
           g == Group(w, h)
           v == SlashReply(w, m, h)
<1>1. w \in Worlds /\ h \in ToSet(w.fifo) /\ ToSet(w.fifo) \subseteq Runs /\ g \in SUBSET Runs
      /\ \A x \in g : x = h \/ w.rec[x].state = "rider"
  BY InFifo, GroupIs DEF Sound, Order
<1>2. /\ Sound(t, K \cup g, n) /\ Closes(w, t) /\ t.rec[h].state = "gone"
  BY PopKeeps
<1>3. v = Terminal(u, g, TRUE)
  BY DEF SlashReply, Adds
<1> HIDE DEF t, u, v
<1>4. Kept(t, {})
  BY <1>1, <1>2, KeptStays DEF Closes, SameRecs
<1>5. Fresh(t, m, n)
  BY <1>2 DEF Fresh, Closes, SameRecs, SameMessage
<1>6. Sound(u, K \cup g, n) /\ Commits(t, u) /\ u.fifo = t.fifo /\ u.rec = t.rec /\ Kept(u, {})
  <2>1. LET y == Adds(t, m, h) IN
        Sound(y, K \cup g, n) /\ Commits(t, y) /\ y.fifo = t.fifo /\ y.rec = t.rec
        /\ (Kept(t, {}) => Kept(y, {}))
    BY <1>2, <1>5, AddsKeeps
  <2> QED BY <1>4, <2>1 DEF u
<1>7. u \in Worlds /\ \A x \in g : u.rec[x].state # "none"
  <2>1. \A x \in g : x = h \/ t.rec[x].state = "rider"
    BY <1>1, <1>2 DEF Closes, Onward
  <2> QED BY <1>2, <1>6, <2>1 DEF Sound
<1>8. \A c \in ToSet(u.fifo) : Group(u, c) \cap g = {}
  BY <1>6 DEF Sound, Ends
<1>9. \A s \in u.out.shown : s[2] \in g /\ u.rec[s[2]].kind = "turn" => u.out.commits[s[1]] # <<>>
  <2>1. \A s \in w.out.shown : s[2] \in g => w.rec[s[2]].kind = "slash"
    BY <1>1 DEF Sound, Streams
  <2>2. u.out.shown = w.out.shown /\ \A x \in Runs : u.rec[x].kind = w.rec[x].kind
    BY <1>2, <1>6 DEF Closes, Commits, SameRecs, SameKind
  <2> QED BY <1>1, <2>1, <2>2
<1> HIDE DEF g
<1>10. Sound(v, (K \cup g) \ g, n) /\ Closes(u, v)
  <2>1. Sound(Terminal(u, g, TRUE), (K \cup g) \ g, n) /\ Closes(u, Terminal(u, g, TRUE))
    <3> DEFINE L == K \cup g
    <3>1. \A x \in g : x \in L \cup u.out.refused /\ u.rec[x].state # "none"
      BY <1>7
    <3>2. Sound(u, L, n)
      BY <1>6
    <3> HIDE DEF L
    <3>3. Sound(Terminal(u, g, TRUE), L \ g, n) /\ Closes(u, Terminal(u, g, TRUE))
      BY <1>1, <1>8, <1>9, <3>1, <3>2, TerminalKeeps
    <3> QED BY <3>3 DEF L
  <2> QED BY <1>3, <2>1
<1>11. (K \cup g) \ g = K
  BY <1>1 DEF Sound, Ends, g
<1>12. Kept(v, {})
  BY <1>6, <1>7, <1>10, KeptStays DEF Closes, SameRecs
<1>13. Moves(w, v)
  <2>1. Moves(w, t) /\ Moves(t, u) /\ Moves(u, v)
    BY <1>2, <1>6, <1>10, ClosesCommits, CommitsMoves
  <2> QED BY <2>1, MovesOn
<1>14. \A x \in Runs : v.rec[x].msg = w.rec[x].msg /\ v.rec[x].open = w.rec[x].open
  BY <1>2, <1>6, <1>10 DEF Closes, SameRecs, SameMessage
<1> QED BY <1>10, <1>11, <1>12, <1>13, <1>14 DEF v

LEMMA PromoteKeeps ==
  ASSUME NEW w, NEW K, NEW n, Sound(w, K, n), Kept(w, {})
  PROVE  LET v == Promote(w) IN Sound(v, K, n) /\ Kept(v, {}) /\ Closes(w, v)
<1> DEFINE p == Pending(w)
           v == Promote(w)
<1>1. w \in Worlds /\ Order(w)
  BY DEF Sound
<1>2. CASE Active(w) # None \/ p = None
  <2>1. v = w
    BY <1>2 DEF Promote, Activate
  <2> QED BY <2>1, ClosesNot
<1>3. CASE Active(w) = None /\ p # None
  <2>1. p \in ToSet(w.fifo) /\ p \in Runs /\ w.rec[p].state = "pending"
        /\ \A x \in Runs : w.rec[x].state # "active"
    BY <1>1, <1>3, ActiveIs, PendingIs
  <2>2. v = Activate(w, p)
    BY <1>3 DEF Promote
  <2> HIDE DEF p, v
  <2>3. Sound(v, K, n)
    BY <2>1, <2>2, ActivateKeeps
  <2>4. /\ v.fifo = w.fifo /\ v.out = w.out /\ SameRecs(v, w)
        /\ \A x \in Runs : /\ x = p => v.rec[x].state = "active"
                           /\ x # p => v.rec[x] = w.rec[x]
    BY <1>1, <2>1, <2>2, ActivateIs
  <2>5. Closes(w, v)
    BY <2>1, <2>4 DEF Closes, Onward
  <2>6. Kept(v, {})
    BY <1>1, <2>5, KeptStays DEF Closes, SameRecs
  <2> QED BY <2>3, <2>5, <2>6 DEF v
<1> QED BY <1>2, <1>3

\* A record is popped and closes.
LEMMA PopOnlyEnds ==
  ASSUME NEW w, NEW K, NEW n, Sound(w, K, n), Kept(w, {}), NEW r \in ToSet(w.fifo)
  PROVE  LET v == Terminal(PopOnly(w, r), Group(w, r), FALSE) IN
         Sound(v, K, n) /\ Kept(v, {}) /\ Closes(w, v)
<1> DEFINE t == Terminal(PopOnly(w, r), Group(w, r), FALSE)
<1>0. w \in Worlds /\ ToSet(w.fifo) \subseteq Runs /\ Once(w.fifo)
  BY InFifo DEF Sound, Order
<1> DEFINE u == PopOnly(w, r)
           g == Group(w, r)
           L == K \cup g
<1>1. Sound(u, L, n)
  BY PopOnlyKeeps
<1>2. /\ u.fifo = Without(w.fifo, r) /\ u.out = w.out /\ SameRecs(u, w)
      /\ u.rec[r].state = "gone" /\ \A x \in Runs : x # r => u.rec[x] = w.rec[x]
  BY <1>0, PopOnlyIs
<1>3. w.rec[r].state \in {"active", "pending"} /\ ToSet(u.fifo) \subseteq ToSet(w.fifo)
  <2>1. r \in Runs /\ w.rec[r].state \in {"active", "pending"}
    BY <1>0 DEF Sound, Order
  <2>2. w.fifo \in Seq(Runs)
    BY <1>0, InFifo
  <2>3. ToSet(Without(w.fifo, r)) = ToSet(w.fifo) \ {r}
    BY <1>0, <2>2, WithoutHas
  <2> HIDE DEF u
  <2> QED BY <1>2, <2>1, <2>3
<1>4. t = Terminal(u, g, FALSE)
  OBVIOUS
<1> HIDE DEF u, t
<1>5. Closes(w, u)
  BY <1>2, <1>3 DEF Closes, Onward
<1>6. Kept(u, {})
  BY <1>0, <1>5, KeptStays DEF Closes, SameRecs
<1>7. Group(u, r) = g
  BY <1>0, <1>2, SameGroup DEF SameRecs
<1> HIDE DEF L, g
<1>8. Group(u, r) \subseteq L
  BY <1>7 DEF L
<1>9. Sound(Terminal(u, Group(u, r), FALSE), L \ Group(u, r), n)
      /\ Kept(Terminal(u, Group(u, r), FALSE), {}) /\ Closes(u, Terminal(u, Group(u, r), FALSE))
  BY <1>0, <1>1, <1>2, <1>6, <1>8, EndsKeeps
<1>10. Sound(t, L \ g, n) /\ Kept(t, {}) /\ Closes(u, t)
  BY <1>4, <1>7, <1>9
<1>11. L \ g = K
  BY DEF L, g, Sound, Ends
<1>12. Closes(w, t)
  BY <1>5, <1>10, ClosesOn
<1> QED BY <1>10, <1>11, <1>12 DEF t

\* The head is popped; what it leaves behind can close.
LEMMA PopLeaves ==
  ASSUME NEW w, NEW K, NEW n, Sound(w, K, n), Kept(w, {}), NEW r \in Runs, w.rec[r].state = "active"
  PROVE  /\ Sound(Pop(w, r), K \cup Group(w, r), n) /\ Kept(Pop(w, r), {}) /\ Closes(w, Pop(w, r))
         /\ Pop(w, r).rec[r].state = "gone" /\ Group(Pop(w, r), r) = Group(w, r)
         /\ r \notin ToSet(Pop(w, r).fifo) /\ (K \cup Group(w, r)) \ Group(w, r) = K
<1> DEFINE v == Pop(w, r)
           g == Group(w, r)
<1>1. /\ Sound(v, K \cup g, n) /\ Closes(w, v) /\ v.rec[r].state = "gone"
      /\ ToSet(v.fifo) = ToSet(w.fifo) \ {r}
  BY PopKeeps
<1> HIDE DEF v, g
<1>2. w \in Worlds /\ r \in ToSet(w.fifo)
  BY DEF Sound, Order
<1>3. Kept(v, {})
  BY <1>1, <1>2, KeptStays DEF Closes, SameRecs
<1>4. Group(v, r) = g
  BY <1>1, SameGroup DEF Closes, SameRecs, g
<1>5. (K \cup g) \ g = K
  BY <1>2 DEF Sound, Ends, g
<1> QED BY <1>1, <1>3, <1>4, <1>5 DEF v, g

LEMMA PopEnds ==
  ASSUME NEW w, NEW K, NEW n, Sound(w, K, n), Kept(w, {}), NEW r \in Runs, w.rec[r].state = "active",
         NEW ok \in BOOLEAN, ok => r \notin cancelled /\ ~w.rec[r].open
  PROVE  LET v == Terminal(Pop(w, r), Group(w, r), ok) IN
         Sound(v, K, n) /\ Kept(v, {}) /\ Closes(w, v)
<1> DEFINE u == Pop(w, r)
           g == Group(w, r)
           L == K \cup g
           v == Terminal(u, g, ok)
<1>1. /\ Sound(u, L, n) /\ Kept(u, {}) /\ Closes(w, u) /\ u.rec[r].state = "gone"
      /\ Group(u, r) = g /\ L \ g = K
  BY PopLeaves
<1> HIDE DEF u, g, L
<1>2. g \subseteq L /\ (ok => r \notin cancelled /\ ~u.rec[r].open)
  BY <1>1 DEF L, Closes, SameRecs, SameMessage
<1>3. Sound(Terminal(u, Group(u, r), ok), L \ Group(u, r), n)
      /\ Kept(Terminal(u, Group(u, r), ok), {}) /\ Closes(u, Terminal(u, Group(u, r), ok))
  BY <1>1, <1>2, EndsKeeps
<1>4. Sound(v, K, n) /\ Kept(v, {}) /\ Closes(u, v)
  BY <1>1, <1>3
<1> QED BY <1>1, <1>4, ClosesOn DEF u, g, v

LEMMA PopClosesTail ==
  ASSUME NEW w, NEW K, NEW n, Sound(w, K, n), Kept(w, {}), NEW r \in Runs, w.rec[r].state = "active",
         NEW ok \in BOOLEAN, ok => r \notin cancelled
  PROVE  LET v == Terminal(CommitOpen(Pop(w, r), r), Group(w, r), ok) IN
         /\ Sound(v, K, n) /\ Kept(v, {}) /\ Commits(w, v) /\ r \notin ToSet(v.fifo)
         /\ \A x \in Runs \ {r} : w.rec[x].open => v.rec[x].open
<1> DEFINE u == Pop(w, r)
           g == Group(w, r)
           L == K \cup g
           v == Terminal(CommitOpen(u, r), g, ok)
<1>1. /\ Sound(u, L, n) /\ Kept(u, {}) /\ Closes(w, u) /\ u.rec[r].state = "gone"
      /\ Group(u, r) = g /\ r \notin ToSet(u.fifo) /\ L \ g = K
  BY PopLeaves
<1> HIDE DEF u, g, L
<1>2. g \subseteq L
  BY DEF L
<1>3. v = CloseTail(u, r, ok)
  BY <1>1 DEF CloseTail
<1> HIDE DEF v
<1>4. /\ Sound(CloseTail(u, r, ok), L \ Group(u, r), n) /\ Kept(CloseTail(u, r, ok), {})
      /\ Commits(u, CloseTail(u, r, ok))
      /\ \A x \in Runs \ {r} : u.rec[x].open => CloseTail(u, r, ok).rec[x].open
  BY <1>1, <1>2, CloseTailKeeps
<1>5. /\ Sound(v, K, n) /\ Kept(v, {}) /\ Commits(u, v)
      /\ \A x \in Runs \ {r} : u.rec[x].open => v.rec[x].open
  BY <1>1, <1>3, <1>4
<1>6. Commits(w, v)
  BY <1>1, <1>5, ClosesCommits, CommitsOn
<1>7. r \notin ToSet(v.fifo)
  BY <1>1, <1>5 DEF Commits
<1>8. \A x \in Runs \ {r} : w.rec[x].open => v.rec[x].open
  BY <1>1, <1>5 DEF Closes, SameRecs, SameMessage
<1> QED BY <1>5, <1>6, <1>7, <1>8 DEF u, g, v

Dropped(v, w, cs, r) ==
  /\ v \in Worlds /\ v.fifo = w.fifo /\ v.marks = w.marks /\ v.out = w.out
  /\ SameState(v, w) /\ SameKind(v, w) /\ SameMessage(v, w)
  /\ \A c \in cs : v.rec[c].riders \subseteq w.rec[c].riders /\ r \notin v.rec[c].riders
  /\ \A c \in Runs \ cs : v.rec[c].riders = w.rec[c].riders
  /\ Mild(w, v)

LEMMA DropsIs ==
  ASSUME NEW w \in Worlds, NEW cs \in SUBSET Runs, NEW r \in Runs
  PROVE  Dropped(Drops(w, cs, r), w, cs, r)
<1> DEFINE F(c) == IF c \in cs THEN [w.rec[c] EXCEPT !.riders = @ \ {r}] ELSE w.rec[c]
           f == [c \in Runs |-> F(c)]
           u == [w EXCEPT !.rec = f]
           v == Drops(w, cs, r)
<1>1. v = u
  BY DEF Drops
<1>2. \A c \in Runs : /\ F(c) \in Recs /\ F(c).error = w.rec[c].error /\ F(c).media = w.rec[c].media
                      /\ F(c).state = w.rec[c].state /\ F(c).kind = w.rec[c].kind
                      /\ F(c).msg = w.rec[c].msg /\ F(c).open = w.rec[c].open
                      /\ F(c).riders = IF c \in cs THEN w.rec[c].riders \ {r} ELSE w.rec[c].riders
  <2> SUFFICES ASSUME NEW c \in Runs
               PROVE  /\ F(c) \in Recs /\ F(c).error = w.rec[c].error /\ F(c).media = w.rec[c].media
                      /\ F(c).state = w.rec[c].state /\ F(c).kind = w.rec[c].kind
                      /\ F(c).msg = w.rec[c].msg /\ F(c).open = w.rec[c].open
                      /\ F(c).riders = IF c \in cs THEN w.rec[c].riders \ {r} ELSE w.rec[c].riders
    OBVIOUS
  <2>1. w.rec[c] \in Recs
    BY InFifo
  <2> QED BY <2>1 DEF Recs
<1> HIDE DEF F, v
<1>3. f \in [Runs -> Recs] /\ \A c \in Runs : f[c] = F(c)
  BY <1>2
<1> HIDE DEF f
<1>4. u \in Worlds /\ u.fifo = w.fifo /\ u.marks = w.marks /\ u.out = w.out /\ u.rec = f
  BY <1>3 DEF Worlds
<1> HIDE DEF u
<1>5. Mild(w, u)
  BY <1>2, <1>3, <1>4 DEF Mild
<1> QED BY <1>1, <1>2, <1>3, <1>4, <1>5 DEF Dropped, SameState, SameKind, SameMessage, v

LEMMA DropsKeeps ==
  ASSUME NEW w, NEW K, NEW n, Sound(w, K, n), NEW cs \in SUBSET ToSet(w.fifo), NEW r \in Runs,
         r \notin ToSet(w.fifo), cs # {}, \A c \in ToSet(w.fifo) : c \in cs <=> r \in w.rec[c].riders
  PROVE  LET v == Drops(w, cs, r) IN Sound(v, K \cup {r}, n) /\ r \notin K
<1> DEFINE v == Drops(w, cs, r)
           L == K \cup {r}
<1>1. w \in Worlds /\ cs \subseteq Runs /\ ToSet(w.fifo) \subseteq Runs
  BY InFifo DEF Sound
<1>2. /\ v \in Worlds /\ v.fifo = w.fifo /\ v.marks = w.marks /\ v.out = w.out
      /\ SameState(v, w) /\ SameKind(v, w) /\ SameMessage(v, w)
      /\ \A c \in cs : v.rec[c].riders \subseteq w.rec[c].riders /\ r \notin v.rec[c].riders
      /\ \A c \in Runs \ cs : v.rec[c].riders = w.rec[c].riders
  <2>1. cs \in SUBSET Runs /\ w \in Worlds
    BY <1>1
  <2>2. Dropped(v, w, cs, r)
    BY <2>1, DropsIs
  <2> HIDE DEF v
  <2> QED BY <2>2 DEF Dropped
<1> HIDE DEF v
<1>3. PICK c \in cs : r \in w.rec[c].riders
  OBVIOUS
<1>4. w.out.ends[r] = <<>> /\ r \notin K /\ w.rec[r].state = "rider"
  BY <1>1, <1>3 DEF Sound, Ends, Group, Riding
<1>5. \A x \in Runs : v.rec[x].riders \subseteq w.rec[x].riders
  BY <1>2
<1>6. Order(v)
  BY <1>2 DEF Sound, Order, SameState
<1>7. Riding(v)
  <2>1. \A x \in Runs : w.rec[x].riders \subseteq Runs
    BY <1>1, InFifo DEF Recs
  <2>2. \A x \in Runs : \A y \in v.rec[x].riders : v.rec[y].state = "rider"
    BY <1>2, <1>5, <2>1 DEF Sound, Riding, SameState
  <2>3. \A x, y \in Runs : x # y => v.rec[x].riders \cap v.rec[y].riders = {}
    BY <1>5 DEF Sound, Riding
  <2>4. \A x \in Runs : v.rec[x].state \in {"none", "rider"}
                          => v.rec[x].riders = {} /\ v.rec[x].msg = NoMessage /\ ~v.rec[x].open
    BY <1>2, <1>5 DEF Sound, Riding, SameState, SameMessage
  <2> QED BY <2>2, <2>3, <2>4 DEF Riding
<1>8. Refusals(v)
  <2>1. w.marks \subseteq Runs
    BY <1>1 DEF Worlds
  <2> QED BY <1>2, <2>1 DEF Sound, Refusals, SameState
<1>9. Ends(v, L)
  <2>1. \A x \in ToSet(v.fifo) : Group(v, x) \subseteq Group(w, x) /\ r \notin Group(v, x)
    BY <1>1, <1>2, <1>5 DEF Group
  <2>2. \A x \in ToSet(v.fifo) : \A y \in Group(v, x) : v.out.ends[y] = <<>> /\ y \notin L
    BY <1>2, <2>1 DEF Sound, Ends
  <2>3. \A x \in Runs \ v.out.refused : Len(v.out.ends[x]) <= 1 /\ (x \in L => v.out.ends[x] = <<>>)
    BY <1>2, <1>4 DEF Sound, Ends
  <2>4. \A x \in Runs : v.rec[x].state = "none" => v.out.ends[x] = <<>> /\ x \notin L
    <3>1. \A x \in Runs : v.rec[x].state = w.rec[x].state
      BY <1>2 DEF SameState
    <3>2. \A x \in Runs : w.rec[x].state = "none" => w.out.ends[x] = <<>> /\ x \notin K
      BY DEF Sound, Ends
    <3> QED BY <1>2, <1>4, <3>1, <3>2
  <2> HIDE DEF L
  <2> QED BY <2>2, <2>3, <2>4 DEF Ends
<1>10. Texts(v, n)
  BY <1>2 DEF Sound, Texts, SameMessage
<1>11. Streams(v)
  <2>1. \A s \in w.out.shown : s[2] \in Runs
    BY <1>1 DEF Worlds, Outs
  <2> QED BY <1>2, <2>1 DEF Sound, Streams, SameState, SameKind
<1> QED BY <1>2, <1>4, <1>6, <1>7, <1>8, <1>9, <1>10, <1>11 DEF Sound, v

\* What a discarded dispatch does to the records.
Discards(w, v) ==
  /\ SameKind(v, w) /\ SameMessage(v, w) /\ Onward(w, v) /\ ToSet(v.fifo) \subseteq ToSet(w.fifo)
  /\ \A x \in Runs \ ToSet(w.fifo) : v.rec[x].riders = w.rec[x].riders

LEMMA ClosesDiscards ==
  ASSUME NEW u, NEW v, NEW w, Discards(u, v), Closes(v, w)
  PROVE  Discards(u, w)
<1>1. SameKind(w, u) /\ SameMessage(w, u)
  BY DEF Closes, Discards, SameRecs, SameKind, SameMessage
<1>2. Onward(u, w)
  BY DEF Closes, Discards, Onward
<1> QED BY <1>1, <1>2 DEF Closes, Discards, SameRecs, SameRiders

LEMMA DiscardKeeps ==
  ASSUME NEW w, NEW K, NEW n, Sound(w, K, n), Kept(w, {}), NEW r \in Runs
  PROVE  LET v == Discard(w, r) IN Sound(v, K, n) /\ Kept(v, {}) /\ Discards(w, v)
<1> DEFINE cs == {c \in ToSet(w.fifo) : r \in w.rec[c].riders}
           t == IF r \in ToSet(w.fifo) THEN Terminal(PopOnly(w, r), Group(w, r), FALSE)
                ELSE IF cs = {} THEN w
                ELSE Terminal(Drops(w, cs, r), {r}, FALSE)
<1>1. w \in Worlds /\ ToSet(w.fifo) \subseteq Runs /\ Once(w.fifo)
  BY InFifo DEF Sound, Order
<1>2. Discard(w, r) = Promote(t)
  BY DEF Discard
<1>3. Sound(t, K, n) /\ Kept(t, {}) /\ Discards(w, t)
  <2>1. CASE r \in ToSet(w.fifo)
    <3>1. t = Terminal(PopOnly(w, r), Group(w, r), FALSE)
      BY <2>1
    <3> HIDE DEF t
    <3>2. Sound(t, K, n) /\ Kept(t, {}) /\ Closes(w, t)
      BY <2>1, <3>1, PopOnlyEnds
    <3> QED BY <3>2 DEF Closes, Discards, SameRecs, SameRiders
  <2>2. CASE r \notin ToSet(w.fifo) /\ cs = {}
    <3>1. t = w
      BY <2>2
    <3> QED BY <3>1, <1>1 DEF Discards, SameKind, SameMessage, Onward
  <2>3. CASE r \notin ToSet(w.fifo) /\ cs # {}
    <3> DEFINE u == Drops(w, cs, r)
               L == K \cup {r}
    <3>1. t = Terminal(u, {r}, FALSE)
      BY <2>3
    <3>2. cs \in SUBSET ToSet(w.fifo) /\ \A c \in ToSet(w.fifo) : c \in cs <=> r \in w.rec[c].riders
      OBVIOUS
    <3>3. PICK d \in cs : r \in w.rec[d].riders
      BY <2>3
    <3>4. w.rec[r].state = "rider"
      BY <1>1, <3>3 DEF Sound, Riding
    <3> HIDE DEF cs, t
    <3>5. Sound(u, L, n) /\ r \notin K
      BY <2>3, <3>2, DropsKeeps
    <3>6. /\ u \in Worlds /\ u.fifo = w.fifo /\ u.marks = w.marks /\ u.out = w.out
          /\ SameState(u, w) /\ SameKind(u, w) /\ SameMessage(u, w)
          /\ \A x \in Runs \ cs : u.rec[x].riders = w.rec[x].riders
      <4>1. cs \in SUBSET Runs /\ w \in Worlds
        BY <1>1, <3>2
      <4>2. Dropped(u, w, cs, r)
        BY <4>1, DropsIs
      <4> HIDE DEF u
      <4> QED BY <4>2 DEF Dropped
    <3> HIDE DEF u, L
    <3>7. Discards(w, u)
      BY <3>2, <3>6 DEF Discards, SameState, Onward
    <3>8. Kept(u, {})
      BY <1>1, <3>6, KeptStays
    <3>9. \A x \in {r} : x \in L \cup u.out.refused /\ u.rec[x].state # "none"
      BY <3>4, <3>6 DEF SameState, L
    <3>10. \A x \in ToSet(u.fifo) : Group(u, x) \cap {r} = {}
      BY <3>5 DEF Sound, Ends, L
    <3>11. Sound(t, L \ {r}, n) /\ Closes(u, t)
      <4>1. {r} \in SUBSET Runs /\ FALSE \in BOOLEAN
        OBVIOUS
      <4>2. Sound(Terminal(u, {r}, FALSE), L \ {r}, n) /\ Closes(u, Terminal(u, {r}, FALSE))
        BY <3>5, <3>9, <3>10, <4>1, TerminalKeeps
      <4> QED BY <3>1, <4>2
    <3>12. L \ {r} = K
      BY <3>5 DEF L
    <3>13. Kept(t, {})
      BY <3>6, <3>8, <3>11, KeptStays DEF Closes, SameRecs
    <3> QED BY <3>7, <3>11, <3>12, <3>13, ClosesDiscards
  <2> QED BY <2>1, <2>2, <2>3
<1> HIDE DEF t
<1>4. Sound(Promote(t), K, n) /\ Kept(Promote(t), {}) /\ Closes(t, Promote(t))
  BY <1>3, PromoteKeeps
<1> QED BY <1>2, <1>3, <1>4, ClosesDiscards

\* The provider error of a record is noted or cleared.
Marked(w, r, b) == [w EXCEPT !.rec[r].error = b]

LEMMA MarkedKeeps ==
  ASSUME NEW w, NEW K, NEW n, Sound(w, K, n), Kept(w, {}), NEW r \in Runs, NEW b \in BOOLEAN
  PROVE  LET v == Marked(w, r, b) IN
         /\ Sound(v, K, n) /\ Kept(v, {}) /\ Closes(w, v)
         /\ v.fifo = w.fifo /\ v.marks = w.marks /\ v.out = w.out /\ SameState(v, w)
         /\ ~b => Mild(w, v)
<1> DEFINE e == [w.rec[r] EXCEPT !.error = b]
           u == [w EXCEPT !.rec = [w.rec EXCEPT ![r] = e]]
           v == Marked(w, r, b)
<1>1. w \in Worlds /\ w.rec \in [Runs -> Recs] /\ w.rec[r] \in Recs
  BY InFifo DEF Sound
<1>2. v = u
  BY DEF Marked
<1> HIDE DEF v
<1>3. /\ e \in Recs /\ e.riders = w.rec[r].riders /\ e.kind = w.rec[r].kind /\ e.msg = w.rec[r].msg
      /\ e.open = w.rec[r].open /\ e.state = w.rec[r].state /\ e.error = b /\ e.media = w.rec[r].media
  BY <1>1 DEF Recs
<1> HIDE DEF e
<1>4. u \in Worlds /\ u.fifo = w.fifo /\ u.marks = w.marks /\ u.out = w.out
      /\ u.rec = [w.rec EXCEPT ![r] = e]
  BY <1>1, <1>3 DEF Worlds
<1> HIDE DEF u
<1>5. \A x \in Runs : v.rec[x] = IF x = r THEN e ELSE w.rec[x]
  BY <1>1, <1>2, <1>4
<1>6. SameRecs(v, w) /\ SameState(v, w)
  BY <1>3, <1>5 DEF SameRecs, SameRiders, SameKind, SameMessage, SameState
<1>7. Closes(w, v)
  BY <1>2, <1>4, <1>6 DEF Closes, Onward, SameState
<1>8. Order(v)
  BY <1>2, <1>4, <1>6 DEF Sound, Order, SameState
<1>9. Riding(v)
  BY <1>1, <1>6, RidingStays DEF Sound, SameRecs, SameState
<1>10. Refusals(v)
  <2>1. w.marks \subseteq Runs
    BY <1>1 DEF Worlds
  <2> QED BY <1>2, <1>4, <1>6, <2>1 DEF Sound, Refusals, SameState
<1>11. Ends(v, K)
  <2>1. \A c \in Runs : Group(v, c) = Group(w, c)
    BY <1>6, SameGroup DEF SameRecs
  <2>2. ToSet(w.fifo) \subseteq Runs
    BY <1>1, InFifo
  <2> QED BY <1>2, <1>4, <1>6, <2>1, <2>2 DEF Sound, Ends, SameState
<1>12. Texts(v, n)
  BY <1>2, <1>4, <1>6 DEF Sound, Texts, SameRecs, SameMessage
<1>13. Streams(v)
  <2>1. \A s \in w.out.shown : s[2] \in Runs
    BY <1>1 DEF Worlds, Outs
  <2> QED BY <1>2, <1>4, <1>6, <2>1 DEF Sound, Streams, SameRecs, SameState, SameKind
<1>14. Kept(v, {})
  BY <1>1, <1>7, KeptStays DEF Closes, SameRecs
<1>15. ~b => Mild(w, v)
  BY <1>2, <1>3, <1>4, <1>5 DEF Mild
<1> QED BY <1>2, <1>4, <1>6, <1>7, <1>8, <1>9, <1>10, <1>11, <1>12, <1>13, <1>14, <1>15 DEF Sound, v

\* The provider refused the call of the record that heads the session.
Refuses(w, r) ==
  [w EXCEPT !.rec[r].error = TRUE, !.marks = @ \cup {r}, !.out.refused = @ \cup {r}]

LEMMA RefusesKeeps ==
  ASSUME NEW w, NEW K, NEW n, Sound(w, K, n), Kept(w, {}), NEW r \in Runs,
         w.rec[r].state = "active"
  PROVE  LET v == Refuses(w, r) IN
         Sound(v, K, n) /\ Kept(v, {}) /\ SameRecs(v, w) /\ SameState(v, w) /\ v.fifo = w.fifo
<1> DEFINE u == Marked(w, r, TRUE)
           t == [u EXCEPT !.marks = u.marks \cup {r}]
           s == t.out.refused \cup {r}
           o == [t.out EXCEPT !.refused = s]
           y == [t EXCEPT !.out = o]
           v == Refuses(w, r)
<1>1. Sound(u, K, n) /\ Kept(u, {}) /\ Closes(w, u) /\ u.fifo = w.fifo /\ SameState(u, w)
  BY MarkedKeeps
<1>2. v = y
  BY DEF Refuses, Marked
<1> HIDE DEF u, v
<1>3. u \in Worlds /\ u.out \in Outs
  BY <1>1 DEF Sound, Worlds
<1>4. t \in Worlds /\ t.fifo = u.fifo /\ t.rec = u.rec /\ t.out = u.out /\ t.marks = u.marks \cup {r}
  BY <1>3 DEF Worlds
<1> HIDE DEF t
<1>5. s = u.out.refused \cup {r} /\ s \in SUBSET Runs
  BY <1>3, <1>4 DEF Outs
<1> HIDE DEF s
<1>6. /\ o \in Outs /\ o.ends = u.out.ends /\ o.shown = u.out.shown /\ o.commits = u.out.commits
      /\ o.refused = s
  BY <1>3, <1>4, <1>5 DEF Outs
<1> HIDE DEF o
<1>7. y \in Worlds /\ y.fifo = u.fifo /\ y.rec = u.rec /\ y.out = o /\ y.marks = u.marks \cup {r}
  BY <1>4, <1>6 DEF Worlds
<1> HIDE DEF y
<1>8. u.rec[r].state = "active"
  BY <1>1 DEF SameState
<1>9. Order(y) /\ Riding(y)
  BY <1>1, <1>7 DEF Sound, Order, Riding
<1>10. Refusals(y)
  BY <1>1, <1>5, <1>6, <1>7, <1>8 DEF Sound, Refusals
<1>11. Ends(y, K)
  <2>1. \A c \in Runs : Group(y, c) = Group(u, c)
    BY <1>7 DEF Group
  <2>2. ToSet(u.fifo) \subseteq Runs
    BY <1>3, InFifo
  <2> QED BY <1>1, <1>5, <1>6, <1>7, <2>1, <2>2 DEF Sound, Ends
<1>12. Texts(y, n)
  BY <1>1, <1>6, <1>7 DEF Sound, Texts
<1>13. Streams(y)
  BY <1>1, <1>6, <1>7 DEF Sound, Streams
<1>14. Kept(y, {})
  BY <1>1, <1>6, <1>7 DEF Kept
<1>15. SameRecs(y, w) /\ SameState(y, w)
  BY <1>1, <1>7 DEF Closes, SameRecs, SameRiders, SameKind, SameMessage, SameState
<1> QED BY <1>1, <1>2, <1>7, <1>9, <1>10, <1>11, <1>12, <1>13, <1>14, <1>15 DEF Sound, v

\* A new record: it rides on a pending turn, or it goes to the end of the fifo.
LEMMA NewRecordIs ==
  ASSUME NEW k, NEW s \in States
  PROVE  LET e == NewRecord(k, s) IN
         /\ e \in Recs /\ e.state = s /\ e.riders = {} /\ e.msg = NoMessage /\ ~e.open
<1>1. NoRecord \in Recs
  BY DEF NoRecord, Recs, States
<1>2. /\ NoRecord.riders = {} /\ NoRecord.msg = NoMessage /\ ~NoRecord.open
  BY DEF NoRecord
<1> HIDE DEF NoRecord
<1>3. (k = "photo") \in BOOLEAN /\ (IF k \in {"slash", "stop"} THEN "slash" ELSE "turn") \in {"turn", "slash"}
  OBVIOUS
<1> QED BY <1>1, <1>2, <1>3 DEF NewRecord, Recs

\* r's record is new; others change only as its carrier.
Begins(w, v, r) ==
  /\ v.rec[r].state \in {"rider", "active", "pending"} /\ v.rec[r].msg = NoMessage
  /\ \A x \in Runs \ {r} : v.rec[x].state = w.rec[x].state /\ v.rec[x].kind = w.rec[x].kind
                           /\ v.rec[x].msg = w.rec[x].msg /\ v.rec[x].open = w.rec[x].open
  /\ \A x \in Runs : x # r /\ x \notin ToSet(w.fifo) => v.rec[x].riders = w.rec[x].riders
  /\ ToSet(v.fifo) \subseteq ToSet(w.fifo) \cup {r} /\ v.out = w.out /\ v.marks = w.marks

\* A record that is new or a rider's carrier keeps the rest of the ledger.
LEMMA NewKeeps ==
  ASSUME NEW w, NEW K, NEW n, Sound(w, K, n), Kept(w, {}), NEW r \in Runs,
         w.rec[r].state = "none", NEW v \in Worlds, Begins(w, v, r), Order(v),
         v.rec[r].riders = {}, ~v.rec[r].open, r \in ToSet(v.fifo) \/ v.rec[r].state = "rider",
         \A x \in Runs \ {r} : \/ v.rec[x].riders = w.rec[x].riders
                               \/ /\ v.rec[x].riders = w.rec[x].riders \cup {r}
                                  /\ w.rec[x].state = "pending" /\ v.rec[r].state = "rider",
         \A x, y \in Runs : r \in v.rec[x].riders /\ r \in v.rec[y].riders => x = y
  PROVE  Sound(v, K, n) /\ Kept(v, {})
<1>1. w \in Worlds /\ ToSet(w.fifo) \subseteq Runs /\ ToSet(v.fifo) \subseteq Runs
      /\ \A c \in Runs : w.rec[c].riders \subseteq Runs /\ v.rec[c].riders \subseteq Runs
  BY InFifo DEF Sound, Recs
<1>2. \A c \in Runs : r \notin w.rec[c].riders
  BY DEF Sound, Riding
<1>3. \A s \in w.out.shown : s[1] \in Messages /\ s[2] \in Runs \ {r}
  <2>1. \A s \in w.out.shown : s[1] \in Messages /\ s[2] \in Runs
    BY <1>1 DEF Worlds, Outs
  <2> QED BY <2>1 DEF Sound, Streams
<1>4. Riding(v)
  <2>1. ASSUME NEW c \in Runs, NEW x \in v.rec[c].riders
        PROVE  v.rec[x].state = "rider"
    <3>1. CASE x = r
      BY <1>2, <2>1, <3>1
    <3>2. CASE x # r
      <4>1. x \in Runs /\ x \in w.rec[c].riders
        BY <1>1, <2>1, <3>2
      <4> QED BY <3>2, <4>1 DEF Sound, Riding, Begins
    <3> QED BY <3>1, <3>2
  <2>2. ASSUME NEW c \in Runs, NEW d \in Runs, c # d
        PROVE  v.rec[c].riders \cap v.rec[d].riders = {}
    <3>1. w.rec[c].riders \cap w.rec[d].riders = {}
      BY <2>2 DEF Sound, Riding
    <3>2. \A e \in Runs : \A x \in v.rec[e].riders : x = r \/ x \in w.rec[e].riders
      OBVIOUS
    <3> QED BY <2>2, <3>1, <3>2
  <2>3. ASSUME NEW x \in Runs, v.rec[x].state \in {"none", "rider"}
        PROVE  v.rec[x].riders = {} /\ v.rec[x].msg = NoMessage /\ ~v.rec[x].open
    BY <2>3 DEF Sound, Riding, Begins
  <2> QED BY <2>1, <2>2, <2>3 DEF Riding
<1>5. Refusals(v)
  <2>1. w.marks \subseteq Runs
    BY <1>1 DEF Worlds
  <2> QED BY <2>1 DEF Sound, Refusals, Begins
<1>6. Ends(v, K)
  <2>1. w.out.ends[r] = <<>> /\ r \notin K
    BY DEF Sound, Ends
  <2>2. ASSUME NEW c \in ToSet(v.fifo), NEW x \in Group(v, c)
        PROVE  v.out.ends[x] = <<>> /\ x \notin K
    <3>1. CASE x = r
      BY <2>1, <3>1 DEF Begins
    <3>2. CASE x # r
      <4>1. c \in ToSet(w.fifo) /\ x \in Group(w, c)
        BY <1>1, <2>2, <3>2 DEF Begins, Group
      <4> QED BY <4>1 DEF Sound, Ends, Begins
    <3> QED BY <3>1, <3>2
  <2>3. \A x \in Runs : v.rec[x].state = "none" => w.rec[x].state = "none"
    BY DEF Begins
  <2> QED BY <2>2, <2>3 DEF Sound, Ends, Begins
<1>7. Texts(v, n)
  <2>1. \A m \in Messages : /\ Len(v.out.commits[m]) <= 1
                            /\ v.out.commits[m] # <<>> => m[2] <= n[m[1]]
    BY DEF Sound, Texts, Begins
  <2>2. ASSUME NEW x \in Runs
        PROVE  /\ v.rec[x].msg # NoMessage => v.rec[x].msg[2] <= n[v.rec[x].msg[1]]
               /\ v.rec[x].open => v.rec[x].msg # NoMessage /\ v.out.commits[v.rec[x].msg] = <<>>
    <3>1. CASE x = r
      BY <3>1 DEF Begins
    <3>2. CASE x # r
      BY <3>2 DEF Begins, Sound, Texts
    <3> QED BY <3>1, <3>2
  <2>3. ASSUME NEW x \in Runs, NEW y \in Runs, v.rec[x].msg = v.rec[y].msg
        PROVE  x = y \/ v.rec[x].msg = NoMessage
    BY <2>3 DEF Begins, Sound, Texts
  <2> QED BY <2>1, <2>2, <2>3 DEF Texts
<1>8. Streams(v)
  BY <1>3 DEF Sound, Streams, Begins
<1>9. Kept(v, {})
  BY <1>3 DEF Kept, Begins
<1> QED BY <1>4, <1>5, <1>6, <1>7, <1>8, <1>9 DEF Sound

LEMMA HeadSlotIs ==
  ASSUME World \in Worlds, HeadSlot # None
  PROVE  HeadSlot \in ToSet(fifo) /\ rec[HeadSlot].state = "pending"
<1> DEFINE P == {i \in InState(World, "pending") : rec[fifo[i]].kind = "turn"}
<1>1. fifo \in Seq(Runs)
  BY DEF World, Worlds
<1>2. P \in SUBSET DOMAIN fifo /\ \A i \in P : rec[fifo[i]].state = "pending"
  BY DEF InState, World
<1>3. HeadSlot = First(fifo, P)
  BY DEF HeadSlot
<1> HIDE DEF P
<1>4. \/ P = {} /\ First(fifo, P) = None
      \/ \E i \in P : First(fifo, P) = fifo[i] /\ fifo[i] \in Runs /\ \A j \in P : i <= j
  BY <1>1, <1>2, FirstIs
<1> QED BY <1>2, <1>3, <1>4 DEF ToSet

LEMMA BeginKeeps ==
  ASSUME NEW w, NEW K, NEW n, Sound(w, K, n), Kept(w, {}), NEW r \in Runs, NEW k,
         w.rec[r].state = "none", w.fifo = fifo, w.rec = rec, World \in Worlds
  PROVE  LET v == BeginRecord(w, r, k) IN Sound(v, K, n) /\ Kept(v, {}) /\ Begins(w, v, r)
<1> DEFINE v == BeginRecord(w, r, k)
<1>1. w \in Worlds /\ w.rec \in [Runs -> Recs] /\ w.fifo \in Seq(Runs) /\ ToSet(w.fifo) \subseteq Runs
      /\ Once(w.fifo) /\ r \notin ToSet(w.fifo)
  BY InFifo DEF Sound, Order
<1>2. CASE Merges(k)
  <2> DEFINE h == HeadSlot
             N == NewRecord(k, "rider")
             f == [w.rec EXCEPT ![r] = N]
             e == [w.rec[h] EXCEPT !.riders = @ \cup {r}, !.media = @ \/ k = "photo"]
             j == [f EXCEPT ![h] = e]
             u == [w EXCEPT !.rec = j]
  <2>1. h \in ToSet(w.fifo) /\ h \in Runs /\ w.rec[h].state = "pending" /\ h # r
    BY <1>1, <1>2, HeadSlotIs DEF Merges
  <2>2. v = u
    BY <1>2 DEF BeginRecord
  <2> HIDE DEF v, h
  <2>3. N \in Recs /\ N.state = "rider" /\ N.riders = {} /\ N.msg = NoMessage /\ ~N.open
    BY NewRecordIs DEF States
  <2> HIDE DEF N
  <2>4. /\ e \in Recs /\ e.state = "pending" /\ e.riders = w.rec[h].riders \cup {r}
        /\ e.kind = w.rec[h].kind /\ e.msg = w.rec[h].msg /\ e.open = w.rec[h].open
    <3>1. w.rec[h] \in Recs
      BY <1>1, <2>1
    <3> QED BY <2>1, <3>1 DEF Recs
  <2> HIDE DEF e
  <2>5. j \in [Runs -> Recs] /\ j[r] = N /\ j[h] = e /\ \A x \in Runs \ {r, h} : j[x] = w.rec[x]
    BY <1>1, <2>1, <2>3, <2>4
  <2> HIDE DEF j
  <2>6. u \in Worlds /\ u.fifo = w.fifo /\ u.marks = w.marks /\ u.out = w.out /\ u.rec = j
    BY <1>1, <2>5 DEF Worlds
  <2> HIDE DEF u
  <2>7. Begins(w, v, r)
    BY <2>1, <2>2, <2>3, <2>4, <2>5, <2>6 DEF Begins
  <2>8. Order(v)
    <3>1. \A x \in Runs \ {r} : v.rec[x].state = w.rec[x].state
      BY <2>7 DEF Begins
    <3>2. v.fifo = w.fifo /\ v.rec[r].state = "rider"
      BY <2>2, <2>3, <2>5, <2>6
    <3> QED BY <1>1, <3>1, <3>2 DEF Sound, Order
  <2>9. \A x \in Runs \ {r} : \/ v.rec[x].riders = w.rec[x].riders
                              \/ /\ v.rec[x].riders = w.rec[x].riders \cup {r}
                                 /\ w.rec[x].state = "pending" /\ v.rec[r].state = "rider"
    BY <2>1, <2>2, <2>3, <2>4, <2>5, <2>6
  <2>10. \A x \in Runs : r \in v.rec[x].riders => x = h
    <3>1. \A x \in Runs : r \notin w.rec[x].riders
      BY DEF Sound, Riding
    <3> QED BY <2>2, <2>3, <2>5, <2>6, <3>1
  <2>11. v \in Worlds /\ v.rec[r].riders = {} /\ ~v.rec[r].open /\ v.rec[r].state = "rider"
    BY <2>2, <2>3, <2>5, <2>6
  <2>12. \A x, y \in Runs : r \in v.rec[x].riders /\ r \in v.rec[y].riders => x = y
    BY <2>10
  <2>13. Sound(v, K, n) /\ Kept(v, {})
    BY <2>7, <2>8, <2>9, <2>11, <2>12, NewKeeps
  <2> QED BY <2>7, <2>13 DEF v
<1>3. CASE ~Merges(k)
  <2> DEFINE s == IF Busy THEN "pending" ELSE "active"
             N == NewRecord(k, s)
             f == [w.rec EXCEPT ![r] = N]
             t == [w EXCEPT !.rec = f]
             q == Append(w.fifo, r)
             u == [t EXCEPT !.fifo = q]
  <2>1. v = u
    BY <1>3 DEF BeginRecord
  <2> HIDE DEF v
  <2>2. s \in States /\ s \in {"active", "pending"}
    BY DEF States
  <2>3. s = "active" => \A x \in Runs : w.rec[x].state # "active"
    <3>1. s = "active" => \A x \in ToSet(w.fifo) : w.rec[x].state # "active"
      BY <1>1 DEF Busy
    <3> QED BY <3>1 DEF Sound, Order
  <2> HIDE DEF s
  <2>4. N \in Recs /\ N.state = s /\ N.riders = {} /\ N.msg = NoMessage /\ ~N.open
    BY <2>2, NewRecordIs
  <2> HIDE DEF N
  <2>5. f \in [Runs -> Recs] /\ f[r] = N /\ \A x \in Runs \ {r} : f[x] = w.rec[x]
    BY <1>1, <2>4
  <2> HIDE DEF f
  <2>6. t \in Worlds /\ t.fifo = w.fifo /\ t.marks = w.marks /\ t.out = w.out /\ t.rec = f
    BY <1>1, <2>5 DEF Worlds
  <2>7. q \in Seq(Runs) /\ Once(q) /\ ToSet(q) = ToSet(w.fifo) \cup {r}
    BY <1>1, AppendHas
  <2> HIDE DEF t, q
  <2>8. u \in Worlds /\ u.fifo = q /\ u.marks = w.marks /\ u.out = w.out /\ u.rec = f
    BY <2>6, <2>7 DEF Worlds
  <2> HIDE DEF u
  <2>9. Begins(w, v, r)
    BY <2>1, <2>2, <2>4, <2>5, <2>7, <2>8 DEF Begins
  <2>10. Order(v)
    <3>1. \A x \in Runs \ {r} : v.rec[x].state = w.rec[x].state
      BY <2>9 DEF Begins
    <3>2. v.fifo = q /\ v.rec[r].state = s
      BY <2>1, <2>4, <2>5, <2>8
    <3>3. \A x \in Runs : v.rec[x].state \in {"active", "pending"} <=> x \in ToSet(v.fifo)
      BY <2>2, <2>7, <3>1, <3>2 DEF Sound, Order
    <3>4. \A x, y \in Runs : v.rec[x].state = "active" /\ v.rec[y].state = "active" => x = y
      BY <2>3, <3>1, <3>2 DEF Sound, Order
    <3> QED BY <2>7, <3>2, <3>3, <3>4 DEF Order
  <2>11. /\ v \in Worlds /\ v.rec[r].riders = {} /\ ~v.rec[r].open /\ r \in ToSet(v.fifo)
         /\ \A x \in Runs \ {r} : v.rec[x].riders = w.rec[x].riders
    BY <2>1, <2>4, <2>5, <2>7, <2>8
  <2>12. \A x, y \in Runs : r \in v.rec[x].riders /\ r \in v.rec[y].riders => x = y
    <3>1. \A x \in Runs : r \notin w.rec[x].riders
      BY DEF Sound, Riding
    <3> QED BY <2>11, <3>1
  <2>13. Sound(v, K, n) /\ Kept(v, {})
    BY <2>9, <2>10, <2>11, <2>12, NewKeeps
  <2> QED BY <2>9, <2>13 DEF v
<1> QED BY <1>2, <1>3

-----------------------------------------------------------------------------
(* Each step keeps what holds in every state. *)

LEMMA InitHolds == Init => IInv
<1> SUFFICES ASSUME Init PROVE IInv
  OBVIOUS
<1>1. /\ fifo = <<>> /\ rec = [r \in Runs |-> NoRecord] /\ cancelled = {} /\ marks = {}
      /\ stash = {} /\ lastEnded = None /\ handler = [r \in Runs |-> "none"]
      /\ drained = [r \in Runs |-> {}] /\ native = [r \in Runs |-> "none"] /\ queue = <<>>
      /\ photos = {} /\ probing = {} /\ text = [r \in Runs |-> "none"]
      /\ count = [r \in Runs |-> 0] /\ setup \in Setups
  BY DEF Init
<1>2. /\ out.ends = [r \in Runs |-> <<>>] /\ out.commits = [m \in Messages |-> <<>>]
      /\ out.shown = {} /\ out.refused = {} /\ out.strays = {} /\ out \in Outs
  BY DEF Init, Outs
<1>3. /\ NoRecord \in Recs /\ NoRecord.state = "none" /\ NoRecord.riders = {}
      /\ NoRecord.msg = NoMessage /\ ~NoRecord.open
  BY DEF NoRecord, Recs, States
<1>4. \A r \in Runs : rec[r] = NoRecord
  BY <1>1
<1>5. World \in Worlds
  BY <1>1, <1>2, <1>3 DEF World, Worlds
<1>6. World.fifo = fifo /\ World.rec = rec /\ World.marks = marks /\ World.out = out
  BY DEF World
<1>7. ToSet(fifo) = {} /\ Once(fifo) /\ ToSet(queue) = {} /\ Once(queue)
  BY <1>1 DEF ToSet, Once
<1>8. Owing = {}
  BY <1>1 DEF Owing
<1>9. Order(World) /\ Riding(World) /\ Refusals(World)
  BY <1>1, <1>3, <1>4, <1>6, <1>7 DEF Order, Riding, Refusals
<1>10. Ends(World, Owing)
  BY <1>2, <1>6, <1>7, <1>8 DEF Ends
<1>11. Texts(World, count)
  BY <1>2, <1>3, <1>4, <1>6 DEF Texts
<1>12. Streams(World) /\ Kept(World, {})
  BY <1>2, <1>6 DEF Streams, Kept
<1>13. RestOK
  BY <1>1, BoundAssumption DEF RestOK, Turns
<1>14. Stages /\ Tails /\ Drains /\ Cancels /\ Sealed
  BY <1>1, <1>3, <1>4, <1>7 DEF Stages, Tails, Drains, Cancels, Sealed
<1> QED BY <1>5, <1>9, <1>10, <1>11, <1>12, <1>13, <1>14 DEF IInv, Sound

LEMMA GraceHolds == ASSUME IInv, GraceExpires PROVE IInv'
<1>1. UNCHANGED <<fifo, rec, marks, out, cancelled, stash, handler, drained, native, queue, photos,
                 probing, text, count, setup>> /\ lastEnded' = None
  BY DEF GraceExpires, ledger, hermes
<1>2. World' = World /\ Owing' = Owing
  BY <1>1 DEF World, Owing, Group
<1>3. Sound(World, Owing, count)' /\ Kept(World, {})'
  BY <1>1, <1>2 DEF IInv, Kept
<1>4. RestOK'
  BY <1>1 DEF IInv, RestOK
<1>5. Stages' /\ Tails' /\ Drains' /\ Cancels' /\ Sealed'
  BY <1>1 DEF IInv, Stages, Tails, Drains, Cancels, Sealed, Waiting, AtWork
<1> QED BY <1>3, <1>4, <1>5 DEF IInv

LEMMA WorldIs ==
  World.fifo = fifo /\ World.rec = rec /\ World.marks = marks /\ World.out = out
BY DEF World

LEMMA StagesStay ==
  ASSUME Stages, Onward(World, World'), UNCHANGED <<handler, native, queue, count>>
  PROVE  Stages'
<1>1. \A x \in Runs : rec'[x].state = "none" <=> rec[x].state = "none"
  BY DEF Onward, World
<1>2. \A r \in Runs : handler'[r] \in {"none", "closing"} <=> rec'[r].state = "none"
  BY <1>1 DEF Stages
<1> QED BY <1>2 DEF Stages, AtWork

\* What has left the fifo stays out of it, with its message.
Settled(w, v) ==
  /\ \A x \in Runs : w.rec[x].state \in {"rider", "gone"} => v.rec[x].state \in {"rider", "gone"}
  /\ \A x \in Runs : w.rec[x].state = "gone" => v.rec[x].state = "gone" /\ v.rec[x].msg = w.rec[x].msg

LEMMA MovesSettles == ASSUME NEW w, NEW v, Moves(w, v) PROVE Settled(w, v)
BY DEF Moves, Onward, Settled

\* A deferred closing is of the head, which it takes off the fifo.
LEMMA TailsStay ==
  ASSUME Tails, RestOK, Settled(World, World'),
         \/ stash' \subseteq stash
         \/ \E h \in Runs : /\ rec[h].state = "active" /\ rec'[h].state = "gone"
                            /\ \E ok \in BOOLEAN : stash' = stash \cup {<<h, ok>>}
  PROVE  Tails'
<1>1. \A x \in Runs : rec[x].state = "gone" => rec'[x].state = "gone"
  BY DEF Settled, World
<1>2. \A c \in stash : c[1] \in Runs
  BY DEF RestOK
<1>3. CASE stash' \subseteq stash
  BY <1>1, <1>2, <1>3 DEF Tails
<1>4. ASSUME NEW h \in Runs, rec[h].state = "active", rec'[h].state = "gone", NEW ok \in BOOLEAN,
             stash' = stash \cup {<<h, ok>>}
      PROVE  Tails'
  <2>1. \A c \in stash : c[1] # h
    BY <1>4 DEF Tails
  <2> QED BY <1>1, <1>2, <1>4, <2>1 DEF Tails
<1> QED BY <1>3, <1>4

LEMMA DrainsStay ==
  ASSUME Drains, RestOK, Settled(World, World'), UNCHANGED drained,
         \A c \in stash' : c \in stash \/ rec[c[1]].state = "active"
  PROVE  Drains'
<1>1. \A x \in Runs : rec[x].state = "gone" => rec'[x].state = "gone"
  BY DEF Settled, World
<1>2. ASSUME NEW r \in Runs, NEW x \in drained[r]
      PROVE  rec'[x].state = "gone" /\ ~Waiting(x)'
  <2>1. x \in Runs /\ rec[x].state = "gone" /\ ~Waiting(x)
    BY <1>2 DEF Drains, RestOK
  <2>2. \A c \in stash' : c[1] # x
    BY <2>1 DEF Waiting
  <2> QED BY <1>1, <2>1, <2>2 DEF Waiting
<1> QED BY <1>2 DEF Drains

LEMMA CancelsStay ==
  ASSUME Cancels, Tails, RestOK, Settled(World, World'), UNCHANGED cancelled,
         World \in Worlds,
         \A t \in Runs : native[t] = "done" => native'[t] = "done",
         \A c \in stash' : c \in stash \/ rec[c[1]].state = "active"
  PROVE  Cancels'
<1>1. /\ \A x \in Runs : rec[x].state \in {"rider", "gone"} => rec'[x].state \in {"rider", "gone"}
      /\ \A x \in Runs : rec[x].state = "gone" => rec'[x].msg = rec[x].msg
  BY WorldIs DEF Settled, World
<1>2. cancelled \subseteq Runs /\ \A c \in stash : c[1] \in Runs
  BY DEF RestOK
<1>3. ASSUME NEW c \in stash', c[1] \in cancelled, rec'[c[1]].msg # NoMessage
      PROVE  rec'[c[1]].msg[1] \in cancelled \/ native'[rec'[c[1]].msg[1]] = "done"
  <2>1. c \in stash /\ c[1] \in Runs
    BY <1>2, <1>3 DEF Cancels
  <2>2. rec'[c[1]].msg = rec[c[1]].msg
    BY <1>1, <2>1 DEF Tails
  <2>3. rec[c[1]].msg[1] \in cancelled \/ native[rec[c[1]].msg[1]] = "done"
    BY <1>3, <2>1, <2>2 DEF Cancels
  <2>4. rec[c[1]].msg \in Messages
    BY <1>3, <2>1, <2>2, InFifo DEF World, Recs
  <2>5. rec[c[1]].msg[1] \in Runs
    BY <2>4 DEF Messages
  <2> QED BY <2>2, <2>3, <2>5
<1> QED BY <1>1, <1>2, <1>3 DEF Cancels

LEMMA SealedStays ==
  ASSUME Sealed, World \in Worlds, ToSet(fifo') \subseteq ToSet(fifo), UNCHANGED count,
         \A x \in ToSet(fifo') : rec'[x].msg = rec[x].msg /\ (rec[x].open => rec'[x].open),
         \A t \in Runs : text'[t] = "open" => text[t] = "open"
  PROVE  Sealed'
<1> SUFFICES ASSUME NEW r \in ToSet(fifo'), rec'[r].msg # NoMessage, ~rec'[r].open
             PROVE  text'[rec'[r].msg[1]] # "open" \/ count'[rec'[r].msg[1]] # rec'[r].msg[2]
  BY DEF Sealed
<1>1. r \in ToSet(fifo) /\ r \in Runs /\ rec'[r].msg = rec[r].msg /\ ~rec[r].open
  BY InFifo DEF World
<1>2. rec[r].msg \in Messages
  BY <1>1, InFifo DEF World, Recs
<1>3. rec[r].msg[1] \in Runs
  BY <1>2 DEF Messages
<1>4. text[rec[r].msg[1]] # "open" \/ count[rec[r].msg[1]] # rec[r].msg[2]
  BY <1>1 DEF Sealed
<1> QED BY <1>1, <1>3, <1>4

LEMMA OwingStays ==
  ASSUME SameRiders(World', World), RestOK, UNCHANGED <<stash, drained>>
  PROVE  Owing' = Owing
<1>1. \A c \in stash : Group(World, c[1])' = Group(World, c[1])
  BY DEF SameRiders, Group, RestOK
<1>2. \A r \in Runs : drained'[r] = drained[r]
  OBVIOUS
<1> QED BY <1>1, <1>2 DEF Owing

\* A step that closes, promotes or marks records and defers nothing.
LEMMA StepKeeps ==
  ASSUME IInv, NEW v, Becomes(v), Sound(v, Owing, count), Kept(v, {}), Moves(World, v),
         UNCHANGED <<cancelled, stash, drained, count>>,
         \A x \in ToSet(v.fifo) : v.rec[x].msg = rec[x].msg /\ (rec[x].open => v.rec[x].open),
         \A t \in Runs : text'[t] = "open" => text[t] = "open",
         \A t \in Runs : native[t] = "done" => native'[t] = "done"
  PROVE  /\ Sound(World, Owing, count)' /\ Kept(World, {})' /\ Onward(World, World')
         /\ Tails' /\ Drains' /\ Cancels' /\ Sealed'
<1>1. World' = v /\ World \in Worlds
  BY BecomesIs DEF Sound, IInv
<1>2. Owing' = Owing
  BY <1>1, OwingStays DEF Moves, IInv
<1>3. Sound(World, Owing, count)' /\ Kept(World, {})'
  BY <1>1, <1>2 DEF Kept
<1>4. Moves(World, World') /\ Onward(World, World') /\ Settled(World, World')
  BY <1>1, MovesSettles DEF Moves
<1>5. Tails' /\ Drains'
  BY <1>4, TailsStay, DrainsStay DEF IInv
<1>6. Cancels'
  BY <1>1, <1>4, CancelsStay DEF IInv
<1>7. fifo' = v.fifo /\ rec' = v.rec /\ ToSet(v.fifo) \subseteq ToSet(fifo)
  BY WorldIs DEF Becomes, Moves
<1>8. Sealed'
  BY <1>1, <1>7, SealedStays DEF IInv
<1> QED BY <1>3, <1>4, <1>5, <1>6, <1>8

\* A step that leaves the ledger alone.
LEMMA LedgerStays ==
  ASSUME IInv, UNCHANGED <<ledger, cancelled, stash, drained, count>>,
         \A t \in Runs : text'[t] = "open" => text[t] = "open",
         \A t \in Runs : native[t] = "done" => native'[t] = "done"
  PROVE  /\ Sound(World, Owing, count)' /\ Kept(World, {})' /\ Onward(World, World')
         /\ Tails' /\ Drains' /\ Cancels' /\ Sealed'
<1>1. Becomes(World) /\ World.rec = rec
  BY DEF Becomes, World, ledger
<1>2. Sound(World, Owing, count) /\ Kept(World, {})
  BY DEF IInv
<1>3. Moves(World, World)
  BY ClosesNot, ClosesCommits, CommitsMoves
<1> QED BY <1>1, <1>2, <1>3, StepKeeps

LEMMA EndProbeHolds == ASSUME IInv, NEW t \in Runs, EndProbe(t) PROVE IInv'
<1>1. /\ UNCHANGED <<ledger, cancelled, stash, drained, count>>
      /\ UNCHANGED <<handler, native, queue, text, photos, setup, lastEnded>>
      /\ probing' = probing \cup {t}
  BY DEF EndProbe
<1>2. /\ Sound(World, Owing, count)' /\ Kept(World, {})' /\ Onward(World, World')
      /\ Tails' /\ Drains' /\ Cancels' /\ Sealed'
  BY <1>1, LedgerStays
<1>3. Stages'
  BY <1>1, <1>2, StagesStay DEF IInv
<1>4. RestOK'
  BY <1>1 DEF IInv, RestOK
<1> QED BY <1>2, <1>3, <1>4 DEF IInv

LEMMA EndIgnoredHolds == ASSUME IInv, NEW t \in Runs, EndIgnored(t) PROVE IInv'
<1>1. /\ UNCHANGED <<ledger, cancelled, stash, drained, count>>
      /\ UNCHANGED <<handler, queue, text, photos, probing, setup, lastEnded>>
      /\ native[t] = "running" /\ native' = [native EXCEPT ![t] = "ended"]
  BY DEF EndIgnored
<1>2. native \in [Runs -> Turns]
  BY DEF IInv, RestOK
<1>3. /\ Sound(World, Owing, count)' /\ Kept(World, {})' /\ Onward(World, World')
      /\ Tails' /\ Drains' /\ Cancels' /\ Sealed'
  BY <1>1, <1>2, LedgerStays
<1>4. rec' = rec
  BY <1>1 DEF ledger
<1>5. Stages'
  BY <1>1, <1>2, <1>4 DEF IInv, Stages, AtWork
<1>6. RestOK'
  BY <1>1, <1>2 DEF IInv, RestOK, Turns
<1> QED BY <1>3, <1>5, <1>6 DEF IInv

LEMMA HandStopHolds == ASSUME IInv, NEW r \in Runs, HandStop(r) PROVE IInv'
<1>1. /\ UNCHANGED <<ledger, cancelled, stash, drained, count>>
      /\ UNCHANGED <<text, photos, probing, setup, lastEnded>>
      /\ handler[r] = "killing" /\ handler' = [handler EXCEPT ![r] = "done"] /\ queue' = <<>>
  BY DEF HandStop
<1>2. /\ native \in [Runs -> Turns] /\ handler \in [Runs -> {"none", "closing", "failing", "killing", "done", "failed"}]
  BY DEF IInv, RestOK
<1>3. native[r] = "none"
  BY <1>1, <1>2 DEF IInv, Stages
<1>4. /\ native' \in [Runs -> Turns] /\ native'[r] = "running"
      /\ \A t \in Runs \ {r} : /\ native[t] \in AtWork => native'[t] = "dying"
                               /\ native[t] \notin AtWork /\ native[t] # "queued"
                                    => native'[t] = native[t]
  <2> DEFINE g(t) == CASE t = r -> "running" [] native[t] \in AtWork -> "dying"
                       [] native[t] = "queued" -> "merged" [] OTHER -> native[t]
  <2>1. native' = [t \in Runs |-> g(t)]
    BY DEF HandStop
  <2>2. g(r) = "running"
    BY <1>3 DEF AtWork
  <2>3. ASSUME NEW t \in Runs \ {r}
        PROVE  /\ g(t) \in Turns
               /\ native[t] \in AtWork => g(t) = "dying"
               /\ native[t] \notin AtWork /\ native[t] # "queued" => g(t) = native[t]
    <3>1. native[t] \in Turns /\ t # r
      BY <1>2
    <3> QED BY <3>1 DEF AtWork, Turns
  <2> HIDE DEF g
  <2>4. "running" \in Turns /\ \A t \in Runs : t = r \/ t \in Runs \ {r}
    BY DEF Turns
  <2> QED BY <2>1, <2>2, <2>3, <2>4
<1>5. \A t \in Runs : native[t] = "done" => native'[t] = "done"
  BY <1>3, <1>4 DEF AtWork
<1>6. /\ Sound(World, Owing, count)' /\ Kept(World, {})' /\ Onward(World, World')
      /\ Tails' /\ Drains' /\ Cancels' /\ Sealed'
  BY <1>1, <1>5, LedgerStays
<1>7. rec' = rec
  BY <1>1 DEF ledger
<1>8. Stages'
  <2>1. \A x \in Runs : handler'[x] \in {"none", "closing"} <=> rec'[x].state = "none"
    BY <1>1, <1>2, <1>7 DEF IInv, Stages
  <2>2. \A x \in Runs : native'[x] # "none" => handler'[x] \in {"done", "failed"}
    BY <1>1, <1>2, <1>4 DEF IInv, Stages, AtWork
  <2>3. \A x \in Runs : count'[x] > 0 => native'[x] \in AtWork \cup {"done"}
    BY <1>1, <1>4 DEF IInv, Stages, AtWork
  <2>4. Once(queue') /\ ToSet(queue') = {}
    BY <1>1 DEF Once, ToSet
  <2> QED BY <2>1, <2>2, <2>3, <2>4 DEF Stages, AtWork
<1>9. RestOK'
  BY <1>1, <1>2, <1>4 DEF IInv, RestOK
<1> QED BY <1>6, <1>8, <1>9 DEF IInv

\* Activity counts for the active record, or activates the first pending one.
LEMMA HeadingIs ==
  ASSUME IInv, Heading # None
  PROVE  /\ Heading \in ToSet(fifo) /\ Heading \in Runs
         /\ \A x \in Runs : rec[x].state = "active" => x = Heading
<1>1. World \in Worlds /\ Order(World)
  BY DEF IInv, Sound
<1>2. \/ Active(World) = None /\ \A r \in Runs : World.rec[r].state # "active"
      \/ /\ Active(World) # None /\ Active(World) \in ToSet(World.fifo) /\ Active(World) \in Runs
         /\ \A r \in Runs : World.rec[r].state = "active" <=> r = Active(World)
  BY <1>1, ActiveIs
<1>3. \/ Pending(World) = None /\ \A r \in Runs : World.rec[r].state # "pending"
      \/ /\ Pending(World) # None /\ Pending(World) \in ToSet(World.fifo) /\ Pending(World) \in Runs
         /\ World.rec[Pending(World)].state = "pending"
  BY <1>1, PendingIs
<1> QED BY <1>2, <1>3, WorldIs DEF Heading

LEMMA ActivateHead ==
  ASSUME IInv, Heading # None
  PROVE  LET a == Activate(World, Heading) IN
         /\ Sound(a, Owing, count) /\ Kept(a, {}) /\ Closes(World, a) /\ a.fifo = fifo
         /\ a.rec[Heading].state = "active"
<1> DEFINE h == Heading
           a == Activate(World, h)
<1>1. h \in ToSet(World.fifo) /\ h \in Runs /\ \A x \in Runs : World.rec[x].state = "active" => x = h
  BY HeadingIs, WorldIs
<1> HIDE DEF h
<1>2. Sound(a, Owing, count)
  BY <1>1, ActivateKeeps DEF IInv
<1>3. World \in Worlds /\ Kept(World, {}) /\ Order(World)
  BY DEF IInv, Sound
<1>4. /\ a \in Worlds /\ a.fifo = World.fifo /\ a.marks = World.marks /\ a.out = World.out
      /\ SameRecs(a, World)
      /\ \A x \in Runs : /\ x = h => a.rec[x].state = "active"
                         /\ x # h => a.rec[x] = World.rec[x]
  BY <1>1, <1>3, ActivateIs
<1> HIDE DEF a
<1>5. Closes(World, a)
  BY <1>1, <1>3, <1>4 DEF Closes, Onward, Order
<1>6. Kept(a, {})
  BY <1>3, <1>5, KeptStays DEF Closes, SameRecs
<1> QED BY <1>1, <1>2, <1>4, <1>5, <1>6, WorldIs DEF h, a

LEMMA TailHas ==
  ASSUME NEW q \in Seq(Runs), q # <<>>, Once(q)
  PROVE  /\ Tail(q) \in Seq(Runs) /\ Once(Tail(q)) /\ q[1] \in ToSet(q)
         /\ \A x \in ToSet(Tail(q)) : x \in ToSet(q) /\ x # q[1]
<1> DEFINE v == Tail(q)
<1>1. /\ v \in Seq(Runs) /\ DOMAIN v = 1 .. (Len(q) - 1) /\ DOMAIN q = 1 .. Len(q) /\ Len(q) \in Nat
      /\ 1 \in DOMAIN q /\ \A i \in DOMAIN v : v[i] = q[i + 1]
  OBVIOUS
<1> HIDE DEF v
<1>2. \A i \in DOMAIN v : i + 1 \in DOMAIN q /\ i + 1 # 1 /\ i \in Nat
  BY <1>1
<1>3. Once(v)
  BY <1>1, <1>2 DEF Once
<1>4. \A i \in DOMAIN v : v[i] \in ToSet(q) /\ v[i] # q[1]
  BY <1>1, <1>2 DEF Once, ToSet
<1>5. \A x \in ToSet(v) : x \in ToSet(q) /\ x # q[1]
  BY <1>4 DEF ToSet
<1>6. q[1] \in ToSet(q)
  BY <1>1 DEF ToSet
<1> QED BY <1>1, <1>3, <1>5, <1>6 DEF v

\* The next turn of the queue starts when one ends.
LEMMA LeavesIs ==
  ASSUME Stages, RestOK, NEW t \in Runs, native[t] \in AtWork, Leaves(t)
  PROVE  /\ native' \in [Runs -> Turns] /\ queue' \in Seq(Runs) /\ Once(queue')
         /\ \A x \in ToSet(queue') : native'[x] = "queued"
         /\ \A x \in Runs : native[x] = "done" => native'[x] = "done"
         /\ \A x \in Runs : native'[x] # "none" => native[x] # "none"
         /\ \A x \in Runs : native[x] \in AtWork \cup {"done"} => native'[x] \in AtWork \cup {"done"}
<1> DEFINE starts == native[t] # "dying" /\ queue # <<>>
           g(x) == CASE x = t -> "done" [] x # t /\ native[t] # "dying" /\ queue # <<>> /\ x = queue[1] -> "running"
                     [] OTHER -> native[x]
<1>1. native \in [Runs -> Turns] /\ queue \in Seq(Runs) /\ Once(queue)
      /\ \A x \in ToSet(queue) : native[x] = "queued"
  BY DEF RestOK, Stages
<1>2. native' = [x \in Runs |-> g(x)] /\ queue' = IF starts THEN Tail(queue) ELSE queue
  BY DEF Leaves
<1>3. \A x \in Runs : /\ x = t => g(x) = "done"
                      /\ x # t /\ starts /\ x = queue[1] => g(x) = "running"
                      /\ x # t /\ ~(starts /\ x = queue[1]) => g(x) = native[x]
  OBVIOUS
<1>4. queue # <<>> => native[queue[1]] = "queued"
  BY <1>1, TailHas
<1>5. \A x \in Runs : native[x] \in Turns
  BY <1>1
<1> HIDE DEF g, starts
<1>6. \A x \in Runs : g(x) \in Turns
  <2> SUFFICES ASSUME NEW x \in Runs PROVE g(x) \in Turns
    OBVIOUS
  <2>1. g(x) = "done" \/ g(x) = "running" \/ g(x) = native[x]
    BY <1>3
  <2> QED BY <1>5, <2>1 DEF Turns
<1>7. native' \in [Runs -> Turns] /\ \A x \in Runs : native'[x] = g(x)
  BY <1>2, <1>6
<1>8. /\ queue' \in Seq(Runs) /\ Once(queue')
      /\ \A x \in ToSet(queue') : x \in ToSet(queue) /\ (starts => x # queue[1])
  <2>1. CASE starts
    BY <1>1, <1>2, <2>1, TailHas DEF starts
  <2>2. CASE ~starts
    BY <1>1, <1>2, <2>2
  <2> QED BY <2>1, <2>2
<1>9. \A x \in ToSet(queue') : native'[x] = "queued"
  <2> SUFFICES ASSUME NEW x \in ToSet(queue') PROVE native'[x] = "queued"
    OBVIOUS
  <2>1. x \in Runs /\ native[x] = "queued" /\ x # t
    <3>1. ToSet(queue) \subseteq Runs
      BY <1>1 DEF ToSet
    <3> QED BY <1>1, <1>8, <3>1 DEF AtWork
  <2> QED BY <1>3, <1>7, <1>8, <2>1
<1>10. ASSUME NEW x \in Runs
       PROVE  /\ native[x] = "done" => native'[x] = "done"
              /\ native'[x] # "none" => native[x] # "none"
              /\ native[x] \in AtWork \cup {"done"} => native'[x] \in AtWork \cup {"done"}
  <2>1. CASE x = t
    BY <1>3, <1>7, <2>1 DEF AtWork
  <2>2. CASE x # t /\ starts /\ x = queue[1]
    BY <1>3, <1>4, <1>7, <2>2 DEF AtWork, starts
  <2>3. CASE x # t /\ ~(starts /\ x = queue[1])
    BY <1>3, <1>7, <2>3
  <2> QED BY <2>1, <2>2, <2>3
<1> QED BY <1>7, <1>8, <1>9, <1>10

LEMMA StagesMove ==
  ASSUME Stages, Onward(World, World'), UNCHANGED <<handler, count>>, Once(queue'),
         \A x \in ToSet(queue') : native'[x] = "queued",
         \A x \in Runs : native'[x] # "none" => native[x] # "none",
         \A x \in Runs : native[x] \in AtWork \cup {"done"} => native'[x] \in AtWork \cup {"done"}
  PROVE  Stages'
<1>1. \A x \in Runs : rec'[x].state = "none" <=> rec[x].state = "none"
  BY DEF Onward, World
<1> QED BY <1>1 DEF Stages, AtWork

LEMMA HookHolds == ASSUME IInv, NEW t \in Runs, Hook(t) PROVE IInv'
<1> DEFINE h == Heading
           a == Activate(World, h)
           v == Marked(a, h, FALSE)
<1>1. /\ Becomes(v) /\ h # None
      /\ UNCHANGED <<cancelled, stash, drained, count>>
      /\ UNCHANGED <<handler, native, queue, text, photos, probing, setup, lastEnded>>
  BY DEF Hook, hermes, Marked
<1>2. Sound(a, Owing, count) /\ Kept(a, {}) /\ Closes(World, a) /\ h \in Runs
  BY <1>1, ActivateHead, HeadingIs
<1> HIDE DEF h, a
<1>3. Sound(v, Owing, count) /\ Kept(v, {}) /\ Closes(a, v)
  BY <1>2, MarkedKeeps
<1> HIDE DEF v
<1>4. Closes(World, v)
  BY <1>2, <1>3, ClosesOn
<1>5. Moves(World, v)
  BY <1>4, ClosesCommits, CommitsMoves
<1>6. \A x \in ToSet(v.fifo) : v.rec[x].msg = rec[x].msg /\ (rec[x].open => v.rec[x].open)
  BY <1>3, <1>4, InFifo, WorldIs DEF Sound, Closes, SameRecs, SameMessage
<1>7. /\ Sound(World, Owing, count)' /\ Kept(World, {})' /\ Onward(World, World')
      /\ Tails' /\ Drains' /\ Cancels' /\ Sealed'
  BY <1>1, <1>3, <1>5, <1>6, StepKeeps
<1>8. Stages'
  BY <1>1, <1>7, StagesStay DEF IInv
<1>9. RestOK'
  BY <1>1 DEF IInv, RestOK
<1> QED BY <1>7, <1>8, <1>9 DEF IInv

LEMMA RefuseHolds == ASSUME IInv, NEW t \in Runs, Refuse(t) PROVE IInv'
<1> DEFINE h == Heading
           a == Activate(World, h)
           v == Refuses(a, h)
<1>1. /\ UNCHANGED <<cancelled, stash, drained, count>>
      /\ UNCHANGED <<handler, queue, text, photos, probing, setup, lastEnded>>
      /\ native[t] = "running" /\ native' = [native EXCEPT ![t] = "refused"]
  BY DEF Refuse
<1>2. native \in [Runs -> Turns] /\ Once(queue) /\ \A x \in ToSet(queue) : native[x] = "queued"
  BY DEF IInv, RestOK, Stages
<1>3. UNCHANGED ledger \/ (h # None /\ Becomes(a)) \/ (h # None /\ Becomes(v))
  BY DEF Refuse, Refuses
<1>4. ASSUME h # None
      PROVE  /\ Sound(a, Owing, count) /\ Kept(a, {}) /\ Closes(World, a) /\ h \in Runs
             /\ a.rec[h].state = "active"
  BY <1>4, ActivateHead, HeadingIs
<1> HIDE DEF h, a
<1>5. ASSUME h # None
      PROVE  /\ Sound(v, Owing, count) /\ Kept(v, {}) /\ SameRecs(v, a) /\ SameState(v, a)
             /\ v.fifo = a.fifo
  BY <1>4, <1>5, RefusesKeeps
<1> HIDE DEF v
<1>6. /\ Sound(World, Owing, count)' /\ Kept(World, {})' /\ Onward(World, World')
      /\ Tails' /\ Drains' /\ Cancels' /\ Sealed'
  <2>1. \A x \in Runs : native[x] = "done" => native'[x] = "done"
    BY <1>1, <1>2
  <2>2. CASE UNCHANGED ledger
    BY <1>1, <2>1, <2>2, LedgerStays
  <2>3. ASSUME NEW u, Becomes(u), h # None, Sound(u, Owing, count), Kept(u, {}),
               SameRecs(u, a), SameState(u, a), u.fifo = a.fifo
        PROVE  /\ Sound(World, Owing, count)' /\ Kept(World, {})' /\ Onward(World, World')
               /\ Tails' /\ Drains' /\ Cancels' /\ Sealed'
    <3>1. Closes(World, a) /\ ToSet(u.fifo) \subseteq Runs
      BY <1>4, <2>3, InFifo DEF Sound
    <3>2. Moves(World, u)
      BY <2>3, <3>1 DEF Moves, Closes, SameRecs, SameRiders, SameKind, SameMessage, SameState, Onward
    <3>3. \A x \in ToSet(u.fifo) : u.rec[x].msg = rec[x].msg /\ (rec[x].open => u.rec[x].open)
      BY <2>3, <3>1, WorldIs DEF Closes, SameRecs, SameMessage
    <3> QED BY <1>1, <2>1, <2>3, <3>2, <3>3, StepKeeps
  <2>4. SameRecs(a, a) /\ SameState(a, a)
    BY DEF SameRecs, SameRiders, SameKind, SameMessage, SameState
  <2> QED BY <1>3, <1>4, <1>5, <2>2, <2>3, <2>4
<1>7. Stages'
  <2>1. /\ \A x \in ToSet(queue') : native'[x] = "queued"
        /\ \A x \in Runs : native'[x] # "none" => native[x] # "none"
        /\ \A x \in Runs : native[x] \in AtWork \cup {"done"} => native'[x] \in AtWork \cup {"done"}
    BY <1>1, <1>2 DEF AtWork
  <2> QED BY <1>1, <1>2, <1>6, <2>1, StagesMove DEF IInv
<1>8. RestOK'
  BY <1>1, <1>2 DEF IInv, RestOK, Turns
<1> QED BY <1>6, <1>7, <1>8 DEF IInv

LEMMA SweepHolds == ASSUME IInv, Sweep PROVE IInv'
<1> DEFINE h == Active(World)
           p == Pending(World)
           q(x) == Terminal(PopOnly(World, x), Group(World, x), FALSE)
           f(x) == Terminal(Pop(World, x), Group(World, x), FALSE)
<1>1. /\ UNCHANGED <<cancelled, stash, drained, count>>
      /\ UNCHANGED <<handler, native, queue, text, photos, probing, setup, lastEnded>>
  BY DEF Sweep, hermes
<1>2. (h # None /\ (Becomes(q(h)) \/ Becomes(f(h)))) \/ (p # None /\ Becomes(q(p)))
  BY DEF Sweep, Sweeps
<1>3. World \in Worlds /\ Order(World) /\ Sound(World, Owing, count) /\ Kept(World, {})
  BY DEF IInv, Sound
<1>4. h # None => h \in ToSet(World.fifo) /\ h \in Runs /\ World.rec[h].state = "active"
  BY <1>3, ActiveIs
<1>5. p # None => p \in ToSet(World.fifo)
  BY <1>3, PendingIs
<1> HIDE DEF h, p, f, q
<1>6. PICK v : Becomes(v) /\ Sound(v, Owing, count) /\ Kept(v, {}) /\ Closes(World, v)
  <2>1. ASSUME NEW x \in ToSet(World.fifo)
        PROVE  Sound(q(x), Owing, count) /\ Kept(q(x), {}) /\ Closes(World, q(x))
    BY <1>3, PopOnlyEnds DEF q
  <2>2. ASSUME NEW x \in Runs, World.rec[x].state = "active"
        PROVE  Sound(f(x), Owing, count) /\ Kept(f(x), {}) /\ Closes(World, f(x))
    BY <1>3, <2>2, PopEnds DEF f
  <2> QED BY <1>2, <1>4, <1>5, <2>1, <2>2
<1>7. Moves(World, v)
  BY <1>6, ClosesCommits, CommitsMoves
<1>8. \A x \in ToSet(v.fifo) : v.rec[x].msg = rec[x].msg /\ (rec[x].open => v.rec[x].open)
  BY <1>6, InFifo, WorldIs DEF Sound, Closes, SameRecs, SameMessage
<1>9. /\ Sound(World, Owing, count)' /\ Kept(World, {})' /\ Onward(World, World')
      /\ Tails' /\ Drains' /\ Cancels' /\ Sealed'
  BY <1>1, <1>6, <1>7, <1>8, StepKeeps
<1>10. Stages'
  BY <1>1, <1>9, StagesStay DEF IInv
<1>11. RestOK'
  BY <1>1 DEF IInv, RestOK
<1> QED BY <1>9, <1>10, <1>11 DEF IInv

LEMMA OwingHas ==
  /\ \A x : x \in Owing <=> (\E c \in stash : x \in Group(World, c[1])) \/ \E r \in Runs : x \in drained[r]
  /\ \A x : x \in Owing' <=> \/ \E c \in stash' : x \in Group(World, c[1])'
                             \/ \E r \in Runs : x \in drained'[r]
BY DEF Owing

\* A deferred closing that is done, or dropped, is no longer owed.
LEMMA OwingLess ==
  ASSUME IInv, NEW c \in stash, stash' = stash \ {c}, UNCHANGED drained, SameRiders(World', World)
  PROVE  Owing' \subseteq Owing \ Group(World, c[1])
<1> DEFINE g == Group(World, c[1])
<1>1. World \in Worlds /\ Riding(World) /\ World.rec = rec
  BY WorldIs DEF IInv, Sound
<1>2. c[1] \in Runs /\ rec[c[1]].state = "gone" /\ Waiting(c[1]) /\ \A d \in stash : d[1] \in Runs
  BY DEF IInv, RestOK, Tails, Waiting
<1>3. \A x \in g : x = c[1] \/ rec[x].state = "rider"
  BY <1>1, <1>2, GroupIs
<1>4. ASSUME NEW d \in stash'
      PROVE  Group(World, d[1])' \subseteq Owing \ g
  <2>1. d \in stash /\ d[1] # c[1] /\ d[1] \in Runs /\ rec[d[1]].state = "gone"
    BY <1>2, <1>4 DEF IInv, Tails
  <2>2. Group(World, d[1]) \cap g = {}
    BY <1>1, <1>2, <2>1, GroupIs
  <2>3. Group(World, d[1])' = Group(World, d[1])
    BY <2>1 DEF SameRiders, Group
  <2>4. Group(World, d[1]) \subseteq Owing
    BY <2>1 DEF Owing
  <2> QED BY <2>2, <2>3, <2>4
<1>5. ASSUME NEW r \in Runs
      PROVE  drained[r] \subseteq Owing \ g
  <2>1. drained[r] \subseteq Owing
    BY OwingHas
  <2>2. \A x \in drained[r] : rec[x].state = "gone" /\ ~Waiting(x)
    BY DEF IInv, Drains
  <2> QED BY <1>2, <1>3, <2>1, <2>2
<1> HIDE DEF g
<1>6. \A x \in Owing' : \/ \E d \in stash' : x \in Group(World, d[1])'
                        \/ \E r \in Runs : x \in drained'[r]
  BY OwingHas
<1>7. \A x \in Owing' : x \in Owing \ g
  BY <1>4, <1>5, <1>6
<1> QED BY <1>7 DEF g

LEMMA CloseStep ==
  ASSUME IInv, NEW c \in stash, stash' = stash \ {c}, NEW v, Becomes(v),
         v = World \/ (v = CloseTail(World, c[1], c[2]) /\ c[1] \notin cancelled),
         UNCHANGED <<cancelled, drained, count, native>>,
         \A t \in Runs : text'[t] = "open" => text[t] = "open"
  PROVE  /\ Sound(World, Owing, count)' /\ Kept(World, {})' /\ Onward(World, World')
         /\ Tails' /\ Drains' /\ Cancels' /\ Sealed'
<1> DEFINE r == c[1]
           g == Group(World, r)
<1>1. /\ World \in Worlds /\ Sound(World, Owing, count) /\ Kept(World, {}) /\ World.rec = rec
      /\ World.fifo = fifo /\ Order(World)
  BY WorldIs DEF IInv, Sound
<1>2. r \in Runs /\ c[2] \in BOOLEAN /\ rec[r].state = "gone"
  BY DEF IInv, RestOK, Tails
<1>3. g \subseteq Owing /\ r \notin ToSet(fifo)
  BY <1>1, <1>2 DEF Owing, Order
<1> HIDE DEF g
<1>4. /\ Sound(v, Owing \ g, count) \/ (v = World)
      /\ Sound(v, Owing, count) \/ Sound(v, Owing \ g, count)
      /\ Kept(v, {}) /\ Commits(World, v)
      /\ \A x \in Runs \ {r} : World.rec[x].open => v.rec[x].open
  <2>1. CASE v = World
    BY <1>1, <2>1, ClosesNot, ClosesCommits
  <2>2. CASE v = CloseTail(World, r, c[2]) /\ r \notin cancelled
    <3>1. /\ Sound(CloseTail(World, r, c[2]), Owing \ g, count) /\ Kept(CloseTail(World, r, c[2]), {})
          /\ Commits(World, CloseTail(World, r, c[2]))
          /\ \A x \in Runs \ {r} : World.rec[x].open => CloseTail(World, r, c[2]).rec[x].open
      BY <1>1, <1>2, <1>3, <2>2, CloseTailKeeps DEF g
    <3> QED BY <2>2, <3>1
  <2> QED BY <2>1, <2>2
<1>5. World' = v
  BY <1>1, <1>4, BecomesIs DEF Sound
<1>6. Moves(World, World') /\ Onward(World, World') /\ SameRiders(World', World)
      /\ Settled(World, World')
  BY <1>4, <1>5, CommitsMoves, MovesSettles DEF Moves
<1>7. Owing' \subseteq Owing \ g
  BY <1>6, OwingLess DEF g
<1>8. Sound(v, Owing', count)
  <2>1. Owing' \in SUBSET (Owing \ g) /\ Owing' \in SUBSET Owing
    BY <1>7
  <2> QED BY <1>4, <2>1, SoundLess
<1>9. Sound(World, Owing, count)' /\ Kept(World, {})'
  BY <1>4, <1>5, <1>8 DEF Kept
<1>10. Tails' /\ Drains'
  BY <1>6, TailsStay, DrainsStay DEF IInv
<1>11. Cancels'
  BY <1>1, <1>6, CancelsStay DEF IInv
<1>12. /\ ToSet(fifo') \subseteq ToSet(fifo)
       /\ \A x \in ToSet(fifo') : rec'[x].msg = rec[x].msg /\ (rec[x].open => rec'[x].open)
  <2>1. fifo' = v.fifo /\ rec' = v.rec /\ ToSet(v.fifo) \subseteq ToSet(fifo)
    BY <1>1, <1>4 DEF Becomes, Commits
  <2>2. ToSet(fifo) \subseteq Runs
    BY <1>1, InFifo
  <2> QED BY <1>1, <1>3, <1>4, <2>1, <2>2 DEF Commits
<1>13. Sealed'
  BY <1>1, <1>12, SealedStays DEF IInv
<1> QED BY <1>6, <1>9, <1>10, <1>11, <1>13

LEMMA FallbackHolds ==
  ASSUME IInv, NEW r \in Runs, NEW ok \in BOOLEAN, Fallback(r, ok)
  PROVE  IInv'
<1> DEFINE c == <<r, ok>>
           v == IF r \in cancelled THEN World ELSE CloseTail(World, r, ok)
<1>1. /\ c \in stash /\ stash' = stash \ {c} /\ Becomes(v)
      /\ UNCHANGED <<cancelled, drained, count, native>>
      /\ UNCHANGED <<handler, queue, text, photos, probing, setup, lastEnded>>
  BY DEF Fallback, hermes
<1>2. v = World \/ (v = CloseTail(World, c[1], c[2]) /\ c[1] \notin cancelled)
  OBVIOUS
<1> HIDE DEF c, v
<1>3. /\ Sound(World, Owing, count)' /\ Kept(World, {})' /\ Onward(World, World')
      /\ Tails' /\ Drains' /\ Cancels' /\ Sealed'
  BY <1>1, <1>2, CloseStep
<1>4. Stages'
  BY <1>1, <1>3, StagesStay DEF IInv
<1>5. RestOK'
  BY <1>1 DEF IInv, RestOK
<1> QED BY <1>3, <1>4, <1>5 DEF IInv

LEMMA EndPopHolds == ASSUME IInv, NEW t \in Runs, NEW ok \in BOOLEAN, EndPop(t, ok) PROVE IInv'
<1> DEFINE h == Active(World)
           g == Group(World, h)
           u == Pop(World, h)
           v == Terminal(CommitOpen(u, h), g, ok)
<1>1. /\ UNCHANGED <<cancelled, drained, count>>
      /\ UNCHANGED <<handler, queue, text, photos, setup>>
      /\ native' = [native EXCEPT ![t] = IF native[t] = "running" THEN "ended" ELSE native[t]]
      /\ probing' = probing \ {t}
  BY DEF EndPop
<1>2. \/ h = None /\ UNCHANGED <<ledger, stash, lastEnded>>
      \/ h # None /\ rec[h].open /\ Becomes(u) /\ stash' = stash \cup {<<h, ok>>} /\ UNCHANGED lastEnded
      \/ h # None /\ Becomes(v) /\ UNCHANGED stash /\ lastEnded' = h
  BY DEF EndPop
<1>3. /\ World \in Worlds /\ Order(World) /\ Sound(World, Owing, count) /\ Kept(World, {})
      /\ World.rec = rec /\ World.fifo = fifo
  BY WorldIs DEF IInv, Sound
<1>4. h # None => h \in Runs /\ World.rec[h].state = "active"
  BY <1>3, ActiveIs
<1>5. h # None => h \notin cancelled
  BY <1>3, <1>4 DEF IInv, Cancels
<1> HIDE DEF h
<1>6. native \in [Runs -> Turns] /\ Once(queue) /\ \A x \in ToSet(queue) : native[x] = "queued"
  BY DEF IInv, RestOK, Stages
<1>7. /\ native' \in [Runs -> Turns]
      /\ \A x \in ToSet(queue') : native'[x] = "queued"
      /\ \A x \in Runs : native[x] = "done" => native'[x] = "done"
      /\ \A x \in Runs : native'[x] # "none" => native[x] # "none"
      /\ \A x \in Runs : native[x] \in AtWork \cup {"done"} => native'[x] \in AtWork \cup {"done"}
  BY <1>1, <1>6 DEF AtWork, Turns
<1>8. /\ Sound(World, Owing, count)' /\ Kept(World, {})' /\ Onward(World, World')
      /\ Tails' /\ Drains' /\ Cancels' /\ Sealed'
  <2>1. CASE UNCHANGED <<ledger, stash>>
    BY <1>1, <1>7, <2>1, LedgerStays
  <2>2. CASE h # None /\ rec[h].open /\ Becomes(u) /\ stash' = stash \cup {<<h, ok>>}
    <3>1. /\ Sound(u, Owing \cup g, count) /\ Kept(u, {}) /\ Closes(World, u)
          /\ u.rec[h].state = "gone" /\ ToSet(u.fifo) \subseteq ToSet(fifo)
      BY <1>3, <1>4, <2>2, PopLeaves DEF Closes
    <3> HIDE DEF u, g
    <3>2. World' = u /\ rec' = u.rec /\ fifo' = u.fifo
      BY <2>2, <3>1, BecomesIs DEF Sound, Becomes
    <3>3. Moves(World, World') /\ Onward(World, World') /\ SameRiders(World', World)
          /\ Settled(World, World')
      BY <3>1, <3>2, ClosesCommits, CommitsMoves, MovesSettles DEF Moves
    <3>4. Owing' = Owing \cup g
      <4>1. \A c \in stash : c[1] \in Runs
        BY DEF IInv, RestOK
      <4>2. \A x \in Runs : Group(World', x) = Group(World, x)
        BY <3>3 DEF SameRiders, Group
      <4>3. \A x : (\E c \in stash' : x \in Group(World, c[1])')
                     <=> (\E c \in stash : x \in Group(World, c[1])) \/ x \in g
        <5>1. \A c \in stash : Group(World', c[1]) = Group(World, c[1])
          BY <4>1, <4>2
        <5>2. Group(World', h) = g
          BY <1>4, <2>2, <4>2 DEF g
        <5>3. \A c \in stash' : c \in stash \/ c[1] = h
          BY <2>2
        <5>4. <<h, ok>> \in stash' /\ <<h, ok>>[1] = h /\ \A c \in stash : c \in stash'
          BY <2>2
        <5>5. \A x : (\E c \in stash' : x \in Group(World', c[1]))
                       <=> (\E c \in stash : x \in Group(World, c[1])) \/ x \in g
          BY <5>1, <5>2, <5>3, <5>4
        <5> QED BY <5>5
      <4>4. \A x : x \in Owing' <=> x \in Owing \/ x \in g
        BY <1>1, <4>3, OwingHas
      <4> QED BY <4>4
    <3>5. Sound(World, Owing, count)' /\ Kept(World, {})'
      BY <1>1, <3>1, <3>2, <3>4 DEF Kept
    <3>6. Tails'
      BY <1>3, <1>4, <2>2, <3>1, <3>2, <3>3, TailsStay DEF IInv
    <3>7. \A c \in stash' : c \in stash \/ rec[c[1]].state = "active"
      BY <1>3, <1>4, <2>2
    <3>8. Drains' /\ Cancels'
      BY <1>1, <1>3, <1>7, <3>3, <3>7, DrainsStay, CancelsStay DEF IInv
    <3>9. \A x \in ToSet(fifo') : rec'[x].msg = rec[x].msg /\ (rec[x].open => rec'[x].open)
      BY <1>3, <3>1, <3>2, InFifo DEF Sound, Closes, SameRecs, SameMessage
    <3>10. Sealed'
      BY <1>1, <1>3, <3>1, <3>2, <3>9, SealedStays DEF IInv
    <3> QED BY <3>3, <3>5, <3>6, <3>8, <3>10
  <2>3. CASE h # None /\ Becomes(v) /\ UNCHANGED stash
    <3>1. /\ Sound(v, Owing, count) /\ Kept(v, {}) /\ Commits(World, v)
          /\ \A x \in Runs \ {h} : World.rec[x].open => v.rec[x].open
      BY <1>3, <1>4, <1>5, <2>3, PopClosesTail
    <3>2. h \notin ToSet(v.fifo)
      BY <1>3, <1>4, <1>5, <2>3, PopClosesTail
    <3> HIDE DEF v
    <3>3. Moves(World, v)
      BY <3>1, CommitsMoves
    <3>4. \A x \in ToSet(v.fifo) : v.rec[x].msg = rec[x].msg /\ (rec[x].open => v.rec[x].open)
      <4>1. ToSet(v.fifo) \subseteq Runs
        BY <3>1, InFifo DEF Sound
      <4> QED BY <1>3, <3>1, <3>2, <4>1 DEF Commits
    <3> QED BY <1>1, <1>7, <2>3, <3>1, <3>3, <3>4, StepKeeps
  <2> QED BY <1>2, <2>1, <2>2, <2>3
<1>9. Stages'
  BY <1>1, <1>6, <1>7, <1>8, StagesMove DEF IInv
<1>10. RestOK'
  <2>1. stash' \subseteq Runs \X BOOLEAN /\ lastEnded' \in Runs \cup {None}
    BY <1>2, <1>4 DEF IInv, RestOK
  <2> QED BY <1>1, <1>7, <2>1 DEF IInv, RestOK
<1> QED BY <1>8, <1>9, <1>10 DEF IInv

LEMMA CompleteHolds == ASSUME IInv, NEW t \in Runs, NEW ok \in BOOLEAN, Complete(t, ok) PROVE IInv'
<1> DEFINE h == Active(World)
           v == Terminal(CommitOpen(Pop(World, h), h), Group(World, h), ok)
<1>1. /\ UNCHANGED <<cancelled, stash, drained, count>>
      /\ UNCHANGED <<handler, text, photos, probing, setup, lastEnded>>
      /\ native[t] \in AtWork /\ Leaves(t)
  BY DEF Complete
<1>2. (h = t /\ Becomes(v)) \/ Becomes(World)
  BY DEF Complete, Owns
<1>3. /\ World \in Worlds /\ Order(World) /\ Sound(World, Owing, count) /\ Kept(World, {})
      /\ World.rec = rec /\ World.fifo = fifo
  BY WorldIs DEF IInv, Sound
<1>4. h = t => h \in Runs /\ World.rec[h].state = "active"
  BY <1>3, ActiveIs, NoneAssumption
<1>5. h = t => h \notin cancelled
  BY <1>3, <1>4 DEF IInv, Cancels
<1>6. /\ native' \in [Runs -> Turns] /\ queue' \in Seq(Runs) /\ Once(queue')
      /\ \A x \in ToSet(queue') : native'[x] = "queued"
      /\ \A x \in Runs : native[x] = "done" => native'[x] = "done"
      /\ \A x \in Runs : native'[x] # "none" => native[x] # "none"
      /\ \A x \in Runs : native[x] \in AtWork \cup {"done"} => native'[x] \in AtWork \cup {"done"}
  BY <1>1, LeavesIs DEF IInv
<1> HIDE DEF h
<1>7. /\ Sound(World, Owing, count)' /\ Kept(World, {})' /\ Onward(World, World')
      /\ Tails' /\ Drains' /\ Cancels' /\ Sealed'
  <2>1. CASE Becomes(World)
    <3>1. UNCHANGED ledger
      BY <2>1 DEF Becomes, World, ledger
    <3> QED BY <1>1, <1>6, <3>1, LedgerStays
  <2>2. CASE h = t /\ Becomes(v)
    <3>1. /\ Sound(v, Owing, count) /\ Kept(v, {}) /\ Commits(World, v) /\ h \notin ToSet(v.fifo)
          /\ \A x \in Runs \ {h} : World.rec[x].open => v.rec[x].open
      BY <1>3, <1>4, <1>5, <2>2, PopClosesTail
    <3> HIDE DEF v
    <3>2. Moves(World, v)
      BY <3>1, CommitsMoves
    <3>3. \A x \in ToSet(v.fifo) : v.rec[x].msg = rec[x].msg /\ (rec[x].open => v.rec[x].open)
      <4>1. ToSet(v.fifo) \subseteq Runs
        BY <3>1, InFifo DEF Sound
      <4> QED BY <1>3, <3>1, <4>1 DEF Commits
    <3> QED BY <1>1, <1>6, <2>2, <3>1, <3>2, <3>3, StepKeeps
  <2> QED BY <1>2, <2>1, <2>2
<1>8. Stages'
  BY <1>1, <1>6, <1>7, StagesMove DEF IInv
<1>9. RestOK'
  BY <1>1, <1>6 DEF IInv, RestOK
<1> QED BY <1>7, <1>8, <1>9 DEF IInv

LEMMA FinalizeHolds == ASSUME IInv, NEW t \in Runs, Finalize(t) PROVE IInv'
<1> DEFINE h == Active(World)
           m == Current(t)
           a == Marked(World, h, FALSE)
           v == Commit(a, m, h)
<1>1. /\ UNCHANGED <<cancelled, drained, count, native>>
      /\ UNCHANGED <<handler, queue, photos, probing, setup, lastEnded>>
      /\ text[t] = "open" /\ native[t] \in AtWork
      /\ \E s \in {"sealed", "failed"} : text' = [text EXCEPT ![t] = s]
  BY DEF Finalize
<1>2. \/ UNCHANGED <<ledger, stash>>
      \/ \E c \in stash : /\ t \notin cancelled /\ rec[c[1]].msg = m /\ stash' = stash \ {c}
                          /\ Becomes(CloseTail(World, c[1], c[2]))
      \/ h # None /\ rec[h].msg = m /\ Becomes(v) /\ UNCHANGED stash
  BY DEF Finalize, Marked
<1>3. /\ World \in Worlds /\ Order(World) /\ Sound(World, Owing, count) /\ Kept(World, {})
      /\ World.rec = rec /\ World.fifo = fifo
  BY WorldIs DEF IInv, Sound
<1>4. h # None => h \in Runs /\ h \in ToSet(fifo)
  BY <1>3, ActiveIs
<1>5. text \in [Runs -> {"none", "open", "sealed", "failed"}] /\ \A c \in stash : c[1] \in Runs
  BY DEF IInv, RestOK
<1>6. /\ text' \in [Runs -> {"none", "open", "sealed", "failed"}] /\ text'[t] # "open"
      /\ \A x \in Runs : text'[x] = "open" => text[x] = "open"
  BY <1>1, <1>5
<1>7. m = <<t, count[t]>> /\ m[1] = t /\ m[2] = count[t] /\ m # NoMessage
  BY NoneAssumption DEF Current, NoMessage
<1> HIDE DEF h, m
<1>8. /\ Sound(World, Owing, count)' /\ Kept(World, {})' /\ Onward(World, World')
      /\ Tails' /\ Drains' /\ Cancels' /\ Sealed'
  <2>1. CASE UNCHANGED <<ledger, stash>>
    BY <1>1, <1>6, <2>1, LedgerStays
  <2>2. ASSUME NEW c \in stash, t \notin cancelled, rec[c[1]].msg = m, stash' = stash \ {c},
               Becomes(CloseTail(World, c[1], c[2]))
        PROVE  /\ Sound(World, Owing, count)' /\ Kept(World, {})' /\ Onward(World, World')
               /\ Tails' /\ Drains' /\ Cancels' /\ Sealed'
    <3>1. c[1] \notin cancelled
      BY <1>1, <1>7, <2>2 DEF IInv, Cancels, AtWork
    <3> QED BY <1>1, <1>6, <2>2, <3>1, CloseStep
  <2>3. CASE h # None /\ rec[h].msg = m /\ Becomes(v) /\ UNCHANGED stash
    <3>1. /\ Sound(a, Owing, count) /\ Kept(a, {}) /\ Closes(World, a)
          /\ a.fifo = fifo /\ a.out = World.out
      BY <1>3, <1>4, <2>3, MarkedKeeps
    <3> HIDE DEF a
    <3>2. rec[h].open /\ m \in Messages
      <4>1. rec[h].open
        BY <1>1, <1>4, <1>7, <2>3 DEF IInv, Sealed
      <4>2. rec[h].msg \in Messages \cup {NoMessage}
        BY <1>3, <1>4, <2>3, InFifo DEF Recs
      <4> QED BY <1>7, <2>3, <4>1, <4>2
    <3>3. /\ a.out.commits[m] = <<>> /\ m[2] <= count[m[1]]
          /\ \A x \in Runs : x # h => a.rec[x].msg # m
      <4>1. /\ World.out.commits[m] = <<>> /\ m[2] <= count[m[1]]
            /\ \A x \in Runs : x # h => World.rec[x].msg # m
        BY <1>3, <1>4, <1>7, <2>3, <3>2 DEF Sound, Texts
      <4> QED BY <3>1, <4>1 DEF Closes, SameRecs, SameMessage
    <3>4. Kept(a, {<<m, h>>})
      BY <3>1 DEF Kept
    <3>5. /\ Sound(v, Owing, count) /\ Commits(a, v) /\ Kept(v, {})
          /\ \A x \in Runs : v.rec[x].open = (a.rec[x].open /\ (x # h \/ a.rec[x].msg # m))
      BY <1>4, <2>3, <3>1, <3>2, <3>3, <3>4, CommitKeeps
    <3> HIDE DEF v
    <3>6. World' = v /\ rec' = v.rec /\ fifo' = v.fifo
      BY <2>3, <3>5, BecomesIs DEF Sound, Becomes
    <3>7. Commits(World, v)
      BY <3>1, <3>5, ClosesCommits, CommitsOn
    <3>8. Moves(World, World') /\ Onward(World, World') /\ SameRiders(World', World)
          /\ Settled(World, World')
      BY <3>6, <3>7, CommitsMoves, MovesSettles DEF Moves
    <3>9. Owing' = Owing
      BY <1>1, <2>3, <3>8, OwingStays DEF IInv
    <3>10. Sound(World, Owing, count)' /\ Kept(World, {})'
      BY <1>1, <3>5, <3>6, <3>9 DEF Kept
    <3>11. Tails' /\ Drains' /\ Cancels'
      BY <1>1, <1>3, <2>3, <3>8, TailsStay, DrainsStay, CancelsStay DEF IInv
    <3>12. Sealed'
      <4> SUFFICES ASSUME NEW x \in ToSet(fifo'), rec'[x].msg # NoMessage, ~rec'[x].open
                   PROVE  text'[rec'[x].msg[1]] # "open" \/ count'[rec'[x].msg[1]] # rec'[x].msg[2]
        BY DEF Sealed
      <4>1. x \in ToSet(fifo) /\ x \in Runs /\ rec'[x].msg = rec[x].msg
        BY <1>3, <3>6, <3>7, InFifo DEF Commits
      <4>2. CASE rec[x].msg = m
        BY <1>6, <1>7, <4>1, <4>2
      <4>3. CASE rec[x].msg # m
        <5>1. ~rec[x].open
          BY <3>1, <3>5, <3>6, <4>1, <4>3, <1>3 DEF Closes, SameRecs, SameMessage
        <5>2. rec[x].msg \in Messages
          BY <1>3, <4>1, InFifo DEF Recs
        <5>3. rec[x].msg[1] \in Runs
          BY <5>2 DEF Messages
        <5>4. text[rec[x].msg[1]] # "open" \/ count[rec[x].msg[1]] # rec[x].msg[2]
          BY <4>1, <5>1 DEF IInv, Sealed
        <5> QED BY <1>1, <1>6, <4>1, <5>3, <5>4
      <4> QED BY <4>2, <4>3
    <3> QED BY <3>8, <3>10, <3>11, <3>12
  <2> QED BY <1>2, <2>1, <2>2, <2>3
<1>9. Stages'
  BY <1>1, <1>8, StagesStay DEF IInv
<1>10. RestOK'
  <2>1. stash' \subseteq stash
    BY <1>2
  <2> QED BY <1>1, <1>6, <2>1 DEF IInv, RestOK
<1> QED BY <1>8, <1>9, <1>10 DEF IInv

LEMMA FailsHolds == ASSUME IInv, NEW r \in Runs, Fails(r) PROVE IInv'
<1> DEFINE v == Discard(World, r)
<1>1. /\ UNCHANGED <<cancelled, stash, drained, count>>
      /\ UNCHANGED <<text, photos, probing, setup, lastEnded>>
      /\ handler' = [handler EXCEPT ![r] = "failed"] /\ Becomes(v)
  BY DEF Fails
<1>2. \/ handler[r] \in {"failing", "killing"} /\ UNCHANGED <<native, queue>>
      \/ native[r] = "running" /\ Leaves(r)
  BY DEF Fails
<1>3. /\ World \in Worlds /\ Order(World) /\ Sound(World, Owing, count) /\ Kept(World, {})
      /\ World.rec = rec /\ World.fifo = fifo
  BY WorldIs DEF IInv, Sound
<1>4. /\ handler \in [Runs -> {"none", "closing", "failing", "killing", "done", "failed"}]
      /\ handler[r] \notin {"none", "closing"}
  <2>1. native[r] = "running" => handler[r] \in {"done", "failed"}
    BY DEF IInv, Stages
  <2> QED BY <1>2, <2>1 DEF IInv, RestOK
<1>5. Sound(v, Owing, count) /\ Kept(v, {}) /\ Discards(World, v)
  BY <1>3, DiscardKeeps
<1> HIDE DEF v
<1>6. World' = v /\ rec' = v.rec /\ fifo' = v.fifo
  BY <1>1, <1>5, BecomesIs DEF Sound, Becomes
<1>7. Onward(World, World') /\ Settled(World, World')
  BY <1>5, <1>6 DEF Discards, Onward, Settled, SameMessage
<1>8. /\ native' \in [Runs -> Turns] /\ queue' \in Seq(Runs) /\ Once(queue')
      /\ \A x \in ToSet(queue') : native'[x] = "queued"
      /\ \A x \in Runs : native[x] = "done" => native'[x] = "done"
      /\ \A x \in Runs : native'[x] # "none" => native[x] # "none"
      /\ \A x \in Runs : native[x] \in AtWork \cup {"done"} => native'[x] \in AtWork \cup {"done"}
  <2>1. CASE UNCHANGED <<native, queue>>
    BY <2>1 DEF IInv, RestOK, Stages
  <2>2. CASE native[r] = "running" /\ Leaves(r)
    BY <2>2, LeavesIs DEF IInv, AtWork
  <2> QED BY <1>2, <2>1, <2>2
<1>9. Owing' = Owing
  <2>1. ASSUME NEW c \in stash PROVE Group(World', c[1]) = Group(World, c[1])
    <3>1. c[1] \in Runs /\ rec[c[1]].state = "gone"
      BY DEF IInv, RestOK, Tails
    <3>2. c[1] \notin ToSet(World.fifo)
      BY <1>3, <3>1 DEF Order
    <3> QED BY <1>5, <1>6, <3>1, <3>2 DEF Discards, Group
  <2>2. \A c \in stash : Group(World, c[1])' = Group(World, c[1])
    BY <2>1
  <2>3. \A x : x \in Owing' <=> x \in Owing
    BY <1>1, <2>2, OwingHas
  <2> QED BY <2>3
<1>10. Sound(World, Owing, count)' /\ Kept(World, {})'
  BY <1>1, <1>5, <1>6, <1>9 DEF Kept
<1>11. Tails' /\ Drains' /\ Cancels'
  BY <1>1, <1>3, <1>7, <1>8, TailsStay, DrainsStay, CancelsStay DEF IInv
<1>12. Sealed'
  <2>1. ToSet(fifo') \subseteq ToSet(fifo) /\ ToSet(fifo) \subseteq Runs
    BY <1>3, <1>5, <1>6, InFifo DEF Discards
  <2>2. \A x \in ToSet(fifo') : rec'[x].msg = rec[x].msg /\ (rec[x].open => rec'[x].open)
    BY <1>3, <1>5, <1>6, <2>1 DEF Discards, SameMessage
  <2> QED BY <1>1, <1>3, <2>1, <2>2, SealedStays DEF IInv
<1>13. Stages'
  <2>1. \A x \in Runs : rec'[x].state = "none" <=> rec[x].state = "none"
    BY <1>3, <1>6, <1>7 DEF Onward
  <2>2. \A x \in Runs : handler'[x] \in {"none", "closing"} <=> rec'[x].state = "none"
    BY <1>1, <1>4, <2>1 DEF IInv, Stages
  <2>3. \A x \in Runs : native'[x] # "none" => handler'[x] \in {"done", "failed"}
    BY <1>1, <1>4, <1>8 DEF IInv, Stages
  <2>4. \A x \in Runs : count'[x] > 0 => native'[x] \in AtWork \cup {"done"}
    BY <1>1, <1>8 DEF IInv, Stages
  <2> QED BY <1>8, <2>2, <2>3, <2>4 DEF Stages, AtWork
<1>14. RestOK'
  BY <1>1, <1>4, <1>8 DEF IInv, RestOK
<1> QED BY <1>10, <1>11, <1>12, <1>13, <1>14 DEF IInv

\* What a send does to the records: it opens m under one of them, or it changes no message.
Shows(w, v, n) ==
  /\ Sound(v, Owing, n) /\ Kept(v, {}) /\ Moves(w, v)
  /\ \A x \in Runs : v.rec[x].open \/ (v.rec[x].msg = w.rec[x].msg /\ ~w.rec[x].open)

LEMMA SendShows ==
  ASSUME IInv, NEW t \in Runs, NEW m, NEW n \in [Runs -> Nat], NEW v,
         Sound(World, Owing, n), Fresh(World, m, n),
         LET r == Heading IN
         \/ HeadsSlash(r) /\ v = SlashReply(World, m, r)
         \/ ~HeadsSlash(r) /\ r # None /\ v = Opens(World, m, r)
         \/ v = Adds(World, m, None)
         \/ lastEnded # None /\ v = Commit(World, m, lastEnded)
  PROVE  Shows(World, v, n)
<1> DEFINE r == Heading
<1>1. /\ World \in Worlds /\ Order(World) /\ Kept(World, {}) /\ World.rec = rec /\ World.fifo = fifo
  BY WorldIs DEF IInv, Sound
<1>2. r # None => r \in ToSet(World.fifo) /\ r \in Runs /\ \A x \in Runs : World.rec[x].state = "active" => x = r
  BY <1>1, HeadingIs
<1>3. /\ m \in Messages /\ World.out.commits[m] = <<>> /\ m[2] <= n[m[1]]
      /\ \A x \in Runs : World.rec[x].msg # m
  BY DEF Fresh
<1>4. CASE HeadsSlash(r) /\ v = SlashReply(World, m, r)
  <2>1. r \in Runs /\ World.rec[r].state = "active" /\ World.rec[r].kind = "slash"
    BY <1>1, <1>2, <1>4, ActiveIs DEF HeadsSlash
  <2> HIDE DEF r
  <2>2. /\ Sound(SlashReply(World, m, r), Owing, n) /\ Kept(SlashReply(World, m, r), {})
        /\ Moves(World, SlashReply(World, m, r))
        /\ \A x \in Runs : /\ SlashReply(World, m, r).rec[x].msg = World.rec[x].msg
                           /\ SlashReply(World, m, r).rec[x].open = World.rec[x].open
    BY <1>1, <2>1, SlashReplyKeeps
  <2> QED BY <1>4, <2>2 DEF Shows
<1>5. CASE ~HeadsSlash(r) /\ r # None /\ v = Opens(World, m, r)
  <2> HIDE DEF r
  <2>1. /\ Sound(Opens(World, m, r), Owing, n) /\ Kept(Opens(World, m, r), {})
        /\ Moves(World, Opens(World, m, r)) /\ Opens(World, m, r).rec[r].open
        /\ \A x \in Runs \ {r} : /\ Opens(World, m, r).rec[x].msg = World.rec[x].msg
                                 /\ Opens(World, m, r).rec[x].open = World.rec[x].open
    BY <1>1, <1>2, <1>5, OpensKeeps
  <2> QED BY <1>5, <2>1 DEF Shows
<1>6. CASE v = Adds(World, m, None)
  <2>1. /\ Sound(Adds(World, m, None), Owing, n) /\ Commits(World, Adds(World, m, None))
        /\ Adds(World, m, None).rec = World.rec /\ Kept(Adds(World, m, None), {})
    BY <1>1, AddsKeeps
  <2>2. Moves(World, Adds(World, m, None))
    BY <2>1, CommitsMoves
  <2> QED BY <1>6, <2>1, <2>2 DEF Shows
<1>7. CASE lastEnded # None /\ v = Commit(World, m, lastEnded)
  <2>1. lastEnded \in Runs
    BY <1>7 DEF IInv, RestOK
  <2>2. Kept(World, {<<m, lastEnded>>})
    BY <1>1 DEF Kept
  <2>3. /\ Sound(v, Owing, n) /\ Commits(World, v) /\ Kept(v, {})
        /\ \A x \in Runs : v.rec[x].open = (World.rec[x].open /\ (x # lastEnded \/ World.rec[x].msg # m))
    BY <1>3, <1>7, <2>1, <2>2, CommitKeeps
  <2>4. Moves(World, v) /\ \A x \in Runs : v.rec[x].msg = World.rec[x].msg
    BY <2>3, CommitsMoves DEF Commits
  <2> QED BY <1>3, <2>3, <2>4 DEF Shows
<1> QED BY <1>4, <1>5, <1>6, <1>7

LEMMA SendFresh ==
  ASSUME IInv, NEW t \in Runs, count[t] < setup.messages, count' = [count EXCEPT ![t] = @ + 1]
  PROVE  /\ count' \in [Runs -> 0..MaxMessages] /\ count' \in [Runs -> Nat]
         /\ count'[t] = count[t] + 1 /\ count[t] \in Nat
         /\ \A x \in Runs : count[x] <= count'[x] /\ (x # t => count'[x] = count[x])
         /\ Following(t) \in Messages /\ Following(t) # NoMessage
         /\ Sound(World, Owing, count') /\ Fresh(World, Following(t), count')
<1> DEFINE m == Following(t)
<1>1. Sound(World, Owing, count)
  BY DEF IInv
<1>2. count \in [Runs -> 0..MaxMessages] /\ MaxMessages \in Nat /\ setup.messages \in 0..MaxMessages
  BY BoundAssumption, SetupsAssumption DEF IInv, RestOK
<1>3. /\ count \in [Runs -> Nat] /\ count' \in [Runs -> Nat] /\ count' \in [Runs -> 0..MaxMessages]
      /\ count'[t] = count[t] + 1 /\ count[t] + 1 \in 1..MaxMessages /\ count[t] \in Nat
      /\ \A x \in Runs : count[x] <= count'[x] /\ (x # t => count'[x] = count[x])
  <2>1. count[t] + 1 \in 1..MaxMessages
    BY <1>2
  <2> QED BY <1>2, <2>1
<1>4. Sound(World, Owing, count')
  BY <1>1, <1>3, SoundLater
<1>5. /\ m \in Messages /\ m[1] = t /\ m[2] = count[t] + 1 /\ m # NoMessage
  <2>1. <<t, count[t] + 1>> \in Runs \X (1..MaxMessages)
    BY <1>3
  <2> QED BY <2>1, NoneAssumption DEF Following, Messages, NoMessage
<1> HIDE DEF m
<1>6. Fresh(World, m, count')
  <2>1. ~(count[t] + 1 <= count[t]) /\ count[t] + 1 <= count'[t]
    BY <1>3
  <2>2. World.out.commits[m] = <<>>
    BY <1>1, <1>5, <2>1 DEF Sound, Texts
  <2>3. \A x \in Runs : World.rec[x].msg # m
    BY <1>1, <1>5, <2>1 DEF Sound, Texts
  <2> QED BY <1>5, <2>1, <2>2, <2>3 DEF Fresh
<1> QED BY <1>3, <1>4, <1>5, <1>6 DEF m

LEMMA SendHolds == ASSUME IInv, NEW t \in Runs, Send(t) PROVE IInv'
<1> DEFINE m == Following(t)
<1>1. /\ UNCHANGED <<cancelled, stash, drained, native>>
      /\ UNCHANGED <<handler, queue, photos, probing, setup>>
      /\ count[t] < setup.messages /\ native[t] \in AtWork
      /\ count' = [count EXCEPT ![t] = count[t] + 1]
      /\ text' = [text EXCEPT ![t] = IF native[t] = "ended" \/ rec[t].kind = "slash"
                                     THEN "sealed" ELSE "open"]
      /\ IF t \in cancelled THEN UNCHANGED <<ledger, lastEnded>> ELSE SendsUnder(t, m)
  BY DEF Send, AtWork
<1>2. /\ World \in Worlds /\ Order(World) /\ Sound(World, Owing, count) /\ Kept(World, {})
      /\ World.rec = rec /\ World.fifo = fifo
  BY WorldIs DEF IInv, Sound
<1>3. /\ text \in [Runs -> {"none", "open", "sealed", "failed"}] /\ native \in [Runs -> Turns]
      /\ lastEnded \in Runs \cup {None}
  BY DEF IInv, RestOK
<1>4. /\ count' \in [Runs -> 0..MaxMessages] /\ count' \in [Runs -> Nat]
      /\ count'[t] = count[t] + 1 /\ count[t] \in Nat
      /\ \A x \in Runs : count[x] <= count'[x] /\ (x # t => count'[x] = count[x])
      /\ Sound(World, Owing, count') /\ Fresh(World, m, count')
  BY <1>1, SendFresh
<1> HIDE DEF m
<1>5. PICK u : Becomes(u) /\ Shows(World, u, count')
  <2>1. CASE t \in cancelled
    <3>1. Becomes(World)
      BY <1>1, <2>1 DEF Becomes, World, ledger
    <3>2. Moves(World, World)
      BY ClosesNot, ClosesCommits, CommitsMoves
    <3>3. \A x \in Runs : World.rec[x].open \in BOOLEAN
      BY <1>2, InFifo DEF Recs
    <3>4. Shows(World, World, count')
      BY <1>2, <1>4, <3>2, <3>3 DEF Shows
    <3> QED BY <3>1, <3>4
  <2>2. CASE t \notin cancelled
    <3> DEFINE r == Heading
    <3>1. PICK v : /\ \E x \in Runs \cup {None} : Becomes(Stamp(v, t, x))
                   /\ \/ HeadsSlash(r) /\ v = SlashReply(World, m, r)
                      \/ ~HeadsSlash(r) /\ r # None /\ v = Opens(World, m, r)
                      \/ v = Adds(World, m, None)
                      \/ lastEnded # None /\ v = Commit(World, m, lastEnded)
      <4>1. SendsUnder(t, m)
        BY <1>1, <2>2
      <4>2. r = None \/ r \in Runs
        BY HeadingIs
      <4> HIDE DEF r
      <4>3. CASE HeadsSlash(r)
        BY <4>1, <4>2, <4>3 DEF SendsUnder, r
      <4>4. CASE ~HeadsSlash(r) /\ r # None
        BY <4>1, <4>2, <4>4 DEF SendsUnder, r
      <4>5. CASE ~HeadsSlash(r) /\ r = None /\ lastEnded = None
        BY <4>1, <4>2, <4>5 DEF SendsUnder, r, Uncorrelated, Adds
      <4>6. CASE ~HeadsSlash(r) /\ r = None /\ lastEnded # None
        BY <1>3, <4>1, <4>2, <4>6 DEF SendsUnder, r
      <4> QED BY <4>3, <4>4, <4>5, <4>6
    <3>2. Shows(World, v, count')
      BY <1>4, <1>4, <3>1, SendShows
    <3>3. When(t) \in Turns \cup {"expected"}
      BY <1>3 DEF When
    <3>4. PICK x \in Runs \cup {None} : Becomes(Stamp(v, t, x))
      BY <3>1
    <3> DEFINE u == Stamp(v, t, x)
    <3>5. Sound(u, Owing, count') /\ Closes(v, u) /\ u.rec = v.rec
      BY <3>2, <3>3, StampKeeps DEF Shows
    <3> HIDE DEF u
    <3>6. Kept(u, {})
      <4>1. v \in Worlds /\ Kept(v, {})
        BY <3>2 DEF Shows, Sound
      <4> QED BY <3>5, <4>1, KeptStays DEF Closes, SameRecs
    <3>7. Moves(World, u)
      BY <3>2, <3>5, ClosesCommits, CommitsMoves, MovesOn DEF Shows
    <3>8. Shows(World, u, count')
      BY <3>2, <3>5, <3>6, <3>7 DEF Shows
    <3> QED BY <3>4, <3>8 DEF u
  <2> QED BY <2>1, <2>2
<1>6. World' = u /\ rec' = u.rec /\ fifo' = u.fifo
  BY <1>5, BecomesIs DEF Sound, Becomes, Shows
<1>7. Moves(World, World') /\ Onward(World, World') /\ SameRiders(World', World)
       /\ Settled(World, World')
  BY <1>5, <1>6, MovesSettles DEF Moves, Shows
<1>8. Owing' = Owing
  BY <1>1, <1>7, OwingStays DEF IInv
<1>9. Sound(World, Owing, count)' /\ Kept(World, {})'
  BY <1>1, <1>5, <1>6, <1>8 DEF Kept, Shows
<1>10. Tails' /\ Drains' /\ Cancels'
  BY <1>1, <1>2, <1>7, TailsStay, DrainsStay, CancelsStay DEF IInv
<1>11. Sealed'
  <2> SUFFICES ASSUME NEW x \in ToSet(fifo'), rec'[x].msg # NoMessage, ~rec'[x].open
               PROVE  text'[rec'[x].msg[1]] # "open" \/ count'[rec'[x].msg[1]] # rec'[x].msg[2]
    BY DEF Sealed
  <2>1. x \in ToSet(fifo) /\ x \in Runs
    BY <1>2, <1>5, <1>6, InFifo DEF Shows, Moves
  <2>2. rec'[x].msg = rec[x].msg /\ ~rec[x].open
    BY <1>2, <1>5, <1>6, <2>1 DEF Shows
  <2>3. rec[x].msg \in Messages
    BY <1>2, <2>1, <2>2, InFifo DEF Recs
  <2>4. rec[x].msg[1] \in Runs /\ rec[x].msg[2] \in Nat
    BY <2>3 DEF Messages
  <2>5. CASE rec[x].msg[1] = t
    <3>1. rec[x].msg[2] <= count[t]
      BY <1>2, <2>1, <2>2, <2>5 DEF Sound, Texts
    <3>2. count'[t] # rec[x].msg[2]
      BY <1>4, <2>4, <3>1
    <3> QED BY <2>2, <2>5, <3>2
  <2>6. CASE rec[x].msg[1] # t
    <3>1. text[rec[x].msg[1]] # "open" \/ count[rec[x].msg[1]] # rec[x].msg[2]
      BY <2>1, <2>2 DEF IInv, Sealed
    <3>2. text'[rec[x].msg[1]] = text[rec[x].msg[1]] /\ count'[rec[x].msg[1]] = count[rec[x].msg[1]]
      BY <1>1, <1>3, <1>4, <2>4, <2>6
    <3> QED BY <2>2, <3>1, <3>2
  <2> QED BY <2>5, <2>6
<1>12. Stages'
  <2>1. \A x \in Runs : rec'[x].state = "none" <=> rec[x].state = "none"
    BY <1>2, <1>6, <1>7 DEF Onward
  <2>2. \A x \in Runs : count'[x] > 0 => native'[x] \in AtWork \cup {"done"}
    BY <1>1, <1>4 DEF IInv, Stages
  <2> QED BY <1>1, <2>1, <2>2 DEF IInv, Stages, AtWork
<1>13. RestOK'
  <2>1. lastEnded' \in Runs \cup {None}
    BY <1>1, <1>3 DEF SendsUnder
  <2>2. text' \in [Runs -> {"none", "open", "sealed", "failed"}]
    BY <1>1, <1>3
  <2> QED BY <1>1, <1>4, <2>1, <2>2 DEF IInv, RestOK
<1> QED BY <1>9, <1>10, <1>11, <1>12, <1>13 DEF IInv

LEMMA AcceptIs ==
  ASSUME IInv, NEW r \in Runs, NEW k, Accept(r, k)
  PROVE  /\ \/ \E where \in {"running", "merged", "queued"} : Lands(r, where)
            \/ handler' = [handler EXCEPT ![r] = "failing"] /\ UNCHANGED <<native, queue>>
         /\ photos' \subseteq Runs
<1>1. queue \in Seq(Runs) /\ photos \subseteq Runs
  BY DEF IInv, RestOK
<1>2. NativeMerges(k) => NativeSlot \in Runs
  <2>1. {i \in DOMAIN queue : rec[queue[i]].kind = "turn"} \in SUBSET DOMAIN queue
    OBVIOUS
  <2>2. NativeSlot = None \/ NativeSlot \in Runs
    BY <1>1, <2>1, FirstIs DEF NativeSlot
  <2> QED BY <2>2 DEF NativeMerges
<1>3. \A t \in Runs : Carries(t, k) => photos' \subseteq Runs
  BY <1>1 DEF Carries
<1>4. CASE Lands(r, "running") /\ Carries(r, k)
  BY <1>3, <1>4
<1>5. CASE NativeMerges(k) /\ Lands(r, "merged") /\ Carries(NativeSlot, k)
  BY <1>2, <1>3, <1>5
<1>6. CASE Lands(r, "queued") /\ Carries(r, k)
  BY <1>3, <1>6
<1>7. CASE Lands(r, "merged") /\ UNCHANGED photos
  BY <1>1, <1>7
<1>8. CASE handler' = [handler EXCEPT ![r] = "failing"] /\ UNCHANGED <<native, queue, photos>>
  BY <1>1, <1>8
<1> QED BY <1>4, <1>5, <1>6, <1>7, <1>8 DEF Accept

LEMMA BeginHolds == ASSUME IInv, NEW r \in Runs, NEW k, Begin(r, k) PROVE IInv'
<1> DEFINE v == BeginRecord(World, r, k)
<1>1. /\ UNCHANGED <<cancelled, stash, drained, count>>
      /\ UNCHANGED <<probing, text, setup>>
      /\ handler[r] = "none" /\ Becomes(v) /\ Accept(r, k) /\ lastEnded' = None
  BY DEF Begin, Free
<1>2. /\ World \in Worlds /\ Order(World) /\ Sound(World, Owing, count) /\ Kept(World, {})
      /\ World.rec = rec /\ World.fifo = fifo
  BY WorldIs DEF IInv, Sound
<1>3. /\ native \in [Runs -> Turns] /\ queue \in Seq(Runs)
      /\ handler \in [Runs -> {"none", "closing", "failing", "killing", "done", "failed"}]
  BY DEF IInv, RestOK
<1>4. /\ rec[r].state = "none" /\ native[r] = "none" /\ ~(count[r] > 0)
      /\ r \notin ToSet(queue) /\ r \notin ToSet(fifo)
  <2>1. rec[r].state = "none" /\ native[r] = "none"
    BY <1>1 DEF IInv, Stages
  <2> QED BY <1>2, <2>1 DEF IInv, Stages, AtWork, Order
<1>5. Sound(v, Owing, count) /\ Kept(v, {}) /\ Begins(World, v, r)
  BY <1>2, <1>4, BeginKeeps
<1> HIDE DEF v
<1>6. World' = v /\ rec' = v.rec /\ fifo' = v.fifo
  BY <1>1, <1>5, BecomesIs DEF Sound, Becomes
<1>7. Settled(World, World')
  BY <1>2, <1>4, <1>5, <1>6 DEF Begins, Settled
<1>8. Owing' = Owing
  <2>1. ASSUME NEW c \in stash PROVE Group(World', c[1]) = Group(World, c[1])
    <3>1. c[1] \in Runs /\ rec[c[1]].state = "gone" /\ c[1] # r
      BY <1>4 DEF IInv, RestOK, Tails
    <3>2. c[1] \notin ToSet(World.fifo)
      BY <1>2, <3>1 DEF Order
    <3> QED BY <1>5, <1>6, <3>1, <3>2 DEF Begins, Group
  <2>2. \A c \in stash : Group(World, c[1])' = Group(World, c[1])
    BY <2>1
  <2>3. \A x : x \in Owing' <=> x \in Owing
    BY <1>1, <2>2, OwingHas
  <2> QED BY <2>3
<1>9. Sound(World, Owing, count)' /\ Kept(World, {})'
  BY <1>1, <1>5, <1>6, <1>8 DEF Kept
<1>10. /\ \/ \E where \in {"running", "merged", "queued"} : Lands(r, where)
          \/ handler' = [handler EXCEPT ![r] = "failing"] /\ UNCHANGED <<native, queue>>
       /\ photos' \subseteq Runs
  BY <1>1, AcceptIs
<1>11. /\ handler' \in [Runs -> {"none", "closing", "failing", "killing", "done", "failed"}]
       /\ handler'[r] \in {"done", "failing"} /\ \A x \in Runs \ {r} : handler'[x] = handler[x]
       /\ native' \in [Runs -> Turns] /\ \A x \in Runs \ {r} : native'[x] = native[x]
       /\ native'[r] # "none" => handler'[r] = "done"
       /\ queue' = queue \/ (queue' = Append(queue, r) /\ native'[r] = "queued")
  <2>1. ASSUME NEW where \in {"running", "merged", "queued"}, Lands(r, where)
        PROVE  /\ handler' = [handler EXCEPT ![r] = "done"] /\ native' = [native EXCEPT ![r] = where]
               /\ where \in Turns
               /\ queue' = queue \/ (queue' = Append(queue, r) /\ where = "queued")
    BY <2>1 DEF Lands, Turns
  <2>2. CASE \E where \in {"running", "merged", "queued"} : Lands(r, where)
    BY <1>3, <2>1, <2>2
  <2>3. CASE handler' = [handler EXCEPT ![r] = "failing"] /\ UNCHANGED <<native, queue>>
    BY <1>3, <1>4, <2>3
  <2> QED BY <1>10, <2>2, <2>3
<1>12. /\ queue' \in Seq(Runs) /\ Once(queue') /\ \A x \in ToSet(queue') : native'[x] = "queued"
  <2>1. Once(queue) /\ \A x \in ToSet(queue) : native[x] = "queued" /\ x \in Runs
    BY <1>3 DEF IInv, Stages, ToSet
  <2>2. \A x \in ToSet(queue) : native'[x] = "queued"
    BY <1>4, <1>11, <2>1
  <2>3. CASE queue' = queue
    BY <1>3, <2>1, <2>2, <2>3
  <2>4. CASE queue' = Append(queue, r) /\ native'[r] = "queued"
    <3>1. /\ Append(queue, r) \in Seq(Runs) /\ Once(Append(queue, r))
          /\ ToSet(Append(queue, r)) = ToSet(queue) \cup {r}
      BY <1>3, <1>4, <2>1, AppendHas
    <3> QED BY <2>2, <2>4, <3>1
  <2> QED BY <1>11, <2>3, <2>4
<1>13. Tails' /\ Drains' /\ Cancels'
  <2>1. \A x \in Runs : native[x] = "done" => native'[x] = "done"
    BY <1>4, <1>11
  <2> QED BY <1>1, <1>2, <1>7, <2>1, TailsStay, DrainsStay, CancelsStay DEF IInv
<1>14. Sealed'
  <2> SUFFICES ASSUME NEW x \in ToSet(fifo'), rec'[x].msg # NoMessage, ~rec'[x].open
               PROVE  text'[rec'[x].msg[1]] # "open" \/ count'[rec'[x].msg[1]] # rec'[x].msg[2]
    BY DEF Sealed
  <2>1. x \in ToSet(fifo) /\ x # r /\ x \in Runs
    BY <1>2, <1>4, <1>5, <1>6, InFifo DEF Begins
  <2>2. rec'[x].msg = rec[x].msg /\ ~rec[x].open
    BY <1>2, <1>5, <1>6, <2>1 DEF Begins
  <2> QED BY <1>1, <2>1, <2>2 DEF IInv, Sealed
<1>15. Stages'
  <2>1. \A x \in Runs \ {r} : rec'[x].state = rec[x].state
    BY <1>2, <1>5, <1>6 DEF Begins
  <2>2. rec'[r].state # "none"
    BY <1>5, <1>6 DEF Begins
  <2>3. \A x \in Runs : handler'[x] \in {"none", "closing"} <=> rec'[x].state = "none"
    BY <1>11, <2>1, <2>2 DEF IInv, Stages
  <2>4. \A x \in Runs : native'[x] # "none" => handler'[x] \in {"done", "failed"}
    BY <1>11 DEF IInv, Stages
  <2>5. \A x \in Runs : count'[x] > 0 => native'[x] \in AtWork \cup {"done"}
    BY <1>1, <1>4, <1>11 DEF IInv, Stages
  <2> QED BY <1>12, <2>3, <2>4, <2>5 DEF Stages, AtWork
<1>16. RestOK'
  BY <1>1, <1>10, <1>11, <1>12 DEF IInv, RestOK
<1> QED BY <1>9, <1>13, <1>14, <1>15, <1>16 DEF IInv

\* Whom a cancelling command drains: the records of the fifo and their riders.
LEMMA DrainedIs ==
  ASSUME World \in Worlds, Order(World), Riding(World)
  PROVE  /\ Drained \subseteq Runs
         /\ \A x \in Runs : rec[x].state \in {"active", "pending"} => x \in Drained
         /\ \A x \in Drained : /\ \E c \in ToSet(fifo) : x \in Group(World, c)
                               /\ rec[x].state \in {"active", "pending", "rider"}
         /\ \A c \in Runs \ Drained : rec[c].riders \cap Drained = {}
<1>1. World.rec = rec /\ World.fifo = fifo /\ ToSet(fifo) \subseteq Runs
  BY InFifo, WorldIs
<1>2. \A x : x \in Drained <=> \E c \in ToSet(fifo) : x \in Group(World, c)
  BY DEF Drained
<1>3. \A c \in Runs : /\ Group(World, c) \subseteq Runs /\ c \in Group(World, c)
                      /\ \A x \in Group(World, c) : x = c \/ rec[x].state = "rider"
  BY <1>1, GroupIs
<1>4. \A x \in Runs : rec[x].state \in {"active", "pending"} => x \in Drained
  BY <1>1, <1>2, <1>3 DEF Order
<1>5. \A x \in Drained : x \in Runs /\ rec[x].state \in {"active", "pending", "rider"}
  BY <1>1, <1>2, <1>3 DEF Order
<1>6. ASSUME NEW c \in Runs \ Drained, NEW x \in rec[c].riders, x \in Drained PROVE FALSE
  <2>1. PICK d \in ToSet(fifo) : x \in Group(World, d)
    BY <1>2, <1>6
  <2>2. d \in Runs /\ d \in Drained /\ rec[d].state \in {"active", "pending"}
    BY <1>1, <1>2, <1>3, <2>1 DEF Order
  <2>3. rec[x].state = "rider"
    BY <1>1 DEF Riding
  <2>4. x \in rec[d].riders
    BY <1>1, <2>1, <2>2, <2>3 DEF Group
  <2> QED BY <1>1, <1>6, <2>2, <2>4 DEF Riding
<1> QED BY <1>2, <1>4, <1>5, <1>6

LEMMA StopHolds == ASSUME IInv, NEW r \in Runs, Stop(r) PROVE IInv'
<1> DEFINE D == Drained
           e(x) == [rec[x] EXCEPT !.state = "gone", !.riders = {}]
           K == Owing \cup D
<1>1. /\ UNCHANGED <<marks, out, stash, native, queue, photos, probing, text, count, setup>>
      /\ handler[r] = "none" /\ handler' = [handler EXCEPT ![r] = "closing"]
      /\ cancelled' = cancelled \cup Processing \cup D /\ fifo' = <<>> /\ lastEnded' = None
      /\ rec' = [x \in Runs |-> IF x \in D THEN e(x) ELSE rec[x]]
      /\ drained' = [drained EXCEPT ![r] = D]
  BY DEF Stop, hermes
<1>2. /\ World \in Worlds /\ Order(World) /\ Riding(World) /\ Sound(World, Owing, count)
      /\ Kept(World, {}) /\ World.rec = rec /\ World.fifo = fifo /\ World.out = out
      /\ World.marks = marks
  BY WorldIs DEF IInv, Sound
<1>3. /\ D \subseteq Runs
      /\ \A x \in Runs : rec[x].state \in {"active", "pending"} => x \in D
      /\ \A x \in D : /\ \E c \in ToSet(fifo) : x \in Group(World, c)
                      /\ rec[x].state \in {"active", "pending", "rider"}
      /\ \A c \in Runs \ D : rec[c].riders \cap D = {}
  BY <1>2, DrainedIs
<1> HIDE DEF D
<1>4. /\ rec \in [Runs -> Recs] /\ drained \in [Runs -> SUBSET Runs] /\ native \in [Runs -> Turns]
      /\ handler \in [Runs -> {"none", "closing", "failing", "killing", "done", "failed"}]
      /\ \A c \in stash : c[1] \in Runs /\ rec[c[1]].state = "gone"
      /\ \A x \in Runs : \A y \in drained[x] : y \in Runs /\ rec[y].state = "gone"
  BY <1>2, InFifo DEF IInv, RestOK, Tails, Drains
<1>5. rec' \in [Runs -> Recs] /\ (\A x \in Runs \ D : rec'[x] = rec[x])
      /\ (\A x \in D : rec'[x].state = "gone" /\ rec'[x].riders = {})
      /\ \A x \in Runs : rec'[x].kind = rec[x].kind /\ rec'[x].msg = rec[x].msg
                         /\ rec'[x].open = rec[x].open
  <2>1. ASSUME NEW x \in Runs
        PROVE  /\ e(x) \in Recs /\ e(x).state = "gone" /\ e(x).riders = {}
               /\ e(x).kind = rec[x].kind /\ e(x).msg = rec[x].msg /\ e(x).open = rec[x].open
    <3>1. rec[x] \in Recs
      BY <1>4
    <3> QED BY <3>1 DEF Recs, States
  <2> HIDE DEF e
  <2> QED BY <1>1, <1>3, <1>4, <2>1
<1>6. /\ World'.fifo = <<>> /\ World'.rec = rec' /\ World'.marks = marks /\ World'.out = out
      /\ World' \in Worlds /\ ToSet(World'.fifo) = {}
  <2>1. marks \in SUBSET Runs /\ out \in Outs
    BY <1>2 DEF Worlds
  <2>2. World' = [fifo |-> <<>>, rec |-> rec', marks |-> marks, out |-> out]
    BY <1>1 DEF World
  <2> QED BY <1>5, <2>1, <2>2 DEF Worlds, ToSet
<1>7. Sound(World', K, count)
  <2>1. Order(World')
    BY <1>3, <1>5, <1>6 DEF Order, Once
  <2>2. Riding(World')
    <3>1. ASSUME NEW c \in Runs, NEW x \in rec'[c].riders PROVE rec'[x].state = "rider"
      <4>1. c \notin D /\ x \in rec[c].riders
        BY <1>5, <3>1
      <4>2. x \in Runs \ D /\ rec[x].state = "rider"
        BY <1>2, <1>3, <1>4, <4>1 DEF Riding, Recs
      <4> QED BY <1>5, <4>2
    <3>2. ASSUME NEW c \in Runs, NEW d \in Runs, c # d PROVE rec'[c].riders \cap rec'[d].riders = {}
      BY <1>2, <1>5, <3>2 DEF Riding
    <3>3. \A x \in Runs : rec'[x].state \in {"none", "rider"}
                            => rec'[x].riders = {} /\ rec'[x].msg = NoMessage /\ ~rec'[x].open
      BY <1>2, <1>5 DEF Riding
    <3> QED BY <1>6, <3>1, <3>2, <3>3 DEF Riding
  <2>3. Refusals(World')
    BY <1>2, <1>5, <1>6 DEF Sound, Refusals, Worlds
  <2>4. Ends(World', K)
    <3>1. \A x \in D : out.ends[x] = <<>>
      BY <1>2, <1>3 DEF Sound, Ends
    <3>2. \A x \in Runs \ out.refused :
            Len(out.ends[x]) <= 1 /\ (x \in K => out.ends[x] = <<>>)
      BY <1>2, <3>1 DEF Sound, Ends
    <3>3. ASSUME NEW x \in Runs, rec'[x].state = "none" PROVE out.ends[x] = <<>> /\ x \notin K
      <4>1. x \notin D /\ rec[x].state = "none"
        BY <1>5, <3>3
      <4> QED BY <1>2, <4>1 DEF Sound, Ends
    <3> QED BY <1>6, <3>2, <3>3 DEF Ends
  <2>5. Texts(World', count)
    BY <1>2, <1>5, <1>6 DEF Sound, Texts
  <2>6. Streams(World')
    <3>1. \A s \in out.shown : s[2] \in Runs
      BY <1>2 DEF Worlds, Outs
    <3> QED BY <1>2, <1>5, <1>6, <3>1 DEF Sound, Streams
  <2> QED BY <1>6, <2>1, <2>2, <2>3, <2>4, <2>5, <2>6 DEF Sound
<1>8. Owing' \in SUBSET K
  <2>1. ASSUME NEW c \in stash PROVE Group(World', c[1]) = Group(World, c[1])
    <3>1. c[1] \in Runs \ D
      BY <1>3, <1>4
    <3> QED BY <1>2, <1>5, <1>6, <3>1 DEF Group
  <2>2. \A c \in stash : Group(World, c[1])' = Group(World, c[1])
    BY <2>1
  <2>3. \A x \in Runs : drained'[x] \subseteq drained[x] \cup D
    BY <1>1, <1>4
  <2>4. \A x : x \in Owing' => x \in Owing \/ x \in D
    BY <1>1, <2>2, <2>3, OwingHas
  <2> QED BY <2>4
<1>9. Sound(World, Owing, count)'
  <2>1. Sound(World', Owing', count)
    BY <1>7, <1>8, SoundLess
  <2> QED BY <1>1, <2>1
<1>10. Kept(World, {})'
  <2> SUFFICES ASSUME NEW s \in out.shown
               PROVE  \/ s[2] \in cancelled' \/ out.commits[s[1]] # <<>>
                      \/ rec'[s[2]].open /\ rec'[s[2]].msg = s[1]
    BY <1>6 DEF Kept
  <2>1. s[2] \in Runs
    BY <1>2 DEF Worlds, Outs
  <2>2. s[2] \in cancelled \/ out.commits[s[1]] # <<>> \/ (rec[s[2]].open /\ rec[s[2]].msg = s[1])
    BY <1>2 DEF Kept
  <2> QED BY <1>1, <1>5, <2>1, <2>2
<1>11. native[r] = "none" /\ rec[r].state = "none" /\ r \notin D
  BY <1>1, <1>3 DEF IInv, Stages
<1>12. Stages'
  <2>1. \A x \in Runs : rec'[x].state = "none" <=> rec[x].state = "none"
    BY <1>3, <1>5
  <2>2. \A x \in Runs : handler'[x] \in {"none", "closing"} <=> rec'[x].state = "none"
    BY <1>1, <1>4, <1>11, <2>1 DEF IInv, Stages
  <2>3. \A x \in Runs : native'[x] # "none" => handler'[x] \in {"done", "failed"}
    BY <1>1, <1>4, <1>11 DEF IInv, Stages
  <2> QED BY <1>1, <2>2, <2>3 DEF IInv, Stages, AtWork
<1>13. Tails'
  <2>1. \A c \in stash : rec'[c[1]].state = "gone"
    BY <1>4, <1>5
  <2> QED BY <1>1, <2>1 DEF IInv, Tails
<1>14. Drains'
  <2>1. drained'[r] = D /\ \A s \in Runs \ {r} : drained'[s] = drained[s]
    BY <1>1, <1>4
  <2>2. ASSUME NEW s \in Runs, NEW x \in drained'[s]
        PROVE  rec'[x].state = "gone" /\ ~Waiting(x)'
    <3>1. CASE s = r
      <4>1. x \in D /\ rec'[x].state = "gone"
        BY <1>5, <2>1, <3>1
      <4>2. rec[x].state # "gone"
        BY <1>3, <4>1
      <4>3. ~Waiting(x)
        BY <1>4, <4>2 DEF Waiting
      <4> QED BY <1>1, <4>1, <4>3 DEF Waiting
    <3>2. CASE s # r
      <4>1. x \in drained[s] /\ rec[x].state = "gone" /\ x \in Runs /\ ~Waiting(x)
        BY <1>4, <2>1, <3>2 DEF IInv, Drains
      <4> QED BY <1>1, <1>5, <4>1 DEF Waiting
    <3> QED BY <3>1, <3>2
  <2>3. ASSUME NEW s \in Runs, NEW u \in Runs, s # u PROVE drained'[s] \cap drained'[u] = {}
    <3>1. \A x \in Runs : drained[x] \cap D = {}
      BY <1>3, <1>4
    <3> QED BY <2>1, <2>3, <3>1 DEF IInv, Drains
  <2> QED BY <2>2, <2>3 DEF Drains
<1>15. Cancels'
  <2>1. ASSUME NEW x \in cancelled' PROVE rec'[x].state \in {"rider", "gone"}
    <3>1. x \in Runs
      BY <1>1, <1>3 DEF IInv, RestOK, Processing
    <3>2. x \in Processing => rec[x].state # "none"
      BY <3>1 DEF IInv, Stages, Processing, AtWork
    <3>3. rec[x].state \in States
      BY <1>4, <3>1 DEF Recs
    <3>4. x \in cancelled => rec[x].state \in {"rider", "gone"}
      BY DEF IInv, Cancels
    <3> QED BY <1>1, <1>3, <1>5, <3>1, <3>2, <3>3, <3>4 DEF States
  <2>2. ASSUME NEW c \in stash, rec[c[1]].msg # NoMessage
        PROVE  rec[c[1]].msg[1] \in cancelled' \/ native[rec[c[1]].msg[1]] = "done"
    <3> DEFINE m == rec[c[1]].msg
    <3>1. m \in Messages
      BY <1>4, <2>2 DEF Recs
    <3>2. m[1] \in Runs /\ m[2] \in 1..MaxMessages
      BY <3>1 DEF Messages
    <3>3. m[2] <= count[m[1]]
      BY <1>2, <1>4, <2>2 DEF Sound, Texts
    <3> HIDE DEF m
    <3>4. count[m[1]] \in Nat
      BY <3>2, BoundAssumption DEF IInv, RestOK
    <3>5. count[m[1]] > 0
      BY <3>2, <3>3, <3>4, BoundAssumption
    <3>6. native[m[1]] \in AtWork \cup {"done"}
      BY <3>2, <3>5 DEF IInv, Stages
    <3> QED BY <1>1, <3>2, <3>6 DEF Processing, m
  <2>3. ASSUME NEW c \in stash', rec'[c[1]].msg # NoMessage
        PROVE  rec'[c[1]].msg[1] \in cancelled' \/ native'[rec'[c[1]].msg[1]] = "done"
    <3>1. c \in stash /\ rec'[c[1]].msg = rec[c[1]].msg
      BY <1>1, <1>4, <1>5
    <3> QED BY <1>1, <2>2, <2>3, <3>1
  <2> QED BY <2>1, <2>3 DEF Cancels
<1>16. Sealed'
  <2>1. ToSet(fifo') = {}
    BY <1>1, <1>6
  <2> QED BY <2>1 DEF Sealed
<1>17. RestOK'
  BY <1>1, <1>3, <1>4 DEF IInv, RestOK, Processing
<1> QED BY <1>9, <1>10, <1>12, <1>13, <1>14, <1>15, <1>16, <1>17 DEF IInv

LEMMA TerminalStays ==
  ASSUME NEW w \in Worlds, NEW rs
  PROVE  Terminal(w, rs, FALSE).fifo = w.fifo /\ Terminal(w, rs, FALSE).rec = w.rec
<1> DEFINE v == Terminal(w, rs, FALSE)
<1>1. v.fifo = w.fifo /\ v.rec = w.rec
  BY DEF Terminal, Worlds
<1> QED BY <1>1

LEMMA StopBeginsHolds == ASSUME IInv, NEW r \in Runs, StopBegins(r) PROVE IInv'
<1> DEFINE D == drained[r]
           w == Terminal(World, D, FALSE)
           v == BeginRecord(w, r, "stop")
<1>1. /\ UNCHANGED <<cancelled, stash, native, queue, photos, probing, text, count, setup>>
      /\ handler[r] = "closing" /\ handler' = [handler EXCEPT ![r] = "killing"]
      /\ Becomes(v) /\ lastEnded' = None /\ drained' = [drained EXCEPT ![r] = {}]
  BY DEF StopBegins, hermes
<1>2. /\ World \in Worlds /\ Order(World) /\ Riding(World) /\ Sound(World, Owing, count)
      /\ Kept(World, {}) /\ World.rec = rec /\ World.fifo = fifo
  BY WorldIs DEF IInv, Sound
<1>3. /\ drained \in [Runs -> SUBSET Runs] /\ native \in [Runs -> Turns]
      /\ handler \in [Runs -> {"none", "closing", "failing", "killing", "done", "failed"}]
      /\ \A c \in stash : c[1] \in Runs /\ rec[c[1]].state = "gone"
      /\ \A x \in Runs : \A y \in drained[x] : y \in Runs /\ rec[y].state = "gone" /\ ~Waiting(y)
      /\ D \in SUBSET Runs
  BY DEF IInv, RestOK, Tails, Drains
<1>4. rec[r].state = "none" /\ native[r] = "none" /\ r \notin ToSet(fifo)
  <2>1. rec[r].state = "none" /\ native[r] = "none"
    BY <1>1 DEF IInv, Stages
  <2> QED BY <1>2, <2>1 DEF Order
<1>5. D \subseteq Owing /\ \A x \in D : rec[x].state = "gone" /\ ~Waiting(x)
  <2>1. \A x \in D : x \in Owing
    BY OwingHas
  <2> QED BY <1>3, <2>1
<1> HIDE DEF D
<1>6. /\ Sound(w, Owing \ D, count) /\ Closes(World, w) /\ w.fifo = fifo /\ w.rec = rec
  <2>1. \A x \in D : x \in Owing \cup World.out.refused /\ World.rec[x].state # "none"
    BY <1>2, <1>5
  <2>2. \A c \in ToSet(World.fifo) : Group(World, c) \cap D = {}
    BY <1>2, <1>5 DEF Sound, Ends
  <2>3. Sound(w, Owing \ D, count) /\ Closes(World, w)
    BY <1>2, <1>3, <2>1, <2>2, TerminalKeeps
  <2>4. w.fifo = World.fifo /\ w.rec = World.rec
    BY <1>2, TerminalStays
  <2> QED BY <1>2, <2>3, <2>4
<1> HIDE DEF w
<1>7. Kept(w, {})
  BY <1>2, <1>6, KeptStays DEF Closes, SameRecs
<1>8. Sound(v, Owing \ D, count) /\ Kept(v, {}) /\ Begins(w, v, r)
  BY <1>2, <1>4, <1>6, <1>7, BeginKeeps
<1> HIDE DEF v
<1>9. World' = v /\ rec' = v.rec /\ fifo' = v.fifo
  BY <1>1, <1>8, BecomesIs DEF Sound, Becomes
<1>10. Settled(World, World')
  BY <1>2, <1>4, <1>6, <1>8, <1>9 DEF Begins, Settled
<1>11. Owing' \in SUBSET (Owing \ D)
  <2>1. ASSUME NEW c \in stash
        PROVE  Group(World', c[1]) = Group(World, c[1]) /\ Group(World, c[1]) \cap D = {}
    <3>1. c[1] \in Runs /\ rec[c[1]].state = "gone" /\ c[1] # r /\ Waiting(c[1])
      BY <1>3, <1>4 DEF Waiting
    <3>2. c[1] \notin ToSet(w.fifo)
      BY <1>2, <1>6, <3>1 DEF Order
    <3>3. Group(World', c[1]) = Group(World, c[1])
      BY <1>2, <1>6, <1>8, <1>9, <3>1, <3>2 DEF Begins, Group
    <3>4. \A x \in Group(World, c[1]) : x = c[1] \/ rec[x].state = "rider"
      BY <1>2, <3>1, GroupIs
    <3> QED BY <1>5, <3>1, <3>3, <3>4
  <2>2. \A c \in stash : Group(World, c[1])' = Group(World, c[1]) /\ Group(World, c[1]) \cap D = {}
    BY <2>1
  <2>3. \A x \in Runs : drained'[x] \subseteq drained[x] /\ drained'[x] \cap D = {}
    BY <1>1, <1>3 DEF IInv, Drains, D
  <2>4. \A x : x \in Owing' => x \in Owing /\ x \notin D
    BY <1>1, <2>2, <2>3, OwingHas
  <2> QED BY <2>4
<1>12. Sound(World, Owing, count)' /\ Kept(World, {})'
  <2>1. Sound(World', Owing', count)
    BY <1>8, <1>9, <1>11, SoundLess
  <2> QED BY <1>1, <1>8, <1>9, <2>1 DEF Kept
<1>13. Tails' /\ Cancels'
  BY <1>1, <1>2, <1>10, TailsStay, CancelsStay DEF IInv
<1>14. Drains'
  <2>1. \A x \in Runs : drained'[x] \subseteq drained[x]
    BY <1>1, <1>3
  <2>2. ASSUME NEW x \in Runs, NEW y \in drained'[x] PROVE rec'[y].state = "gone" /\ ~Waiting(y)'
    <3>1. y \in Runs /\ rec[y].state = "gone" /\ ~Waiting(y)
      BY <1>3, <2>1
    <3> QED BY <1>1, <1>2, <1>9, <1>10, <3>1 DEF Settled, Waiting
  <2> QED BY <2>1, <2>2 DEF IInv, Drains
<1>15. Sealed'
  <2> SUFFICES ASSUME NEW x \in ToSet(fifo'), rec'[x].msg # NoMessage, ~rec'[x].open
               PROVE  text'[rec'[x].msg[1]] # "open" \/ count'[rec'[x].msg[1]] # rec'[x].msg[2]
    BY DEF Sealed
  <2>1. x \in ToSet(fifo) /\ x # r /\ x \in Runs
    BY <1>2, <1>4, <1>6, <1>8, <1>9, InFifo DEF Begins
  <2>2. rec'[x].msg = rec[x].msg /\ ~rec[x].open
    BY <1>6, <1>8, <1>9, <2>1 DEF Begins
  <2> QED BY <1>1, <2>1, <2>2 DEF IInv, Sealed
<1>16. Stages'
  <2>1. \A x \in Runs \ {r} : rec'[x].state = rec[x].state
    BY <1>6, <1>8, <1>9 DEF Begins
  <2>2. rec'[r].state # "none"
    BY <1>8, <1>9 DEF Begins
  <2>3. \A x \in Runs : handler'[x] \in {"none", "closing"} <=> rec'[x].state = "none"
    BY <1>1, <1>3, <2>1, <2>2 DEF IInv, Stages
  <2>4. \A x \in Runs : native'[x] # "none" => handler'[x] \in {"done", "failed"}
    BY <1>1, <1>3, <1>4 DEF IInv, Stages
  <2> QED BY <1>1, <2>3, <2>4 DEF IInv, Stages, AtWork
<1>17. RestOK'
  BY <1>1, <1>3 DEF IInv, RestOK
<1> QED BY <1>12, <1>13, <1>14, <1>15, <1>16, <1>17 DEF IInv

-----------------------------------------------------------------------------
(* The theorems. *)

LEMMA StutterHolds == ASSUME IInv, UNCHANGED vars PROVE IInv'
<1>1. /\ UNCHANGED <<ledger, cancelled, stash, drained, count>>
      /\ UNCHANGED <<handler, native, queue, text, photos, probing, setup, lastEnded>>
  BY DEF vars, hermes
<1>2. /\ Sound(World, Owing, count)' /\ Kept(World, {})' /\ Onward(World, World')
      /\ Tails' /\ Drains' /\ Cancels' /\ Sealed'
  BY <1>1, LedgerStays
<1>3. Stages'
  BY <1>1, <1>2, StagesStay DEF IInv
<1>4. RestOK'
  BY <1>1 DEF IInv, RestOK
<1> QED BY <1>2, <1>3, <1>4 DEF IInv

LEMMA NextHolds == IInv /\ [Next]_vars => IInv'
<1> SUFFICES ASSUME IInv, [Next]_vars PROVE IInv'
  OBVIOUS
<1>1. CASE Sweep
  BY <1>1, SweepHolds
<1>2. CASE GraceExpires
  BY <1>2, GraceHolds
<1>3. ASSUME NEW r \in Runs, Stop(r) \/ StopBegins(r) \/ HandStop(r) \/ Fails(r) PROVE IInv'
  BY <1>3, StopHolds, StopBeginsHolds, HandStopHolds, FailsHolds
<1>4. ASSUME NEW r \in Runs, Send(r) \/ Finalize(r) \/ Hook(r) \/ Refuse(r) PROVE IInv'
  BY <1>4, SendHolds, FinalizeHolds, HookHolds, RefuseHolds
<1>5. ASSUME NEW r \in Runs, EndProbe(r) \/ EndIgnored(r) PROVE IInv'
  BY <1>5, EndProbeHolds, EndIgnoredHolds
<1>6. ASSUME NEW r \in Runs, NEW k \in Kinds, Begin(r, k) PROVE IInv'
  BY <1>6, BeginHolds
<1>7. ASSUME NEW r \in Runs, NEW ok \in BOOLEAN, EndPop(r, ok) \/ Fallback(r, ok) \/ Complete(r, ok)
      PROVE  IInv'
  BY <1>7, EndPopHolds, FallbackHolds, CompleteHolds
<1>8. CASE UNCHANGED vars
  BY <1>8, StutterHolds
<1> QED BY <1>1, <1>2, <1>3, <1>4, <1>5, <1>6, <1>7, <1>8 DEF Next

LEMMA AlwaysIInv == Spec => []IInv
BY InitHolds, NextHolds, PTL DEF Spec

LEMMA IInvLedger == IInv => LedgerInv
<1> SUFFICES ASSUME IInv PROVE LedgerInv
  OBVIOUS
<1>1. /\ World \in Worlds /\ Order(World) /\ Riding(World) /\ Ends(World, Owing)
      /\ World.rec = rec /\ World.fifo = fifo /\ World.out = out /\ World.marks = marks
      /\ ToSet(fifo) \subseteq Runs
  BY WorldIs, InFifo DEF IInv, Sound
<1>2. TypeOK
  BY <1>1 DEF IInv, RestOK, Worlds, Recs, Outs, States, Turns, TypeOK
<1>3. Cardinality({r \in Runs : rec[r].state = "active"}) <= 1
  <2> DEFINE A == {r \in Runs : rec[r].state = "active"}
  <2>1. CASE A = {}
    BY <2>1, FS_EmptySet
  <2>2. CASE A # {}
    <3>1. PICK a : a \in A
      BY <2>2
    <3>2. A = {a}
      BY <1>1, <3>1 DEF Order
    <3>3. Cardinality({a}) = 1
      BY FS_Singleton
    <3> HIDE DEF A
    <3>4. Cardinality(A) <= 1
      BY <3>2, <3>3
    <3> QED BY <3>4 DEF A
  <2> QED BY <2>1, <2>2
<1>4. /\ \A i, j \in DOMAIN fifo : fifo[i] = fifo[j] => i = j
      /\ \A r \in Runs : rec[r].state \in {"active", "pending"} <=> r \in ToSet(fifo)
  BY <1>1 DEF Order, Once
<1>5. \A r, s \in ToSet(fifo) : r # s => Group(World, r) \cap Group(World, s) = {}
  <2>1. \A r \in ToSet(fifo) : r \in Runs /\ rec[r].state # "rider"
    BY <1>1, <1>4
  <2> QED BY <1>1, <2>1, GroupIs
<1>6. \A c \in stash : rec[c[1]].state = "gone"
  BY DEF IInv, Tails
<1>7. \A r \in ToSet(fifo) : ~Waiting(r) /\ Group(World, r) \cap {x \in Runs : out.ends[x] # <<>>} = {}
  BY <1>1, <1>4, <1>6 DEF Ends, Waiting
<1> QED BY <1>2, <1>3, <1>4, <1>5, <1>6, <1>7 DEF LedgerInv

\* In every state the types hold, one record at most heads the session, a record is in one
\* place only, and what is stashed or ended has left the ledger: begin, the pops, the drain
\* of a cancelling command and discard_records leave it so from every interleaving.
THEOREM LedgerCorrect == Spec => []LedgerInv
<1>1. IInv => LedgerInv
  BY IInvLedger
<1> QED BY <1>1, AlwaysIInv, PTL

\* A run whose provider did not refuse it gets one terminal, and a message one commit,
\* whichever of the hook, the callback, the edit, the timers, the janitor and the
\* cancellation comes first.
THEOREM EndsCorrect == Spec => []EndsOnce
<1>1. IInv => EndsOnce
  BY WorldIs DEF IInv, Sound, Ends, Texts, EndsOnce
<1> QED BY <1>1, AlwaysIInv, PTL

\* A turn that ended well has every message that was streamed under it in the
\* conversation.
THEOREM StreamsCorrect == Spec => []NothingStreamedIsLost
<1>1. IInv => NothingStreamedIsLost
  BY WorldIs DEF IInv, Sound, Streams, NothingStreamedIsLost
<1> QED BY <1>1, AlwaysIInv, PTL

-----------------------------------------------------------------------------
(* The order of the fifo and the order in which Hermes takes its turns. *)

\* Orderly: nothing of what it leaves out is there.
Plain ==
  /\ marks = {} /\ cancelled = {} /\ photos = {}
  /\ \A r \in Runs : /\ ~rec[r].media /\ ~rec[r].error
                     /\ handler[r] \notin {"closing", "killing"}
                     /\ native[r] \notin {"merged", "refused", "dying"}

\* Hermes has one turn at a time and takes the next when it is over.
OneTurn ==
  /\ \A r, s \in Runs : native[r] \in AtWork /\ native[s] \in AtWork => r = s
  /\ queue # <<>> => \E t \in Runs : native[t] \in AtWork
  /\ \A t \in probing : native[t] = "running" /\ rec[t].kind = "turn"

\* A turn that still has its message to send: a command is over with its reply.
Sending(t) == native[t] = "running" /\ (rec[t].kind = "turn" \/ count[t] = 0)

\* The fifo is the turn that sends (d of them), what Hermes has queued, in its order,
\* and the dispatch that is failing (e of them).
InRow(d, e) ==
  /\ Len(fifo) = d + Len(queue) + e
  /\ \A i \in 1 .. Len(queue) : fifo[d + i] = queue[i]
  /\ \A t \in Runs : Sending(t) <=> d = 1 /\ fifo[1] = t
  /\ \A r \in Runs : handler[r] = "failing" <=> e = 1 /\ fifo[Len(fifo)] = r

\* Until a message was stamped with another run the ledger and Hermes agree.
InLine ==
  out.strays = {} => /\ fifo # <<>> => rec[fifo[1]].state = "active"
                     /\ \E d, e \in {0, 1} : InRow(d, e)

Late == \A s \in out.strays : s[2] \in {"ended", "expected"}

Ordered == Plain /\ OneTurn /\ InLine /\ Late
OrderInv == Orderly => Ordered

Steady(w, v) == Mild(w, v) /\ SameKind(v, w) /\ v.out.strays = w.out.strays
Same(w, v) == v.fifo = w.fifo /\ SameState(v, w)
Leads(w) == w.fifo # <<>> => w.rec[w.fifo[1]].state = "active"

LEMMA SteadyOn == ASSUME NEW u, NEW v, NEW w, Steady(u, v), Steady(v, w) PROVE Steady(u, w)
BY DEF Steady, Mild, SameKind

LEMMA SameOn == ASSUME NEW u, NEW v, NEW w, Same(u, v), Same(v, w) PROVE Same(u, w)
BY DEF Same, SameState

LEMMA SteadyNot == ASSUME NEW w PROVE Steady(w, w) /\ Same(w, w)
BY DEF Steady, Mild, SameKind, Same, SameState

LEMMA SameLeads ==
  ASSUME NEW w \in Worlds, NEW v, Same(w, v), Leads(w)
  PROVE  Leads(v)
<1> SUFFICES ASSUME v.fifo # <<>> PROVE v.rec[v.fifo[1]].state = "active"
  BY DEF Leads
<1>1. w.fifo \in Seq(Runs) /\ v.fifo = w.fifo
  BY DEF Worlds, Same
<1>2. w.fifo[1] \in Runs
  BY <1>1
<1> QED BY <1>1, <1>2 DEF Leads, Same, SameState

LEMMA ActivateSteady ==
  ASSUME NEW w \in Worlds, NEW r \in Runs
  PROVE  Steady(w, Activate(w, r)) /\ (w.rec[r].state = "active" => Same(w, Activate(w, r)))
<1> DEFINE v == Activate(w, r)
<1>1. /\ v.fifo = w.fifo /\ v.out = w.out /\ SameRecs(v, w) /\ Mild(w, v)
      /\ \A x \in Runs : (x = r => v.rec[x].state = "active") /\ (x # r => v.rec[x] = w.rec[x])
  BY ActivateIs
<1> HIDE DEF v
<1> QED BY <1>1 DEF Steady, Same, SameRecs, SameState, v

LEMMA PopOnlySteady ==
  ASSUME NEW w \in Worlds, NEW r \in ToSet(w.fifo), Once(w.fifo)
  PROVE  Steady(w, PopOnly(w, r))
BY PopOnlyIs DEF Steady, SameRecs

LEMMA TerminalSteady ==
  ASSUME NEW w \in Worlds, NEW rs, NEW ok \in BOOLEAN
  PROVE  Steady(w, Terminal(w, rs, ok)) /\ Same(w, Terminal(w, rs, ok))
<1> DEFINE v == Terminal(w, rs, ok)
<1>1. v.fifo = w.fifo /\ v.rec = w.rec /\ v.marks = w.marks /\ v.out.strays = w.out.strays
  BY TerminalIs
<1> HIDE DEF v
<1> QED BY <1>1 DEF Steady, Mild, Same, SameKind, SameState, v

\* Nothing is refused, so that a commit closes nothing.
LEMMA CommitSteady ==
  ASSUME NEW w \in Worlds, NEW m \in Messages, NEW r \in Runs, w.marks = {}
  PROVE  Steady(w, Commit(w, m, r)) /\ Same(w, Commit(w, m, r))
<1> DEFINE v == Stored(w, m, r)
<1>1. /\ v.fifo = w.fifo /\ v.marks = w.marks /\ v.out.strays = w.out.strays
      /\ SameState(v, w) /\ SameKind(v, w) /\ Mild(w, v)
  BY StoredIs
<1>2. Commit(w, m, r) = NoteCommit(v, r)
  BY DEF Commit, Stored
<1> HIDE DEF v
<1>3. NoteCommit(v, r) = v
  BY <1>1 DEF NoteCommit
<1> QED BY <1>1, <1>2, <1>3 DEF Steady, Same

LEMMA CommitOpenSteady ==
  ASSUME NEW w, NEW K, NEW n, Sound(w, K, n), NEW r \in Runs, w.marks = {}
  PROVE  Steady(w, CommitOpen(w, r)) /\ Same(w, CommitOpen(w, r))
<1>1. w \in Worlds /\ w.rec[r] \in Recs
  BY InFifo DEF Sound
<1>2. CASE ~w.rec[r].open
  <2>1. CommitOpen(w, r) = w
    BY <1>2 DEF CommitOpen
  <2> QED BY <2>1, SteadyNot
<1>3. CASE w.rec[r].open
  <2>1. CommitOpen(w, r) = Commit(w, w.rec[r].msg, r)
    BY <1>3 DEF CommitOpen
  <2>2. w.rec[r].msg \in Messages
    BY <1>1, <1>3 DEF Sound, Texts, Recs
  <2> QED BY <1>1, <2>1, <2>2, CommitSteady
<1> QED BY <1>2, <1>3

LEMMA OpensSteady ==
  ASSUME NEW w, NEW K, NEW n, Sound(w, K, n), NEW m \in Messages, NEW r \in Runs, w.marks = {}
  PROVE  LET v == Opens(w, m, r) IN
         Steady(w, v) /\ (w.rec[r].state = "active" => Same(w, v))
<1> DEFINE u == Takes(w, m, r)
           v == Opens(w, m, r)
           k == w.rec[r].msg
<1>1. w \in Worlds /\ w.rec[r] \in Recs
  BY InFifo DEF Sound
<1>2. v = IF w.rec[r].open THEN Commit(u, k, r) ELSE u
  BY DEF Opens, Takes
<1>3. /\ u \in Worlds /\ u.fifo = w.fifo /\ u.marks = w.marks /\ u.out.strays = w.out.strays
      /\ SameKind(u, w) /\ Mild(w, u) /\ u.rec[r].state = "active"
      /\ \A x \in Runs \ {r} : u.rec[x] = w.rec[x]
  BY <1>1, TakesIs
<1>4. w.rec[r].open => k \in Messages
  BY <1>1 DEF Sound, Texts, Recs
<1> HIDE DEF u, v, k
<1>5. Steady(w, u) /\ (w.rec[r].state = "active" => Same(w, u))
  BY <1>3 DEF Steady, Same, SameState
<1>6. Steady(u, v) /\ Same(u, v)
  BY <1>2, <1>3, <1>4, CommitSteady, SteadyNot
<1> QED BY <1>5, <1>6, SteadyOn, SameOn DEF v

LEMMA PopSteady ==
  ASSUME NEW w, NEW K, NEW n, Sound(w, K, n), NEW r \in Runs, w.rec[r].state = "active"
  PROVE  Steady(w, Pop(w, r))
<1> DEFINE u == PopOnly(w, r)
           p == Pending(u)
<1>1. w \in Worlds /\ Once(w.fifo) /\ r \in ToSet(w.fifo)
  BY DEF Sound, Order
<1>2. u \in Worlds /\ Steady(w, u)
  BY <1>1, PopOnlyIs, PopOnlySteady
<1>3. Sound(u, K \cup Group(w, r), n)
  BY <1>1, PopOnlyKeeps
<1>4. Pop(w, r) = Activate(u, p)
  BY DEF Pop
<1> HIDE DEF u
<1>5. p = None \/ p \in Runs
  BY <1>3, PendingIs DEF Sound
<1> HIDE DEF p
<1>6. CASE p = None
  BY <1>2, <1>4, <1>6 DEF Activate
<1>7. CASE p \in Runs
  BY <1>2, <1>4, <1>7, ActivateSteady, SteadyOn
<1> QED BY <1>5, <1>6, <1>7

\* The first of the fifo goes, and the next heads the session.
LEMMA WithoutFirst ==
  ASSUME NEW q \in Seq(Runs), q # <<>>, Once(q)
  PROVE  Without(q, q[1]) = Tail(q)
<1> DEFINE v == Without(q, q[1])
<1>1. 1 \in DOMAIN q
  OBVIOUS
<1>2. /\ v \in Seq(Runs) /\ Len(v) = Len(q) - 1
      /\ \A i \in DOMAIN v : i >= 1 => i + 1 \in DOMAIN q /\ v[i] = q[i + 1]
  BY <1>1, WithoutIs
<1> HIDE DEF v
<1>3. /\ Tail(q) \in Seq(Runs) /\ Len(Tail(q)) = Len(q) - 1
      /\ \A i \in 1 .. (Len(q) - 1) : Tail(q)[i] = q[i + 1]
  OBVIOUS
<1>4. \A i \in 1 .. (Len(q) - 1) : v[i] = q[i + 1]
  BY <1>2
<1>5. v = Tail(q)
  BY <1>2, <1>3, <1>4
<1> QED BY <1>5 DEF v

LEMMA NextLeads ==
  ASSUME NEW u \in Worlds, Order(u), \A x \in Runs : u.rec[x].state # "active"
  PROVE  LET v == Activate(u, Pending(u)) IN v.fifo = u.fifo /\ Leads(v)
<1> DEFINE p == Pending(u)
           v == Activate(u, p)
<1>1. u.fifo \in Seq(Runs)
  BY DEF Worlds
<1>2. \A i \in DOMAIN u.fifo : u.fifo[i] \in Runs /\ u.rec[u.fifo[i]].state = "pending"
  BY <1>1 DEF Order, ToSet
<1>3. InState(u, "pending") = DOMAIN u.fifo
  BY <1>2 DEF InState
<1>4. CASE u.fifo = <<>>
  <2>1. p = None
    BY <1>3, <1>4 DEF Pending, First
  <2>2. v = u
    BY <2>1 DEF Activate
  <2> QED BY <1>4, <2>2 DEF Leads
<1>5. CASE u.fifo # <<>>
  <2>1. 1 \in DOMAIN u.fifo /\ DOMAIN u.fifo \in SUBSET Nat /\ DOMAIN u.fifo = 1 .. Len(u.fifo)
    BY <1>1, <1>5
  <2>2. PICK i \in DOMAIN u.fifo : p = u.fifo[i] /\ \A j \in DOMAIN u.fifo : i <= j
    BY <1>1, <1>3, <2>1, FirstIs DEF Pending
  <2>3. i = 1
    BY <1>1, <2>1, <2>2
  <2>4. p \in Runs /\ p = u.fifo[1]
    BY <1>2, <2>2, <2>3
  <2> HIDE DEF p
  <2>5. v.fifo = u.fifo /\ v.rec[p].state = "active"
    BY <2>4, ActivateIs
  <2> HIDE DEF v
  <2> QED BY <2>4, <2>5 DEF Leads, v, p
<1> QED BY <1>4, <1>5

LEMMA PopFirst ==
  ASSUME NEW w, NEW K, NEW n, Sound(w, K, n), w.fifo # <<>>, Leads(w)
  PROVE  LET v == Pop(w, w.fifo[1]) IN v.fifo = Tail(w.fifo) /\ Leads(v)
<1> DEFINE r == w.fifo[1]
           u == PopOnly(w, r)
<1>1. /\ w \in Worlds /\ w.fifo \in Seq(Runs) /\ Once(w.fifo) /\ Order(w)
      /\ r \in Runs /\ r \in ToSet(w.fifo) /\ w.rec[r].state = "active"
  BY DEF Sound, Order, Worlds, Leads, ToSet
<1>2. /\ u \in Worlds /\ u.fifo = Tail(w.fifo)
      /\ \A x \in Runs : (x = r => u.rec[x].state = "gone") /\ (x # r => u.rec[x] = w.rec[x])
  BY <1>1, PopOnlyIs, WithoutFirst
<1>3. Order(u)
  BY <1>1, PopOnlyKeeps DEF Sound
<1>4. Pop(w, r) = Activate(u, Pending(u))
  BY DEF Pop
<1> HIDE DEF u
<1>5. \A x \in Runs : u.rec[x].state # "active"
  BY <1>1, <1>2 DEF Order
<1> QED BY <1>2, <1>3, <1>4, <1>5, NextLeads

LEMMA PromoteSteady ==
  ASSUME NEW w \in Worlds, Order(w)
  PROVE  Steady(w, Promote(w)) /\ Promote(w).fifo = w.fifo
<1>1. Pending(w) = None \/ Pending(w) \in Runs
  BY PendingIs
<1>2. Promote(w) = w \/ (Pending(w) \in Runs /\ Promote(w) = Activate(w, Pending(w)))
  BY <1>1 DEF Promote, Activate
<1> QED BY <1>1, <1>2, ActivateSteady, ActivateIs, SteadyNot

LEMMA PromoteLeads ==
  ASSUME NEW w \in Worlds, Order(w),
         Leads(w) \/ \A x \in Runs : w.rec[x].state # "active"
  PROVE  Leads(Promote(w))
<1>1. w.fifo \in Seq(Runs)
  BY DEF Worlds
<1>2. CASE \A x \in Runs : w.rec[x].state # "active"
  <2>1. Active(w) = None
    BY <1>1, <1>2, ActiveIs
  <2> QED BY <1>1, <1>2, <2>1, NextLeads DEF Promote
<1>3. CASE Leads(w) /\ \E x \in Runs : w.rec[x].state = "active"
  <2>1. Active(w) # None
    BY <1>1, <1>3, ActiveIs
  <2> QED BY <1>3, <2>1 DEF Promote
<1> QED BY <1>2, <1>3

LEMMA CloseTailSteady ==
  ASSUME NEW w, NEW K, NEW n, Sound(w, K, n), Kept(w, {}), NEW r \in Runs, NEW ok \in BOOLEAN,
         w.marks = {}
  PROVE  Steady(w, CloseTail(w, r, ok)) /\ Same(w, CloseTail(w, r, ok))
<1> DEFINE u == CommitOpen(w, r)
<1>1. u \in Worlds /\ Steady(w, u) /\ Same(w, u)
  BY CommitOpenKeeps, CommitOpenSteady DEF Sound
<1>2. CloseTail(w, r, ok) = Terminal(u, Group(w, r), ok)
  BY DEF CloseTail
<1> HIDE DEF u
<1>3. Steady(u, Terminal(u, Group(w, r), ok)) /\ Same(u, Terminal(u, Group(w, r), ok))
  BY <1>1, TerminalSteady
<1> QED BY <1>1, <1>2, <1>3, SteadyOn, SameOn

LEMMA AddsSteady ==
  ASSUME NEW w \in Worlds, NEW m \in Messages, NEW x \in Runs \cup {None}
  PROVE  LET v == Adds(w, m, x) IN v \in Worlds /\ Steady(w, v) /\ Same(w, v)
<1> DEFINE v == Adds(w, m, x)
<1>1. /\ v \in Worlds /\ v.fifo = w.fifo /\ v.marks = w.marks /\ v.rec = w.rec
      /\ v.out.strays = w.out.strays
  BY AddsIs
<1> HIDE DEF v
<1> QED BY <1>1 DEF Steady, Mild, Same, SameKind, SameState, v

\* The head is popped, and what follows of its closing takes no other record.
LEMMA PopCloses ==
  ASSUME NEW w, NEW K, NEW n, Sound(w, K, n), NEW r \in Runs, w.rec[r].state = "active",
         NEW v, Steady(Pop(w, r), v), Same(Pop(w, r), v)
  PROVE  /\ Steady(w, v)
         /\ Leads(w) => w.fifo # <<>> /\ r = w.fifo[1] /\ v.fifo = Tail(w.fifo) /\ Leads(v)
<1> DEFINE u == Pop(w, r)
<1>1. Steady(w, v)
  BY PopSteady, SteadyOn
<1>2. /\ w \in Worlds /\ r \in ToSet(w.fifo) /\ w.fifo \in Seq(Runs) /\ Order(w)
      /\ w.fifo # <<>>
  BY DEF Sound, Order, Worlds, ToSet
<1>3. u \in Worlds
  BY PopKeeps DEF Sound
<1>4. ASSUME Leads(w) PROVE r = w.fifo[1] /\ v.fifo = Tail(w.fifo) /\ Leads(v)
  <2>1. w.fifo[1] \in Runs /\ w.rec[w.fifo[1]].state = "active"
    BY <1>2, <1>4 DEF Leads
  <2>2. r = w.fifo[1]
    BY <1>2, <2>1 DEF Order
  <2>3. u.fifo = Tail(w.fifo) /\ Leads(u)
    BY <1>2, <1>4, <2>2, PopFirst
  <2> HIDE DEF u
  <2>4. v.fifo = u.fifo /\ Leads(v)
    BY <1>3, <2>3, SameLeads DEF Same, u
  <2> QED BY <2>2, <2>3, <2>4
<1> QED BY <1>1, <1>2, <1>4

LEMMA PopTerminal ==
  ASSUME NEW w, NEW K, NEW n, Sound(w, K, n), NEW r \in Runs, w.rec[r].state = "active",
         NEW rs, NEW ok \in BOOLEAN, NEW v, v = Pop(w, r) \/ v = Terminal(Pop(w, r), rs, ok)
  PROVE  /\ Steady(w, v)
         /\ Leads(w) => w.fifo # <<>> /\ r = w.fifo[1] /\ v.fifo = Tail(w.fifo) /\ Leads(v)
<1> DEFINE u == Pop(w, r)
<1>1. u \in Worlds
  BY PopKeeps DEF Sound
<1> HIDE DEF u
<1>2. Steady(u, v) /\ Same(u, v)
  BY <1>1, TerminalSteady, SteadyNot DEF u
<1> QED BY <1>2, PopCloses DEF u

LEMMA SlashReplySteady ==
  ASSUME NEW w, NEW K, NEW n, Sound(w, K, n), NEW m \in Messages, NEW h \in Runs,
         w.rec[h].state = "active"
  PROVE  LET v == SlashReply(w, m, h) IN
         /\ Steady(w, v)
         /\ Leads(w) => w.fifo # <<>> /\ h = w.fifo[1] /\ v.fifo = Tail(w.fifo) /\ Leads(v)
<1> DEFINE t == Pop(w, h)
           u == Adds(t, m, h)
           v == SlashReply(w, m, h)
<1>1. t \in Worlds
  BY PopKeeps DEF Sound
<1>2. v = Terminal(u, Group(w, h), TRUE)
  BY DEF SlashReply, Adds
<1> HIDE DEF t, v
<1>3. u \in Worlds /\ Steady(t, u) /\ Same(t, u)
  BY <1>1, AddsSteady
<1> HIDE DEF u
<1>4. Steady(u, v) /\ Same(u, v)
  BY <1>2, <1>3, TerminalSteady
<1>5. Steady(t, v) /\ Same(t, v)
  BY <1>3, <1>4, SteadyOn, SameOn
<1> QED BY <1>5, PopCloses DEF t, v

LEMMA PopTailSteady ==
  ASSUME NEW w, NEW K, NEW n, Sound(w, K, n), NEW r \in Runs, w.rec[r].state = "active",
         w.marks = {}, NEW ok \in BOOLEAN
  PROVE  LET v == Terminal(CommitOpen(Pop(w, r), r), Group(w, r), ok) IN
         /\ Steady(w, v)
         /\ Leads(w) => w.fifo # <<>> /\ r = w.fifo[1] /\ v.fifo = Tail(w.fifo) /\ Leads(v)
<1> DEFINE t == Pop(w, r)
           L == K \cup Group(w, r)
           u == CommitOpen(t, r)
           v == Terminal(u, Group(w, r), ok)
<1>1. Sound(t, L, n) /\ t.marks = {}
  BY PopKeeps
<1> HIDE DEF t, L
<1>2. Steady(t, u) /\ Same(t, u)
  BY <1>1, CommitOpenSteady
<1>3. u \in Worlds
  <2>1. t \in Worlds /\ t.rec[r] \in Recs
    BY <1>1, InFifo DEF Sound
  <2>2. CASE ~t.rec[r].open
    BY <2>1, <2>2 DEF CommitOpen
  <2>3. CASE t.rec[r].open
    <3> DEFINE m == t.rec[r].msg
    <3>1. m \in Messages
      BY <1>1, <2>1, <2>3 DEF Sound, Texts, Recs
    <3>2. u = NoteCommit(Stored(t, m, r), r)
      BY <2>3 DEF CommitOpen, Commit, Stored
    <3> HIDE DEF m
    <3>3. Stored(t, m, r) \in Worlds /\ Stored(t, m, r).marks = t.marks
      BY <2>1, <3>1, StoredIs
    <3> QED BY <1>1, <3>2, <3>3 DEF NoteCommit
  <2> QED BY <2>2, <2>3
<1> HIDE DEF u
<1>4. Steady(u, v) /\ Same(u, v)
  BY <1>3, TerminalSteady
<1> HIDE DEF v
<1>5. Steady(t, v) /\ Same(t, v)
  BY <1>2, <1>4, SteadyOn, SameOn
<1> QED BY <1>5, PopCloses DEF t, v, u

\* What is discarded leaves the fifo; the head stays, or the next leads.
LEMMA DiscardSteady ==
  ASSUME NEW w, NEW K, NEW n, Sound(w, K, n), Kept(w, {}), NEW r \in Runs
  PROVE  LET v == Discard(w, r) IN
         /\ Steady(w, v) /\ (Leads(w) => Leads(v))
         /\ v.fifo = IF r \in ToSet(w.fifo) THEN Without(w.fifo, r) ELSE w.fifo
<1> DEFINE cs == {c \in ToSet(w.fifo) : r \in w.rec[c].riders}
           t == IF r \in ToSet(w.fifo) THEN Terminal(PopOnly(w, r), Group(w, r), FALSE)
                ELSE IF cs = {} THEN w
                ELSE Terminal(Drops(w, cs, r), {r}, FALSE)
<1>1. w \in Worlds /\ ToSet(w.fifo) \subseteq Runs /\ Once(w.fifo) /\ Order(w) /\ w.fifo \in Seq(Runs)
  BY InFifo DEF Sound, Order, Worlds
<1>2. Discard(w, r) = Promote(t)
  BY DEF Discard
<1>3. CASE r \in ToSet(w.fifo)
  <2> DEFINE u == PopOnly(w, r)
  <2>1. t = Terminal(u, Group(w, r), FALSE)
    BY <1>3
  <2> HIDE DEF t
  <2>2. t \in Worlds /\ Order(t)
    BY <1>3, <2>1, PopOnlyEnds DEF Sound
  <2>3. /\ u \in Worlds /\ Steady(w, u) /\ u.fifo = Without(w.fifo, r)
        /\ \A x \in Runs : (x = r => u.rec[x].state = "gone") /\ (x # r => u.rec[x] = w.rec[x])
    BY <1>1, <1>3, PopOnlyIs, PopOnlySteady
  <2> HIDE DEF u
  <2>4. t.fifo = u.fifo /\ t.rec = u.rec /\ Steady(u, t)
    <3>1. t.fifo = u.fifo /\ t.rec = u.rec
      BY <2>1, <2>3, TerminalStays
    <3>2. Steady(u, t)
      BY <2>1, <2>3, TerminalSteady
    <3> QED BY <3>1, <3>2
  <2>5. ASSUME Leads(w) PROVE Leads(t) \/ \A x \in Runs : t.rec[x].state # "active"
    <3>1. w.fifo # <<>> /\ w.fifo[1] \in Runs /\ w.rec[w.fifo[1]].state = "active"
      BY <1>1, <1>3, <2>5 DEF Leads, ToSet
    <3>2. CASE r = w.fifo[1]
      BY <1>1, <2>3, <2>4, <3>1, <3>2 DEF Order
    <3>3. CASE r # w.fifo[1]
      <4>1. PICK k \in DOMAIN w.fifo : w.fifo[k] = r
        BY <1>3 DEF ToSet
      <4>2. k > 1 /\ Len(w.fifo) \in Nat /\ k <= Len(w.fifo)
        BY <1>1, <3>3, <4>1
      <4>3. /\ t.fifo \in Seq(Runs) /\ Len(t.fifo) = Len(w.fifo) - 1
            /\ \A i \in DOMAIN t.fifo : i < k => t.fifo[i] = w.fifo[i]
        BY <1>1, <2>3, <2>4, <4>1, WithoutIs
      <4>4. t.fifo[1] = w.fifo[1]
        BY <4>2, <4>3
      <4> QED BY <2>3, <2>4, <3>1, <3>3, <4>4 DEF Leads
    <3> QED BY <3>2, <3>3
  <2>6. Steady(w, Promote(t)) /\ Promote(t).fifo = Without(w.fifo, r)
    BY <2>2, <2>3, <2>4, PromoteSteady, SteadyOn
  <2>7. Leads(w) => Leads(Promote(t))
    BY <2>2, <2>5, PromoteLeads
  <2> QED BY <1>2, <1>3, <2>6, <2>7
<1>4. CASE r \notin ToSet(w.fifo)
  <2>1. t \in Worlds /\ Steady(w, t) /\ Same(w, t)
    <3>1. CASE cs = {}
      BY <1>1, <1>4, <3>1, SteadyNot
    <3>2. CASE cs # {}
      <4> DEFINE u == Drops(w, cs, r)
      <4>1. t = Terminal(u, {r}, FALSE)
        BY <1>4, <3>2
      <4>2. cs \in SUBSET Runs
        BY <1>1
      <4> HIDE DEF cs, t
      <4>3. Dropped(u, w, cs, r)
        BY <1>1, <4>2, DropsIs
      <4> HIDE DEF u
      <4>4. u \in Worlds /\ Steady(w, u) /\ Same(w, u)
        BY <4>3 DEF Dropped, Steady, Same
      <4>5. t \in Worlds /\ Steady(u, t) /\ Same(u, t)
        BY <4>1, <4>4, TerminalIs, TerminalSteady
      <4> QED BY <4>4, <4>5, SteadyOn, SameOn
    <3> QED BY <3>1, <3>2
  <2> HIDE DEF t
  <2>2. Order(t)
    BY <1>1, <2>1 DEF Order, Same, SameState
  <2>3. Leads(w) => Leads(t)
    BY <1>1, <2>1, SameLeads
  <2>4. Steady(w, Promote(t)) /\ Promote(t).fifo = w.fifo
    BY <2>1, <2>2, PromoteSteady, SteadyOn DEF Same
  <2>5. Leads(w) => Leads(Promote(t))
    BY <2>1, <2>2, <2>3, PromoteLeads
  <2> QED BY <1>2, <1>4, <2>4, <2>5
<1> QED BY <1>3, <1>4

-----------------------------------------------------------------------------
(* The row of turns. *)

LEMMA StepIs ==
  ASSUME NEW v, Becomes(v)
  PROVE  /\ fifo' = v.fifo /\ rec' = v.rec /\ marks' = v.marks /\ out' = v.out
         /\ Steady(World, v) => Steady(World, World')
         /\ Same(World, v) => Same(World, World')
         /\ Leads(v) => Leads(World')
<1>1. /\ World'.fifo = v.fifo /\ World'.rec = v.rec /\ World'.marks = v.marks /\ World'.out = v.out
  BY DEF Becomes, World
<1> QED BY <1>1 DEF Becomes, Steady, Mild, SameKind, Same, SameState, Leads

LEMMA WorldNext ==
  World'.fifo = fifo' /\ World'.rec = rec' /\ World'.marks = marks' /\ World'.out = out'
BY DEF World

LEMMA PlainStays ==
  ASSUME Plain, Steady(World, World'), UNCHANGED <<cancelled, photos>>,
         \A r \in Runs : /\ handler'[r] \in {handler[r], "failing", "done", "failed"}
                         /\ native'[r] \in {native[r], "queued", "running", "ended", "done"}
  PROVE  Plain'
BY WorldIs, WorldNext DEF Plain, Steady, Mild

LEMMA LateStays == ASSUME Late, Steady(World, World') PROVE Late'
BY WorldIs, WorldNext DEF Late, Steady

\* In line: the head of the fifo is the first turn, and the one that sends heads it.
LEMMA HeadOfLine ==
  ASSUME IInv, Ordered, out.strays = {}
  PROVE  /\ fifo \in Seq(Runs) /\ queue \in Seq(Runs) /\ Leads(World)
         /\ fifo = <<>> => Active(World) = None /\ Heading = None
         /\ fifo # <<>> => fifo[1] \in Runs /\ Active(World) = fifo[1] /\ Heading = fifo[1]
         /\ \E d, e \in {0, 1} : InRow(d, e)
<1>1. /\ World \in Worlds /\ Order(World) /\ World.fifo = fifo /\ World.rec = rec
      /\ fifo \in Seq(Runs) /\ queue \in Seq(Runs)
  BY WorldIs DEF IInv, Sound, Worlds, RestOK
<1>2. /\ fifo # <<>> => rec[fifo[1]].state = "active"
      /\ \E d, e \in {0, 1} : InRow(d, e)
  BY DEF Ordered, InLine
<1>3. ASSUME fifo = <<>> PROVE Active(World) = None /\ Heading = None
  <2>1. ToSet(World.fifo) = {}
    BY <1>1, <1>3 DEF ToSet
  <2>2. Active(World) = None /\ Pending(World) = None
    BY <1>1, <2>1, ActiveIs, PendingIs
  <2> QED BY <2>2 DEF Heading
<1>4. ASSUME fifo # <<>> PROVE fifo[1] \in Runs /\ Active(World) = fifo[1] /\ Heading = fifo[1]
  <2>1. fifo[1] \in Runs /\ rec[fifo[1]].state = "active"
    BY <1>1, <1>2, <1>4
  <2>2. Active(World) = fifo[1]
    BY <1>1, <2>1, ActiveIs
  <2> QED BY <2>1, <2>2, NoneAssumption DEF Heading
<1> QED BY <1>1, <1>2, <1>3, <1>4 DEF Leads

\* A run of the fifo that does not send waits, or its dispatch fails.
LEMMA InLineIs ==
  ASSUME IInv, NEW d \in {0, 1}, NEW e \in {0, 1}, InRow(d, e), NEW i \in DOMAIN fifo,
         d = 0 \/ i # 1
  PROVE  /\ fifo[i] \in Runs /\ native[fifo[i]] \in {"queued", "none"}
         /\ native[fifo[i]] = "queued" \/ handler[fifo[i]] = "failing"
<1>1. /\ fifo \in Seq(Runs) /\ queue \in Seq(Runs) /\ i \in 1 .. Len(fifo) /\ Len(queue) \in Nat
  BY WorldIs DEF IInv, Sound, Worlds, RestOK
<1>2. fifo[i] \in Runs
  BY <1>1
<1>3. CASE i - d \in 1 .. Len(queue)
  <2>1. fifo[d + (i - d)] = queue[i - d] /\ d + (i - d) = i
    BY <1>1, <1>3 DEF InRow
  <2>2. queue[i - d] \in ToSet(queue)
    BY <1>1, <1>3 DEF ToSet
  <2>3. native[fifo[i]] = "queued"
    BY <2>1, <2>2 DEF IInv, Stages
  <2> QED BY <1>2, <2>3
<1>4. CASE i - d \notin 1 .. Len(queue)
  <2>1. e = 1 /\ i = Len(fifo)
    BY <1>1, <1>4 DEF InRow
  <2>2. handler[fifo[i]] = "failing"
    BY <1>2, <2>1 DEF InRow
  <2>3. native[fifo[i]] = "none"
    BY <1>2, <2>2 DEF IInv, Stages
  <2> QED BY <1>2, <2>2, <2>3
<1> QED BY <1>3, <1>4

LEMMA LineStays ==
  ASSUME IInv, InLine, Steady(World, World'), Same(World, World'), UNCHANGED <<queue, handler>>,
         out.strays = {} => \A t \in Runs : Sending(t)' <=> Sending(t)
  PROVE  InLine'
<1> SUFFICES ASSUME out'.strays = {} PROVE InLine'
  BY DEF InLine
<1>1. /\ fifo' = fifo /\ out.strays = {} /\ fifo \in Seq(Runs)
      /\ \A r \in Runs : rec'[r].state = rec[r].state
  BY WorldIs, WorldNext DEF IInv, Sound, Worlds, Steady, Same, SameState
<1>2. PICK d, e \in {0, 1} : InRow(d, e)
  BY <1>1 DEF InLine
<1>3. \A t \in Runs : Sending(t)' <=> Sending(t)
  BY <1>1
<1>4. InRow(d, e)'
  BY <1>1, <1>2, <1>3 DEF InRow
<1>5. fifo' # <<>> => rec'[fifo'[1]].state = "active"
  <2> SUFFICES ASSUME fifo # <<>> PROVE rec'[fifo[1]].state = "active"
    BY <1>1
  <2>1. fifo[1] \in Runs /\ rec[fifo[1]].state = "active"
    BY <1>1 DEF InLine
  <2> QED BY <1>1, <2>1
<1> QED BY <1>4, <1>5 DEF InLine

\* The turns behind the one that sends.
Waits(q, e) ==
  /\ q \in Seq(Runs) /\ Len(q) = Len(queue) + e
  /\ \A i \in 1 .. Len(queue) : q[i] = queue[i]
  /\ \A r \in Runs : handler[r] = "failing" <=> e = 1 /\ q[Len(q)] = r

LEMMA TailWaits ==
  ASSUME IInv, NEW d \in {0, 1}, NEW e \in {0, 1}, InRow(d, e)
  PROVE  /\ d = 0 => Waits(fifo, e)
         /\ d = 1 => fifo # <<>> /\ fifo[1] \in Runs /\ Sending(fifo[1]) /\ Waits(Tail(fifo), e)
<1>1. /\ fifo \in Seq(Runs) /\ queue \in Seq(Runs) /\ Len(queue) \in Nat /\ Len(fifo) \in Nat
  BY WorldIs DEF IInv, Sound, Worlds, RestOK
<1>2. CASE d = 0
  BY <1>1, <1>2 DEF InRow, Waits
<1>3. CASE d = 1
  <2> DEFINE q == Tail(fifo)
  <2>1. fifo # <<>> /\ Len(fifo) = 1 + Len(queue) + e /\ fifo[1] \in Runs
    BY <1>1, <1>3 DEF InRow
  <2>2. /\ q \in Seq(Runs) /\ Len(q) = Len(queue) + e
        /\ \A i \in 1 .. Len(q) : q[i] = fifo[i + 1]
    BY <1>1, <2>1
  <2> HIDE DEF q
  <2>3. \A i \in 1 .. Len(queue) : q[i] = queue[i]
    <3> SUFFICES ASSUME NEW i \in 1 .. Len(queue) PROVE q[i] = queue[i]
      OBVIOUS
    <3>1. i \in 1 .. Len(q) /\ i + 1 = 1 + i
      BY <1>1, <2>2
    <3>2. fifo[1 + i] = queue[i]
      BY <1>3 DEF InRow
    <3> QED BY <2>2, <3>1, <3>2
  <2>4. e = 1 => q[Len(q)] = fifo[Len(fifo)]
    <3> SUFFICES ASSUME e = 1 PROVE q[Len(q)] = fifo[Len(fifo)]
      OBVIOUS
    <3>1. Len(q) \in 1 .. Len(q) /\ Len(q) + 1 = Len(fifo)
      BY <1>1, <2>1, <2>2
    <3> QED BY <2>2, <3>1
  <2>5. \A r \in Runs : handler[r] = "failing" <=> e = 1 /\ q[Len(q)] = r
    BY <2>4 DEF InRow
  <2>6. Sending(fifo[1])
    BY <1>3, <2>1 DEF InRow
  <2> QED BY <2>1, <2>2, <2>3, <2>5, <2>6, <1>3 DEF Waits, q
<1> QED BY <1>2, <1>3

\* The turn that sent has left the fifo, and no other sends yet.
LEMMA RowRests ==
  ASSUME NEW e \in {0, 1}, NEW q, Waits(q, e), fifo' = q, queue' = queue,
         \A r \in Runs : handler'[r] = "failing" <=> handler[r] = "failing",
         \A t \in Runs : ~Sending(t)'
  PROVE  InRow(0, e)'
<1>1. queue \in Seq(Runs) => Len(queue) \in Nat
  OBVIOUS
<1>2. Len(fifo') = 0 + Len(queue') + e
  BY DEF Waits
<1>3. \A i \in 1 .. Len(queue') : fifo'[0 + i] = queue'[i]
  BY DEF Waits
<1>4. \A r \in Runs : handler'[r] = "failing" <=> e = 1 /\ fifo'[Len(fifo')] = r
  BY DEF Waits
<1> QED BY <1>2, <1>3, <1>4 DEF InRow

\* A turn is over: the next that was queued runs.
LEMMA LeavesNext ==
  ASSUME IInv, Plain, OneTurn, NEW t \in Runs, native[t] \in AtWork, t \notin probing, Leaves(t),
         UNCHANGED probing
  PROVE  /\ OneTurn'
         /\ queue = <<>> => queue' = <<>> /\ \A x \in Runs : native'[x] \notin AtWork
         /\ queue # <<>> => /\ queue' = Tail(queue) /\ queue[1] \in Runs /\ count[queue[1]] = 0
                            /\ \A x \in Runs : native'[x] \in AtWork <=> x = queue[1]
                            /\ native'[queue[1]] = "running"
<1>1. /\ queue \in Seq(Runs) /\ native \in [Runs -> Turns] /\ native[t] # "dying"
      /\ \A x \in Runs : native[x] \in AtWork => x = t
  BY DEF IInv, RestOK, Plain, OneTurn
<1>2. \A x \in Runs : native'[x] = IF x = t THEN "done"
                                   ELSE IF queue # <<>> /\ x = queue[1] THEN "running" ELSE native[x]
  BY <1>1 DEF Leaves
<1>3. queue' = IF queue # <<>> THEN Tail(queue) ELSE queue
  BY <1>1 DEF Leaves
<1>4. probing = {}
  BY <1>1 DEF OneTurn, AtWork, IInv, RestOK
<1>5. CASE queue = <<>>
  <2>1. \A x \in Runs : native'[x] \notin AtWork
    BY <1>1, <1>2, <1>5 DEF AtWork
  <2> QED BY <1>3, <1>4, <1>5, <2>1 DEF OneTurn
<1>6. CASE queue # <<>>
  <2>1. queue[1] \in Runs /\ queue[1] \in ToSet(queue)
    BY <1>1, <1>6 DEF ToSet
  <2>2. native[queue[1]] = "queued"
    BY <2>1 DEF IInv, Stages
  <2>3. count[queue[1]] = 0
    <3>1. count[queue[1]] \in Nat
      BY <2>1, BoundAssumption DEF IInv, RestOK
    <3>2. ~(count[queue[1]] > 0)
      BY <2>1, <2>2 DEF IInv, Stages, AtWork
    <3> QED BY <3>1, <3>2
  <2>4. queue[1] # t
    BY <2>2 DEF AtWork
  <2>5. native'[queue[1]] = "running" /\ \A x \in Runs : native'[x] \in AtWork <=> x = queue[1]
    BY <1>1, <1>2, <1>6, <2>1, <2>4 DEF AtWork
  <2>6. OneTurn'
    BY <1>4, <2>1, <2>5 DEF OneTurn, AtWork
  <2> QED BY <1>3, <1>6, <2>1, <2>3, <2>5, <2>6
<1> QED BY <1>5, <1>6

LEMMA RowMoves ==
  ASSUME IInv, Plain, OneTurn, NEW t \in Runs, native[t] \in AtWork, t \notin probing, Leaves(t),
         NEW e \in {0, 1}, NEW q, Waits(q, e), fifo' = q, UNCHANGED <<probing, count>>,
         \A r \in Runs : handler'[r] = "failing" <=> handler[r] = "failing"
  PROVE  \E d \in {0, 1} : InRow(d, e)'
<1>1. queue \in Seq(Runs) /\ Len(queue) \in Nat /\ q \in Seq(Runs)
  BY DEF IInv, RestOK, Waits
<1>2. CASE queue = <<>>
  <2>1. queue' = <<>> /\ \A x \in Runs : native'[x] \notin AtWork
    BY <1>2, LeavesNext
  <2>2. \A x \in Runs : ~Sending(x)'
    BY <2>1 DEF Sending, AtWork
  <2>3. InRow(0, e)'
    BY <1>2, <2>1, <2>2, RowRests
  <2> QED BY <2>3
<1>3. CASE queue # <<>>
  <2>1. /\ queue' = Tail(queue) /\ queue[1] \in Runs /\ count[queue[1]] = 0
        /\ \A x \in Runs : native'[x] \in AtWork <=> x = queue[1]
        /\ native'[queue[1]] = "running"
    BY <1>3, LeavesNext
  <2>2. /\ Len(Tail(queue)) = Len(queue) - 1 /\ Len(queue) > 0
        /\ \A i \in 1 .. (Len(queue) - 1) : Tail(queue)[i] = queue[i + 1]
    BY <1>1, <1>3
  <2>3. q[1] = queue[1]
    BY <1>1, <2>2 DEF Waits
  <2>4. Len(fifo') = 1 + Len(queue') + e
    BY <1>1, <2>1, <2>2 DEF Waits
  <2>5. \A i \in 1 .. Len(queue') : fifo'[1 + i] = queue'[i]
    <3> SUFFICES ASSUME NEW i \in 1 .. (Len(queue) - 1) PROVE q[1 + i] = Tail(queue)[i]
      BY <2>1, <2>2
    <3>1. 1 + i \in 1 .. Len(queue) /\ 1 + i = i + 1
      BY <1>1
    <3>2. q[1 + i] = queue[1 + i]
      BY <3>1 DEF Waits
    <3> QED BY <2>2, <3>1, <3>2
  <2>6. \A x \in Runs : Sending(x)' <=> 1 = 1 /\ fifo'[1] = x
    BY <2>1, <2>3 DEF Sending, AtWork
  <2>7. \A r \in Runs : handler'[r] = "failing" <=> e = 1 /\ fifo'[Len(fifo')] = r
    BY DEF Waits
  <2>8. InRow(1, e)'
    BY <2>4, <2>5, <2>6, <2>7 DEF InRow
  <2> QED BY <2>8
<1> QED BY <1>2, <1>3

-----------------------------------------------------------------------------
(* Each action. *)

LEMMA TurnsStay ==
  ASSUME OneTurn, UNCHANGED <<native, queue, probing>>, SameKind(World', World), probing \subseteq Runs
  PROVE  OneTurn'
BY WorldIs, WorldNext DEF OneTurn, SameKind

\* No ledger step.
LEMMA StillIs ==
  ASSUME UNCHANGED ledger
  PROVE  World' = World /\ Steady(World, World') /\ Same(World, World')
<1>1. World' = World
  BY DEF ledger, World
<1> QED BY <1>1, SteadyNot

LEMMA GraceOrdered == ASSUME IInv, Ordered, GraceExpires PROVE Ordered'
<1>1. /\ UNCHANGED <<ledger, cancelled, handler, hermes>> /\ probing \subseteq Runs
  BY DEF GraceExpires, IInv, RestOK
<1>2. Steady(World, World') /\ Same(World, World') /\ SameKind(World', World)
  BY <1>1, StillIs DEF Steady
<1>3. UNCHANGED <<native, queue, photos, probing, text, count, rec>>
  BY <1>1 DEF hermes, ledger
<1>4. Plain'
  BY <1>1, <1>2, <1>3, PlainStays DEF Ordered
<1>5. OneTurn'
  BY <1>1, <1>2, <1>3, TurnsStay DEF Ordered
<1>6. InLine'
  BY <1>1, <1>2, <1>3, LineStays DEF Ordered, Sending
<1> QED BY <1>2, <1>4, <1>5, <1>6, LateStays DEF Ordered

\* A step of the ledger alone that leaves the fifo.
LEMMA LedgerOrdered ==
  ASSUME IInv, Ordered, Steady(World, World'), out.strays = {} => Same(World, World'),
         UNCHANGED <<cancelled, handler, native, queue, photos, probing, count>>
  PROVE  Ordered'
<1>1. SameKind(World', World) /\ out'.strays = out.strays /\ probing \subseteq Runs
  BY WorldIs, WorldNext DEF Steady, IInv, RestOK
<1>2. Plain'
  BY PlainStays DEF Ordered
<1>3. OneTurn'
  BY <1>1, TurnsStay DEF Ordered
<1>4. CASE out.strays = {}
  <2>1. \A t \in Runs : Sending(t)' <=> Sending(t)
    BY <1>1, WorldIs, WorldNext DEF Sending, SameKind
  <2>2. InLine'
    BY <1>4, <2>1, LineStays DEF Ordered
  <2> QED BY <1>2, <1>3, <2>2, LateStays DEF Ordered
<1>5. CASE out.strays # {}
  <2>1. InLine'
    BY <1>1, <1>5 DEF InLine
  <2> QED BY <1>2, <1>3, <2>1, LateStays DEF Ordered
<1> QED BY <1>4, <1>5

LEMMA FallbackOrdered ==
  ASSUME IInv, Ordered, NEW r \in Runs, NEW ok \in BOOLEAN, Fallback(r, ok)
  PROVE  Ordered'
<1> DEFINE v == IF r \in cancelled THEN World ELSE CloseTail(World, r, ok)
<1>1. /\ Becomes(v) /\ UNCHANGED <<cancelled, handler, native, queue, photos, probing, count>>
  BY DEF Fallback, hermes
<1>2. Sound(World, Owing, count) /\ Kept(World, {}) /\ World.marks = {}
  BY WorldIs DEF IInv, Ordered, Plain
<1>3. Steady(World, v) /\ Same(World, v)
  BY <1>2, CloseTailSteady, SteadyNot
<1> HIDE DEF v
<1> QED BY <1>1, <1>3, StepIs, LedgerOrdered

LEMMA HookOrdered == ASSUME IInv, Ordered, NEW t \in Runs, Hook(t) PROVE Ordered'
<1> DEFINE a == Activate(World, Heading)
           v == Marked(a, Heading, FALSE)
<1>1. /\ Becomes(v) /\ UNCHANGED <<cancelled, handler, native, queue, photos, probing, count>>
      /\ Heading # None
  BY DEF Hook, Marked, hermes
<1>2. Heading \in Runs /\ World \in Worlds
  BY <1>1, HeadingIs DEF IInv, Sound
<1>3. Sound(a, Owing, count) /\ Kept(a, {})
  BY <1>1, ActivateHead
<1>4. Steady(World, a) /\ (rec[Heading].state = "active" => Same(World, a))
  BY <1>2, ActivateSteady, WorldIs
<1> HIDE DEF a
<1>5. /\ v.fifo = a.fifo /\ v.marks = a.marks /\ v.out = a.out /\ SameState(v, a)
      /\ Mild(a, v) /\ Closes(a, v)
  BY <1>2, <1>3, MarkedKeeps
<1>6. Steady(a, v) /\ Same(a, v)
  BY <1>5 DEF Steady, Same, Closes, SameRecs
<1> HIDE DEF v
<1>7. Steady(World, v) /\ (rec[Heading].state = "active" => Same(World, v))
  BY <1>4, <1>6, SteadyOn, SameOn
<1>8. ASSUME out.strays = {} PROVE rec[Heading].state = "active"
  <2>1. Heading = fifo[1] /\ fifo # <<>>
    BY <1>1, <1>8, HeadOfLine
  <2> QED BY <1>8, <2>1 DEF Ordered, InLine
<1> QED BY <1>1, <1>7, <1>8, StepIs, LedgerOrdered

LEMMA FinalizeOrdered == ASSUME IInv, Ordered, NEW t \in Runs, Finalize(t) PROVE Ordered'
<1> DEFINE m == Current(t)
           h == Active(World)
           k == Marked(World, h, FALSE)
<1>1. UNCHANGED <<cancelled, handler, native, queue, photos, probing, count>>
  BY DEF Finalize
<1>2. /\ Sound(World, Owing, count) /\ Kept(World, {}) /\ World.marks = {} /\ World \in Worlds
  BY WorldIs DEF IInv, Ordered, Plain, Sound
<1>3. Steady(World, World') /\ Same(World, World')
  <2>1. CASE UNCHANGED ledger
    BY <2>1, StillIs
  <2>2. CASE \E c \in stash : Becomes(CloseTail(World, c[1], c[2]))
    <3>1. PICK c \in stash : Becomes(CloseTail(World, c[1], c[2]))
      BY <2>2
    <3>2. c[1] \in Runs /\ c[2] \in BOOLEAN
      BY DEF IInv, RestOK
    <3>3. Steady(World, CloseTail(World, c[1], c[2])) /\ Same(World, CloseTail(World, c[1], c[2]))
      BY <1>2, <3>2, CloseTailSteady
    <3> QED BY <3>1, <3>3, StepIs
  <2>3. CASE h # None /\ rec[h].msg = m /\ Becomes(Commit(k, m, h)) /\ text[t] = "open"
    <3>1. h \in Runs
      BY <1>2, <2>3, ActiveIs DEF Sound
    <3>2. m \in Messages
      <4>1. m # NoMessage
        BY NoneAssumption DEF Current, NoMessage
      <4>2. World.rec[h] \in Recs
        BY <1>2, <3>1, InFifo
      <4> QED BY <2>3, <4>1, <4>2, WorldIs DEF Recs
    <3>3. /\ k \in Worlds /\ k.fifo = fifo /\ k.marks = {} /\ k.out = out /\ SameState(k, World)
          /\ Mild(World, k) /\ Closes(World, k)
      BY <1>2, <3>1, MarkedKeeps, WorldIs DEF Sound
    <3> HIDE DEF k, m, h
    <3>4. Steady(World, k) /\ Same(World, k)
      BY <3>3, WorldIs DEF Steady, Same, Closes, SameRecs
    <3>5. Steady(k, Commit(k, m, h)) /\ Same(k, Commit(k, m, h))
      BY <3>1, <3>2, <3>3, CommitSteady
    <3> QED BY <2>3, <3>4, <3>5, SteadyOn, SameOn, StepIs
  <2> QED BY <2>1, <2>2, <2>3 DEF Finalize, Marked
<1> QED BY <1>1, <1>3, LedgerOrdered

LEMMA SweepOrdered == ASSUME IInv, Ordered, Sweep PROVE Ordered'
<1> DEFINE h == Active(World)
           p == Pending(World)
<1>1. UNCHANGED <<cancelled, handler, native, queue, photos, probing, count>>
  BY DEF Sweep, hermes
<1>2. /\ Sound(World, Owing, count) /\ Kept(World, {}) /\ World \in Worlds /\ Order(World)
      /\ FALSE \in BOOLEAN
  BY DEF IInv, Sound
<1>3. /\ h # None => h \in Runs /\ rec[h].state = "active" /\ ~rec[h].error
      /\ p # None => p \in Runs /\ p \in ToSet(fifo)
  <2>1. /\ h # None => h \in Runs /\ rec[h].state = "active"
        /\ p # None => p \in Runs /\ p \in ToSet(fifo)
    BY <1>2, ActiveIs, PendingIs, WorldIs
  <2> QED BY <2>1 DEF Ordered, Plain
<1>4. CASE h # None /\ ~Live(h) /\ Becomes(Terminal(Pop(World, h), Sweeps(h), FALSE))
  <2> DEFINE v == Terminal(Pop(World, h), Sweeps(h), FALSE)
  <2>1. Steady(World, v)
    <3>1. World.rec[h].state = "active" /\ h \in Runs
      BY <1>3, <1>4, WorldIs
    <3> HIDE DEF h
    <3>2. PICK ok \in BOOLEAN : v = Terminal(Pop(World, h), Sweeps(h), ok)
      BY <1>2
    <3> HIDE DEF v
    <3> QED BY <1>2, <3>1, <3>2, PopTerminal
  <2>2. out.strays # {}
    <3> SUFFICES ASSUME out.strays = {} PROVE Live(h)
      BY <1>4
    <3>1. h = fifo[1] /\ fifo # <<>> /\ fifo \in Seq(Runs) /\ \E d, e \in {0, 1} : InRow(d, e)
      BY <1>4, HeadOfLine
    <3>2. PICK d, e \in {0, 1} : InRow(d, e)
      BY <3>1
    <3>3. 1 \in DOMAIN fifo
      BY <3>1
    <3>4. CASE d = 1
      BY <1>3, <1>4, <3>1, <3>2, <3>4 DEF InRow, Sending, Live, AtWork
    <3>5. CASE d = 0
      <4>1. native[h] = "queued" \/ handler[h] = "failing"
        BY <3>1, <3>2, <3>3, <3>5, InLineIs
      <4> QED BY <4>1 DEF Live
    <3> QED BY <3>4, <3>5
  <2> HIDE DEF v
  <2> QED BY <1>1, <1>4, <2>1, <2>2, StepIs, LedgerOrdered DEF v
<1>5. CASE h = None /\ p # None /\ Becomes(Terminal(PopOnly(World, p), Sweeps(p), FALSE))
  <2> DEFINE u == PopOnly(World, p)
             v == Terminal(u, Sweeps(p), FALSE)
  <2>1. u \in Worlds /\ Steady(World, u)
    <3>1. p \in ToSet(World.fifo) /\ Once(World.fifo)
      BY <1>2, <1>3, <1>5, WorldIs DEF Order
    <3> QED BY <1>2, <3>1, PopOnlyIs, PopOnlySteady
  <2> HIDE DEF u
  <2>2. Steady(u, v)
    BY <2>1, TerminalSteady
  <2>3. Steady(World, v)
    BY <2>1, <2>2, SteadyOn
  <2>4. out.strays # {}
    <3> SUFFICES ASSUME out.strays = {} PROVE FALSE
      OBVIOUS
    <3>1. fifo = <<>>
      <4> SUFFICES ASSUME fifo # <<>> PROVE FALSE
        OBVIOUS
      <4>1. h = fifo[1] /\ fifo[1] \in Runs
        BY HeadOfLine
      <4> QED BY <1>5, <4>1, NoneAssumption
    <3>2. ToSet(fifo) = {}
      BY <3>1 DEF ToSet
    <3> QED BY <1>3, <1>5, <3>2
  <2>5. Becomes(v)
    BY <1>5 DEF u
  <2> HIDE DEF v
  <2> QED BY <1>1, <2>3, <2>4, <2>5, StepIs, LedgerOrdered
<1> QED BY <1>3, <1>4, <1>5 DEF Sweep

LEMMA EndProbeOrdered == ASSUME IInv, Ordered, NEW t \in Runs, EndProbe(t) PROVE Ordered'
<1>1. /\ UNCHANGED <<ledger, cancelled, handler, native, queue, photos, count>>
      /\ probing' = probing \cup {t} /\ native[t] = "running" /\ rec[t].kind = "turn"
  BY DEF EndProbe, Ordered, Plain
<1>2. Steady(World, World') /\ Same(World, World') /\ World' = World
  BY <1>1, StillIs
<1>3. UNCHANGED rec
  BY <1>1 DEF ledger
<1>4. Plain'
  BY <1>1, <1>2, PlainStays DEF Ordered
<1>5. OneTurn'
  BY <1>1, <1>3 DEF Ordered, OneTurn
<1>6. InLine'
  BY <1>1, <1>2, <1>3, LineStays DEF Ordered, Sending
<1> QED BY <1>2, <1>4, <1>5, <1>6, LateStays DEF Ordered

LEMMA EndIgnoredOrdered == ASSUME IInv, Ordered, NEW t \in Runs, EndIgnored(t) PROVE Ordered'
<1>1. /\ UNCHANGED <<ledger, cancelled, handler, queue, photos, probing, count>>
      /\ native' = [native EXCEPT ![t] = "ended"] /\ native[t] = "running" /\ rec[t].kind = "turn"
      /\ t \notin probing /\ HeadsSlash(Heading)
  BY DEF EndIgnored, Ordered, Plain
<1>2. Steady(World, World') /\ Same(World, World')
  BY <1>1, StillIs
<1>3. UNCHANGED <<rec, out>>
  BY <1>1 DEF ledger
<1>4. \A x \in Runs : native'[x] = IF x = t THEN "ended" ELSE native[x]
  BY <1>1 DEF IInv, RestOK
<1>5. Plain'
  BY <1>1, <1>2, <1>4, PlainStays DEF Ordered
<1>6. OneTurn'
  <2>1. \A x \in Runs : native'[x] \in AtWork <=> native[x] \in AtWork
    BY <1>1, <1>4 DEF AtWork
  <2> QED BY <1>1, <1>3, <1>4, <2>1 DEF Ordered, OneTurn, IInv, RestOK
<1>7. out.strays # {}
  <2> SUFFICES ASSUME out.strays = {} PROVE FALSE
    OBVIOUS
  <2>1. PICK d, e \in {0, 1} : InRow(d, e)
    BY HeadOfLine
  <2>2. Sending(t)
    BY <1>1 DEF Sending
  <2>3. fifo[1] = t /\ fifo # <<>>
    <3>1. d = 1 /\ fifo[1] = t /\ Len(fifo) = d + Len(queue) + e /\ Len(queue) \in Nat
      BY <2>1, <2>2 DEF InRow, IInv, RestOK
    <3> QED BY <3>1
  <2>4. Heading = t
    BY <2>3, HeadOfLine
  <2> QED BY <1>1, <2>4 DEF HeadsSlash
<1>8. InLine'
  BY <1>3, <1>7 DEF InLine
<1> QED BY <1>2, <1>5, <1>6, <1>8, LateStays DEF Ordered

\* What orderly behaviours leave out.
LEMMA NeverOrdered ==
  ASSUME Ordered, Orderly, NEW r \in Runs
  PROVE  ~Stop(r) /\ ~StopBegins(r) /\ ~HandStop(r) /\ ~Refuse(r)
BY DEF Ordered, Plain, Orderly, Stop, StopBegins, HandStop, Refuse

\* The one turn at work sends, or none does.
LEMMA WorkerSends ==
  ASSUME IInv, Ordered, NEW d \in {0, 1}, NEW e \in {0, 1}, InRow(d, e), NEW t \in Runs,
         native[t] \in AtWork
  PROVE  /\ Sending(t) => d = 1 /\ fifo # <<>> /\ fifo[1] = t /\ Waits(Tail(fifo), e)
         /\ ~Sending(t) => d = 0 /\ t \notin ToSet(fifo) /\ Waits(fifo, e)
<1>1. CASE d = 1
  <2>1. fifo # <<>> /\ fifo[1] \in Runs /\ Sending(fifo[1]) /\ Waits(Tail(fifo), e)
    BY <1>1, TailWaits
  <2>2. fifo[1] = t
    BY <2>1 DEF Sending, AtWork, Ordered, OneTurn
  <2> QED BY <1>1, <2>1, <2>2
<1>2. CASE d = 0
  <2>1. ~Sending(t)
    BY <1>2 DEF InRow
  <2>2. \A i \in DOMAIN fifo : native[fifo[i]] \in {"queued", "none"}
    BY <1>2, InLineIs
  <2>3. t \notin ToSet(fifo)
    BY <2>2 DEF ToSet, AtWork
  <2> QED BY <1>2, <2>1, <2>3, TailWaits
<1> QED BY <1>1, <1>2

LEMMA EndPopOrdered ==
  ASSUME IInv, Ordered, NEW t \in Runs, NEW ok \in BOOLEAN, EndPop(t, ok)
  PROVE  Ordered'
<1> DEFINE h == Active(World)
<1>1. /\ t \in probing /\ probing' = probing \ {t} /\ native[t] = "running" /\ rec[t].kind = "turn"
      /\ native' = [native EXCEPT ![t] = "ended"]
      /\ UNCHANGED <<cancelled, handler, queue, photos, count>>
  BY DEF EndPop, Ordered, OneTurn, IInv, RestOK
<1>2. /\ Sound(World, Owing, count) /\ World \in Worlds /\ Order(World) /\ probing \subseteq Runs
      /\ World.marks = {}
  BY WorldIs DEF IInv, Sound, RestOK, Ordered, Plain
<1>3. h # None => h \in Runs /\ World.rec[h].state = "active"
  BY <1>2, ActiveIs
<1>4. /\ Steady(World, World')
      /\ Leads(World) /\ h # None => fifo # <<>> /\ fifo' = Tail(fifo) /\ Leads(World')
  <2>1. CASE h = None
    BY <2>1, StillIs DEF EndPop
  <2>2. CASE h # None
    <3>1. PICK v : /\ Becomes(v)
                   /\ \/ v = Pop(World, h)
                      \/ v = Terminal(CommitOpen(Pop(World, h), h), Group(World, h), ok)
      BY <2>2 DEF EndPop
    <3> HIDE DEF h
    <3>2. /\ Steady(World, v)
          /\ Leads(World) => World.fifo # <<>> /\ v.fifo = Tail(World.fifo) /\ Leads(v)
      BY <1>2, <1>3, <2>2, <3>1, PopTerminal, PopTailSteady
    <3> QED BY <3>1, <3>2, StepIs, WorldIs
  <2> QED BY <2>1, <2>2
<1>5. \A x \in Runs : native'[x] = IF x = t THEN "ended" ELSE native[x]
  BY <1>1 DEF IInv, RestOK
<1>6. Plain'
  BY <1>1, <1>4, <1>5, PlainStays DEF Ordered
<1>7. SameKind(World', World) /\ out'.strays = out.strays
  BY <1>4, WorldIs, WorldNext DEF Steady
<1>8. OneTurn' /\ \A x \in Runs : native'[x] # "running"
  <2>1. \A x \in Runs : native'[x] \in AtWork <=> native[x] \in AtWork
    BY <1>1, <1>5 DEF AtWork
  <2>2. \A x \in Runs : native[x] \in AtWork => x = t
    BY <1>1 DEF Ordered, OneTurn, AtWork
  <2>3. \A x \in Runs : native'[x] # "running"
    BY <1>5, <2>2 DEF AtWork
  <2>4. probing' = {}
    BY <1>1, <1>2, <2>2 DEF Ordered, OneTurn, AtWork
  <2> QED BY <1>1, <2>1, <2>3, <2>4 DEF Ordered, OneTurn
<1>9. InLine'
  <2> SUFFICES ASSUME out.strays = {} PROVE InLine'
    BY <1>7 DEF InLine
  <2>1. PICK d, e \in {0, 1} : InRow(d, e)
    BY HeadOfLine
  <2>2. Sending(t) /\ native[t] \in AtWork
    BY <1>1 DEF Sending, AtWork
  <2>3. d = 1 /\ fifo # <<>> /\ fifo[1] = t /\ Waits(Tail(fifo), e)
    BY <2>1, <2>2, WorkerSends
  <2>4. h = t /\ Leads(World)
    BY <2>3, HeadOfLine
  <2>5. fifo' = Tail(fifo) /\ Leads(World')
    BY <1>4, <2>4, NoneAssumption
  <2>6. \A x \in Runs : ~Sending(x)'
    BY <1>8 DEF Sending
  <2>7. InRow(0, e)'
    BY <1>1, <2>3, <2>5, <2>6, RowRests
  <2> QED BY <2>5, <2>7, WorldNext DEF InLine, Leads
<1> QED BY <1>4, <1>6, <1>8, <1>9, LateStays DEF Ordered

\* Hermes leaves a turn: of the ledger's records it takes the one that sent, if any.
LEMMA TurnOver ==
  ASSUME IInv, Ordered, NEW t \in Runs, native[t] \in AtWork, t \notin probing, Leaves(t),
         Steady(World, World'), UNCHANGED <<cancelled, photos, probing, count>>,
         \A r \in Runs : handler'[r] \in {handler[r], "failed"},
         \A r \in Runs : handler'[r] = "failing" <=> handler[r] = "failing",
         Leads(World) =>
           /\ Leads(World')
           /\ Sending(t) /\ fifo # <<>> /\ fifo[1] = t => fifo' = Tail(fifo)
           /\ ~Sending(t) /\ t \notin ToSet(fifo) => fifo' = fifo
  PROVE  Ordered'
<1>1. native \in [Runs -> Turns] /\ \A x \in Runs : native'[x] \in {native[x], "done", "running"}
  BY DEF Leaves, IInv, RestOK
<1>2. Plain'
  BY <1>1, PlainStays DEF Ordered
<1>3. OneTurn'
  BY LeavesNext DEF Ordered
<1>4. InLine'
  <2> SUFFICES ASSUME out'.strays = {} PROVE InLine'
    BY DEF InLine
  <2>1. out.strays = {}
    BY WorldIs, WorldNext DEF Steady
  <2>2. PICK d, e \in {0, 1} : InRow(d, e)
    BY <2>1, HeadOfLine
  <2>3. Leads(World)
    BY <2>1, HeadOfLine
  <2>4. Waits(fifo', e)
    <3>1. CASE Sending(t)
      BY <2>2, <2>3, <3>1, WorkerSends
    <3>2. CASE ~Sending(t)
      BY <2>2, <2>3, <3>2, WorkerSends
    <3> QED BY <3>1, <3>2
  <2>5. \E c \in {0, 1} : InRow(c, e)'
    BY <2>4, RowMoves DEF Ordered
  <2>6. PICK c \in {0, 1} : InRow(c, e)'
    BY <2>5
  <2>7. fifo' # <<>> => rec'[fifo'[1]].state = "active"
    BY <2>3, WorldNext DEF Leads
  <2> QED BY <2>6, <2>7 DEF InLine
<1> QED BY <1>2, <1>3, <1>4, LateStays DEF Ordered

LEMMA CompleteOrdered ==
  ASSUME IInv, Ordered, NEW t \in Runs, NEW ok \in BOOLEAN, Complete(t, ok)
  PROVE  Ordered'
<1> DEFINE h == Active(World)
           v == Terminal(CommitOpen(Pop(World, h), h), Group(World, h), ok)
<1>1. /\ native[t] \in AtWork /\ t \notin probing /\ Leaves(t)
      /\ Becomes(IF h = t THEN v ELSE World)
      /\ UNCHANGED <<cancelled, photos, handler, probing, count>>
  BY DEF Complete, Owns, Ordered, Plain
<1>2. Sound(World, Owing, count) /\ World \in Worlds /\ Order(World) /\ World.marks = {}
  BY WorldIs DEF IInv, Sound, Ordered, Plain
<1>3. CASE h = t
  <2>1. World.rec[h].state = "active" /\ h \in Runs
    BY <1>2, <1>3, ActiveIs, NoneAssumption
  <2>2. /\ Steady(World, v)
        /\ Leads(World) => World.fifo # <<>> /\ h = World.fifo[1] /\ v.fifo = Tail(World.fifo) /\ Leads(v)
    <3> HIDE DEF h
    <3> QED BY <1>2, <2>1, PopTailSteady
  <2> HIDE DEF v
  <2>3. h \in ToSet(fifo)
    BY <1>2, <2>1, WorldIs DEF Order
  <2>4. Steady(World, World') /\ (Leads(World) => fifo' = Tail(fifo) /\ Leads(World'))
    BY <1>1, <1>3, <2>2, StepIs, WorldIs
  <2> QED BY <1>1, <1>3, <2>3, <2>4, TurnOver
<1>4. CASE h # t
  <2>1. Steady(World, World') /\ Same(World, World') /\ fifo' = fifo
    BY <1>1, <1>4, SteadyNot, StepIs, WorldIs
  <2>2. Leads(World) => Leads(World')
    BY <1>2, <2>1, SameLeads
  <2>3. Leads(World) /\ fifo # <<>> => h = fifo[1]
    <3> SUFFICES ASSUME Leads(World), fifo # <<>> PROVE h = fifo[1]
      OBVIOUS
    <3>1. fifo \in Seq(Runs)
      BY <1>2, WorldIs DEF Worlds
    <3>2. fifo[1] \in Runs /\ World.rec[fifo[1]].state = "active"
      BY <3>1, WorldIs DEF Leads
    <3> QED BY <1>2, <3>2, ActiveIs
  <2> QED BY <1>1, <1>4, <2>1, <2>2, <2>3, TurnOver
<1> QED BY <1>3, <1>4

\* The dispatch that failed was the last of the row.
LEMMA LastLeaves ==
  ASSUME IInv, NEW d \in {0, 1}, NEW e \in {0, 1}, InRow(d, e), NEW r \in Runs,
         handler[r] = "failing", fifo' = Without(fifo, r), UNCHANGED queue,
         \A x \in Runs : Sending(x)' <=> Sending(x),
         \A x \in Runs : handler'[x] = IF x = r THEN "failed" ELSE handler[x]
  PROVE  InRow(d, 0)'
<1> DEFINE q == Without(fifo, r)
           n == Len(fifo)
<1>1. /\ fifo \in Seq(Runs) /\ queue \in Seq(Runs) /\ Len(queue) \in Nat /\ Once(fifo) /\ n \in Nat
  BY WorldIs DEF IInv, Sound, Worlds, RestOK, Order
<1>2. e = 1 /\ fifo[n] = r /\ n = d + Len(queue) + 1
  BY DEF InRow
<1>3. n \in DOMAIN fifo
  BY <1>1, <1>2
<1>4. /\ q \in Seq(Runs) /\ Len(q) = n - 1 /\ \A i \in DOMAIN q : i < n => q[i] = fifo[i]
  BY <1>1, <1>2, <1>3, WithoutIs
<1> HIDE DEF q, n
<1>5. \A i \in 1 .. (d + Len(queue)) : q[i] = fifo[i]
  BY <1>1, <1>2, <1>4
<1>6. Len(fifo') = d + Len(queue') + 0
  BY <1>1, <1>2, <1>4 DEF q
<1>7. \A i \in 1 .. Len(queue') : fifo'[d + i] = queue'[i]
  <2> SUFFICES ASSUME NEW i \in 1 .. Len(queue) PROVE q[d + i] = queue[i]
    BY DEF q
  <2>1. d + i \in 1 .. (d + Len(queue)) /\ fifo[d + i] = queue[i]
    BY <1>1 DEF InRow
  <2> QED BY <1>5, <2>1
<1>8. \A x \in Runs : Sending(x)' <=> d = 1 /\ fifo'[1] = x
  <2>1. d = 1 => q[1] = fifo[1]
    BY <1>1, <1>5
  <2> QED BY <2>1 DEF InRow, q
<1>9. \A x \in Runs : handler'[x] = "failing" <=> 0 = 1 /\ fifo'[Len(fifo')] = x
  BY <1>2 DEF InRow
<1> QED BY <1>6, <1>7, <1>8, <1>9 DEF InRow

LEMMA FailsOrdered == ASSUME IInv, Ordered, NEW r \in Runs, Fails(r) PROVE Ordered'
<1> DEFINE v == Discard(World, r)
<1>1. /\ \/ handler[r] = "failing" /\ UNCHANGED <<native, queue>>
         \/ rec[r].kind = "slash" /\ native[r] = "running" /\ Leaves(r)
      /\ Becomes(v) /\ UNCHANGED <<cancelled, photos, probing, count>>
      /\ handler' = [handler EXCEPT ![r] = "failed"]
  BY DEF Fails, Ordered, Plain
<1>2. /\ Sound(World, Owing, count) /\ Kept(World, {}) /\ World \in Worlds /\ Once(fifo)
      /\ fifo \in Seq(Runs) /\ probing \subseteq Runs
  BY WorldIs DEF IInv, Sound, Worlds, Order, RestOK
<1>3. /\ Steady(World, v) /\ (Leads(World) => Leads(v))
      /\ v.fifo = IF r \in ToSet(fifo) THEN Without(fifo, r) ELSE fifo
  BY <1>2, DiscardSteady, WorldIs
<1> HIDE DEF v
<1>4. /\ Steady(World, World') /\ (Leads(World) => Leads(World'))
      /\ fifo' = IF r \in ToSet(fifo) THEN Without(fifo, r) ELSE fifo
  BY <1>1, <1>3, StepIs
<1>5. \A x \in Runs : handler'[x] = IF x = r THEN "failed" ELSE handler[x]
  BY <1>1 DEF IInv, RestOK
<1>6. SameKind(World', World) /\ out'.strays = out.strays
  BY <1>4, WorldIs, WorldNext DEF Steady
<1>7. CASE handler[r] = "failing" /\ UNCHANGED <<native, queue>>
  <2>1. Plain'
    BY <1>1, <1>4, <1>5, <1>7, PlainStays DEF Ordered
  <2>2. OneTurn'
    BY <1>1, <1>2, <1>6, <1>7, TurnsStay DEF Ordered
  <2>3. InLine'
    <3> SUFFICES ASSUME out.strays = {} PROVE InLine'
      BY <1>6 DEF InLine
    <3>1. Leads(World) /\ \E d, e \in {0, 1} : InRow(d, e)
      BY HeadOfLine
    <3>2. PICK d, e \in {0, 1} : InRow(d, e)
      BY <3>1
    <3>3. e = 1 /\ fifo[Len(fifo)] = r /\ Len(fifo) = d + Len(queue) + 1 /\ Len(queue) \in Nat
      BY <1>7, <3>2 DEF InRow, IInv, RestOK
    <3>4. r \in ToSet(fifo)
      BY <1>2, <3>3 DEF ToSet
    <3>5. \A x \in Runs : Sending(x)' <=> Sending(x)
      BY <1>1, <1>6, <1>7, WorldIs, WorldNext DEF Sending, SameKind
    <3>6. InRow(d, 0)'
      BY <1>4, <1>5, <1>7, <3>2, <3>4, <3>5, LastLeaves
    <3>7. fifo' # <<>> => rec'[fifo'[1]].state = "active"
      BY <1>4, <3>1, WorldNext DEF Leads
    <3> QED BY <3>6, <3>7 DEF InLine
  <2> QED BY <1>4, <2>1, <2>2, <2>3, LateStays DEF Ordered
<1>8. CASE rec[r].kind = "slash" /\ native[r] = "running" /\ Leaves(r)
  <2>1. r \notin probing /\ native[r] \in AtWork
    BY <1>8 DEF Ordered, OneTurn, AtWork
  <2>2. handler[r] # "failing"
    BY <1>8 DEF IInv, Stages
  <2>3. fifo # <<>> /\ fifo[1] = r => r \in ToSet(fifo) /\ fifo' = Tail(fifo)
    <3> SUFFICES ASSUME fifo # <<>>, fifo[1] = r PROVE r \in ToSet(fifo) /\ fifo' = Tail(fifo)
      OBVIOUS
    <3>1. r \in ToSet(fifo)
      BY <1>2 DEF ToSet
    <3> QED BY <1>2, <1>4, <3>1, WithoutFirst
  <2> QED BY <1>1, <1>4, <1>5, <1>8, <2>1, <2>2, <2>3, TurnOver
<1> QED BY <1>1, <1>7, <1>8

\* A message that meets another run is noted; nothing else changes.
LEMMA StampIs ==
  ASSUME NEW w \in Worlds, NEW t \in Runs, NEW r \in Runs \cup {None},
         When(t) \in Turns \cup {"expected"}
  PROVE  LET v == Stamp(w, t, r) IN
         /\ v \in Worlds /\ Same(w, v) /\ Mild(w, v) /\ SameKind(v, w)
         /\ v.out.strays = IF r = t \/ w.out.strays # {} THEN w.out.strays
                           ELSE {<<t, When(t), r>>}
<1> DEFINE s == w.out.strays \cup {<<t, When(t), r>>}
           o == [w.out EXCEPT !.strays = s]
           u == [w EXCEPT !.out = o]
           v == Stamp(w, t, r)
<1>1. w.out \in Outs
  BY DEF Worlds
<1>2. IF r = t \/ w.out.strays # {} THEN v = w ELSE v = u
  BY DEF Stamp
<1> HIDE DEF v
<1>3. s \subseteq Runs \X (Turns \cup {"expected"}) \X (Runs \cup {None})
  BY <1>1 DEF Outs
<1> HIDE DEF s
<1>4. o.strays = s /\ o \in Outs
  BY <1>1, <1>3 DEF Outs
<1> HIDE DEF o
<1>5. u \in Worlds /\ u.fifo = w.fifo /\ u.marks = w.marks /\ u.out = o /\ u.rec = w.rec
  BY <1>1, <1>4 DEF Worlds
<1> HIDE DEF u
<1>6. v \in Worlds /\ v.fifo = w.fifo /\ v.marks = w.marks /\ v.rec = w.rec
  BY <1>2, <1>5
<1>7. v.out.strays = IF r = t \/ w.out.strays # {} THEN w.out.strays ELSE {<<t, When(t), r>>}
  BY <1>2, <1>4, <1>5 DEF s
<1> QED BY <1>6, <1>7 DEF Same, SameState, Mild, SameKind, v

\* What a send under no cancellation does, and which run it stamps.
Sends(v, x, t) ==
  LET m == Following(t)
      r == Heading
  IN \/ HeadsSlash(r) /\ x = r /\ v = SlashReply(World, m, r)
     \/ ~HeadsSlash(r) /\ r # None /\ x = r /\ v = Opens(World, m, r)
     \/ r = None /\ x = None /\ v = Adds(World, m, None)
     \/ r = None /\ lastEnded # None /\ x = lastEnded /\ v = Commit(World, m, lastEnded)

LEMMA SendIs ==
  ASSUME IInv, NEW t \in Runs, Send(t), t \notin cancelled
  PROVE  \E x \in Runs \cup {None} : \E v \in Worlds : Sends(v, x, t) /\ Becomes(Stamp(v, t, x))
<1> DEFINE m == Following(t)
           r == Heading
<1>1. r = None \/ r \in Runs
  BY HeadingIs
<1>2. lastEnded \in Runs \cup {None}
  BY DEF IInv, RestOK
<1>3. SendsUnder(t, m) /\ Sound(World, Owing, count') /\ Fresh(World, m, count')
      /\ count' \in [Runs -> Nat]
  BY SendFresh DEF Send
<1>4. \E x \in Runs \cup {None} : \E v : Sends(v, x, t) /\ Becomes(Stamp(v, t, x))
  <2>1. CASE HeadsSlash(r)
    <3> DEFINE v == SlashReply(World, m, r)
    <3>1. Becomes(Stamp(v, t, r)) /\ r \in Runs
      BY <1>1, <1>3, <2>1 DEF SendsUnder, HeadsSlash
    <3>2. Sends(v, r, t)
      BY <2>1 DEF Sends
    <3> HIDE DEF v, r
    <3> QED BY <3>1, <3>2
  <2>2. CASE ~HeadsSlash(r) /\ r # None
    <3> DEFINE v == Opens(World, m, r)
    <3>1. Becomes(Stamp(v, t, r)) /\ r \in Runs
      BY <1>1, <1>3, <2>2 DEF SendsUnder
    <3>2. Sends(v, r, t)
      BY <2>2 DEF Sends
    <3> HIDE DEF v, r
    <3> QED BY <3>1, <3>2
  <2>3. CASE r = None /\ lastEnded = None
    <3> DEFINE v == Adds(World, m, None)
    <3>1. Becomes(Stamp(v, t, None))
      BY <1>3, <2>3 DEF SendsUnder, HeadsSlash, Uncorrelated, Adds
    <3>2. Sends(v, None, t)
      BY <2>3 DEF Sends
    <3> HIDE DEF v, r
    <3> QED BY <3>1, <3>2
  <2>4. CASE r = None /\ lastEnded # None
    <3> DEFINE v == Commit(World, m, lastEnded)
    <3>1. Becomes(Stamp(v, t, lastEnded)) /\ lastEnded \in Runs
      BY <1>2, <1>3, <2>4 DEF SendsUnder, HeadsSlash
    <3>2. Sends(v, lastEnded, t)
      BY <2>4 DEF Sends
    <3> HIDE DEF v, r
    <3> QED BY <3>1, <3>2
  <2> QED BY <2>1, <2>2, <2>3, <2>4 DEF HeadsSlash
<1>5. ASSUME NEW x \in Runs \cup {None}, NEW v, Sends(v, x, t) PROVE v \in Worlds
  <2>1. Shows(World, v, count')
    <3>1. \/ HeadsSlash(r) /\ v = SlashReply(World, m, r)
          \/ ~HeadsSlash(r) /\ r # None /\ v = Opens(World, m, r)
          \/ v = Adds(World, m, None)
          \/ lastEnded # None /\ v = Commit(World, m, lastEnded)
      BY <1>5 DEF Sends
    <3> HIDE DEF m
    <3> QED BY <1>3, <3>1, SendShows
  <2> QED BY <2>1 DEF Shows, Sound
<1> QED BY <1>4, <1>5

LEMMA SendsSteady ==
  ASSUME IInv, Ordered, NEW t \in Runs, NEW x \in Runs \cup {None}, NEW v, Sends(v, x, t),
         Following(t) \in Messages
  PROVE  /\ Steady(World, v)
         /\ HeadsSlash(Heading) /\ Leads(World) => v.fifo = Tail(fifo) /\ Leads(v)
         /\ ~HeadsSlash(Heading) /\ Leads(World) => Same(World, v)
<1> DEFINE m == Following(t)
           r == Heading
<1>1. /\ World \in Worlds /\ Order(World) /\ Sound(World, Owing, count) /\ World.marks = {}
      /\ World.rec = rec /\ World.fifo = fifo
  BY WorldIs DEF IInv, Sound, Ordered, Plain
<1>2. r # None => r \in Runs /\ r \in ToSet(fifo) /\ \A y \in Runs : rec[y].state = "active" => y = r
  BY HeadingIs
<1>3. CASE HeadsSlash(r) /\ v = SlashReply(World, m, r)
  <2>1. r \in Runs /\ World.rec[r].state = "active"
    BY <1>1, <1>2, <1>3, ActiveIs DEF HeadsSlash
  <2> HIDE DEF m, r
  <2>2. /\ Steady(World, v)
        /\ Leads(World) => World.fifo # <<>> /\ r = World.fifo[1] /\ v.fifo = Tail(World.fifo) /\ Leads(v)
    BY <1>1, <1>3, <2>1, SlashReplySteady DEF m
  <2> QED BY <1>1, <1>3, <2>2 DEF r
<1>4. CASE ~HeadsSlash(r) /\ r # None /\ v = Opens(World, m, r)
  <2>1. r \in Runs
    BY <1>2, <1>4
  <2>2. Steady(World, v) /\ (World.rec[r].state = "active" => Same(World, v))
    <3> HIDE DEF m, r
    <3> QED BY <1>1, <1>4, <2>1, OpensSteady DEF m
  <2>3. Leads(World) => World.rec[r].state = "active"
    <3> SUFFICES ASSUME Leads(World) PROVE World.rec[r].state = "active"
      OBVIOUS
    <3>1. fifo # <<>> /\ fifo \in Seq(Runs)
      BY <1>1, <1>2, <1>4 DEF ToSet, Worlds
    <3>2. fifo[1] \in Runs /\ rec[fifo[1]].state = "active"
      BY <1>1, <3>1 DEF Leads
    <3> QED BY <1>1, <1>2, <1>4, <3>2
  <2> QED BY <1>4, <2>2, <2>3
<1>5. CASE r = None /\ v = Adds(World, m, None)
  <2>1. Steady(World, v) /\ Same(World, v)
    <3> HIDE DEF m
    <3> QED BY <1>1, <1>5, AddsSteady DEF m
  <2> QED BY <1>5, <2>1 DEF HeadsSlash
<1>6. CASE r = None /\ lastEnded # None /\ v = Commit(World, m, lastEnded)
  <2>1. lastEnded \in Runs
    BY <1>6 DEF IInv, RestOK
  <2>2. Steady(World, v) /\ Same(World, v)
    <3> HIDE DEF m
    <3> QED BY <1>1, <1>6, <2>1, CommitSteady DEF m
  <2> QED BY <1>6, <2>2 DEF HeadsSlash
<1> QED BY <1>3, <1>4, <1>5, <1>6 DEF Sends

LEMMA SendOrdered == ASSUME IInv, Ordered, NEW t \in Runs, Send(t) PROVE Ordered'
<1>1. /\ UNCHANGED <<cancelled, handler, native, queue, photos, probing>>
      /\ count[t] < setup.messages /\ count' = [count EXCEPT ![t] = @ + 1]
      /\ rec[t].kind = "slash" => count[t] = 0
      /\ t \notin cancelled
  BY DEF Send, Ordered, Plain
<1>2. native[t] \in {"running", "ended"} /\ probing \subseteq Runs /\ World \in Worlds
  BY DEF Send, AtWork, Ordered, Plain, IInv, RestOK, Sound
<1>3. /\ Following(t) \in Messages /\ count'[t] = count[t] + 1 /\ count[t] \in Nat
      /\ \A y \in Runs : y # t => count'[y] = count[y]
  BY <1>1, SendFresh
<1>4. PICK x \in Runs \cup {None} : \E v \in Worlds : Sends(v, x, t) /\ Becomes(Stamp(v, t, x))
  BY <1>1, SendIs
<1>5. PICK v \in Worlds : Sends(v, x, t) /\ Becomes(Stamp(v, t, x))
  BY <1>4
<1>6. /\ Steady(World, v)
      /\ HeadsSlash(Heading) /\ Leads(World) => v.fifo = Tail(fifo) /\ Leads(v)
      /\ ~HeadsSlash(Heading) /\ Leads(World) => Same(World, v)
  BY <1>3, <1>5, SendsSteady
<1>7. When(t) \in Turns \cup {"expected"} /\ (native[t] = "ended" => When(t) \in {"ended", "expected"})
  BY DEF When, IInv, RestOK
<1> DEFINE u == Stamp(v, t, x)
<1>8. /\ u \in Worlds /\ Same(v, u) /\ Mild(v, u) /\ SameKind(u, v)
      /\ u.out.strays = IF x = t \/ v.out.strays # {} THEN v.out.strays ELSE {<<t, When(t), x>>}
  BY <1>7, StampIs
<1>9. World' = u
  BY <1>5, <1>8, BecomesIs
<1> HIDE DEF u
<1>10. /\ Mild(World, World') /\ SameKind(World', World)
       /\ out'.strays = IF x = t \/ out.strays # {} THEN out.strays ELSE {<<t, When(t), x>>}
  <2>1. Mild(World, u) /\ SameKind(u, World)
    BY <1>6, <1>8 DEF Steady, Mild, SameKind
  <2> QED BY <1>6, <1>8, <1>9, <2>1, WorldIs, WorldNext DEF Steady
<1>11. Plain'
  BY <1>1, <1>10, WorldIs, WorldNext DEF Ordered, Plain, Mild
<1>12. OneTurn'
  BY <1>1, <1>2, <1>10, TurnsStay DEF Ordered
<1>13. CASE out.strays # {}
  <2>1. out'.strays = out.strays
    BY <1>10, <1>13
  <2> QED BY <1>11, <1>12, <1>13, <2>1 DEF Ordered, InLine, Late
<1>14. CASE out.strays = {}
  <2>1. PICK d, e \in {0, 1} : InRow(d, e)
    BY <1>14, HeadOfLine
  <2>2. Leads(World) /\ native[t] \in AtWork
    BY <1>2, <1>14, HeadOfLine DEF AtWork
  <2>3. CASE native[t] = "running"
    <3>1. Sending(t)
      <4>1. rec[t].kind \in {"turn", "slash"}
        BY <1>2, WorldIs, InFifo DEF Recs
      <4> QED BY <1>1, <2>3, <4>1 DEF Sending
    <3>2. d = 1 /\ fifo # <<>> /\ fifo[1] = t /\ Waits(Tail(fifo), e)
      BY <2>1, <2>2, <3>1, WorkerSends
    <3>3. Heading = t /\ Active(World) = t
      BY <1>14, <3>2, HeadOfLine
    <3>4. x = t
      BY <1>5, <3>3, NoneAssumption DEF Sends
    <3>5. out'.strays = {} /\ Same(v, World') /\ Steady(World, World')
      BY <1>8, <1>9, <1>10, <1>14, <3>4, WorldIs, WorldNext DEF Steady
    <3>6. \A y \in Runs : rec'[y].kind = rec[y].kind
      BY <1>10, WorldIs, WorldNext DEF SameKind
    <3>7. InLine'
      <4>1. CASE HeadsSlash(Heading)
        <5>1. fifo' = Tail(fifo) /\ Leads(World')
          <6>1. v.fifo = Tail(fifo) /\ Leads(v)
            BY <1>6, <2>2, <4>1
          <6>2. Leads(World')
            BY <3>5, <6>1, SameLeads
          <6> QED BY <3>5, <6>1, <6>2, WorldNext DEF Same
        <5>2. \A y \in Runs : ~Sending(y)'
          <6>1. rec[t].kind = "slash"
            BY <3>3, <4>1 DEF HeadsSlash
          <6>2. rec'[t].kind # "turn" /\ count'[t] # 0
            BY <1>3, <3>6, <6>1
          <6>3. \A y \in Runs : native'[y] = "running" => y = t
            BY <1>1, <2>2 DEF Ordered, OneTurn, AtWork
          <6> QED BY <6>2, <6>3 DEF Sending
        <5>3. InRow(0, e)'
          BY <1>1, <3>2, <5>1, <5>2, RowRests
        <5> QED BY <5>1, <5>3, WorldNext DEF InLine, Leads
      <4>2. CASE ~HeadsSlash(Heading)
        <5>1. Same(World, World')
          BY <1>6, <2>2, <3>5, <4>2, SameOn
        <5>2. rec[t].kind = "turn"
          <6>1. rec[t].kind \in {"turn", "slash"}
            BY <1>2, WorldIs, InFifo DEF Recs
          <6> QED BY <3>3, <4>2, <6>1, NoneAssumption DEF HeadsSlash
        <5>3. \A y \in Runs : Sending(y)' <=> Sending(y)
          BY <1>1, <1>3, <3>6, <5>2 DEF Sending
        <5> QED BY <1>1, <3>5, <5>1, <5>3, LineStays DEF Ordered
      <4> QED BY <4>1, <4>2
    <3>8. Late'
      BY <3>5 DEF Late
    <3> QED BY <1>11, <1>12, <3>7, <3>8 DEF Ordered
  <2>4. CASE native[t] = "ended"
    <3>1. ~Sending(t)
      BY <2>4 DEF Sending
    <3>2. d = 0 /\ t \notin ToSet(fifo)
      BY <2>1, <2>2, <3>1, WorkerSends
    <3>3. Late'
      BY <1>7, <1>10, <1>14, <2>4 DEF Late
    <3>4. InLine'
      <4> SUFFICES ASSUME out'.strays = {} PROVE InLine'
        BY DEF InLine
      <4>1. x = t
        BY <1>10, <1>14
      <4>2. Heading = None
        BY <1>5, <3>2, <4>1, HeadingIs DEF Sends, HeadsSlash
      <4>3. Same(World, World') /\ Steady(World, World')
        <5>1. Same(World, v)
          BY <1>6, <2>2, <4>2 DEF HeadsSlash
        <5>2. Same(World, World')
          BY <1>8, <1>9, <5>1, SameOn
        <5> QED BY <1>10, <1>14, <5>2, WorldIs, WorldNext DEF Steady
      <4>4. \A y \in Runs : Sending(y)' <=> Sending(y)
        <5>1. \A y \in Runs : rec'[y].kind = rec[y].kind
          BY <1>10, WorldIs, WorldNext DEF SameKind
        <5> QED BY <1>1, <1>3, <2>4, <5>1 DEF Sending
      <4> QED BY <1>1, <4>3, <4>4, LineStays DEF Ordered
    <3> QED BY <1>11, <1>12, <3>3, <3>4 DEF Ordered
  <2> QED BY <1>2, <2>3, <2>4
<1> QED BY <1>13, <1>14

\* A dispatch that merges with no other goes to the end of the fifo.
LEMMA BegunIs ==
  ASSUME IInv, NEW r \in Runs, NEW k \in {"text", "slash"}, ~Merges(k), rec[r].state = "none",
         Becomes(BeginRecord(World, r, k))
  PROVE  /\ fifo' = Append(fifo, r) /\ marks' = marks /\ out' = out
         /\ rec'[r].state = IF fifo = <<>> THEN "active" ELSE "pending"
         /\ ~rec'[r].media /\ ~rec'[r].error
         /\ \A x \in Runs \ {r} : rec'[x] = rec[x]
<1> DEFINE s == IF Busy THEN "pending" ELSE "active"
           N == NewRecord(k, s)
           f == [rec EXCEPT ![r] = N]
           t == [World EXCEPT !.rec = f]
           q == Append(fifo, r)
           u == [t EXCEPT !.fifo = q]
           v == BeginRecord(World, r, k)
<1>1. World \in Worlds /\ Order(World) /\ rec \in [Runs -> Recs] /\ fifo \in Seq(Runs)
      /\ ToSet(fifo) \subseteq Runs
  BY WorldIs, InFifo DEF IInv, Sound, Worlds
<1>2. v = u
  BY WorldIs DEF BeginRecord
<1> HIDE DEF v
<1>3. Busy <=> fifo # <<>>
  <2>1. \A x \in ToSet(fifo) : x \in Runs /\ rec[x].state \in {"active", "pending"}
    BY <1>1, WorldIs DEF Order
  <2>2. fifo # <<>> => fifo[1] \in ToSet(fifo)
    BY <1>1 DEF ToSet
  <2>3. fifo = <<>> => ToSet(fifo) = {}
    BY DEF ToSet
  <2> QED BY <2>1, <2>2, <2>3 DEF Busy
<1>4. s = IF fifo = <<>> THEN "active" ELSE "pending"
  BY <1>3
<1>5. s \in States
  BY DEF States
<1> HIDE DEF s
<1>6. N \in Recs /\ N.state = s /\ ~N.media /\ ~N.error
  <2>1. N \in Recs /\ N.state = s
    BY <1>5, NewRecordIs
  <2>2. ~N.media /\ ~N.error
    <3>1. NoRecord \in Recs /\ ~NoRecord.error
      BY DEF NoRecord, Recs, States
    <3> HIDE DEF NoRecord
    <3>2. (k = "photo") = FALSE
      OBVIOUS
    <3> QED BY <3>1, <3>2 DEF NewRecord, Recs
  <2> QED BY <2>1, <2>2
<1> HIDE DEF N
<1>7. f[r] = N /\ \A x \in Runs \ {r} : f[x] = rec[x]
  BY <1>1
<1> HIDE DEF f
<1>8. u.fifo = q /\ u.marks = marks /\ u.out = out /\ u.rec = f
  BY WorldIs, <1>1 DEF Worlds
<1> HIDE DEF u
<1>9. fifo' = u.fifo /\ rec' = u.rec /\ marks' = u.marks /\ out' = u.out
  BY <1>2, StepIs DEF v
<1> QED BY <1>4, <1>6, <1>7, <1>8, <1>9

\* The new dispatch is the turn that sends, or the last that waits, or it fails.
LEMMA RowGrows ==
  ASSUME IInv, OneTurn, NEW d \in {0, 1}, InRow(d, 0), NEW r \in Runs, r \notin ToSet(fifo),
         native[r] = "none", count[r] = 0, fifo' = Append(fifo, r), UNCHANGED count,
         \A x \in Runs \ {r} : /\ native'[x] = native[x] /\ handler'[x] = handler[x]
                               /\ rec'[x] = rec[x],
         \/ /\ \A x \in Runs : native[x] \notin AtWork
            /\ native'[r] = "running" /\ handler'[r] # "failing" /\ queue' = queue
         \/ native'[r] = "queued" /\ handler'[r] # "failing" /\ queue' = Append(queue, r)
         \/ native'[r] = "none" /\ handler'[r] = "failing" /\ queue' = queue
  PROVE  \E c, e \in {0, 1} : InRow(c, e)'
<1> DEFINE n == Len(fifo)
           l == Len(queue)
<1>1. fifo \in Seq(Runs) /\ queue \in Seq(Runs) /\ n \in Nat /\ l \in Nat /\ n = d + l
  <2>1. fifo \in Seq(Runs) /\ queue \in Seq(Runs)
    BY WorldIs DEF IInv, Sound, Worlds, RestOK
  <2>2. n = d + l + 0
    BY DEF InRow
  <2> QED BY <2>1, <2>2
<1>2. Len(fifo') = n + 1 /\ fifo'[n + 1] = r /\ \A i \in 1 .. n : fifo'[i] = fifo[i]
  BY <1>1
<1>3. \A x \in Runs : handler[x] # "failing"
  BY DEF InRow
<1>4. \A i \in 1 .. l : d + i \in 1 .. n /\ fifo[d + i] = queue[i]
  BY <1>1 DEF InRow
<1>5. \A x \in Runs \ {r} : Sending(x)' <=> Sending(x)
  BY DEF Sending
<1>6. ~Sending(r)
  BY DEF Sending
<1>7. ASSUME native'[r] # "running" PROVE \A x \in Runs : Sending(x)' <=> d = 1 /\ fifo'[1] = x
  <2>1. \A x \in Runs : Sending(x)' <=> Sending(x)
    BY <1>5, <1>6, <1>7 DEF Sending
  <2>2. d = 1 => fifo'[1] = fifo[1]
    BY <1>1, <1>2
  <2> QED BY <2>1, <2>2 DEF InRow
<1> HIDE DEF n, l
<1>8. CASE /\ \A x \in Runs : native[x] \notin AtWork
           /\ native'[r] = "running" /\ handler'[r] # "failing" /\ queue' = queue
  <2>1. queue = <<>> /\ l = 0
    BY <1>8 DEF OneTurn, l
  <2>2. d = 0
    <3> SUFFICES ASSUME d = 1 PROVE FALSE
      OBVIOUS
    <3>1. fifo[1] \in Runs /\ Sending(fifo[1])
      BY TailWaits
    <3> QED BY <1>8, <3>1 DEF Sending, AtWork
  <2>3. n = 0
    BY <1>1, <2>1, <2>2
  <2>4. Len(fifo') = 1 + Len(queue') + 0 /\ fifo'[1] = r
    BY <1>2, <1>8, <2>1, <2>3 DEF l
  <2>5. \A i \in 1 .. Len(queue') : fifo'[1 + i] = queue'[i]
    BY <1>8, <2>1
  <2>6. \A x \in Runs : Sending(x)' <=> 1 = 1 /\ fifo'[1] = x
    <3>1. Sending(r)'
      <4>1. rec'[r].kind = "turn" \/ count'[r] = 0
        OBVIOUS
      <4> QED BY <1>8, <4>1 DEF Sending
    <3>2. \A x \in Runs : ~Sending(x)
      BY <1>8 DEF Sending, AtWork
    <3> QED BY <1>5, <2>4, <3>1, <3>2
  <2>7. \A x \in Runs : handler'[x] = "failing" <=> 0 = 1 /\ fifo'[Len(fifo')] = x
    BY <1>3, <1>8
  <2>8. InRow(1, 0)'
    BY <2>4, <2>5, <2>6, <2>7 DEF InRow
  <2> QED BY <2>8
<1>9. CASE native'[r] = "queued" /\ handler'[r] # "failing" /\ queue' = Append(queue, r)
  <2>1. Len(queue') = l + 1 /\ queue'[l + 1] = r /\ \A i \in 1 .. l : queue'[i] = queue[i]
    BY <1>1, <1>9 DEF l
  <2>2. Len(fifo') = d + Len(queue') + 0
    BY <1>1, <1>2, <2>1
  <2>3. \A i \in 1 .. Len(queue') : fifo'[d + i] = queue'[i]
    <3> SUFFICES ASSUME NEW i \in 1 .. (l + 1) PROVE fifo'[d + i] = queue'[i]
      BY <2>1
    <3>1. CASE i = l + 1
      <4>1. d + i = n + 1
        BY <1>1, <3>1
      <4> QED BY <1>2, <2>1, <3>1, <4>1
    <3>2. CASE i # l + 1
      <4>1. i \in 1 .. l
        BY <1>1, <3>2
      <4> QED BY <1>2, <1>4, <2>1, <4>1
    <3> QED BY <3>1, <3>2
  <2>4. \A x \in Runs : handler'[x] = "failing" <=> 0 = 1 /\ fifo'[Len(fifo')] = x
    BY <1>3, <1>9
  <2>5. InRow(d, 0)'
    BY <1>7, <1>9, <2>2, <2>3, <2>4 DEF InRow
  <2> QED BY <2>5
<1>10. CASE native'[r] = "none" /\ handler'[r] = "failing" /\ queue' = queue
  <2>1. Len(fifo') = d + Len(queue') + 1
    BY <1>1, <1>2, <1>10 DEF l
  <2>2. \A i \in 1 .. Len(queue') : fifo'[d + i] = queue'[i]
    BY <1>2, <1>4, <1>10 DEF l
  <2>3. fifo'[Len(fifo')] = r
    BY <1>2
  <2>4. \A x \in Runs : handler'[x] = "failing" <=> 1 = 1 /\ fifo'[Len(fifo')] = x
    BY <1>3, <1>10, <2>3
  <2>5. InRow(d, 1)'
    BY <1>7, <1>10, <2>1, <2>2, <2>4 DEF InRow
  <2> QED BY <2>5
<1> QED BY <1>8, <1>9, <1>10

LEMMA BeginOrdered ==
  ASSUME IInv, Ordered, Orderly, NEW r \in Runs, NEW k \in Kinds, Begin(r, k)
  PROVE  Ordered'
<1>1. /\ UNCHANGED <<cancelled, probing, count>> /\ k \in {"text", "slash"}
      /\ handler[r] = "none" /\ \A x \in Runs : handler[x] # "failing"
      /\ Becomes(BeginRecord(World, r, k)) /\ Accept(r, k)
  BY DEF Begin, Free, Orderly
<1>2. /\ native \in [Runs -> Turns] /\ queue \in Seq(Runs) /\ fifo \in Seq(Runs)
      /\ handler \in [Runs -> {"none", "closing", "failing", "killing", "done", "failed"}]
      /\ World \in Worlds /\ Order(World) /\ probing \subseteq Runs
  BY WorldIs DEF IInv, RestOK, Sound, Worlds
<1>3. rec[r].state = "none" /\ native[r] = "none" /\ count[r] = 0 /\ r \notin ToSet(fifo)
  <2>1. rec[r].state = "none" /\ native[r] = "none"
    BY <1>1 DEF IInv, Stages
  <2>2. ~(count[r] > 0)
    BY <2>1 DEF IInv, Stages, AtWork
  <2>3. count[r] \in Nat
    BY BoundAssumption DEF IInv, RestOK
  <2> QED BY <1>2, <2>1, <2>2, <2>3, WorldIs DEF Order
<1>4. ~Merges(k)
  <2>1. HeadSlot # None => HeadSlot \in Runs
    BY <1>2, HeadSlotIs, InFifo, WorldIs
  <2> QED BY <1>1, <2>1 DEF Merges, Ordered, Plain
<1>5. ~NativeMerges(k)
  BY <1>1 DEF NativeMerges, Ordered, Plain
<1>6. /\ fifo' = Append(fifo, r) /\ marks' = marks /\ out' = out
      /\ rec'[r].state = IF fifo = <<>> THEN "active" ELSE "pending"
      /\ ~rec'[r].media /\ ~rec'[r].error
      /\ \A x \in Runs \ {r} : rec'[x] = rec[x]
  BY <1>1, <1>3, <1>4, BegunIs
<1>7. /\ photos' = photos
      /\ \A x \in Runs \ {r} : native'[x] = native[x] /\ handler'[x] = handler[x]
      /\ \/ /\ \A x \in Runs : native[x] \notin AtWork
            /\ native'[r] = "running" /\ handler'[r] = "done" /\ queue' = queue
         \/ /\ \E x \in Runs : native[x] \in AtWork
            /\ native'[r] = "queued" /\ handler'[r] = "done" /\ queue' = Append(queue, r)
         \/ native'[r] = "none" /\ handler'[r] = "failing" /\ queue' = queue
  <2>1. NativeBusy <=> \E x \in Runs : native[x] \in AtWork
    BY DEF NativeBusy, AtWork, Ordered, Plain
  <2>2. CASE ~NativeBusy /\ Lands(r, "running") /\ Carries(r, k)
    <3>1. /\ native' = [native EXCEPT ![r] = "running"] /\ handler' = [handler EXCEPT ![r] = "done"]
          /\ queue' = queue /\ photos' = photos
      BY <1>1, <2>2 DEF Lands, Carries
    <3> QED BY <1>2, <2>1, <2>2, <3>1
  <2>3. CASE NativeBusy /\ Lands(r, "queued") /\ Carries(r, k)
    <3>1. /\ native' = [native EXCEPT ![r] = "queued"] /\ handler' = [handler EXCEPT ![r] = "done"]
          /\ queue' = Append(queue, r) /\ photos' = photos
      BY <1>1, <2>3 DEF Lands, Carries
    <3> QED BY <1>2, <2>1, <2>3, <3>1
  <2>4. CASE handler' = [handler EXCEPT ![r] = "failing"] /\ UNCHANGED <<native, queue, photos>>
    BY <1>2, <1>3, <2>4
  <2> QED BY <1>1, <1>5, <2>2, <2>3, <2>4 DEF Accept, Orderly
<1>8. Plain'
  BY <1>1, <1>6, <1>7 DEF Ordered, Plain
<1>9. OneTurn'
  <2>1. \A x \in Runs : native'[x] \in AtWork => native[x] \in AtWork \/ (x = r /\ native'[r] = "running")
    BY <1>7 DEF AtWork
  <2>2. \A x, y \in Runs : native'[x] \in AtWork /\ native'[y] \in AtWork => x = y
    BY <1>7, <2>1 DEF Ordered, OneTurn, AtWork
  <2>3. queue' # <<>> => \E x \in Runs : native'[x] \in AtWork
    <3>1. ASSUME NEW x \in Runs, native[x] \in AtWork PROVE native'[x] \in AtWork
      BY <1>3, <1>7, <3>1 DEF AtWork
    <3> QED BY <1>7, <3>1 DEF Ordered, OneTurn
  <2>4. \A x \in probing' : native'[x] = "running" /\ rec'[x].kind = "turn"
    <3>1. \A x \in probing : x \in Runs \ {r} /\ native[x] = "running" /\ rec[x].kind = "turn"
      BY <1>2, <1>3 DEF Ordered, OneTurn
    <3> QED BY <1>1, <1>6, <1>7, <3>1
  <2> QED BY <2>2, <2>3, <2>4 DEF OneTurn
<1>10. InLine'
  <2> SUFFICES ASSUME out.strays = {} PROVE InLine'
    BY <1>6 DEF InLine
  <2>1. Leads(World) /\ \E d, e \in {0, 1} : InRow(d, e)
    BY HeadOfLine
  <2>2. PICK d, e \in {0, 1} : InRow(d, e)
    BY <2>1
  <2>3. e = 0
    <3> SUFFICES ASSUME e = 1 PROVE FALSE
      OBVIOUS
    <3>1. Len(fifo) \in Nat /\ Len(queue) \in Nat /\ Len(fifo) = d + Len(queue) + 1
      BY <1>2, <2>2 DEF InRow
    <3>2. fifo[Len(fifo)] \in Runs
      BY <1>2, <3>1
    <3> QED BY <1>1, <2>2, <3>2 DEF InRow
  <2>4. InRow(d, 0)
    BY <2>2, <2>3
  <2>5. \E c, l \in {0, 1} : InRow(c, l)'
    <3>1. OneTurn
      BY DEF Ordered
    <3>2. \A x \in Runs \ {r} : /\ native'[x] = native[x] /\ handler'[x] = handler[x]
                                /\ rec'[x] = rec[x]
      BY <1>6, <1>7
    <3>3. count' = count
      BY <1>1
    <3>4. \/ /\ \A x \in Runs : native[x] \notin AtWork
             /\ native'[r] = "running" /\ handler'[r] # "failing" /\ queue' = queue
          \/ native'[r] = "queued" /\ handler'[r] # "failing" /\ queue' = Append(queue, r)
          \/ native'[r] = "none" /\ handler'[r] = "failing" /\ queue' = queue
      BY <1>7
    <3> QED BY <1>3, <1>6, <2>4, <3>1, <3>2, <3>3, <3>4, RowGrows
  <2>6. rec'[fifo'[1]].state = "active"
    <3>1. CASE fifo = <<>>
      BY <1>6, <3>1
    <3>2. CASE fifo # <<>>
      <4>1. fifo'[1] = fifo[1] /\ fifo[1] \in Runs /\ fifo[1] \in ToSet(fifo)
        BY <1>2, <1>6, <3>2 DEF ToSet
      <4>2. rec[fifo[1]].state = "active"
        BY <2>1, <3>2, WorldIs DEF Leads
      <4> QED BY <1>3, <1>6, <4>1, <4>2
    <3> QED BY <3>1, <3>2
  <2> QED BY <2>5, <2>6 DEF InLine
<1>11. Late'
  BY <1>6 DEF Ordered, Late
<1> QED BY <1>8, <1>9, <1>10, <1>11 DEF Ordered

-----------------------------------------------------------------------------
LEMMA InitOrdered == Init => Ordered
<1> SUFFICES ASSUME Init PROVE Ordered
  OBVIOUS
<1>1. /\ fifo = <<>> /\ rec = [r \in Runs |-> NoRecord] /\ cancelled = {} /\ marks = {}
      /\ handler = [r \in Runs |-> "none"] /\ native = [r \in Runs |-> "none"] /\ queue = <<>>
      /\ photos = {} /\ probing = {} /\ out.strays = {}
  BY DEF Init
<1>2. ~NoRecord.media /\ ~NoRecord.error
  BY DEF NoRecord
<1>3. \A r \in Runs : rec[r] = NoRecord /\ handler[r] = "none" /\ native[r] = "none"
  BY <1>1
<1>4. Plain /\ OneTurn /\ Late
  BY <1>1, <1>2, <1>3 DEF Plain, OneTurn, Late, AtWork
<1>5. InRow(0, 0)
  BY <1>1, <1>3 DEF InRow, Sending
<1> QED BY <1>1, <1>4, <1>5 DEF Ordered, InLine

LEMMA StutterOrdered == ASSUME IInv, Ordered, UNCHANGED vars PROVE Ordered'
<1>1. UNCHANGED <<ledger, cancelled, handler, native, queue, photos, probing, count>>
  BY DEF vars, hermes
<1> QED BY <1>1, StillIs, LedgerOrdered

LEMMA NextOrdered == IInv /\ OrderInv /\ [Next]_vars => OrderInv'
<1> SUFFICES ASSUME IInv, Ordered, Orderly, [Next]_vars PROVE Ordered'
  <2>1. [Next]_vars => setup' = setup
    BY DEF Next, vars, Sweep, GraceExpires, Stop, StopBegins, HandStop, Fails, Send, Finalize,
           Hook, Refuse, EndProbe, EndIgnored, Begin, EndPop, Fallback, Complete
  <2>2. [Next]_vars => (Orderly' <=> Orderly)
    BY <2>1 DEF Orderly, Kinds
  <2> QED BY <2>2 DEF OrderInv
<1>1. CASE Sweep
  BY <1>1, SweepOrdered
<1>2. CASE GraceExpires
  BY <1>2, GraceOrdered
<1>3. ASSUME NEW r \in Runs, Stop(r) \/ StopBegins(r) \/ HandStop(r) \/ Fails(r) PROVE Ordered'
  BY <1>3, NeverOrdered, FailsOrdered
<1>4. ASSUME NEW r \in Runs, Send(r) \/ Finalize(r) \/ Hook(r) \/ Refuse(r) PROVE Ordered'
  BY <1>4, NeverOrdered, SendOrdered, FinalizeOrdered, HookOrdered
<1>5. ASSUME NEW r \in Runs, EndProbe(r) \/ EndIgnored(r) PROVE Ordered'
  BY <1>5, EndProbeOrdered, EndIgnoredOrdered
<1>6. ASSUME NEW r \in Runs, NEW k \in Kinds, Begin(r, k) PROVE Ordered'
  BY <1>6, BeginOrdered
<1>7. ASSUME NEW r \in Runs, NEW ok \in BOOLEAN, EndPop(r, ok) \/ Fallback(r, ok) \/ Complete(r, ok)
      PROVE  Ordered'
  BY <1>7, EndPopOrdered, FallbackOrdered, CompleteOrdered
<1>8. CASE UNCHANGED vars
  BY <1>8, StutterOrdered
<1> QED BY <1>1, <1>2, <1>3, <1>4, <1>5, <1>6, <1>7, <1>8 DEF Next

\* When Hermes takes dispatches one by one and in their order, what a running turn sends
\* is stamped with its own run: the first message of the session that meets another run
\* is a final reply after its session end.
THEOREM StampsCorrect == Spec => []StampedByItsRun
<1>1. Init => IInv /\ OrderInv
  BY InitHolds, InitOrdered DEF OrderInv
<1>2. IInv /\ OrderInv /\ [Next]_vars => (IInv /\ OrderInv)'
  BY NextHolds, NextOrdered
<1>3. IInv /\ OrderInv => StampedByItsRun
  BY DEF OrderInv, Ordered, Late, StampedByItsRun
<1> QED BY <1>1, <1>2, <1>3, PTL DEF Spec
=============================================================================
