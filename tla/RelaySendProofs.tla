-------------------------- MODULE RelaySendProofs --------------------------
(***************************************************************************)
(* Proofs about RelaySend, for any phones, requests, queue bound and       *)
(* number of broken sockets and dead workers: main begins a message once,  *)
(* `accepted' is the truth, and so is `restarted', the verdict the worker  *)
(* gives in the name of a main that has never heard of the message.        *)
(***************************************************************************)
EXTENDS RelaySend, FiniteSetTheorems, TLAPS

States == {"none", "open", "accepted", "rejected"}
MainMsg == [kind : {"send"}, req : Requests, client : Nat]
             \cup [kind : {"reconcile"}, reqs : SUBSET Requests, client : Nat]
FrameMsg == [kind : {"main_receipt", "accepted", "rejected"}, req : Requests, client : Nat]
ResultMsg == [kind : {"result"}, client : Nat,
              answer : UNION {[rs -> States] : rs \in SUBSET Requests}]
WorkerMsg == FrameMsg \cup ResultMsg

Types ==
  /\ worker \in {"up", "dead"} /\ conn \in [Phones -> Nat] /\ nextId \in Nat \ {0}
  /\ queued \in [Requests -> Nat] /\ retained \in [Requests -> WorkerVerdicts \cup {"none"}]
  /\ toMain \in Seq(MainMsg) /\ toWorker \in Seq(WorkerMsg)
  /\ registry \in [Requests -> States] /\ replyTo \in [Requests -> Nat]
  /\ runs \in [Requests -> Nat]
  /\ told \in [Requests -> SUBSET (Finals \cup Receipts)] /\ asked \subseteq Requests
  /\ drops \in Nat /\ crashes \in Nat

\* The registry knows what was begun.
BeginInv == \A r \in Requests : runs[r] = IF registry[r] = "none" THEN 0 ELSE 1

\* What says `accepted' is about an operation that was.
AcceptInv ==
  /\ \A r \in Requests : "accepted" \in told[r] => registry[r] = "accepted"
  /\ \A f \in SeqRange(toWorker) :
       /\ f.kind = "accepted" => registry[f.req] = "accepted"
       /\ f.kind = "result" => \A r \in DOMAIN f.answer :
            f.answer[r] = "accepted" => registry[r] = "accepted"

\* A client id on its way was given out by the worker that lives, except in frames
\* about operations main has begun; a dead worker has neither clients nor frames.
IdsInv ==
  /\ \A p \in Phones : conn[p] < nextId
  /\ \A m \in SeqRange(toMain) : m.client < nextId
  /\ \A f \in SeqRange(toWorker) :
       f.kind # "result" /\ registry[f.req] = "none" => f.client < nextId
  /\ worker = "dead" => toWorker = <<>> /\ asked = {} /\ \A p \in Phones : conn[p] = 0

\* What is on its way about a request its phone asks about is for an earlier client.
AskedInv ==
  \A r \in asked : registry[r] = "none" =>
    /\ \A m \in SeqRange(toMain) : m.kind = "send" /\ m.req = r => m.client < conn[Owner[r]]
    /\ \A f \in SeqRange(toWorker) :
         f.kind # "result" /\ f.req = r => f.client < conn[Owner[r]]

\* The phone will not send the request before it has heard more of it.
NoMore(r) == Answered(r) \/ (WorkerOnly(r) /\ (conn[Owner[r]] = 0 \/ r \in asked))
\* Main has not begun it and never will.
Sealed(r) == registry[r] = "none" /\ Copies(r) = {} /\ NoMore(r)

\* A question of the worker is behind every copy of what it asks about, so that the
\* answer `none' is final.
BehindInv ==
  \A i \in DOMAIN toMain : toMain[i].kind = "reconcile" =>
    \A r \in toMain[i].reqs : registry[r] = "none" =>
      NoMore(r) /\ \A j \in Copies(r) : j < i
ResultInv ==
  \A f \in SeqRange(toWorker) : f.kind = "result" =>
    \A r \in DOMAIN f.answer :
      IF f.answer[r] = "none" THEN Sealed(r) ELSE registry[r] # "none"
VerdictInv ==
  \A r \in Requests : "restarted" \in told[r] \/ retained[r] = "restarted" => Sealed(r)

Inv == /\ Types /\ BeginInv /\ AcceptInv
       /\ IdsInv /\ AskedInv /\ BehindInv /\ ResultInv /\ VerdictInv

-----------------------------------------------------------------------------
(* Sequences and messages. *)

LEMMA AppendFacts ==
  ASSUME NEW S, NEW s \in Seq(S), NEW e \in S
  PROVE  /\ Append(s, e) \in Seq(S) /\ SeqRange(Append(s, e)) = SeqRange(s) \cup {e}
         /\ DOMAIN s = 1..Len(s) /\ DOMAIN Append(s, e) = 1..(Len(s) + 1) /\ Len(s) \in Nat
         /\ \A i \in 1..Len(s) : Append(s, e)[i] = s[i]
         /\ Append(s, e)[Len(s) + 1] = e
<1>1. /\ Append(s, e) \in Seq(S) /\ Len(s) \in Nat /\ DOMAIN s = 1..Len(s)
      /\ DOMAIN Append(s, e) = 1..(Len(s) + 1)
      /\ \A i \in 1..Len(s) : Append(s, e)[i] = s[i]
      /\ Append(s, e)[Len(s) + 1] = e
  OBVIOUS
<1>2. SeqRange(Append(s, e)) = SeqRange(s) \cup {e}
  BY <1>1 DEF SeqRange
<1> QED
  BY <1>1, <1>2

LEMMA TailFacts ==
  ASSUME NEW S, NEW s \in Seq(S), s # <<>>
  PROVE  /\ Tail(s) \in Seq(S) /\ SeqRange(Tail(s)) \subseteq SeqRange(s)
         /\ Head(s) = s[1] /\ Head(s) \in S /\ Head(s) \in SeqRange(s)
         /\ DOMAIN s = 1..Len(s) /\ Len(s) \in Nat \ {0}
         /\ DOMAIN Tail(s) = 1..(Len(s) - 1)
         /\ \A i \in 1..(Len(s) - 1) : Tail(s)[i] = s[i + 1]
<1>1. /\ Tail(s) \in Seq(S) /\ Head(s) = s[1] /\ Head(s) \in S
      /\ DOMAIN s = 1..Len(s) /\ Len(s) \in Nat \ {0}
      /\ DOMAIN Tail(s) = 1..(Len(s) - 1)
      /\ \A i \in 1..(Len(s) - 1) : Tail(s)[i] = s[i + 1]
  OBVIOUS
<1>2. Head(s) \in SeqRange(s)
  BY <1>1 DEF SeqRange
<1>3. SeqRange(Tail(s)) \subseteq SeqRange(s)
  <2> SUFFICES ASSUME NEW i \in 1..(Len(s) - 1) PROVE Tail(s)[i] \in SeqRange(s)
    BY <1>1 DEF SeqRange
  <2>1. i + 1 \in DOMAIN s
    BY <1>1
  <2> QED
    BY <1>1, <2>1 DEF SeqRange
<1> QED
  BY <1>1, <1>2, <1>3

LEMMA JoinFacts ==
  ASSUME NEW S, NEW s \in Seq(S), NEW t \in Seq(S)
  PROVE  s \o t \in Seq(S) /\ SeqRange(s \o t) = SeqRange(s) \cup SeqRange(t)
<1>1. /\ s \o t \in Seq(S) /\ Len(s) \in Nat /\ Len(t) \in Nat
      /\ DOMAIN s = 1..Len(s) /\ DOMAIN t = 1..Len(t) /\ DOMAIN (s \o t) = 1..(Len(s) + Len(t))
      /\ \A i \in 1..Len(s) : (s \o t)[i] = s[i]
      /\ \A i \in 1..Len(t) : (s \o t)[Len(s) + i] = t[i]
  OBVIOUS
<1>2. ASSUME NEW i \in 1..(Len(s) + Len(t)) PROVE (s \o t)[i] \in SeqRange(s) \cup SeqRange(t)
  <2>1. CASE i <= Len(s)
    BY <1>1, <2>1 DEF SeqRange
  <2>2. CASE i > Len(s)
    <3> DEFINE j == i - Len(s)
    <3>1. j \in 1..Len(t) /\ i = Len(s) + j
      BY <1>1, <2>2
    <3> HIDE DEF j
    <3> QED
      BY <1>1, <3>1 DEF SeqRange
  <2> QED
    BY <1>1, <2>1, <2>2
<1>3. ASSUME NEW i \in 1..Len(s) PROVE s[i] \in SeqRange(s \o t)
  <2>1. i \in DOMAIN (s \o t) /\ (s \o t)[i] = s[i]
    BY <1>1
  <2> QED
    BY <2>1 DEF SeqRange
<1>4. ASSUME NEW i \in 1..Len(t) PROVE t[i] \in SeqRange(s \o t)
  <2> DEFINE j == Len(s) + i
  <2>1. j \in DOMAIN (s \o t) /\ (s \o t)[j] = t[i]
    BY <1>1
  <2> HIDE DEF j
  <2> QED
    BY <2>1 DEF SeqRange
<1>5. SeqRange(s \o t) \subseteq SeqRange(s) \cup SeqRange(t)
  BY <1>1, <1>2 DEF SeqRange
<1>6. SeqRange(s) \subseteq SeqRange(s \o t) /\ SeqRange(t) \subseteq SeqRange(s \o t)
  BY <1>1, <1>3, <1>4 DEF SeqRange
<1> QED
  BY <1>1, <1>5, <1>6

LEMMA OneFacts ==
  ASSUME NEW S, NEW a \in S
  PROVE  <<a>> \in Seq(S) /\ SeqRange(<<a>>) = {a} /\ <<a>> \o <<>> = <<a>>
<1> DEFINE s == <<a>>
<1>1. s \in Seq(S) /\ Len(s) = 1 /\ s[1] = a /\ s \o <<>> = s
  OBVIOUS
<1> HIDE DEF s
<1>2. DOMAIN s = {1}
  BY <1>1
<1>3. SeqRange(s) = {a}
  BY <1>1, <1>2 DEF SeqRange
<1> QED
  BY <1>1, <1>3 DEF s

LEMMA TwoFacts ==
  ASSUME NEW S, NEW a \in S, NEW b \in S
  PROVE  <<a>> \o <<b>> \in Seq(S) /\ SeqRange(<<a>> \o <<b>>) = {a, b}
<1>1. /\ <<a>> \in Seq(S) /\ <<b>> \in Seq(S)
      /\ SeqRange(<<a>>) = {a} /\ SeqRange(<<b>>) = {b}
  BY OneFacts
<1> DEFINE s == <<a>>
           t == <<b>>
<1>2. /\ s \in Seq(S) /\ t \in Seq(S)
      /\ SeqRange(s) = {a} /\ SeqRange(t) = {b}
  BY <1>1
<1> HIDE DEF s, t
<1>3. s \o t \in Seq(S) /\ SeqRange(s \o t) = SeqRange(s) \cup SeqRange(t)
  BY <1>2, JoinFacts
<1>4. s \o t \in Seq(S) /\ SeqRange(s \o t) = {a, b}
  BY <1>2, <1>3
<1> QED
  BY <1>4 DEF s, t

LEMMA InRange ==
  ASSUME NEW S, NEW s \in Seq(S) PROVE SeqRange(s) \subseteq S
BY DEF SeqRange

LEMMA MessageShape ==
  /\ \A m \in MainMsg :
       /\ m.client \in Nat /\ m.kind \in {"send", "reconcile"}
       /\ m.kind = "send" => m.req \in Requests
       /\ m.kind = "reconcile" => m.reqs \subseteq Requests
  /\ \A f \in WorkerMsg :
       /\ f.client \in Nat /\ f.kind \in {"main_receipt", "accepted", "rejected", "result"}
       /\ f.kind # "result" => f.req \in Requests
       /\ f.kind = "result" => /\ DOMAIN f.answer \subseteq Requests
                               /\ \A r \in DOMAIN f.answer : f.answer[r] \in States
BY DEF MainMsg, WorkerMsg, FrameMsg, ResultMsg

LEMMA MakeCopy ==
  ASSUME NEW r \in Requests, NEW c \in Nat
  PROVE  /\ SendCopy(r, c) \in MainMsg /\ SendCopy(r, c).kind = "send"
         /\ SendCopy(r, c).req = r /\ SendCopy(r, c).client = c
BY DEF SendCopy, MainMsg

LEMMA MakeQuestion ==
  ASSUME NEW rs \in SUBSET Requests, NEW c \in Nat
  PROVE  /\ Reconcile(rs, c) \in MainMsg /\ Reconcile(rs, c).kind = "reconcile"
         /\ Reconcile(rs, c).reqs = rs /\ Reconcile(rs, c).client = c
BY DEF Reconcile, MainMsg

LEMMA MakeFrame ==
  ASSUME NEW r \in Requests, NEW c \in Nat, NEW k \in {"main_receipt", "accepted", "rejected"}
  PROVE  /\ Frame(k, r, c) \in WorkerMsg /\ Frame(k, r, c).kind = k
         /\ Frame(k, r, c).req = r /\ Frame(k, r, c).client = c
BY DEF Frame, WorkerMsg, FrameMsg

LEMMA MakeResult ==
  ASSUME registry \in [Requests -> States], NEW rs \in SUBSET Requests, NEW c \in Nat
  PROVE  /\ Result(rs, c) \in WorkerMsg /\ Result(rs, c).kind = "result"
         /\ DOMAIN Result(rs, c).answer = rs
         /\ \A r \in rs : Result(rs, c).answer[r] = registry[r]
<1> DEFINE a == [r \in rs |-> registry[r]]
<1>1. a \in [rs -> States] /\ DOMAIN a = rs /\ \A r \in rs : a[r] = registry[r]
  OBVIOUS
<1>2. Result(rs, c) = [kind |-> "result", answer |-> a, client |-> c]
  BY DEF Result
<1> HIDE DEF a
<1>3. a \in UNION {[q -> States] : q \in SUBSET Requests}
  BY <1>1
<1> QED
  BY <1>1, <1>2, <1>3 DEF WorkerMsg, ResultMsg
LEMMA PostFacts ==
  ASSUME Types, NEW fs \in Seq(WorkerMsg), toWorker' = Post(fs)
  PROVE  /\ toWorker' \in Seq(WorkerMsg)
         /\ SeqRange(toWorker') \subseteq SeqRange(toWorker) \cup SeqRange(fs)
         /\ worker = "dead" => toWorker' = toWorker
<1>1. /\ toWorker \o fs \in Seq(WorkerMsg)
      /\ SeqRange(toWorker \o fs) = SeqRange(toWorker) \cup SeqRange(fs)
  BY JoinFacts DEF Types
<1> DEFINE j == toWorker \o fs
<1> HIDE DEF j
<1>2. toWorker' = IF worker = "up" THEN j ELSE toWorker
  BY DEF Post, j
<1>3. j \in Seq(WorkerMsg) /\ SeqRange(j) = SeqRange(toWorker) \cup SeqRange(fs)
  BY <1>1 DEF j
<1>4. toWorker \in Seq(WorkerMsg)
  BY DEF Types
<1>5. CASE worker = "up"
  BY <1>2, <1>3, <1>5
<1>6. CASE worker # "up"
  BY <1>2, <1>4, <1>6
<1> QED
  BY <1>5, <1>6

LEMMA TellFacts ==
  ASSUME Types, NEW r \in Requests, NEW c, NEW v \in SUBSET (Finals \cup Receipts),
         Tell(c, r, v)
  PROVE  /\ told' \in [Requests -> SUBSET (Finals \cup Receipts)] /\ asked' \subseteq asked
         /\ told'[r] = IF Reaches(c, r) THEN told[r] \cup v ELSE told[r]
         /\ asked' = IF Reaches(c, r) THEN asked \ {r} ELSE asked
         /\ \A q \in Requests : q # r => told'[q] = told[q] /\ (q \in asked' <=> q \in asked)
BY DEF Types, Tell

\* The copies of a request, as messages join and leave the port.
LEMMA CopiesSame == ASSUME UNCHANGED toMain, NEW r PROVE Copies(r)' = Copies(r)
BY DEF Copies

LEMMA CopiesAppend ==
  ASSUME Types, NEW m \in MainMsg, toMain' = Append(toMain, m), NEW r \in Requests,
         ~(m.kind = "send" /\ m.req = r)
  PROVE  Copies(r)' = Copies(r)
<1>1. /\ DOMAIN toMain = 1..Len(toMain) /\ DOMAIN toMain' = 1..(Len(toMain) + 1)
      /\ Len(toMain) \in Nat
      /\ \A i \in 1..Len(toMain) : toMain'[i] = toMain[i]
      /\ toMain'[Len(toMain) + 1] = m
  BY AppendFacts DEF Types
<1>2. ASSUME NEW i \in Copies(r)' PROVE i \in Copies(r)
  <2>1. i \in DOMAIN toMain' /\ toMain'[i].kind = "send" /\ toMain'[i].req = r
    BY <1>2 DEF Copies
  <2>2. i # Len(toMain) + 1
    BY <1>1, <2>1
  <2> QED
    BY <1>1, <2>1, <2>2 DEF Copies
<1>3. ASSUME NEW i \in Copies(r) PROVE i \in Copies(r)'
  BY <1>1, <1>3 DEF Copies
<1> QED
  BY <1>2, <1>3

LEMMA CopiesTail ==
  ASSUME Types, toMain # <<>>, toMain' = Tail(toMain), NEW r
  PROVE  \A i \in Copies(r)' : i \in Nat /\ i + 1 \in Copies(r)
<1>1. /\ DOMAIN toMain = 1..Len(toMain) /\ Len(toMain) \in Nat
      /\ DOMAIN toMain' = 1..(Len(toMain) - 1)
      /\ \A i \in 1..(Len(toMain) - 1) : toMain'[i] = toMain[i + 1]
  BY TailFacts DEF Types
<1> SUFFICES ASSUME NEW i \in Copies(r)' PROVE i \in Nat /\ i + 1 \in Copies(r)
  OBVIOUS
<1>2. i \in 1..(Len(toMain) - 1) /\ toMain'[i].kind = "send" /\ toMain'[i].req = r
  BY <1>1 DEF Copies
<1>3. i + 1 \in 1..Len(toMain) /\ i \in Nat
  BY <1>1, <1>2
<1> QED
  BY <1>1, <1>2, <1>3 DEF Copies

-----------------------------------------------------------------------------
(* What every step has to show of the answers `none'. *)

\* A sealed request stays sealed, and an operation main has begun stays begun.
Seals ==
  \A r \in Requests : /\ Sealed(r) => Sealed(r)'
                      /\ registry[r] # "none" => registry'[r] # "none"
\* The phone stays silent about a request main does not know.
Silent == \A r \in Requests : registry'[r] = "none" /\ NoMore(r) => NoMore(r)'

LEMMA VerdictStep ==
  ASSUME Inv, Types', Seals,
         \A f \in SeqRange(toWorker') :
           \/ f \in SeqRange(toWorker)
           \/ f.kind # "result"
           \/ \A r \in DOMAIN f.answer :
                IF f.answer[r] = "none" THEN Sealed(r)' ELSE registry'[r] # "none",
         \A r \in Requests :
           "restarted" \in told'[r] \/ retained'[r] = "restarted" => Sealed(r)
  PROVE  ResultInv' /\ VerdictInv'
<1>1. VerdictInv'
  BY DEF VerdictInv, Seals
<1>2. ASSUME NEW f \in SeqRange(toWorker'), f.kind = "result", NEW r \in DOMAIN f.answer
      PROVE  IF f.answer[r] = "none" THEN Sealed(r)' ELSE registry'[r] # "none"
  <2>1. CASE f \in SeqRange(toWorker)
    <3>1. f \in WorkerMsg
      BY <2>1, InRange DEF Inv, Types
    <3>2. r \in Requests
      BY <1>2, <3>1, MessageShape
    <3>3. IF f.answer[r] = "none" THEN Sealed(r) ELSE registry[r] # "none"
      BY <1>2, <2>1 DEF Inv, ResultInv
    <3> QED
      BY <3>2, <3>3 DEF Seals
  <2> QED
    BY <1>2, <2>1
<1>3. ResultInv'
  BY <1>2 DEF ResultInv
<1> QED
  BY <1>1, <1>3

\* Steps that leave what is on its way to main, and what main knows.
LEMMA StillStep ==
  ASSUME Inv, Types', Silent, UNCHANGED <<toMain, registry>>,
         SeqRange(toWorker') \subseteq SeqRange(toWorker),
         \A r \in Requests :
           "restarted" \in told'[r] \/ retained'[r] = "restarted" => Sealed(r)
  PROVE  BehindInv' /\ ResultInv' /\ VerdictInv'
<1>1. Seals
  BY CopiesSame DEF Seals, Sealed, Silent
<1>2. ResultInv' /\ VerdictInv'
  BY <1>1, VerdictStep
<1>3. BehindInv'
  <2> SUFFICES ASSUME NEW i \in DOMAIN toMain, toMain[i].kind = "reconcile",
                      NEW r \in toMain[i].reqs, registry[r] = "none"
               PROVE  NoMore(r)' /\ \A j \in Copies(r)' : j < i
    BY DEF BehindInv
  <2>1. NoMore(r) /\ \A j \in Copies(r) : j < i
    BY DEF Inv, BehindInv
  <2>2. r \in Requests
    <3>1. toMain[i] \in MainMsg
      BY DEF Inv, Types
    <3> QED
      BY <3>1, MessageShape
  <2> QED
    BY <2>1, <2>2, CopiesSame DEF Silent
<1> QED
  BY <1>2, <1>3

\* Steps that post a message to main.
LEMMA AppendStep ==
  ASSUME Inv, Types', Silent, UNCHANGED <<toWorker, registry>>,
         NEW m \in MainMsg, toMain' = Append(toMain, m),
         m.kind = "send" => ~NoMore(m.req),
         m.kind = "reconcile" => \A r \in m.reqs : NoMore(r)',
         \A r \in Requests :
           "restarted" \in told'[r] \/ retained'[r] = "restarted" => Sealed(r)
  PROVE  BehindInv' /\ ResultInv' /\ VerdictInv'
<1>0. \A r \in Requests : NoMore(r) => Copies(r)' = Copies(r)
  BY CopiesAppend DEF Inv
<1>1. Seals
  BY <1>0 DEF Seals, Sealed, Silent
<1>2. ResultInv' /\ VerdictInv'
  BY <1>1, VerdictStep
<1>3. /\ DOMAIN toMain = 1..Len(toMain) /\ DOMAIN toMain' = 1..(Len(toMain) + 1)
      /\ Len(toMain) \in Nat
      /\ \A i \in 1..Len(toMain) : toMain'[i] = toMain[i]
      /\ toMain'[Len(toMain) + 1] = m
  BY AppendFacts DEF Inv, Types
<1>4. BehindInv'
  <2> SUFFICES ASSUME NEW i \in DOMAIN toMain', toMain'[i].kind = "reconcile",
                      NEW r \in toMain'[i].reqs, registry[r] = "none"
               PROVE  NoMore(r)' /\ \A j \in Copies(r)' : j < i
    BY DEF BehindInv
  <2>1. r \in Requests
    <3>1. toMain'[i] \in MainMsg
      BY DEF Types
    <3> QED
      BY <3>1, MessageShape
  <2>2. CASE i = Len(toMain) + 1
    <3>1. NoMore(r)' /\ Copies(r)' = Copies(r)
      BY <1>3, <2>1, <2>2, CopiesAppend DEF Inv
    <3> QED
      BY <1>3, <2>2, <3>1 DEF Copies
  <2>3. CASE i # Len(toMain) + 1
    <3>1. i \in DOMAIN toMain /\ toMain[i] = toMain'[i]
      BY <1>3, <2>3
    <3>2. NoMore(r) /\ \A j \in Copies(r) : j < i
      BY <3>1 DEF Inv, BehindInv
    <3> QED
      BY <1>0, <2>1, <3>2 DEF Silent
  <2> QED
    BY <2>2, <2>3
<1> QED
  BY <1>2, <1>4

\* Steps in which main takes a message.
LEMMA TakeStep ==
  ASSUME Inv, Types', UNCHANGED <<conn, told, asked, retained>>, toMain # <<>>,
         toMain' = Tail(toMain),
         \A r \in Requests :
           /\ registry[r] # "none" => registry'[r] # "none"
           /\ registry[r] = "none" /\ registry'[r] # "none" => 1 \in Copies(r)
  PROVE  /\ BehindInv' /\ Seals
         /\ \A r \in Requests :
              "restarted" \in told'[r] \/ retained'[r] = "restarted" => Sealed(r)
<1>1. \A r \in Requests : NoMore(r)' = NoMore(r)
  BY DEF NoMore, Answered, WorkerOnly
<1>2. \A r \in Requests : \A i \in Copies(r)' : i \in Nat /\ i + 1 \in Copies(r)
  BY CopiesTail DEF Inv
<1>3. Seals
  BY <1>1, <1>2 DEF Seals, Sealed
<1>4. /\ DOMAIN toMain = 1..Len(toMain) /\ Len(toMain) \in Nat
      /\ DOMAIN toMain' = 1..(Len(toMain) - 1)
      /\ \A i \in 1..(Len(toMain) - 1) : toMain'[i] = toMain[i + 1]
  BY TailFacts DEF Inv, Types
<1>5. BehindInv'
  <2> SUFFICES ASSUME NEW i \in DOMAIN toMain', toMain'[i].kind = "reconcile",
                      NEW r \in toMain'[i].reqs, registry'[r] = "none"
               PROVE  NoMore(r)' /\ \A j \in Copies(r)' : j < i
    BY DEF BehindInv
  <2>1. r \in Requests
    <3>1. toMain'[i] \in MainMsg
      BY DEF Types
    <3> QED
      BY <3>1, MessageShape
  <2>2. i \in Nat /\ i + 1 \in DOMAIN toMain /\ toMain[i + 1] = toMain'[i]
    BY <1>4
  <2>3. NoMore(r) /\ \A j \in Copies(r) : j < i + 1
    BY <2>1, <2>2 DEF Inv, BehindInv
  <2>4. ASSUME NEW j \in Copies(r)' PROVE j < i
    <3>1. j \in Nat /\ j + 1 < i + 1
      BY <1>2, <2>1, <2>3, <2>4
    <3> QED
      BY <2>2, <3>1
  <2> QED
    BY <1>1, <2>1, <2>3, <2>4
<1>6. ASSUME NEW r \in Requests, "restarted" \in told'[r] \/ retained'[r] = "restarted"
      PROVE  Sealed(r)
  BY <1>6 DEF Inv, VerdictInv
<1> QED
  BY <1>3, <1>5, <1>6

LEMMA InitInv == Init => Inv
<1> SUFFICES ASSUME Init PROVE Inv
  OBVIOUS
<1>1. toMain = <<>> /\ toWorker = <<>> /\ SeqRange(toMain) = {} /\ SeqRange(toWorker) = {}
      /\ DOMAIN toMain = {}
  BY DEF Init, SeqRange
<1>2. Types
  BY DEF Init, Types, States, WorkerVerdicts
<1>3. BeginInv /\ AcceptInv
  BY <1>1 DEF Init, BeginInv, AcceptInv
<1>4. IdsInv /\ AskedInv
  BY <1>1 DEF Init, IdsInv, AskedInv
<1>5. BehindInv /\ ResultInv /\ VerdictInv
  BY <1>1 DEF Init, BehindInv, ResultInv, VerdictInv
<1> QED
  BY <1>2, <1>3, <1>4, <1>5 DEF Inv
-----------------------------------------------------------------------------
(* The steps. *)

LEMMA ConnectInv == ASSUME Inv, NEW p \in Phones, Connect(p) PROVE Inv'
<1> DEFINE pending == {r \in RequestsOf(p) : WorkerOnly(r)}
           m == Reconcile(pending, nextId)
<1>1. /\ worker = "up" /\ conn[p] = 0 /\ nextId \in Nat \ {0}
      /\ conn' = [conn EXCEPT ![p] = nextId] /\ nextId' = nextId + 1
      /\ asked' = asked \cup pending
      /\ toMain' = IF pending = {} THEN toMain ELSE Append(toMain, m)
      /\ UNCHANGED <<worker, queued, retained, toWorker, registry, replyTo, runs,
                     told, drops, crashes>>
  BY DEF Connect, Inv, Types
<1>2. /\ pending \subseteq Requests
      /\ \A r \in Requests : r \in pending <=> Owner[r] = p /\ WorkerOnly(r)
  BY DEF RequestsOf
<1> HIDE DEF pending
<1>3. /\ m \in MainMsg /\ m.kind = "reconcile" /\ m.reqs = pending /\ m.client = nextId
  BY <1>1, <1>2, MakeQuestion
<1> HIDE DEF m
<1>4. /\ toMain \in Seq(MainMsg) /\ toMain' \in Seq(MainMsg)
      /\ SeqRange(toMain') \subseteq SeqRange(toMain) \cup {m}
  BY <1>1, <1>3, AppendFacts DEF Inv, Types
<1>5. Types'
  <2>1. conn' \in [Phones -> Nat] /\ nextId' \in Nat \ {0}
    BY <1>1 DEF Inv, Types
  <2>2. asked' \subseteq Requests
    BY <1>1, <1>2 DEF Inv, Types
  <2> QED BY <1>1, <1>4, <2>1, <2>2 DEF Inv, Types
<1>6. BeginInv' /\ AcceptInv'
  BY <1>1 DEF Inv, BeginInv, AcceptInv
<1>7. IdsInv'
  <2>1. \A q \in Phones : conn'[q] < nextId'
    BY <1>1 DEF Inv, Types, IdsInv
  <2>2. \A n \in SeqRange(toMain') : n.client < nextId'
    <3> SUFFICES ASSUME NEW n \in SeqRange(toMain') PROVE n.client < nextId + 1
      BY <1>1
    <3>1. n \in MainMsg
      BY <1>5, InRange DEF Types
    <3>2. n.client \in Nat /\ (n = m \/ n.client < nextId)
      BY <1>4, <3>1, MessageShape DEF Inv, IdsInv
    <3> QED
      BY <1>1, <1>3, <3>2
  <2>3. ASSUME NEW f \in SeqRange(toWorker), f.kind # "result", registry[f.req] = "none"
        PROVE  f.client < nextId + 1
    <3>1. f \in WorkerMsg
      BY InRange DEF Inv, Types
    <3>2. f.client \in Nat /\ f.client < nextId
      BY <2>3, <3>1, MessageShape DEF Inv, IdsInv
    <3> QED
      BY <1>1, <3>2
  <2> QED
    BY <1>1, <2>1, <2>2, <2>3 DEF IdsInv
<1>8. AskedInv'
  <2> SUFFICES ASSUME NEW r \in asked', registry[r] = "none"
               PROVE  /\ \A n \in SeqRange(toMain') :
                           n.kind = "send" /\ n.req = r => n.client < conn'[Owner[r]]
                      /\ \A f \in SeqRange(toWorker) :
                           f.kind # "result" /\ f.req = r => f.client < conn'[Owner[r]]
    BY <1>1 DEF AskedInv
  <2>1. r \in Requests /\ Owner[r] \in Phones
    BY <1>5, OwnerAssumption DEF Types
  <2>2. CASE Owner[r] = p
    <3>1. conn'[Owner[r]] = nextId
      BY <1>1, <2>2 DEF Inv, Types
    <3> QED
      BY <1>3, <1>4, <3>1 DEF Inv, IdsInv
  <2>3. CASE Owner[r] # p
    <3>1. conn'[Owner[r]] = conn[Owner[r]] /\ r \in asked
      BY <1>1, <1>2, <2>1, <2>3 DEF Inv, Types
    <3> QED
      BY <1>3, <1>4, <3>1 DEF Inv, AskedInv
  <2> QED
    BY <2>2, <2>3
<1>9. Silent
  <2> SUFFICES ASSUME NEW r \in Requests, NoMore(r) PROVE NoMore(r)'
    BY DEF Silent
  <2>1. Owner[r] \in Phones
    BY OwnerAssumption
  <2>2. CASE Owner[r] = p
    BY <1>1, <1>2, <2>2 DEF NoMore, Answered, WorkerOnly
  <2>3. CASE Owner[r] # p
    BY <1>1, <2>1, <2>3 DEF NoMore, Answered, WorkerOnly, Inv, Types
  <2> QED
    BY <2>2, <2>3
<1>10. \A r \in Requests : "restarted" \in told'[r] \/ retained'[r] = "restarted" => Sealed(r)
  BY <1>1 DEF Inv, VerdictInv
<1>11. BehindInv' /\ ResultInv' /\ VerdictInv'
  <2>1. CASE pending = {}
    <3>1. UNCHANGED <<toMain, registry>> /\ SeqRange(toWorker') \subseteq SeqRange(toWorker)
      BY <1>1, <2>1
    <3> QED
      BY <1>5, <1>9, <1>10, <3>1, StillStep
  <2>2. CASE pending # {}
    <3>1. UNCHANGED <<toWorker, registry>> /\ toMain' = Append(toMain, m)
      BY <1>1, <2>2
    <3>2. \A r \in m.reqs : NoMore(r)'
      BY <1>1, <1>2, <1>3 DEF NoMore, WorkerOnly
    <3> QED
      BY <1>3, <1>5, <1>9, <1>10, <3>1, <3>2, AppendStep
  <2> QED
    BY <2>1, <2>2
<1> QED
  BY <1>5, <1>6, <1>7, <1>8, <1>11 DEF Inv

LEMMA DisconnectInv == ASSUME Inv, NEW p \in Phones, Disconnect(p) PROVE Inv'
<1>1. /\ conn' = [conn EXCEPT ![p] = 0] /\ asked' = asked \ RequestsOf(p)
      /\ drops' = drops + 1
      /\ UNCHANGED <<worker, nextId, queued, retained, toMain, toWorker, registry,
                     replyTo, runs, told, crashes>>
  BY DEF Disconnect
<1>2. \A r \in Requests : r \in asked' <=> r \in asked /\ Owner[r] # p
  BY <1>1 DEF RequestsOf
<1>3. Types'
  BY <1>1 DEF Inv, Types
<1>4. BeginInv' /\ AcceptInv'
  BY <1>1 DEF Inv, BeginInv, AcceptInv
<1>5. IdsInv'
  BY <1>1 DEF Inv, Types, IdsInv
<1>6. AskedInv'
  <2>1. \A r \in asked' : r \in asked /\ conn'[Owner[r]] = conn[Owner[r]]
    BY <1>1, <1>2, OwnerAssumption DEF Inv, Types
  <2> QED
    BY <1>1, <2>1 DEF Inv, AskedInv
<1>7. Silent
  <2> SUFFICES ASSUME NEW r \in Requests, NoMore(r) PROVE NoMore(r)'
    BY DEF Silent
  <2>1. Owner[r] \in Phones
    BY OwnerAssumption
  <2> QED
    BY <1>1, <1>2, <2>1 DEF NoMore, Answered, WorkerOnly, Inv, Types
<1>8. \A r \in Requests : "restarted" \in told'[r] \/ retained'[r] = "restarted" => Sealed(r)
  BY <1>1 DEF Inv, VerdictInv
<1>9. UNCHANGED <<toMain, registry>> /\ SeqRange(toWorker') \subseteq SeqRange(toWorker)
  BY <1>1
<1>10. BehindInv' /\ ResultInv' /\ VerdictInv'
  BY <1>3, <1>7, <1>8, <1>9, StillStep
<1> QED
  BY <1>3, <1>4, <1>5, <1>6, <1>10 DEF Inv

\* What a phone is told leaves the ids and the questions as they were.
LEMMA ToldStep ==
  ASSUME Inv, Types', UNCHANGED <<worker, conn, nextId, toMain, registry, runs>>,
         SeqRange(toWorker') \subseteq SeqRange(toWorker), asked' \subseteq asked,
         worker = "dead" => toWorker' = toWorker,
         \A r \in Requests : "accepted" \in told'[r] => registry[r] = "accepted"
  PROVE  BeginInv' /\ AcceptInv' /\ IdsInv' /\ AskedInv'
<1>1. BeginInv' /\ AcceptInv'
  BY DEF Inv, BeginInv, AcceptInv
<1>2. IdsInv' /\ AskedInv'
  BY DEF Inv, IdsInv, AskedInv
<1> QED
  BY <1>1, <1>2

LEMMA ExpireInv == ASSUME Inv, NEW r \in Requests, Expire(r) PROVE Inv'
<1> DEFINE c == queued[r]
<1>1. /\ queued' = [queued EXCEPT ![r] = 0]
      /\ retained' = [retained EXCEPT ![r] = "timeout"]
      /\ Tell(c, r, {"timeout"})
      /\ UNCHANGED <<worker, conn, nextId, toMain, toWorker, registry, replyTo, runs,
                     drops, crashes>>
  BY DEF Expire
<1>2. {"timeout"} \in SUBSET (Finals \cup Receipts) /\ "timeout" \in Finals
  BY DEF Finals, WorkerVerdicts
<1> HIDE DEF c
<1>3. /\ told' \in [Requests -> SUBSET (Finals \cup Receipts)] /\ asked' \subseteq asked
      /\ told'[r] = IF Reaches(c, r) THEN told[r] \cup {"timeout"} ELSE told[r]
      /\ asked' = IF Reaches(c, r) THEN asked \ {r} ELSE asked
      /\ \A q \in Requests : q # r => told'[q] = told[q] /\ (q \in asked' <=> q \in asked)
  BY <1>1, <1>2, TellFacts DEF Inv
<1>4. Types'
  BY <1>1, <1>3 DEF Inv, Types, WorkerVerdicts
<1>5. \A q \in Requests : "accepted" \in told'[q] => registry[q] = "accepted"
  BY <1>3 DEF Inv, AcceptInv
<1>6. Silent
  <2> SUFFICES ASSUME NEW q \in Requests, NoMore(q) PROVE NoMore(q)'
    BY DEF Silent
  <2>1. CASE q = r /\ Reaches(c, r)
    BY <1>2, <1>3, <2>1 DEF NoMore, Answered
  <2>2. CASE ~(q = r /\ Reaches(c, r))
    BY <1>1, <1>3, <2>2 DEF NoMore, Answered, WorkerOnly
  <2> QED
    BY <2>1, <2>2
<1>7. \A q \in Requests : "restarted" \in told'[q] \/ retained'[q] = "restarted" => Sealed(q)
  BY <1>1, <1>3 DEF Inv, Types, VerdictInv
<1>8. UNCHANGED <<toMain, registry>> /\ SeqRange(toWorker') \subseteq SeqRange(toWorker)
  BY <1>1
<1>9. BehindInv' /\ ResultInv' /\ VerdictInv'
  BY <1>4, <1>6, <1>7, <1>8, StillStep
<1>10. BeginInv' /\ AcceptInv' /\ IdsInv' /\ AskedInv'
  BY <1>1, <1>3, <1>4, <1>5, ToldStep
<1> QED
  BY <1>4, <1>9, <1>10 DEF Inv

LEMMA ForgetInv == ASSUME Inv, NEW r \in Requests, ForgetFinal(r) PROVE Inv'
<1>1. /\ retained' = [retained EXCEPT ![r] = "none"]
      /\ UNCHANGED <<worker, conn, nextId, queued, toMain, toWorker, registry,
                     replyTo, runs, told, asked, drops, crashes>>
  BY DEF ForgetFinal
<1>2. Types'
  BY <1>1 DEF Inv, Types
<1>3. Silent
  BY <1>1 DEF Silent, NoMore, Answered, WorkerOnly
<1>4. \A q \in Requests : "restarted" \in told'[q] \/ retained'[q] = "restarted" => Sealed(q)
  BY <1>1 DEF Inv, Types, VerdictInv
<1>5. BehindInv' /\ ResultInv' /\ VerdictInv'
  BY <1>1, <1>2, <1>3, <1>4, StillStep
<1>6. BeginInv' /\ AcceptInv' /\ IdsInv' /\ AskedInv'
  <2>1. \A q \in Requests : "accepted" \in told'[q] => registry[q] = "accepted"
    BY <1>1 DEF Inv, AcceptInv
  <2> QED
    BY <1>1, <1>2, <2>1, ToldStep
<1> QED
  BY <1>2, <1>5, <1>6 DEF Inv

\* A phone that sends again is not silent about the request.
LEMMA SendInv == ASSUME Inv, NEW r \in Requests, Send(r) PROVE Inv'
<1> DEFINE c == conn[Owner[r]]
           m == SendCopy(r, c)
<1>1. /\ c # 0 /\ ~Answered(r) /\ r \notin asked
      /\ UNCHANGED <<worker, conn, nextId, toWorker, registry, replyTo, runs, drops, crashes>>
  BY DEF Send
<1>2. \/ /\ Tell(c, r, {retained[r]}) /\ retained[r] # "none"
         /\ UNCHANGED <<queued, retained, toMain>>
      \/ /\ Tell(c, r, {"worker_receipt"}) /\ toMain' = Append(toMain, m)
         /\ queued' \in {queued, [queued EXCEPT ![r] = c]} /\ retained' = retained
      \/ /\ Tell(c, r, {"full"}) /\ retained' = [retained EXCEPT ![r] = "full"]
         /\ UNCHANGED <<queued, toMain>>
  BY DEF Send
<1>3. Owner[r] \in Phones /\ c \in Nat /\ c < nextId /\ Reaches(c, r)
  BY <1>1, OwnerAssumption DEF Inv, Types, IdsInv, Reaches
<1>4. m \in MainMsg /\ m.kind = "send" /\ m.req = r /\ m.client = c
  BY <1>3, MakeCopy
<1>5. ~NoMore(r)
  BY <1>1 DEF NoMore
<1>6. r \in Requests /\ conn[Owner[r]] = c
  OBVIOUS
<1> HIDE DEF m, c
<1>7. PICK v \in SUBSET (Finals \cup Receipts) : Tell(c, r, v) /\ (v = {retained[r]}
                                             \/ v = {"worker_receipt"} \/ v = {"full"})
  <2>1. /\ {"worker_receipt"} \in SUBSET (Finals \cup Receipts)
        /\ {"full"} \in SUBSET (Finals \cup Receipts)
        /\ retained[r] # "none" => {retained[r]} \in SUBSET (Finals \cup Receipts)
    BY DEF Inv, Types, Finals, Receipts, WorkerVerdicts
  <2> QED
    BY <1>2, <2>1
<1>8. /\ told' \in [Requests -> SUBSET (Finals \cup Receipts)] /\ asked' \subseteq asked
      /\ told'[r] = told[r] \cup v
      /\ \A q \in Requests : q # r => told'[q] = told[q] /\ (q \in asked' <=> q \in asked)
  BY <1>3, <1>7, TellFacts DEF Inv
<1>9. /\ toMain' \in Seq(MainMsg)
      /\ toMain' = toMain \/ toMain' = Append(toMain, m)
      /\ SeqRange(toMain') \subseteq SeqRange(toMain) \cup {m}
  <2>1. toMain \in Seq(MainMsg)
    BY DEF Inv, Types
  <2>2. /\ Append(toMain, m) \in Seq(MainMsg)
        /\ SeqRange(Append(toMain, m)) = SeqRange(toMain) \cup {m}
    BY <1>4, <2>1, AppendFacts
  <2>3. toMain' = toMain \/ toMain' = Append(toMain, m)
    BY <1>2
  <2>4. CASE toMain' = toMain
    BY <2>1, <2>4
  <2>5. CASE toMain' = Append(toMain, m)
    BY <2>2, <2>5
  <2> QED
    BY <2>3, <2>4, <2>5
<1>10. Types'
  BY <1>1, <1>2, <1>3, <1>8, <1>9 DEF Inv, Types, WorkerVerdicts
<1>11. BeginInv' /\ AcceptInv'
  <2>1. retained[r] \in WorkerVerdicts \cup {"none"}
    BY DEF Inv, Types
  <2>2. retained[r] # "accepted"
    BY <2>1 DEF WorkerVerdicts
  <2>3. "accepted" \notin v
    BY <1>7, <2>2
  <2> QED
    BY <1>1, <1>8, <2>3 DEF Inv, BeginInv, AcceptInv
<1>12. IdsInv'
  <2>1. worker = "up"
    BY <1>1, <1>3, <1>6 DEF Inv, Types, IdsInv
  <2> QED
    BY <1>1, <1>3, <1>4, <1>9, <2>1 DEF Inv, IdsInv
<1>13. AskedInv'
  BY <1>1, <1>4, <1>8, <1>9 DEF Inv, AskedInv
<1>14. Silent
  <2> SUFFICES ASSUME NEW q \in Requests, NoMore(q) PROVE NoMore(q)'
    BY DEF Silent
  <2>1. q # r
    BY <1>5
  <2> QED
    BY <1>1, <1>8, <2>1 DEF NoMore, Answered, WorkerOnly
<1>15. \A q \in Requests : "restarted" \in told'[q] \/ retained'[q] = "restarted" => Sealed(q)
  <2> SUFFICES ASSUME NEW q \in Requests, "restarted" \in told'[q] \/ retained'[q] = "restarted"
               PROVE  "restarted" \in told[q] \/ retained[q] = "restarted"
    BY DEF Inv, VerdictInv
  <2>1. retained'[q] = "restarted" => retained[q] = "restarted"
    BY <1>2 DEF Inv, Types
  <2>2. "restarted" \in told'[q] => "restarted" \in told[q] \/ retained[q] = "restarted"
    BY <1>7, <1>8
  <2> QED
    BY <2>1, <2>2
<1>16. BehindInv' /\ ResultInv' /\ VerdictInv'
  <2>1. CASE toMain' = toMain
    <3>1. UNCHANGED <<toMain, registry>> /\ SeqRange(toWorker') \subseteq SeqRange(toWorker)
      BY <1>1, <2>1
    <3> QED
      BY <1>10, <1>14, <1>15, <3>1, StillStep
  <2>2. CASE toMain' = Append(toMain, m)
    <3>1. UNCHANGED <<toWorker, registry>>
      BY <1>1
    <3>2. (m.kind = "send" => ~NoMore(m.req)) /\ m.kind # "reconcile"
      BY <1>4, <1>5
    <3> QED
      BY <1>4, <1>10, <1>14, <1>15, <2>2, <3>1, <3>2, AppendStep
  <2> QED
    BY <1>9, <2>1, <2>2
<1> QED
  BY <1>10, <1>11, <1>12, <1>13, <1>16 DEF Inv

LEMMA TakeFrameInv == ASSUME Inv, TakeFrame PROVE Inv'
<1> DEFINE f == Head(toWorker)
<1>1. /\ worker = "up" /\ toWorker # <<>> /\ f.kind # "result"
      /\ queued' = IF SettlesEntry(f) THEN [queued EXCEPT ![f.req] = 0] ELSE queued
      /\ Tell(f.client, f.req, {f.kind})
      /\ toWorker' = Tail(toWorker)
      /\ UNCHANGED <<worker, conn, nextId, retained, toMain, registry, replyTo, runs,
                     drops, crashes>>
  BY DEF TakeFrame
<1>2. /\ toWorker' \in Seq(WorkerMsg) /\ SeqRange(toWorker') \subseteq SeqRange(toWorker)
      /\ f \in WorkerMsg /\ f \in SeqRange(toWorker)
  BY <1>1, TailFacts DEF Inv, Types
<1> HIDE DEF f
<1>3. /\ f.req \in Requests /\ f.client \in Nat
      /\ f.kind \in {"main_receipt", "accepted", "rejected"}
  BY <1>1, <1>2, MessageShape
<1> DEFINE r == f.req
           c == f.client
           v == {f.kind}
<1>4. r \in Requests /\ v \in SUBSET (Finals \cup Receipts) /\ "restarted" \notin v
  BY <1>3 DEF Finals, Receipts
<1>5. Tell(c, r, v)
  BY <1>1
<1>6. "accepted" \in v => registry[r] = "accepted"
  BY <1>1, <1>2, <1>3 DEF Inv, AcceptInv
<1>7. r \in asked /\ registry[r] = "none" => ~Reaches(c, r)
  <2>1. r \in asked /\ registry[r] = "none" => c < conn[Owner[r]]
    BY <1>1, <1>2 DEF Inv, AskedInv
  <2>2. conn[Owner[r]] \in Nat
    BY <1>4, OwnerAssumption DEF Inv, Types
  <2> QED
    BY <1>3, <2>1, <2>2 DEF Reaches
<1>8. queued' \in [Requests -> Nat]
  BY <1>1, <1>3 DEF Inv, Types
<1> HIDE DEF r, c, v
<1>9. /\ told' \in [Requests -> SUBSET (Finals \cup Receipts)] /\ asked' \subseteq asked
      /\ told'[r] = IF Reaches(c, r) THEN told[r] \cup v ELSE told[r]
      /\ asked' = IF Reaches(c, r) THEN asked \ {r} ELSE asked
      /\ \A q \in Requests : q # r => told'[q] = told[q] /\ (q \in asked' <=> q \in asked)
  BY <1>4, <1>5, TellFacts DEF Inv
<1>10. Types'
  BY <1>1, <1>2, <1>8, <1>9 DEF Inv, Types
<1>11. Silent
  <2> SUFFICES ASSUME NEW q \in Requests, registry'[q] = "none", NoMore(q) PROVE NoMore(q)'
    BY DEF Silent
  <2>1. CASE q = r /\ Reaches(c, r)
    <3>1. r \notin asked /\ conn[Owner[r]] # 0
      BY <1>1, <1>7, <2>1 DEF Reaches
    <3>2. Answered(r)
      BY <2>1, <3>1 DEF NoMore
    <3> QED
      BY <1>9, <2>1, <3>2 DEF NoMore, Answered
  <2>2. CASE ~(q = r /\ Reaches(c, r))
    BY <1>1, <1>9, <2>2 DEF NoMore, Answered, WorkerOnly
  <2> QED
    BY <2>1, <2>2
<1>12. \A q \in Requests : "restarted" \in told'[q] \/ retained'[q] = "restarted" => Sealed(q)
  BY <1>1, <1>4, <1>9 DEF Inv, VerdictInv
<1>13. BehindInv' /\ ResultInv' /\ VerdictInv'
  BY <1>1, <1>2, <1>10, <1>11, <1>12, StillStep
<1>14. \A q \in Requests : "accepted" \in told'[q] => registry[q] = "accepted"
  BY <1>6, <1>9 DEF Inv, AcceptInv
<1>15. BeginInv' /\ AcceptInv' /\ IdsInv' /\ AskedInv'
  BY <1>1, <1>2, <1>9, <1>10, <1>14, ToldStep
<1> QED
  BY <1>10, <1>13, <1>15 DEF Inv

LEMMA TakeResultInv == ASSUME Inv, TakeResult PROVE Inv'
<1> DEFINE f == Head(toWorker)
           rs == DOMAIN f.answer
           here == {r \in rs : Reaches(f.client, r)}
<1>1. /\ worker = "up" /\ toWorker # <<>> /\ f.kind = "result"
      /\ retained' = [r \in Requests |->
           IF r \in rs /\ ~Known(f.answer[r]) THEN "restarted" ELSE retained[r]]
      /\ told' = [r \in Requests |->
           IF r \in here THEN told[r] \cup AnswerOf(f.answer[r]) ELSE told[r]]
      /\ asked' = asked \ here
      /\ toWorker' = Tail(toWorker)
      /\ UNCHANGED <<worker, conn, nextId, queued, toMain, registry, replyTo, runs,
                     drops, crashes>>
  BY DEF TakeResult
<1>2. /\ toWorker' \in Seq(WorkerMsg) /\ SeqRange(toWorker') \subseteq SeqRange(toWorker)
      /\ f \in WorkerMsg /\ f \in SeqRange(toWorker)
  BY <1>1, TailFacts DEF Inv, Types
<1> HIDE DEF f
<1>3. rs \subseteq Requests /\ \A r \in rs : f.answer[r] \in States
  BY <1>1, <1>2, MessageShape
<1>4. \A r \in rs : /\ IF f.answer[r] = "none" THEN Sealed(r) ELSE registry[r] # "none"
                    /\ f.answer[r] = "accepted" => registry[r] = "accepted"
  BY <1>1, <1>2 DEF Inv, ResultInv, AcceptInv
<1>5. \A r \in rs : /\ AnswerOf(f.answer[r]) \in SUBSET (Finals \cup Receipts)
                    /\ "accepted" \in AnswerOf(f.answer[r]) <=> f.answer[r] = "accepted"
                    /\ "restarted" \in AnswerOf(f.answer[r]) <=> f.answer[r] = "none"
                    /\ ~Known(f.answer[r]) <=> f.answer[r] = "none"
  BY <1>3 DEF AnswerOf, Known, States, Finals, Receipts, WorkerVerdicts
<1> HIDE DEF rs
<1>6. \A r \in Requests : r \in here <=> r \in rs /\ Reaches(f.client, r)
  OBVIOUS
<1> HIDE DEF here
<1>7. Types'
  <2>1. told' \in [Requests -> SUBSET (Finals \cup Receipts)]
    BY <1>1, <1>5, <1>6 DEF Inv, Types
  <2>2. retained' \in [Requests -> WorkerVerdicts \cup {"none"}]
    BY <1>1 DEF Inv, Types, WorkerVerdicts
  <2> QED
    BY <1>1, <1>2, <2>1, <2>2 DEF Inv, Types
<1>8. Silent
  <2> SUFFICES ASSUME NEW r \in Requests, registry'[r] = "none", NoMore(r) PROVE NoMore(r)'
    BY DEF Silent
  <2>1. told[r] \subseteq told'[r]
    BY <1>1
  <2>2. CASE r \in here
    <3>1. f.answer[r] = "none" /\ "restarted" \in told'[r]
      BY <1>1, <1>4, <1>5, <1>6, <2>2
    <3> QED
      BY <3>1 DEF NoMore, Answered, Finals, WorkerVerdicts
  <2>3. CASE r \notin here
    BY <1>1, <2>3 DEF NoMore, Answered, WorkerOnly
  <2> QED
    BY <2>2, <2>3
<1>9. \A r \in Requests : "restarted" \in told'[r] \/ retained'[r] = "restarted" => Sealed(r)
  BY <1>1, <1>4, <1>5, <1>6 DEF Inv, VerdictInv
<1>10. BehindInv' /\ ResultInv' /\ VerdictInv'
  BY <1>1, <1>2, <1>7, <1>8, <1>9, StillStep
<1>11. \A r \in Requests : "accepted" \in told'[r] => registry[r] = "accepted"
  BY <1>1, <1>4, <1>5, <1>6 DEF Inv, AcceptInv
<1>12. BeginInv' /\ AcceptInv' /\ IdsInv' /\ AskedInv'
  BY <1>1, <1>2, <1>7, <1>11, ToldStep
<1> QED
  BY <1>7, <1>10, <1>12 DEF Inv

\* Main takes a message and posts frames about it.
LEMMA MainTakes ==
  ASSUME Inv, toMain # <<>>, toMain' = Tail(toMain),
         UNCHANGED <<worker, conn, nextId, queued, retained, told, asked, drops, crashes>>,
         NEW fs \in Seq(WorkerMsg), toWorker' = Post(fs),
         registry' \in [Requests -> States], replyTo' \in [Requests -> Nat],
         runs' \in [Requests -> Nat], BeginInv',
         \A r \in Requests :
           /\ registry[r] # "none" => registry'[r] = registry[r]
           /\ registry[r] = "none" /\ registry'[r] # "none" => 1 \in Copies(r),
         \A f \in SeqRange(fs) :
           /\ f.client < nextId
           /\ f.kind # "result" => Head(toMain).kind = "send" /\ f.req = Head(toMain).req
                                     /\ f.client = Head(toMain).client
           /\ f.kind = "accepted" => registry'[f.req] = "accepted"
           /\ f.kind = "result" => \A r \in DOMAIN f.answer :
                /\ f.answer[r] = "accepted" => registry'[r] = "accepted"
                /\ IF f.answer[r] = "none" THEN Sealed(r)' ELSE registry'[r] # "none"
  PROVE  Inv'
<1>1. /\ toMain' \in Seq(MainMsg) /\ SeqRange(toMain') \subseteq SeqRange(toMain)
      /\ Head(toMain) \in SeqRange(toMain)
  BY TailFacts DEF Inv, Types
<1>2. /\ toWorker' \in Seq(WorkerMsg)
      /\ SeqRange(toWorker') \subseteq SeqRange(toWorker) \cup SeqRange(fs)
      /\ worker = "dead" => toWorker' = toWorker
  BY PostFacts DEF Inv
<1>3. Types'
  BY <1>1, <1>2 DEF Inv, Types
<1>4. \A f \in SeqRange(toWorker') :
        /\ f.kind # "result" => f.req \in Requests
        /\ f.kind = "result" => DOMAIN f.answer \subseteq Requests
  BY <1>2, InRange, MessageShape
<1>5. \A r \in Requests : registry'[r] = "none" => registry[r] = "none"
  OBVIOUS
<1>6. AcceptInv'
  <2>1. \A r \in Requests : "accepted" \in told'[r] => registry'[r] = "accepted"
    BY DEF Inv, AcceptInv
  <2> SUFFICES ASSUME NEW f \in SeqRange(toWorker')
               PROVE  /\ f.kind = "accepted" => registry'[f.req] = "accepted"
                      /\ f.kind = "result" => \A r \in DOMAIN f.answer :
                           f.answer[r] = "accepted" => registry'[r] = "accepted"
    BY <2>1 DEF AcceptInv
  <2>2. CASE f \in SeqRange(toWorker)
    BY <1>4, <2>2 DEF Inv, AcceptInv
  <2>3. CASE f \in SeqRange(fs)
    BY <2>3
  <2> QED
    BY <1>2, <2>2, <2>3
<1>7. IdsInv'
  BY <1>1, <1>2, <1>4, <1>5 DEF Inv, IdsInv
<1>8. AskedInv'
  <2> SUFFICES ASSUME NEW r \in asked, registry'[r] = "none"
               PROVE  /\ \A m \in SeqRange(toMain') :
                           m.kind = "send" /\ m.req = r => m.client < conn[Owner[r]]
                      /\ \A f \in SeqRange(toWorker') :
                           f.kind # "result" /\ f.req = r => f.client < conn[Owner[r]]
    BY DEF AskedInv
  <2>1. registry[r] = "none"
    BY <1>5 DEF Inv, Types
  <2>2. /\ \A m \in SeqRange(toMain) :
             m.kind = "send" /\ m.req = r => m.client < conn[Owner[r]]
        /\ \A f \in SeqRange(toWorker) :
             f.kind # "result" /\ f.req = r => f.client < conn[Owner[r]]
    BY <2>1 DEF Inv, AskedInv
  <2>3. \A f \in SeqRange(fs) : f.kind # "result" /\ f.req = r => f.client < conn[Owner[r]]
    BY <1>1, <2>2
  <2> QED
    BY <1>1, <1>2, <2>2, <2>3
<1>9. /\ BehindInv' /\ Seals
      /\ \A r \in Requests : "restarted" \in told'[r] \/ retained'[r] = "restarted" => Sealed(r)
  BY <1>3, TakeStep
<1>10. ResultInv' /\ VerdictInv'
  BY <1>2, <1>3, <1>9, VerdictStep
<1> QED
  BY <1>3, <1>6, <1>7, <1>8, <1>9, <1>10 DEF Inv

LEMMA TakeSendInv == ASSUME Inv, TakeSend PROVE Inv'
<1> DEFINE m == Head(toMain)
           r == m.req
           c == m.client
           receipt == Frame("main_receipt", r, c)
<1>1. /\ toMain # <<>> /\ m.kind = "send" /\ toMain' = Tail(toMain)
      /\ UNCHANGED <<worker, conn, nextId, queued, retained, told, asked, drops, crashes>>
      /\ \/ /\ toWorker' = Post(<<receipt>> \o <<Frame("rejected", r, c)>>)
            /\ UNCHANGED <<registry, replyTo, runs>>
         \/ /\ registry[r] = "none" /\ toWorker' = Post(<<receipt>>)
            /\ registry' = [registry EXCEPT ![r] = "open"]
            /\ replyTo' = [replyTo EXCEPT ![r] = c]
            /\ runs' = [runs EXCEPT ![r] = @ + 1]
         \/ /\ registry[r] # "none"
            /\ toWorker' = Post(<<receipt>> \o
                 IF registry[r] = "open" THEN <<>> ELSE <<Frame(registry[r], r, c)>>)
            /\ UNCHANGED <<registry, replyTo, runs>>
  BY DEF TakeSend, Begins, ReceiptFor
<1>2. m \in MainMsg /\ m \in SeqRange(toMain) /\ m = toMain[1] /\ 1 \in DOMAIN toMain
  BY <1>1, TailFacts DEF Inv, Types
<1>3. 1 \in Copies(r) /\ c < nextId
  BY <1>1, <1>2 DEF Copies, Inv, IdsInv
<1> HIDE DEF m
<1>4. r \in Requests /\ c \in Nat
  BY <1>1, <1>2, MessageShape
<1>5. Head(toMain).kind = "send" /\ r = Head(toMain).req /\ c = Head(toMain).client
  BY <1>1 DEF m
<1> HIDE DEF r, c
<1>6. /\ receipt \in WorkerMsg /\ receipt.kind = "main_receipt"
      /\ receipt.req = r /\ receipt.client = c
  BY <1>4, MakeFrame
<1> HIDE DEF receipt
<1>7. /\ registry \in [Requests -> States] /\ replyTo \in [Requests -> Nat]
      /\ runs \in [Requests -> Nat] /\ BeginInv
  BY DEF Inv, Types
<1>8. CASE /\ UNCHANGED <<registry, replyTo, runs>>
           /\ \/ toWorker' = Post(<<receipt>>)
              \/ \E k \in {"accepted", "rejected"} :
                   /\ k = "accepted" => registry[r] = "accepted"
                   /\ toWorker' = Post(<<receipt>> \o <<Frame(k, r, c)>>)
  <2>1. BeginInv'
    BY <1>7, <1>8 DEF BeginInv
  <2>2. CASE toWorker' = Post(<<receipt>>)
    <3>1. <<receipt>> \in Seq(WorkerMsg) /\ SeqRange(<<receipt>>) = {receipt}
      BY <1>6, OneFacts
    <3> DEFINE fs == <<receipt>>
    <3> HIDE DEF fs
    <3>2. fs \in Seq(WorkerMsg) /\ SeqRange(fs) = {receipt} /\ toWorker' = Post(fs)
      BY <2>2, <3>1 DEF fs
    <3> QED
      BY <1>1, <1>3, <1>5, <1>6, <1>7, <1>8, <2>1, <3>2, MainTakes
  <2>3. ASSUME NEW k \in {"accepted", "rejected"}, k = "accepted" => registry[r] = "accepted",
               toWorker' = Post(<<receipt>> \o <<Frame(k, r, c)>>)
        PROVE  Inv'
    <3> DEFINE final == Frame(k, r, c)
    <3>1. final \in WorkerMsg /\ final.kind = k /\ final.req = r /\ final.client = c
      BY <1>4, MakeFrame
    <3> HIDE DEF final
    <3> DEFINE fs == <<receipt>> \o <<final>>
    <3>2. fs \in Seq(WorkerMsg) /\ SeqRange(fs) = {receipt, final}
      BY <1>6, <3>1, TwoFacts
    <3>3. toWorker' = Post(fs)
      BY <2>3 DEF final
    <3> HIDE DEF fs
    <3> QED
      BY <1>1, <1>3, <1>5, <1>6, <1>7, <1>8, <2>1, <2>3, <3>1, <3>2, <3>3, MainTakes
  <2> QED
    BY <1>8, <2>2, <2>3
<1>9. CASE /\ registry[r] = "none" /\ toWorker' = Post(<<receipt>>)
           /\ registry' = [registry EXCEPT ![r] = "open"]
           /\ replyTo' = [replyTo EXCEPT ![r] = c]
           /\ runs' = [runs EXCEPT ![r] = @ + 1]
  <2>1. <<receipt>> \in Seq(WorkerMsg) /\ SeqRange(<<receipt>>) = {receipt}
    BY <1>6, OneFacts
  <2> DEFINE fs == <<receipt>>
  <2> HIDE DEF fs
  <2>2. fs \in Seq(WorkerMsg) /\ SeqRange(fs) = {receipt} /\ toWorker' = Post(fs)
    BY <1>9, <2>1 DEF fs
  <2>3. /\ registry' \in [Requests -> States] /\ replyTo' \in [Requests -> Nat]
        /\ runs' \in [Requests -> Nat]
    BY <1>4, <1>7, <1>9 DEF States
  <2>4. BeginInv'
    BY <1>4, <1>7, <1>9 DEF BeginInv
  <2>5. \A q \in Requests :
          /\ registry[q] # "none" => registry'[q] = registry[q]
          /\ registry[q] = "none" /\ registry'[q] # "none" => 1 \in Copies(q)
    BY <1>3, <1>7, <1>9
  <2> QED
    BY <1>1, <1>3, <1>5, <1>6, <2>2, <2>3, <2>4, <2>5, MainTakes
<1>10. <<receipt>> \o <<>> = <<receipt>>
  BY <1>6, OneFacts
<1>11. registry[r] \in States
  BY <1>4, <1>7
<1>12. \/ /\ UNCHANGED <<registry, replyTo, runs>>
          /\ \/ toWorker' = Post(<<receipt>>)
             \/ \E k \in {"accepted", "rejected"} :
                  /\ k = "accepted" => registry[r] = "accepted"
                  /\ toWorker' = Post(<<receipt>> \o <<Frame(k, r, c)>>)
       \/ /\ registry[r] = "none" /\ toWorker' = Post(<<receipt>>)
          /\ registry' = [registry EXCEPT ![r] = "open"]
          /\ replyTo' = [replyTo EXCEPT ![r] = c]
          /\ runs' = [runs EXCEPT ![r] = @ + 1]
  BY <1>1, <1>10, <1>11 DEF States, r, c, receipt
<1> QED
  BY <1>8, <1>9, <1>12

LEMMA TakeReconcileInv == ASSUME Inv, TakeReconcile PROVE Inv'
<1> DEFINE m == Head(toMain)
           rs == m.reqs
           f == Result(rs, m.client)
           fs == <<f>>
<1>1. /\ toMain # <<>> /\ m.kind = "reconcile" /\ toMain' = Tail(toMain)
      /\ toWorker' = Post(fs)
      /\ UNCHANGED <<worker, conn, nextId, queued, retained, registry, replyTo, runs,
                     told, asked, drops, crashes>>
  BY DEF TakeReconcile
<1>2. m \in MainMsg /\ m \in SeqRange(toMain) /\ m = toMain[1] /\ 1 \in DOMAIN toMain
  BY <1>1, TailFacts DEF Inv, Types
<1>3. rs \in SUBSET Requests /\ m.client \in Nat /\ m.client < nextId
  BY <1>1, <1>2, MessageShape DEF Inv, IdsInv
<1>4. \A r \in rs : registry[r] = "none" => NoMore(r) /\ \A j \in Copies(r) : j < 1
  BY <1>1, <1>2 DEF Inv, BehindInv
<1>5. /\ f \in WorkerMsg /\ f.kind = "result" /\ DOMAIN f.answer = rs
      /\ \A r \in rs : f.answer[r] = registry[r]
  BY <1>3, MakeResult DEF Inv, Types
<1>6. f.client = m.client
  BY DEF Result
<1> HIDE DEF f, m
<1>7. fs \in Seq(WorkerMsg) /\ SeqRange(fs) = {f}
  BY <1>5, OneFacts
<1> HIDE DEF fs, rs
<1>8. ASSUME NEW r \in rs, registry[r] = "none" PROVE Sealed(r)'
  <2>1. r \in Requests /\ NoMore(r) /\ \A j \in Copies(r) : j < 1
    BY <1>3, <1>4, <1>8
  <2>2. Copies(r)' = {}
    <3>1. \A i \in Copies(r)' : i \in Nat /\ i + 1 \in Copies(r)
      BY <1>1, CopiesTail DEF Inv
    <3> QED
      BY <2>1, <3>1
  <2> QED
    BY <1>1, <1>8, <2>1, <2>2 DEF Sealed, NoMore, Answered, WorkerOnly
<1>9. /\ BeginInv' /\ registry' \in [Requests -> States] /\ replyTo' \in [Requests -> Nat]
      /\ runs' \in [Requests -> Nat]
  BY <1>1 DEF Inv, Types, BeginInv
<1>10. \A r \in Requests :
         /\ registry[r] # "none" => registry'[r] = registry[r]
         /\ registry[r] = "none" /\ registry'[r] # "none" => 1 \in Copies(r)
  BY <1>1
<1>11. \A g \in SeqRange(fs) :
         /\ g.client < nextId /\ g.kind = "result"
         /\ \A r \in DOMAIN g.answer :
              /\ g.answer[r] = "accepted" => registry'[r] = "accepted"
              /\ IF g.answer[r] = "none" THEN Sealed(r)' ELSE registry'[r] # "none"
  BY <1>1, <1>3, <1>5, <1>6, <1>7, <1>8
<1> QED
  BY <1>1, <1>7, <1>9, <1>10, <1>11, MainTakes

LEMMA FinishInv ==
  ASSUME Inv, NEW r \in Requests, NEW final \in {"accepted", "rejected"}, Finish(r, final)
  PROVE  Inv'
<1> DEFINE f == Frame(final, r, replyTo[r])
           fs == <<f>>
<1>1. /\ registry[r] = "open" /\ registry' = [registry EXCEPT ![r] = final]
      /\ toWorker' = Post(fs)
      /\ UNCHANGED <<worker, conn, nextId, queued, retained, toMain, replyTo, runs,
                     told, asked, drops, crashes>>
  BY DEF Finish
<1>2. f \in WorkerMsg /\ f.kind = final /\ f.req = r
  BY MakeFrame DEF Inv, Types
<1> HIDE DEF f
<1>3. fs \in Seq(WorkerMsg) /\ SeqRange(fs) = {f}
  BY <1>2, OneFacts
<1> HIDE DEF fs
<1>4. /\ toWorker' \in Seq(WorkerMsg)
      /\ SeqRange(toWorker') \subseteq SeqRange(toWorker) \cup {f}
      /\ worker = "dead" => toWorker' = toWorker
  BY <1>1, <1>3, PostFacts DEF Inv
<1>5. /\ registry'[r] = final /\ registry' \in [Requests -> States]
      /\ \A q \in Requests : q # r => registry'[q] = registry[q]
      /\ \A q \in Requests : registry'[q] = "none" <=> registry[q] = "none"
      /\ \A q \in Requests : registry[q] = "accepted" => registry'[q] = "accepted"
  BY <1>1 DEF Inv, Types, States
<1>6. Types'
  BY <1>1, <1>4, <1>5 DEF Inv, Types
<1>7. BeginInv'
  BY <1>1, <1>5 DEF Inv, BeginInv
<1>8. \A g \in SeqRange(toWorker') :
        /\ g.kind # "result" => g.req \in Requests
        /\ g.kind = "result" => DOMAIN g.answer \subseteq Requests
  BY <1>6, InRange, MessageShape DEF Types
<1>9. AcceptInv'
  <2>1. \A q \in Requests : "accepted" \in told'[q] => registry'[q] = "accepted"
    BY <1>1, <1>5 DEF Inv, AcceptInv
  <2> SUFFICES ASSUME NEW g \in SeqRange(toWorker')
               PROVE  /\ g.kind = "accepted" => registry'[g.req] = "accepted"
                      /\ g.kind = "result" => \A q \in DOMAIN g.answer :
                           g.answer[q] = "accepted" => registry'[q] = "accepted"
    BY <2>1 DEF AcceptInv
  <2>2. CASE g \in SeqRange(toWorker)
    BY <1>5, <1>8, <2>2 DEF Inv, AcceptInv
  <2>3. CASE g = f
    BY <1>2, <1>5, <2>3
  <2> QED
    BY <1>4, <2>2, <2>3
<1>10. IdsInv'
  BY <1>1, <1>2, <1>4, <1>5, <1>8 DEF Inv, IdsInv
<1>11. AskedInv'
  <2>1. asked \subseteq Requests
    BY DEF Inv, Types
  <2> QED
    BY <1>1, <1>2, <1>4, <1>5, <2>1 DEF Inv, AskedInv
<1>12. \A q \in Requests : NoMore(q)' = NoMore(q) /\ Copies(q)' = Copies(q)
  BY <1>1, CopiesSame DEF NoMore, Answered, WorkerOnly
<1>13. Seals
  BY <1>5, <1>12 DEF Seals, Sealed
<1>14. \A q \in Requests : "restarted" \in told'[q] \/ retained'[q] = "restarted" => Sealed(q)
  BY <1>1 DEF Inv, VerdictInv
<1>15. ResultInv' /\ VerdictInv'
  <2>1. \A g \in SeqRange(toWorker') : g \in SeqRange(toWorker) \/ g.kind # "result"
    BY <1>2, <1>4
  <2> QED
    BY <1>6, <1>13, <1>14, <2>1, VerdictStep
<1>16. BehindInv'
  <2> SUFFICES ASSUME NEW i \in DOMAIN toMain, toMain[i].kind = "reconcile",
                      NEW q \in toMain[i].reqs, registry'[q] = "none"
               PROVE  NoMore(q)' /\ \A j \in Copies(q)' : j < i
    BY <1>1 DEF BehindInv
  <2>1. q \in Requests
    <3>1. toMain[i] \in MainMsg
      BY DEF Inv, Types
    <3> QED
      BY <3>1, MessageShape
  <2>2. NoMore(q) /\ \A j \in Copies(q) : j < i
    BY <1>5, <2>1 DEF Inv, BehindInv
  <2> QED
    BY <1>12, <2>1, <2>2
<1> QED
  BY <1>6, <1>7, <1>9, <1>10, <1>11, <1>15, <1>16 DEF Inv

LEMMA WorkerDiesInv == ASSUME Inv, WorkerDies PROVE Inv'
<1>1. /\ worker' = "dead" /\ crashes' = crashes + 1
      /\ conn' = [p \in Phones |-> 0] /\ queued' = [r \in Requests |-> 0]
      /\ retained' = [r \in Requests |-> "none"] /\ toWorker' = <<>> /\ asked' = {}
      /\ UNCHANGED <<nextId, toMain, registry, replyTo, runs, told, drops>>
  BY DEF WorkerDies
<1>2. SeqRange(toWorker') = {}
  BY <1>1 DEF SeqRange
<1>3. Types'
  BY <1>1 DEF Inv, Types
<1>4. BeginInv' /\ AcceptInv'
  BY <1>1, <1>2 DEF Inv, BeginInv, AcceptInv
<1>5. IdsInv' /\ AskedInv'
  BY <1>1, <1>2 DEF Inv, Types, IdsInv, AskedInv
<1>6. Silent
  BY <1>1, OwnerAssumption DEF Silent, NoMore, Answered, WorkerOnly
<1>7. \A r \in Requests : "restarted" \in told'[r] \/ retained'[r] = "restarted" => Sealed(r)
  BY <1>1 DEF Inv, VerdictInv
<1>8. BehindInv' /\ ResultInv' /\ VerdictInv'
  BY <1>1, <1>2, <1>3, <1>6, <1>7, StillStep
<1> QED
  BY <1>3, <1>4, <1>5, <1>8 DEF Inv

LEMMA WorkerRestartsInv == ASSUME Inv, WorkerRestarts PROVE Inv'
<1>1. /\ worker = "dead" /\ toMain = <<>> /\ worker' = "up" /\ nextId' = 1
      /\ UNCHANGED <<conn, queued, retained, toMain, toWorker, registry, replyTo,
                     runs, told, asked, drops, crashes>>
  BY DEF WorkerRestarts
<1>2. SeqRange(toMain) = {} /\ SeqRange(toWorker) = {} /\ asked = {}
      /\ \A p \in Phones : conn[p] = 0
  BY <1>1 DEF SeqRange, Inv, IdsInv
<1>3. Types'
  BY <1>1 DEF Inv, Types
<1>4. BeginInv' /\ AcceptInv'
  BY <1>1 DEF Inv, BeginInv, AcceptInv
<1>5. IdsInv' /\ AskedInv'
  BY <1>1, <1>2 DEF IdsInv, AskedInv
<1>6. Silent
  BY <1>1 DEF Silent, NoMore, Answered, WorkerOnly
<1>7. \A r \in Requests : "restarted" \in told'[r] \/ retained'[r] = "restarted" => Sealed(r)
  BY <1>1 DEF Inv, VerdictInv
<1>8. BehindInv' /\ ResultInv' /\ VerdictInv'
  BY <1>1, <1>3, <1>6, <1>7, StillStep
<1> QED
  BY <1>3, <1>4, <1>5, <1>8 DEF Inv

LEMMA StutterInv == ASSUME Inv, UNCHANGED vars PROVE Inv'
<1>1. UNCHANGED <<worker, conn, nextId, queued, retained, toMain, toWorker, registry,
                  replyTo, runs, told, asked, drops, crashes>>
  BY DEF vars
<1>2. Types'
  BY <1>1 DEF Inv, Types
<1>3. Silent
  BY <1>1 DEF Silent, NoMore, Answered, WorkerOnly
<1>4. \A q \in Requests : "restarted" \in told'[q] \/ retained'[q] = "restarted" => Sealed(q)
  BY <1>1 DEF Inv, VerdictInv
<1>5. BehindInv' /\ ResultInv' /\ VerdictInv'
  BY <1>1, <1>2, <1>3, <1>4, StillStep
<1>6. BeginInv' /\ AcceptInv' /\ IdsInv' /\ AskedInv'
  <2>1. \A q \in Requests : "accepted" \in told'[q] => registry[q] = "accepted"
    BY <1>1 DEF Inv, AcceptInv
  <2> QED
    BY <1>1, <1>2, <2>1, ToldStep
<1> QED
  BY <1>2, <1>5, <1>6 DEF Inv

-----------------------------------------------------------------------------
(* Theorems. *)

\* The invariant is inductive.
LEMMA NextInv == Inv /\ [Next]_vars => Inv'
<1> SUFFICES ASSUME Inv, [Next]_vars PROVE Inv'
  OBVIOUS
<1>1. ASSUME NEW p \in Phones, Connect(p) PROVE Inv'
  BY <1>1, ConnectInv
<1>2. ASSUME NEW p \in Phones, Disconnect(p) PROVE Inv'
  BY <1>2, DisconnectInv
<1>3. ASSUME NEW r \in Requests, Send(r) PROVE Inv'
  BY <1>3, SendInv
<1>4. ASSUME NEW r \in Requests, Expire(r) PROVE Inv'
  BY <1>4, ExpireInv
<1>5. ASSUME NEW r \in Requests, ForgetFinal(r) PROVE Inv'
  BY <1>5, ForgetInv
<1>6. ASSUME NEW r \in Requests, NEW final \in {"accepted", "rejected"}, Finish(r, final)
      PROVE  Inv'
  BY <1>6, FinishInv
<1>7. CASE MainStep
  BY <1>7, TakeSendInv, TakeReconcileInv DEF MainStep
<1>8. CASE WorkerStep
  BY <1>8, TakeFrameInv, TakeResultInv DEF WorkerStep
<1>9. CASE WorkerDies
  BY <1>9, WorkerDiesInv
<1>10. CASE WorkerRestarts
  BY <1>10, WorkerRestartsInv
<1>11. CASE UNCHANGED vars
  BY <1>11, StutterInv
<1> QED
  BY <1>1, <1>2, <1>3, <1>4, <1>5, <1>6, <1>7, <1>8, <1>9, <1>10, <1>11 DEF Next

LEMMA InvCorrect == Spec => []Inv
<1> QED
  BY InitInv, NextInv, PTL DEF Spec

\* However often a phone sends a message, over dropped sockets and workers that die,
\* main begins it once (relay-operation-registry.cjs, beginMessageSend).
THEOREM BeginCorrect == Spec => []RunsOnce
<1>1. ASSUME Inv, NEW r \in Requests PROVE runs[r] <= 1
  <2>1. runs[r] \in {0, 1}
    BY <1>1 DEF Inv, BeginInv
  <2> QED
    BY <2>1
<1>2. Inv => RunsOnce
  BY <1>1 DEF RunsOnce
<1> QED
  BY <1>2, InvCorrect, PTL

\* A phone that was told `accepted' was told of a message main began, and main's
\* registry still says so (relay-worker-supervisor.cjs, the operation's final).
THEOREM AcceptedCorrect == Spec => []AcceptedIsKept
<1>1. Inv => AcceptedIsKept
  BY DEF Inv, BeginInv, AcceptInv, AcceptedIsKept
<1> QED
  BY <1>1, InvCorrect, PTL

\* The verdict `restarted' of reconcileOldEpochPending (relay-worker-transport.cjs)
\* is given in the name of a main that has not begun the message and never will.
THEOREM RestartVerdictCorrect == Spec => []RestartVerdictIsTrue
<1>1. Inv => RestartVerdictIsTrue
  BY DEF Inv, BeginInv, VerdictInv, Sealed, RestartVerdictIsTrue
<1> QED
  BY <1>1, InvCorrect, PTL
-----------------------------------------------------------------------------
(* The queue of the worker, and the client ids.  An id is given out by a worker to *)
(* a phone that is there or has dropped: that bounds them.                        *)

Present == {p \in Phones : conn[p] # 0}
Counts ==
  /\ drops <= MaxDrops /\ crashes <= MaxCrashes
  /\ nextId <= Cardinality(Phones) + MaxDrops + 1
  /\ worker = "up" => nextId <= Cardinality(Present) + drops + 1
Bounded ==
  /\ conn \in [Phones -> ClientIds] /\ queued \in [Requests -> ClientIds]
  /\ replyTo \in [Requests -> ClientIds]
  /\ \A m \in SeqRange(toMain) : m.client \in ClientIds
  /\ \A f \in SeqRange(toWorker) : f.client \in ClientIds

\* What will settle the entry of r is on its way.
Settling(r) ==
  \/ \E m \in SeqRange(toMain) : m.kind = "send" /\ m.req = r
  \/ \E f \in SeqRange(toWorker) : SettlesEntry(f) /\ f.req = r
Entries ==
  /\ worker = "dead" => \A r \in Requests : queued[r] = 0
  /\ \A r \in Requests : queued[r] # 0 => Settling(r)
QueueInv == Counts /\ Bounded /\ Entries

LEMMA RangeSplit ==
  ASSUME NEW S, NEW s \in Seq(S), s # <<>>
  PROVE  SeqRange(s) = {Head(s)} \cup SeqRange(Tail(s))
<1>1. /\ SeqRange(Tail(s)) \subseteq SeqRange(s) /\ Head(s) \in SeqRange(s)
      /\ DOMAIN s = 1..Len(s) /\ Len(s) \in Nat \ {0} /\ Head(s) = s[1]
      /\ DOMAIN Tail(s) = 1..(Len(s) - 1)
      /\ \A i \in 1..(Len(s) - 1) : Tail(s)[i] = s[i + 1]
  BY TailFacts
<1>2. ASSUME NEW i \in 1..Len(s), i # 1 PROVE s[i] \in SeqRange(Tail(s))
  <2> DEFINE j == i - 1
  <2>1. j \in 1..(Len(s) - 1) /\ i = j + 1
    BY <1>1, <1>2
  <2> HIDE DEF j
  <2> QED
    BY <1>1, <2>1 DEF SeqRange
<1>3. SeqRange(s) \subseteq {Head(s)} \cup SeqRange(Tail(s))
  BY <1>1, <1>2 DEF SeqRange
<1> QED
  BY <1>1, <1>3

\* What is posted to a worker that lives is on its way to it.
LEMMA Posted ==
  ASSUME Types, NEW fs \in Seq(WorkerMsg), toWorker' = Post(fs)
  PROVE  /\ SeqRange(toWorker') \subseteq SeqRange(toWorker) \cup SeqRange(fs)
         /\ SeqRange(toWorker) \subseteq SeqRange(toWorker')
         /\ worker = "up" => SeqRange(fs) \subseteq SeqRange(toWorker')
<1>1. SeqRange(toWorker \o fs) = SeqRange(toWorker) \cup SeqRange(fs)
  BY JoinFacts DEF Types
<1>2. CASE worker = "up"
  BY <1>1, <1>2 DEF Post
<1>3. CASE worker # "up"
  BY <1>3 DEF Post
<1> QED
  BY <1>2, <1>3

LEMMA Ids ==
  /\ Cardinality(Phones) \in Nat /\ MaxDrops \in Nat /\ MaxCrashes \in Nat
  /\ 0 \in ClientIds /\ ClientIds \subseteq Nat
  /\ \A n \in Nat : n \in ClientIds <=> n <= Cardinality(Phones) + MaxDrops
<1>1. Cardinality(Phones) \in Nat
  BY PhonesAssumption, FS_CardinalityType
<1> QED
  BY <1>1, BoundsAssumption DEF ClientIds

LEMMA PresentFacts ==
  ASSUME Types
  PROVE  /\ IsFiniteSet(Present) /\ Present \subseteq Phones /\ Cardinality(Present) \in Nat
         /\ Cardinality(Present) <= Cardinality(Phones)
<1>1. Present \in SUBSET Phones
  BY DEF Present
<1> QED
  BY <1>1, PhonesAssumption, FS_Subset, FS_CardinalityType

\* The counters are untouched by all but a connection, its end and the worker's.
LEMMA CountsSame ==
  ASSUME Counts, UNCHANGED <<worker, conn, nextId, drops, crashes>>
  PROVE  Counts'
<1>1. Present' = Present
  BY DEF Present
<1> QED
  BY <1>1 DEF Counts

LEMMA ConnectQueue == ASSUME Inv, QueueInv, NEW p \in Phones, Connect(p) PROVE QueueInv'
<1> DEFINE pending == {r \in RequestsOf(p) : WorkerOnly(r)}
<1>1. /\ worker = "up" /\ conn[p] = 0 /\ conn' = [conn EXCEPT ![p] = nextId]
      /\ nextId' = nextId + 1
      /\ toMain' = IF pending = {} THEN toMain ELSE Append(toMain, Reconcile(pending, nextId))
      /\ UNCHANGED <<worker, queued, retained, toWorker, registry, replyTo, runs,
                     told, drops, crashes>>
  BY DEF Connect
<1>2. pending \in SUBSET Requests /\ nextId \in Nat /\ nextId # 0
  BY DEF RequestsOf, Inv, Types
<1>3. Present' = Present \cup {p} /\ p \notin Present
  BY <1>1, <1>2 DEF Present, Inv, Types
<1>4. /\ Cardinality(Present') = Cardinality(Present) + 1 /\ Cardinality(Present) \in Nat
      /\ Cardinality(Present') <= Cardinality(Phones)
  <2>1. Present' \in SUBSET Phones
    BY DEF Present
  <2> QED
    BY <1>3, <2>1, PresentFacts, FS_AddElement, FS_Subset, PhonesAssumption DEF Inv
<1> HIDE DEF pending
<1>5. Counts'
  <2>1. drops \in Nat
    BY DEF Inv, Types
  <2>2. nextId <= Cardinality(Present) + drops + 1 /\ drops <= MaxDrops
    BY <1>1 DEF QueueInv, Counts
  <2>3. nextId + 1 <= Cardinality(Present') + drops + 1
    BY <1>2, <1>4, <2>1, <2>2
  <2>4. nextId + 1 <= Cardinality(Phones) + MaxDrops + 1
    BY <1>2, <1>4, <2>1, <2>2, <2>3, Ids
  <2> QED
    BY <1>1, <2>3, <2>4 DEF QueueInv, Counts
<1>6. nextId \in ClientIds
  <2>1. nextId + 1 <= Cardinality(Phones) + MaxDrops + 1
    BY <1>1, <1>5 DEF Counts
  <2> QED
    BY <1>2, <2>1, Ids
<1>7. /\ SeqRange(toMain) \subseteq SeqRange(toMain')
      /\ \A m \in SeqRange(toMain') : m \in SeqRange(toMain) \/ m.client = nextId
  <2> DEFINE m == Reconcile(pending, nextId)
  <2>1. m \in MainMsg /\ m.client = nextId
    BY <1>2, MakeQuestion
  <2>2. toMain' = IF pending = {} THEN toMain ELSE Append(toMain, m)
    BY <1>1
  <2> HIDE DEF m
  <2> QED
    BY <2>1, <2>2, AppendFacts DEF Inv, Types
<1>8. Bounded'
  BY <1>1, <1>6, <1>7 DEF QueueInv, Bounded
<1>9. Entries'
  BY <1>1, <1>7 DEF QueueInv, Entries, Settling
<1> QED
  BY <1>5, <1>8, <1>9 DEF QueueInv

LEMMA DisconnectQueue ==
  ASSUME Inv, QueueInv, NEW p \in Phones, Disconnect(p) PROVE QueueInv'
<1>1. /\ conn[p] # 0 /\ drops < MaxDrops /\ conn' = [conn EXCEPT ![p] = 0]
      /\ drops' = drops + 1
      /\ UNCHANGED <<worker, nextId, queued, retained, toMain, toWorker, registry,
                     replyTo, runs, told, crashes>>
  BY DEF Disconnect
<1>2. Present' = Present \ {p} /\ p \in Present
  BY <1>1 DEF Present, Inv, Types
<1>3. Cardinality(Present') = Cardinality(Present) - 1 /\ Cardinality(Present) \in Nat
  BY <1>2, PresentFacts, FS_RemoveElement DEF Inv
<1>4. Counts'
  <2>1. drops \in Nat /\ nextId \in Nat /\ MaxDrops \in Nat
    BY Ids DEF Inv, Types
  <2>2. worker = "up" => nextId <= Cardinality(Present') + (drops + 1) + 1
    BY <1>3, <2>1 DEF QueueInv, Counts
  <2>3. drops + 1 <= MaxDrops
    BY <1>1, <2>1
  <2> QED
    BY <1>1, <2>2, <2>3 DEF QueueInv, Counts
<1>5. Bounded'
  BY <1>1, Ids DEF QueueInv, Bounded
<1>6. Entries'
  BY <1>1 DEF QueueInv, Entries, Settling
<1> QED
  BY <1>4, <1>5, <1>6 DEF QueueInv

LEMMA SendQueue == ASSUME Inv, QueueInv, NEW r \in Requests, Send(r) PROVE QueueInv'
<1> DEFINE c == conn[Owner[r]]
           m == SendCopy(r, c)
<1>1. /\ c # 0
      /\ UNCHANGED <<worker, conn, nextId, toWorker, registry, replyTo, runs, drops, crashes>>
      /\ \/ UNCHANGED <<queued, toMain>>
         \/ UNCHANGED queued /\ toMain' = Append(toMain, m)
         \/ queued' = [queued EXCEPT ![r] = c] /\ toMain' = Append(toMain, m)
  BY DEF Send
<1>2. c \in ClientIds /\ c \in Nat
  BY OwnerAssumption, Ids DEF QueueInv, Bounded
<1>3. m \in MainMsg /\ m.kind = "send" /\ m.req = r /\ m.client = c
  BY <1>2, MakeCopy
<1>4. worker = "up"
  BY <1>1, OwnerAssumption DEF Inv, Types, IdsInv
<1> HIDE DEF m, c
<1>5. /\ SeqRange(toMain) \subseteq SeqRange(toMain')
      /\ \A q \in SeqRange(toMain') : q \in SeqRange(toMain) \/ q.client = c
      /\ UNCHANGED queued \/ m \in SeqRange(toMain')
  <2>1. SeqRange(Append(toMain, m)) = SeqRange(toMain) \cup {m}
    BY <1>3, AppendFacts DEF Inv, Types
  <2>2. CASE UNCHANGED <<queued, toMain>>
    BY <2>2
  <2>3. CASE toMain' = Append(toMain, m)
    BY <1>3, <2>1, <2>3
  <2> QED
    BY <1>1, <2>2, <2>3
<1>6. Counts'
  BY <1>1, CountsSame DEF QueueInv
<1>7. queued' \in [Requests -> ClientIds] /\ \A q \in Requests : q # r => queued'[q] = queued[q]
  BY <1>1, <1>2 DEF QueueInv, Bounded
<1>8. Bounded'
  BY <1>1, <1>2, <1>5, <1>7 DEF QueueInv, Bounded
<1>9. Entries'
  <2>1. ASSUME NEW q \in Requests, queued'[q] # 0 PROVE Settling(q)'
    BY <1>1, <1>3, <1>5, <1>7, <2>1 DEF QueueInv, Entries, Settling
  <2> QED
    BY <1>1, <1>4, <2>1 DEF Entries
<1> QED
  BY <1>6, <1>8, <1>9 DEF QueueInv

\* An entry is taken out, or nothing of the queue and the port changes.
LEMMA TakenOut ==
  ASSUME QueueInv,
         UNCHANGED <<worker, conn, nextId, toMain, toWorker, replyTo, drops, crashes>>,
         \/ UNCHANGED queued
         \/ \E r \in Requests : queued' = [queued EXCEPT ![r] = 0]
  PROVE  QueueInv'
<1>1. Counts'
  BY CountsSame DEF QueueInv
<1>2. queued' \in [Requests -> ClientIds] /\ \A q \in Requests : queued'[q] \in {0, queued[q]}
  BY Ids DEF QueueInv, Bounded
<1>3. Bounded' /\ Entries'
  BY <1>2 DEF QueueInv, Bounded, Entries, Settling
<1> QED
  BY <1>1, <1>3 DEF QueueInv

LEMMA TakeFrameQueue == ASSUME Inv, QueueInv, TakeFrame PROVE QueueInv'
<1> DEFINE f == Head(toWorker)
<1>1. /\ toWorker # <<>> /\ f.kind # "result" /\ toWorker' = Tail(toWorker) /\ worker = "up"
      /\ queued' = IF SettlesEntry(f) THEN [queued EXCEPT ![f.req] = 0] ELSE queued
      /\ UNCHANGED <<worker, conn, nextId, toMain, replyTo, drops, crashes>>
  BY DEF TakeFrame
<1>2. SeqRange(toWorker) = {f} \cup SeqRange(toWorker') /\ f \in WorkerMsg
  BY <1>1, RangeSplit, TailFacts DEF Inv, Types
<1>3. f.req \in Requests /\ SettlesEntry(f)
  BY <1>1, <1>2, MessageShape DEF SettlesEntry
<1> HIDE DEF f
<1>4. Counts'
  BY <1>1, CountsSame DEF QueueInv
<1>5. /\ queued' \in [Requests -> ClientIds] /\ queued'[f.req] = 0
      /\ \A q \in Requests : q # f.req => queued'[q] = queued[q]
  BY <1>1, <1>3, Ids DEF QueueInv, Bounded
<1>6. Bounded'
  BY <1>1, <1>2, <1>5 DEF QueueInv, Bounded
<1>7. Entries'
  BY <1>1, <1>2, <1>3, <1>5 DEF QueueInv, Entries, Settling
<1> QED
  BY <1>4, <1>6, <1>7 DEF QueueInv

LEMMA TakeResultQueue == ASSUME Inv, QueueInv, TakeResult PROVE QueueInv'
<1>1. /\ toWorker # <<>> /\ Head(toWorker).kind = "result" /\ toWorker' = Tail(toWorker)
      /\ UNCHANGED <<worker, conn, nextId, queued, toMain, replyTo, drops, crashes>>
  BY DEF TakeResult
<1>2. SeqRange(toWorker) = {Head(toWorker)} \cup SeqRange(toWorker')
  BY <1>1, RangeSplit DEF Inv, Types
<1>3. ~SettlesEntry(Head(toWorker))
  BY <1>1 DEF SettlesEntry
<1>4. Counts'
  BY <1>1, CountsSame DEF QueueInv
<1>5. Bounded' /\ Entries'
  BY <1>1, <1>2, <1>3 DEF QueueInv, Bounded, Entries, Settling
<1> QED
  BY <1>4, <1>5 DEF QueueInv

\* A step of main: it takes at most one message and posts frames for clients it knows;
\* if what it takes is a copy of a send, one of them settles the entry.
LEMMA MainQueue ==
  ASSUME Inv, QueueInv, UNCHANGED <<worker, conn, nextId, queued, drops, crashes>>,
         replyTo' \in [Requests -> ClientIds],
         NEW fs \in Seq(WorkerMsg), toWorker' = Post(fs),
         \A f \in SeqRange(fs) : f.client \in ClientIds,
         \/ UNCHANGED toMain
         \/ /\ toMain # <<>> /\ toMain' = Tail(toMain)
            /\ Head(toMain).kind = "send" =>
                 \E f \in SeqRange(fs) : SettlesEntry(f) /\ f.req = Head(toMain).req
  PROVE  QueueInv'
<1>1. Counts'
  BY CountsSame DEF QueueInv
<1>2. /\ SeqRange(toWorker') \subseteq SeqRange(toWorker) \cup SeqRange(fs)
      /\ SeqRange(toWorker) \subseteq SeqRange(toWorker')
      /\ worker = "up" => SeqRange(fs) \subseteq SeqRange(toWorker')
  BY Posted DEF Inv
<1>3. \/ SeqRange(toMain') = SeqRange(toMain)
      \/ /\ SeqRange(toMain) = {Head(toMain)} \cup SeqRange(toMain')
         /\ Head(toMain).kind = "send" =>
              \E f \in SeqRange(fs) : SettlesEntry(f) /\ f.req = Head(toMain).req
  BY RangeSplit DEF Inv, Types
<1>4. SeqRange(toMain') \subseteq SeqRange(toMain)
  BY <1>3
<1>5. Bounded'
  BY <1>2, <1>4 DEF QueueInv, Bounded
<1>6. ASSUME NEW q \in Requests, queued[q] # 0 PROVE Settling(q)'
  <2>1. Settling(q) /\ worker = "up"
    BY <1>6 DEF QueueInv, Entries, Inv, Types
  <2> QED
    BY <1>2, <1>3, <2>1 DEF Settling
<1>7. Entries'
  BY <1>6 DEF Entries, QueueInv
<1> QED
  BY <1>1, <1>5, <1>7 DEF QueueInv

LEMMA TakeSendQueue == ASSUME Inv, QueueInv, TakeSend PROVE QueueInv'
<1> DEFINE r == Head(toMain).req
           c == Head(toMain).client
           first == Frame("main_receipt", r, c)
<1>1. /\ toMain # <<>> /\ Head(toMain).kind = "send" /\ toMain' = Tail(toMain)
      /\ UNCHANGED <<worker, conn, nextId, queued, drops, crashes>>
  BY DEF TakeSend
<1>2. \/ /\ toWorker' = Post(ReceiptFor(r, c) \o <<Frame("rejected", r, c)>>)
         /\ UNCHANGED replyTo
      \/ /\ toWorker' = Post(ReceiptFor(r, c)) /\ replyTo' = [replyTo EXCEPT ![r] = c]
      \/ /\ registry[r] # "none" /\ UNCHANGED replyTo
         /\ toWorker' = Post(ReceiptFor(r, c) \o
                IF registry[r] = "open" THEN <<>> ELSE <<Frame(registry[r], r, c)>>)
  BY DEF TakeSend, Begins
<1>3. Head(toMain) \in MainMsg /\ Head(toMain) \in SeqRange(toMain)
  BY <1>1, TailFacts DEF Inv, Types
<1>4. r \in Requests /\ c \in Nat /\ c \in ClientIds
  BY <1>1, <1>3, MessageShape DEF QueueInv, Bounded
<1>5. registry[r] \in States
  BY <1>4 DEF Inv, Types
<1> HIDE DEF r, c
<1>6. /\ first \in WorkerMsg /\ first.client = c /\ first.req = r /\ SettlesEntry(first)
      /\ ReceiptFor(r, c) = <<first>>
  BY <1>4, MakeFrame DEF SettlesEntry, ReceiptFor
<1> HIDE DEF first
<1>7. ASSUME NEW k \in {"accepted", "rejected"}
      PROVE  LET fs == <<first>> \o <<Frame(k, r, c)>>
             IN  /\ fs \in Seq(WorkerMsg) /\ first \in SeqRange(fs)
                 /\ \A f \in SeqRange(fs) : f.client \in ClientIds
  <2>1. Frame(k, r, c) \in WorkerMsg /\ Frame(k, r, c).client = c
    BY <1>4, MakeFrame
  <2> QED
    BY <1>4, <1>6, <2>1, TwoFacts
<1>8. /\ <<first>> \in Seq(WorkerMsg) /\ first \in SeqRange(<<first>>)
      /\ <<first>> \o <<>> = <<first>>
      /\ \A f \in SeqRange(<<first>>) : f.client \in ClientIds
  BY <1>4, <1>6, OneFacts
<1>9. replyTo' \in [Requests -> ClientIds]
  BY <1>2, <1>4 DEF QueueInv, Bounded
<1>10. PICK fs \in Seq(WorkerMsg) :
         /\ toWorker' = Post(fs) /\ first \in SeqRange(fs)
         /\ \A f \in SeqRange(fs) : f.client \in ClientIds
  <2>1. CASE toWorker' = Post(<<first>> \o <<Frame("rejected", r, c)>>)
    BY <1>7, <2>1
  <2>2. CASE toWorker' = Post(<<first>>)
    BY <1>8, <2>2
  <2>3. CASE registry[r] \in {"accepted", "rejected"}
             /\ toWorker' = Post(<<first>> \o <<Frame(registry[r], r, c)>>)
    BY <1>7, <2>3
  <2> QED
    BY <1>2, <1>5, <1>6, <1>8, <2>1, <2>2, <2>3 DEF States
<1>11. \E f \in SeqRange(fs) : SettlesEntry(f) /\ f.req = Head(toMain).req
  BY <1>6, <1>10 DEF r
<1> QED
  BY <1>1, <1>9, <1>10, <1>11, MainQueue

LEMMA TakeReconcileQueue == ASSUME Inv, QueueInv, TakeReconcile PROVE QueueInv'
<1> DEFINE m == Head(toMain)
           a == Result(m.reqs, m.client)
<1>1. /\ toMain # <<>> /\ m.kind = "reconcile" /\ toMain' = Tail(toMain)
      /\ toWorker' = Post(<<a>>)
      /\ UNCHANGED <<worker, conn, nextId, queued, replyTo, drops, crashes>>
  BY DEF TakeReconcile
<1>2. m \in MainMsg /\ m \in SeqRange(toMain)
  BY <1>1, TailFacts DEF Inv, Types
<1>3. m.reqs \in SUBSET Requests /\ m.client \in Nat /\ m.client \in ClientIds
  BY <1>1, <1>2, MessageShape DEF QueueInv, Bounded
<1>4. a \in WorkerMsg /\ a.client \in ClientIds
  <2>1. registry \in [Requests -> States]
    BY DEF Inv, Types
  <2>2. Result(m.reqs, m.client).client = m.client
    BY DEF Result
  <2> QED
    BY <1>3, <2>1, <2>2, MakeResult
<1> HIDE DEF a
<1>5. <<a>> \in Seq(WorkerMsg) /\ \A f \in SeqRange(<<a>>) : f.client \in ClientIds
  BY <1>4, OneFacts
<1>6. replyTo' \in [Requests -> ClientIds]
  BY <1>1 DEF QueueInv, Bounded
<1> QED
  BY <1>1, <1>5, <1>6, MainQueue

LEMMA FinishQueue ==
  ASSUME Inv, QueueInv, NEW r \in Requests, NEW final \in {"accepted", "rejected"},
         Finish(r, final)
  PROVE  QueueInv'
<1> DEFINE f == Frame(final, r, replyTo[r])
<1>1. /\ toWorker' = Post(<<f>>)
      /\ UNCHANGED <<worker, conn, nextId, queued, toMain, replyTo, drops, crashes>>
  BY DEF Finish
<1>2. replyTo \in [Requests -> ClientIds] /\ replyTo[r] \in ClientIds /\ replyTo[r] \in Nat
  BY Ids DEF QueueInv, Bounded
<1>3. f \in WorkerMsg /\ f.client \in ClientIds
  BY <1>2, MakeFrame
<1> HIDE DEF f
<1>4. <<f>> \in Seq(WorkerMsg) /\ \A g \in SeqRange(<<f>>) : g.client \in ClientIds
  BY <1>3, OneFacts
<1> QED
  BY <1>1, <1>2, <1>4, MainQueue

LEMMA WorkerQueue == ASSUME Inv, QueueInv, WorkerDies \/ WorkerRestarts PROVE QueueInv'
<1>1. CASE WorkerDies
  <2>1. /\ worker' = "dead" /\ crashes < MaxCrashes /\ crashes' = crashes + 1
        /\ conn' = [p \in Phones |-> 0] /\ queued' = [r \in Requests |-> 0] /\ toWorker' = <<>>
        /\ UNCHANGED <<nextId, toMain, replyTo, drops>>
    BY <1>1 DEF WorkerDies
  <2>2. SeqRange(toWorker') = {}
    BY <2>1 DEF SeqRange
  <2>3. crashes + 1 <= MaxCrashes
    BY <2>1, Ids DEF Inv, Types
  <2>4. Counts'
    BY <2>1, <2>3 DEF QueueInv, Counts
  <2>5. Bounded' /\ Entries'
    BY <2>1, <2>2, Ids DEF QueueInv, Bounded, Entries
  <2> QED
    BY <2>4, <2>5 DEF QueueInv
<1>2. CASE WorkerRestarts
  <2>1. /\ worker = "dead" /\ worker' = "up" /\ nextId' = 1
        /\ UNCHANGED <<conn, queued, toMain, toWorker, replyTo, drops, crashes>>
    BY <1>2 DEF WorkerRestarts
  <2>2. Present' = Present /\ Cardinality(Present) \in Nat /\ drops \in Nat
    BY <2>1, PresentFacts DEF Present, Inv, Types
  <2>3. 1 <= Cardinality(Present) + drops + 1 /\ 1 <= Cardinality(Phones) + MaxDrops + 1
    BY <2>2, Ids
  <2>4. Counts'
    BY <2>1, <2>2, <2>3 DEF QueueInv, Counts
  <2>5. Bounded' /\ Entries'
    BY <2>1 DEF QueueInv, Bounded, Entries, Settling
  <2> QED
    BY <2>4, <2>5 DEF QueueInv
<1> QED
  BY <1>1, <1>2

LEMMA InitQueue == Init => QueueInv
<1> SUFFICES ASSUME Init PROVE QueueInv
  OBVIOUS
<1>1. /\ worker = "up" /\ conn = [p \in Phones |-> 0] /\ nextId = 1
      /\ queued = [r \in Requests |-> 0] /\ toMain = <<>> /\ toWorker = <<>>
      /\ replyTo = [r \in Requests |-> 0] /\ drops = 0 /\ crashes = 0
  BY DEF Init
<1>2. SeqRange(toMain) = {} /\ SeqRange(toWorker) = {}
  BY <1>1 DEF SeqRange
<1>3. Cardinality(Present) \in Nat
  BY InitInv, PresentFacts DEF Inv
<1>4. Counts
  BY <1>1, <1>3, Ids DEF Counts
<1>5. Bounded /\ Entries
  BY <1>1, <1>2, Ids DEF Bounded, Entries
<1> QED
  BY <1>4, <1>5 DEF QueueInv

LEMMA NextQueue == Inv /\ QueueInv /\ [Next]_vars => QueueInv'
<1> SUFFICES ASSUME Inv, QueueInv, [Next]_vars PROVE QueueInv'
  OBVIOUS
<1>1. ASSUME NEW p \in Phones, Connect(p) \/ Disconnect(p) PROVE QueueInv'
  BY <1>1, ConnectQueue, DisconnectQueue
<1>2. ASSUME NEW r \in Requests, Send(r) PROVE QueueInv'
  BY <1>2, SendQueue
<1>3. ASSUME NEW r \in Requests, Expire(r) \/ ForgetFinal(r) PROVE QueueInv'
  BY <1>3, TakenOut DEF Expire, ForgetFinal
<1>4. ASSUME NEW r \in Requests, NEW final \in {"accepted", "rejected"}, Finish(r, final)
      PROVE  QueueInv'
  BY <1>4, FinishQueue
<1>5. CASE MainStep \/ WorkerStep
  BY <1>5, TakeSendQueue, TakeReconcileQueue, TakeFrameQueue, TakeResultQueue
  DEF MainStep, WorkerStep
<1>6. CASE WorkerDies \/ WorkerRestarts
  BY <1>6, WorkerQueue
<1>7. CASE UNCHANGED vars
  BY <1>7, TakenOut DEF vars
<1> QED
  BY <1>1, <1>2, <1>3, <1>4, <1>5, <1>6, <1>7 DEF Next

\* What is in the worker's queue is being settled (relay-worker-queue.cjs, expire(), and
\* the settling in relay-worker-transport.cjs): a copy of the send is on its way to main, or
\* a receipt or final of main on its way back, so that no entry waits for an expiry alone.
\* The client ids of a worker stay within the phones and the sockets that broke.
THEOREM EntryCorrect == Spec => []EntryIsOutstanding
<1>1. Inv /\ QueueInv => EntryIsOutstanding
  <2> SUFFICES ASSUME Inv, QueueInv PROVE EntryIsOutstanding
    OBVIOUS
  <2>1. /\ drops \in 0..MaxDrops /\ crashes \in 0..MaxCrashes
        /\ nextId \in 1..(Cardinality(Phones) + MaxDrops + 1)
    BY Ids DEF Inv, Types, QueueInv, Counts
  <2>2. \A f \in SeqRange(toMain) : f.kind \in {"send", "reconcile"} /\ f.client \in ClientIds
    BY InRange, MessageShape DEF Inv, Types, QueueInv, Bounded
  <2>3. \A f \in SeqRange(toWorker) :
          f.kind \in {"main_receipt", "accepted", "rejected", "result"} /\ f.client \in ClientIds
    BY InRange, MessageShape DEF Inv, Types, QueueInv, Bounded
  <2>4. TypeOK
    BY <2>1, <2>2, <2>3 DEF TypeOK, Inv, Types, QueueInv, Bounded, States
  <2>5. ASSUME NEW r \in Requests, queued[r] # 0
        PROVE  Copies(r) # {} \/ \E f \in SeqRange(toWorker) : SettlesEntry(f) /\ f.req = r
    BY <2>5 DEF QueueInv, Entries, Settling, Copies, SeqRange
  <2> QED
    BY <2>4, <2>5 DEF EntryIsOutstanding
<1>2. Spec => []QueueInv
  BY InitQueue, NextQueue, InvCorrect, PTL DEF Spec
<1> QED
  BY <1>1, <1>2, InvCorrect, PTL
=============================================================================
