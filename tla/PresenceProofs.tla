--------------------------- MODULE PresenceProofs ---------------------------
(***************************************************************************)
(* Proofs about AppPresence and the relay's lifecycle it extends, for any  *)
(* sessions, phones, faults and moves: the state is well-formed, and what  *)
(* waits on the glasses is torn down only when no phone is on its session. *)
(***************************************************************************)
EXTENDS AppPresence, FiniteSetTheorems, WellFoundedInduction, TLAPS

(* The inductive invariant. *)

Records == [own : Keys \cup {None}, selected : Keys, replaced : Keys]
Lone == {"ready", "error", "conflict", "closed"}
OfPhones == {"hello", "bye", "away", "visible", "report"}
Messages == [kind : Lone, id : {0}, key : Keys] \cup [kind : OfPhones, id : Ids, key : Keys]

\* What TypeOK leaves out: the numbers and the messages on the port.
PortType == setup \in Setups /\ nextId \in Nat \ {0} /\ port \in Seq(Messages) /\ fails \in Nat
StateType == /\ worker \in {"none", "booting", "stuck", "up", "dying", "closed"}
             /\ ready \in {"pending", "resolved", "rejected"} /\ close \in {"no", "waiting", "done"}
TableType == /\ clients \in [Ids -> Records] /\ left \subseteq Sessions
             /\ graces \in [Keys -> {NoGrace} \cup SUBSET Sessions]
PumpType == pull \in 0 .. Number /\ pump \in {"absent", "on", "stopped"}

\* A grace waits for a phone on the very session it would tear down.
GraceIsOwn == \A k \in Keys : graces[k] # NoGrace => k = NoKey \/ k \in graces[k]

PresenceInv == PortType /\ StateType /\ TableType /\ PumpType /\ GraceIsOwn /\ ServedIsKept

----------------------------------------------------------------------------
(* Ids, the numbers a worker gives its sockets. *)

LEMMA FiniteHasMax ==
  ASSUME NEW T \in SUBSET Nat, IsFiniteSet(T), T # {}
  PROVE  Max(T) \in T /\ \A y \in T : Max(T) >= y
<1> DEFINE Tops(S) == {x \in S : \A y \in S : x >= y}
           Bad == {n \in Nat : \E S \in SUBSET Nat : /\ IsFiniteSet(S) /\ S # {}
                                                     /\ Cardinality(S) = n /\ Tops(S) = {}}
<1>1. Bad = {}
  <2> SUFFICES ASSUME Bad # {} PROVE FALSE
    OBVIOUS
  <2>1. PICK n \in Bad : \A m \in Bad : <<m, n>> \notin OpToRel(<, Nat)
    <3>1. Bad \subseteq Nat
      OBVIOUS
    <3> HIDE DEF Bad
    <3> QED BY <3>1, NatLessThanWellFounded, WFMin
  <2>2. PICK S \in SUBSET Nat : IsFiniteSet(S) /\ S # {} /\ Cardinality(S) = n /\ Tops(S) = {}
    OBVIOUS
  <2>3. PICK x \in S : TRUE
    BY <2>2
  <2> DEFINE R == S \ {x}
  <2>4. IsFiniteSet(R) /\ Cardinality(R) = n - 1
    BY <2>2, <2>3, FS_RemoveElement
  <2>5. n - 1 \in Nat
    BY <2>4, FS_CardinalityType
  <2>6. n - 1 \notin Bad
    <3>1. n \in Nat /\ n - 1 < n
      BY <2>5
    <3> HIDE DEF Bad
    <3>2. <<n - 1, n>> \in OpToRel(<, Nat)
      BY <2>5, <3>1 DEF OpToRel
    <3> QED BY <2>1, <3>2
  <2>7. R = {} \/ Tops(R) # {}
    BY <2>4, <2>5, <2>6
  <2>8. CASE R = {}
    BY <2>2, <2>3, <2>8
  <2>9. CASE Tops(R) # {}
    <3>1. PICK m \in R : \A y \in R : m >= y
      BY <2>9
    <3>2. CASE m >= x
      BY <3>1, <3>2, <2>2
    <3>3. CASE x > m
      BY <3>1, <3>3, <2>2, <2>3
    <3> QED BY <3>1, <3>2, <3>3
  <2> QED BY <2>7, <2>8, <2>9
<1>2. Cardinality(T) \in Nat
  BY FS_CardinalityType
<1>3. Tops(T) # {}
  BY <1>1, <1>2
<1> QED BY <1>3 DEF Max

\* Ids is finite, and every setup's sockets have their numbers in it.
LEMMA IdsAreEnough ==
  IsFiniteSet(Ids) /\ Ids \subseteq Nat \ {0} /\ \A s \in Setups : 1 .. s.ids \subseteq Ids
<1> DEFINE T == {s.ids : s \in Setups}
           f == [s \in Setups |-> s.ids]
<1>1. f \in Surjection(Setups, T)
  BY DEF Surjection
<1>2. IsFiniteSet(T)
  BY <1>1, FS_Surjection, RelayAssumption
<1>3. T \in SUBSET Nat /\ T # {}
  BY RelayAssumption
<1>4. Max(T) \in T /\ \A y \in T : Max(T) >= y
  <2> HIDE DEF T
  <2> QED BY <1>2, <1>3, FiniteHasMax
<1>5. Max(T) \in Nat /\ \A s \in Setups : s.ids \in Nat /\ Max(T) >= s.ids
  <2>1. \A s \in Setups : s.ids \in T
    OBVIOUS
  <2> HIDE DEF T
  <2> QED BY <1>3, <1>4, <2>1
<1>6. Ids = 1 .. Max(T)
  BY DEF Ids
<1>7. IsFiniteSet(1 .. Max(T))
  BY <1>5, FS_Interval
<1> HIDE DEF T, f
<1> QED BY <1>5, <1>6, <1>7

\* The messages a set of them is posted as are among them.
LEMMA PostedTogether ==
  ASSUME NEW S, IsFiniteSet(S)
  PROVE  SetToSeq(S) \in Seq(S)
<1>1. Cardinality(S) \in Nat /\ ExistsBijection(1 .. Cardinality(S), S)
  BY FS_CardinalityType
<1>2. \E f \in [1 .. Cardinality(S) -> S] : IsInjective(f)
  BY <1>1 DEF ExistsBijection, Bijection, Injection
<1>3. SetToSeq(S) \in [1 .. Cardinality(S) -> S]
  BY <1>2 DEF SetToSeq
<1> QED BY <1>1, <1>3

----------------------------------------------------------------------------
(* What is torn down, and what a table of phones may hold. *)

\* Nobody answers the key of a grace: then nobody looks at the session it tears down.
LEMMA NobodyLooks ==
  ASSUME NEW key \in Keys, NEW match, NEW cs \in [Ids -> Records],
         ~Served(cs, key, match), key = NoKey \/ key \in match
  PROVE  {TornDown(key)} \cap ViewedIn(cs) = {}
<1>1. CASE key = NoKey
  BY <1>1 DEF Served, Answers, ViewedIn
<1>2. CASE key # NoKey
  <2>1. TornDown(key) = key /\ key \in match
    BY <1>2 DEF TornDown
  <2>2. ASSUME NEW i \in Ids, cs[i].own # None, Viewed(cs[i]) = key PROVE FALSE
    BY <2>1, <2>2, <1>2 DEF Served, Answers, SessionKeys, Viewed
  <2> QED BY <2>1, <2>2 DEF ViewedIn
<1> QED BY <1>1, <1>2

\* So such a drain tears down nothing that is viewed, and forgets only sessions.
LEMMA DrainsUnseen ==
  ASSUME NEW key \in Keys, NEW match, NEW cs \in [Ids -> Records], TableType, ServedIsKept,
         ~Served(cs, key, match), key = NoKey \/ key \in match, Drain(key, cs)
  PROVE  left' \subseteq Sessions /\ ServedIsKept'
BY NobodyLooks DEF Drain, ServedIsKept, TableType

\* A phone that is back ends graces and starts none.
LEMMA CancelEnds ==
  ASSUME NEW c, TableType, GraceIsOwn, CancelGrace(c)
  PROVE  graces' \in [Keys -> {NoGrace} \cup SUBSET Sessions] /\ GraceIsOwn'
BY DEF CancelGrace, TableType, GraceIsOwn

\* A grace that is armed is for the keys of the phone that left.
LEMMA ArmKeeps ==
  ASSUME NEW c \in Records, c.own # None, NEW cs \in [Ids -> Records], NEW now,
         TableType, GraceIsOwn, ServedIsKept, ~Served(cs, c.own, SessionKeys(c)),
         Arm(c.own, SessionKeys(c), now, Viewed(c), cs)
  PROVE  /\ graces' \in [Keys -> {NoGrace} \cup SUBSET Sessions] /\ left' \subseteq Sessions
         /\ GraceIsOwn' /\ ServedIsKept'
<1>1. c.own \in Keys /\ SessionKeys(c) \subseteq Sessions
  BY DEF Records, Keys, SessionKeys
<1>2. c.own = NoKey \/ c.own \in SessionKeys(c)
  BY DEF SessionKeys
<1>3. CASE now
  <2>1. Drain(c.own, cs) /\ graces' = [graces EXCEPT ![c.own] = NoGrace]
    BY <1>3 DEF Arm
  <2>2. left' \subseteq Sessions /\ ServedIsKept'
    BY <1>1, <1>2, <2>1, DrainsUnseen
  <2> QED BY <1>1, <2>1, <2>2 DEF TableType, GraceIsOwn
<1>4. CASE ~now
  <2>1. /\ graces' = [graces EXCEPT ![c.own] = SessionKeys(c)] /\ torn' = torn
        /\ left' = left \cup (({c.own} \cap {Viewed(c)}) \ {NoKey})
    BY <1>4 DEF Arm
  <2> QED BY <1>1, <1>2, <2>1 DEF TableType, GraceIsOwn, ServedIsKept, Keys
<1> QED BY <1>3, <1>4

\* What a report leaves of a phone's record.
LEMMA ReportedIsRecord ==
  ASSUME NEW c \in Records, NEW key \in Keys, NEW guarded \in BOOLEAN
  PROVE  Reported(c, key, guarded) \in Records
BY DEF Reported, Records, Keys

LEMMA NoClientIsRecord == NoClient \in Records /\ \A key \in Keys : [NoClient EXCEPT !.own = key] \in Records
BY DEF NoClient, Records, Keys

LEMMA NoneIsNoKey == None \notin Keys
BY RelayAssumption DEF None, Keys

\* Posting and taking keep the port one of messages.
LEMMA PortMoves ==
  ASSUME port \in Seq(Messages)
  PROVE  /\ \A m \in Messages : Append(port, m) \in Seq(Messages)
         /\ port # <<>> => Tail(port) \in Seq(Messages) /\ port[1] \in Messages
OBVIOUS

----------------------------------------------------------------------------
(* The initial state. *)

LEMMA Begins == ASSUME Init PROVE PresenceInv
<1>1. PortType
  BY DEF Init, PortType
<1>2. StateType /\ PumpType
  BY DEF Init, StateType, PumpType, Number, Idle
<1>3. TableType
  BY NoClientIsRecord DEF Init, TableType
<1>4. GraceIsOwn /\ ServedIsKept
  BY DEF Init, GraceIsOwn, ServedIsKept
<1> QED BY <1>1, <1>2, <1>3, <1>4 DEF PresenceInv

----------------------------------------------------------------------------
(* The worker's steps: they post, and leave the table of phones alone. *)

Tables == <<table, left, torn>>

LEMMA TablesStay ==
  ASSUME TableType, GraceIsOwn, ServedIsKept, UNCHANGED Tables
  PROVE  TableType' /\ GraceIsOwn' /\ ServedIsKept'
BY DEF Tables, table, TableType, GraceIsOwn, ServedIsKept

WorkerStep ==
  \/ Boots \/ Hangs \/ BootFails("error") \/ BootFails("conflict") \/ Crashes \/ EntryGone
  \/ \E key \in Keys : Hello(key)
  \/ \E i \in Ids : Leaves(i) \/ Says("away", i, NoKey) \/ Says("visible", i, NoKey)
  \/ \E i \in Ids, key \in Sessions : Says("report", i, key)
  \/ ShutsDown

LEMMA WorkerKeeps ==
  ASSUME PortType, StateType, WorkerStep, fails' = fails
  PROVE  PortType' /\ StateType' /\ UNCHANGED Tables
<1> USE NoneIsNoKey, PortMoves
<1>1. ASSUME Works PROVE setup' = setup /\ ready' = ready /\ close' = close /\ UNCHANGED Tables
  BY <1>1 DEF Works, closing_, table, Tables
<1>2. \A kind \in Lone : Message(kind, 0, NoKey) \in Messages
  BY DEF Message, Messages, Keys
<1>3. \A kind \in OfPhones, i \in Ids, key \in Keys : Message(kind, i, key) \in Messages
  BY DEF Message, Messages
<1>4. CASE Boots
  BY <1>1, <1>2, <1>4 DEF Boots, Post, PortType, StateType, Lone
<1>5. CASE Hangs
  BY <1>1, <1>5 DEF Hangs, PortType, StateType
<1>6. CASE BootFails("error")
  BY <1>1, <1>2, <1>6 DEF BootFails, Post, PortType, StateType, Lone
<1>7. CASE BootFails("conflict")
  BY <1>1, <1>2, <1>7 DEF BootFails, Post, PortType, StateType, Lone
<1>8. CASE Crashes
  BY <1>1, <1>8 DEF Crashes, PortType, StateType
<1>9. CASE EntryGone
  BY <1>9 DEF EntryGone, PortType, StateType, closing_, table, Tables
<1>10. ASSUME NEW key \in Keys, Hello(key) PROVE PortType' /\ StateType' /\ UNCHANGED Tables
  <2>1. nextId \in Ids
    <3>1. nextId \in 1 .. setup.ids
      BY <1>10, RelayAssumption DEF Hello, PortType
    <3> QED BY <3>1, IdsAreEnough DEF PortType
  <2>2. Message("hello", nextId, key) \in Messages
    BY <1>3, <2>1 DEF OfPhones
  <2> QED BY <1>1, <1>10, <2>2 DEF Hello, Post, PortType, StateType
<1>11. ASSUME NEW i \in Ids, Leaves(i) PROVE PortType' /\ StateType' /\ UNCHANGED Tables
  <2>1. Message("bye", i, NoKey) \in Messages
    BY <1>3 DEF OfPhones, Keys
  <2> QED BY <1>1, <1>11, <2>1 DEF Leaves, Post, PortType, StateType
<1>12. ASSUME NEW kind \in OfPhones, NEW i \in Ids, NEW key \in Keys, Says(kind, i, key)
       PROVE  PortType' /\ StateType' /\ UNCHANGED Tables
  <2>1. Message(kind, i, key) \in Messages
    BY <1>3
  <2> QED BY <1>12, <2>1 DEF Says, Post, PortType, StateType, lifecycle, closing_, table, Tables
<1>13. CASE ShutsDown
  <2> DEFINE S == {Message("bye", i, NoKey) : i \in {j \in Ids : sockets[j] # None}}
             f == [i \in {j \in Ids : sockets[j] # None} |-> Message("bye", i, NoKey)]
  <2>1. IsFiniteSet({j \in Ids : sockets[j] # None})
    BY IdsAreEnough, FS_Subset
  <2>2. f \in Surjection({j \in Ids : sockets[j] # None}, S)
    BY DEF Surjection
  <2>3. IsFiniteSet(S)
    BY <2>1, <2>2, FS_Surjection
  <2>4. S \subseteq Messages
    BY <1>3 DEF OfPhones, Keys
  <2>5. port' = port \o SetToSeq(S) \o <<Message("closed", 0, NoKey)>>
    BY <1>13 DEF ShutsDown
  <2>6. worker' = "closed" /\ nextId' = nextId /\ Works
    BY <1>13 DEF ShutsDown
  <2> HIDE DEF S, f
  <2>7. SetToSeq(S) \in Seq(Messages)
    BY <2>3, <2>4, PostedTogether
  <2>8. <<Message("closed", 0, NoKey)>> \in Seq(Messages)
    BY <1>2 DEF Lone
  <2>9. port' \in Seq(Messages)
    BY <2>5, <2>7, <2>8 DEF PortType
  <2> QED BY <1>1, <2>6, <2>9 DEF PortType, StateType
<1>14. NoKey \in Keys /\ Sessions \subseteq Keys /\ {"away", "visible", "report"} \subseteq OfPhones
  BY DEF Keys, OfPhones
<1> QED BY <1>4, <1>5, <1>6, <1>7, <1>8, <1>9, <1>10, <1>11, <1>12, <1>13, <1>14 DEF WorkerStep

----------------------------------------------------------------------------
(* The supervisor handles a message. *)

LEMMA TakenIsMessage ==
  ASSUME PortType, NEW kind, Takes(kind)
  PROVE  /\ port[1] \in Messages /\ port[1].kind = kind /\ port' \in Seq(Messages)
         /\ port[1].key \in Keys /\ (kind \in OfPhones => port[1].id \in Ids)
<1>1. port # <<>> /\ port[1].kind = kind /\ port' = Tail(port)
  BY DEF Takes
<1>2. port[1] \in Messages /\ port' \in Seq(Messages)
  BY <1>1 DEF PortType
<1>3. kind \in OfPhones => kind \notin Lone
  BY DEF OfPhones, Lone
<1> QED BY <1>1, <1>2, <1>3 DEF Messages

\* What every handler leaves of the types: it takes a message and may end the worker.
LEMMA HandlersKeepTypes ==
  ASSUME PortType, StateType, port' \in Seq(Messages), Aside, fails' = fails,
         ready' \in {ready, "resolved"}, worker' \in {worker, "none", "dying"}
  PROVE  PortType' /\ StateType'
BY DEF PortType, StateType, Aside, counts

LEMMA HeardEnds ==
  ASSUME NEW kind, Heard(kind)
  PROVE  worker' \in {worker, "none", "dying"}
BY DEF Heard, Terminates

LEMMA HandlersKeep ==
  ASSUME PortType, StateType, TableType, GraceIsOwn, ServedIsKept, Handles, fails' = fails
  PROVE  PortType' /\ StateType' /\ TableType' /\ GraceIsOwn' /\ ServedIsKept'
<1> USE NoneIsNoKey
<1>1. CASE Ready
  <2>1. port' \in Seq(Messages)
    BY <1>1, TakenIsMessage DEF Ready
  <2>2. worker' \in {worker, "none", "dying"}
    BY <1>1, HeardEnds DEF Ready
  <2>3. Aside /\ ready' \in {ready, "resolved"} /\ UNCHANGED Tables
    BY <1>1 DEF Ready, Tables
  <2> QED BY <2>1, <2>2, <2>3, HandlersKeepTypes, TablesStay
<1>2. ASSUME NEW kind, Error(kind) PROVE PortType' /\ StateType' /\ UNCHANGED Tables
  <2>1. port' \in Seq(Messages)
    BY <1>2, TakenIsMessage DEF Error
  <2>2. worker' \in {worker, "none", "dying"}
    BY <1>2 DEF Error, Terminates
  <2>3. Aside /\ ready' = ready /\ UNCHANGED Tables
    BY <1>2 DEF Error, Tables
  <2> QED BY <2>1, <2>2, <2>3, HandlersKeepTypes
<1>3. CASE Closed
  <2>1. port' \in Seq(Messages)
    BY <1>3, TakenIsMessage DEF Closed
  <2>2. worker' \in {worker, "none", "dying"}
    BY <1>3, HeardEnds DEF Closed
  <2>3. Aside /\ ready' = ready /\ UNCHANGED Tables
    BY <1>3 DEF Closed, Tables
  <2> QED BY <2>1, <2>2, <2>3, HandlersKeepTypes, TablesStay
<1>4. CASE Identified
  <2> DEFINE m == port[1]
             c == [NoClient EXCEPT !.own = m.key]
  <2>1. m.key \in Keys /\ port' \in Seq(Messages)
    BY <1>4, TakenIsMessage DEF Identified
  <2>2. worker' \in {worker, "none", "dying"}
    BY <1>4, HeardEnds DEF Identified
  <2>3. Aside /\ ready' = ready /\ torn' = torn
    BY <1>4 DEF Identified
  <2>4. CancelGrace(c) /\ clients' = [clients EXCEPT ![m.id] = c] /\ left' \subseteq left
    BY <1>4 DEF Identified
  <2>5. c \in Records
    BY <2>1, NoClientIsRecord
  <2> HIDE DEF c, m
  <2>6. graces' \in [Keys -> {NoGrace} \cup SUBSET Sessions] /\ GraceIsOwn'
    BY <2>4, CancelEnds
  <2>7. TableType' /\ ServedIsKept'
    BY <2>3, <2>4, <2>5, <2>6 DEF TableType, ServedIsKept
  <2> QED BY <2>1, <2>2, <2>3, <2>6, <2>7, HandlersKeepTypes
<1>5. CASE Disconnected
  <2> DEFINE m == port[1]
             c == clients[m.id]
             cs == [clients EXCEPT ![m.id] = NoClient]
  <2>1. m.id \in Ids /\ port' \in Seq(Messages)
    BY <1>5, TakenIsMessage DEF Disconnected, OfPhones
  <2>2. worker' \in {worker, "none", "dying"}
    BY <1>5, HeardEnds DEF Disconnected
  <2>3. Aside /\ ready' = ready /\ clients' = cs
    BY <1>5 DEF Disconnected
  <2>4. \/ /\ c.own # None /\ ~Served(cs, c.own, SessionKeys(c))
           /\ Arm(c.own, SessionKeys(c), m.id \in away \/ closing, Viewed(c), cs)
        \/ graces' = graces /\ left' = left /\ torn' = torn
    BY <1>5 DEF Disconnected
  <2>5. c \in Records /\ cs \in [Ids -> Records]
    BY <2>1, NoClientIsRecord DEF TableType
  <2> HIDE DEF c, cs, m
  <2>6. /\ graces' \in [Keys -> {NoGrace} \cup SUBSET Sessions] /\ left' \subseteq Sessions
        /\ GraceIsOwn' /\ ServedIsKept'
    <3>1. CASE graces' = graces /\ left' = left /\ torn' = torn
      BY <3>1 DEF TableType, GraceIsOwn, ServedIsKept
    <3> QED BY <2>4, <2>5, <3>1, ArmKeeps
  <2>7. TableType'
    BY <2>3, <2>5, <2>6 DEF TableType
  <2> QED BY <2>1, <2>2, <2>3, <2>6, <2>7, HandlersKeepTypes
<1>6. CASE GoingAway \/ Visible
  <2>1. port' \in Seq(Messages)
    BY <1>6, TakenIsMessage DEF GoingAway, Visible
  <2>2. worker' \in {worker, "none", "dying"}
    BY <1>6, HeardEnds DEF GoingAway, Visible
  <2>3. /\ Aside /\ ready' = ready /\ torn' = torn
        /\ clients' = clients /\ graces' = graces /\ left' = left
    BY <1>6 DEF GoingAway, Visible
  <2> QED BY <2>1, <2>2, <2>3, HandlersKeepTypes DEF TableType, GraceIsOwn, ServedIsKept
<1>7. CASE Reports
  <2> DEFINE m == port[1]
  <2>1. m.id \in Ids /\ m.key \in Keys /\ port' \in Seq(Messages)
    BY <1>7, TakenIsMessage DEF Reports, OfPhones
  <2>2. worker' \in {worker, "none", "dying"}
    BY <1>7, HeardEnds DEF Reports
  <2>3. Aside /\ ready' = ready /\ torn' = torn
    BY <1>7 DEF Reports
  <2>4. PortType' /\ StateType'
    BY <2>1, <2>2, <2>3, HandlersKeepTypes
  <2>5. CASE clients[m.id].own = None
    <3>1. UNCHANGED Tables
      BY <1>7, <2>5, <2>3 DEF Reports, Tables
    <3> QED BY <3>1, <2>4, TablesStay
  <2>6. CASE clients[m.id].own # None
    <3>1. PICK guarded \in BOOLEAN :
            /\ clients' = [clients EXCEPT ![m.id] = Reported(clients[m.id], m.key, guarded)]
            /\ \/ graces' = graces \/ CancelGrace(Reported(clients[m.id], m.key, guarded))
            /\ left' \subseteq left
      BY <1>7, <2>6 DEF Reports
    <3> DEFINE c == Reported(clients[m.id], m.key, guarded)
    <3>2. c \in Records
      BY <2>1, ReportedIsRecord DEF TableType
    <3> HIDE DEF c
    <3>3. graces' \in [Keys -> {NoGrace} \cup SUBSET Sessions] /\ GraceIsOwn'
      <4>1. CASE graces' = graces
        BY <4>1 DEF TableType, GraceIsOwn
      <4>2. CASE CancelGrace(c)
        BY <4>2, CancelEnds
      <4> QED BY <3>1, <4>1, <4>2 DEF c
    <3>4. clients' = [clients EXCEPT ![m.id] = c]
      BY <3>1 DEF c
    <3> QED BY <2>3, <2>4, <3>1, <3>2, <3>3, <3>4 DEF TableType, ServedIsKept
  <2> QED BY <2>5, <2>6
<1> QED BY <1>1, <1>2, <1>3, <1>4, <1>5, <1>6, <1>7, TablesStay DEF Handles

----------------------------------------------------------------------------
(* Choices of the wearer, timers, exits and close(). *)

LEMMA SelectKeeps ==
  ASSUME PortType, StateType, TableType, GraceIsOwn, ServedIsKept, fails' = fails,
         NEW i \in Ids, NEW key \in Sessions, Selects(i, key)
  PROVE  PortType' /\ StateType' /\ TableType' /\ GraceIsOwn' /\ ServedIsKept'
<1> DEFINE was == Viewed(clients[i])
           c == [clients[i] EXCEPT !.selected = key, !.replaced = IF was = key THEN NoKey ELSE was]
           cs == [clients EXCEPT ![i] = c]
<1>1. /\ clients[i].own # None /\ clients' = cs /\ CancelGrace(c)
      /\ \/ was \notin {NoKey, key} /\ was \notin ViewedIn(cs) /\ Drain(was, cs)
         \/ left' \subseteq left /\ torn' = torn
  BY DEF Selects
<1>2. UNCHANGED <<setup, lifecycle, closing_, port, nextId>>
  BY DEF Selects
<1>3. clients[i] \in Records
  BY DEF TableType
<1>4. was \in Keys /\ key \in Keys
  BY <1>1, <1>3 DEF Viewed, Records, Keys
<1>5. c \in Records
  BY <1>3, <1>4 DEF Records, Keys
<1>6. cs \in [Ids -> Records]
  BY <1>5 DEF TableType
<1> HIDE DEF was, c, cs
<1>7. graces' \in [Keys -> {NoGrace} \cup SUBSET Sessions] /\ GraceIsOwn'
  BY <1>1, CancelEnds
<1>8. left' \subseteq Sessions /\ ServedIsKept'
  <2>1. CASE was \notin {NoKey, key} /\ was \notin ViewedIn(cs) /\ Drain(was, cs)
    <3>1. TornDown(was) = was
      BY <2>1 DEF TornDown
    <3> QED BY <2>1, <3>1 DEF Drain, ServedIsKept, TableType
  <2>2. CASE left' \subseteq left /\ torn' = torn
    BY <2>2 DEF ServedIsKept, TableType
  <2> QED BY <1>1, <2>1, <2>2
<1> QED BY <1>1, <1>2, <1>6, <1>7, <1>8 DEF TableType, PortType, StateType, lifecycle, closing_

LEMMA GraceEndKeeps ==
  ASSUME TableType, GraceIsOwn, ServedIsKept, NEW key \in Keys, GraceEnds(key)
  PROVE  TableType' /\ GraceIsOwn' /\ ServedIsKept'
<1>1. /\ graces[key] # NoGrace /\ graces' = [graces EXCEPT ![key] = NoGrace] /\ clients' = clients
      /\ \/ left' = left /\ torn' = torn
         \/ ~Served(clients, key, graces[key]) /\ Drain(key, clients)
  BY DEF GraceEnds
<1>2. key = NoKey \/ key \in graces[key]
  BY <1>1 DEF GraceIsOwn
<1>3. left' \subseteq Sessions /\ ServedIsKept'
  <2>1. CASE left' = left /\ torn' = torn
    BY <2>1 DEF TableType, ServedIsKept
  <2>2. CASE ~Served(clients, key, graces[key]) /\ Drain(key, clients)
    BY <1>2, <2>2, DrainsUnseen DEF TableType
  <2> QED BY <1>1, <2>1, <2>2
<1> QED BY <1>1, <1>3 DEF TableType, GraceIsOwn

TimerStep == \/ \E key \in Keys : GraceEnds(key)
             \/ Settles \/ WatchdogFires \/ RestartFires \/ Exits
             \/ Close \/ CloseTimeout \/ CloseEnds

LEMMA TimersKeep ==
  ASSUME PortType, StateType, TableType, GraceIsOwn, ServedIsKept, fails' = fails, TimerStep
  PROVE  PortType' /\ StateType' /\ TableType' /\ GraceIsOwn' /\ ServedIsKept'
<1>1. ASSUME NEW key \in Keys, GraceEnds(key)
      PROVE  PortType' /\ StateType' /\ TableType' /\ GraceIsOwn' /\ ServedIsKept'
  <2>1. PortType' /\ StateType'
    BY <1>1 DEF GraceEnds, PortType, StateType, lifecycle, Timer, closing_, counts
  <2> QED BY <1>1, <2>1, GraceEndKeeps
<1>2. CASE Settles
  BY <1>2 DEF Settles, PortType, StateType, TableType, GraceIsOwn, ServedIsKept, lifecycle, Timer,
              closing_, counts
<1>3. CASE WatchdogFires
  <2>1. PortType' /\ StateType' /\ UNCHANGED Tables
    BY <1>3 DEF WatchdogFires, Terminates, PortType, StateType, closing_, table, Tables
  <2> QED BY <2>1, TablesStay
<1>4. CASE RestartFires
  <2>1. PortType' /\ StateType' /\ UNCHANGED Tables
    BY <1>4 DEF RestartFires, StartWorker, PortType, StateType, Timer, closing_, counts, table, Tables
  <2> QED BY <2>1, TablesStay
<1>5. ASSUME Forgets, graces' = graces, left' = left, torn' = torn
      PROVE  TableType' /\ GraceIsOwn' /\ ServedIsKept'
  BY <1>5, NoClientIsRecord DEF Forgets, TableType, GraceIsOwn, ServedIsKept
<1>6. CASE Exits
  <2>1. PortType' /\ StateType'
    BY <1>6 DEF Exits, PortType, StateType, counts, closing_
  <2> QED BY <1>5, <1>6, <2>1 DEF Exits
<1>7. CASE Close
  <2>1. PortType' /\ StateType'
    BY <1>7 DEF Close, PortType, StateType, counts
  <2> QED BY <1>7, <2>1 DEF Close, TableType, GraceIsOwn, ServedIsKept
<1>8. CASE CloseTimeout
  <2>1. PortType' /\ StateType' /\ UNCHANGED Tables
    BY <1>8 DEF CloseTimeout, Terminates, PortType, StateType, closing_, counts, table, Tables
  <2> QED BY <2>1, TablesStay
<1>9. CASE CloseEnds
  <2>1. PortType' /\ StateType'
    BY <1>9 DEF CloseEnds, PortType, StateType, counts
  <2> QED BY <1>5, <1>9, <2>1 DEF CloseEnds
<1> QED BY <1>1, <1>2, <1>3, <1>4, <1>6, <1>7, <1>8, <1>9 DEF TimerStep

----------------------------------------------------------------------------
(* The plugin's pushes and the adapter's pulls leave the relay alone. *)

LEMMA AskingKeeps ==
  ASSUME PumpType, Schedule, fails' = fails, pump' \in {pump, "stopped"}, fails \in Nat
  PROVE  PumpType'
BY DEF PumpType, Schedule, Asks, Number

LEMMA AgainKeeps ==
  ASSUME PumpType, fails \in Nat, NEW n, Again(n), pump' = pump,
         \/ fails' = fails /\ n = Number
         \/ fails' = fails + 1 /\ n = Number + 1
  PROVE  PumpType' /\ fails' \in Nat
BY DEF PumpType, Again, Asks, Number, Idle

PumpStep == Starts \/ Projects \/ HandleDirty \/ Tick \/ Answered \/ Pulled \/ TimesOut \/ PumpStops

LEMMA PumpKeeps ==
  ASSUME PortType, PumpType, PumpStep
  PROVE  /\ PumpType' /\ fails' \in Nat
         /\ UNCHANGED <<setup, nextId, port, worker, ready, close, Tables>>
<1>1. CASE Starts
  BY <1>1 DEF Starts, PortType, PumpType, Number, lifecycle, closing_, counts, table, Tables
<1>2. CASE Projects
  BY <1>2 DEF Projects, PortType, PumpType, Number, lifecycle, closing_, counts, table, Tables
<1>3. ASSUME Adapter PROVE UNCHANGED <<setup, nextId, port, worker, ready, close, Tables>>
  BY <1>3 DEF Adapter, lifecycle, closing_, counts, table, Tables
<1>4. CASE HandleDirty
  <2>1. Adapter /\ fails' = fails /\ pump' = pump
    BY <1>4 DEF HandleDirty
  <2>2. Schedule \/ pull' = pull
    BY <1>4 DEF HandleDirty
  <2>3. PumpType'
    BY <2>1, <2>2, AskingKeeps DEF PortType, PumpType, Number
  <2> QED BY <1>3, <2>1, <2>3 DEF PortType
<1>5. CASE Tick
  <2>1. Adapter /\ fails' = fails /\ pump' = pump /\ Schedule
    BY <1>5 DEF Tick
  <2> QED BY <1>3, <2>1, AskingKeeps DEF PortType
<1>6. CASE Answered
  BY <1>3, <1>6 DEF Answered, PortType, PumpType, Number
<1>7. CASE Pulled
  <2>1. Adapter /\ pump' = pump
    BY <1>7 DEF Pulled
  <2>2. \/ fails' = fails /\ Again(Number)
        \/ fails' = fails + 1 /\ Again(Number + 1)
    BY <1>7 DEF Pulled
  <2>3. PumpType' /\ fails' \in Nat
    BY <2>1, <2>2, AgainKeeps DEF PortType
  <2> QED BY <1>3, <2>1, <2>3
<1>8. CASE TimesOut
  <2>1. Adapter /\ pump' = pump /\ fails' = fails + 1 /\ Again(Number + 1)
    BY <1>8 DEF TimesOut
  <2> QED BY <1>3, <2>1, AgainKeeps DEF PortType
<1>9. CASE PumpStops
  <2>1. Adapter /\ fails' = fails /\ pull' = 0 /\ pump' = "stopped"
    BY <1>9 DEF PumpStops, Idle
  <2> QED BY <1>3, <2>1 DEF PortType, PumpType, Number
<1> QED BY <1>1, <1>2, <1>4, <1>5, <1>6, <1>7, <1>8, <1>9 DEF PumpStep

----------------------------------------------------------------------------
(* Every step keeps the invariant. *)

LEMMA RelayStepKeeps ==
  ASSUME PresenceInv, RelayStep, Told
  PROVE  PresenceInv'
<1>1. fails' = fails /\ PumpType'
  BY DEF PresenceInv, Told, PumpType, Number
<1>2. \/ WorkerStep \/ Handles \/ TimerStep
      \/ \E i \in Ids, key \in Sessions : Selects(i, key)
  BY DEF RelayStep, WorkerStep, TimerStep
<1>3. CASE WorkerStep
  BY <1>1, <1>3, WorkerKeeps, TablesStay DEF PresenceInv
<1>4. CASE Handles
  BY <1>1, <1>4, HandlersKeep DEF PresenceInv
<1>5. CASE TimerStep
  BY <1>1, <1>5, TimersKeep DEF PresenceInv
<1>6. CASE \E i \in Ids, key \in Sessions : Selects(i, key)
  BY <1>1, <1>6, SelectKeeps DEF PresenceInv
<1> QED BY <1>2, <1>3, <1>4, <1>5, <1>6

LEMMA StepKeeps == PresenceInv /\ [Next]_vars => PresenceInv'
<1> SUFFICES ASSUME PresenceInv, [Next]_vars PROVE PresenceInv'
  OBVIOUS
<1>1. CASE RelayStep /\ Told
  BY <1>1, RelayStepKeeps
<1>2. CASE PumpStep
  <2>1. PumpType' /\ fails' \in Nat /\ UNCHANGED <<setup, nextId, port, worker, ready, close, Tables>>
    BY <1>2, PumpKeeps DEF PresenceInv
  <2> QED BY <2>1, TablesStay DEF PresenceInv, PortType, StateType
<1>3. CASE UNCHANGED vars
  <2>1. UNCHANGED <<setup, nextId, port, worker, ready, close, fails, pull, pump, Tables>>
    BY <1>3 DEF vars, relay, presence, lifecycle, closing_, counts, table, Tables
  <2> QED BY <2>1, TablesStay DEF PresenceInv, PortType, StateType, PumpType, Number
<1> QED BY <1>1, <1>2, <1>3 DEF Next, PumpStep

LEMMA PresenceInvariant == Spec => []PresenceInv
BY Begins, StepKeeps, PTL DEF Spec

\* The state is well-formed, and what waits on the glasses of a session is torn down
\* only when no phone is on that session: not by a grace that a phone answered in
\* time, nor by a wearer who leaves the session to another phone.
THEOREM TornDownUnseen == Spec => []RelayInv
<1>1. PresenceInv => RelayInv
  <2> SUFFICES ASSUME PresenceInv PROVE TypeOK /\ ServedIsKept
    BY DEF RelayInv
  <2>1. \A i \in Ids : /\ clients[i].own \in Keys \cup {None}
                       /\ {clients[i].selected, clients[i].replaced} \subseteq Keys
    BY DEF PresenceInv, TableType, Records
  <2> QED BY <2>1 DEF TypeOK, PresenceInv, StateType, TableType, PumpType
<1> QED BY <1>1, PresenceInvariant, PTL
=============================================================================
