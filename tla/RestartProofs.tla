--------------------------- MODULE RestartProofs ---------------------------
(***************************************************************************)
(* Proofs about RestartAdmission: an operation is never dispatched twice   *)
(* and no two replies about it contradict, for any operations, profile     *)
(* scopes, capacity and number of boots.                                   *)
(***************************************************************************)
EXTENDS RestartAdmission, TLAPS

Inv == TypeOK /\ FenceInv /\ ReplyInv

\* Adding a receipt for an operation without one keeps the others.
LEMMA PutFacts ==
  ASSUME store \in [Admitted -> Receipt], Admitted \subseteq Ops,
         NEW o \in Ops, o \notin Admitted, NEW r \in Receipt
  PROVE  /\ Put(o, r) \in [Admitted \cup {o} -> Receipt]
         /\ DOMAIN Put(o, r) = Admitted \cup {o}
         /\ Put(o, r)[o] = r
         /\ \A x \in Admitted : Put(o, r)[x] = store[x]
BY DEF Put

\* The initial state satisfies the invariant.
LEMMA InitInv == Init => Inv
<1> SUFFICES ASSUME Init PROVE Inv
  OBVIOUS
<1>1. Admitted = {} /\ store \in [Admitted -> Receipt]
  BY DEF Init, Admitted
<1>2. TypeOK
  BY <1>1 DEF Init, TypeOK, Phases, Replies
<1>3. FenceInv /\ ReplyInv
  BY <1>1 DEF Init, FenceInv, ReplyInv
<1> QED
  BY <1>2, <1>3 DEF Inv

\* Steps that touch neither the store, the handler nor what was told.
LEMMA QuietInv ==
  ASSUME Inv, UNCHANGED <<store, current, phase, calls, native, told>>,
         step' = step \/ step' = "idle",
         boot' \in Nat, up' \in BOOLEAN, draining' \in BOOLEAN, scope' \in Scopes,
         previews' \subseteq Confirmation
  PROVE  Inv'
<1>1. Admitted' = Admitted
  BY DEF Admitted
<1>2. TypeOK'
  BY <1>1 DEF Inv, TypeOK
<1>3. FenceInv'
  BY <1>1 DEF Inv, FenceInv
<1>4. ReplyInv'
  BY <1>1 DEF Inv, ReplyInv
<1> QED
  BY <1>2, <1>3, <1>4 DEF Inv

\* Telling a phone of an admitted operation what its receipt says.
LEMMA RepeatInv ==
  ASSUME Inv, NEW o \in Ops, Repeat(o) PROVE Inv'
<1> DEFINE p == PublicPhase(store[o])
<1>1. /\ o \in Admitted /\ store[o] \in Receipt /\ step = "idle"
      /\ UNCHANGED <<boot, up, draining, scope, store, step, current, phase, previews,
                     calls, native>>
      /\ told' = [told EXCEPT ![o] = @ \cup {p}]
  BY DEF Inv, TypeOK, Repeat, Known, Serving, Tell
<1>2. /\ p \in {"recovered", "unconfirmed", "accepted", "rejected"}
      /\ p = "accepted" => store[o].phase = "accepted"
      /\ p = "rejected" => store[o].phase = "rejected"
      /\ p = "recovered" => store[o].phase # "rejected"
  BY <1>1 DEF PublicPhase, Returned, Receipt, Phases
<1> HIDE DEF p
<1>3. Admitted' = Admitted
  BY <1>1 DEF Admitted
<1>4. \A x \in Ops : told'[x] = IF x = o THEN told[o] \cup {p} ELSE told[x]
  BY <1>1 DEF Inv, TypeOK
<1>5. TypeOK'
  BY <1>1, <1>2, <1>3, <1>4 DEF Inv, TypeOK, Replies, Phases
<1>6. FenceInv'
  BY <1>1, <1>3 DEF Inv, FenceInv
<1>7. ReplyInv'
  BY <1>1, <1>2, <1>3, <1>4 DEF Inv, ReplyInv, TypeOK
<1> QED
  BY <1>5, <1>6, <1>7 DEF Inv

\* Writing the fence.
LEMMA AdmitInv ==
  ASSUME Inv, NEW o \in Ops, NEW p \in previews, Admit(o, p) PROVE Inv'
<1> DEFINE r == [boot |-> boot, scope |-> scope, phase |-> "dispatching"]
           fenced == Put(o, r)
<1>1. /\ o \notin Admitted /\ step = "idle" /\ r \in Receipt
      /\ store \in [Admitted -> Receipt] /\ Admitted \subseteq Ops
  BY DEF Inv, TypeOK, Admit, Admissible, Serving, Known, Receipt, Phases
<1>2. /\ calls[o] = 0 /\ native[o] = {} /\ told[o] = {}
  BY <1>1 DEF Inv, FenceInv, ReplyInv
<1>3. /\ store' = fenced \/ (store' = store /\ step' = step /\ current' = current)
      /\ (step' = "fenced" /\ current' = o) \/ (step' = step /\ current' = current)
      /\ UNCHANGED <<boot, up, draining, scope, phase, previews, calls, native, told>>
  BY DEF Admit
<1>4. CASE store' = fenced
  <2>1. /\ Admitted' = Admitted \cup {o} /\ store' \in [Admitted' -> Receipt]
        /\ store'[o].phase = "dispatching"
        /\ \A x \in Admitted : store'[x] = store[x]
    <3>1. /\ fenced \in [Admitted \cup {o} -> Receipt]
          /\ DOMAIN fenced = Admitted \cup {o}
          /\ fenced[o] = r
          /\ \A x \in Admitted : fenced[x] = store[x]
      BY <1>1, PutFacts
    <3>2. r.phase = "dispatching"
      OBVIOUS
    <3> HIDE DEF fenced, r
    <3>3. Admitted' = Admitted \cup {o}
      BY <1>4, <3>1 DEF Admitted
    <3> QED
      BY <1>4, <3>1, <3>2, <3>3
  <2>2. TypeOK'
    BY <1>1, <1>3, <2>1 DEF Inv, TypeOK
  <2>3. FenceInv'
    BY <1>1, <1>2, <1>3, <2>1 DEF Inv, TypeOK, FenceInv
  <2>4. ReplyInv'
    BY <1>1, <1>2, <1>3, <2>1 DEF Inv, TypeOK, ReplyInv
  <2> QED
    BY <2>2, <2>3, <2>4 DEF Inv
<1>5. CASE store' = store /\ step' = step /\ current' = current
  <2>1. TypeOK
    BY DEF Inv
  <2> QED
    BY <1>3, <1>5, <2>1, QuietInv DEF TypeOK
<1> QED
  BY <1>3, <1>4, <1>5

\* The native call.
LEMMA CallInv ==
  ASSUME Inv, Call PROVE Inv'
<1>1. /\ step = "fenced" /\ step' = "called"
      /\ current \in Admitted /\ current \in Ops /\ calls[current] = 0
      /\ native[current] = {}
      /\ store[current].phase = "dispatching" /\ told[current] = {}
  BY DEF Inv, TypeOK, FenceInv, ReplyInv, Call
<1>2. /\ phase' \in Phases /\ phase' # "dispatching" /\ draining' \in BOOLEAN
      /\ calls' = [calls EXCEPT ![current] = @ + 1]
      /\ native' = [native EXCEPT ![current] = @ \cup {phase'}]
      /\ UNCHANGED <<boot, up, scope, store, current, previews, told>>
  BY DEF Inv, TypeOK, Call, Phases
<1>3. Admitted' = Admitted
  BY <1>2 DEF Admitted
<1>4. \A x \in Ops : /\ calls'[x] = IF x = current THEN 1 ELSE calls[x]
                     /\ native'[x] = IF x = current THEN {phase'} ELSE native[x]
  BY <1>1, <1>2 DEF Inv, TypeOK
<1>5. TypeOK'
  BY <1>1, <1>2, <1>3, <1>4 DEF Inv, TypeOK
<1>6. FenceInv'
  BY <1>1, <1>2, <1>3, <1>4 DEF Inv, FenceInv, TypeOK
<1>7. ReplyInv'
  BY <1>1, <1>2, <1>3, <1>4 DEF Inv, ReplyInv, TypeOK
<1> QED
  BY <1>5, <1>6, <1>7 DEF Inv

\* Writing what came of the call.
LEMMA RecordInv ==
  ASSUME Inv, Record PROVE Inv'
<1> DEFINE settled == [store EXCEPT ![current].phase = phase]
<1>1. /\ step = "called" /\ step' = "idle"
      /\ current \in Admitted /\ current \in Ops /\ native[current] = {phase}
      /\ phase \in Phases /\ phase # "dispatching"
      /\ store[current].phase = "dispatching" /\ told[current] = {}
      /\ store \in [Admitted -> Receipt]
  BY DEF Inv, TypeOK, FenceInv, ReplyInv, Record
<1>2. /\ \/ store' = settled /\ Tell(current, phase)
         \/ store' \in {store, settled} /\ Tell(current, "unconfirmed")
      /\ UNCHANGED <<boot, up, draining, scope, current, phase, previews, calls, native>>
  BY DEF Record
<1>3. /\ settled \in [Admitted -> Receipt]
      /\ settled[current].phase = phase
      /\ \A x \in Admitted : x # current => settled[x] = store[x]
  BY <1>1 DEF Receipt
<1> HIDE DEF settled
<1>4. /\ Admitted' = Admitted /\ store' \in [Admitted -> Receipt]
      /\ \A x \in Admitted : x # current => store'[x] = store[x]
      /\ store'[current].phase \in {"dispatching", phase}
  BY <1>1, <1>2, <1>3 DEF Admitted
<1>5. PICK what \in {phase, "unconfirmed"} :
         /\ told' = [told EXCEPT ![current] = @ \cup {what}]
         /\ what # "unconfirmed" => store'[current].phase = phase
  BY <1>2, <1>3 DEF Tell
<1>6. \A x \in Ops : told'[x] = IF x = current THEN told[x] \cup {what} ELSE told[x]
  BY <1>5 DEF Inv, TypeOK
<1>7. TypeOK'
  BY <1>1, <1>2, <1>4, <1>5, <1>6 DEF Inv, TypeOK, Replies, Phases
<1>8. FenceInv'
  BY <1>1, <1>2, <1>4 DEF Inv, FenceInv
<1>9. ReplyInv'
  <2>1. \A o \in Ops \ Admitted : native'[o] = {} /\ told'[o] = {}
    BY <1>1, <1>2, <1>6 DEF Inv, ReplyInv
  <2>2. ASSUME NEW o \in Admitted
        PROVE /\ store'[o].phase \in {"accepted", "rejected"} => native'[o] = {store'[o].phase}
              /\ "accepted" \in told'[o] => store'[o].phase = "accepted"
              /\ "rejected" \in told'[o] => store'[o].phase = "rejected"
              /\ "recovered" \in told'[o] => store'[o].phase # "rejected"
    <3>1. o \in Ops
      BY DEF Inv, TypeOK
    <3>2. CASE o # current
      BY <1>2, <1>4, <1>6, <3>1, <3>2 DEF Inv, ReplyInv
    <3>3. CASE o = current
      BY <1>1, <1>2, <1>4, <1>5, <1>6, <3>1, <3>3 DEF Phases
    <3> QED
      BY <3>2, <3>3
  <2> QED
    BY <1>1, <1>4, <2>1, <2>2 DEF ReplyInv
<1> QED
  BY <1>7, <1>8, <1>9 DEF Inv

\* Every step keeps the invariant.
LEMMA NextInv == Inv /\ [Next]_vars => Inv'
<1> SUFFICES ASSUME Inv, [Next]_vars PROVE Inv'
  OBVIOUS
<1>1. CASE Preview \/ Exits \/ Boots \/ ScopeChanges \/ UNCHANGED vars
  <2>1. [boot |-> boot, scope |-> scope] \in Confirmation
    BY DEF Inv, TypeOK, Confirmation
  <2>2. TypeOK
    BY DEF Inv
  <2>3. CASE Preview
    BY <2>1, <2>2, <2>3, QuietInv DEF TypeOK, Preview
  <2>4. CASE Exits
    BY <2>2, <2>4, QuietInv DEF TypeOK, Exits
  <2>5. CASE Boots
    BY <2>2, <2>5, QuietInv DEF TypeOK, Boots
  <2>6. CASE ScopeChanges
    BY <2>2, <2>6, QuietInv DEF TypeOK, ScopeChanges
  <2>7. CASE UNCHANGED vars
    BY <2>2, <2>7, QuietInv DEF TypeOK, vars
  <2> QED
    BY <1>1, <2>3, <2>4, <2>5, <2>6, <2>7
<1>2. CASE Call \/ Record
  BY <1>2, CallInv, RecordInv
<1>3. ASSUME NEW o \in Ops, Repeat(o) PROVE Inv'
  BY <1>3, RepeatInv
<1>4. ASSUME NEW o \in Ops, NEW p \in previews, Admit(o, p) PROVE Inv'
  BY <1>4, AdmitInv
\* A refusal changes nothing.
<1>5. CASE Unreadable \/ \E o \in Ops : StatusUnknown(o) \/ \E p \in previews : Refuse(o, p)
  BY <1>1, <1>5 DEF Unreadable, StatusUnknown, Refuse
<1> QED
  BY <1>1, <1>2, <1>3, <1>4, <1>5 DEF Next

\* Every variable keeps its type.
THEOREM TypeCorrect == Spec => []TypeOK
<1>1. Inv => TypeOK
  BY DEF Inv
<1> QED
  BY InitInv, NextInv, <1>1, PTL DEF Spec

\* An operation reaches the native call at most once, with its receipt on disk.
THEOREM AdmissionCorrect == Spec => []OneAdmission
<1>1. Inv => OneAdmission
  BY DEF Inv, FenceInv, OneAdmission
<1> QED
  BY InitInv, NextInv, <1>1, PTL DEF Spec

\* No two replies about an operation contradict each other or the native call.
THEOREM RepliesCorrect == Spec => []RepliesAgree
<1>1. Inv => RepliesAgree
  <2> SUFFICES ASSUME Inv, NEW o \in Ops
               PROVE /\ "rejected" \in told[o] => /\ native[o] = {"rejected"}
                                                  /\ told[o] \cap {"accepted", "recovered"} = {}
                     /\ "accepted" \in told[o] => native[o] = {"accepted"}
    BY DEF RepliesAgree
  <2>1. CASE o \in Admitted
    BY <2>1 DEF Inv, ReplyInv
  <2>2. CASE o \notin Admitted
    BY <2>2 DEF Inv, ReplyInv
  <2> QED
    BY <2>1, <2>2
<1> QED
  BY InitInv, NextInv, <1>1, PTL DEF Spec

-----------------------------------------------------------------------------
(* Receipts from step to step. *)

\* A step keeps every receipt but for the phase of the one being dispatched, and a
\* new receipt is of the boot that admits it.
KeptReceipts ==
  /\ Admitted \subseteq Admitted'
  /\ \A o \in Admitted :
       /\ store'[o].boot = store[o].boot /\ store'[o].scope = store[o].scope
       /\ store'[o].phase # store[o].phase => store[o].phase = "dispatching" /\ current = o
  /\ \A o \in Admitted' \ Admitted : store'[o].boot = boot

LEMMA StoreStep == Inv /\ [Next]_vars => KeptReceipts
<1> SUFFICES ASSUME Inv, [Next]_vars PROVE KeptReceipts
  OBVIOUS
<1>1. CASE store' = store
  BY <1>1 DEF KeptReceipts, Admitted
<1>2. ASSUME NEW o \in Ops, NEW p \in previews, Admit(o, p), store' # store
      PROVE  KeptReceipts
  <2> DEFINE r == [boot |-> boot, scope |-> scope, phase |-> "dispatching"]
  <2>1. /\ o \notin Admitted /\ r \in Receipt
        /\ store \in [Admitted -> Receipt] /\ Admitted \subseteq Ops
    BY <1>2 DEF Inv, TypeOK, Admit, Admissible, Known, Receipt, Phases
  <2>2. store' = Put(o, r)
    BY <1>2 DEF Admit
  <2>3. r.boot = boot
    OBVIOUS
  <2> HIDE DEF r
  <2>4. /\ Admitted' = Admitted \cup {o} /\ store'[o] = r
        /\ \A x \in Admitted : store'[x] = store[x]
    BY <2>1, <2>2, PutFacts DEF Admitted
  <2> QED
    BY <2>3, <2>4 DEF KeptReceipts
<1>3. ASSUME Record, store' # store PROVE KeptReceipts
  <2>1. /\ step = "called" /\ store' = [store EXCEPT ![current].phase = phase]
    BY <1>3 DEF Record
  <2>2. /\ current \in Admitted /\ store[current].phase = "dispatching"
        /\ store \in [Admitted -> Receipt]
    BY <2>1 DEF Inv, TypeOK, FenceInv, ReplyInv
  <2>3. Admitted' = Admitted
    BY <2>1 DEF Admitted
  <2>4. \A o \in Admitted : /\ store'[o].boot = store[o].boot
                            /\ store'[o].scope = store[o].scope
                            /\ o # current => store'[o] = store[o]
    BY <2>1, <2>2 DEF Receipt
  <2> QED
    BY <2>2, <2>3, <2>4 DEF KeptReceipts
<1>4. \/ store' = store
      \/ \E o \in Ops, p \in previews : Admit(o, p)
      \/ Record
  BY DEF Next, vars, Preview, Unreadable, Call, Exits, Boots, ScopeChanges, Repeat, StatusUnknown,
         Refuse
<1> QED
  BY <1>1, <1>2, <1>3, <1>4

\* A receipt is never forgotten or replaced: only the phase of the operation that is
\* being dispatched changes.
THEOREM ReceiptsCorrect == Spec => ReceiptsAreKept
<1>1. Inv /\ [Next]_vars =>
        [\A o \in Admitted :
           /\ o \in Admitted'
           /\ store'[o].boot = store[o].boot /\ store'[o].scope = store[o].scope
           /\ store'[o].phase # store[o].phase =>
                store[o].phase = "dispatching" /\ current = o]_vars
  BY StoreStep DEF KeptReceipts
<1> QED
  BY InitInv, NextInv, <1>1, PTL DEF Spec, ReceiptsAreKept

\* No receipt is of a boot to come.
BootInv == \A o \in Admitted : store[o].boot <= boot

LEMMA BootStep == Inv /\ BootInv /\ RecoveredByAnother /\ [Next]_vars
                    => (BootInv /\ RecoveredByAnother)'
<1> SUFFICES ASSUME Inv, BootInv, RecoveredByAnother, [Next]_vars
             PROVE  (BootInv /\ RecoveredByAnother)'
  OBVIOUS
<1>1. KeptReceipts /\ Inv'
  BY StoreStep, NextInv
<1>2. boot \in Nat /\ boot' \in {boot, boot + 1}
  BY DEF Inv, TypeOK, Next, vars, Preview, Unreadable, Call, Record, Exits, Boots, ScopeChanges,
         Repeat, StatusUnknown, Refuse, Admit
<1>3. \A o \in Admitted : store[o].boot \in Nat /\ o \in Ops
  BY DEF Inv, TypeOK, Receipt
<1>4. BootInv'
  <2> SUFFICES ASSUME NEW o \in Admitted' PROVE store'[o].boot <= boot'
    BY DEF BootInv
  <2>1. CASE o \in Admitted
    BY <1>1, <1>2, <1>3, <2>1 DEF KeptReceipts, BootInv
  <2>2. CASE o \notin Admitted
    BY <1>1, <1>2, <2>2 DEF KeptReceipts
  <2> QED
    BY <2>1, <2>2
\* Only the answer to a repeated request says `recovered'.
<1>5. ASSUME NEW o \in Ops, "recovered" \in told'[o], "recovered" \notin told[o]
      PROVE  o \in Admitted /\ store[o].boot # boot
  <2> DEFINE tells(x, w) == told' = [told EXCEPT ![x] = @ \cup {w}]
  <2>1. told \in [Ops -> SUBSET Replies]
    BY DEF Inv, TypeOK
  <2>2. ASSUME NEW x \in Ops, NEW w, tells(x, w) PROVE x = o /\ w = "recovered"
    BY <1>5, <2>1, <2>2
  <2>3. told' # told
    BY <1>5
  <2>4. CASE \E x \in Ops : Repeat(x)
    <3>1. PICK x \in Ops : Repeat(x)
      BY <2>4
    <3>2. x = o /\ PublicPhase(store[x]) = "recovered" /\ o \in Admitted
      BY <2>2, <3>1 DEF Repeat, Tell, Known
    <3>3. store[o] \in Receipt
      BY <3>2 DEF Inv, TypeOK
    <3> QED
      BY <3>2, <3>3 DEF PublicPhase, Returned, Receipt, Phases
  <2>5. CASE Record
    <3>1. current \in Ops /\ phase \in Phases
      BY DEF Inv, TypeOK
    <3>2. tells(current, phase) \/ tells(current, "unconfirmed")
      BY <2>5 DEF Record, Tell
    <3> QED
      BY <2>2, <3>1, <3>2 DEF Phases
  <2>6. (\E x \in Ops : Repeat(x)) \/ Record
    BY <2>3 DEF Next, vars, Preview, Unreadable, Call, Exits, Boots, ScopeChanges, StatusUnknown,
                Refuse, Admit
  <2> QED
    BY <2>4, <2>5, <2>6
<1>6. RecoveredByAnother'
  <2> SUFFICES ASSUME NEW o \in Ops, "recovered" \in told'[o]
               PROVE  o \in Admitted' /\ store'[o].boot < boot'
    BY DEF RecoveredByAnother
  <2>1. o \in Admitted /\ store[o].boot < boot
    BY <1>2, <1>3, <1>5 DEF RecoveredByAnother, BootInv
  <2> QED
    BY <1>1, <1>2, <1>3, <2>1 DEF KeptReceipts
<1> QED
  BY <1>4, <1>6

\* Recovery is reported only by a later process than the one that was asked.
THEOREM RecoveryCorrect == Spec => []RecoveredByAnother
<1>1. Init => BootInv /\ RecoveredByAnother
  BY DEF Init, BootInv, RecoveredByAnother, Admitted
<1> QED
  BY InitInv, NextInv, BootStep, <1>1, PTL DEF Spec
=============================================================================
