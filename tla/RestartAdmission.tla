-------------------------- MODULE RestartAdmission --------------------------
(***************************************************************************)
(* Restarting the gateway from the phone (restart_rpc.py).                 *)
(*                                                                         *)
(* A request names an operation id and the boot and profile scope its      *)
(* confirmation showed.  The handler runs on the gateway's event loop      *)
(* without awaiting: it writes a durable `dispatching' receipt, calls the  *)
(* native request_restart, and writes what came of it.  The process may    *)
(* die between any two of these, and a write may fail before or after it   *)
(* replaced the file.  Phones lose replies: they repeat requests and ask   *)
(* for status in any order.                                                *)
(***************************************************************************)
EXTENDS Naturals, FiniteSets

CONSTANTS
  Ops,         \* operation ids phones choose
  Scopes,      \* scopeRevision: the served profiles
  Capacity,    \* receipts the store holds (128)
  MaxBoot,     \* bound: boots of the gateway process
  MaxPreviews  \* bound: confirmations phones hold

ASSUME BoundsAssumption == {Capacity, MaxBoot, MaxPreviews} \subseteq Nat

Phases == {"dispatching", "accepted", "rejected", "unconfirmed"}
Confirmation == [boot : Nat, scope : Scopes]
Receipt == [boot : Nat, scope : Scopes, phase : Phases]
Replies == {"accepted", "rejected", "unconfirmed", "recovered"}

VARIABLES
  boot, up, draining,  \* the gateway process: its bootId, running, draining
  scope,               \* the profiles it serves now
  store,               \* ocuclaw-restart-receipts.json: admitted op |-> receipt
  step, current,       \* where the handler is, and with which operation
  phase,               \* the phase it will write
  previews,            \* confirmations phones hold
  calls,               \* history: native calls per operation
  native,              \* history: what the native calls answered
  told                 \* history: what phones were told of the phase of an operation

vars == <<boot, up, draining, scope, store, step, current, phase, previews,
          calls, native, told>>

Init ==
  /\ boot = 1 /\ up = TRUE /\ draining = FALSE
  /\ scope \in Scopes
  /\ store = [o \in {} |-> {}]
  /\ step = "idle" /\ current \in Ops /\ phase = "dispatching"
  /\ previews = {}
  /\ calls = [o \in Ops |-> 0]
  /\ native = [o \in Ops |-> {}]
  /\ told = [o \in Ops |-> {}]

Admitted == DOMAIN store

\* Mutant: the store is rewritten from nothing.
PutAlone(o, r) == [x \in {o} |-> r]

Put(o, r) == [x \in Admitted \cup {o} |-> IF x = o THEN r ELSE store[x]]

Tell(o, what) == told' = [told EXCEPT ![o] = @ \cup {what}]

\* Mutant: an accepted receipt is not proved by a new boot.
ReturnedUnlessAccepted(r) ==
  /\ r.phase \in {"dispatching", "unconfirmed"}
  /\ r.boot # boot /\ ~draining /\ r.scope = scope

\* Mutant: the process that was asked proves its own return.
ReturnedSameBoot(r) ==
  /\ r.phase \in {"accepted", "dispatching", "unconfirmed"}
  /\ ~draining /\ r.scope = scope

\* A new boot that serves the same profiles and is not draining proves that the
\* gateway returned.
Returned(r) ==
  /\ r.phase \in {"accepted", "dispatching", "unconfirmed"}
  /\ r.boot # boot /\ ~draining /\ r.scope = scope

PublicPhase(r) == CASE Returned(r) -> "recovered"
                    [] ~Returned(r) /\ r.phase = "dispatching" -> "unconfirmed"
                    [] OTHER -> r.phase

Serving == up /\ step = "idle"
Confirms(p) == p.boot = boot /\ p.scope = scope

-----------------------------------------------------------------------------
(* What phones ask. *)

Preview ==
  /\ Serving /\ Cardinality(previews) < MaxPreviews
  /\ previews' = previews \cup {[boot |-> boot, scope |-> scope]}
  /\ UNCHANGED <<boot, up, draining, scope, store, step, current, phase, calls,
                 native, told>>

\* Mutant: only a settled receipt stops a second admission.
KnownUnlessDispatching(o) == o \in Admitted /\ store[o].phase # "dispatching"

Known(o) == o \in Admitted

\* restart.status, or a restart.request that repeats an operation.
Repeat(o) ==
  /\ Serving /\ Known(o)
  /\ Tell(o, PublicPhase(store[o]))
  /\ UNCHANGED <<boot, up, draining, scope, store, step, current, phase, previews,
                 calls, native>>

StatusUnknown(o) ==
  /\ Serving /\ ~Known(o)
  /\ UNCHANGED vars

\* The receipts cannot be read: any question about them is refused.
Unreadable == Serving /\ UNCHANGED vars

StoreFull == Cardinality(Admitted) >= Capacity

\* operation_conflict, stale_preview, already_draining, receipt_store_full.
Refused(o, p) ==
  \/ Known(o) /\ p # [boot |-> store[o].boot, scope |-> store[o].scope]
  \/ ~Known(o) /\ (~Confirms(p) \/ draining \/ StoreFull)

\* A request that is refused changes nothing.
Refuse(o, p) ==
  /\ Serving /\ p \in previews /\ Refused(o, p)
  /\ UNCHANGED vars

Admissible(o, p) ==
  /\ Serving /\ p \in previews
  /\ ~Known(o) /\ ~Refused(o, p)

\* The dispatch fence.  A failed write may still have replaced the file.
Admit(o, p) ==
  /\ Admissible(o, p)
  /\ LET fenced == Put(o, [boot |-> boot, scope |-> scope, phase |-> "dispatching"])
     IN \/ /\ store' = fenced
           /\ step' = "fenced" /\ current' = o
        \/ /\ store' \in {store, fenced}
           /\ UNCHANGED <<step, current>>
  /\ UNCHANGED <<boot, up, draining, scope, phase, previews, calls, native, told>>

-----------------------------------------------------------------------------
(* The native call and its receipt. *)

\* runner.request_restart: accepted, refused, or an exception whatever it did.
Call ==
  /\ step = "fenced"
  /\ calls' = [calls EXCEPT ![current] = @ + 1]
  /\ \/ /\ boot < MaxBoot
        /\ draining' = TRUE /\ phase' = "accepted"
     \/ UNCHANGED draining /\ phase' = "rejected"
     \/ /\ boot < MaxBoot
        /\ draining' \in BOOLEAN /\ phase' = "unconfirmed"
  /\ native' = [native EXCEPT ![current] = @ \cup {phase'}]
  /\ step' = "called"
  /\ UNCHANGED <<boot, up, scope, store, current, previews, told>>

\* Mutant: the answer is reported though it could not be written.
RecordAnyway ==
  /\ step = "called"
  /\ LET settled == [store EXCEPT ![current].phase = phase]
     IN store' \in {settled, store} /\ Tell(current, phase)
  /\ step' = "idle"
  /\ UNCHANGED <<boot, up, draining, scope, current, phase, previews, calls, native>>

\* The second write; when it fails the reply says `unconfirmed'.
Record ==
  /\ step = "called"
  /\ LET settled == [store EXCEPT ![current].phase = phase]
     IN \/ store' = settled /\ Tell(current, phase)
        \/ store' \in {store, settled} /\ Tell(current, "unconfirmed")
  /\ step' = "idle"
  /\ UNCHANGED <<boot, up, draining, scope, current, phase, previews, calls, native>>

-----------------------------------------------------------------------------
(* The process. *)

\* It exits when drained, or dies, also in the middle of a request.
Exits ==
  /\ up /\ boot < MaxBoot
  /\ up' = FALSE /\ step' = "idle" /\ draining' = FALSE
  /\ UNCHANGED <<boot, scope, store, current, phase, previews, calls, native, told>>
DrainEnds == draining /\ step = "idle" /\ Exits

Boots ==
  /\ ~up
  /\ up' = TRUE /\ boot' = boot + 1
  /\ scope' \in Scopes
  /\ UNCHANGED <<draining, store, step, current, phase, previews, calls, native, told>>

\* Profiles are loaded or unloaded while the gateway runs.
ScopeChanges ==
  /\ Serving
  /\ scope' \in Scopes \ {scope}
  /\ UNCHANGED <<boot, up, draining, store, step, current, phase, previews, calls,
                 native, told>>

Next ==
  \/ Preview \/ Unreadable \/ Call \/ Record \/ Exits \/ Boots \/ ScopeChanges
  \/ \E o \in Ops : Repeat(o) \/ StatusUnknown(o)
  \/ \E o \in Ops, p \in previews : Refuse(o, p) \/ Admit(o, p)

Spec == Init /\ [][Next]_vars

\* The handler does not await; a drain ends; the supervisor relaunches the
\* process; phones go on asking for status.
Fairness ==
  /\ WF_vars(Call) /\ WF_vars(Record) /\ WF_vars(DrainEnds) /\ WF_vars(Boots)
  /\ \A o \in Ops : WF_vars(Repeat(o))

FairSpec == Spec /\ Fairness
-----------------------------------------------------------------------------
(* Properties. *)

\* Every variable keeps its type.
TypeOK ==
  /\ boot \in Nat /\ up \in BOOLEAN /\ draining \in BOOLEAN /\ scope \in Scopes
  /\ Admitted \subseteq Ops /\ store \in [Admitted -> Receipt]
  /\ step \in {"idle", "fenced", "called"} /\ current \in Ops /\ phase \in Phases
  /\ previews \subseteq Confirmation
  /\ calls \in [Ops -> Nat]
  /\ native \in [Ops -> SUBSET Phases]
  /\ told \in [Ops -> SUBSET Replies]

\* "Never retry an admitted operation": over lost replies, repeated requests,
\* failed writes and deaths of the process at any point, an operation reaches the
\* native call once, and only with a receipt on disk that will refuse the next.
OneAdmission == \A o \in Ops : calls[o] <= 1 /\ (calls[o] = 1 => o \in Admitted)

\* No two replies about an operation contradict: one that was rejected is never
\* reported accepted or recovered, and `accepted' or `rejected' is what the
\* native call said.
RepliesAgree ==
  \A o \in Ops :
    /\ "rejected" \in told[o] =>
         native[o] = {"rejected"} /\ told[o] \cap {"accepted", "recovered"} = {}
    /\ "accepted" \in told[o] => native[o] = {"accepted"}

\* Recovery is only reported to a phone by a later process than the one that was
\* asked to restart.
RecoveredByAnother ==
  \A o \in Ops : "recovered" \in told[o] => o \in Admitted /\ store[o].boot < boot

\* A receipt is never forgotten or replaced by another operation's; only the
\* phase of one that is being dispatched changes.
ReceiptsAreKept ==
  [][\A o \in Admitted :
       /\ o \in Admitted'
       /\ store'[o].boot = store[o].boot /\ store'[o].scope = store[o].scope
       /\ store'[o].phase # store[o].phase =>
            store[o].phase = "dispatching" /\ current = o]_vars

\* A phone that was told a restart was accepted, and goes on asking, hears that
\* the gateway returned, unless other profiles are served.
RecoveryIsHeard ==
  \A o \in Ops : "accepted" \in told[o] ~>
    ("recovered" \in told[o] \/ (o \in Admitted /\ scope # store[o].scope))
-----------------------------------------------------------------------------
(* The inductive invariant behind OneAdmission. *)

\* The operation being handled has its receipt, and has not been called until its
\* call; no operation without a receipt was ever called.
FenceInv ==
  /\ \A o \in Ops : o \notin Admitted => calls[o] = 0
  /\ \A o \in Ops : calls[o] <= 1
  /\ step # "idle" => current \in Admitted
  /\ step = "fenced" => calls[current] = 0

-----------------------------------------------------------------------------
(* The inductive invariant behind RepliesAgree. *)

\* What is on disk agrees with the native call, and what was told with the disk.
ReplyInv ==
  /\ \A o \in Ops \ Admitted : native[o] = {} /\ told[o] = {}
  /\ \A o \in Admitted :
       /\ store[o].phase \in {"accepted", "rejected"} => native[o] = {store[o].phase}
       /\ "accepted" \in told[o] => store[o].phase = "accepted"
       /\ "rejected" \in told[o] => store[o].phase = "rejected"
       /\ "recovered" \in told[o] => store[o].phase # "rejected"
  /\ step # "idle" => /\ store[current].phase = "dispatching"
                      /\ told[current] = {}
  /\ step = "fenced" => native[current] = {}
  /\ step = "called" => native[current] = {phase} /\ phase # "dispatching"
=============================================================================
