--------------------------- MODULE MCAppPresence ---------------------------
(* The instance that is model-checked. *)
EXTENDS AppPresence
CONSTANTS s1, s2
Setup(host, keys, ids, dying, moving, failing) ==
  [host |-> host, keys |-> keys, ids |-> ids, deaths |-> dying, moves |-> moving, fails |-> failing]
\* Workers fail, hang and die before a phone comes.
Boot == Setup("hermes", {NoKey}, 0, 2, 0, 1)
\* A worker dies under a phone; pulls and receipts fail.
Death == Setup("hermes", {NoKey}, 1, 1, 0, 1)
\* Phones come and go while pulls are under way.
Crowd == Setup("hermes", {NoKey}, 2, 0, 0, 0)
\* Phones vanish and return; the worker dies in their grace.
Grace == Setup("openclaw", {s1, s2, NoKey}, 2, 1, 0, 0)
\* A wearer goes from session to session.
Wander == Setup("openclaw", {s1, s2}, 2, 0, 1, 0)
\* Three phones, one of which changes its session.
Three == Setup("openclaw", {s1}, 3, 0, 1, 0)
AllSetups == {Boot, Death, Crowd, Grace, Wander, Three}
=============================================================================
