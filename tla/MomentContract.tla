--------------------------- MODULE MomentContract ---------------------------
(***************************************************************************)
(* What the chain from a board's events to the phone promises of one      *)
(* source event, whoever watches, crashes or pairs in between.  An event  *)
(* is unread until the tail passes it; the tail makes it a pending        *)
(* delivery or skips it, and a delivery leaves "pending" because the      *)
(* phone took it, because a newer event of its card replaced it, or       *)
(* because nobody wants it any more.  "owed" is what somebody wants.      *)
(***************************************************************************)
EXTENDS Naturals
CONSTANT Events \* the source events, numbered in the order they happen
VARIABLES owed, \* the events that somebody asked for and still wants
          state, \* per event: unread, skipped, pending, acked, coalesced, dropped
          same \* per event: the events of its card
States == {"unread", "skipped", "pending", "acked", "coalesced", "dropped"}

Init == owed = {} /\ state = [n \in Events |-> "unread"]

Becomes(n, from, to) == state[n] = from /\ state'[n] = to
Replaced(n) == \E m \in same[n] : m > n /\ state[m] = "unread" /\ state'[m] \in {"pending", "coalesced"}

\* The tail passes events: an owed one becomes a delivery, and the newest of a
\* card replaces the older ones.  What nobody wants may be dropped.
Moved(n) == \/ state'[n] = state[n]
            \/ Becomes(n, "unread", "pending")
            \/ Becomes(n, "pending", "acked")
            \/ state[n] \in {"unread", "pending"} /\ state'[n] = "coalesced" /\ Replaced(n)
            \/ n \notin owed' /\ (Becomes(n, "unread", "skipped") \/ Becomes(n, "pending", "dropped"))

\* Only a new pairing makes what was taken pending again, and nothing else moves.
Reopened(n) == state'[n] = state[n] \/ Becomes(n, "acked", "pending")

Next == /\ owed' \ owed \subseteq {n \in Events : state'[n] = "unread"}
        /\ (\A n \in Events : Moved(n)) \/ (\A n \in Events : Reopened(n))
Spec == Init /\ [][Next]_<<owed, state>>
=============================================================================
