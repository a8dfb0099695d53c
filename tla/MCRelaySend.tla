---------------------------- MODULE MCRelaySend ----------------------------
(* Two phones; r1 belongs to the first. *)
EXTENDS RelaySend

CONSTANTS p1, p2, r1, r2

TwoRequests == {r1, r2}
OneRequest == {r1}
OwnerOfTwo == [r \in TwoRequests |-> IF r = r1 THEN p1 ELSE p2]
OwnerOfOne == [r \in OneRequest |-> p1]
=============================================================================
