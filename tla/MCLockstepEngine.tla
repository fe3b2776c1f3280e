-------------------------- MODULE MCLockstepEngine --------------------------
(* LockstepEngine for TLC: two seats on opposite teams.                    *)
EXTENDS LockstepEngine

CONSTANTS s1, s2

TwoSeats == {s1, s2}
TwoTeams == [s \in TwoSeats |-> IF s = s1 THEN 0 ELSE 1]
=============================================================================
