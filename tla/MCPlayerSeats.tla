--------------------------- MODULE MCPlayerSeats ----------------------------
(* PlayerSeats for TLC: one seat and two connection attempts.              *)
EXTENDS PlayerSeats

CONSTANTS s1, s2, c1, c2, c3

OneSeat == {s1}
OneTeam == [s \in OneSeat |-> 0]
TwoSeats == {s1, s2}
TwoTeams == [s \in TwoSeats |-> IF s = s1 THEN 0 ELSE 1]
TwoConns == {c1, c2}
ThreeConns == {c1, c2, c3}
ForOneSeat == [c \in Conns |-> s1]
OneEach == [c \in TwoConns |-> IF c = c1 THEN s1 ELSE s2]
=============================================================================
