----------------------------- MODULE MCMobaWorld ----------------------------
(* MobaWorld for TLC: a lane with an ancient at each end.                  *)
EXTENDS MobaWorld
CONSTANTS h1, h2, h3, c1, c2, c3, n1, radiant, dire

Cell(x) == <<9, x>>
LaneFloor == {Cell(x) : x \in 1..6}
Row(xs) == {Cell(x) : x \in xs}

Duel == <<h1, h2>>
Trio == <<h1, h2, h3>>
Ring == <<c1, c2, c3>>
OneNeutral == <<n1>>
NoUnits == <<>>
Ancients == <<dire, radiant>>
Sides == [e \in Heroes \cup {radiant, dire} |-> IF e \in {h2, dire} THEN 1 ELSE 0]
AncientCells == [e \in {radiant, dire} |-> IF e = radiant THEN Cell(1) ELSE Cell(6)]
Camps == [e \in Heroes \cup {n1} |->
            IF e = n1 THEN Row({3, 4}) ELSE IF e = h2 THEN Row({3, 4, 5}) ELSE Row({2, 3, 4})]
Heads == [t \in {0, 1} |-> IF t = 0 THEN Row({2, 3}) ELSE Row({5, 4})]
OneEach == <<0, 1>>
=============================================================================
