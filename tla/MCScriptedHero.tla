---------------------------- MODULE MCScriptedHero ----------------------------
(* ScriptedHero for TLC: a lane with a tower, and a room with a gap.       *)
EXTENDS ScriptedHero, TLC

OneRow == <<1>>

\* The lane: the tower 1 guards the way east to the ancient 2.
LaneTowers == 1 :> <<5, 11>> @@ 2 :> <<5, 14>>
LaneSpawn == <<5, 5>>
LaneFountain == {<<5, 5>>, <<4, 5>>}
LaneWay == << <<5 * Scale + 1, 7 * Scale + 2>>, <<6 * Scale + 2, 12 * Scale + 1>> >>
LaneWaves == {{}, {<<3, 9>>, <<5, 10>>, <<7, 9>>}}
LaneLeaps == {<<5, 9>>}
LaneRole == 1 :> "assassin"

\* The gap: the way to the ancient 3 leads between the towers 1 and 2, as it does
\* between two of the radiant's at (102, 21) and (104, 23).
GapTowers == 1 :> <<6, 7>> @@ 2 :> <<8, 9>> @@ 3 :> <<5, 10>>
GapSpawn == <<7, 5>>
GapFountain == {<<7, 5>>}
GapWay == << <<6 * Scale, 9 * Scale>> >>
GapWaves == {{}}
GapRole == 1 :> "burst"
=============================================================================
