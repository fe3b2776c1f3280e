-------------------------- MODULE ScriptedHeroProofs --------------------------
(* Proofs about ScriptedHero: what a seat remembers of the towers, and that    *)
(* its heroes do not walk into a tower's range by themselves, on any map.      *)
EXTENDS ScriptedHero, SequenceTheorems, WellFoundedInduction, TLAPS

-----------------------------------------------------------------------------
(* Numbers.                                                                    *)

\* Every set of naturals with an element has a least one.
LEMMA LeastNatural ==
  ASSUME NEW T \in SUBSET Nat, T # {}
  PROVE  \E n \in T : \A m \in T : n <= m
<1> DEFINE R == {ss \in Nat \X Nat : ss[1] < ss[2]}
<1>1. IsWellFoundedOn(R, Nat)
  <2>1. R = OpToRel(<, Nat)
    BY DEF OpToRel
  <2> QED BY <2>1, NatLessThanWellFounded
<1>2. PICK n \in T : \A m \in T : ~ (<<m, n>> \in R)
  <2> HIDE DEF R
  <2> QED BY <1>1, WFMin
<1>3. \A m \in T : n <= m
  <2> TAKE m \in T
  <2>1. <<m, n>> \in Nat \X Nat
    OBVIOUS
  <2>2. <<m, n>>[1] = m /\ <<m, n>>[2] = n
    OBVIOUS
  <2>3. ~(<<m, n>>[1] < <<m, n>>[2])
    BY <1>2, <2>1
  <2> QED BY <2>2, <2>3
<1> QED BY <1>3

\* Less than a cell's way leads to the same cell or to the next one.
LEMMA OneCellFurther ==
  ASSUME NEW s \in Nat \ {0}, NEW a \in Int, NEW d \in -s..s
  PROVE  /\ (a + d) \div s \in Int /\ a \div s \in Int
         /\ (a + d) \div s <= (a \div s) + 1
         /\ (a \div s) - 1 <= (a + d) \div s
OBVIOUS

-----------------------------------------------------------------------------
(* What a row sees, remembers and wants.                                       *)

\* TowerCell as cells with coordinates.
LEMMA TowerCells ==
  ASSUME NEW t \in Towers
  PROVE  TowerCell[t] \in Int \X Int
BY PlaceAssumption, HeroAssumption DEF Cells

LEMMA DistType ==
  ASSUME NEW c \in Int \X Int, NEW d \in Int \X Int
  PROVE  Dist(c, d) \in Nat
BY DEF Dist, AbsVal, Larger

\* A nearest tower exists whenever a tower is thought to live.
LEMMA NearestExists ==
  ASSUME NEW c \in Int \X Int, NEW dead, EnemyTowers \ dead # {}
  PROVE  \E t \in NearestTower(c, dead) :
           \A u \in EnemyTowers \ dead : Dist(TowerCell[t], c) <= Dist(TowerCell[u], c)
<1> DEFINE live == EnemyTowers \ dead
           D(t) == Dist(TowerCell[t], c)
<1>1. \A t \in live : t \in Towers /\ t \in Nat /\ D(t) \in Nat
  BY PlaceAssumption, TowerCells, DistType
<1>2. PICK n \in {D(t) : t \in live} : \A m \in {D(t) : t \in live} : n <= m
  <2> DEFINE S == {D(t) : t \in live}
  <2>1. S \in SUBSET Nat /\ S # {}
    BY <1>1
  <2> HIDE DEF S
  <2> QED BY <2>1, LeastNatural DEF S
<1> DEFINE closest == {t \in live : D(t) = n}
<1>3. PICK t \in closest : \A u \in closest : t <= u
  <2>1. closest \in SUBSET Nat /\ closest # {}
    BY <1>1, <1>2
  <2> HIDE DEF closest
  <2> QED BY <2>1, LeastNatural
<1>4. \A u \in live : D(t) <= D(u)
  BY <1>2, <1>3
<1>5. \A u \in live \ {t} : D(t) < D(u) \/ (D(t) = D(u) /\ t < u)
  <2> TAKE u \in live \ {t}
  <2>1. CASE D(u) = n
    <3>1. t <= u /\ t # u
      BY <2>1, <1>3
    <3>2. t < u
      BY <3>1, <1>1, <1>3
    <3> QED BY <3>2, <2>1, <1>3
  <2>2. CASE D(u) # n
    <3>1. D(t) = n /\ D(t) <= D(u) /\ D(t) \in Nat /\ D(u) \in Nat
      BY <1>1, <1>3, <1>4
    <3> QED BY <3>1, <2>2
  <2> QED BY <2>1, <2>2
<1>6. t \in NearestTower(c, dead)
  BY <1>3, <1>5 DEF NearestTower
<1> QED BY <1>4, <1>6

\* What a row takes for gone is gone.
LEMMA SeenGoneIsGone == ASSUME NEW c PROVE SeenGone(c) \cap standing = {}
BY DEF SeenGone

\* Off a detour a row takes the step it wants.
LEMMA SteerStraight ==
  ASSUME NEW st, NEW c, NEW mode, NEW wp, NEW want
  PROVE  /\ Steer(st, c, mode, wp, want).state.mode = mode
         /\ ~Steer(st, c, mode, wp, want).wish.rotated =>
              Steer(st, c, mode, wp, want).wish.step = want
BY DEF Steer

\* A row that is out of every tower's range and sees none engaged either rests or
\* has no standing tower within its standoff.
LEMMA AnswerKeepsOut ==
  ASSUME NEW st, NEW c \in Int \X Int, NEW health, NEW dead,
         standing \subseteq Towers, dead \cap standing = {}, SeenGone(c) \subseteq dead, ~UnderFire(c),
         \A t \in EnemyTowers : ~Engaged(c, t),
         Answer(st, c, health, dead).state.mode = PUSH,
         ~Answer(st, c, health, dead).wish.rotated
  PROVE  \/ Answer(st, c, health, dead).wish.step = Stay
         \/ \A t \in EnemyTowers \cap standing : Dist(TowerCell[t], c) > SiegeStandoff
<1> DEFINE mode == NextMode(st, health)
           wp == NextWaypoint(st, c, mode)
           want == IF Holds(c, mode, dead) THEN Stay ELSE StepToward(c, Goal(c, mode, wp, dead))
<1>1. Answer(st, c, health, dead) = Steer(st, c, mode, wp, want)
  BY DEF Answer
<1>2. mode = PUSH /\ Answer(st, c, health, dead).wish.step = want
  <2> HIDE DEF mode, wp, want
  <2> QED BY <1>1, SteerStraight
<1> SUFFICES ASSUME NEW u \in EnemyTowers \cap standing, ~(Dist(TowerCell[u], c) > SiegeStandoff)
             PROVE  want = Stay
  BY <1>2
<1>3. u \in EnemyTowers \ dead
  OBVIOUS
<1>4. PICK t \in NearestTower(c, dead) :
        \A v \in EnemyTowers \ dead : Dist(TowerCell[t], c) <= Dist(TowerCell[v], c)
  BY <1>3, NearestExists
<1>5. /\ t \in EnemyTowers \ dead /\ t \in Towers /\ u \in Towers
      /\ Dist(TowerCell[t], c) \in Nat /\ Dist(TowerCell[u], c) \in Nat
      /\ TowerVision \in Nat /\ Vis \in Nat /\ TowerVision <= Vis
  BY <1>4, PlaceAssumption, HeroAssumption, TowerCells, DistType DEF NearestTower
<1>6. Dist(TowerCell[t], c) <= TowerVision + 1
  <2>1. Dist(TowerCell[t], c) <= Dist(TowerCell[u], c)
    BY <1>3, <1>4
  <2> QED BY <2>1, <1>5 DEF SiegeStandoff
<1>7. ~(Dist(TowerCell[t], c) <= TowerVision)
  <2> SUFFICES ASSUME Dist(TowerCell[t], c) <= TowerVision PROVE FALSE
    OBVIOUS
  <2>1. t \notin SeenGone(c)
    BY <1>5
  <2>2. Dist(TowerCell[t], c) <= Vis
    BY <1>5
  <2>3. TowerCell[t] \in {TowerCell[v] : v \in standing}
    BY <2>1, <2>2, <1>5 DEF SeenGone
  <2>4. t \in standing
    BY <2>3, <1>5, PlaceAssumption
  <2>5. Dist(c, TowerCell[t]) = Dist(TowerCell[t], c)
    BY <1>5, TowerCells DEF Dist, AbsVal, Larger
  <2> QED BY <2>4, <2>5, <1>5 DEF UnderFire
<1>8. Dist(TowerCell[t], c) = SiegeStandoff
  BY <1>5, <1>6, <1>7 DEF SiegeStandoff
<1>9. Holds(c, mode, dead)
  <2>1. ~Engaged(c, t)
    BY <1>5
  <2> QED BY <1>2, <1>4, <1>8, <2>1 DEF Holds
<1> QED BY <1>9

-----------------------------------------------------------------------------
(* The steps a row may take.                                                   *)

LEMMA StepsAreMoves ==
  /\ \A i \in 1..8 : Steps[i] \in Moves
  /\ \A m \in Moves : m \in {-1, 0, 1} \X {-1, 0, 1}
BY DEF Steps, Moves, Stay

\* Within one cell per axis: also a rotated step is.
Unit == {-1, 0, 1} \X {-1, 0, 1}

LEMMA StepTowardUnit ==
  ASSUME NEW c, NEW goal
  PROVE  StepToward(c, goal) \in Unit
<1>1. Stay \in Unit
  BY DEF Stay, Unit
<1>2. \A i \in 1..8 : Steps[i] \in Unit
  BY StepsAreMoves DEF Unit
<1>3. <<Sign(goal[1] - c[1]), Sign(goal[2] - c[2])>> \in Unit
  BY DEF Sign, Unit
<1> DEFINE best == {i \in Downhill(c, goal) :
                      \/ ~Reached(goal, c)
                      \/ Cost(goal, Shift(c, Steps[i])) < Cost(goal, c)}
<1>4. best \subseteq 1..8
  BY DEF Downhill
<1>5. best # {} => (CHOOSE i \in best : TRUE) \in 1..8
  <2> HIDE DEF best
  <2> QED BY <1>4
<1>6. StepToward(c, goal) = IF Dist(c, goal) <= 1 THEN Stay
                            ELSE IF best # {} THEN Steps[CHOOSE i \in best : TRUE]
                            ELSE <<Sign(goal[1] - c[1]), Sign(goal[2] - c[2])>>
  BY DEF StepToward
<1> HIDE DEF best
<1> QED BY <1>1, <1>2, <1>3, <1>5, <1>6

LEMMA UnitIsMoves == Unit = Moves
BY DEF Unit, Moves, Steps, Stay

\* During a detour stuck_ticks grows only as detour_left falls.
CountersBounded(st) == st.stuck + st.left <= Larger(StuckTicks, DetourTicks)

LEMMA SteerType ==
  ASSUME NEW st \in HeroState, CountersBounded(st), NEW c \in Cells,
         NEW mode \in {PUSH, RETREAT}, NEW wp \in 0..(Len(Lane) + 1), NEW want \in Unit
  PROVE  /\ Steer(st, c, mode, wp, want).state \in HeroState
         /\ CountersBounded(Steer(st, c, mode, wp, want).state)
         /\ Steer(st, c, mode, wp, want).wish \in [step : Unit, rotated : BOOLEAN]
<1> DEFINE left == IF Displaced(st, c) THEN 0 ELSE st.left
           stuck == StuckFor(st, c, want)
           starts == left = 0 /\ stuck >= StuckTicks
           side == IF starts THEN -st.side ELSE st.side
           step == IF left > 0 \/ starts THEN Rotate90(want, side) ELSE want
           top == Larger(StuckTicks, DetourTicks)
           newStuck == IF starts THEN 0 ELSE stuck
           newLeft == IF starts THEN DetourTicks ELSE Larger(left - 1, 0)
<1>1. /\ st.stuck \in Nat /\ st.left \in 0..DetourTicks /\ st.side \in {1, -1}
      /\ StuckTicks \in Nat \ {0} /\ DetourTicks \in Nat \ {0}
      /\ top \in Nat /\ StuckTicks <= top /\ DetourTicks <= top
      /\ st.stuck + st.left <= top
  <2>1. StuckTicks \in Nat \ {0} /\ DetourTicks \in Nat \ {0}
    BY HeroAssumption
  <2>2. top \in Nat /\ StuckTicks <= top /\ DetourTicks <= top
    BY <2>1 DEF Larger
  <2>3. st.stuck \in 0..top /\ st.left \in 0..DetourTicks /\ st.side \in {1, -1}
    BY DEF HeroState
  <2>4. st.stuck + st.left <= top
    BY DEF CountersBounded
  <2> HIDE DEF top
  <2> QED BY <2>1, <2>2, <2>3, <2>4
<1>2. left \in 0..DetourTicks /\ left <= st.left
  BY <1>1
<1>3. stuck \in Nat /\ stuck <= st.stuck + 1
  BY <1>1 DEF StuckFor
<1>4. newLeft \in 0..DetourTicks /\ newStuck \in Nat
  BY <1>1, <1>2, <1>3 DEF Larger
<1>5. newStuck + newLeft <= top
  <2>1. CASE starts
    BY <2>1, <1>1
  <2>2. CASE ~starts /\ left = 0
    <3>1. stuck < StuckTicks /\ newLeft = 0 /\ newStuck = stuck
      BY <2>2, <1>1, <1>3 DEF Larger
    <3> QED BY <3>1, <1>1, <1>3
  <2>3. CASE ~starts /\ left # 0
    <3>1. newLeft = left - 1 /\ newStuck = stuck
      BY <2>3, <1>1, <1>2 DEF Larger
    <3> QED BY <3>1, <1>1, <1>2, <1>3
  <2> QED BY <2>1, <2>2, <2>3
<1>6. newStuck \in 0..top
  BY <1>1, <1>4, <1>5
<1>7. side \in {1, -1}
  BY <1>1
<1>8. step \in Unit
  BY <1>7 DEF Rotate90, Unit
<1>9. Steer(st, c, mode, wp, want) =
        [state |-> [mode |-> mode, wp |-> wp, last |-> c, tried |-> step # Stay,
                    stuck |-> newStuck, left |-> newLeft, side |-> side],
         wish |-> [step |-> step, rotated |-> left > 0 \/ starts]]
  BY DEF Steer
<1>10. (step # Stay) \in BOOLEAN /\ (left > 0 \/ starts) \in BOOLEAN
  OBVIOUS
<1> HIDE DEF left, stuck, starts, side, step, newStuck, newLeft, top
<1>11. [mode |-> mode, wp |-> wp, last |-> c, tried |-> step # Stay,
        stuck |-> newStuck, left |-> newLeft, side |-> side] \in HeroState
  BY <1>4, <1>6, <1>7, <1>10 DEF HeroState, top
<1>12. [step |-> step, rotated |-> left > 0 \/ starts] \in [step : Unit, rotated : BOOLEAN]
  BY <1>8, <1>10
<1> QED BY <1>5, <1>9, <1>11, <1>12 DEF CountersBounded, top

-----------------------------------------------------------------------------
(* Waypoints.                                                                  *)

LEMMA LaneLength == Len(Lane) \in Nat /\ Len(Lane) > 0 /\ DOMAIN Lane = 1..Len(Lane)
<1>1. Lane \in Seq(UnitCells) /\ Lane # <<>>
  BY PlaceAssumption
<1> QED BY <1>1, EmptySeq, LenProperties

LEMMA WaypointDistType ==
  ASSUME NEW c \in Int \X Int, NEW i \in DOMAIN Lane
  PROVE  i \in Nat /\ WaypointDist(c, i) \in Nat
<1>1. i \in Nat
  BY LaneLength
<1>2. Lane[i] \in UnitCells
  BY PlaceAssumption, ElementOfSeq, LaneLength
<1>3. Lane[i] \in Int \X Int
  BY <1>2, HeroAssumption DEF UnitCells
<1>4. Scale \in Nat
  BY HeroAssumption
<1>5. c[1] * Scale \in Int /\ c[2] * Scale \in Int
  BY <1>4
<1>6. Corner(c) \in Int \X Int
  BY <1>5 DEF Corner
<1> QED BY <1>1, <1>3, <1>6, DistType DEF WaypointDist

LEMMA NearestWaypointType ==
  ASSUME NEW c \in Int \X Int
  PROVE  NearestWaypoint(c) \in DOMAIN Lane
<1> DEFINE D(i) == WaypointDist(c, i)
           Nearest(i) == \A j \in DOMAIN Lane : D(i) < D(j) \/ (D(i) = D(j) /\ i <= j)
<1>1. \A i \in DOMAIN Lane : i \in Nat /\ D(i) \in Nat
  BY WaypointDistType
<1>2. PICK n \in {D(i) : i \in DOMAIN Lane} : \A m \in {D(i) : i \in DOMAIN Lane} : n <= m
  <2> DEFINE S == {D(i) : i \in DOMAIN Lane}
  <2>1. S \in SUBSET Nat /\ S # {}
    BY <1>1, LaneLength
  <2> HIDE DEF S
  <2> QED BY <2>1, LeastNatural DEF S
<1> DEFINE closest == {i \in DOMAIN Lane : D(i) = n}
<1>3. PICK i \in closest : \A j \in closest : i <= j
  <2>1. closest \in SUBSET Nat /\ closest # {}
    BY <1>1, <1>2
  <2> HIDE DEF closest
  <2> QED BY <2>1, LeastNatural
<1>4. Nearest(i)
  <2> TAKE j \in DOMAIN Lane
  <2>1. D(i) = n /\ n <= D(j) /\ D(j) \in Nat /\ n \in Nat
    BY <1>1, <1>2, <1>3
  <2>2. D(j) = n => i <= j
    BY <1>3
  <2> HIDE DEF D
  <2> QED BY <2>1, <2>2
<1>5. i \in DOMAIN Lane
  BY <1>3
<1>6. NearestWaypoint(c) = CHOOSE k \in DOMAIN Lane : Nearest(k)
  BY DEF NearestWaypoint
<1> HIDE DEF Nearest
<1> QED BY <1>4, <1>5, <1>6

LEMMA WaypointAfterType ==
  ASSUME NEW c \in Int \X Int, NEW i \in 1..(Len(Lane) + 1)
  PROVE  WaypointAfter(c, i) \in i..(Len(Lane) + 1)
<1> DEFINE Near(j) == WaypointDist(c, j) <= WaypointReached
           Far(j) == WaypointDist(c, j) > WaypointReached
           Next(k) == (\A j \in i..(k - 1) : Near(j)) /\ (k <= Len(Lane) => Far(k))
<1>0. Len(Lane) \in Nat
  BY LaneLength
<1> DEFINE ahead == {k \in i..(Len(Lane) + 1) : k <= Len(Lane) => ~Near(k)}
<1>1. PICK k \in ahead : \A m \in ahead : k <= m
  <2>1. ahead \in SUBSET Nat /\ Len(Lane) + 1 \in ahead
    BY <1>0
  <2> HIDE DEF ahead
  <2> QED BY <2>1, LeastNatural
<1>2. k \in i..(Len(Lane) + 1) /\ Next(k)
  <2>1. \A j \in i..(k - 1) : Near(j)
    BY <1>0, <1>1
  <2>2. k <= Len(Lane) => Far(k)
    <3> SUFFICES ASSUME k <= Len(Lane) PROVE Far(k)
      OBVIOUS
    <3>1. ~Near(k) /\ k \in DOMAIN Lane
      BY <1>0, <1>1, LaneLength
    <3>2. WaypointDist(c, k) \in Nat /\ WaypointReached \in Nat
      BY <3>1, WaypointDistType, HeroAssumption
    <3> QED BY <3>1, <3>2
  <2> QED BY <2>1, <2>2, <1>1
<1>3. WaypointAfter(c, i) = CHOOSE n \in i..(Len(Lane) + 1) : Next(n)
  BY DEF WaypointAfter
<1> HIDE DEF Next
<1> QED BY <1>2, <1>3

LEMMA CellsAreInts == Cells \subseteq Int \X Int
BY HeroAssumption DEF Cells

LEMMA NextWaypointType ==
  ASSUME NEW st \in HeroState, NEW c \in Cells, NEW mode \in {PUSH, RETREAT}
  PROVE  /\ NextWaypoint(st, c, mode) \in 0..(Len(Lane) + 1)
         /\ mode # RETREAT => NextWaypoint(st, c, mode) \in 1..(Len(Lane) + 1)
<1> DEFINE kept == IF Displaced(st, c) \/ (st.mode = RETREAT /\ mode = PUSH)
                     THEN NoWaypoint ELSE st.wp
           from == IF kept = NoWaypoint THEN NearestWaypoint(c) ELSE kept
<1>1. Len(Lane) \in Nat /\ DOMAIN Lane = 1..Len(Lane) /\ c \in Int \X Int
  BY LaneLength, CellsAreInts
<1>2. kept \in 0..(Len(Lane) + 1)
  BY <1>1 DEF NoWaypoint, HeroState
<1>3. from \in 1..(Len(Lane) + 1)
  <2>1. NearestWaypoint(c) \in 1..Len(Lane)
    BY <1>1, NearestWaypointType
  <2> HIDE DEF kept
  <2> QED BY <2>1, <1>1, <1>2 DEF NoWaypoint
<1>4. NextWaypoint(st, c, mode) = IF mode = RETREAT THEN kept ELSE WaypointAfter(c, from)
  BY DEF NextWaypoint
<1> HIDE DEF kept, from
<1>5. WaypointAfter(c, from) \in from..(Len(Lane) + 1)
  BY <1>1, <1>3, WaypointAfterType
<1> QED BY <1>1, <1>2, <1>3, <1>4, <1>5

LEMMA AnswerType ==
  ASSUME NEW st \in HeroState, CountersBounded(st), NEW c \in Cells, NEW health, NEW dead
  PROVE  /\ Answer(st, c, health, dead).state \in HeroState
         /\ CountersBounded(Answer(st, c, health, dead).state)
         /\ Answer(st, c, health, dead).wish \in [step : Unit, rotated : BOOLEAN]
<1> DEFINE mode == NextMode(st, health)
           wp == NextWaypoint(st, c, mode)
           want == IF Holds(c, mode, dead) THEN Stay ELSE StepToward(c, Goal(c, mode, wp, dead))
<1>1. Answer(st, c, health, dead) = Steer(st, c, mode, wp, want)
  BY DEF Answer
<1>2. mode \in {PUSH, RETREAT}
  BY DEF NextMode, HeroState
<1>3. wp \in 0..(Len(Lane) + 1)
  <2> HIDE DEF mode
  <2> QED BY <1>2, NextWaypointType
<1>4. want \in Unit
  <2>1. Stay \in Unit
    BY DEF Stay, Unit
  <2> QED BY <2>1, StepTowardUnit
<1> HIDE DEF mode, wp, want
<1> QED BY <1>1, <1>2, <1>3, <1>4, SteerType

-----------------------------------------------------------------------------
(* A turn's way.                                                               *)

LEMMA ReachType ==
  ASSUME NEW step \in Unit, NEW modifier \in Modifiers
  PROVE  /\ Reach(step, modifier) \in Nat
         /\ modifier # "double" => Reach(step, modifier) \in 0..Scale
         /\ Reach(step, "double") = Reach(step, "one") + Reach(step, "one")
<1> DEFINE diagonal == step[1] # 0 /\ step[2] # 0
           usual == IF diagonal THEN Diagonal ELSE Straight
           slowed == IF diagonal THEN SlowDiagonal ELSE SlowStraight
<1>1. /\ Scale \in Nat
      /\ {Straight, Diagonal, SlowStraight, SlowDiagonal} \subseteq 0..Scale
  BY HeroAssumption
<1>2. usual \in 0..Scale /\ slowed \in 0..Scale
  BY <1>1
<1>3. Reach(step, modifier) = IF modifier = "half" THEN slowed
                              ELSE IF modifier = "double" THEN usual + usual ELSE usual
  BY DEF Reach
<1>4. Reach(step, "double") = usual + usual /\ Reach(step, "one") = usual
  BY DEF Reach
<1> HIDE DEF usual, slowed
<1>5. usual \in Nat /\ slowed \in Nat /\ usual + usual \in Nat
  BY <1>1, <1>2
<1> QED BY <1>2, <1>3, <1>4, <1>5

LEMMA WayType ==
  ASSUME NEW step \in Unit, NEW modifier \in Modifiers, modifier # "double"
  PROVE  Way(step, modifier) \in (-Scale..Scale) \X (-Scale..Scale)
<1> DEFINE reach == Reach(step, modifier)
<1>1. reach \in 0..Scale /\ Scale \in Nat
  BY ReachType, HeroAssumption
<1>2. step[1] \in {-1, 0, 1} /\ step[2] \in {-1, 0, 1}
  BY DEF Unit
<1>3. Way(step, modifier) = <<reach * step[1], reach * step[2]>>
  BY DEF Way
<1> HIDE DEF reach
<1>4. \A e \in {-1, 0, 1} : reach * e \in -Scale..Scale
  <2>1. reach * 0 = 0 /\ reach * 1 = reach /\ reach * (-1) = -reach
    BY <1>1
  <2> QED BY <1>1, <2>1
<1> QED BY <1>2, <1>3, <1>4

\* A step at the usual gait leads to the same cell or to a neighbouring one.
LEMMA NextCell ==
  ASSUME NEW p \in Int \X Int, NEW step \in Unit, NEW modifier \in Modifiers, modifier # "double"
  PROVE  LET d == Shift(p, Way(step, modifier))
         IN /\ d \in Int \X Int
            /\ CellOf(p) \in Int \X Int /\ CellOf(d) \in Int \X Int
            /\ \A k \in {1, 2} : CellOf(d)[k] \in (CellOf(p)[k] - 1)..(CellOf(p)[k] + 1)
<1> DEFINE w == Way(step, modifier)
<1>1. w \in (-Scale..Scale) \X (-Scale..Scale) /\ Scale \in Nat \ {0}
  BY WayType, HeroAssumption
<1> HIDE DEF w
<1>2. w[1] \in -Scale..Scale /\ w[2] \in -Scale..Scale /\ p[1] \in Int /\ p[2] \in Int
  BY <1>1
<1>3. /\ (p[1] + w[1]) \div Scale \in Int /\ p[1] \div Scale \in Int
      /\ (p[1] + w[1]) \div Scale <= (p[1] \div Scale) + 1
      /\ (p[1] \div Scale) - 1 <= (p[1] + w[1]) \div Scale
  BY <1>1, <1>2, OneCellFurther
<1>4. /\ (p[2] + w[2]) \div Scale \in Int /\ p[2] \div Scale \in Int
      /\ (p[2] + w[2]) \div Scale <= (p[2] \div Scale) + 1
      /\ (p[2] \div Scale) - 1 <= (p[2] + w[2]) \div Scale
  BY <1>1, <1>2, OneCellFurther
<1>5. Shift(p, w) = <<p[1] + w[1], p[2] + w[2]>>
  BY DEF Shift
<1>6. /\ CellOf(p) = <<p[1] \div Scale, p[2] \div Scale>>
      /\ CellOf(Shift(p, w)) = <<(p[1] + w[1]) \div Scale, (p[2] + w[2]) \div Scale>>
  BY <1>5 DEF CellOf
<1>7. Shift(p, w) \in Int \X Int
  BY <1>2, <1>5, <1>1
<1> QED BY <1>3, <1>4, <1>6, <1>7 DEF w

\* A hasted step is two at the usual gait.
LEMMA HasteIsTwice ==
  ASSUME NEW p \in Int \X Int, NEW step \in Unit
  PROVE  Shift(p, Way(step, "double")) = Shift(Shift(p, Way(step, "one")), Way(step, "one"))
<1> DEFINE one == Reach(step, "one")
           two == Reach(step, "double")
<1>1. one \in Nat /\ two = one + one
  BY ReachType DEF Modifiers
<1>2. /\ Way(step, "one") = <<one * step[1], one * step[2]>>
      /\ Way(step, "double") = <<two * step[1], two * step[2]>>
  BY DEF Way
<1> HIDE DEF one, two
<1>3. \A e \in {-1, 0, 1} : two * e = one * e + one * e /\ one * e \in Int
  <2>1. /\ one * 0 = 0 /\ one * 1 = one /\ one * (-1) = -one
        /\ two * 0 = 0 /\ two * 1 = two /\ two * (-1) = -two
    BY <1>1
  <2> QED BY <1>1, <2>1
<1>4. step[1] \in {-1, 0, 1} /\ step[2] \in {-1, 0, 1} /\ p[1] \in Int /\ p[2] \in Int
  BY DEF Unit
<1>5. \A m \in {1, 2} : /\ one * step[m] \in Int
                        /\ two * step[m] = one * step[m] + one * step[m]
  BY <1>3, <1>4
<1> DEFINE a == one * step[1]
           b == one * step[2]
<1>6. /\ Shift(p, Way(step, "double")) = <<p[1] + (a + a), p[2] + (b + b)>>
      /\ Shift(Shift(p, Way(step, "one")), Way(step, "one")) = <<(p[1] + a) + a, (p[2] + b) + b>>
  BY <1>2, <1>5 DEF Shift
<1>7. a \in Int /\ b \in Int
  BY <1>5
<1> HIDE DEF a, b
<1>8. p[1] + (a + a) = (p[1] + a) + a /\ p[2] + (b + b) = (p[2] + b) + b
  BY <1>4, <1>7
<1> QED BY <1>6, <1>8

\* At any gait a step leads at most two cells away.
LEMMA NextCells ==
  ASSUME NEW p \in Int \X Int, NEW step \in Unit, NEW modifier \in Modifiers
  PROVE  LET d == Shift(p, Way(step, modifier))
         IN /\ d \in Int \X Int
            /\ CellOf(p) \in Int \X Int /\ CellOf(d) \in Int \X Int
            /\ \A k \in {1, 2} : CellOf(d)[k] \in (CellOf(p)[k] - 2)..(CellOf(p)[k] + 2)
<1> DEFINE d == Shift(p, Way(step, modifier))
<1>1. CASE modifier # "double"
  <2>1. /\ d \in Int \X Int /\ CellOf(p) \in Int \X Int /\ CellOf(d) \in Int \X Int
        /\ \A k \in {1, 2} : CellOf(d)[k] \in (CellOf(p)[k] - 1)..(CellOf(p)[k] + 1)
    BY <1>1, NextCell
  <2> HIDE DEF d
  <2>2. \A k \in {1, 2} : CellOf(p)[k] \in Int
    BY <2>1
  <2>3. \A m, n \in Int : n \in (m - 1)..(m + 1) => n \in (m - 2)..(m + 2)
    OBVIOUS
  <2>4. \A k \in {1, 2} : CellOf(d)[k] \in Int
    BY <2>1
  <2> QED BY <2>1, <2>2, <2>3, <2>4 DEF d
<1>2. CASE modifier = "double"
  <2> DEFINE q == Shift(p, Way(step, "one"))
  <2>1. /\ q \in Int \X Int /\ CellOf(p) \in Int \X Int /\ CellOf(q) \in Int \X Int
        /\ \A k \in {1, 2} : CellOf(q)[k] \in (CellOf(p)[k] - 1)..(CellOf(p)[k] + 1)
    BY NextCell DEF Modifiers
  <2>2. d = Shift(q, Way(step, "one"))
    BY <1>2, HasteIsTwice
  <2> HIDE DEF q, d
  <2>3. /\ d \in Int \X Int /\ CellOf(d) \in Int \X Int
        /\ \A k \in {1, 2} : CellOf(d)[k] \in (CellOf(q)[k] - 1)..(CellOf(q)[k] + 1)
    BY <2>1, <2>2, NextCell DEF Modifiers
  <2>4. \A l, m, n \in Int : m \in (l - 1)..(l + 1) /\ n \in (m - 1)..(m + 1) => n \in (l - 2)..(l + 2)
    OBVIOUS
  <2>5. \A k \in {1, 2} : CellOf(p)[k] \in Int /\ CellOf(q)[k] \in Int /\ CellOf(d)[k] \in Int
    BY <2>1, <2>3
  <2> QED BY <2>1, <2>3, <2>4, <2>5 DEF d
<1> QED BY <1>1, <1>2

\* From an open cell a step stays on the map.
LEMMA StaysOnMap ==
  ASSUME NEW c \in Cells \ Walls, NEW d \in Int \X Int,
         \A k \in {1, 2} : d[k] \in (c[k] - 2)..(c[k] + 2)
  PROVE  d \in Cells
<1>1. Height \in Nat /\ Width \in Nat
  BY HeroAssumption
<1>2. c \notin Border
  BY PlaceAssumption
<1>3. c[1] \in 0..(Height - 1) /\ c[2] \in 0..(Width - 1)
  BY DEF Cells
<1>4. /\ c[1] \notin {0, 1, Height - 2, Height - 1}
      /\ c[2] \notin {0, 1, Width - 2, Width - 1}
  BY <1>2 DEF Border
<1>5. d[1] \in 0..(Height - 1) /\ d[2] \in 0..(Width - 1)
  BY <1>1, <1>3, <1>4
<1> QED BY <1>5 DEF Cells

LEMMA CornerOf ==
  ASSUME NEW c \in Cells
  PROVE  Corner(c) \in Int \X Int /\ CellOf(Corner(c)) = c
<1>1. \A s \in Nat \ {0}, n \in Int : n * s \in Int /\ (n * s) \div s = n
  OBVIOUS
<1>2. c \in Int \X Int /\ Scale \in Nat \ {0}
  BY CellsAreInts, HeroAssumption
<1>3. c[1] \in Int /\ c[2] \in Int /\ c = <<c[1], c[2]>>
  BY <1>2
<1>4. Corner(c) = <<c[1] * Scale, c[2] * Scale>>
  BY DEF Corner
<1>5. CellOf(Corner(c)) = <<(c[1] * Scale) \div Scale, (c[2] * Scale) \div Scale>>
  BY <1>4 DEF CellOf
<1> QED BY <1>1, <1>2, <1>3, <1>4, <1>5

-----------------------------------------------------------------------------
(* Types.  Inductive with: heroes stand on open cells of the map, and the      *)
(* counters of a detour are bounded together.                                  *)

OnMap == \A h \in Heroes : CellOf(pos[h]) \in Cells \ Walls
Bounded == \A h \in Heroes : CountersBounded(state[h])
TypeInv == HeroTypeOK /\ OnMap /\ Bounded

LEMMA RowsType ==
  /\ Len(Rows) \in Nat /\ Len(Rows) > 0 /\ DOMAIN Rows = 1..Len(Rows)
  /\ \A i \in DOMAIN Rows : Rows[i] \in Heroes
<1>1. Rows \in Seq(Heroes) /\ Len(Rows) > 0
  BY HeroAssumption
<1> QED BY <1>1, LenProperties DEF Heroes

LEMMA TypeInit == HeroInit => TypeInv
<1> SUFFICES ASSUME HeroInit PROVE TypeInv
  OBVIOUS
<1>1. \A h \in Heroes : \E c \in Fountain : pos[h] = Corner(c)
  BY DEF HeroInit
<1>2. pos \in [Heroes -> Int \X Int] /\ OnMap
  <2>1. \A c \in Fountain : c \in Cells \ Walls
    BY PlaceAssumption
  <2>2. pos \in [Heroes -> {Corner(c) : c \in Fountain}]
    BY DEF HeroInit
  <2>3. \A c \in Fountain : Corner(c) \in Int \X Int /\ CellOf(Corner(c)) = c
    BY <2>1, CornerOf
  <2>4. pos \in [Heroes -> Int \X Int]
    BY <2>2, <2>3
  <2> QED BY <1>1, <2>1, <2>3, <2>4 DEF OnMap
<1>3. Len(Lane) \in Nat /\ StuckTicks \in Nat /\ DetourTicks \in Nat /\ MaxMishaps \in Nat
  BY LaneLength, HeroAssumption
<1>4. Larger(StuckTicks, DetourTicks) \in Nat
  BY <1>3 DEF Larger
<1>5. FreshState \in HeroState /\ CountersBounded(FreshState)
  <2>1. FreshState \in HeroState
    BY <1>3, <1>4 DEF FreshState, HeroState, PUSH, RETREAT, NoWaypoint, NoCell
  <2> QED BY <2>1, <1>4 DEF CountersBounded, FreshState
<1>6. state \in [Heroes -> HeroState] /\ Bounded
  BY <1>5 DEF HeroInit, Bounded
<1>7. /\ hp \in [Heroes -> Health] /\ stun \in [Heroes -> Nat] /\ moveTimer \in [Heroes -> Nat]
      /\ moveModifier \in [Heroes -> Modifiers]
      /\ flags \in [Heroes -> [leap : BOOLEAN, haste : BOOLEAN]]
  BY DEF HeroInit, Health, Modifiers
<1>8. turn \in {"decide", "move", "creeps"} \X (DOMAIN Rows)
  BY RowsType DEF HeroInit
<1>9. wish \in [Heroes -> [step : Moves, rotated : BOOLEAN]]
  BY DEF HeroInit, Moves
<1>10. steady \in [Heroes -> 0..StuckTicks]
  BY <1>3 DEF HeroInit
<1>11. standing \subseteq Towers /\ creeps \in Waves /\ mishaps \in 0..MaxMishaps
       /\ deadTowers \subseteq Towers
  BY <1>3, PlaceAssumption DEF HeroInit
<1> QED BY <1>2, <1>6, <1>7, <1>8, <1>9, <1>10, <1>11 DEF TypeInv, HeroTypeOK

LEMMA TypeDecide ==
  ASSUME TypeInv, NEW i \in DOMAIN Rows, Decide(i)
  PROVE  TypeInv'
<1> DEFINE h == Rows[i]
           c == CellOf(pos[h])
           dead == deadTowers \cup SeenGone(c)
           answer == Answer(state[h], c, hp[h], dead)
<1>1. h \in Heroes /\ c \in Cells /\ state[h] \in HeroState /\ CountersBounded(state[h])
  BY RowsType DEF TypeInv, HeroTypeOK, OnMap, Bounded
<1>2. /\ deadTowers' = dead
      /\ state' = [state EXCEPT ![h] = answer.state]
      /\ wish' = [wish EXCEPT ![h] = answer.wish]
      /\ steady' = IF answer.wish.step = wish[h].step THEN steady ELSE [steady EXCEPT ![h] = 0]
      /\ turn' = IF i < Len(Rows) THEN <<"decide", i + 1>> ELSE <<"move", 1>>
      /\ UNCHANGED <<pos, hp, stun, moveTimer, moveModifier, standing, creeps, mishaps>>
  BY DEF Decide, bodyVars, worldVars
<1>3. /\ answer.state \in HeroState /\ CountersBounded(answer.state)
      /\ answer.wish \in [step : Moves, rotated : BOOLEAN]
  <2> HIDE DEF h, c, dead
  <2> QED BY <1>1, AnswerType, UnitIsMoves
<1>4. dead \subseteq Towers
  BY DEF TypeInv, HeroTypeOK, SeenGone
<1> HIDE DEF h, c, dead, answer
<1>5. state' \in [Heroes -> HeroState] /\ Bounded'
  <2>1. state \in [Heroes -> HeroState]
    BY DEF TypeInv, HeroTypeOK
  <2>2. \A g \in Heroes : state'[g] = IF g = h THEN answer.state ELSE state[g]
    BY <2>1, <1>1, <1>2
  <2>3. Bounded'
    BY <2>2, <1>3 DEF TypeInv, Bounded, CountersBounded
  <2> QED BY <2>1, <2>3, <1>1, <1>2, <1>3
<1>6. wish' \in [Heroes -> [step : Moves, rotated : BOOLEAN]]
  BY <1>1, <1>2, <1>3 DEF TypeInv, HeroTypeOK
<1>7. steady' \in [Heroes -> 0..StuckTicks]
  <2>1. steady \in [Heroes -> 0..StuckTicks] /\ 0 \in 0..StuckTicks
    BY HeroAssumption DEF TypeInv, HeroTypeOK
  <2> QED BY <2>1, <1>1, <1>2
<1>8. turn' \in {"decide", "move", "creeps"} \X (DOMAIN Rows)
  BY <1>2, RowsType
<1>9. flags' \in [Heroes -> [leap : BOOLEAN, haste : BOOLEAN]]
  <2>1. PICK near : flags' = [flags EXCEPT ![Rows[i]] =
                       SkillFlags(Role[Rows[i]],
                                  Answer(state[Rows[i]], CellOf(pos[Rows[i]]), hp[Rows[i]],
                                    deadTowers \cup SeenGone(CellOf(pos[Rows[i]]))).state.mode,
                                  hp[Rows[i]], near)]
    BY DEF Decide
  <2>2. \A role, mode, health : SkillFlags(role, mode, health, near) \in [leap : BOOLEAN, haste : BOOLEAN]
    BY DEF SkillFlags
  <2> QED BY <2>1, <2>2 DEF TypeInv, HeroTypeOK
<1> QED BY <1>2, <1>4, <1>5, <1>6, <1>7, <1>8, <1>9 DEF TypeInv, HeroTypeOK, OnMap

\* What a turn makes of a hero: it is missed, or the hero walks from where it is or
\* where its own skill put it.
Turn(h, from, modifier) ==
  /\ from \in Int \X Int /\ CellOf(from) \in Cells \ Walls /\ modifier \in Modifiers
  /\ moveModifier' = [moveModifier EXCEPT ![h] = modifier]
  /\ \E timer \in Nat : moveTimer' = [moveTimer EXCEPT ![h] = timer]
  /\ \/ pos' = pos /\ steady' = [steady EXCEPT ![h] = 0]
     \/ Walks(h, from, modifier)
  /\ \/ from = pos[h] /\ mishaps' = mishaps
     \/ flags[h].leap /\ mishaps < MaxMishaps /\ mishaps' = mishaps + 1

LEMMA MoveIsTurn ==
  ASSUME TypeInv, NEW i \in DOMAIN Rows, Move(i)
  PROVE  \E from, modifier : Turn(Rows[i], from, modifier)
<1> DEFINE h == Rows[i]
<1>1. h \in Heroes
  BY RowsType
<1>2. pos[h] \in Int \X Int /\ CellOf(pos[h]) \in Cells \ Walls
  BY <1>1 DEF TypeInv, HeroTypeOK, OnMap
<1>3. Modifier(h) \in Modifiers /\ "double" \in Modifiers
  BY <1>1 DEF TypeInv, HeroTypeOK, Modifier, Modifiers
<1>4. Countdown(moveTimer[h]) \in Nat /\ HasteTime \in Nat
  <2>1. moveTimer[h] \in Nat
    BY <1>1 DEF TypeInv, HeroTypeOK
  <2>2. HasteTime \in Nat
    BY HeroAssumption
  <2> QED BY <2>1, <2>2 DEF Countdown
<1>5. MissesTurn(h) \/ JustWalks(h) \/ Hastens(h) \/ Leaps(h)
  BY DEF Move
<1> HIDE DEF h
<1>6. CASE MissesTurn(h)
  <2>1. Turn(h, pos[h], Modifier(h))
    BY <1>2, <1>3, <1>4, <1>6 DEF MissesTurn, Turn, Gait
  <2> QED BY <2>1 DEF h
<1>7. CASE JustWalks(h)
  <2>1. Turn(h, pos[h], Modifier(h))
    BY <1>2, <1>3, <1>4, <1>7 DEF JustWalks, Turn, Gait
  <2> QED BY <2>1 DEF h
<1>8. CASE Hastens(h)
  <2>1. Turn(h, pos[h], "double")
    BY <1>2, <1>3, <1>4, <1>8 DEF Hastens, Turn, Gait
  <2> QED BY <2>1 DEF h
<1>9. CASE Leaps(h)
  <2>1. PICK c \in LeapTo \ Taken(h) : Walks(h, Corner(c), Modifier(h))
    BY <1>9 DEF Leaps
  <2>2. c \in Cells \ Walls
    BY PlaceAssumption DEF Taken
  <2>3. Corner(c) \in Int \X Int /\ CellOf(Corner(c)) = c
    BY <2>2, CornerOf
  <2>4. Turn(h, Corner(c), Modifier(h))
    BY <1>3, <1>4, <1>9, <2>1, <2>2, <2>3 DEF Leaps, Turn, Gait
  <2> QED BY <2>4 DEF h
<1> QED BY <1>5, <1>6, <1>7, <1>8, <1>9

\* Where a turn leaves the hero, and how steady.
LEMMA TurnEnds ==
  ASSUME TypeInv, NEW h \in Heroes, NEW from, NEW modifier, Turn(h, from, modifier)
  PROVE  LET dest == Shift(from, Way(wish[h].step, modifier))
         IN /\ dest \in Int \X Int /\ CellOf(dest) \in Cells
            /\ \/ pos'[h] = pos[h] /\ steady'[h] = 0
               \/ pos'[h] = from /\ steady'[h] = 0
               \/ /\ pos'[h] = dest /\ CellOf(dest) \notin Walls
                  /\ steady'[h] = IF from # pos[h] THEN 0
                                  ELSE IF steady[h] < StuckTicks THEN steady[h] + 1 ELSE steady[h]
            /\ \A g \in Heroes \ {h} : pos'[g] = pos[g] /\ steady'[g] = steady[g]
            /\ DOMAIN pos' = Heroes /\ DOMAIN steady' = Heroes
            /\ moveModifier'[h] = modifier
<1> DEFINE dest == Shift(from, Way(wish[h].step, modifier))
<1>1. /\ DOMAIN pos = Heroes /\ DOMAIN steady = Heroes /\ DOMAIN moveModifier = Heroes
      /\ wish[h].step \in Unit
  BY UnitIsMoves DEF TypeInv, HeroTypeOK
<1>2. /\ from \in Int \X Int /\ CellOf(from) \in Cells \ Walls /\ modifier \in Modifiers
      /\ moveModifier' = [moveModifier EXCEPT ![h] = modifier]
  BY DEF Turn
<1>3. /\ dest \in Int \X Int /\ CellOf(dest) \in Int \X Int
      /\ \A k \in {1, 2} : CellOf(dest)[k] \in (CellOf(from)[k] - 2)..(CellOf(from)[k] + 2)
  BY <1>1, <1>2, NextCells
<1>4. CellOf(dest) \in Cells
  <2> HIDE DEF dest
  <2> QED BY <1>2, <1>3, StaysOnMap
<1> DEFINE moves == CellOf(dest) \notin Taken(h)
<1>5. moves => CellOf(dest) \notin Walls
  BY DEF Taken
<1>6. \/ pos' = pos /\ steady' = [steady EXCEPT ![h] = 0]
      \/ /\ pos' = [pos EXCEPT ![h] = IF moves THEN dest ELSE from]
         /\ steady' = [steady EXCEPT ![h] = IF ~moves \/ from # pos[h] THEN 0
                                            ELSE IF @ < StuckTicks THEN @ + 1 ELSE @]
  BY DEF Turn, Walks
<1> HIDE DEF moves, dest
<1>7. \A g \in Heroes \ {h} : pos'[g] = pos[g] /\ steady'[g] = steady[g]
  BY <1>1, <1>6
<1>8. DOMAIN pos' = Heroes /\ DOMAIN steady' = Heroes /\ moveModifier'[h] = modifier
  BY <1>1, <1>2, <1>6
<1>9. \/ pos'[h] = pos[h] /\ steady'[h] = 0
      \/ pos'[h] = from /\ steady'[h] = 0
      \/ /\ pos'[h] = dest /\ moves
         /\ steady'[h] = IF from # pos[h] THEN 0
                         ELSE IF steady[h] < StuckTicks THEN steady[h] + 1 ELSE steady[h]
  <2>1. CASE pos' = pos /\ steady' = [steady EXCEPT ![h] = 0]
    BY <1>1, <2>1
  <2>2. CASE /\ pos' = [pos EXCEPT ![h] = IF moves THEN dest ELSE from]
             /\ steady' = [steady EXCEPT ![h] = IF ~moves \/ from # pos[h] THEN 0
                                                ELSE IF @ < StuckTicks THEN @ + 1 ELSE @]
    <3>1. CASE moves
      BY <1>1, <2>2, <3>1
    <3>2. CASE ~moves
      BY <1>1, <2>2, <3>2
    <3> QED BY <3>1, <3>2
  <2> QED BY <1>6, <2>1, <2>2
<1> QED BY <1>3, <1>4, <1>5, <1>7, <1>8, <1>9 DEF dest

LEMMA TypeMove ==
  ASSUME TypeInv, NEW i \in DOMAIN Rows, Move(i)
  PROVE  TypeInv'
<1> DEFINE h == Rows[i]
<1>1. h \in Heroes
  BY RowsType
<1>2. PICK from, modifier : Turn(h, from, modifier)
  BY MoveIsTurn
<1>3. /\ stun' = [stun EXCEPT ![h] = Countdown(@)]
      /\ turn' = IF i < Len(Rows) THEN <<"move", i + 1>> ELSE <<"creeps", 1>>
      /\ UNCHANGED <<hp, standing, creeps, state, deadTowers, wish, flags>>
  BY DEF Move, mindVars
<1> DEFINE dest == Shift(from, Way(wish[h].step, modifier))
<1>4. /\ dest \in Int \X Int /\ CellOf(dest) \in Cells
      /\ \/ pos'[h] = pos[h] /\ steady'[h] = 0
         \/ pos'[h] = from /\ steady'[h] = 0
         \/ /\ pos'[h] = dest /\ CellOf(dest) \notin Walls
            /\ steady'[h] = IF from # pos[h] THEN 0
                            ELSE IF steady[h] < StuckTicks THEN steady[h] + 1 ELSE steady[h]
      /\ \A g \in Heroes \ {h} : pos'[g] = pos[g] /\ steady'[g] = steady[g]
      /\ DOMAIN pos' = Heroes /\ DOMAIN steady' = Heroes
  <2> HIDE DEF h
  <2> QED BY <1>1, <1>2, TurnEnds
<1>5. /\ from \in Int \X Int /\ CellOf(from) \in Cells \ Walls /\ modifier \in Modifiers
      /\ moveModifier' = [moveModifier EXCEPT ![h] = modifier]
      /\ \E timer \in Nat : moveTimer' = [moveTimer EXCEPT ![h] = timer]
      /\ mishaps' = mishaps \/ (mishaps < MaxMishaps /\ mishaps' = mishaps + 1)
  BY <1>2 DEF Turn
<1> HIDE DEF h, dest
<1>6. pos' \in [Heroes -> Int \X Int] /\ OnMap'
  <2>1. \A g \in Heroes : pos[g] \in Int \X Int /\ CellOf(pos[g]) \in Cells \ Walls
    BY DEF TypeInv, HeroTypeOK, OnMap
  <2>2. \A g \in Heroes : pos'[g] = pos[g] \/ pos'[g] = from \/ (pos'[g] = dest /\ CellOf(dest) \notin Walls)
    BY <1>4
  <2>3. \A g \in Heroes : pos'[g] \in Int \X Int /\ CellOf(pos'[g]) \in Cells \ Walls
    BY <1>4, <1>5, <2>1, <2>2
  <2>4. pos' = [g \in Heroes |-> pos'[g]]
    <3>1. DOMAIN pos' = Heroes /\ pos' = [g \in DOMAIN pos' |-> pos'[g]]
      <4>1. (pos' = pos) \/ (\E q : pos' = [pos EXCEPT ![h] = q])
        BY <1>2 DEF Turn, Walks
      <4> QED BY <1>4, <4>1 DEF TypeInv, HeroTypeOK
    <3> QED BY <3>1
  <2>5. OnMap'
    BY <2>3 DEF OnMap, CellOf
  <2> QED BY <2>3, <2>4, <2>5
<1>7. /\ stun' \in [Heroes -> Nat] /\ moveTimer' \in [Heroes -> Nat]
      /\ moveModifier' \in [Heroes -> Modifiers]
  BY <1>1, <1>3, <1>5 DEF TypeInv, HeroTypeOK, Countdown
<1>8. steady' \in [Heroes -> 0..StuckTicks]
  <2>1. steady \in [Heroes -> 0..StuckTicks] /\ StuckTicks \in Nat
    BY HeroAssumption DEF TypeInv, HeroTypeOK
  <2>2. \A g \in Heroes : steady[g] \in 0..StuckTicks
    BY <2>1
  <2>3. \A g \in Heroes : steady'[g] \in 0..StuckTicks
    BY <1>1, <1>4, <2>1, <2>2
  <2>4. \E n : steady' = [steady EXCEPT ![h] = n]
    BY <1>2 DEF Turn, Walks
  <2> QED BY <2>1, <2>3, <2>4
<1>9. turn' \in {"decide", "move", "creeps"} \X (DOMAIN Rows)
  BY <1>3, RowsType
<1>10. mishaps' \in 0..MaxMishaps
  <2>1. mishaps \in 0..MaxMishaps /\ MaxMishaps \in Nat
    BY HeroAssumption DEF TypeInv, HeroTypeOK
  <2> QED BY <2>1, <1>5
<1> QED BY <1>3, <1>6, <1>7, <1>8, <1>9, <1>10 DEF TypeInv, HeroTypeOK, Bounded

\* A hero put somewhere is put on an open cell of the map.
LEMMA PutType ==
  ASSUME TypeInv, NEW h \in Heroes, NEW c \in Cells, PutAt(h, c)
  PROVE  /\ pos' \in [Heroes -> Int \X Int] /\ OnMap'
         /\ steady' \in [Heroes -> 0..StuckTicks]
<1>1. Corner(c) \in Int \X Int /\ CellOf(Corner(c)) = c
  BY CornerOf
<1>2. c \notin Walls /\ pos' = [pos EXCEPT ![h] = Corner(c)] /\ steady' = [steady EXCEPT ![h] = 0]
  BY DEF PutAt, Taken
<1>3. pos \in [Heroes -> Int \X Int] /\ steady \in [Heroes -> 0..StuckTicks] /\ 0 \in 0..StuckTicks
  <2>1. pos \in [Heroes -> Int \X Int] /\ steady \in [Heroes -> 0..StuckTicks]
    BY DEF TypeInv, HeroTypeOK
  <2>2. StuckTicks \in Nat
    BY HeroAssumption
  <2> QED BY <2>1, <2>2
<1>4. pos' \in [Heroes -> Int \X Int]
  BY <1>1, <1>2, <1>3
<1>5. \A g \in Heroes : pos'[g] = IF g = h THEN Corner(c) ELSE pos[g]
  BY <1>2, <1>3
<1>6. OnMap'
  BY <1>1, <1>2, <1>5 DEF TypeInv, OnMap, CellOf
<1> QED BY <1>2, <1>3, <1>4, <1>6

\* What happens between the ticks.
Between ==
  \/ \E h \in Heroes : Wounded(h) \/ Stunned(h) \/ Slowed(h) \/ Heals(h)
  \/ \E h \in Heroes, c \in Fountain : Killed(h, c)
  \/ \E t \in Towers : TowerFalls(t)

LEMMA TypeBetween ==
  ASSUME TypeInv, Between
  PROVE  TypeInv'
<1>1. Health = {RetreatEnter, RetreatEnter + 1, RetreatExit}
  BY DEF Health
<1>2. mishaps \in 0..MaxMishaps /\ MaxMishaps \in Nat /\ StunTime \in Nat /\ SlowTime \in Nat
      /\ "half" \in Modifiers /\ "one" \in Modifiers
  <2>1. mishaps \in 0..MaxMishaps
    BY DEF TypeInv, HeroTypeOK
  <2>2. {MaxMishaps, StunTime, SlowTime} \subseteq Nat
    BY HeroAssumption
  <2> QED BY <2>1, <2>2 DEF Modifiers
<1>3. ASSUME NEW h \in Heroes, Wounded(h) PROVE TypeInv'
  <2>1. hp' \in [Heroes -> Health] /\ mishaps' \in 0..MaxMishaps
    BY <1>1, <1>2, <1>3 DEF Wounded, Mishap, TypeInv, HeroTypeOK
  <2> QED BY <2>1, <1>3 DEF Wounded, Mishap, TypeInv, HeroTypeOK, OnMap, Bounded, mindVars
<1>4. ASSUME NEW h \in Heroes, Stunned(h) PROVE TypeInv'
  <2>1. stun' \in [Heroes -> Nat] /\ mishaps' \in 0..MaxMishaps
    BY <1>2, <1>4 DEF Stunned, Mishap, TypeInv, HeroTypeOK
  <2> QED BY <2>1, <1>4 DEF Stunned, Mishap, TypeInv, HeroTypeOK, OnMap, Bounded, mindVars
<1>5. ASSUME NEW h \in Heroes, Slowed(h) PROVE TypeInv'
  <2>1. /\ moveTimer' \in [Heroes -> Nat] /\ moveModifier' \in [Heroes -> Modifiers]
        /\ mishaps' \in 0..MaxMishaps
    BY <1>2, <1>5 DEF Slowed, Gait, Mishap, TypeInv, HeroTypeOK
  <2> QED BY <2>1, <1>5 DEF Slowed, Mishap, TypeInv, HeroTypeOK, OnMap, Bounded, mindVars
<1>6. ASSUME NEW h \in Heroes, Heals(h) PROVE TypeInv'
  <2>1. hp' \in [Heroes -> Health]
    BY <1>1, <1>6 DEF Heals, TypeInv, HeroTypeOK
  <2> QED BY <2>1, <1>6 DEF Heals, TypeInv, HeroTypeOK, OnMap, Bounded, mindVars, worldVars
<1>7. ASSUME NEW h \in Heroes, NEW c \in Fountain, Killed(h, c) PROVE TypeInv'
  <2>1. c \in Cells /\ PutAt(h, c) /\ mishaps' \in 0..MaxMishaps
    BY <1>2, <1>7, PlaceAssumption DEF Killed, Mishap
  <2>2. /\ pos' \in [Heroes -> Int \X Int] /\ OnMap'
        /\ steady' \in [Heroes -> 0..StuckTicks]
    BY <2>1, PutType
  <2>3. /\ hp' \in [Heroes -> Health] /\ stun' \in [Heroes -> Nat] /\ moveTimer' \in [Heroes -> Nat]
        /\ moveModifier' \in [Heroes -> Modifiers]
    BY <1>1, <1>2, <1>7 DEF Killed, Gait, TypeInv, HeroTypeOK
  <2> QED BY <2>1, <2>2, <2>3, <1>7 DEF Killed, TypeInv, HeroTypeOK, Bounded, mindVars
<1>8. ASSUME NEW t \in Towers, TowerFalls(t) PROVE TypeInv'
  BY <1>8 DEF TowerFalls, TypeInv, HeroTypeOK, OnMap, Bounded, bodyVars, mindVars
<1> QED BY <1>3, <1>4, <1>5, <1>6, <1>7, <1>8 DEF Between

LEMMA TypeCreeps ==
  ASSUME TypeInv, NEW wave \in Waves, CreepsMove(wave)
  PROVE  TypeInv'
<1>1. mishaps' \in 0..MaxMishaps
  <2>1. mishaps \in 0..MaxMishaps /\ MaxMishaps \in Nat
    BY HeroAssumption DEF TypeInv, HeroTypeOK
  <2>2. mishaps' = mishaps \/ (mishaps < MaxMishaps /\ mishaps' = mishaps + 1)
    BY DEF CreepsMove
  <2> QED BY <2>1, <2>2
<1>2. turn' \in {"decide", "move", "creeps"} \X (DOMAIN Rows)
  BY RowsType DEF CreepsMove
<1> QED BY <1>1, <1>2 DEF CreepsMove, TypeInv, HeroTypeOK, OnMap, Bounded, bodyVars, mindVars

LEMMA TypeNext == TypeInv /\ [HeroNext]_heroVars => TypeInv'
<1> SUFFICES ASSUME TypeInv, [HeroNext]_heroVars PROVE TypeInv'
  OBVIOUS
<1>1. CASE \E i \in DOMAIN Rows : Decide(i) \/ Move(i)
  BY <1>1, TypeDecide, TypeMove
<1>2. CASE Between
  BY <1>2, TypeBetween
<1>3. CASE \E wave \in Waves : CreepsMove(wave)
  BY <1>3, TypeCreeps
<1>4. CASE UNCHANGED heroVars
  BY <1>4 DEF heroVars, bodyVars, worldVars, mindVars, TypeInv, HeroTypeOK, OnMap, Bounded
<1> QED BY <1>1, <1>2, <1>3, <1>4 DEF HeroNext, Between

\* The types, with the bounds of a detour's counters and of a row's waypoint.
THEOREM HeroTypesHold == HeroSpec => []HeroTypeOK
<1>1. HeroSpec => []TypeInv
  BY TypeInit, TypeNext, PTL DEF HeroSpec
<1>2. TypeInv => HeroTypeOK
  BY DEF TypeInv
<1> QED BY <1>1, <1>2, PTL

-----------------------------------------------------------------------------
(* The memory of dead towers.                                                  *)

LEMMA RememberedNext ==
  RememberedDeadAreDead /\ [HeroNext]_heroVars => RememberedDeadAreDead'
<1> SUFFICES ASSUME RememberedDeadAreDead, [HeroNext]_heroVars PROVE RememberedDeadAreDead'
  OBVIOUS
<1>1. ASSUME NEW i \in DOMAIN Rows, Decide(i) PROVE RememberedDeadAreDead'
  <2>1. /\ deadTowers' = deadTowers \cup SeenGone(CellOf(pos[Rows[i]]))
        /\ standing' = standing
    BY <1>1 DEF Decide, worldVars
  <2> QED BY <2>1, SeenGoneIsGone DEF RememberedDeadAreDead
<1>2. ASSUME NEW i \in DOMAIN Rows, Move(i) PROVE RememberedDeadAreDead'
  BY <1>2 DEF Move, RememberedDeadAreDead, mindVars
<1>3. ASSUME Between PROVE RememberedDeadAreDead'
  <2>1. deadTowers' = deadTowers /\ standing' \subseteq standing
    BY <1>3 DEF Between, Wounded, Stunned, Slowed, Heals, Killed, TowerFalls,
                mindVars, worldVars
  <2> QED BY <2>1 DEF RememberedDeadAreDead
<1>4. ASSUME NEW wave \in Waves, CreepsMove(wave) PROVE RememberedDeadAreDead'
  BY <1>4 DEF CreepsMove, RememberedDeadAreDead, mindVars
<1>5. ASSUME UNCHANGED heroVars PROVE RememberedDeadAreDead'
  BY <1>5 DEF heroVars, RememberedDeadAreDead, worldVars, mindVars
<1> QED BY <1>1, <1>2, <1>3, <1>4, <1>5 DEF HeroNext, Between

\* Whatever a seat's heroes see, a tower they take for dead does not stand.
THEOREM RememberedTowersAreDead == HeroSpec => []RememberedDeadAreDead
<1>1. HeroInit => RememberedDeadAreDead
  BY DEF HeroInit, RememberedDeadAreDead
<1> QED BY <1>1, RememberedNext, PTL DEF HeroSpec

-----------------------------------------------------------------------------
(* The range of towers.  Inductive with: from a row's decision to its move,    *)
(* what it wants is safe from where it stands.                                 *)

Decided(i) ==
  \/ turn[1] = "decide" /\ i < turn[2]
  \/ turn[1] = "move" /\ turn[2] <= i

Excused(h) ==
  \/ UnderFire(CellOf(pos[h]))
  \/ \E t \in EnemyTowers : Engaged(CellOf(pos[h]), t)
  \/ state[h].mode = RETREAT
  \/ wish[h].rotated

KeepsOut(h) ==
  \/ wish[h].step = Stay
  \/ \A t \in EnemyTowers \cap standing : Dist(TowerCell[t], CellOf(pos[h])) > SiegeStandoff

WishesKeepOut == \A i \in DOMAIN Rows : Decided(i) => Excused(Rows[i]) \/ KeepsOut(Rows[i])

DiveInv == TypeInv /\ RememberedDeadAreDead /\ WishesKeepOut

\* A row that has decided keeps out of range.
LEMMA DecideKeepsOut ==
  ASSUME DiveInv, NEW i \in DOMAIN Rows, Decide(i)
  PROVE  (Excused(Rows[i]) \/ KeepsOut(Rows[i]))'
<1> DEFINE h == Rows[i]
           c == CellOf(pos[h])
           dead == deadTowers \cup SeenGone(c)
           answer == Answer(state[h], c, hp[h], dead)
<1>1. h \in Heroes /\ c \in Int \X Int /\ standing \subseteq Towers
  BY RowsType, CellsAreInts DEF DiveInv, TypeInv, OnMap, HeroTypeOK
<1>2. /\ state' = [state EXCEPT ![h] = answer.state] /\ wish' = [wish EXCEPT ![h] = answer.wish]
      /\ pos' = pos /\ standing' = standing /\ creeps' = creeps
  BY DEF Decide, bodyVars, worldVars
<1>3. dead \cap standing = {} /\ SeenGone(c) \subseteq dead
  BY SeenGoneIsGone DEF DiveInv, RememberedDeadAreDead
<1>4. state[h] \in HeroState /\ CountersBounded(state[h]) /\ c \in Cells
  BY <1>1 DEF DiveInv, TypeInv, HeroTypeOK, Bounded, OnMap
<1>5. answer.state \in HeroState /\ answer.wish \in [step : Unit, rotated : BOOLEAN]
  <2> HIDE DEF h, c, dead
  <2> QED BY <1>4, AnswerType
<1>6. DOMAIN state = Heroes /\ DOMAIN wish = Heroes
  BY DEF DiveInv, TypeInv, HeroTypeOK
<1>7. ASSUME ~UnderFire(c), \A t \in EnemyTowers : ~Engaged(c, t),
             answer.state.mode = PUSH, ~answer.wish.rotated
      PROVE  \/ answer.wish.step = Stay
             \/ \A t \in EnemyTowers \cap standing : Dist(TowerCell[t], c) > SiegeStandoff
  <2> HIDE DEF h, c, dead
  <2> QED BY <1>1, <1>3, <1>7, AnswerKeepsOut
<1>8. answer.state.mode = PUSH \/ answer.state.mode = RETREAT
  BY <1>5 DEF HeroState
<1> HIDE DEF answer, dead
<1>9. state'[h] = answer.state /\ wish'[h] = answer.wish
  BY <1>1, <1>2, <1>6
<1>10. /\ UnderFire(c)' = UnderFire(c)
       /\ \A t \in EnemyTowers : Engaged(c, t)' = Engaged(c, t)
  BY <1>2 DEF UnderFire, Engaged, CreepsSeen, CellOf
<1> QED BY <1>2, <1>7, <1>8, <1>9, <1>10 DEF Excused, KeepsOut, CellOf, UnderFire, Engaged, CreepsSeen

LEMMA RowsDiffer ==
  ASSUME NEW i \in DOMAIN Rows, NEW j \in DOMAIN Rows, i # j
  PROVE  Rows[i] # Rows[j]
BY HeroAssumption

LEMMA WishesNext ==
  ASSUME DiveInv, [HeroNext]_heroVars
  PROVE  WishesKeepOut'
<1>1. ASSUME NEW i \in DOMAIN Rows, Decide(i) PROVE WishesKeepOut'
  <2> SUFFICES ASSUME NEW j \in DOMAIN Rows, Decided(j)'
               PROVE  (Excused(Rows[j]) \/ KeepsOut(Rows[j]))'
    BY DEF WishesKeepOut
  <2>1. i \in 1..Len(Rows) /\ j \in 1..Len(Rows) /\ Len(Rows) \in Nat
    BY RowsType
  <2>2. /\ turn = <<"decide", i>>
        /\ turn' = IF i < Len(Rows) THEN <<"decide", i + 1>> ELSE <<"move", 1>>
    BY <1>1 DEF Decide
  <2>3. j <= i
    BY <2>1, <2>2 DEF Decided
  <2>4. CASE j = i
    BY <2>4, <1>1, DecideKeepsOut
  <2>5. CASE j # i
    <3>1. Decided(j)
      BY <2>1, <2>2, <2>3, <2>5 DEF Decided
    <3>2. Rows[j] # Rows[i] /\ Rows[j] \in Heroes
      BY <2>5, RowsDiffer, RowsType
    <3>3. state'[Rows[j]] = state[Rows[j]] /\ wish'[Rows[j]] = wish[Rows[j]]
      BY <1>1, <3>2 DEF Decide, DiveInv, TypeInv, HeroTypeOK
    <3>4. pos' = pos /\ standing' = standing /\ creeps' = creeps
      BY <1>1 DEF Decide, bodyVars, worldVars
    <3> QED BY <3>1, <3>3, <3>4 DEF DiveInv, WishesKeepOut, Excused, KeepsOut, CellOf,
                                    UnderFire, Engaged, CreepsSeen
  <2> QED BY <2>4, <2>5
<1>2. ASSUME NEW i \in DOMAIN Rows, Move(i) PROVE WishesKeepOut'
  <2> SUFFICES ASSUME NEW j \in DOMAIN Rows, Decided(j)'
               PROVE  (Excused(Rows[j]) \/ KeepsOut(Rows[j]))'
    BY DEF WishesKeepOut
  <2>1. i \in 1..Len(Rows) /\ j \in 1..Len(Rows) /\ Len(Rows) \in Nat
    BY RowsType
  <2>2. /\ turn = <<"move", i>>
        /\ turn' = IF i < Len(Rows) THEN <<"move", i + 1>> ELSE <<"creeps", 1>>
    BY <1>2 DEF Move
  <2>3. i < j /\ Decided(j)
    BY <2>1, <2>2 DEF Decided
  <2>4. Rows[j] # Rows[i] /\ Rows[j] \in Heroes
    BY <2>1, <2>3, RowsDiffer, RowsType
  <2>5. pos'[Rows[j]] = pos[Rows[j]]
    <3>1. PICK from, modifier : Turn(Rows[i], from, modifier)
      BY <1>2, MoveIsTurn DEF DiveInv
    <3> QED BY <2>4, <3>1, RowsType, TurnEnds DEF DiveInv
  <2>6. state' = state /\ wish' = wish /\ standing' = standing /\ creeps' = creeps
    BY <1>2 DEF Move, mindVars
  <2> QED BY <2>3, <2>5, <2>6 DEF DiveInv, WishesKeepOut, Excused, KeepsOut, CellOf,
                                  UnderFire, Engaged, CreepsSeen
<1>3. ASSUME turn' = <<"decide", 1>> PROVE WishesKeepOut'
  <2>1. \A j \in DOMAIN Rows : ~Decided(j)'
    BY <1>3, RowsType DEF Decided
  <2> QED BY <2>1 DEF WishesKeepOut
<1>4. Between => turn' = <<"decide", 1>>
  BY DEF Between, Wounded, Stunned, Slowed, Heals, Killed, TowerFalls, Mishap, BetweenTicks
<1>5. (\E wave \in Waves : CreepsMove(wave)) => turn' = <<"decide", 1>>
  BY DEF CreepsMove
<1>6. UNCHANGED heroVars => WishesKeepOut'
  BY DEF heroVars, bodyVars, worldVars, mindVars, DiveInv, WishesKeepOut, Decided, Excused,
         KeepsOut, CellOf, UnderFire, Engaged, CreepsSeen
<1> QED BY <1>1, <1>2, <1>3, <1>4, <1>5, <1>6 DEF HeroNext, Between

LEMMA DiveInit == HeroInit => DiveInv
<1> SUFFICES ASSUME HeroInit PROVE DiveInv
  OBVIOUS
<1>1. TypeInv /\ RememberedDeadAreDead
  BY TypeInit DEF HeroInit, RememberedDeadAreDead
<1>2. \A j \in DOMAIN Rows : ~Decided(j)
  BY RowsType DEF HeroInit, Decided
<1> QED BY <1>1, <1>2 DEF DiveInv, WishesKeepOut

LEMMA DiveNext == DiveInv /\ [HeroNext]_heroVars => DiveInv'
BY TypeNext, RememberedNext, WishesNext DEF DiveInv

\* A step away from every tower by more than the standoff ends out of range.
LEMMA StepKeepsOut ==
  ASSUME NEW c \in Int \X Int, NEW d \in Int \X Int, NEW e \in Int \X Int,
         \A k \in {1, 2} : d[k] \in (c[k] - 1)..(c[k] + 1),
         Dist(e, c) > SiegeStandoff
  PROVE  ~(Dist(d, e) <= TowerVision)
<1>1. d[1] \in (c[1] - 1)..(c[1] + 1) /\ d[2] \in (c[2] - 1)..(c[2] + 1)
  OBVIOUS
<1>2. TowerVision \in Nat
  BY HeroAssumption
<1>3. /\ c[1] \in Int /\ c[2] \in Int /\ d[1] \in Int /\ d[2] \in Int /\ e[1] \in Int /\ e[2] \in Int
  OBVIOUS
<1> QED BY <1>1, <1>2, <1>3 DEF Dist, AbsVal, Larger, SiegeStandoff

\* Two such steps end at the edge of the range at worst.
LEMMA HasteKeepsToEdge ==
  ASSUME NEW c \in Int \X Int, NEW d \in Int \X Int, NEW e \in Int \X Int,
         \A k \in {1, 2} : d[k] \in (c[k] - 2)..(c[k] + 2),
         Dist(e, c) > SiegeStandoff
  PROVE  Dist(d, e) >= TowerVision
<1>1. d[1] \in (c[1] - 2)..(c[1] + 2) /\ d[2] \in (c[2] - 2)..(c[2] + 2)
  OBVIOUS
<1>2. TowerVision \in Nat
  BY HeroAssumption
<1>3. /\ c[1] \in Int /\ c[2] \in Int /\ d[1] \in Int /\ d[2] \in Int /\ e[1] \in Int /\ e[2] \in Int
  OBVIOUS
<1> QED BY <1>1, <1>2, <1>3 DEF Dist, AbsVal, Larger, SiegeStandoff

LEMMA StayStays ==
  ASSUME NEW p \in Int \X Int, NEW modifier \in Modifiers
  PROVE  Shift(p, Way(Stay, modifier)) = p
<1>1. Stay \in Unit
  BY DEF Stay, Unit
<1>2. Reach(Stay, modifier) \in Nat
  BY <1>1, ReachType
<1>3. Reach(Stay, modifier) * 0 = 0
  BY <1>2
<1>4. Way(Stay, modifier) = <<0, 0>>
  BY <1>3 DEF Way, Stay
<1> QED BY <1>4 DEF Shift

LEMMA MoveKeepsOut ==
  ASSUME DiveInv, NEW i \in DOMAIN Rows, Move(i), ~Excused(Rows[i]),
         ~(flags[Rows[i]].leap /\ mishaps' # mishaps)
  PROVE  \/ ~UnderFire(CellOf(pos'[Rows[i]]))
         \/ moveModifier'[Rows[i]] = "double" /\ AtEdge(CellOf(pos'[Rows[i]]))
<1> DEFINE h == Rows[i]
<1>1. h \in Heroes /\ pos[h] \in Int \X Int /\ wish[h].step \in Unit
  BY RowsType, UnitIsMoves DEF DiveInv, TypeInv, HeroTypeOK
<1>2. PICK from, modifier : Turn(h, from, modifier)
  BY MoveIsTurn DEF DiveInv
<1> DEFINE dest == Shift(pos[h], Way(wish[h].step, modifier))
<1>3. from = pos[h] /\ modifier \in Modifiers
  <2>1. mishaps \in Int
    BY DEF DiveInv, TypeInv, HeroTypeOK
  <2>2. mishaps + 1 # mishaps
    BY <2>1
  <2> QED BY <1>2, <2>2 DEF Turn
<1>4. (pos'[h] = dest \/ pos'[h] = pos[h]) /\ moveModifier'[h] = modifier
  <2> HIDE DEF h
  <2> QED BY <1>1, <1>2, <1>3, TurnEnds DEF DiveInv
<1>5. ~UnderFire(CellOf(pos[h]))
  BY DEF Excused
<1>6. KeepsOut(h)
  <2>1. turn = <<"move", i>>
    BY DEF Move
  <2>2. Decided(i)
    BY <2>1, RowsType DEF Decided
  <2> QED BY <2>2 DEF DiveInv, WishesKeepOut
<1> HIDE DEF h
<1>7. CASE pos'[h] = pos[h]
  BY <1>5, <1>7 DEF h
<1>8. CASE pos'[h] = dest /\ wish[h].step = Stay
  <2>1. dest = pos[h]
    BY <1>1, <1>3, <1>8, StayStays
  <2> QED BY <2>1, <1>5, <1>8 DEF h
<1>9. CASE /\ pos'[h] = dest
           /\ \A t \in EnemyTowers \cap standing : Dist(TowerCell[t], CellOf(pos[h])) > SiegeStandoff
  <2>1. \A t \in EnemyTowers \cap standing : TowerCell[t] \in Int \X Int
    BY PlaceAssumption, TowerCells
  <2>2. CASE modifier # "double"
    <3>1. /\ CellOf(pos[h]) \in Int \X Int /\ CellOf(dest) \in Int \X Int
          /\ \A k \in {1, 2} : CellOf(dest)[k] \in (CellOf(pos[h])[k] - 1)..(CellOf(pos[h])[k] + 1)
      BY <1>1, <1>3, <2>2, NextCell
    <3> HIDE DEF dest
    <3>2. \A t \in EnemyTowers \cap standing : ~(Dist(CellOf(dest), TowerCell[t]) <= TowerVision)
      BY <1>9, <2>1, <3>1, StepKeepsOut
    <3> QED BY <1>9, <3>2 DEF UnderFire, h
  <2>3. CASE modifier = "double"
    <3>1. /\ CellOf(pos[h]) \in Int \X Int /\ CellOf(dest) \in Int \X Int
          /\ \A k \in {1, 2} : CellOf(dest)[k] \in (CellOf(pos[h])[k] - 2)..(CellOf(pos[h])[k] + 2)
      BY <1>1, <1>3, NextCells
    <3> HIDE DEF dest
    <3>2. AtEdge(CellOf(dest))
      BY <1>9, <2>1, <3>1, HasteKeepsToEdge DEF AtEdge
    <3> QED BY <1>4, <1>9, <2>3, <3>2 DEF h
  <2> QED BY <2>2, <2>3
<1> QED BY <1>4, <1>6, <1>7, <1>8, <1>9 DEF KeepsOut

\* On any map, with any ranges and any number of heroes, towers and creeps: a turn
\* brings a hero into a tower's range only behind a wave, on its way home, on a
\* detour or by its own leap; by its haste it comes to the edge of the range.
THEOREM StandoffsHold == HeroSpec => StandoffHolds
<1>1. DiveInv /\ [HeroNext]_heroVars =>
        [\A h \in Heroes :
           LET c == CellOf(pos[h])
               d == CellOf(pos'[h])
           IN (\E i \in DOMAIN Rows : Move(i)) /\ ~UnderFire(c) /\ UnderFire(d) =>
                \/ \E t \in EnemyTowers : Engaged(c, t)
                \/ state[h].mode = RETREAT
                \/ wish[h].rotated
                \/ flags[h].leap /\ mishaps' # mishaps
                \/ moveModifier'[h] = "double" /\ AtEdge(d)]_heroVars
  <2> SUFFICES ASSUME DiveInv, NEW h \in Heroes, NEW i \in DOMAIN Rows, Move(i),
                      ~UnderFire(CellOf(pos[h])), UnderFire(CellOf(pos'[h])),
                      ~(flags[h].leap /\ mishaps' # mishaps),
                      ~(moveModifier'[h] = "double" /\ AtEdge(CellOf(pos'[h])))
               PROVE  Excused(h)
    BY DEF Excused
  <2>1. CASE h = Rows[i]
    BY <2>1, MoveKeepsOut
  <2>2. CASE h # Rows[i]
    <3>1. PICK from, modifier : Turn(Rows[i], from, modifier)
      BY MoveIsTurn DEF DiveInv
    <3>2. pos'[h] = pos[h]
      BY <2>2, <3>1, RowsType, TurnEnds DEF DiveInv
    <3> QED BY <3>2
  <2> QED BY <2>1, <2>2
<1> QED BY <1>1, DiveInit, DiveNext, PTL DEF HeroSpec, StandoffHolds

-----------------------------------------------------------------------------
(* Slow is not stuck.  Inductive with: a hero that for n turns has gone the    *)
(* same way without leaving its cell has put at least n times the slowest      *)
(* gait behind it, counted from where it entered the cell.                     *)

Pace(step) == IF step[1] # 0 /\ step[2] # 0 THEN SlowDiagonal ELSE SlowStraight

\* How far p has come into its cell, along one axis.
Offset(p, a) == p[a] - Scale * (p[a] \div Scale)
Gone(p, step, a) == IF step[a] = 1 THEN Offset(p, a) ELSE (Scale - 1) - Offset(p, a)

\* The turns in the same cell: a decision that is not yet moved on is not one.
TurnsHere(i) ==
  IF Decided(i) THEN state[Rows[i]].stuck ELSE state[Rows[i]].stuck + 1

Progress(i) ==
  LET h == Rows[i]
      step == wish[h].step
  IN state[h].last = CellOf(pos[h]) =>
       \A n \in 0..StuckTicks : n <= TurnsHere(i) /\ n <= steady[h] =>
         \A a \in {1, 2} : step[a] # 0 => n * Pace(step) <= Gone(pos[h], step, a)

Paces ==
  \A i \in DOMAIN Rows :
    /\ state[Rows[i]].tried => wish[Rows[i]].step # Stay
    /\ Decided(i) => state[Rows[i]].last = CellOf(pos[Rows[i]])
    /\ Progress(i)

SlowInv == TypeInv /\ Paces

LEMMA GaitTypes ==
  /\ Scale \in Nat \ {0} /\ StuckTicks \in Nat \ {0} /\ DetourTicks \in Nat \ {0}
  /\ {Straight, Diagonal, SlowStraight, SlowDiagonal} \subseteq 0..Scale
BY HeroAssumption

LEMMA PaceType ==
  ASSUME NEW step \in Unit
  PROVE  Pace(step) \in 0..Scale /\ Scale <= StuckTicks * Pace(step)
BY GaitTypes, GaitAssumption DEF Pace

\* A cell holds less than Scale units of way.
LEMMA GoneInCell ==
  ASSUME NEW p \in Int \X Int, NEW step, NEW a \in {1, 2}
  PROVE  Gone(p, step, a) \in 0..(Scale - 1)
<1>1. \A s \in Nat \ {0}, n \in Int : n - s * (n \div s) \in 0..(s - 1)
  OBVIOUS
<1>2. p[a] \in Int /\ Scale \in Nat \ {0}
  BY GaitTypes
<1>3. Offset(p, a) \in 0..(Scale - 1)
  BY <1>1, <1>2 DEF Offset
<1> QED BY <1>2, <1>3 DEF Gone

\* A turn that stays in the cell puts at least the slowest gait behind the hero.
LEMMA TurnCounts ==
  ASSUME NEW p \in Int \X Int, NEW step \in Unit, NEW modifier \in Modifiers, NEW a \in {1, 2},
         step[a] # 0, CellOf(Shift(p, Way(step, modifier))) = CellOf(p)
  PROVE  Gone(p, step, a) + Pace(step) <= Gone(Shift(p, Way(step, modifier)), step, a)
<1> DEFINE reach == Reach(step, modifier)
           d == Shift(p, Way(step, modifier))
<1>1. reach \in Nat /\ Pace(step) \in 0..Scale /\ Pace(step) <= reach /\ Scale \in Nat \ {0}
  BY GaitTypes, GaitAssumption DEF Pace, Reach, Modifiers
<1>2. Way(step, modifier) = <<reach * step[1], reach * step[2]>>
  BY DEF Way
<1> HIDE DEF reach
<1>3. d = <<p[1] + reach * step[1], p[2] + reach * step[2]>>
  BY <1>2 DEF Shift
<1>4. d[a] = p[a] + reach * step[a]
  BY <1>3
<1>5. d[a] \div Scale = p[a] \div Scale
  BY <1>3 DEF CellOf
<1>6. p[a] \in Int /\ step[a] \in {-1, 1}
  BY DEF Unit
<1>7. p[a] \div Scale \in Int /\ Scale * (p[a] \div Scale) \in Int
  BY <1>1, <1>6
<1>8. reach * 1 = reach /\ reach * (-1) = -reach
  BY <1>1
<1> HIDE DEF d
<1>9. CASE step[a] = 1
  <2>1. d[a] = p[a] + reach
    BY <1>4, <1>8, <1>9
  <2> QED BY <2>1, <1>1, <1>5, <1>6, <1>7, <1>9 DEF Gone, Offset, d
<1>10. CASE step[a] = -1
  <2>1. d[a] = p[a] - reach
    BY <1>1, <1>4, <1>6, <1>8, <1>10
  <2> QED BY <2>1, <1>1, <1>5, <1>6, <1>7, <1>10 DEF Gone, Offset, d
<1> QED BY <1>6, <1>9, <1>10

LEMMA StepsAgain ==
  ASSUME NEW n \in Nat, n # 0, NEW pace \in Nat, NEW g \in Nat, NEW g2 \in Nat,
         (n - 1) * pace <= g, g + pace <= g2
  PROVE  n * pace <= g2
<1>1. n * pace = (n - 1) * pace + pace
  OBVIOUS
<1> QED BY <1>1

\* What a decision does to the count.
LEMMA SteerCounts ==
  ASSUME NEW st \in HeroState, NEW c, NEW mode, NEW wp, NEW want
  PROVE  LET new == Steer(st, c, mode, wp, want)
         IN /\ new.state.last = c
            /\ new.state.tried => new.wish.step # Stay
            /\ \/ new.state.stuck = 0
               \/ st.tried /\ st.last = c /\ new.state.stuck = st.stuck + 1
            /\ new.state.left = DetourTicks =>
                 st.tried /\ st.last = c /\ StuckTicks <= st.stuck + 1
<1> DEFINE left == IF Displaced(st, c) THEN 0 ELSE st.left
           stuck == StuckFor(st, c, want)
           starts == left = 0 /\ stuck >= StuckTicks
           side == IF starts THEN -st.side ELSE st.side
           step == IF left > 0 \/ starts THEN Rotate90(want, side) ELSE want
           new == Steer(st, c, mode, wp, want)
<1>1. /\ new.state.last = c /\ new.state.tried = (step # Stay) /\ new.wish.step = step
      /\ new.state.stuck = IF starts THEN 0 ELSE stuck
      /\ new.state.left = IF starts THEN DetourTicks ELSE Larger(left - 1, 0)
  BY DEF Steer
<1>2. stuck = 0 \/ (st.tried /\ st.last = c /\ stuck = st.stuck + 1)
  BY DEF StuckFor
<1>3. left \in 0..DetourTicks
  BY GaitTypes DEF HeroState
<1> HIDE DEF new, step, stuck, left
<1>4. Larger(left - 1, 0) # DetourTicks
  BY <1>3, GaitTypes DEF Larger
<1>5. starts => st.tried /\ st.last = c /\ StuckTicks <= st.stuck + 1
  BY <1>2, GaitTypes
<1> QED BY <1>1, <1>2, <1>4, <1>5 DEF new

\* Where a hero stands, what it wants and what it counts.
LEMMA HeroTypes ==
  ASSUME TypeInv, NEW i \in DOMAIN Rows
  PROVE  /\ Rows[i] \in Heroes /\ pos[Rows[i]] \in Int \X Int /\ wish[Rows[i]].step \in Unit
         /\ state[Rows[i]] \in HeroState /\ state[Rows[i]].stuck \in Nat
         /\ state[Rows[i]].left \in 0..DetourTicks
         /\ steady[Rows[i]] \in 0..StuckTicks
<1>1. Rows[i] \in Heroes
  BY RowsType
<1>2. \A k \in 0..Larger(StuckTicks, DetourTicks) : k \in Nat
  OBVIOUS
<1> QED BY <1>1, <1>2, UnitIsMoves DEF TypeInv, HeroTypeOK, HeroState

LEMMA FreshCount ==
  ASSUME NEW n \in Nat, n = 0, NEW step \in Unit, NEW p \in Int \X Int, NEW a \in {1, 2}
  PROVE  n * Pace(step) <= Gone(p, step, a)
<1>1. Pace(step) \in Nat /\ Gone(p, step, a) \in Nat
  BY PaceType, GoneInCell
<1> QED BY <1>1

LEMMA PacesInit == HeroInit => SlowInv
<1> SUFFICES ASSUME HeroInit PROVE SlowInv
  OBVIOUS
<1>1. TypeInv
  BY TypeInit
<1> SUFFICES ASSUME NEW i \in DOMAIN Rows
             PROVE  /\ state[Rows[i]].tried => wish[Rows[i]].step # Stay
                    /\ Decided(i) => state[Rows[i]].last = CellOf(pos[Rows[i]])
                    /\ Progress(i)
  BY <1>1 DEF SlowInv, Paces
<1>2. Rows[i] \in Heroes
  BY RowsType
<1>3. state[Rows[i]] = FreshState /\ wish[Rows[i]].step = Stay
  BY <1>2 DEF HeroInit
<1>4. ~state[Rows[i]].tried
  BY <1>3 DEF FreshState
<1>5. ~Decided(i)
  BY RowsType DEF HeroInit, Decided
<1>6. Progress(i)
  BY <1>3 DEF Progress, Stay
<1> QED BY <1>4, <1>5, <1>6

\* What the turns of others leave alone.
LEMMA OthersKeepPace ==
  ASSUME NEW i \in DOMAIN Rows,
         (state[Rows[i]].tried => wish[Rows[i]].step # Stay)
           /\ (Decided(i) => state[Rows[i]].last = CellOf(pos[Rows[i]])) /\ Progress(i),
         state'[Rows[i]] = state[Rows[i]], wish'[Rows[i]] = wish[Rows[i]],
         pos'[Rows[i]] = pos[Rows[i]], steady'[Rows[i]] = steady[Rows[i]],
         Decided(i)' <=> Decided(i)
  PROVE  ((state[Rows[i]].tried => wish[Rows[i]].step # Stay)
           /\ (Decided(i) => state[Rows[i]].last = CellOf(pos[Rows[i]])) /\ Progress(i))'
<1>1. TurnsHere(i)' = TurnsHere(i)
  BY DEF TurnsHere
<1>2. CellOf(pos[Rows[i]])' = CellOf(pos[Rows[i]])
  BY DEF CellOf
<1>3. \A a \in {1, 2} :
        Gone(pos[Rows[i]], wish[Rows[i]].step, a)' = Gone(pos[Rows[i]], wish[Rows[i]].step, a)
  BY DEF Gone, Offset
<1>4. Pace(wish[Rows[i]].step)' = Pace(wish[Rows[i]].step)
  BY DEF Pace
<1>5. Progress(i)'
  BY <1>1, <1>2, <1>3, <1>4 DEF Progress
<1> QED BY <1>2, <1>5

LEMMA DecideKeepsPace ==
  ASSUME SlowInv, NEW i \in DOMAIN Rows, Decide(i)
  PROVE  ((state[Rows[i]].tried => wish[Rows[i]].step # Stay)
           /\ (Decided(i) => state[Rows[i]].last = CellOf(pos[Rows[i]])) /\ Progress(i))'
<1> DEFINE h == Rows[i]
           c == CellOf(pos[h])
           dead == deadTowers \cup SeenGone(c)
           mode == NextMode(state[h], hp[h])
           wp == NextWaypoint(state[h], c, mode)
           want == IF Holds(c, mode, dead) THEN Stay ELSE StepToward(c, Goal(c, mode, wp, dead))
           new == Steer(state[h], c, mode, wp, want)
<1>1. /\ h \in Heroes /\ pos[h] \in Int \X Int /\ wish[h].step \in Unit /\ state[h] \in HeroState
      /\ state[h].stuck \in Nat /\ steady[h] \in 0..StuckTicks
      /\ DOMAIN state = Heroes /\ DOMAIN wish = Heroes /\ DOMAIN steady = Heroes
  BY HeroTypes DEF SlowInv, TypeInv, HeroTypeOK
<1>2. /\ state' = [state EXCEPT ![h] = new.state] /\ wish' = [wish EXCEPT ![h] = new.wish]
      /\ steady' = IF new.wish.step = wish[h].step THEN steady ELSE [steady EXCEPT ![h] = 0]
      /\ pos' = pos /\ turn = <<"decide", i>>
      /\ turn' = IF i < Len(Rows) THEN <<"decide", i + 1>> ELSE <<"move", 1>>
  BY DEF Decide, Answer, bodyVars
<1>3. /\ new.state.last = c
      /\ new.state.tried => new.wish.step # Stay
      /\ \/ new.state.stuck = 0
         \/ state[h].tried /\ state[h].last = c /\ new.state.stuck = state[h].stuck + 1
  BY <1>1, SteerCounts
<1>4. i \in 1..Len(Rows) /\ Len(Rows) \in Nat
  BY RowsType
<1>5. Decided(i)' /\ ~Decided(i)
  BY <1>2, <1>4 DEF Decided
<1> HIDE DEF new
<1>6. /\ state'[h] = new.state /\ wish'[h] = new.wish /\ pos'[h] = pos[h]
      /\ steady'[h] = IF new.wish.step = wish[h].step THEN steady[h] ELSE 0
  BY <1>1, <1>2
<1>7. c' = c
  BY <1>2 DEF CellOf
<1>8. TurnsHere(i)' = new.state.stuck /\ TurnsHere(i) = state[h].stuck + 1
  BY <1>5, <1>6 DEF TurnsHere
<1>9. Progress(i)'
  <2>1. TypeInv'
    BY TypeDecide DEF SlowInv
  <2>2. wish'[h].step \in Unit /\ pos'[h] \in Int \X Int
    BY <2>1, <1>6, <1>1, UnitIsMoves DEF TypeInv, HeroTypeOK
  <2> SUFFICES ASSUME NEW n \in 0..StuckTicks, n <= new.state.stuck, n <= steady'[h],
                      NEW a \in {1, 2}, wish'[h].step[a] # 0
               PROVE  n * Pace(wish'[h].step) <= Gone(pos'[h], wish'[h].step, a)
    BY <1>8 DEF Progress, Gone, Offset, Pace
  <2>3. CASE n = 0
    BY <2>2, <2>3, FreshCount
  <2>4. CASE n # 0
    <3>1. StuckTicks \in Nat
      BY GaitTypes
    <3>2. n \in Nat /\ steady'[h] # 0 /\ new.state.stuck # 0
      <4>1. n \in Nat /\ 0 < n
        BY <2>4, <3>1
      <4>2. steady'[h] \in Nat /\ new.state.stuck \in Nat
        BY <1>1, <1>3, <1>6, <3>1
      <4> QED BY <4>1, <4>2
    <3>3. new.wish.step = wish[h].step /\ steady'[h] = steady[h]
      BY <3>2, <1>6
    <3>4. state[h].last = c /\ n <= state[h].stuck + 1
      BY <3>2, <1>3
    <3>5. Progress(i)
      BY DEF SlowInv, Paces
    <3> QED BY <3>3, <3>4, <3>5, <1>6, <1>8 DEF Progress
  <2> QED BY <2>3, <2>4
<1> QED BY <1>3, <1>6, <1>7, <1>9

LEMMA MoveKeepsPace ==
  ASSUME SlowInv, NEW i \in DOMAIN Rows, Move(i)
  PROVE  ((state[Rows[i]].tried => wish[Rows[i]].step # Stay)
           /\ (Decided(i) => state[Rows[i]].last = CellOf(pos[Rows[i]])) /\ Progress(i))'
<1> DEFINE h == Rows[i]
<1>1. /\ h \in Heroes /\ pos[h] \in Int \X Int /\ wish[h].step \in Unit
      /\ state[h].stuck \in Nat /\ steady[h] \in 0..StuckTicks
  BY HeroTypes DEF SlowInv
<1>2. /\ state' = state /\ wish' = wish /\ turn = <<"move", i>>
      /\ turn' = IF i < Len(Rows) THEN <<"move", i + 1>> ELSE <<"creeps", 1>>
  BY DEF Move, mindVars
<1>3. i \in 1..Len(Rows) /\ Len(Rows) \in Nat
  BY RowsType
<1>4. Decided(i) /\ ~Decided(i)'
  BY <1>2, <1>3 DEF Decided
<1>5. state[h].last = CellOf(pos[h]) /\ (state[h].tried => wish[h].step # Stay) /\ Progress(i)
  BY <1>4 DEF SlowInv, Paces
<1>6. PICK from, modifier : Turn(h, from, modifier)
  BY MoveIsTurn DEF SlowInv
<1> DEFINE dest == Shift(pos[h], Way(wish[h].step, modifier))
<1>7. /\ modifier \in Modifiers
      /\ \/ steady'[h] = 0
         \/ /\ pos'[h] = dest
            /\ steady'[h] = IF steady[h] < StuckTicks THEN steady[h] + 1 ELSE steady[h]
  <2>1. modifier \in Modifiers
    BY <1>6 DEF Turn
  <2> HIDE DEF h
  <2> QED BY <1>1, <1>6, <2>1, TurnEnds DEF SlowInv
<1>8. TurnsHere(i) = state[h].stuck /\ TurnsHere(i)' = state[h].stuck + 1
  BY <1>2, <1>4 DEF TurnsHere
<1>9. Progress(i)'
  <2>1. StuckTicks \in Nat
    BY GaitTypes
  <2>2. pos'[h] \in Int \X Int
    BY <1>1, TypeMove DEF SlowInv, TypeInv, HeroTypeOK
  <2> SUFFICES ASSUME state[h].last = CellOf(pos'[h]), NEW n \in 0..StuckTicks,
                      n <= state[h].stuck + 1, n <= steady'[h],
                      NEW a \in {1, 2}, wish[h].step[a] # 0
               PROVE  n * Pace(wish[h].step) <= Gone(pos'[h], wish[h].step, a)
    BY <1>2, <1>8 DEF Progress, Gone, Offset, Pace, CellOf
  <2>3. CASE n = 0
    BY <2>2, <2>3, <1>1, FreshCount
  <2>4. CASE n # 0
    <3>1. n \in Nat /\ n - 1 \in 0..StuckTicks /\ n - 1 <= state[h].stuck
      BY <2>1, <2>4, <1>1
    <3>2. steady'[h] # 0
      BY <2>1, <2>4, <1>1
    <3>3. pos'[h] = dest /\ n - 1 <= steady[h]
      <4> HIDE DEF dest
      <4> QED BY <1>1, <1>7, <2>1, <2>4, <3>2
    <3>4. CellOf(dest) = CellOf(pos[h])
      BY <3>3, <1>5
    <3>5. (n - 1) * Pace(wish[h].step) <= Gone(pos[h], wish[h].step, a)
      BY <3>1, <3>3, <1>5, <1>8 DEF Progress
    <3>6. Gone(pos[h], wish[h].step, a) + Pace(wish[h].step) <= Gone(dest, wish[h].step, a)
      <4> HIDE DEF h
      <4> QED BY <1>1, <1>7, <3>4, TurnCounts
    <3>7. /\ Pace(wish[h].step) \in Nat /\ Gone(pos[h], wish[h].step, a) \in Nat
          /\ Gone(dest, wish[h].step, a) \in Nat
      BY <1>1, <2>2, <3>3, PaceType, GoneInCell
    <3> HIDE DEF dest, h
    <3> QED BY <2>4, <3>1, <3>3, <3>5, <3>6, <3>7, StepsAgain
  <2> QED BY <2>3, <2>4
<1> QED BY <1>2, <1>4, <1>5, <1>9

\* Wounds, stuns, slows, deaths, creeps and towers: a hero is where it was,
\* or its count of steady turns starts anew.
LEMMA RestKeepsPace ==
  ASSUME SlowInv, TypeInv', NEW i \in DOMAIN Rows,
         Between \/ (\E wave \in Waves : CreepsMove(wave))
  PROVE  ((state[Rows[i]].tried => wish[Rows[i]].step # Stay)
           /\ (Decided(i) => state[Rows[i]].last = CellOf(pos[Rows[i]])) /\ Progress(i))'
<1> DEFINE h == Rows[i]
<1>1. /\ state' = state /\ wish' = wish /\ turn' = <<"decide", 1>>
      /\ turn = <<"decide", 1>> \/ turn[1] = "creeps"
  BY DEF Between, Wounded, Stunned, Slowed, Heals, Killed, TowerFalls, Mishap,
         BetweenTicks, CreepsMove, mindVars
<1>2. (pos'[h] = pos[h] /\ steady'[h] = steady[h]) \/ steady'[h] = 0
  <2>1. DOMAIN pos = Heroes /\ DOMAIN steady = Heroes
    BY DEF SlowInv, TypeInv, HeroTypeOK
  <2>2. ASSUME NEW g \in Heroes, NEW c, PutAt(g, c)
        PROVE  (pos'[h] = pos[h] /\ steady'[h] = steady[h]) \/ steady'[h] = 0
    BY <2>1, <2>2 DEF PutAt
  <2>3. (\E g \in Heroes, c \in Fountain : Killed(g, c)) => \E g \in Heroes : \E c : PutAt(g, c)
    BY DEF Killed
  <2>4. \/ pos' = pos /\ steady' = steady
        \/ \E g \in Heroes, c \in Fountain : Killed(g, c)
    BY DEF Between, Wounded, Stunned, Slowed, Heals, TowerFalls, CreepsMove, bodyVars
  <2> QED BY <2>2, <2>3, <2>4
<1>3. ~Decided(i) /\ ~Decided(i)'
  BY <1>1, RowsType DEF Decided
<1>4. (state[h].tried => wish[h].step # Stay) /\ Progress(i)
  BY DEF SlowInv, Paces
<1>5. CASE pos'[h] = pos[h] /\ steady'[h] = steady[h]
  BY <1>1, <1>3, <1>4, <1>5, OthersKeepPace
<1>6. CASE steady'[h] = 0
  <2>1. pos'[h] \in Int \X Int /\ wish[h].step \in Unit
    BY <1>1, RowsType, UnitIsMoves DEF TypeInv, HeroTypeOK
  <2>2. \A n \in 0..StuckTicks : n <= 0 => n \in Nat /\ n = 0
    BY GaitTypes
  <2>3. \A n \in 0..StuckTicks : n <= steady'[h] =>
          \A a \in {1, 2} : n * Pace(wish[h].step) <= Gone(pos'[h], wish[h].step, a)
    BY <1>6, <2>1, <2>2, FreshCount
  <2>4. Progress(i)'
    BY <1>1, <2>3 DEF Progress, Gone, Offset, Pace
  <2> QED BY <1>1, <1>3, <1>4, <2>4
<1> QED BY <1>2, <1>5, <1>6

LEMMA PacesNext == SlowInv /\ [HeroNext]_heroVars => SlowInv'
<1> SUFFICES ASSUME SlowInv, [HeroNext]_heroVars PROVE SlowInv'
  OBVIOUS
<1>1. TypeInv'
  BY TypeNext DEF SlowInv
<1> SUFFICES ASSUME NEW j \in DOMAIN Rows
             PROVE  ((state[Rows[j]].tried => wish[Rows[j]].step # Stay)
                      /\ (Decided(j) => state[Rows[j]].last = CellOf(pos[Rows[j]])) /\ Progress(j))'
  BY <1>1 DEF SlowInv, Paces
<1>2. /\ state[Rows[j]].tried => wish[Rows[j]].step # Stay
      /\ Decided(j) => state[Rows[j]].last = CellOf(pos[Rows[j]])
      /\ Progress(j)
  BY DEF SlowInv, Paces
<1>3. j \in 1..Len(Rows) /\ Len(Rows) \in Nat /\ Rows[j] \in Heroes
  BY RowsType
<1>4. ASSUME NEW i \in DOMAIN Rows, Decide(i) \/ Move(i), i # j
      PROVE  ((state[Rows[j]].tried => wish[Rows[j]].step # Stay)
               /\ (Decided(j) => state[Rows[j]].last = CellOf(pos[Rows[j]])) /\ Progress(j))'
  <2>1. Rows[j] # Rows[i] /\ i \in 1..Len(Rows)
    BY <1>4, RowsDiffer, RowsType
  <2>2. /\ DOMAIN pos = Heroes /\ DOMAIN state = Heroes /\ DOMAIN wish = Heroes
        /\ DOMAIN steady = Heroes
    BY DEF SlowInv, TypeInv, HeroTypeOK
  <2>3. /\ state'[Rows[j]] = state[Rows[j]] /\ wish'[Rows[j]] = wish[Rows[j]]
        /\ pos'[Rows[j]] = pos[Rows[j]] /\ steady'[Rows[j]] = steady[Rows[j]]
    <3>1. CASE Decide(i)
      BY <1>3, <2>1, <2>2, <3>1 DEF Decide, bodyVars
    <3>2. CASE Move(i)
      <4>1. PICK from, modifier : Turn(Rows[i], from, modifier)
        BY <3>2, MoveIsTurn DEF SlowInv
      <4>2. pos'[Rows[j]] = pos[Rows[j]] /\ steady'[Rows[j]] = steady[Rows[j]]
        BY <1>3, <2>1, <4>1, RowsType, TurnEnds DEF SlowInv
      <4> QED BY <3>2, <4>2 DEF Move, mindVars
    <3> QED BY <1>4, <3>1, <3>2
  <2>4. Decided(j)' <=> Decided(j)
    BY <1>3, <1>4, <2>1 DEF Decide, Move, Decided
  <2> QED BY <1>2, <2>3, <2>4, OthersKeepPace
<1>5. CASE Decide(j)
  BY <1>5, DecideKeepsPace
<1>6. CASE Move(j)
  BY <1>6, MoveKeepsPace
<1>7. CASE Between \/ \E wave \in Waves : CreepsMove(wave)
  BY <1>1, <1>7, RestKeepsPace
<1>8. CASE UNCHANGED heroVars
  <2>1. Decided(j)' <=> Decided(j)
    BY <1>8 DEF heroVars, Decided
  <2>2. state' = state /\ wish' = wish /\ pos' = pos /\ steady' = steady
    BY <1>8 DEF heroVars, bodyVars, mindVars
  <2> QED BY <1>2, <2>1, <2>2, OthersKeepPace
<1> QED BY <1>4, <1>5, <1>6, <1>7, <1>8 DEF HeroNext, Between

\* A detour starts after STUCK_TICKS turns in one cell: had they all been steady, the
\* hero would have left it.
LEMMA DetourFindsUnsteady ==
  ASSUME SlowInv, NEW i \in DOMAIN Rows, Decide(i), state'[Rows[i]].left = DetourTicks
  PROVE  steady[Rows[i]] < StuckTicks
<1> DEFINE h == Rows[i]
           step == wish[h].step
<1>1. /\ h \in Heroes /\ pos[h] \in Int \X Int /\ step \in Unit /\ state[h] \in HeroState
      /\ steady[h] \in 0..StuckTicks /\ state[h].stuck \in Nat /\ DOMAIN state = Heroes
  BY HeroTypes DEF SlowInv, TypeInv, HeroTypeOK
<1>2. state[h].tried /\ state[h].last = CellOf(pos[h]) /\ StuckTicks <= state[h].stuck + 1
  BY <1>1, SteerCounts DEF Decide, Answer
<1>3. ~Decided(i)
  BY RowsType DEF Decide, Decided
<1>4. TurnsHere(i) = state[h].stuck + 1 /\ step # Stay /\ Progress(i)
  BY <1>2, <1>3 DEF SlowInv, Paces, TurnsHere
<1>5. PICK a \in {1, 2} : step[a] # 0
  BY <1>1, <1>4 DEF Unit, Stay
<1> SUFFICES ASSUME ~(steady[h] < StuckTicks) PROVE FALSE
  OBVIOUS
<1>6. StuckTicks \in 0..StuckTicks /\ StuckTicks <= steady[h] /\ StuckTicks \in Nat
  BY <1>1, GaitTypes
<1>7. StuckTicks * Pace(step) <= Gone(pos[h], step, a)
  BY <1>2, <1>4, <1>5, <1>6 DEF Progress
<1>8. Gone(pos[h], step, a) \in 0..(Scale - 1) /\ Scale <= StuckTicks * Pace(step)
  BY <1>1, <1>5, GoneInCell, PaceType
<1>9. StuckTicks * Pace(step) \in Int /\ Scale \in Nat
  BY <1>1, <1>6, PaceType, GaitTypes
<1> QED BY <1>7, <1>8, <1>9

\* A slowed hero is not taken for a stuck one, on any map and at any slow gait that
\* crosses a cell within STUCK_TICKS turns.
THEOREM SlowHeroesAreNotStuck == HeroSpec => SlowIsNotStuck
<1>1. SlowInv /\ [HeroNext]_heroVars =>
        [\A h \in Heroes : DetourStarts(h) /\ state'[h] # state[h] => steady[h] < StuckTicks]_heroVars
  <2> SUFFICES ASSUME SlowInv, HeroNext, NEW h \in Heroes,
                      state'[h].left = DetourTicks, state'[h] # state[h]
               PROVE  steady[h] < StuckTicks
    BY DEF DetourStarts
  <2>1. PICK i \in DOMAIN Rows : Decide(i)
    BY DEF HeroNext, Wounded, Stunned, Slowed, Heals, Killed, TowerFalls, CreepsMove,
           Move, mindVars
  <2>2. h = Rows[i]
    BY <2>1 DEF Decide, SlowInv, TypeInv, HeroTypeOK
  <2> QED BY <2>1, <2>2, DetourFindsUnsteady
<1> QED BY <1>1, PacesInit, PacesNext, PTL DEF HeroSpec, SlowIsNotStuck

-----------------------------------------------------------------------------
(* NavGrid.  The search is a function over 0..Farthest; that it exists, and    *)
(* what it finds, follow by the least number at which they would fail.         *)

\* One more round of the search.
Grow(found) ==
  LET seen == UNION {found[j] : j \in DOMAIN found}
      last == found[Len(found)]
  IN IF last = {} THEN found
     ELSE Append(found, {c \in Cells \ (Blocked \cup seen) :
                           \E i \in 1..8 : Shift(c, Steps[i]) \in last})

Grows(f, goal, n) ==
  f = [k \in 0..n |-> IF k = 0 THEN << {goal} >> ELSE Grow(f[k - 1])]

LEMMA SearchExists ==
  ASSUME NEW goal
  PROVE  \E f : Grows(f, goal, Farthest)
<1>1. Farthest \in Nat
  BY HeroAssumption
<1> DEFINE T == {n \in Nat : ~(\E f : Grows(f, goal, n))}
<1> SUFFICES ASSUME T # {} PROVE FALSE
  BY <1>1
<1>2. PICK n \in T : \A m \in T : n <= m
  <2> T \in SUBSET Nat
    OBVIOUS
  <2> HIDE DEF T
  <2> QED BY LeastNatural
<1>3. n \in Nat /\ ~(\E f : Grows(f, goal, n))
  OBVIOUS
<1>4. CASE n = 0
  <2> DEFINE f == [k \in 0..0 |-> << {goal} >>]
  <2>1. f = [k \in 0..0 |-> IF k = 0 THEN << {goal} >> ELSE Grow(f[k - 1])]
    OBVIOUS
  <2> QED BY <2>1, <1>3, <1>4 DEF Grows
<1>5. CASE n # 0
  <2>1. n - 1 \in Nat /\ n - 1 \notin T
    BY <1>2, <1>3, <1>5
  <2>2. PICK g : Grows(g, goal, n - 1)
    BY <2>1
  <2> DEFINE f == [k \in 0..n |-> IF k = n THEN Grow(g[n - 1]) ELSE g[k]]
  <2>3. \A k \in 0..n : f[k] = IF k = 0 THEN << {goal} >> ELSE Grow(f[k - 1])
    <3> TAKE k \in 0..n
    <3>1. CASE k = n
      <4>1. f[n - 1] = g[n - 1] /\ f[n] = Grow(g[n - 1])
        BY <1>3, <1>5
      <4> QED BY <4>1, <3>1, <1>5
    <3>2. CASE k # n
      <4>1. k \in 0..(n - 1) /\ f[k] = g[k] /\ (k # 0 => f[k - 1] = g[k - 1])
        BY <3>2, <1>3
      <4>2. g[k] = IF k = 0 THEN << {goal} >> ELSE Grow(g[k - 1])
        BY <2>2, <4>1 DEF Grows
      <4> QED BY <4>1, <4>2
    <3> QED BY <3>1, <3>2
  <2>4. Grows(f, goal, n)
    <3>1. f = [k \in 0..n |-> f[k]]
      OBVIOUS
    <3> HIDE DEF f
    <3> QED BY <2>3, <3>1, Zenon DEF Grows
  <2> QED BY <2>4, <1>3
<1> QED BY <1>4, <1>5

\* The search is its rounds one after the other.
LEMMA SearchRounds ==
  ASSUME NEW goal
  PROVE  \E f : Grows(f, goal, Farthest) /\ Layers(goal) = f[Farthest]
<1> DEFINE f == CHOOSE g : Grows(g, goal, Farthest)
<1>1. Grows(f, goal, Farthest)
  BY SearchExists
<1>2. Layers(goal) = f[Farthest]
  BY DEF Layers, Grows, Grow
<1> QED BY <1>1, <1>2

NextTo(c, d) == \E i \in 1..8 : Shift(c, Steps[i]) = d

\* The layers after k rounds: the goal alone is the first; every other holds open
\* cells that step into the one before it; none holds a cell again; and what steps
\* into a layer is in the next one at the latest.
SearchOK(found, goal, k) ==
  /\ found \in Seq(SUBSET (Cells \cup {goal})) /\ Len(found) > 0 /\ found[1] = {goal}
  /\ Len(found) <= k + 1 /\ (found[Len(found)] # {} => Len(found) = k + 1)
  /\ \A m \in 2..Len(found) : \A c \in found[m] :
       c \in Cells \ Blocked /\ \E d \in found[m - 1] : NextTo(c, d)
  /\ \A j, m \in 1..Len(found) : \A c : c \in found[j] /\ c \in found[m] => j = m
  /\ \A m \in 1..(Len(found) - 1) : \A c \in Cells \ Blocked, d \in found[m] :
       NextTo(c, d) => \E j \in 1..(m + 1) : c \in found[j]

LEMMA GrowKeeps ==
  ASSUME NEW found, NEW goal, NEW k \in Nat, SearchOK(found, goal, k)
  PROVE  SearchOK(Grow(found), goal, k + 1)
<1> DEFINE seen == UNION {found[j] : j \in DOMAIN found}
           last == found[Len(found)]
           layer == {c \in Cells \ (Blocked \cup seen) :
                       \E i \in 1..8 : Shift(c, Steps[i]) \in last}
           new == Append(found, layer)
           L == Len(found)
<1>1. /\ found \in Seq(SUBSET (Cells \cup {goal})) /\ L \in Nat /\ L > 0 /\ found[1] = {goal}
      /\ DOMAIN found = 1..L
  BY DEF SearchOK
<1>2. CASE last = {}
  <2>1. Grow(found) = found
    BY <1>2 DEF Grow
  <2>2. L <= k + 1 + 1
    <3>1. L <= k + 1
      BY DEF SearchOK
    <3> HIDE DEF L
    <3> QED BY <3>1, <1>1
  <2> QED BY <2>1, <2>2, <1>2 DEF SearchOK
<1>3. CASE last # {}
  <2>1. Grow(found) = new
    BY <1>3 DEF Grow
  <2>2. layer \in SUBSET (Cells \cup {goal})
    OBVIOUS
  <2>3. layer \subseteq Cells \ Blocked /\ layer \cap seen = {}
    OBVIOUS
  <2>4. \A c \in layer : \E d \in last : NextTo(c, d)
    BY DEF NextTo
  <2>5. \A c \in Cells \ Blocked, d \in last : NextTo(c, d) => c \in seen \/ c \in layer
    BY DEF NextTo
  <2>6. \A c : c \in seen <=> \E j \in 1..L : c \in found[j]
    BY <1>1
  <2>7. L = k + 1
    BY <1>3 DEF SearchOK
  <2> HIDE DEF layer, seen
  <2>8. /\ new \in Seq(SUBSET (Cells \cup {goal})) /\ Len(new) = L + 1 /\ new[L + 1] = layer
        /\ \A j \in 1..L : new[j] = found[j]
    BY <1>1, <2>2, AppendProperties
  <2> HIDE DEF new
  <2>9. new[1] = {goal} /\ Len(new) > 0 /\ Len(new) = (k + 1) + 1
    BY <1>1, <2>7, <2>8
  <2>10. ASSUME NEW m \in 2..Len(new), NEW c \in new[m]
         PROVE  c \in Cells \ Blocked /\ \E d \in new[m - 1] : NextTo(c, d)
    <3>1. CASE m = L + 1
      BY <3>1, <1>1, <2>3, <2>4, <2>8
    <3>2. CASE m # L + 1
      <4>1. m \in 2..L /\ m \in 1..L /\ m - 1 \in 1..L
        BY <3>2, <1>1, <2>8
      <4>2. new[m] = found[m] /\ new[m - 1] = found[m - 1]
        BY <4>1, <2>8
      <4> QED BY <4>1, <4>2, <2>10 DEF SearchOK
    <3> QED BY <3>1, <3>2
  <2>11. ASSUME NEW j \in 1..Len(new), NEW m \in 1..Len(new), NEW c, c \in new[j], c \in new[m]
         PROVE  j = m
    <3>1. \A e \in 1..Len(new) : e = L + 1 \/ e \in 1..L
      BY <1>1, <2>8
    <3>2. \A e \in 1..L : c \in new[e] => c \in seen
      BY <2>6, <2>8
    <3>3. c \in new[L + 1] => c \notin seen
      BY <2>3, <2>8
    <3>4. CASE j \in 1..L /\ m \in 1..L
      BY <3>4, <2>8, <2>11 DEF SearchOK
    <3> QED BY <3>1, <3>2, <3>3, <3>4, <2>11
  <2>12. ASSUME NEW m \in 1..(Len(new) - 1), NEW c \in Cells \ Blocked, NEW d \in new[m], NextTo(c, d)
         PROVE  \E j \in 1..(m + 1) : c \in new[j]
    <3>1. m \in 1..L /\ d \in found[m]
      BY <1>1, <2>8
    <3>2. CASE m = L
      <4>1. c \in seen \/ c \in layer
        BY <3>1, <3>2, <2>5, <2>12
      <4>2. \A j \in 1..L : j \in 1..(m + 1)
        BY <3>2, <1>1
      <4>3. L + 1 \in 1..(m + 1)
        BY <3>2, <1>1
      <4> QED BY <4>1, <4>2, <4>3, <2>6, <2>8
    <3>3. CASE m # L
      <4>1. m \in 1..(L - 1)
        <5>1. m \in 1..L /\ L \in Nat
          BY <3>1, <1>1
        <5> HIDE DEF L
        <5> QED BY <5>1, <3>3
      <4>2. PICK j \in 1..(m + 1) : c \in found[j]
        BY <4>1, <3>1, <2>12 DEF SearchOK
      <4>3. j \in 1..L
        BY <4>1, <1>1
      <4> QED BY <4>2, <4>3, <2>8
    <3> QED BY <3>2, <3>3
  <2>13. Len(new) <= (k + 1) + 1
    BY <2>9
  <2> QED BY <2>1, <2>8, <2>9, <2>10, <2>11, <2>12, <2>13 DEF SearchOK
<1> QED BY <1>2, <1>3

LEMMA SearchFinds ==
  ASSUME NEW goal
  PROVE  SearchOK(Layers(goal), goal, Farthest)
<1>1. Farthest \in Nat
  BY HeroAssumption
<1>2. PICK f : Grows(f, goal, Farthest) /\ Layers(goal) = f[Farthest]
  BY SearchRounds
<1> DEFINE T == {n \in 0..Farthest : ~SearchOK(f[n], goal, n)}
<1> SUFFICES ASSUME T # {} PROVE FALSE
  BY <1>1, <1>2
<1>3. PICK n \in T : \A m \in T : n <= m
  <2> T \in SUBSET Nat
    OBVIOUS
  <2> HIDE DEF T
  <2> QED BY LeastNatural
<1>4. n \in 0..Farthest /\ ~SearchOK(f[n], goal, n) /\ n \in Nat
  OBVIOUS
<1>5. f[n] = IF n = 0 THEN << {goal} >> ELSE Grow(f[n - 1])
  BY <1>2, <1>4 DEF Grows
<1>6. CASE n = 0
  <2>1. f[n] = << {goal} >>
    BY <1>5, <1>6
  <2>2. << {goal} >> \in Seq(SUBSET (Cells \cup {goal})) /\ Len(<< {goal} >>) = 1
    OBVIOUS
  <2>3. << {goal} >>[1] = {goal}
    OBVIOUS
  <2>4. SearchOK(<< {goal} >>, goal, 0)
    BY <2>2, <2>3 DEF SearchOK
  <2> QED BY <2>1, <2>4, <1>4, <1>6
<1>7. CASE n # 0
  <2>1. n - 1 \in Nat /\ n - 1 \in 0..Farthest /\ n - 1 \notin T
    BY <1>1, <1>3, <1>4, <1>7
  <2>2. SearchOK(f[n - 1], goal, n - 1)
    BY <2>1
  <2>3. SearchOK(Grow(f[n - 1]), goal, (n - 1) + 1)
    BY <2>1, <2>2, GrowKeeps
  <2>4. (n - 1) + 1 = n
    BY <1>4
  <2> QED BY <2>3, <2>4, <1>4, <1>5, <1>7
<1> QED BY <1>6, <1>7

\* The table holds the search of every goal, and a cell is in one layer of it only.
LEMMA FieldIsSearch ==
  ASSUME NEW goal \in Goals
  PROVE  NavField(goal) = Layers(goal)
<1> DEFINE field == [goal |-> goal, layers |-> Layers(goal)]
<1>1. field \in NavGrid /\ field.goal = goal
  BY DEF NavGrid
<1>2. \A n \in NavGrid : n.goal = goal => n.layers = Layers(goal)
  BY DEF NavGrid
<1> QED BY <1>1, <1>2 DEF NavField

LEMMA CostIs ==
  ASSUME NEW goal \in Goals, NEW c
  PROVE  LET found == Layers(goal)
         IN /\ \A k \in 1..Len(found) : c \in found[k] => Reached(goal, c) /\ Cost(goal, c) = k
            /\ Reached(goal, c) => Cost(goal, c) \in 1..Len(found) /\ c \in found[Cost(goal, c)]
<1> DEFINE found == Layers(goal)
<1>1. SearchOK(found, goal, Farthest) /\ NavField(goal) = found
  BY SearchFinds, FieldIsSearch
<1> HIDE DEF found
<1>2. DOMAIN found = 1..Len(found)
  BY <1>1 DEF SearchOK
<1>3. Costs(goal, c) = {k \in 1..Len(found) : c \in found[k]}
  BY <1>1, <1>2 DEF Costs
<1>4. \A j, m \in Costs(goal, c) : j = m
  BY <1>1, <1>3 DEF SearchOK
<1>5. Reached(goal, c) => Cost(goal, c) \in Costs(goal, c)
  BY DEF Reached, Cost
<1>6. \A k \in Costs(goal, c) : Reached(goal, c)
  BY DEF Reached
<1> QED BY <1>3, <1>4, <1>5, <1>6 DEF found

\* A reached cell but the goal is open, and cells next to one another differ by one
\* in their cost at most.
LEMMA CostsOfNeighbours ==
  ASSUME NEW goal \in Goals, NEW c, Reached(goal, c), c # goal
  PROVE  /\ c \in Cells \ Blocked /\ Cost(goal, c) \in Nat /\ Cost(goal, c) > 1
         /\ \E i \in 1..8 : /\ Reached(goal, Shift(c, Steps[i]))
                            /\ Cost(goal, Shift(c, Steps[i])) = Cost(goal, c) - 1
         /\ \A i \in 1..8 : Reached(goal, Shift(c, Steps[i])) =>
              /\ Cost(goal, Shift(c, Steps[i])) \in Nat
              /\ Cost(goal, c) - 1 <= Cost(goal, Shift(c, Steps[i]))
<1> DEFINE found == Layers(goal)
           k == Cost(goal, c)
<1>1. SearchOK(found, goal, Farthest)
  BY SearchFinds
<1>2. k \in 1..Len(found) /\ c \in found[k]
  BY CostIs
<1>3. Len(found) \in Nat /\ found[1] = {goal}
  BY <1>1 DEF SearchOK
<1>4. k # 1
  BY <1>2, <1>3
<1> HIDE DEF found, k
<1>5. k \in 2..Len(found) /\ k - 1 \in 1..Len(found)
  BY <1>2, <1>3, <1>4
<1>6. c \in Cells \ Blocked
  BY <1>1, <1>2, <1>5 DEF SearchOK
<1>7. PICK d \in found[k - 1] : NextTo(c, d)
  BY <1>1, <1>2, <1>5 DEF SearchOK
<1>8. PICK e \in 1..8 : Shift(c, Steps[e]) = d
  BY <1>7 DEF NextTo
<1>9. Reached(goal, d) /\ Cost(goal, d) = k - 1
  BY <1>5, <1>7, CostIs DEF found
<1>10. ASSUME NEW i \in 1..8, Reached(goal, Shift(c, Steps[i]))
       PROVE  Cost(goal, Shift(c, Steps[i])) \in Nat /\ k - 1 <= Cost(goal, Shift(c, Steps[i]))
  <2> DEFINE n == Shift(c, Steps[i])
             m == Cost(goal, n)
  <2>1. m \in 1..Len(found) /\ n \in found[m]
    BY <1>10, CostIs DEF found
  <2>2. NextTo(c, n)
    BY DEF NextTo
  <2> HIDE DEF n, m
  <2>3. m \in Nat
    BY <2>1, <1>3
  <2>4. CASE m = Len(found)
    BY <2>3, <2>4, <1>3, <1>5 DEF m, n
  <2>5. CASE m # Len(found)
    <3>1. m \in 1..(Len(found) - 1)
      BY <2>1, <2>5, <1>3
    <3>2. PICK j \in 1..(m + 1) : c \in found[j]
      BY <3>1, <2>1, <2>2, <1>1, <1>6 DEF SearchOK
    <3>3. j \in 1..Len(found)
      BY <3>1, <1>3
    <3>4. j = k
      BY <3>2, <3>3, <1>1, <1>2 DEF SearchOK
    <3> QED BY <3>4, <2>3 DEF m, n
  <2> QED BY <2>4, <2>5
<1>11. k \in Nat /\ k > 1
  BY <1>5
<1> QED BY <1>6, <1>8, <1>9, <1>10, <1>11 DEF k

\* Among the steps to reached cells there is one that is downhill.
LEMMA DownhillExists ==
  ASSUME NEW c, NEW goal, NEW e \in 1..8, Reached(goal, Shift(c, Steps[e])),
         \A i \in 1..8 : Reached(goal, Shift(c, Steps[i])) =>
                           Cost(goal, Shift(c, Steps[i])) \in Nat
  PROVE  Downhill(c, goal) # {}
<1> DEFINE open == {i \in 1..8 : Reached(goal, Shift(c, Steps[i]))}
           cost == [i \in open |-> Cost(goal, Shift(c, Steps[i]))]
<1>1. /\ open \subseteq 1..8 /\ e \in open
      /\ \A i \in open : cost[i] \in Nat
  OBVIOUS
<1>2. Downhill(c, goal) =
        {i \in open : \A j \in open : cost[i] < cost[j] \/ (cost[i] = cost[j] /\ i <= j)}
  BY DEF Downhill
<1> HIDE DEF open, cost
<1>3. PICK n \in {cost[i] : i \in open} : \A m \in {cost[i] : i \in open} : n <= m
  <2> DEFINE S == {cost[i] : i \in open}
  <2>1. S \in SUBSET Nat /\ S # {}
    BY <1>1
  <2> HIDE DEF S
  <2> QED BY <2>1, LeastNatural DEF S
<1> DEFINE least == {i \in open : cost[i] = n}
<1>4. PICK i \in least : \A j \in least : i <= j
  <2>1. open \subseteq Nat
    BY <1>1
  <2>2. \E j \in open : cost[j] = n
    BY <1>3
  <2>3. least \in SUBSET Nat /\ least # {}
    BY <2>1, <2>2
  <2> HIDE DEF least
  <2> QED BY <2>3, LeastNatural
<1>5. ASSUME NEW j \in open PROVE cost[i] < cost[j] \/ (cost[i] = cost[j] /\ i <= j)
  <2>1. cost[i] = n /\ n <= cost[j] /\ n \in Nat /\ cost[j] \in Nat
    BY <1>1, <1>3, <1>4
  <2> QED BY <2>1, <1>4
<1> QED BY <1>2, <1>4, <1>5

\* step_toward, from a cell the search has reached: one step down a shortest way,
\* onto an open cell.
LEMMA StepTowardIsDownhill ==
  ASSUME NEW goal \in Goals, NEW c \in Int \X Int, goal \in Int \X Int,
         Reached(goal, c), ~(Dist(c, goal) <= 1)
  PROVE  LET next == Shift(c, StepToward(c, goal))
         IN /\ StepToward(c, goal) # Stay /\ next \in Cells \ Blocked
            /\ Reached(goal, next) /\ Cost(goal, next) = Cost(goal, c) - 1
<1> DEFINE k == Cost(goal, c)
           best == {i \in Downhill(c, goal) :
                      \/ ~Reached(goal, c)
                      \/ Cost(goal, Shift(c, Steps[i])) < Cost(goal, c)}
<1>1. \A d \in Int \X Int : ~(Dist(d, d) > 0)
  BY DEF Dist, AbsVal, Larger
<1>2. c # goal
  BY <1>1, DistType
<1>3. /\ k \in Nat /\ k > 1
      /\ \A i \in 1..8 : Reached(goal, Shift(c, Steps[i])) =>
           Cost(goal, Shift(c, Steps[i])) \in Nat /\ k - 1 <= Cost(goal, Shift(c, Steps[i]))
  BY <1>2, CostsOfNeighbours
<1>4. PICK e \in 1..8 : Reached(goal, Shift(c, Steps[e])) /\ Cost(goal, Shift(c, Steps[e])) = k - 1
  BY <1>2, CostsOfNeighbours
<1>5. Downhill(c, goal) # {}
  BY <1>3, <1>4, DownhillExists
<1>6. \A i \in Downhill(c, goal) :
        /\ i \in 1..8 /\ Reached(goal, Shift(c, Steps[i]))
        /\ Cost(goal, Shift(c, Steps[i])) <= Cost(goal, Shift(c, Steps[e]))
  <2> DEFINE open == {i \in 1..8 : Reached(goal, Shift(c, Steps[i]))}
             cost == [i \in open |-> Cost(goal, Shift(c, Steps[i]))]
  <2>1. /\ open \subseteq 1..8 /\ e \in open
        /\ \A i \in open : /\ cost[i] = Cost(goal, Shift(c, Steps[i])) /\ cost[i] \in Nat
                           /\ Reached(goal, Shift(c, Steps[i]))
    BY <1>3, <1>4
  <2>2. Downhill(c, goal) =
          {i \in open : \A j \in open : cost[i] < cost[j] \/ (cost[i] = cost[j] /\ i <= j)}
    BY DEF Downhill
  <2> HIDE DEF open, cost
  <2>3. \A i \in Downhill(c, goal) : i \in open /\ (cost[i] < cost[e] \/ cost[i] = cost[e])
    BY <2>1, <2>2
  <2>4. \A i \in Downhill(c, goal) : i \in open /\ cost[i] <= cost[e]
    <3> TAKE i \in Downhill(c, goal)
    <3>1. cost[i] \in Nat /\ cost[e] \in Nat /\ (cost[i] < cost[e] \/ cost[i] = cost[e])
      BY <2>1, <2>3
    <3> QED BY <2>3, <3>1
  <2> QED BY <2>1, <2>4
<1> HIDE DEF k
<1>7. \A i \in Downhill(c, goal) : i \in 1..8 /\ Reached(goal, Shift(c, Steps[i]))
                                   /\ Cost(goal, Shift(c, Steps[i])) = k - 1
  <2> TAKE i \in Downhill(c, goal)
  <2>1. i \in 1..8 /\ Reached(goal, Shift(c, Steps[i]))
        /\ Cost(goal, Shift(c, Steps[i])) <= k - 1
    BY <1>4, <1>6
  <2>2. Cost(goal, Shift(c, Steps[i])) \in Nat /\ k - 1 <= Cost(goal, Shift(c, Steps[i]))
    BY <2>1, <1>3
  <2> QED BY <2>1, <2>2, <1>3
<1>8. best = Downhill(c, goal)
  BY <1>3, <1>7 DEF k
<1>9. StepToward(c, goal) = Steps[CHOOSE i \in best : TRUE]
  BY <1>5, <1>8 DEF StepToward
<1>10. PICK i \in Downhill(c, goal) : StepToward(c, goal) = Steps[i]
  <2> HIDE DEF best
  <2>1. (CHOOSE i \in best : TRUE) \in Downhill(c, goal)
    BY <1>5, <1>8
  <2> QED BY <2>1, <1>9
<1>11. Reached(goal, Shift(c, Steps[i])) /\ Cost(goal, Shift(c, Steps[i])) = k - 1 /\ i \in 1..8
  BY <1>7
<1>12. Steps[i] # Stay
  BY <1>11 DEF Steps, Stay
<1>13. Shift(c, Steps[i]) # goal
  <2> SUFFICES ASSUME goal = Shift(c, Steps[i]) PROVE FALSE
    OBVIOUS
  <2>1. Steps[i] \in Unit
    BY <1>11, StepsAreMoves DEF Unit
  <2>2. \A u \in Unit : Dist(c, Shift(c, u)) <= 1
    BY DEF Unit, Dist, Shift, AbsVal, Larger
  <2> QED BY <2>1, <2>2
<1>14. Shift(c, Steps[i]) \in Cells \ Blocked
  BY <1>11, <1>13, CostsOfNeighbours
<1> QED BY <1>10, <1>11, <1>12, <1>14 DEF k

\* The cost of a cell is the length of a shortest way to it: no way of open cells
\* from the goal's side leads to a cell in fewer steps than its cost says.
THEOREM CostIsShortest ==
  ASSUME NEW goal \in Goals, NEW way \in Seq(Cells \ Blocked),
         Len(way) > 0, Len(way) <= Farthest, NextTo(way[1], goal),
         \A i \in 1..(Len(way) - 1) : NextTo(way[i + 1], way[i])
  PROVE  Reached(goal, way[Len(way)]) /\ Cost(goal, way[Len(way)]) <= Len(way) + 1
<1> DEFINE found == Layers(goal)
           L == Len(found)
           W == Len(way)
           Late(n) == ~(\E j \in 1..(n + 1) : j <= L /\ way[n] \in found[j])
           T == {n \in 1..W : Late(n)}
<1>1. SearchOK(found, goal, Farthest) /\ Farthest \in Nat
  BY SearchFinds, HeroAssumption
<1>2. /\ L \in Nat /\ L > 0 /\ found[1] = {goal} /\ W \in Nat
      /\ \A n \in 1..W : way[n] \in Cells \ Blocked
  BY <1>1 DEF SearchOK
<1>3. ASSUME NEW m \in 1..L, NEW d \in found[m], NEW c \in Cells \ Blocked,
             NextTo(c, d), m <= Farthest
      PROVE  \E j \in 1..(m + 1) : j <= L /\ c \in found[j]
  <2> HIDE DEF found
  <2>1. m # L
    <3> SUFFICES ASSUME m = L PROVE FALSE
      OBVIOUS
    <3>1. found[L] # {}
      OBVIOUS
    <3>2. L = Farthest + 1
      BY <3>1, <1>1 DEF SearchOK
    <3> HIDE DEF L
    <3> QED BY <3>2, <1>1, <1>3
  <2>2. m \in 1..(L - 1)
    <3> HIDE DEF L
    <3> QED BY <2>1, <1>2
  <2>3. PICK j \in 1..(m + 1) : c \in found[j]
    <3>1. \A n \in 1..(L - 1) : \A b \in Cells \ Blocked, a \in found[n] :
            NextTo(b, a) => \E j \in 1..(n + 1) : b \in found[j]
      BY <1>1 DEF SearchOK
    <3> HIDE DEF L
    <3> QED BY <3>1, <2>2, <1>3
  <2>4. j <= L
    <3> HIDE DEF L
    <3> QED BY <2>2, <1>2
  <2> QED BY <2>3, <2>4
<1> HIDE DEF L
<1>4. T = {}
  <2> SUFFICES ASSUME T # {} PROVE FALSE
    OBVIOUS
  <2>1. PICK n \in T : \A m \in T : n <= m
    <3>1. T \in SUBSET Nat
      BY <1>2
    <3> HIDE DEF T
    <3> QED BY <3>1, LeastNatural
  <2>2. n \in 1..W /\ n \in Nat /\ Late(n)
    BY <1>2
  <2>3. CASE n = 1
    <3>1. 1 \in 1..L /\ goal \in found[1] /\ 1 <= Farthest
      BY <1>1, <1>2
    <3>2. \E j \in 1..(1 + 1) : j <= L /\ way[1] \in found[j]
      BY <3>1, <2>2, <2>3, <1>2, <1>3
    <3> QED BY <3>2, <2>2, <2>3
  <2>4. CASE n # 1
    <3>1. n - 1 \in 1..W /\ n - 1 \in 1..(W - 1) /\ ~(n <= n - 1) /\ (n - 1) + 1 = n
      BY <2>2, <2>4, <1>2
    <3>2. ~Late(n - 1)
      BY <3>1, <2>1
    <3>3. PICK j \in 1..n : j <= L /\ way[n - 1] \in found[j]
      BY <3>1, <3>2
    <3>4. j \in 1..L /\ j <= Farthest
      <4>1. n - 1 <= W /\ W <= Farthest /\ n <= W
        BY <2>2, <1>2
      <4> QED BY <4>1, <3>3, <2>2, <1>1, <1>2
    <3>5. NextTo(way[n], way[n - 1])
      BY <3>1
    <3>6. PICK m \in 1..(j + 1) : m <= L /\ way[n] \in found[m]
      BY <3>3, <3>4, <3>5, <2>2, <1>2, <1>3
    <3>7. m \in 1..(n + 1)
      BY <3>3, <3>6, <2>2
    <3> QED BY <3>6, <3>7, <2>2
  <2> QED BY <2>3, <2>4
<1>5. W \in 1..W
  BY <1>2
<1>6. PICK j \in 1..(W + 1) : j <= L /\ way[W] \in found[j]
  BY <1>4, <1>5
<1>7. j \in 1..L
  BY <1>6, <1>2
<1>8. Reached(goal, way[W]) /\ Cost(goal, way[W]) = j
  BY <1>6, <1>7, CostIs DEF L
<1> QED BY <1>6, <1>8, <1>2

LEMMA GoalsAreInts ==
  /\ Goals \subseteq Int \X Int
  /\ Spawn \in Goals /\ (\A t \in Towers : TowerCell[t] \in Goals)
  /\ \A i \in DOMAIN Lane : CellOf(Lane[i]) \in Goals
<1>1. \A i \in DOMAIN Lane : Lane[i] \in UnitCells
  BY PlaceAssumption
<1>2. \A p \in UnitCells : CellOf(p) \in Int \X Int
  <2> TAKE p \in UnitCells
  <2>1. \A s \in Nat \ {0}, n \in Int : n \div s \in Int
    OBVIOUS
  <2>2. p[1] \in Int /\ p[2] \in Int
    BY HeroAssumption DEF UnitCells
  <2> QED BY <2>1, <2>2, GaitTypes DEF CellOf
<1>3. Spawn \in Int \X Int
  BY PlaceAssumption, CellsAreInts
<1> QED BY <1>1, <1>2, <1>3, TowerCells DEF Goals

\* Wherever a row goes, the table has a field for it.
LEMMA GoalHasField ==
  ASSUME NEW c \in Int \X Int, NEW mode, NEW wp, NEW dead,
         mode = RETREAT \/ wp \in 1..(Len(Lane) + 1)
  PROVE  Goal(c, mode, wp, dead) \in Goals
<1> DEFINE near == {t \in NearestTower(c, dead) : Dist(TowerCell[t], c) <= SiegeStandoff}
           engaged == {t \in near : Engaged(c, t)}
           siege == CHOOSE t \in engaged : TRUE
<1>1. engaged \subseteq Towers
  BY PlaceAssumption DEF NearestTower
<1>2. mode = RETREAT \/ PushGoal(wp) \in Goals
  <2>1. wp \in 1..(Len(Lane) + 1) /\ wp <= Len(Lane) => wp \in DOMAIN Lane
    BY LaneLength
  <2>2. Ancient \in Towers
    BY PlaceAssumption
  <2> QED BY <2>1, <2>2, GoalsAreInts DEF PushGoal
<1>3. engaged # {} => siege \in Towers
  <2> HIDE DEF engaged
  <2> QED BY <1>1
<1>4. Goal(c, mode, wp, dead) = IF mode = RETREAT THEN Spawn
                                ELSE IF engaged # {} THEN TowerCell[siege]
                                ELSE IF near # {} THEN Spawn
                                ELSE PushGoal(wp)
  BY DEF Goal
<1> HIDE DEF siege, engaged, near
<1> QED BY <1>2, <1>3, <1>4, GoalsAreInts

\* The goal of the row whose turn it is to decide, as the decision leaves it.
NextGoal(h) == Goal(CellOf(pos[h]), state'[h].mode, state'[h].wp, deadTowers')

\* A row that walks and is not on a detour walks a shortest way to its goal, over
\* open cells, from wherever the search has a way at all.
WalksShortestWay ==
  [][\A i \in DOMAIN Rows :
       LET h == Rows[i]
           c == CellOf(pos[h])
           next == Shift(c, wish'[h].step)
       IN Decide(i) /\ ~wish'[h].rotated /\ wish'[h].step # Stay /\ Reached(NextGoal(h), c) =>
            /\ next \in Cells \ Blocked
            /\ Reached(NextGoal(h), next)
            /\ Cost(NextGoal(h), next) = Cost(NextGoal(h), c) - 1]_heroVars

LEMMA DecideWalks ==
  ASSUME TypeInv, NEW i \in DOMAIN Rows, Decide(i), ~wish'[Rows[i]].rotated,
         wish'[Rows[i]].step # Stay, Reached(NextGoal(Rows[i]), CellOf(pos[Rows[i]]))
  PROVE  LET c == CellOf(pos[Rows[i]])
             next == Shift(c, wish'[Rows[i]].step)
         IN /\ next \in Cells \ Blocked
            /\ Reached(NextGoal(Rows[i]), next)
            /\ Cost(NextGoal(Rows[i]), next) = Cost(NextGoal(Rows[i]), c) - 1
<1> DEFINE h == Rows[i]
           c == CellOf(pos[h])
           dead == deadTowers \cup SeenGone(c)
           mode == NextMode(state[h], hp[h])
           wp == NextWaypoint(state[h], c, mode)
           goal == Goal(c, mode, wp, dead)
           want == IF Holds(c, mode, dead) THEN Stay ELSE StepToward(c, goal)
           new == Steer(state[h], c, mode, wp, want)
<1>1. /\ h \in Heroes /\ c \in Cells /\ c \in Int \X Int /\ state[h] \in HeroState
      /\ DOMAIN state = Heroes /\ DOMAIN wish = Heroes
  BY RowsType, CellsAreInts DEF TypeInv, HeroTypeOK, OnMap
<1>2. /\ state' = [state EXCEPT ![h] = new.state] /\ wish' = [wish EXCEPT ![h] = new.wish]
      /\ deadTowers' = dead
  BY DEF Decide, Answer
<1>3. new.state.mode = mode /\ new.state.wp = wp /\ (~new.wish.rotated => new.wish.step = want)
  BY DEF Steer
<1>4. mode \in {PUSH, RETREAT}
  BY <1>1 DEF NextMode, HeroState
<1>5. mode = RETREAT \/ wp \in 1..(Len(Lane) + 1)
  <2> HIDE DEF h, c, mode
  <2> QED BY <1>1, <1>4, NextWaypointType
<1>6. goal \in Goals /\ goal \in Int \X Int
  <2> HIDE DEF c, mode, wp, dead
  <2> QED BY <1>1, <1>5, GoalHasField, GoalsAreInts
<1>7. want # Stay => ~(Dist(c, goal) <= 1) /\ want = StepToward(c, goal)
  BY DEF StepToward
<1> HIDE DEF new
<1>8. state'[h] = new.state /\ wish'[h] = new.wish
  BY <1>1, <1>2
<1>9. NextGoal(h) = goal
  BY <1>2, <1>3, <1>8 DEF NextGoal
<1>10. wish'[h].step = want /\ want # Stay
  BY <1>3, <1>8
<1> HIDE DEF goal, want, c, h
<1>11. Reached(goal, c)
  BY <1>9 DEF h, c
<1>12. /\ Shift(c, StepToward(c, goal)) \in Cells \ Blocked
       /\ Reached(goal, Shift(c, StepToward(c, goal)))
       /\ Cost(goal, Shift(c, StepToward(c, goal))) = Cost(goal, c) - 1
  BY <1>1, <1>6, <1>7, <1>10, <1>11, StepTowardIsDownhill
<1> QED BY <1>7, <1>9, <1>10, <1>12 DEF h, c

\* On any map, with any lane and any towers, step_toward never leads a hero astray:
\* the cell each decided step points at is open and one nearer to the goal of the
\* moment.  A hasted or diagonal turn may end beyond that cell or short of it.
THEOREM HeroesWalkShortestWays == HeroSpec => WalksShortestWay
<1>1. TypeInv /\ [HeroNext]_heroVars =>
        [\A i \in DOMAIN Rows :
           LET h == Rows[i]
               c == CellOf(pos[h])
               next == Shift(c, wish'[h].step)
           IN Decide(i) /\ ~wish'[h].rotated /\ wish'[h].step # Stay /\ Reached(NextGoal(h), c) =>
                /\ next \in Cells \ Blocked
                /\ Reached(NextGoal(h), next)
                /\ Cost(NextGoal(h), next) = Cost(NextGoal(h), c) - 1]_heroVars
  <2> SUFFICES ASSUME TypeInv, NEW i \in DOMAIN Rows, Decide(i), ~wish'[Rows[i]].rotated,
                      wish'[Rows[i]].step # Stay, Reached(NextGoal(Rows[i]), CellOf(pos[Rows[i]]))
               PROVE  LET c == CellOf(pos[Rows[i]])
                          next == Shift(c, wish'[Rows[i]].step)
                      IN /\ next \in Cells \ Blocked
                         /\ Reached(NextGoal(Rows[i]), next)
                         /\ Cost(NextGoal(Rows[i]), next) = Cost(NextGoal(Rows[i]), c) - 1
    OBVIOUS
  <2> QED BY DecideWalks
<1> QED BY <1>1, TypeInit, TypeNext, PTL DEF HeroSpec, WalksShortestWay
=============================================================================
