----------------------------- MODULE ScriptedHero -----------------------------
(***************************************************************************)
(* The scripted player (players/scripted_player.py): the heroes of one     *)
(* seat push their lane to the enemy ancient, hold out of the range of     *)
(* towers until a creep wave engages them, retreat when hurt, and detour   *)
(* when stuck.  The towers they have seen dead are remembered for all.     *)
(*                                                                         *)
(* A policy knows cells only: the observation's x and y are truncated.     *)
(* The simulator moves heroes by a fraction of a cell, refuses a cell that *)
(* is taken and says nothing, so Move keeps positions in units of 1/Scale  *)
(* of a cell.  What happens around the seat, creep waves, falling towers,  *)
(* wounds, stuns and slows, is the environment.                            *)
(*                                                                         *)
(* The seat is the radiant's.  Of a hero's skills those are modelled that  *)
(* move the hero itself: the assassin's haste and leap, the support's hook *)
(* and the tank's engage, which pull the one who casts them, and the       *)
(* carry's retreat.  The target filter is left out.                        *)
(***************************************************************************)
EXTENDS Integers, Sequences, FiniteSets

CONSTANTS
  Rows,              \* the seat's heroes, in the order of their rows and pids
  Role,              \* hero_type of each
  Height, Width, Walls,
  Farthest,          \* bound of the breadth-first search: no way is longer
  Towers, TowerCell, \* standing or not, a wall for NavGrid
  EnemyTowers,       \* those that shoot: no ancient
  Ancient,           \* the enemy ancient's tower
  Spawn,             \* SPAWN: the fountain's cell
  Fountain,          \* the cells a hero spawns in
  Lane,              \* WAYPOINTS of the lane, <<y, x>> in units
  Vis, TowerVision, CreepEngagedDist,
  RetreatEnter, RetreatExit, WaypointReached, TeleportDist,
  StuckTicks, DetourTicks,
  Scale,             \* units per cell
  Straight, Diagonal, SlowStraight, SlowDiagonal,   \* a tick's way, per axis
  Waves,             \* the sets of cells friendly creeps may stand in
  LeapTo,            \* the cells a hero's own skill may put it in
  StunTime, SlowTime, HasteTime,
  MaxMishaps         \* bound: wounds, deaths, stuns, slows, leaps and lost waves

\* Mutant: no margin beyond the tower's range.
SiegeStandoff_NoMargin == TowerVision

SiegeStandoff == TowerVision + 1
Heroes == {Rows[i] : i \in DOMAIN Rows}
Cells == (0..(Height - 1)) \X (0..(Width - 1))
\* Two cells deep (the game map's is three at least): nothing strides over it.
Border == {c \in Cells : \/ c[1] \in {0, 1, Height - 2, Height - 1}
                         \/ c[2] \in {0, 1, Width - 2, Width - 1}}
UnitCells == (0..(Height * Scale)) \X (0..(Width * Scale))
Health == {RetreatEnter, RetreatEnter + 1, RetreatExit}   \* in tenths

\* The order of the engine's ATN_MAP: S, N, E, W, SW, NW, NE, SE.
Steps == << <<1, 0>>, <<-1, 0>>, <<0, 1>>, <<0, -1>>,
            <<1, -1>>, <<-1, -1>>, <<-1, 1>>, <<1, 1>> >>
Stay == <<0, 0>>
Moves == {Stay} \cup {Steps[i] : i \in 1..8}
Roles == {"support", "assassin", "burst", "tank", "carry"}
Modifiers == {"half", "one", "double"}    \* move_modifier: 0.5, 1.0, 2.0

ASSUME HeroAssumption ==
  /\ Rows \in Seq(Heroes) /\ Len(Rows) > 0
  /\ \A i, j \in DOMAIN Rows : Rows[i] = Rows[j] => i = j
  /\ {Height, Width, Scale, StuckTicks, DetourTicks} \subseteq Nat \ {0}
  /\ {Vis, TowerVision, WaypointReached, Farthest} \subseteq Nat
  /\ {MaxMishaps, StunTime, SlowTime, HasteTime} \subseteq Nat
  /\ Role \in [Heroes -> Roles]
  /\ {RetreatEnter, RetreatExit} \subseteq Nat /\ RetreatEnter + 1 < RetreatExit
  /\ {Straight, Diagonal, SlowStraight, SlowDiagonal} \subseteq 0..Scale
  /\ TowerVision <= Vis

\* Even the slowest gait crosses a cell in STUCK_TICKS turns (moba.h: a slow halves
\* the step, a diagonal takes 0.707 of it; 4 turns make 1.41 cells).
ASSUME GaitAssumption ==
  /\ SlowStraight <= Straight /\ SlowDiagonal <= Diagonal
  /\ Scale <= StuckTicks * SlowStraight /\ Scale <= StuckTicks * SlowDiagonal

ASSUME PlaceAssumption ==
  /\ Walls \subseteq Cells /\ LeapTo \subseteq Cells /\ Fountain \subseteq Cells
  /\ Spawn \in Cells /\ Towers \subseteq Nat
  /\ TowerCell \in [Towers -> Cells]
  /\ \A t, u \in Towers : TowerCell[t] = TowerCell[u] => t = u
  /\ EnemyTowers \subseteq Towers /\ Ancient \in Towers \ EnemyTowers
  /\ Waves \subseteq SUBSET Cells /\ {} \in Waves
  /\ Lane \in Seq(UnitCells) /\ Lane # <<>>
  /\ Border \subseteq Walls /\ Fountain \cap Walls = {}

VARIABLES
  pos, hp, stun,        \* the heroes, in the simulator
  moveTimer, moveModifier,
  standing, creeps,     \* the towers and friendly creeps, in the simulator
  mishaps,              \* how many have happened
  turn,                 \* whose turn it is to decide or to move in this tick
  state,                \* HeroState of each row
  deadTowers,           \* dead_towers, shared by the seat's rows
  wish, flags,          \* each row's last answer: its velocity, its skills
  steady                \* turns since a hero was last refused, stunned or displaced

bodyVars == <<pos, hp, stun, moveTimer, moveModifier>>
worldVars == <<standing, creeps, mishaps>>
mindVars == <<state, deadTowers, wish, flags>>
heroVars == <<bodyVars, worldVars, mindVars, turn, steady>>

-----------------------------------------------------------------------------
(* Cells.                                                                  *)

AbsVal(n) == IF n >= 0 THEN n ELSE -n
Larger(a, b) == IF a >= b THEN a ELSE b
Dist(c, d) == Larger(AbsVal(c[1] - d[1]), AbsVal(c[2] - d[2]))
Shift(c, step) == <<c[1] + step[1], c[2] + step[2]>>
CellOf(p) == <<p[1] \div Scale, p[2] \div Scale>>
Corner(c) == <<c[1] * Scale, c[2] * Scale>>
Sign(n) == IF n > 0 THEN 1 ELSE IF n < 0 THEN -1 ELSE 0

-----------------------------------------------------------------------------
(* NavGrid: breadth-first cost fields over walls and tower cells.          *)

Blocked == Walls \cup {TowerCell[t] : t \in Towers}
Goals == {Spawn} \cup {TowerCell[t] : t \in Towers} \cup {CellOf(Lane[i]) : i \in DOMAIN Lane}

\* _field: each layer of the search is the open neighbours of the one before it
\* that no layer holds yet; the goal is the first, even when it is blocked.
Layers(goal) ==
  LET layers[k \in 0..Farthest] ==
        IF k = 0
          THEN << {goal} >>
          ELSE LET found == layers[k - 1]
                   seen == UNION {found[j] : j \in DOMAIN found}
                   last == found[Len(found)]
               IN IF last = {} THEN found
                  ELSE Append(found, {c \in Cells \ (Blocked \cup seen) :
                                        \E i \in 1..8 : Shift(c, Steps[i]) \in last})
  IN layers[Farthest]

NavGrid == {[goal |-> g, layers |-> Layers(g)] : g \in Goals}
NavField(goal) == (CHOOSE n \in NavGrid : n.goal = goal).layers

Costs(goal, c) == LET field == NavField(goal) IN {k \in DOMAIN field : c \in field[k]}
Reached(goal, c) == Costs(goal, c) # {}
Cost(goal, c) == CHOOSE k \in Costs(goal, c) : TRUE

\* The first of the steps to the least cost.
Downhill(c, goal) ==
  LET open == {i \in 1..8 : Reached(goal, Shift(c, Steps[i]))}
      cost == [i \in open |-> Cost(goal, Shift(c, Steps[i]))]
  IN {i \in open : \A j \in open : cost[i] < cost[j] \/ (cost[i] = cost[j] /\ i <= j)}

\* step_toward: nothing to do next to the goal; downhill where that helps,
\* straight at the goal where it does not.
StepToward(c, goal) ==
  IF Dist(c, goal) <= 1
    THEN Stay
    ELSE LET best == {i \in Downhill(c, goal) :
                        \/ ~Reached(goal, c)
                        \/ Cost(goal, Shift(c, Steps[i])) < Cost(goal, c)}
         IN IF best # {}
              THEN Steps[CHOOSE i \in best : TRUE]
              ELSE <<Sign(goal[1] - c[1]), Sign(goal[2] - c[2])>>

-----------------------------------------------------------------------------
(* Perception and the world model.                                         *)

\* Mutant: looks one cell past the crop, where every tile reads as no tower.
SeenGone_PastTheCrop(c) ==
  {t \in Towers : \/ Dist(TowerCell[t], c) = Vis + 1
                  \/ /\ Dist(TowerCell[t], c) <= Vis
                     /\ TowerCell[t] \notin {TowerCell[u] : u \in standing}}

\* _update_tower_memory: a tower cell within the crop that shows no tower.
SeenGone(c) ==
  {t \in Towers : /\ Dist(TowerCell[t], c) <= Vis
                  /\ TowerCell[t] \notin {TowerCell[u] : u \in standing}}

\* _nearest_live_enemy_tower, as the set of at most one tower.
NearestTower(c, dead) ==
  LET live == EnemyTowers \ dead
  IN {t \in live : \A u \in live \ {t} : \/ Dist(TowerCell[t], c) < Dist(TowerCell[u], c)
                                         \/ Dist(TowerCell[t], c) = Dist(TowerCell[u], c) /\ t < u}

CreepsSeen(c) == {d \in creeps : Dist(d, c) <= Vis}

Engaged(c, t) == \E d \in CreepsSeen(c) : Dist(d, TowerCell[t]) <= CreepEngagedDist

\* _nearest_wp: the first of the nearest waypoints.
WaypointDist(c, i) == Dist(Lane[i], Corner(c))
NearestWaypoint(c) ==
  CHOOSE i \in DOMAIN Lane : \A j \in DOMAIN Lane :
    WaypointDist(c, i) < WaypointDist(c, j) \/ (WaypointDist(c, i) = WaypointDist(c, j) /\ i <= j)

\* _push_goal: waypoints within reach are passed; after the last the ancient.
WaypointAfter(c, i) ==
  CHOOSE k \in i..(Len(Lane) + 1) :
    /\ \A j \in i..(k - 1) : WaypointDist(c, j) <= WaypointReached
    /\ k <= Len(Lane) => WaypointDist(c, k) > WaypointReached

\* Mutant: after the last waypoint, the last waypoint.
PushGoal_Clamped(i) == CellOf(Lane[IF i <= Len(Lane) THEN i ELSE Len(Lane)])

PushGoal(i) == IF i <= Len(Lane) THEN CellOf(Lane[i]) ELSE TowerCell[Ancient]

-----------------------------------------------------------------------------
(* _hero_action.                                                           *)

PUSH == "PUSH"
RETREAT == "RETREAT"
NoWaypoint == 0
NoCell == <<-1, -1>>

HeroState ==
  [mode : {PUSH, RETREAT}, wp : 0..(Len(Lane) + 1), last : Cells \cup {NoCell},
   tried : BOOLEAN, stuck : 0..Larger(StuckTicks, DetourTicks), left : 0..DetourTicks,
   side : {1, -1}]

FreshState ==
  [mode |-> PUSH, wp |-> NoWaypoint, last |-> NoCell, tried |-> FALSE, stuck |-> 0,
   left |-> 0, side |-> 1]

\* A jump farther than TELEPORT_DIST: a respawn.
Displaced(st, c) == st.last # NoCell /\ Dist(st.last, c) > TeleportDist

\* The mode, with hysteresis.
NextMode(st, health) ==
  IF st.mode = PUSH /\ health <= RetreatEnter THEN RETREAT
  ELSE IF st.mode = RETREAT /\ health >= RetreatExit THEN PUSH
  ELSE st.mode

\* A respawn or the end of a retreat anchors the lane anew.
NextWaypoint(st, c, mode) ==
  LET kept == IF Displaced(st, c) \/ (st.mode = RETREAT /\ mode = PUSH)
                THEN NoWaypoint ELSE st.wp
  IN IF mode = RETREAT THEN kept
     ELSE WaypointAfter(c, IF kept = NoWaypoint THEN NearestWaypoint(c) ELSE kept)

\* Where to: home when hurt, onto an engaged tower, out of an unengaged one's
\* range, along the lane otherwise.
Goal(c, mode, wp, dead) ==
  LET near == {t \in NearestTower(c, dead) : Dist(TowerCell[t], c) <= SiegeStandoff}
      engaged == {t \in near : Engaged(c, t)}
  IN IF mode = RETREAT THEN Spawn
     ELSE IF engaged # {} THEN TowerCell[CHOOSE t \in engaged : TRUE]
     ELSE IF near # {} THEN Spawn
     ELSE PushGoal(wp)

\* At the standoff of a tower no wave engages: wait.
Holds(c, mode, dead) ==
  /\ mode = PUSH
  /\ \E t \in NearestTower(c, dead) :
       /\ Dist(TowerCell[t], c) = SiegeStandoff
       /\ ~Engaged(c, t)

Rotate90(step, side) == <<side * step[2], -side * step[1]>>

\* Mutant: a tick that moved or rested does not start the count again.
StuckFor_NotReset(st, c, want) ==
  IF st.tried /\ st.last = c /\ want # Stay THEN st.stuck + 1 ELSE st.stuck

\* Stuck: last tick tried to move, the cell is the same, and this tick wants to.
StuckFor(st, c, want) ==
  IF st.tried /\ st.last = c /\ want # Stay THEN st.stuck + 1 ELSE 0

\* Mutant: the detour does not take the count back.
Steer_StuckKept(st, c, mode, wp, want) ==
  LET left == IF Displaced(st, c) THEN 0 ELSE st.left
      stuck == StuckFor(st, c, want)
      starts == left = 0 /\ stuck >= StuckTicks
      side == IF starts THEN -st.side ELSE st.side
      step == IF left > 0 \/ starts THEN Rotate90(want, side) ELSE want
  IN [state |-> [mode |-> mode, wp |-> wp, last |-> c, tried |-> step # Stay,
                 stuck |-> stuck,
                 left |-> IF starts THEN DetourTicks ELSE Larger(left - 1, 0),
                 side |-> side],
      wish |-> [step |-> step, rotated |-> left > 0 \/ starts]]

\* The next HeroState and velocity of a row that wants to make the step want.
Steer(st, c, mode, wp, want) ==
  LET left == IF Displaced(st, c) THEN 0 ELSE st.left
      stuck == StuckFor(st, c, want)
      starts == left = 0 /\ stuck >= StuckTicks
      side == IF starts THEN -st.side ELSE st.side
      step == IF left > 0 \/ starts THEN Rotate90(want, side) ELSE want
  IN [state |-> [mode |-> mode, wp |-> wp, last |-> c, tried |-> step # Stay,
                 stuck |-> IF starts THEN 0 ELSE stuck,
                 left |-> IF starts THEN DetourTicks ELSE Larger(left - 1, 0),
                 side |-> side],
      wish |-> [step |-> step, rotated |-> left > 0 \/ starts]]

Answer(st, c, health, dead) ==
  LET mode == NextMode(st, health)
      wp == NextWaypoint(st, c, mode)
      want == IF Holds(c, mode, dead) THEN Stay ELSE StepToward(c, Goal(c, mode, wp, dead))
  IN Steer(st, c, mode, wp, want)

\* _skill_flags, of the skills that move the hero, with enemies of these kinds near.
SkillFlags(role, mode, health, near) ==
  [leap |-> \/ role = "support" /\ "hero" \in near
            \/ role = "assassin" /\ "hero" \in near /\ health >= 5
            \/ role = "tank" /\ "hero" \in near /\ health > 6
            \/ role = "carry" /\ mode = RETREAT /\ near # {},
   haste |-> role = "assassin" /\ mode = RETREAT]

\* Rows decide one after the other and hand on what they saw.  Bound: enemies are
\* near only while there may be mishaps.
Decide(i) ==
  /\ turn = <<"decide", i>>
  /\ LET h == Rows[i]
         c == CellOf(pos[h])
         dead == deadTowers \cup SeenGone(c)
         answer == Answer(state[h], c, hp[h], dead)
     IN /\ \E near \in SUBSET {"hero", "creep"} :
             /\ near # {} => mishaps < MaxMishaps
             /\ flags' = [flags EXCEPT ![h] = SkillFlags(Role[h], answer.state.mode, hp[h], near)]
        /\ deadTowers' = dead
        /\ state' = [state EXCEPT ![h] = answer.state]
        /\ wish' = [wish EXCEPT ![h] = answer.wish]
        /\ steady' = IF answer.wish.step = wish[h].step THEN steady ELSE [steady EXCEPT ![h] = 0]
  /\ turn' = IF i < Len(Rows) THEN <<"decide", i + 1>> ELSE <<"move", 1>>
  /\ UNCHANGED <<bodyVars, worldVars>>

-----------------------------------------------------------------------------
(* The simulator's turn of a hero: step_players, move_to.                  *)

Taken(h) ==
  Walls \cup {TowerCell[t] : t \in standing} \cup creeps
    \cup {CellOf(pos[g]) : g \in Heroes \ {h}}

\* A diagonal is normalised; a slow halves the way, haste doubles it.
Reach(step, modifier) ==
  LET diagonal == step[1] # 0 /\ step[2] # 0
      usual == IF diagonal THEN Diagonal ELSE Straight
  IN IF modifier = "half" THEN IF diagonal THEN SlowDiagonal ELSE SlowStraight
     ELSE IF modifier = "double" THEN usual + usual
     ELSE usual

Way(step, modifier) == <<Reach(step, modifier) * step[1], Reach(step, modifier) * step[2]>>

Countdown(n) == IF n > 0 THEN n - 1 ELSE 0

\* update_status: with the timer out the gait is the usual one.
Modifier(h) == IF moveTimer[h] > 1 THEN moveModifier[h] ELSE "one"

Gait(h, modifier, timer) ==
  /\ moveModifier' = [moveModifier EXCEPT ![h] = modifier]
  /\ moveTimer' = [moveTimer EXCEPT ![h] = timer]

\* move_to from where the hero is by now; a taken cell is refused without a word.
Walks(h, from, modifier) ==
  LET dest == Shift(from, Way(wish[h].step, modifier))
      moves == CellOf(dest) \notin Taken(h)
  IN /\ pos' = [pos EXCEPT ![h] = IF moves THEN dest ELSE from]
     /\ steady' = [steady EXCEPT ![h] = IF ~moves \/ from # pos[h] THEN 0
                                            ELSE IF @ < StuckTicks THEN @ + 1 ELSE @]

MissesTurn(h) ==
  /\ stun[h] > 1
  /\ Gait(h, Modifier(h), Countdown(moveTimer[h]))
  /\ steady' = [steady EXCEPT ![h] = 0]
  /\ UNCHANGED <<pos, mishaps>>

JustWalks(h) ==
  /\ stun[h] <= 1
  /\ Gait(h, Modifier(h), Countdown(moveTimer[h]))
  /\ Walks(h, pos[h], Modifier(h))
  /\ UNCHANGED mishaps

\* skill_assassin_move_buff; its cooldown outlasts it.
Hastens(h) ==
  /\ stun[h] <= 1
  /\ flags[h].haste /\ Modifier(h) # "double"
  /\ Gait(h, "double", HasteTime)
  /\ Walks(h, pos[h], "double")
  /\ UNCHANGED mishaps

\* push, pull and move_near put the caster elsewhere, before it walks.
Leaps(h) ==
  /\ stun[h] <= 1
  /\ flags[h].leap
  /\ mishaps < MaxMishaps /\ mishaps' = mishaps + 1
  /\ Gait(h, Modifier(h), Countdown(moveTimer[h]))
  /\ \E c \in LeapTo \ Taken(h) : Walks(h, Corner(c), Modifier(h))

Move(i) ==
  /\ turn = <<"move", i>>
  /\ LET h == Rows[i]
     IN /\ MissesTurn(h) \/ JustWalks(h) \/ Hastens(h) \/ Leaps(h)
        /\ stun' = [stun EXCEPT ![h] = Countdown(@)]
  /\ turn' = IF i < Len(Rows) THEN <<"move", i + 1>> ELSE <<"creeps", 1>>
  /\ UNCHANGED <<hp, standing, creeps, mindVars>>

-----------------------------------------------------------------------------
(* The rest of the match.                                                  *)

BetweenTicks == turn = <<"decide", 1>>

Mishap == BetweenTicks /\ mishaps < MaxMishaps /\ mishaps' = mishaps + 1

Wounded(h) ==
  /\ Mishap
  /\ hp' = [hp EXCEPT ![h] = RetreatEnter]
  /\ UNCHANGED <<pos, stun, moveTimer, moveModifier, standing, creeps, mindVars, turn, steady>>

Stunned(h) ==
  /\ Mishap
  /\ stun' = [stun EXCEPT ![h] = StunTime]
  /\ UNCHANGED <<pos, hp, moveTimer, moveModifier, standing, creeps, mindVars, turn, steady>>

Slowed(h) ==
  /\ Mishap
  /\ Gait(h, "half", SlowTime)
  /\ UNCHANGED <<pos, hp, stun, standing, creeps, mindVars, turn, steady>>

\* spawn_player: the hero comes back whole, and somewhere in its fountain.
PutAt(h, c) ==
  /\ c \notin Taken(h)
  /\ pos' = [pos EXCEPT ![h] = Corner(c)]
  /\ steady' = [steady EXCEPT ![h] = 0]

Killed(h, c) ==
  /\ Mishap
  /\ PutAt(h, c)
  /\ hp' = [hp EXCEPT ![h] = RetreatExit]
  /\ stun' = [stun EXCEPT ![h] = 0]
  /\ Gait(h, "one", 0)
  /\ UNCHANGED <<standing, creeps, mindVars, turn>>

Heals(h) ==
  /\ BetweenTicks
  /\ hp[h] < RetreatExit
  /\ hp' = [hp EXCEPT ![h] = IF @ = RetreatEnter THEN RetreatEnter + 1 ELSE RetreatExit]
  /\ UNCHANGED <<pos, stun, moveTimer, moveModifier, worldVars, mindVars, turn, steady>>

Besieged == EnemyTowers \cap standing # {}

\* The creeps' phase of a tick.  While towers stand a wave comes and stays in its
\* cells; that it dies is a mishap, and another comes.  Then it goes on.
CreepsMove(wave) ==
  /\ turn = <<"creeps", 1>>
  /\ wave \cap ({CellOf(pos[h]) : h \in Heroes} \cup {TowerCell[t] : t \in standing}) = {}
  /\ wave # creeps => (wave = {} <=> creeps # {} )
  /\ IF wave = {} /\ creeps # {} /\ Besieged
       THEN mishaps < MaxMishaps /\ mishaps' = mishaps + 1
       ELSE UNCHANGED mishaps
  /\ creeps' = wave
  /\ turn' = <<"decide", 1>>
  /\ UNCHANGED <<bodyVars, standing, mindVars, steady>>

TowerFalls(t) ==
  /\ BetweenTicks
  /\ t \in standing \ {Ancient}
  /\ standing' = standing \ {t}
  /\ UNCHANGED <<bodyVars, creeps, mishaps, mindVars, turn, steady>>

-----------------------------------------------------------------------------
HeroInit ==
  /\ pos \in {p \in [Heroes -> {Corner(c) : c \in Fountain}] :
                \A g, h \in Heroes : p[g] = p[h] => g = h}
  /\ hp = [h \in Heroes |-> RetreatExit]
  /\ stun = [h \in Heroes |-> 0]
  /\ moveTimer = [h \in Heroes |-> 0]
  /\ moveModifier = [h \in Heroes |-> "one"]
  /\ standing = Towers
  /\ creeps = {}
  /\ mishaps = 0
  /\ turn = <<"decide", 1>>
  /\ state = [h \in Heroes |-> FreshState]
  /\ deadTowers = {}
  /\ wish = [h \in Heroes |-> [step |-> Stay, rotated |-> FALSE]]
  /\ flags = [h \in Heroes |-> [leap |-> FALSE, haste |-> FALSE]]
  /\ steady = [h \in Heroes |-> StuckTicks]

Tick ==
  \/ \E i \in DOMAIN Rows : Decide(i) \/ Move(i)
  \/ \E wave \in Waves : CreepsMove(wave)

HeroNext ==
  \/ \E i \in DOMAIN Rows : Decide(i) \/ Move(i)
  \/ \E h \in Heroes : Wounded(h) \/ Stunned(h) \/ Slowed(h) \/ Heals(h)
  \/ \E h \in Heroes, c \in Fountain : Killed(h, c)
  \/ \E wave \in Waves : CreepsMove(wave)
  \/ \E t \in Towers : TowerFalls(t)

HeroSpec == HeroInit /\ [][HeroNext]_heroVars

(***************************************************************************)
(* Ticks go on, and health regenerates with them (2 a tick).  That waves   *)
(* come and towers fall is not assumed here.                               *)
(***************************************************************************)
FairHeroSpec ==
  /\ HeroSpec
  /\ []<><<Tick>>_heroVars
  /\ \A h \in Heroes : SF_heroVars(Heals(h))

-----------------------------------------------------------------------------
(* Properties.                                                             *)

\* stuck_ticks and detour_left stay small whatever the engine refuses: during a
\* detour the one grows only as the other falls.
HeroTypeOK ==
  /\ pos \in [Heroes -> Int \X Int]
  /\ hp \in [Heroes -> Health]
  /\ stun \in [Heroes -> Nat] /\ moveTimer \in [Heroes -> Nat]
  /\ moveModifier \in [Heroes -> Modifiers]
  /\ standing \subseteq Towers /\ creeps \in Waves /\ mishaps \in 0..MaxMishaps
  /\ turn \in {"decide", "move", "creeps"} \X (DOMAIN Rows)
  /\ state \in [Heroes -> HeroState]
  /\ deadTowers \subseteq Towers
  /\ wish \in [Heroes -> [step : Moves, rotated : BOOLEAN]]
  /\ flags \in [Heroes -> [leap : BOOLEAN, haste : BOOLEAN]]
  /\ steady \in [Heroes -> 0..StuckTicks]

\* A tower that any of the seat's heroes remembers as dead is dead: a wrong
\* entry would never be taken back and lead every hero under its fire.
RememberedDeadAreDead == deadTowers \cap standing = {}

UnderFire(c) == \E t \in EnemyTowers \cap standing : Dist(c, TowerCell[t]) <= TowerVision

AtEdge(c) == \A t \in EnemyTowers \cap standing : Dist(c, TowerCell[t]) >= TowerVision

\* The margin of SIEGE_STANDOFF is enough for a walk: a turn takes a hero into the
\* range of a tower only behind a wave that engages one, on its way home, on a
\* detour or when a skill of its own throws it there, and a hero whose haste
\* outlasts its retreat comes to the edge of the range and no deeper.
StandoffHolds ==
  [][\A h \in Heroes :
       LET c == CellOf(pos[h])
           d == CellOf(pos'[h])
       IN (\E i \in DOMAIN Rows : Move(i)) /\ ~UnderFire(c) /\ UnderFire(d) =>
            \/ \E t \in EnemyTowers : Engaged(c, t)
            \/ state[h].mode = RETREAT
            \/ wish[h].rotated
            \/ flags[h].leap /\ mishaps' # mishaps
            \/ moveModifier'[h] = "double" /\ AtEdge(d)]_heroVars

DetourStarts(h) == wish'[h].rotated /\ state'[h].left = DetourTicks

\* A hero that is slow is not stuck: a detour starts only when one of the last
\* STUCK_TICKS turns was refused, stunned away, cut by a death or by a leap of its
\* own, or went in another direction.
SlowIsNotStuck ==
  [][\A h \in Heroes : DetourStarts(h) /\ state'[h] # state[h] => steady[h] < StuckTicks]_heroVars

AtAncient(h) == Dist(CellOf(pos[h]), TowerCell[Ancient]) <= 1

\* The docstring's detour "for a few ticks to slide around blockers": a hero is
\* not on a detour for ever.
DetoursEnd == \A h \in Heroes : []<>(~wish[h].rotated)

\* If the towers of the lane fall, by whatever hand, and the seat has seen it, then
\* nothing but detours without end keeps a hero from the ancient: not standing off,
\* retreating, respawning and anchoring anew, nor a finite number of wounds, stuns,
\* slows and leaps.  A hero between two blockers may detour for ever, see
\* DetoursEnd, and one that no wave shows a tower's fall may wait for ever.
HeroArrives ==
  <>(EnemyTowers \subseteq deadTowers) =>
    \A h \in Heroes : <>[]AtAncient(h) \/ []<>(wish[h].rotated)
=============================================================================
