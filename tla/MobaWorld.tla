------------------------------ MODULE MobaWorld ------------------------------
(***************************************************************************)
(* The simulator core (vendor/upstream/moba.h, with the patches of         *)
(* sim/patches): who stands where, who attacks whom, deaths, respawns,     *)
(* recycled creep slots, the fall of an ancient and the debug guards.      *)
(*                                                                         *)
(* Occupancy is kept twice: map->grid and map->pids say what is in a cell, *)
(* every entity says where it is.  world holds both sides.  A position is  *)
(* the cell an entity's floats truncate to.  Health, mana and the timers   *)
(* are abstracted to choices: a blow may kill, a unit may be stunned, on   *)
(* cooldown or refuse a skill.  Only what they decide is kept.             *)
(*                                                                         *)
(* c_step is one pass over the phases below; each entity has its turn in   *)
(* its phase, in slot order, and a turn is a few actions: look for a       *)
(* target, strike, move.                                                   *)
(***************************************************************************)
EXTENDS Integers, Sequences, FiniteSets

CONSTANTS
  HeroOrder, CreepOrder, NeutralOrder, TowerOrder,  \* the entity slots, in order
  SideOf,          \* team of each hero and tower: 0 radiant, 1 dire
  DireAncient, RadiantAncient,    \* towers 22 and 23, pids 204 and 205
  NoPid,           \* -1
  Floor,           \* the cells <<y, x>> that are not walls
  TowerCell,       \* where each tower stands
  Camp,            \* Camp[e]: where a hero or neutral spawns
  LaneHead,        \* LaneHead[team]: where a creep spawns
  WaveTeams,       \* the team of each creep of a wave, radiant lanes first
  WaveEvery, CampEvery, ScanEvery, TowerScanEvery,   \* 150, 600, 5, 3 ticks
  Vision,          \* scan radius of creeps, neutrals, towers and heroes
  AttackRange,     \* 12
  XpRange,         \* XP_RANGE
  ScanLimit,       \* 20: a scanned target farther away trips a debug guard
  Leap,            \* how far a skill may shove its caster
  MaxTick          \* bound of the model

SlotsOf(order) == {order[i] : i \in DOMAIN order}
Heroes == SlotsOf(HeroOrder)
Creeps == SlotsOf(CreepOrder)
Neutrals == SlotsOf(NeutralOrder)
Towers == SlotsOf(TowerOrder)
Entities == Heroes \cup Creeps \cup Neutrals \cup Towers

Origin == <<0, 0>>           \* where the dead are kept, inside the walls
Cells == Floor \cup {Origin}
NeutralTeam == 2

ASSUME SlotsAssumption ==
  /\ \A order \in {HeroOrder, CreepOrder, NeutralOrder, TowerOrder} :
       order \in Seq(SlotsOf(order))
  /\ Towers \cap (Heroes \cup Creeps \cup Neutrals) = {}
  /\ Heroes \cap (Creeps \cup Neutrals) = {} /\ Creeps \cap Neutrals = {}
  /\ Len(CreepOrder) > 0
  /\ NoPid \notin Entities
  /\ {DireAncient, RadiantAncient} \subseteq Towers

\* The outer rings of the map are walls: no floor is near the origin.
ASSUME MapAssumption ==
  /\ Floor \subseteq Nat \X Nat /\ Origin \notin Floor
  /\ TowerCell \in [Towers -> Floor]
  /\ \A e, f \in Towers : TowerCell[e] = TowerCell[f] => e = f
  /\ Camp \in [Heroes \cup Neutrals -> SUBSET Floor]
  /\ LaneHead \in [{0, 1} -> SUBSET Floor]
  /\ SideOf \in [Heroes \cup Towers -> {0, 1}]

ASSUME ParameterAssumption ==
  /\ WaveTeams \in Seq({0, 1})
  /\ {WaveEvery, CampEvery, ScanEvery, TowerScanEvery} \subseteq Nat \ {0}
  /\ {Vision, AttackRange, XpRange, ScanLimit, Leap, MaxTick} \subseteq Nat
  /\ 2 * Vision <= ScanLimit

VARIABLES
  world,        \* grid, pids and every entity's pos and alive (pid # -1)
  team,         \* team[e]; a recycled creep slot changes it
  scanned,      \* scanned_targets: what each unit saw when it last looked
  phase, todo,  \* where c_step is, and who has still to act in this phase
  stage, aim,   \* the acting entity's turn: what it has done, its target
  victims,      \* the enemies an area skill has still to hit
  award,        \* the experience awarded in this turn
  creepIdx, tick, shouldReset, done, winner, fault

turnVars == <<phase, todo, stage, aim, victims, award>>
matchVars == <<tick, shouldReset, done, winner>>
worldVars == <<world, team, scanned, turnVars, creepIdx, matchVars, fault>>

NoAward == [by |-> NoPid, at |-> Origin, to |-> {}]

Awards == [by : Entities \cup {NoPid}, at : Cells, to : SUBSET Heroes]

Worlds == [grid : [Cells -> {"empty", "unit"}], pids : [Cells -> Entities \cup {NoPid}],
           pos : [Entities -> Cells], alive : [Entities -> BOOLEAN]]

WorldTypeOK ==
  /\ world \in Worlds
  /\ team \in [Entities -> {0, 1, NeutralTeam}]
  /\ scanned \in [Entities -> SUBSET Entities]
  /\ phase \in {"camps", "neutrals", "wave", "creeps", "towers", "heroes", "judge", "over"}
  /\ todo \in Seq(Entities)
  /\ stage \in {"idle", "aimed", "landed", "shoved", "area", "spent"}
  /\ aim \in Entities \cup {NoPid}
  /\ victims \subseteq Entities
  /\ award \in Awards
  /\ creepIdx \in 0..(Len(CreepOrder) - 1)
  /\ tick \in Nat /\ shouldReset \in BOOLEAN /\ done \in BOOLEAN /\ winner \in {0, 1}
  /\ fault \in {0, 2, 4}

-----------------------------------------------------------------------------
(* The map: move_to, kill_entity and the spawns, on a world record w.      *)

AbsDiff(a, b) == IF a >= b THEN a - b ELSE b - a
Distance(c, d) == AbsDiff(c[1], d[1]) + AbsDiff(c[2], d[2])
Within(c, d, r) == AbsDiff(c[1], d[1]) <= r /\ AbsDiff(c[2], d[2]) <= r

\* move_to: refused by any cell that is neither empty nor the unit's own.
MoveTo(w, e, c) ==
  IF w.grid[c] # "empty" /\ w.pids[c] # e
    THEN w
    ELSE [grid |-> [w.grid EXCEPT ![w.pos[e]] = "empty", ![c] = "unit"],
          pids |-> [w.pids EXCEPT ![w.pos[e]] = NoPid, ![c] = e],
          pos |-> [w.pos EXCEPT ![e] = c],
          alive |-> w.alive]

\* kill_entity: the dead leave the map and are kept at the origin.
Kill(w, e) ==
  IF ~w.alive[e]
    THEN w
    ELSE [grid |-> [w.grid EXCEPT ![w.pos[e]] = "empty"],
          pids |-> [w.pids EXCEPT ![w.pos[e]] = NoPid],
          pos |-> [w.pos EXCEPT ![e] = Origin],
          alive |-> [w.alive EXCEPT ![e] = FALSE]]

\* The slot gets its pid back before it is placed on the map.
Revive(w, e) ==
  [grid |-> w.grid, pids |-> w.pids, pos |-> w.pos, alive |-> [w.alive EXCEPT ![e] = TRUE]]

\* spawn_player: draws cells of the camp until one is empty.  In a full camp it
\* draws for ever, with the hero still at the origin.
Respawns(w, h) ==
  LET out == Revive(Kill(w, h), h)
      free == {c \in Camp[h] : out.grid[c] = "empty"}
  IN IF free = {} THEN {out} ELSE {MoveTo(out, h, c) : c \in free}

\* spawn_neutral: a neutral still alive is moved back to its camp.  The cell is
\* the last one drawn: one that is taken, or a wall, and move_to refuses it.
NeutralSpawns(w, n) ==
  LET out == Revive(w, n)
  IN {out} \cup {MoveTo(out, n, c) : c \in Camp[n]}

\* Mutant: the slot's last creep is not taken off the map.
CreepSpawns_NotKilled(w, e, t) ==
  {MoveTo([Revive(w, e) EXCEPT !.pos[e] = Origin], e, c) : c \in LaneHead[t]}

\* step_creeps' wave and spawn_creep: the slot's last creep is killed.  When
\* move_to refuses the cell the creep lives on at the origin, off the map.
CreepSpawns(w, e, t) ==
  LET out == Revive(Kill(w, e), e)
  IN {out} \cup {MoveTo(out, e, c) : c \in LaneHead[t]}

-----------------------------------------------------------------------------
(* Scans and attacks.                                                      *)

\* The kinds a unit's scan leaves out, its own team apart.
Ignored(e) ==
  CASE e \in Creeps -> Neutrals
    [] e \in Neutrals -> Creeps \cup Neutrals \cup Towers
    [] e \in Towers -> Neutrals \cup Towers
    [] OTHER -> {}

\* scan_aoe: read off the map, so only what is on the map is seen.
Seen(e, ignored, radius) ==
  {t \in Entities \ ignored :
     /\ team[t] # team[e]
     /\ \E c \in Cells : Within(world.pos[e], c, radius) /\ world.pids[c] = t}

\* A scanned target that is not near is a broken map (fault site 2).
FaultAfter(e, targets) ==
  IF \E t \in targets : Distance(world.pos[e], world.pos[t]) > ScanLimit THEN 2 ELSE fault

\* nearest_scanned_target, by where the targets are now.
Nearest(e, targets) ==
  {t \in targets : \A u \in targets :
     Distance(world.pos[e], world.pos[t]) <= Distance(world.pos[e], world.pos[u])}

\* Mutant: a target of the attacker's own team is not refused.
Attackable_FriendlyFire(a, t) ==
  world.alive[t] /\ t # a /\ Distance(world.pos[a], world.pos[t]) <= AttackRange

\* The early returns of attack.  The target may come from an old scan: it may be
\* dead, far away, or its slot may have gone to another team.
Attackable(a, t) ==
  /\ world.alive[t] /\ team[t] # team[a]
  /\ Distance(world.pos[a], world.pos[t]) <= AttackRange

Allies(h) == {a \in Heroes : SideOf[a] = SideOf[h]}

\* The experience of a hero's kill goes to the killer and the allies in range of
\* the target's position, which is read after the target died or respawned.
AwardFor(a, t, after) ==
  IF a \in Heroes
    THEN [by |-> a, at |-> world.pos[t],
          to |-> {a} \cup {b \in Allies(a) : Distance(after.pos[b], after.pos[t]) <= XpRange}]
    ELSE NoAward

\* Mutant: a hero that is hit is killed like any other unit.
Deaths_HeroStaysDead(t) == {Kill(world, t)}

Deaths(t) == IF t \in Heroes THEN Respawns(world, t) ELSE {Kill(world, t)}

\* attack: refused, a wound, or a kill; the radiant ancient sets should_reset.
Attack(a, t) ==
  \/ UNCHANGED <<world, award, shouldReset>>
  \/ /\ Attackable(a, t)
     /\ \E after \in Deaths(t) : world' = after /\ award' = AwardFor(a, t, after)
     /\ shouldReset' = (shouldReset \/ t = RadiantAncient)

-----------------------------------------------------------------------------
(* A turn.                                                                 *)

Actor == Head(todo)

\* A spawn_player that draws for ever: c_step does not go on.
Spinning == \E h \in Heroes : world.pos[h] = Origin

Acting(ph, st) == ~Spinning /\ phase = ph /\ todo # <<>> /\ stage \in st

EndTurn ==
  /\ todo' = Tail(todo) /\ stage' = "idle" /\ aim' = NoPid
  /\ victims' = {} /\ award' = NoAward

\* Where a unit may be after walking up to r cells: the pathing, its jitter and
\* the hero's velocity are any direction, and move_to may refuse.
Strolls(e, r) ==
  {world} \cup {MoveTo(world, e, c) : c \in {d \in Floor : Within(world.pos[e], d, r)}}

\* A dead unit has no turn; a stunned one, or a tower on cooldown, passes.
SkipTurn ==
  /\ \E ph \in {"neutrals", "creeps", "towers", "heroes"} : Acting(ph, {"idle"})
  /\ EndTurn
  /\ UNCHANGED <<world, team, scanned, phase, creepIdx, matchVars, fault>>

\* The scan of creep_ai, neutral_ai and step_towers, due on some ticks only: on
\* the others the unit goes by what it saw before.
Due(e) == tick % (IF e \in Towers THEN TowerScanEvery ELSE ScanEvery) = 0

UnitLooks ==
  /\ \E ph \in {"neutrals", "creeps", "towers"} : Acting(ph, {"idle"})
  /\ world.alive[Actor]
  /\ LET targets == IF Due(Actor) THEN Seen(Actor, Ignored(Actor), Vision) ELSE scanned[Actor]
     IN /\ scanned' = [scanned EXCEPT ![Actor] = targets]
        /\ fault' = IF Due(Actor) THEN FaultAfter(Actor, targets) ELSE fault
        /\ aim' \in IF targets = {} THEN {NoPid} ELSE Nearest(Actor, targets)
  /\ stage' = "aimed"
  /\ UNCHANGED <<world, team, phase, todo, victims, award, creepIdx, matchVars>>

Close == aim # NoPid /\ Distance(world.pos[Actor], world.pos[aim]) < 2

\* creep_ai strikes a close target, and then walks all the same.
CreepStrikes ==
  /\ Acting("creeps", {"aimed"}) /\ Close
  /\ Attack(Actor, aim)
  /\ stage' = "spent"
  /\ UNCHANGED <<team, scanned, phase, todo, aim, victims, creepIdx, tick, done, winner, fault>>

CreepWalks ==
  /\ Acting("creeps", {"aimed", "spent"})
  /\ world' \in Strolls(Actor, 1)
  /\ EndTurn
  /\ UNCHANGED <<team, scanned, phase, creepIdx, matchVars, fault>>

\* neutral_ai strikes a close target or walks.
NeutralStrikes ==
  /\ Acting("neutrals", {"aimed"}) /\ Close
  /\ Attack(Actor, aim)
  /\ EndTurn
  /\ UNCHANGED <<team, scanned, phase, creepIdx, tick, done, winner, fault>>

NeutralWalks ==
  /\ Acting("neutrals", {"aimed"}) /\ ~Close
  /\ world' \in Strolls(Actor, 1)
  /\ EndTurn
  /\ UNCHANGED <<team, scanned, phase, creepIdx, matchVars, fault>>

\* A tower fires at whatever it has, however old the scan.
TowerFires ==
  /\ Acting("towers", {"aimed"})
  /\ IF aim = NoPid THEN UNCHANGED <<world, award, shouldReset>> ELSE Attack(Actor, aim)
  /\ EndTurn
  /\ UNCHANGED <<team, scanned, phase, creepIdx, tick, done, winner, fault>>

-----------------------------------------------------------------------------
(* step_players.  A hero scans in every turn, so its list is never old.    *)

HeroLooks ==
  /\ Acting("heroes", {"idle"})
  /\ \E ignored \in {{}, Creeps \cup Neutrals} :
       LET targets == Seen(Actor, ignored, Vision)
       IN /\ fault' = FaultAfter(Actor, targets)
          /\ aim' \in IF targets = {} THEN {NoPid} ELSE Nearest(Actor, targets)
  /\ stage' = "aimed"
  /\ UNCHANGED <<world, team, scanned, phase, todo, victims, award, creepIdx, matchVars>>

\* A skill on the target (nuke, stun, slow) or the basic attack; after a
\* teleport the blow is part of the skill.
HeroStrikes ==
  /\ Acting("heroes", {"aimed", "landed"}) /\ aim # NoPid
  /\ Attack(Actor, aim)
  /\ stage' = "spent"
  /\ UNCHANGED <<team, scanned, phase, todo, aim, victims, creepIdx, tick, done, winner, fault>>

\* move_near: tp_damage goes on with a blow, engage_aoe with pulls.
HeroLeaps ==
  /\ Acting("heroes", {"aimed"}) /\ aim # NoPid
  /\ \E c \in {d \in Floor : Within(world.pos[aim], d, 1)} :
       /\ world.grid[c] = "empty" \/ world.pids[c] = Actor
       /\ world' = MoveTo(world, Actor, c)
  /\ stage' \in {"landed", "shoved"}
  /\ UNCHANGED <<team, scanned, phase, todo, aim, victims, award, creepIdx, matchVars, fault>>

\* push and pull, called with the target first, move the caster: the hook once,
\* the retreat up to three times, the engage once per enemy around.
HeroShoves ==
  /\ Acting("heroes", {"aimed", "shoved"}) /\ aim # NoPid
  /\ world' \in Strolls(Actor, Leap)
  /\ stage' = "shoved"
  /\ UNCHANGED <<team, scanned, phase, todo, aim, victims, award, creepIdx, matchVars, fault>>

\* player_aoe_attack with damage: everything hostile within the skill's radius.
HeroCasts ==
  /\ Acting("heroes", {"aimed"})
  /\ \E radius \in 1..Vision :
       /\ victims' = Seen(Actor, {}, radius)
       /\ fault' = FaultAfter(Actor, victims')
  /\ victims' # {}
  /\ stage' = "area"
  /\ UNCHANGED <<world, team, scanned, phase, todo, aim, award, creepIdx, matchVars>>

\* aoe_scanned: one attack per scanned enemy.
HeroHits ==
  /\ Acting("heroes", {"area"})
  /\ \E t \in victims :
       /\ Attack(Actor, t)
       /\ victims' = victims \ {t}
  /\ stage' = IF victims' = {} THEN "spent" ELSE "area"
  /\ UNCHANGED <<team, scanned, phase, todo, aim, creepIdx, tick, done, winner, fault>>

\* The move at the end of every hero's turn.
HeroWalks ==
  /\ Acting("heroes", {"aimed", "shoved", "spent"})
  /\ world' \in Strolls(Actor, 2)
  /\ EndTurn
  /\ UNCHANGED <<team, scanned, phase, creepIdx, matchVars, fault>>

-----------------------------------------------------------------------------
(* c_step.                                                                 *)

NeutralsSpawn ==
  /\ Acting("camps", {"idle"})
  /\ world' \in NeutralSpawns(world, Actor)
  /\ EndTurn
  /\ UNCHANGED <<team, scanned, phase, creepIdx, matchVars, fault>>

\* The wave takes the next slots of the ring, whoever lives in them.
WaveSlots ==
  [i \in 1..Len(WaveTeams) |-> CreepOrder[((creepIdx + i - 1) % Len(CreepOrder)) + 1]]

\* The wave's next creep, by spawn_creep.
WaveSpawns ==
  /\ Acting("wave", {"idle"})
  /\ LET side == WaveTeams[Len(WaveTeams) - Len(todo) + 1]
     IN /\ world' \in CreepSpawns(world, Actor, side)
        /\ team' = [team EXCEPT ![Actor] = side]
  /\ creepIdx' = (creepIdx + 1) % Len(CreepOrder)
  /\ EndTurn
  /\ UNCHANGED <<scanned, phase, matchVars, fault>>

\* The phases of c_step, each with the entities that act in it.
PhaseAfter ==
  [camps |-> "neutrals", neutrals |-> "wave", wave |-> "creeps", creeps |-> "towers",
   towers |-> "heroes", heroes |-> "judge"]

ActorsOf(ph) ==
  CASE ph = "neutrals" -> NeutralOrder
    [] ph = "wave" -> IF tick % WaveEvery = 0 THEN WaveSlots ELSE <<>>
    [] ph = "creeps" -> CreepOrder
    [] ph = "towers" -> TowerOrder
    [] ph = "heroes" -> HeroOrder
    [] OTHER -> <<>>

CampsAt(t) == IF t % CampEvery = 0 THEN NeutralOrder ELSE <<>>

PhaseEnds ==
  /\ ~Spinning /\ phase \notin {"judge", "over"} /\ todo = <<>>
  /\ phase' = PhaseAfter[phase]
  /\ todo' = ActorsOf(phase')
  /\ UNCHANGED <<world, team, scanned, stage, aim, victims, award, creepIdx, matchVars, fault>>

RadiantFell == ~world.alive[RadiantAncient]
DireFell == ~world.alive[DireAncient]

\* Mutant: only the dire ancient's fall ends the match.
Judge_RadiantIgnored ==
  /\ phase = "judge"
  /\ tick' = tick + 1
  /\ fault' = IF shouldReset /\ ~DireFell THEN 4 ELSE fault
  /\ done' = DireFell
  /\ shouldReset' = (shouldReset /\ ~done')
  /\ UNCHANGED winner
  /\ IF done' \/ fault' # 0 \/ tick' = MaxTick
       THEN phase' = "over" /\ todo' = <<>>
       ELSE phase' = "camps" /\ todo' = CampsAt(tick')
  /\ UNCHANGED <<world, team, scanned, stage, aim, victims, award, creepIdx>>

\* The end of c_step: who won, and the guard against a missed reset (fault site
\* 4).  The host steps on only without a result or a fault.
Judge ==
  /\ phase = "judge"
  /\ tick' = tick + 1
  /\ done' = (DireFell \/ RadiantFell)
  /\ winner' = IF RadiantFell THEN 1 ELSE 0
  /\ fault' = IF shouldReset /\ ~done' THEN 4 ELSE fault
  /\ shouldReset' = (shouldReset /\ ~done')
  /\ IF done' \/ fault' # 0 \/ tick' = MaxTick
       THEN phase' = "over" /\ todo' = <<>>
       ELSE phase' = "camps" /\ todo' = CampsAt(tick')
  /\ UNCHANGED <<world, team, scanned, stage, aim, victims, award, creepIdx>>

-----------------------------------------------------------------------------
\* c_reset: towers on their cells, heroes on free cells of their camps, the
\* creep and neutral slots empty.
StartWorlds ==
  LET standing == Heroes \cup Towers
      starts == {f \in [Heroes -> Floor] : \A h \in Heroes : f[h] \in Camp[h]}
      start(f) == [e \in Entities |-> IF e \in Heroes THEN f[e]
                                     ELSE IF e \in Towers THEN TowerCell[e] ELSE Origin]
      free(p) == \A e, g \in standing : p[e] = p[g] => e = g
      on(p, c) == {e \in standing : p[e] = c}
  IN {[grid |-> [c \in Cells |-> IF on(p, c) = {} THEN "empty" ELSE "unit"],
       pids |-> [c \in Cells |-> IF on(p, c) = {} THEN NoPid ELSE CHOOSE e \in on(p, c) : TRUE],
       pos |-> p,
       alive |-> [e \in Entities |-> e \in standing]] :
        p \in {q \in {start(f) : f \in starts} : free(q)}}

WorldInit ==
  /\ world \in StartWorlds
  /\ team = [e \in Entities |-> IF e \in Heroes \cup Towers THEN SideOf[e]
                               ELSE IF e \in Neutrals THEN NeutralTeam ELSE 0]
  /\ scanned = [e \in Entities |-> {}]
  /\ phase = "camps" /\ todo = CampsAt(0)
  /\ stage = "idle" /\ aim = NoPid /\ victims = {} /\ award = NoAward
  /\ creepIdx = 0 /\ tick = 0
  /\ shouldReset = FALSE /\ done = FALSE /\ winner = 0 /\ fault = 0

WorldNext ==
  \/ NeutralsSpawn \/ WaveSpawns \/ PhaseEnds \/ Judge
  \/ SkipTurn \/ UnitLooks
  \/ CreepStrikes \/ CreepWalks \/ NeutralStrikes \/ NeutralWalks \/ TowerFires
  \/ HeroLooks \/ HeroStrikes \/ HeroLeaps \/ HeroShoves \/ HeroCasts \/ HeroHits
  \/ HeroWalks

WorldSpec == WorldInit /\ [][WorldNext]_worldVars

-----------------------------------------------------------------------------
(* Properties.                                                             *)

Fits(w) ==
  /\ \A c \in Cells :
       /\ w.grid[c] = "unit" <=> w.pids[c] # NoPid
       /\ w.pids[c] # NoPid => w.alive[w.pids[c]] /\ w.pos[w.pids[c]] = c
  /\ \A e \in Entities : w.pos[e] # Origin => w.pids[w.pos[e]] = e
  /\ w.pids[Origin] = NoPid

\* The two sides of the occupancy agree (move_to, kill_entity and the spawns
\* keep them by hand): what a cell holds is alive and knows it is there, the grid
\* and the pids mark the same cells, and a unit is in one cell or nowhere: dead,
\* or a creep or neutral that found no free cell, which no scan can see.
MapAgrees == Fits(world)

Homes ==
  [e \in Heroes \cup Creeps \cup Neutrals |->
     IF e \in Creeps THEN LaneHead[0] \cup LaneHead[1] ELSE Camp[e]]

TheBoard == INSTANCE Board
              WITH Troops <- Creeps \cup Neutrals, Buildings <- Towers, Squares <- Floor,
                   Off <- Origin, Home <- Homes, place <- world.pos, alive <- world.alive

\* The hand-kept map implements a plain board: whatever move_to, kill_entity, the
\* spawns and the skills do to grid, pids and floats, one entity at a time goes to a
\* cell nobody is in, dies, or comes back at its camp or lane; a hero that is hit
\* never stays dead, and a tower neither moves nor rises again.
ImplementsBoard == TheBoard!Spec

\* No debug guard of the simulator trips (patch 0004): a scanned target is where
\* the map says, and the radiant ancient never falls without ending the match.
NoGuardTrips == fault = 0

\* A unit is removed or displaced in another's turn only by an enemy that is alive
\* and in range (attack 682-691), although targets may come from an old scan,
\* and their slot may have been recycled for the scanner's own team since.
StruckByEnemies ==
  [][\A e \in Entities :
       world'.alive[e] # world.alive[e] \/ world'.pos[e] # world.pos[e] =>
         \/ e = Actor
         \/ /\ world.alive[Actor] /\ team[Actor] # team[e]
            /\ Distance(world.pos[Actor], world.pos[e]) <= AttackRange]_worldVars

\* "Share xp with allies in range" (moba.h 749): an ally within range of the
\* place of the kill has a share.
XpIsShared ==
  award.by # NoPid =>
    \A a \in Allies(award.by) :
      Distance(world.pos[a], award.at) <= XpRange => a \in award.to
=============================================================================
