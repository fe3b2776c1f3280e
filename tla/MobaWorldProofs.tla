--------------------------- MODULE MobaWorldProofs ---------------------------
(***************************************************************************)
(* For every number of heroes, creeps, neutrals and towers, every map,     *)
(* every wave and every range: the map agrees with the entities, no debug  *)
(* guard of the simulator trips, and only enemies in range strike.         *)
(*                                                                         *)
(* The lemmas follow the code: what each operator on the world (move_to,   *)
(* kill_entity, the spawns) keeps; then one fact per action.               *)
(***************************************************************************)
EXTENDS MobaWorld, SequenceTheorems, TLAPS

-----------------------------------------------------------------------------
(* The operators on the map.                                               *)

LEMMA OriginIsCell == Origin \in Cells /\ Floor \subseteq Cells
  BY DEF Cells

\* What a move leaves: everyone as alive as before, and only e elsewhere.
Moved(w, v, e) ==
  /\ v \in Worlds /\ Fits(v) /\ v.alive = w.alive
  /\ \A f \in Entities \ {e} : v.pos[f] = w.pos[f]

\* A refused or accepted move keeps the two sides in step, and moves only e.
LEMMA MoveFits ==
  ASSUME NEW w \in Worlds, Fits(w), NEW e \in Entities, w.alive[e], NEW c \in Floor
  PROVE  Moved(w, MoveTo(w, e, c), e)
<1> DEFINE v == MoveTo(w, e, c)
<1>1. CASE w.grid[c] # "empty" /\ w.pids[c] # e
  BY <1>1 DEF MoveTo, Moved
<1>2. CASE ~(w.grid[c] # "empty" /\ w.pids[c] # e)
  <2>1. /\ v.grid = [w.grid EXCEPT ![w.pos[e]] = "empty", ![c] = "unit"]
        /\ v.pids = [w.pids EXCEPT ![w.pos[e]] = NoPid, ![c] = e]
        /\ v.pos = [w.pos EXCEPT ![e] = c]
        /\ v.alive = w.alive
    BY <1>2 DEF MoveTo
  <2>2. c \in Cells /\ w.pos[e] \in Cells /\ c # Origin
    BY MapAssumption, OriginIsCell DEF Worlds
  <2>3. w.pids[c] = NoPid \/ w.pids[c] = e
    BY <1>2, <2>2 DEF Fits, Worlds
  <2>4. NoPid # e
    BY SlotsAssumption
  <2>5. v \in Worlds
    <3>1. v = [grid |-> v.grid, pids |-> v.pids, pos |-> v.pos, alive |-> v.alive]
      BY <1>2 DEF MoveTo
    <3>2. /\ v.grid \in [Cells -> {"empty", "unit"}]
          /\ v.pids \in [Cells -> Entities \cup {NoPid}]
          /\ v.pos \in [Entities -> Cells]
          /\ v.alive \in [Entities -> BOOLEAN]
      BY <2>1, <2>2 DEF Worlds
    <3> QED BY <3>1, <3>2 DEF Worlds
  <2>6. \A d \in Cells : /\ v.grid[d] = "unit" <=> v.pids[d] # NoPid
                         /\ v.pids[d] # NoPid => v.alive[v.pids[d]] /\ v.pos[v.pids[d]] = d
    <3> TAKE d \in Cells
    <3>1. CASE d = c
      BY <3>1, <2>1, <2>2, <2>4 DEF Worlds
    <3>2. CASE d # c /\ d = w.pos[e]
      BY <3>2, <2>1, <2>2, <2>4 DEF Worlds
    <3>3. CASE d # c /\ d # w.pos[e]
      <4>1. v.grid[d] = w.grid[d] /\ v.pids[d] = w.pids[d]
        BY <3>3, <2>1, <2>2 DEF Worlds
      <4>2. w.pids[d] # e
        BY <3>3, <2>4 DEF Fits
      <4> QED BY <4>1, <4>2, <2>1, <2>2 DEF Fits, Worlds
    <3> QED BY <3>1, <3>2, <3>3
  <2>7. \A f \in Entities : v.pos[f] # Origin => v.pids[v.pos[f]] = f
    <3> TAKE f \in Entities
    <3>1. CASE f = e
      BY <3>1, <2>1, <2>2 DEF Worlds
    <3>2. CASE f # e
      <4>1. v.pos[f] = w.pos[f] /\ w.pos[f] \in Cells
        BY <3>2, <2>1 DEF Worlds
      <4>2. w.pos[f] # Origin => w.pids[w.pos[f]] = f
        BY DEF Fits
      <4>3. w.pos[f] # Origin => w.pos[f] # c
        BY <4>2, <2>3, <3>2, SlotsAssumption
      <4>4. w.pos[f] # Origin => w.pos[f] # w.pos[e]
        BY <4>2, <3>2 DEF Fits
      <4> QED BY <4>1, <4>2, <4>3, <4>4, <2>1, <2>2 DEF Worlds
    <3> QED BY <3>1, <3>2
  <2>8. v.pids[Origin] = NoPid
    BY <2>1, <2>2, OriginIsCell DEF Fits, Worlds
  <2>9. \A f \in Entities \ {e} : v.pos[f] = w.pos[f]
    BY <2>1 DEF Worlds
  <2> QED BY <2>1, <2>5, <2>6, <2>7, <2>8, <2>9 DEF Fits, Moved
<1> QED BY <1>1, <1>2

\* The dead leave the map; nothing else changes.
LEMMA KillFits ==
  ASSUME NEW w \in Worlds, Fits(w), NEW e \in Entities
  PROVE  LET v == Kill(w, e)
         IN /\ v \in Worlds /\ Fits(v)
            /\ v.alive = [w.alive EXCEPT ![e] = FALSE]
            /\ v.pos = [w.pos EXCEPT ![e] = Origin]
<1> DEFINE v == Kill(w, e)
<1>0. e # NoPid /\ w.pos[e] \in Cells /\ Origin \in Cells
  BY SlotsAssumption, OriginIsCell DEF Worlds
<1>1. CASE ~w.alive[e]
  <2>1. w.pos[e] = Origin
    BY <1>0, <1>1 DEF Fits
  <2>2. v = w
    BY <1>1 DEF Kill
  <2>3. w.alive = [w.alive EXCEPT ![e] = FALSE]
    <3>1. w.alive \in [Entities -> BOOLEAN] /\ w.alive[e] = FALSE
      BY <1>1 DEF Worlds
    <3> QED BY <3>1
  <2>4. w.pos = [w.pos EXCEPT ![e] = Origin]
    BY <2>1 DEF Worlds
  <2> QED BY <2>2, <2>3, <2>4
<1>2. CASE w.alive[e]
  <2>1. /\ v.grid = [w.grid EXCEPT ![w.pos[e]] = "empty"]
        /\ v.pids = [w.pids EXCEPT ![w.pos[e]] = NoPid]
        /\ v.pos = [w.pos EXCEPT ![e] = Origin]
        /\ v.alive = [w.alive EXCEPT ![e] = FALSE]
    BY <1>2 DEF Kill
  <2>2. v \in Worlds
    <3>1. v = [grid |-> v.grid, pids |-> v.pids, pos |-> v.pos, alive |-> v.alive]
      BY <1>2 DEF Kill
    <3>2. /\ v.grid \in [Cells -> {"empty", "unit"}]
          /\ v.pids \in [Cells -> Entities \cup {NoPid}]
          /\ v.pos \in [Entities -> Cells]
          /\ v.alive \in [Entities -> BOOLEAN]
      BY <2>1, <1>0 DEF Worlds
    <3> QED BY <3>1, <3>2 DEF Worlds
  <2>3. \A d \in Cells : /\ v.grid[d] = "unit" <=> v.pids[d] # NoPid
                         /\ v.pids[d] # NoPid => v.alive[v.pids[d]] /\ v.pos[v.pids[d]] = d
    <3> TAKE d \in Cells
    <3>1. CASE d = w.pos[e]
      BY <3>1, <2>1, <1>0 DEF Worlds
    <3>2. CASE d # w.pos[e]
      <4>1. v.grid[d] = w.grid[d] /\ v.pids[d] = w.pids[d]
        BY <3>2, <2>1, <1>0 DEF Worlds
      <4>2. w.pids[d] # e
        BY <3>2, <1>0 DEF Fits
      <4> QED BY <4>1, <4>2, <2>1 DEF Fits, Worlds
    <3> QED BY <3>1, <3>2
  <2>4. \A f \in Entities : v.pos[f] # Origin => v.pids[v.pos[f]] = f
    BY <2>1, <1>0 DEF Fits, Worlds
  <2>5. v.pids[Origin] = NoPid
    BY <2>1, <1>0 DEF Fits, Worlds
  <2> QED BY <2>1, <2>2, <2>3, <2>4, <2>5 DEF Fits
<1> QED BY <1>1, <1>2

\* A slot that gets its pid back is where it was.
LEMMA ReviveFits ==
  ASSUME NEW w \in Worlds, Fits(w), NEW e \in Entities
  PROVE  LET v == Revive(w, e)
         IN /\ v \in Worlds /\ Fits(v)
            /\ v.alive = [w.alive EXCEPT ![e] = TRUE] /\ v.pos = w.pos
<1> DEFINE v == Revive(w, e)
<1>1. /\ v.grid = w.grid /\ v.pids = w.pids /\ v.pos = w.pos
      /\ v.alive = [w.alive EXCEPT ![e] = TRUE]
      /\ v = [grid |-> v.grid, pids |-> v.pids, pos |-> v.pos, alive |-> v.alive]
  BY DEF Revive
<1>2. v.alive \in [Entities -> BOOLEAN] /\ \A f \in Entities : w.alive[f] => v.alive[f]
  BY <1>1 DEF Worlds
<1>3. v \in Worlds
  BY <1>1, <1>2 DEF Worlds
<1>4. Fits(v)
  BY <1>1, <1>2 DEF Fits, Worlds
<1> QED BY <1>1, <1>3, <1>4

\* What a spawn leaves: the spawned entity lives, the others are untouched.
Placed(w, v, e) ==
  /\ v \in Worlds /\ Fits(v)
  /\ v.alive = [w.alive EXCEPT ![e] = TRUE]
  /\ \A f \in Entities \ {e} : v.pos[f] = w.pos[f]

\* Killed, given its pid back, and moved or not: placed.
LEMMA PutBackFits ==
  ASSUME NEW w \in Worlds, Fits(w), NEW e \in Entities
  PROVE  LET out == Revive(Kill(w, e), e)
         IN Placed(w, out, e) /\ \A c \in Floor : Placed(w, MoveTo(out, e, c), e)
<1> DEFINE k == Kill(w, e)
           out == Revive(k, e)
<1>1. k \in Worlds /\ Fits(k) /\ k.alive = [w.alive EXCEPT ![e] = FALSE]
      /\ k.pos = [w.pos EXCEPT ![e] = Origin]
  BY KillFits
<1>2. out \in Worlds /\ Fits(out) /\ out.alive = [k.alive EXCEPT ![e] = TRUE] /\ out.pos = k.pos
  <2> HIDE DEF k
  <2> QED BY <1>1, ReviveFits
<1> HIDE DEF k, out
<1>3. out.alive = [w.alive EXCEPT ![e] = TRUE] /\ out.alive[e]
  BY <1>1, <1>2 DEF Worlds
<1>4. \A f \in Entities \ {e} : out.pos[f] = w.pos[f]
  BY <1>1, <1>2 DEF Worlds
<1>5. ASSUME NEW c \in Floor
      PROVE  Placed(w, MoveTo(out, e, c), e)
  <2>1. Moved(out, MoveTo(out, e, c), e)
    BY <1>2, <1>3, MoveFits
  <2> QED BY <2>1, <1>3, <1>4 DEF Placed, Moved
<1>6. Placed(w, out, e)
  BY <1>2, <1>3, <1>4 DEF Placed
<1> QED BY <1>5, <1>6 DEF k, out

LEMMA RespawnFits ==
  ASSUME NEW w \in Worlds, Fits(w), NEW h \in Heroes, NEW v \in Respawns(w, h)
  PROVE  Placed(w, v, h)
<1>1. h \in Entities /\ Camp[h] \subseteq Floor
  BY MapAssumption DEF Entities
<1>2. v = Revive(Kill(w, h), h) \/ \E c \in Floor : v = MoveTo(Revive(Kill(w, h), h), h, c)
  BY <1>1 DEF Respawns
<1> QED BY <1>1, <1>2, PutBackFits

LEMMA CreepSpawnFits ==
  ASSUME NEW w \in Worlds, Fits(w), NEW e \in Entities, NEW s \in {0, 1},
         NEW v \in CreepSpawns(w, e, s)
  PROVE  Placed(w, v, e)
<1>1. v = Revive(Kill(w, e), e) \/ \E c \in Floor : v = MoveTo(Revive(Kill(w, e), e), e, c)
  BY MapAssumption DEF CreepSpawns
<1> QED BY <1>1, PutBackFits

LEMMA NeutralSpawnFits ==
  ASSUME NEW w \in Worlds, Fits(w), NEW n \in Neutrals, NEW v \in NeutralSpawns(w, n)
  PROVE  Placed(w, v, n)
<1>1. n \in Entities /\ Camp[n] \subseteq Floor
  BY MapAssumption DEF Entities
<1> DEFINE out == Revive(w, n)
<1>2. out \in Worlds /\ Fits(out) /\ out.alive = [w.alive EXCEPT ![n] = TRUE] /\ out.pos = w.pos
  BY <1>1, ReviveFits
<1>3. v = out \/ \E c \in Floor : v = MoveTo(out, n, c)
  BY <1>1 DEF NeutralSpawns
<1> HIDE DEF out
<1>4. out.alive[n]
  BY <1>1, <1>2 DEF Worlds
<1>5. Moved(out, v, n)
  <2>1. CASE v = out
    BY <1>2, <2>1 DEF Moved
  <2>2. CASE \E c \in Floor : v = MoveTo(out, n, c)
    BY <1>1, <1>2, <1>4, <2>2, MoveFits
  <2> QED BY <1>3, <2>1, <2>2
<1> QED BY <1>2, <1>5 DEF Placed, Moved

\* c_reset's map agrees with the entities.
LEMMA StartFits ==
  ASSUME NEW w \in StartWorlds
  PROVE  /\ w \in Worlds /\ Fits(w)
         /\ \A h \in Heroes : w.alive[h]
         /\ \A e \in Entities : w.alive[e] => w.pos[e] # Origin
<1> DEFINE standing == Heroes \cup Towers
           on(p, c) == {e \in standing : p[e] = c}
           free(p) == \A e, g \in standing : p[e] = p[g] => e = g
           made(p) == [grid |-> [c \in Cells |-> IF on(p, c) = {} THEN "empty" ELSE "unit"],
                       pids |-> [c \in Cells |-> IF on(p, c) = {} THEN NoPid
                                                 ELSE CHOOSE e \in on(p, c) : TRUE],
                       pos |-> p,
                       alive |-> [e \in Entities |-> e \in standing]]
<1>1. PICK p \in [Entities -> Cells] :
        w = made(p) /\ free(p) /\ \A e \in Entities : e \in standing <=> p[e] # Origin
  <2> DEFINE start(f) == [e \in Entities |-> IF e \in Heroes THEN f[e]
                                   ELSE IF e \in Towers THEN TowerCell[e] ELSE Origin]
             starts == {f \in [Heroes -> Floor] : \A h \in Heroes : f[h] \in Camp[h]}
  <2>1. w \in {made(p) : p \in {q \in {start(f) : f \in starts} : free(q)}}
    BY DEF StartWorlds
  <2>2. PICK p \in {q \in {start(f) : f \in starts} : free(q)} : w = made(p)
    <3> HIDE DEF made, free, start, starts
    <3> QED BY <2>1
  <2>3. PICK f \in [Heroes -> Floor] : p = start(f)
    BY <2>2
  <2>4. p \in [Entities -> Cells]
    BY <2>3, MapAssumption DEF Cells
  <2>5. \A e \in Entities : e \in standing <=> p[e] # Origin
    BY <2>3, MapAssumption
  <2>6. free(p)
    BY <2>2
  <2> HIDE DEF made, free, standing
  <2> QED BY <2>2, <2>4, <2>5, <2>6
<1>2. standing \subseteq Entities /\ NoPid \notin standing
  BY SlotsAssumption DEF Entities
<1>3. \A e \in Entities : e \in standing <=> p[e] # Origin
  BY <1>1
<1>4. \A c \in Cells :
        \/ on(p, c) = {} /\ w.grid[c] = "empty" /\ w.pids[c] = NoPid
        \/ w.grid[c] = "unit" /\ w.pids[c] \in standing /\ p[w.pids[c]] = c
  <2> TAKE c \in Cells
  <2>1. CASE on(p, c) = {}
    BY <1>1, <2>1
  <2>2. CASE on(p, c) # {}
    <3>1. w.grid[c] = "unit" /\ w.pids[c] = CHOOSE e \in on(p, c) : TRUE
      BY <1>1, <2>2
    <3>2. (CHOOSE e \in on(p, c) : TRUE) \in on(p, c)
      BY <2>2
    <3> QED BY <3>1, <3>2
  <2> QED BY <2>1, <2>2
<1>5. w.pos = p /\ w.alive = [e \in Entities |-> e \in standing]
  BY <1>1
<1>6. w \in Worlds
  <2>1. w.grid \in [Cells -> {"empty", "unit"}]
    BY <1>1
  <2>2. w.pids \in [Cells -> Entities \cup {NoPid}]
    <3>1. w.pids = [c \in Cells |-> w.pids[c]]
      BY <1>1
    <3>2. \A c \in Cells : w.pids[c] \in Entities \cup {NoPid}
      BY <1>2, <1>4
    <3> QED BY <3>1, <3>2
  <2>3. w = [grid |-> w.grid, pids |-> w.pids, pos |-> w.pos, alive |-> w.alive]
    BY <1>1
  <2>4. w.alive \in [Entities -> BOOLEAN]
    BY <1>5
  <2> QED BY <2>1, <2>2, <2>3, <2>4, <1>5 DEF Worlds
<1>7. \A c \in Cells : /\ w.grid[c] = "unit" <=> w.pids[c] # NoPid
                       /\ w.pids[c] # NoPid => w.alive[w.pids[c]] /\ w.pos[w.pids[c]] = c
  <2> TAKE c \in Cells
  <2>1. \A e \in standing : w.alive[e]
    BY <1>2, <1>5
  <2>2. CASE w.grid[c] = "empty" /\ w.pids[c] = NoPid
    BY <2>2
  <2>3. CASE w.grid[c] = "unit" /\ w.pids[c] \in standing /\ p[w.pids[c]] = c
    <3>1. w.pids[c] # NoPid /\ w.alive[w.pids[c]] /\ w.pos[w.pids[c]] = c
      BY <2>1, <2>3, <1>2, <1>5
    <3> QED BY <2>3, <3>1
  <2> QED BY <1>4, <2>2, <2>3
<1>8. \A e \in Entities : w.pos[e] # Origin => w.pids[w.pos[e]] = e
  <2> SUFFICES ASSUME NEW e \in Entities, p[e] # Origin
               PROVE  w.pids[p[e]] = e
    BY <1>5
  <2>1. e \in standing /\ e \in on(p, p[e]) /\ p[e] \in Cells
    BY <1>3
  <2>2. w.pids[p[e]] \in standing /\ p[w.pids[p[e]]] = p[e]
    BY <2>1, <1>4
  <2> QED BY <2>1, <2>2, <1>1
<1>9. w.pids[Origin] = NoPid
  BY <1>2, <1>3, <1>4, OriginIsCell
<1>10. \A h \in Heroes : w.alive[h]
  BY <1>2, <1>5
<1>11. \A e \in Entities : w.alive[e] => w.pos[e] # Origin
  BY <1>3, <1>5
<1> QED BY <1>6, <1>7, <1>8, <1>9, <1>10, <1>11 DEF Fits

-----------------------------------------------------------------------------
(* The inductive invariant.  MapAgrees alone is not inductive: a unit may  *)
(* only move or strike in its own turn and alive, and a recycled slot must *)
(* be no hero's and no tower's, which is a fact about the phases.          *)

HeroesLive == \A h \in Heroes : world.alive[h]

ResetMeansDown == shouldReset => RadiantFell

WorldPart == world \in Worlds /\ Fits(world) /\ HeroesLive /\ ResetMeansDown

ActorsIn == [camps |-> Neutrals, neutrals |-> Neutrals, wave |-> Creeps, creeps |-> Creeps,
             towers |-> Towers, heroes |-> Heroes, judge |-> {}, over |-> {}]

TurnOfTheLiving == stage # "idle" => todo # <<>> /\ world.alive[Actor]

TurnPart ==
  /\ phase \in DOMAIN ActorsIn /\ todo \in Seq(ActorsIn[phase])
  /\ phase = "wave" => Len(todo) <= Len(WaveTeams)
  /\ stage \in {"idle", "aimed", "landed", "shoved", "area", "spent"}
  /\ aim \in Entities \cup {NoPid}
  /\ victims \subseteq Entities
  /\ award \in Awards

SlotPart ==
  /\ team \in [Entities -> {0, 1, NeutralTeam}]
  /\ scanned \in [Entities -> SUBSET Entities]
  /\ creepIdx \in 0..(Len(CreepOrder) - 1)

MatchPart ==
  /\ tick \in Nat /\ shouldReset \in BOOLEAN /\ done \in BOOLEAN /\ winner \in {0, 1}
  /\ fault = 0

WorldInv == WorldPart /\ TurnPart /\ TurnOfTheLiving /\ SlotPart /\ MatchPart

\* What StruckByEnemies says of a step.
OnlyStruck ==
  \A e \in Entities :
    world'.alive[e] # world.alive[e] \/ world'.pos[e] # world.pos[e] =>
      \/ e = Actor
      \/ /\ world.alive[Actor] /\ team[Actor] # team[e]
         /\ Distance(world.pos[Actor], world.pos[e]) <= AttackRange

-----------------------------------------------------------------------------
(* What the steps of a turn do to the world.                               *)

LEMMA HeadTail ==
  ASSUME NEW S, NEW s \in Seq(S), s # <<>>
  PROVE  Head(s) \in S /\ Tail(s) \in Seq(S) /\ Len(Tail(s)) = Len(s) - 1 /\ Len(s) \in Nat \ {0}
  BY HeadTailProperties, EmptySeq

LEMMA ActorFact ==
  ASSUME TurnPart, todo # <<>>
  PROVE  /\ Actor \in ActorsIn[phase] /\ Actor \in Entities
         /\ Tail(todo) \in Seq(ActorsIn[phase])
         /\ phase = "wave" => Len(Tail(todo)) <= Len(WaveTeams)
<1>1. Actor \in ActorsIn[phase] /\ Tail(todo) \in Seq(ActorsIn[phase])
      /\ Len(Tail(todo)) = Len(todo) - 1 /\ Len(todo) \in Nat
  BY HeadTail DEF TurnPart, Actor
<1>2. Actor \in Entities
  BY <1>1 DEF TurnPart, ActorsIn, Entities
<1>3. phase = "wave" => Len(Tail(todo)) <= Len(WaveTeams)
  <2>1. Len(WaveTeams) \in Nat
    BY ParameterAssumption
  <2> QED BY <1>1, <2>1 DEF TurnPart
<1> QED BY <1>1, <1>2, <1>3

LEMMA StillKeeps ==
  ASSUME WorldPart, UNCHANGED <<world, shouldReset>>
  PROVE  WorldPart' /\ OnlyStruck
  BY DEF WorldPart, HeroesLive, ResetMeansDown, RadiantFell, OnlyStruck

LEMMA MoveKeeps ==
  ASSUME WorldPart, Actor \in Entities, Moved(world, world', Actor), UNCHANGED shouldReset
  PROVE  WorldPart' /\ OnlyStruck /\ world'.alive = world.alive
<1>1. WorldPart'
  BY DEF WorldPart, HeroesLive, ResetMeansDown, RadiantFell, Moved
<1>2. OnlyStruck
  BY DEF OnlyStruck, Moved
<1> QED BY <1>1, <1>2 DEF Moved

LEMMA StrollKeeps ==
  ASSUME WorldPart, Actor \in Entities, world.alive[Actor], NEW r,
         world' \in Strolls(Actor, r), UNCHANGED shouldReset
  PROVE  WorldPart' /\ OnlyStruck /\ world'.alive = world.alive
<1>1. CASE world' = world
  BY <1>1, StillKeeps
<1>2. CASE \E c \in Floor : world' = MoveTo(world, Actor, c)
  <2>1. Moved(world, world', Actor)
    BY <1>2, MoveFits DEF WorldPart
  <2> QED BY <2>1, MoveKeeps
<1> QED BY <1>1, <1>2 DEF Strolls

LEMMA SpawnKeeps ==
  ASSUME WorldPart, Actor \in Neutrals \cup Creeps, Placed(world, world', Actor),
         UNCHANGED shouldReset
  PROVE  WorldPart' /\ OnlyStruck
<1>0. Actor \in Entities /\ Actor # RadiantAncient /\ RadiantAncient \in Entities
      /\ Heroes \subseteq Entities
  BY SlotsAssumption DEF Entities
<1>1. \A e \in Entities \ {Actor} : world'.alive[e] = world.alive[e] /\ world'.pos[e] = world.pos[e]
  BY <1>0 DEF Placed, WorldPart, Worlds
<1>2. world'.alive[Actor] = TRUE
  BY <1>0 DEF Placed, WorldPart, Worlds
<1>3. WorldPart'
  BY <1>0, <1>1, <1>2 DEF WorldPart, HeroesLive, ResetMeansDown, RadiantFell, Placed
<1>4. OnlyStruck
  BY <1>1 DEF OnlyStruck
<1> QED BY <1>3, <1>4

LEMMA AttackKeeps ==
  ASSUME WorldPart, Actor \in Entities, world.alive[Actor], NEW t \in Entities, award \in Awards,
         shouldReset \in BOOLEAN, Attack(Actor, t)
  PROVE  /\ WorldPart' /\ OnlyStruck /\ world'.alive[Actor]
         /\ award' \in Awards /\ shouldReset' \in BOOLEAN
<1>1. CASE UNCHANGED <<world, award, shouldReset>>
  BY <1>1, StillKeeps
<1>2. CASE /\ Attackable(Actor, t)
           /\ \E after \in Deaths(t) : world' = after /\ award' = AwardFor(Actor, t, after)
           /\ shouldReset' = (shouldReset \/ t = RadiantAncient)
  <2>0. t # Actor /\ RadiantAncient \in Entities \ Heroes /\ Heroes \subseteq Entities
    BY <1>2, SlotsAssumption DEF Attackable, Entities
  <2>1. world' \in Deaths(t) /\ award' = AwardFor(Actor, t, world')
    BY <1>2
  <2>2. /\ world' \in Worlds /\ Fits(world)'
        /\ \A e \in Entities \ {t} : world'.alive[e] = world.alive[e] /\ world'.pos[e] = world.pos[e]
        /\ t \in Heroes => world'.alive[t]
        /\ t \notin Heroes => ~world'.alive[t]
    <3>1. CASE t \in Heroes
      <4>1. Placed(world, world', t)
        BY <2>1, <3>1, RespawnFits DEF Deaths, WorldPart
      <4> QED BY <4>1, <3>1, <2>0 DEF Placed, WorldPart, Worlds
    <3>2. CASE t \notin Heroes
      <4>1. world' = Kill(world, t)
        BY <2>1, <3>2 DEF Deaths
      <4>2. /\ world' \in Worlds /\ Fits(world')
            /\ world'.alive = [world.alive EXCEPT ![t] = FALSE]
            /\ world'.pos = [world.pos EXCEPT ![t] = Origin]
        BY <4>1, KillFits DEF WorldPart
      <4> QED BY <4>2, <3>2 DEF WorldPart, Worlds
    <3> QED BY <3>1, <3>2
  <2>3. HeroesLive'
    BY <2>0, <2>2 DEF WorldPart, HeroesLive
  <2>4. ResetMeansDown'
    <3>1. CASE t = RadiantAncient
      BY <3>1, <2>0, <2>2 DEF ResetMeansDown, RadiantFell
    <3>2. CASE t # RadiantAncient
      BY <3>2, <1>2, <2>0, <2>2 DEF WorldPart, ResetMeansDown, RadiantFell
    <3> QED BY <3>1, <3>2
  <2>5. OnlyStruck
    BY <1>2, <2>2 DEF OnlyStruck, Attackable
  <2>6. award' \in Awards
    <3>1. NoAward \in Awards
      BY OriginIsCell DEF NoAward, Awards
    <3>2. ASSUME Actor \in Heroes
          PROVE  [by |-> Actor, at |-> world.pos[t],
                  to |-> {Actor} \cup {b \in Allies(Actor) :
                                         Distance(world'.pos[b], world'.pos[t]) <= XpRange}] \in Awards
      BY <3>2 DEF Awards, Allies, WorldPart, Worlds
    <3> QED BY <2>1, <3>1, <3>2 DEF AwardFor
  <2>7. shouldReset' \in BOOLEAN
    BY <1>2
  <2> QED BY <2>0, <2>2, <2>3, <2>4, <2>5, <2>6, <2>7 DEF WorldPart
<1> QED BY <1>1, <1>2 DEF Attack

\* What a scan sees is near: no guard trips.
LEMMA SeenIsNear ==
  ASSUME world \in Worlds, Fits(world), fault = 0, NEW e \in Entities, NEW ignored,
         NEW r \in Nat, r <= Vision
  PROVE  Seen(e, ignored, r) \subseteq Entities /\ FaultAfter(e, Seen(e, ignored, r)) = 0
<1>1. ASSUME NEW t \in Seen(e, ignored, r)
      PROVE  t \in Entities /\ ~(Distance(world.pos[e], world.pos[t]) > ScanLimit)
  <2>1. PICK c \in Cells : Within(world.pos[e], c, r) /\ world.pids[c] = t
    BY DEF Seen
  <2>2. t \in Entities /\ world.pos[t] = c
    BY <2>1, SlotsAssumption DEF Seen, Fits
  <2>3. \A d \in Cells : d[1] \in Nat /\ d[2] \in Nat
    BY MapAssumption DEF Cells, Origin
  <2>4. world.pos[e] \in Cells
    BY DEF Worlds
  <2>5. /\ AbsDiff(world.pos[e][1], c[1]) \in Nat /\ AbsDiff(world.pos[e][2], c[2]) \in Nat
    BY <2>3, <2>4 DEF AbsDiff
  <2>6. Vision \in Nat /\ ScanLimit \in Nat /\ 2 * Vision <= ScanLimit
    BY ParameterAssumption
  <2>7. Distance(world.pos[e], c) <= ScanLimit /\ Distance(world.pos[e], c) \in Nat
    BY <2>1, <2>5, <2>6 DEF Distance, Within
  <2> QED BY <2>2, <2>6, <2>7
<1> QED BY <1>1 DEF FaultAfter

LEMMA TurnEnds ==
  ASSUME TurnPart, todo # <<>>, EndTurn, UNCHANGED phase
  PROVE  TurnPart' /\ TurnOfTheLiving'
<1>1. NoAward \in Awards
  BY OriginIsCell DEF NoAward, Awards
<1>2. /\ todo' \in Seq(ActorsIn[phase'])
      /\ phase' = "wave" => Len(todo') <= Len(WaveTeams)
  BY ActorFact DEF EndTurn
<1>3. ActorsIn' = ActorsIn
  BY DEF ActorsIn
<1> QED BY <1>1, <1>2, <1>3 DEF TurnPart, EndTurn, TurnOfTheLiving

LEMMA TurnGoesOn ==
  ASSUME TurnPart, todo # <<>>, world'.alive[Actor], UNCHANGED <<phase, todo>>,
         stage' \in {"idle", "aimed", "landed", "shoved", "area", "spent"},
         aim' \in Entities \cup {NoPid}, victims' \subseteq Entities, award' \in Awards
  PROVE  TurnPart' /\ TurnOfTheLiving'
  BY DEF TurnPart, TurnOfTheLiving, Actor, ActorsIn

-----------------------------------------------------------------------------
(* The actions, each by the lemma of what it does to the world.            *)

Kept == WorldInv' /\ OnlyStruck

LEMMA InTurn ==
  ASSUME WorldInv, NEW ph, NEW st, Acting(ph, st)
  PROVE  /\ todo # <<>> /\ phase = ph /\ Actor \in Entities
         /\ Actor \in ActorsIn[ph] /\ (stage # "idle" => world.alive[Actor])
  BY ActorFact DEF WorldInv, Acting, TurnOfTheLiving

LEMMA SkipTurnKeeps == ASSUME WorldInv, SkipTurn PROVE Kept
<1>1. todo # <<>>
  BY DEF SkipTurn, Acting
<1>2. WorldPart' /\ OnlyStruck
  BY StillKeeps DEF WorldInv, SkipTurn, matchVars
<1>3. TurnPart' /\ TurnOfTheLiving'
  BY <1>1, TurnEnds DEF WorldInv, SkipTurn
<1>4. SlotPart' /\ MatchPart'
  BY DEF WorldInv, SkipTurn, SlotPart, MatchPart, matchVars
<1> QED BY <1>2, <1>3, <1>4 DEF Kept, WorldInv

\* A walk ends the turn of a unit that is alive.
LEMMA WalksKeep ==
  ASSUME WorldInv, CreepWalks \/ NeutralWalks \/ HeroWalks
  PROVE  Kept
<1>1. /\ todo # <<>> /\ stage # "idle" /\ EndTurn
      /\ \E r \in {1, 2} : world' \in Strolls(Actor, r)
      /\ UNCHANGED <<team, scanned, phase, creepIdx, matchVars, fault>>
  BY DEF CreepWalks, NeutralWalks, HeroWalks, Acting
<1>2. Actor \in Entities /\ world.alive[Actor]
  BY <1>1, ActorFact DEF WorldInv, TurnOfTheLiving
<1>3. WorldPart' /\ OnlyStruck
  BY <1>1, <1>2, StrollKeeps DEF WorldInv, matchVars
<1>4. TurnPart' /\ TurnOfTheLiving'
  BY <1>1, TurnEnds DEF WorldInv
<1>5. SlotPart' /\ MatchPart'
  BY <1>1 DEF WorldInv, SlotPart, MatchPart, matchVars
<1> QED BY <1>3, <1>4, <1>5 DEF Kept, WorldInv

LEMMA UnitLooksKeeps == ASSUME WorldInv, UnitLooks PROVE Kept
<1>1. todo # <<>> /\ Actor \in Entities /\ world.alive[Actor]
  BY ActorFact DEF WorldInv, UnitLooks, Acting
<1>2. WorldPart' /\ OnlyStruck
  BY StillKeeps DEF WorldInv, UnitLooks, matchVars
<1> DEFINE seen == Seen(Actor, Ignored(Actor), Vision)
           targets == IF Due(Actor) THEN seen ELSE scanned[Actor]
<1>3. seen \subseteq Entities /\ FaultAfter(Actor, seen) = 0
  BY <1>1, SeenIsNear, ParameterAssumption DEF WorldInv, WorldPart, MatchPart
<1>4. targets \subseteq Entities
  BY <1>1, <1>3 DEF WorldInv, SlotPart
<1>5. aim' \in Entities \cup {NoPid}
  <2>1. aim' \in IF targets = {} THEN {NoPid} ELSE Nearest(Actor, targets)
    BY DEF UnitLooks
  <2> HIDE DEF targets
  <2> QED BY <2>1, <1>4 DEF Nearest
<1>6. scanned' = [scanned EXCEPT ![Actor] = targets]
  BY DEF UnitLooks
<1>7. fault' = 0
  <2>1. fault' = IF Due(Actor) THEN FaultAfter(Actor, seen) ELSE fault
    BY DEF UnitLooks
  <2> QED BY <2>1, <1>3 DEF WorldInv, MatchPart
<1> HIDE DEF targets, seen
<1>8. TurnPart' /\ TurnOfTheLiving'
  BY <1>1, <1>5, TurnGoesOn DEF WorldInv, UnitLooks, TurnPart
<1>9. SlotPart'
  BY <1>4, <1>6 DEF WorldInv, UnitLooks, SlotPart
<1>10. MatchPart'
  BY <1>7 DEF WorldInv, UnitLooks, MatchPart, matchVars
<1> QED BY <1>2, <1>8, <1>9, <1>10 DEF Kept, WorldInv

\* A blow that leaves the striker a turn to finish, or ends it.
LEMMA StrikesKeep ==
  ASSUME WorldInv, CreepStrikes \/ HeroStrikes \/ NeutralStrikes \/ TowerFires
  PROVE  Kept
<1>1. /\ todo # <<>> /\ stage # "idle"
      /\ UNCHANGED <<team, scanned, phase, creepIdx, tick, done, winner, fault>>
      /\ \/ EndTurn
         \/ UNCHANGED <<todo, aim, victims>> /\ stage' = "spent"
      /\ UNCHANGED <<world, award, shouldReset>> \/ (aim # NoPid /\ Attack(Actor, aim))
  BY DEF CreepStrikes, HeroStrikes, NeutralStrikes, TowerFires, Acting, Close
<1>2. Actor \in Entities /\ world.alive[Actor]
  BY <1>1, ActorFact DEF WorldInv, TurnOfTheLiving
<1>3. WorldPart' /\ OnlyStruck /\ world'.alive[Actor] /\ shouldReset' \in BOOLEAN
  <2>1. CASE UNCHANGED <<world, award, shouldReset>>
    BY <2>1, <1>2, StillKeeps DEF WorldInv, MatchPart
  <2>2. CASE aim # NoPid /\ Attack(Actor, aim)
    <3>1. aim \in Entities /\ award \in Awards /\ shouldReset \in BOOLEAN
      BY <2>2 DEF WorldInv, TurnPart, MatchPart
    <3> QED BY <2>2, <3>1, <1>2, AttackKeeps DEF WorldInv
  <2> QED BY <1>1, <2>1, <2>2
<1>4. TurnPart' /\ TurnOfTheLiving'
  <2>1. CASE EndTurn
    BY <2>1, <1>1, TurnEnds DEF WorldInv
  <2>2. CASE UNCHANGED <<todo, aim, victims>> /\ stage' = "spent"
    <3>1. award' \in Awards
      <4>1. CASE UNCHANGED <<world, award, shouldReset>>
        BY <4>1 DEF WorldInv, TurnPart
      <4>2. CASE aim # NoPid /\ Attack(Actor, aim)
        <5>1. aim \in Entities /\ award \in Awards /\ shouldReset \in BOOLEAN
          BY <4>2 DEF WorldInv, TurnPart, MatchPart
        <5> QED BY <4>2, <5>1, <1>2, AttackKeeps DEF WorldInv
      <4> QED BY <1>1, <4>1, <4>2
    <3>2. aim' \in Entities \cup {NoPid} /\ victims' \subseteq Entities
      BY <2>2 DEF WorldInv, TurnPart
    <3> QED BY <1>1, <1>3, <2>2, <3>1, <3>2, TurnGoesOn DEF WorldInv
  <2> QED BY <1>1, <2>1, <2>2
<1>5. SlotPart'
  BY <1>1 DEF WorldInv, SlotPart
<1>6. MatchPart'
  BY <1>1, <1>3 DEF WorldInv, MatchPart
<1> QED BY <1>3, <1>4, <1>5, <1>6 DEF Kept, WorldInv

LEMMA HeroLooksKeeps == ASSUME WorldInv, HeroLooks PROVE Kept
<1>1. /\ todo # <<>> /\ Actor \in Entities /\ world.alive[Actor]
  BY InTurn, SlotsAssumption DEF HeroLooks, WorldInv, WorldPart, HeroesLive, ActorsIn
<1>2. WorldPart' /\ OnlyStruck
  BY StillKeeps DEF WorldInv, HeroLooks, matchVars
<1>3. PICK ignored \in {{}, Creeps \cup Neutrals} :
        LET targets == Seen(Actor, ignored, Vision)
        IN /\ fault' = FaultAfter(Actor, targets)
           /\ aim' \in IF targets = {} THEN {NoPid} ELSE Nearest(Actor, targets)
  BY DEF HeroLooks
<1> DEFINE targets == Seen(Actor, ignored, Vision)
<1>4. targets \subseteq Entities /\ fault' = 0
  BY <1>1, <1>3, SeenIsNear, ParameterAssumption DEF WorldInv, WorldPart, MatchPart
<1>5. aim' \in Entities \cup {NoPid}
  <2>1. aim' \in IF targets = {} THEN {NoPid} ELSE Nearest(Actor, targets)
    BY <1>3
  <2> HIDE DEF targets
  <2> QED BY <2>1, <1>4 DEF Nearest
<1>6. TurnPart' /\ TurnOfTheLiving'
  BY <1>1, <1>5, TurnGoesOn DEF WorldInv, HeroLooks, TurnPart
<1>7. SlotPart' /\ MatchPart'
  BY <1>4 DEF WorldInv, HeroLooks, SlotPart, MatchPart, matchVars
<1> QED BY <1>2, <1>6, <1>7 DEF Kept, WorldInv

\* Leaps and shoves move the caster and leave it its turn.
LEMMA DisplacesKeep ==
  ASSUME WorldInv, HeroLeaps \/ HeroShoves
  PROVE  Kept
<1>1. /\ todo # <<>> /\ stage # "idle" /\ stage' \in {"landed", "shoved"}
      /\ UNCHANGED <<team, scanned, phase, todo, aim, victims, award, creepIdx, matchVars, fault>>
      /\ \/ \E c \in Floor : world' = MoveTo(world, Actor, c)
         \/ world' \in Strolls(Actor, Leap)
  BY DEF HeroLeaps, HeroShoves, Acting
<1>2. Actor \in Entities /\ world.alive[Actor]
  BY <1>1, ActorFact DEF WorldInv, TurnOfTheLiving
<1>3. WorldPart' /\ OnlyStruck /\ world'.alive = world.alive
  <2>1. CASE \E c \in Floor : world' = MoveTo(world, Actor, c)
    <3>1. Moved(world, world', Actor)
      BY <2>1, <1>2, MoveFits DEF WorldInv, WorldPart
    <3> QED BY <3>1, <1>1, <1>2, MoveKeeps DEF WorldInv, matchVars
  <2>2. CASE world' \in Strolls(Actor, Leap)
    BY <2>2, <1>1, <1>2, StrollKeeps DEF WorldInv, matchVars
  <2> QED BY <1>1, <2>1, <2>2
<1>4. TurnPart' /\ TurnOfTheLiving'
  BY <1>1, <1>2, <1>3, TurnGoesOn DEF WorldInv, TurnPart
<1>5. SlotPart' /\ MatchPart'
  BY <1>1 DEF WorldInv, SlotPart, MatchPart, matchVars
<1> QED BY <1>3, <1>4, <1>5 DEF Kept, WorldInv

LEMMA HeroCastsKeeps == ASSUME WorldInv, HeroCasts PROVE Kept
<1>1. /\ todo # <<>> /\ Actor \in Entities /\ world.alive[Actor]
  <2>1. stage # "idle"
    BY DEF HeroCasts, Acting
  <2> QED BY <2>1, InTurn DEF HeroCasts
<1>2. WorldPart' /\ OnlyStruck
  BY StillKeeps DEF WorldInv, HeroCasts, matchVars
<1>3. PICK radius \in 1..Vision : /\ victims' = Seen(Actor, {}, radius)
                                 /\ fault' = FaultAfter(Actor, victims')
  BY DEF HeroCasts
<1>4. radius \in Nat /\ radius <= Vision
  BY ParameterAssumption
<1>5. victims' \subseteq Entities /\ fault' = 0
  BY <1>1, <1>3, <1>4, SeenIsNear DEF WorldInv, WorldPart, MatchPart
<1>6. TurnPart' /\ TurnOfTheLiving'
  BY <1>1, <1>5, TurnGoesOn DEF WorldInv, HeroCasts, TurnPart
<1>7. SlotPart' /\ MatchPart'
  BY <1>5 DEF WorldInv, HeroCasts, SlotPart, MatchPart, matchVars
<1> QED BY <1>2, <1>6, <1>7 DEF Kept, WorldInv

LEMMA HeroHitsKeeps == ASSUME WorldInv, HeroHits PROVE Kept
<1>1. /\ todo # <<>> /\ Actor \in Entities /\ world.alive[Actor]
  <2>1. stage # "idle"
    BY DEF HeroHits, Acting
  <2> QED BY <2>1, InTurn DEF HeroHits
<1>2. PICK t \in victims : Attack(Actor, t) /\ victims' = victims \ {t}
  BY DEF HeroHits
<1>3. t \in Entities /\ victims' \subseteq Entities /\ aim' \in Entities \cup {NoPid}
      /\ award \in Awards /\ shouldReset \in BOOLEAN
  BY <1>2 DEF WorldInv, HeroHits, TurnPart, MatchPart
<1>4. /\ WorldPart' /\ OnlyStruck /\ world'.alive[Actor]
      /\ award' \in Awards /\ shouldReset' \in BOOLEAN
  BY <1>1, <1>2, <1>3, AttackKeeps DEF WorldInv
<1>5. TurnPart' /\ TurnOfTheLiving'
  BY <1>1, <1>3, <1>4, TurnGoesOn DEF WorldInv, HeroHits
<1>6. SlotPart' /\ MatchPart'
  BY <1>4 DEF WorldInv, HeroHits, SlotPart, MatchPart
<1> QED BY <1>4, <1>5, <1>6 DEF Kept, WorldInv

LEMMA NeutralsSpawnKeeps == ASSUME WorldInv, NeutralsSpawn PROVE Kept
<1>1. todo # <<>> /\ Actor \in Neutrals
  BY InTurn DEF NeutralsSpawn, ActorsIn
<1>2. Placed(world, world', Actor)
  BY <1>1, NeutralSpawnFits DEF WorldInv, WorldPart, NeutralsSpawn
<1>3. WorldPart' /\ OnlyStruck
  BY <1>1, <1>2, SpawnKeeps DEF WorldInv, NeutralsSpawn, matchVars
<1>4. TurnPart' /\ TurnOfTheLiving'
  BY <1>1, TurnEnds DEF WorldInv, NeutralsSpawn
<1>5. SlotPart' /\ MatchPart'
  BY DEF WorldInv, NeutralsSpawn, SlotPart, MatchPart, matchVars
<1> QED BY <1>3, <1>4, <1>5 DEF Kept, WorldInv

LEMMA RingNonEmpty ==
  /\ Len(CreepOrder) \in Nat \ {0}
  /\ \A n \in Nat : n % Len(CreepOrder) \in 0..(Len(CreepOrder) - 1)
<1>1. CreepOrder \in Seq(Creeps)
  BY SlotsAssumption DEF Creeps
<1>2. Len(CreepOrder) \in Nat \ {0}
  BY <1>1, SlotsAssumption
<1> QED BY <1>2

\* The team of the wave's next creep.
LEMMA WaveSide ==
  ASSUME WorldInv, phase = "wave", todo # <<>>
  PROVE  WaveTeams[Len(WaveTeams) - Len(todo) + 1] \in {0, 1}
<1>1. Len(todo) \in Nat \ {0}
  BY HeadTail DEF WorldInv, TurnPart
<1>2. Len(todo) <= Len(WaveTeams) /\ WaveTeams \in Seq({0, 1}) /\ Len(WaveTeams) \in Nat
  BY ParameterAssumption DEF WorldInv, TurnPart
<1>3. Len(WaveTeams) - Len(todo) + 1 \in 1..Len(WaveTeams)
  BY <1>1, <1>2
<1> QED BY <1>2, <1>3, ElementOfSeq

LEMMA WaveSpawnsKeeps == ASSUME WorldInv, WaveSpawns PROVE Kept
<1>1. todo # <<>> /\ Actor \in Creeps /\ Actor \in Entities /\ phase = "wave"
  BY InTurn DEF WaveSpawns, ActorsIn
<1> DEFINE side == WaveTeams[Len(WaveTeams) - Len(todo) + 1]
<1>2. side \in {0, 1}
  BY <1>1, WaveSide
<1>3. /\ world' \in CreepSpawns(world, Actor, side)
      /\ team' = [team EXCEPT ![Actor] = side]
  BY DEF WaveSpawns
<1> HIDE DEF side
<1>4. Placed(world, world', Actor)
  BY <1>1, <1>2, <1>3, CreepSpawnFits DEF WorldInv, WorldPart
<1>5. WorldPart' /\ OnlyStruck
  BY <1>1, <1>4, SpawnKeeps DEF WorldInv, WaveSpawns, matchVars
<1>6. TurnPart' /\ TurnOfTheLiving'
  BY <1>1, TurnEnds DEF WorldInv, WaveSpawns
<1>7. SlotPart'
  <2>1. creepIdx' \in 0..(Len(CreepOrder) - 1)
    BY RingNonEmpty DEF WorldInv, SlotPart, WaveSpawns
  <2>2. team' \in [Entities -> {0, 1, NeutralTeam}] /\ scanned' \in [Entities -> SUBSET Entities]
    BY <1>2, <1>3 DEF WorldInv, SlotPart, WaveSpawns
  <2> QED BY <2>1, <2>2 DEF SlotPart
<1>8. MatchPart'
  BY DEF WorldInv, WaveSpawns, MatchPart, matchVars
<1> QED BY <1>5, <1>6, <1>7, <1>8 DEF Kept, WorldInv

LEMMA PhaseEndsKeeps == ASSUME WorldInv, PhaseEnds PROVE Kept
<1>1. WorldPart' /\ OnlyStruck
  BY StillKeeps DEF WorldInv, PhaseEnds, matchVars
<1>2. phase' \in {"neutrals", "wave", "creeps", "towers", "heroes", "judge"}
  BY DEF WorldInv, TurnPart, PhaseEnds, PhaseAfter, ActorsIn
<1>3. \A order \in {HeroOrder, CreepOrder, NeutralOrder, TowerOrder} :
        order \in Seq(SlotsOf(order))
  BY SlotsAssumption
<1>4. WaveSlots \in Seq(Creeps) /\ Len(WaveSlots) = Len(WaveTeams)
  <2>1. Len(WaveTeams) \in Nat
    BY ParameterAssumption
  <2>2. ASSUME NEW i \in 1..Len(WaveTeams)
        PROVE  CreepOrder[((creepIdx + i - 1) % Len(CreepOrder)) + 1] \in Creeps
    <3>1. Len(CreepOrder) \in Nat \ {0}
      BY RingNonEmpty
    <3>2. creepIdx + i - 1 \in Nat
      BY <3>1 DEF WorldInv, SlotPart
    <3>3. (creepIdx + i - 1) % Len(CreepOrder) \in 0..(Len(CreepOrder) - 1)
      BY <3>2, RingNonEmpty
    <3>4. ((creepIdx + i - 1) % Len(CreepOrder)) + 1 \in 1..Len(CreepOrder)
      BY <3>1, <3>3
    <3> QED BY <1>3, <3>4, ElementOfSeq DEF Creeps
  <2>3. WaveSlots \in [1..Len(WaveTeams) -> Creeps]
    BY <2>2 DEF WaveSlots
  <2> QED BY <2>1, <2>3, IsASeq
<1>5. /\ todo' \in Seq(ActorsIn[phase'])
      /\ phase' = "wave" => Len(todo') <= Len(WaveTeams)
  <2>1. todo' = ActorsOf(phase')
    BY DEF PhaseEnds
  <2>2. \A S : <<>> \in Seq(S)
    BY EmptySeq
  <2>3. CASE phase' = "wave"
    <3>1. todo' = WaveSlots \/ todo' = <<>>
      BY <2>1, <2>3 DEF ActorsOf
    <3>2. Len(WaveTeams) \in Nat
      BY ParameterAssumption
    <3>3. ActorsIn[phase'] = Creeps
      BY <2>3 DEF ActorsIn
    <3>4. <<>> \in Seq(Creeps) /\ Len(<<>>) = 0
      BY EmptySeq
    <3>5. todo' \in Seq(Creeps) /\ Len(todo') <= Len(WaveTeams)
      <4>1. CASE todo' = WaveSlots
        <5>1. Len(WaveTeams) <= Len(WaveTeams)
          BY <3>2
        <5> QED BY <4>1, <5>1, <1>4, Zenon
      <4>2. CASE todo' = <<>>
        BY <4>2, <3>2, <3>4
      <4> QED BY <3>1, <4>1, <4>2
    <3> QED BY <3>3, <3>5
  <2>4. CASE phase' = "neutrals"
    BY <2>1, <2>4, <1>3 DEF ActorsOf, ActorsIn, Neutrals
  <2>5. CASE phase' = "creeps"
    BY <2>1, <2>5, <1>3 DEF ActorsOf, ActorsIn, Creeps
  <2>6. CASE phase' = "towers"
    BY <2>1, <2>6, <1>3 DEF ActorsOf, ActorsIn, Towers
  <2>7. CASE phase' = "heroes"
    BY <2>1, <2>7, <1>3 DEF ActorsOf, ActorsIn, Heroes
  <2>8. CASE phase' = "judge"
    BY <2>1, <2>2, <2>8 DEF ActorsOf, ActorsIn
  <2> QED BY <1>2, <2>3, <2>4, <2>5, <2>6, <2>7, <2>8
<1>6. stage' = "idle"
  <2>1. todo = <<>>
    BY DEF PhaseEnds
  <2> QED BY <2>1 DEF WorldInv, TurnOfTheLiving, PhaseEnds
<1>7. TurnPart' /\ TurnOfTheLiving'
  BY <1>2, <1>5, <1>6 DEF WorldInv, TurnPart, TurnOfTheLiving, PhaseEnds, ActorsIn
<1>8. SlotPart' /\ MatchPart'
  BY DEF WorldInv, PhaseEnds, SlotPart, MatchPart, matchVars
<1> QED BY <1>1, <1>7, <1>8 DEF Kept, WorldInv

\* The guard on a missed reset: should_reset is only ever set with the radiant
\* ancient down, and that ends the match.
LEMMA JudgeKeeps == ASSUME WorldInv, Judge PROVE Kept
<1>1. WorldPart' /\ OnlyStruck
  BY DEF WorldInv, WorldPart, Judge, HeroesLive, ResetMeansDown, RadiantFell, OnlyStruck
<1>2. fault' = 0
  BY DEF WorldInv, WorldPart, ResetMeansDown, MatchPart, Judge
<1>3. done' \in BOOLEAN /\ shouldReset' \in BOOLEAN /\ winner' \in {0, 1} /\ tick' \in Nat
  <2>1. done' = (DireFell \/ RadiantFell) /\ shouldReset' = (shouldReset /\ ~done')
    BY DEF Judge
  <2>2. winner' \in {0, 1} /\ tick' \in Nat
    BY DEF Judge, WorldInv, MatchPart
  <2> QED BY <2>1, <2>2
<1>4. \/ phase' = "over" /\ todo' = <<>>
      \/ phase' = "camps" /\ todo' = CampsAt(tick')
  <2>1. CASE done' \/ fault' # 0 \/ tick' = MaxTick
    BY <2>1 DEF Judge
  <2>2. CASE ~(done' \/ fault' # 0 \/ tick' = MaxTick)
    BY <2>2 DEF Judge
  <2> QED BY <2>1, <2>2
<1>5. todo' \in Seq(ActorsIn[phase'])
  <2>1. NeutralOrder \in Seq(Neutrals) /\ <<>> \in Seq(Neutrals) /\ <<>> \in Seq({})
    BY SlotsAssumption, EmptySeq DEF Neutrals
  <2>2. CASE phase' = "over" /\ todo' = <<>>
    BY <2>1, <2>2 DEF ActorsIn
  <2>3. CASE phase' = "camps" /\ todo' = CampsAt(tick')
    <3>1. ActorsIn[phase'] = Neutrals
      BY <2>3 DEF ActorsIn
    <3>2. todo' = NeutralOrder \/ todo' = <<>>
      BY <2>3 DEF CampsAt
    <3> QED BY <2>1, <3>1, <3>2
  <2> QED BY <1>4, <2>2, <2>3
<1>6. stage' = "idle"
  <2>1. todo = <<>>
    BY EmptySeq, HeadTail DEF WorldInv, TurnPart, Judge, ActorsIn
  <2> QED BY <2>1 DEF WorldInv, TurnOfTheLiving, Judge
<1>7. TurnPart' /\ TurnOfTheLiving'
  BY <1>4, <1>5, <1>6 DEF WorldInv, TurnPart, TurnOfTheLiving, Judge, ActorsIn
<1>8. SlotPart' /\ MatchPart'
  BY <1>2, <1>3 DEF WorldInv, SlotPart, MatchPart, Judge
<1> QED BY <1>1, <1>7, <1>8 DEF Kept, WorldInv

-----------------------------------------------------------------------------
(* The invariant, and what follows from it.                                *)

LEMMA InitKeeps == WorldInit => WorldInv
<1> SUFFICES ASSUME WorldInit PROVE WorldInv
  OBVIOUS
<1>1. world \in Worlds /\ Fits(world) /\ HeroesLive
  BY StartFits DEF WorldInit, HeroesLive
<1>2. WorldPart
  BY <1>1 DEF WorldInit, WorldPart, ResetMeansDown
<1>3. TurnPart /\ TurnOfTheLiving
  <2>1. NeutralOrder \in Seq(Neutrals) /\ \A S : <<>> \in Seq(S)
    BY SlotsAssumption, EmptySeq DEF Neutrals
  <2>2. NoAward \in Awards
    BY OriginIsCell DEF NoAward, Awards
  <2> QED BY <2>1, <2>2 DEF WorldInit, TurnPart, TurnOfTheLiving, CampsAt, ActorsIn
<1>4. SlotPart
  <2>1. creepIdx \in 0..(Len(CreepOrder) - 1)
    BY RingNonEmpty DEF WorldInit
  <2>2. team \in [Entities -> {0, 1, NeutralTeam}]
    BY MapAssumption DEF WorldInit
  <2>3. scanned \in [Entities -> SUBSET Entities]
    BY DEF WorldInit
  <2> QED BY <2>1, <2>2, <2>3 DEF SlotPart
<1>5. MatchPart
  BY DEF WorldInit, MatchPart
<1> QED BY <1>2, <1>3, <1>4, <1>5 DEF WorldInv

LEMMA StepKeeps == WorldInv /\ [WorldNext]_worldVars => WorldInv' /\ [OnlyStruck]_worldVars
<1> SUFFICES ASSUME WorldInv, [WorldNext]_worldVars
             PROVE  WorldInv' /\ [OnlyStruck]_worldVars
  OBVIOUS
<1>1. CASE WorldNext
  <2>1. Kept
    BY <1>1, SkipTurnKeeps, WalksKeep, UnitLooksKeeps, StrikesKeep, HeroLooksKeeps,
       DisplacesKeep, HeroCastsKeeps, HeroHitsKeeps, NeutralsSpawnKeeps, WaveSpawnsKeeps,
       PhaseEndsKeeps, JudgeKeeps DEF WorldNext
  <2> QED BY <2>1 DEF Kept
<1>2. CASE UNCHANGED worldVars
  BY <1>2 DEF worldVars, turnVars, matchVars, WorldInv, WorldPart, HeroesLive, ResetMeansDown,
     RadiantFell, TurnPart, TurnOfTheLiving, Actor, ActorsIn, SlotPart, MatchPart
<1> QED BY <1>1, <1>2

\* The inductive invariant of the simulator core.
THEOREM WorldIsSound == WorldSpec => []WorldInv
<1>1. WorldInit => WorldInv
  BY InitKeeps
<1>2. WorldInv /\ [WorldNext]_worldVars => WorldInv'
  BY StepKeeps
<1> QED BY <1>1, <1>2, PTL DEF WorldSpec

\* Every variable of the simulator core keeps its type.
THEOREM WorldTypeCorrect == WorldSpec => []WorldTypeOK
<1>1. WorldInv => WorldTypeOK
  <2> SUFFICES ASSUME WorldInv PROVE WorldTypeOK
    OBVIOUS
  <2>1. phase \in DOMAIN ActorsIn /\ todo \in Seq(ActorsIn[phase])
    BY DEF WorldInv, TurnPart
  <2>2. ActorsIn[phase] \subseteq Entities
    BY <2>1 DEF ActorsIn, Entities
  <2>3. todo \in Seq(Entities)
    BY <2>1, <2>2, SeqMonotonic
  <2>4. phase \in {"camps", "neutrals", "wave", "creeps", "towers", "heroes", "judge", "over"}
    BY <2>1 DEF ActorsIn
  <2> QED BY <2>3, <2>4 DEF WorldInv, WorldPart, TurnPart, SlotPart, MatchPart, WorldTypeOK
<1> QED BY <1>1, WorldIsSound, PTL

\* The grid, the pids and the entities' own positions agree in every state, whatever
\* the map, the slots and the waves: no scan ever reads a dead or displaced unit.
THEOREM MapAlwaysAgrees == WorldSpec => []MapAgrees
<1>1. WorldInv => MapAgrees
  BY DEF WorldInv, WorldPart, MapAgrees
<1> QED BY <1>1, WorldIsSound, PTL

\* No debug guard of the simulator ever trips: a scanned target is never farther
\* than the guard allows, and a fallen radiant ancient always ends the match.
THEOREM GuardsNeverTrip == WorldSpec => []NoGuardTrips
<1>1. WorldInv => NoGuardTrips
  BY DEF WorldInv, MatchPart, NoGuardTrips
<1> QED BY <1>1, WorldIsSound, PTL

\* Only an enemy, alive and in range, removes or displaces a unit in another's
\* turn, however old the scan its target came from and whoever has the slot now.
THEOREM OnlyEnemiesStrike == WorldSpec => StruckByEnemies
<1>1. WorldInv /\ [WorldNext]_worldVars => [OnlyStruck]_worldVars
  BY StepKeeps
<1>2. WorldSpec => [][OnlyStruck]_worldVars
  BY <1>1, WorldIsSound, PTL DEF WorldSpec
<1> QED BY <1>2 DEF StruckByEnemies, OnlyStruck
-----------------------------------------------------------------------------
(* The board.  Who is where changes by one entity at a time; that the cell *)
(* it goes to was free is the agreement of the map after the step.         *)

LEMMA PiecesAreEntities == TheBoard!Pieces = Entities
  BY DEF TheBoard!Pieces, Entities

LEMMA TheDeadAreOff ==
  ASSUME NEW w \in Worlds, Fits(w), NEW e \in Entities, ~w.alive[e]
  PROVE  w.pos[e] = Origin
  BY SlotsAssumption DEF Fits, Worlds

\* Only e is elsewhere.
OnlyOneGoes(e) ==
  /\ world \in Worlds /\ world' \in Worlds /\ Fits(world')
  /\ \A f \in Entities \ {e} : world'.pos[f] = world.pos[f]

LEMMA OneGoes ==
  ASSUME NEW e \in Entities, OnlyOneGoes(e)
  PROVE  /\ world'.pos = [world.pos EXCEPT ![e] = world'.pos[e]]
         /\ TheBoard!Vacant(world'.pos[e], e)
<1>1. world'.pos = [world.pos EXCEPT ![e] = world'.pos[e]]
  <2>1. world.pos \in [Entities -> Cells] /\ world'.pos \in [Entities -> Cells]
    BY DEF OnlyOneGoes, Worlds
  <2>2. \A f \in Entities : world'.pos[f] = [world.pos EXCEPT ![e] = world'.pos[e]][f]
    BY <2>1 DEF OnlyOneGoes
  <2> QED BY <2>1, <2>2
<1>2. ASSUME world'.pos[e] # Origin, NEW f \in Entities \ {e}
      PROVE  world.pos[f] # world'.pos[e]
  <2>1. world'.pids[world'.pos[e]] = e
    BY <1>2 DEF OnlyOneGoes, Fits
  <2>2. world'.pos[f] # Origin => world'.pids[world'.pos[f]] = f
    BY DEF OnlyOneGoes, Fits
  <2> QED BY <1>2, <2>1, <2>2 DEF OnlyOneGoes
<1>3. TheBoard!Vacant(world'.pos[e], e)
  BY <1>2, PiecesAreEntities DEF TheBoard!Vacant
<1> QED BY <1>1, <1>3

BoardStep == [TheBoard!Next]_(TheBoard!vars)

LEMMA ActionIsStep ==
  ASSUME NEW e \in Entities, TheBoard!Move(e) \/ TheBoard!Fall(e) \/ TheBoard!Return(e)
  PROVE  BoardStep
  BY PiecesAreEntities DEF BoardStep, TheBoard!Next

\* A move goes where it wants or nowhere.
LEMMA MoveLands ==
  ASSUME NEW w \in Worlds, NEW e \in Entities, NEW c
  PROVE  MoveTo(w, e, c) = w \/ MoveTo(w, e, c).pos[e] = c
<1>1. CASE w.grid[c] # "empty" /\ w.pids[c] # e
  BY <1>1 DEF MoveTo
<1>2. CASE ~(w.grid[c] # "empty" /\ w.pids[c] # e)
  BY <1>2 DEF MoveTo, Worlds
<1> QED BY <1>1, <1>2

LEMMA MoveOnBoard ==
  ASSUME WorldPart, NEW e \in Heroes \cup Creeps \cup Neutrals, world.alive[e],
         NEW c \in Floor, world' = MoveTo(world, e, c)
  PROVE  BoardStep
<1>1. e \in Entities
  BY DEF Entities
<1>2. Moved(world, world', e)
  BY <1>1, MoveFits DEF WorldPart
<1>3. world' = world \/ world'.pos[e] = c
  BY <1>1, MoveLands DEF WorldPart
<1>4. CASE world' = world
  BY <1>4 DEF BoardStep, TheBoard!vars
<1>5. CASE world'.pos[e] = c
  <2>1. OnlyOneGoes(e)
    BY <1>2 DEF OnlyOneGoes, Moved, WorldPart
  <2>2. /\ world'.pos = [world.pos EXCEPT ![e] = c]
        /\ TheBoard!Vacant(c, e)
    BY <1>1, <1>5, <2>1, OneGoes
  <2>3. world'.alive = world.alive
    BY <1>2 DEF Moved
  <2>4. TheBoard!Move(e)
    BY <2>2, <2>3 DEF TheBoard!Move
  <2> QED BY <1>1, <2>4, ActionIsStep
<1> QED BY <1>3, <1>4, <1>5

LEMMA StrollOnBoard ==
  ASSUME WorldPart, NEW e \in Heroes \cup Creeps \cup Neutrals, world.alive[e], NEW r,
         world' \in Strolls(e, r)
  PROVE  BoardStep
<1>1. CASE world' = world
  BY <1>1 DEF BoardStep, TheBoard!vars
<1>2. CASE \E c \in Floor : world' = MoveTo(world, e, c)
  BY <1>2, MoveOnBoard
<1> QED BY <1>1, <1>2 DEF Strolls

LEMMA PlacedOnBoard ==
  ASSUME WorldPart, NEW e \in Heroes \cup Creeps \cup Neutrals, Placed(world, world', e),
         world'.pos[e] \in Homes[e] \cup {Origin}
  PROVE  BoardStep
<1>1. e \in Entities
  BY DEF Entities
<1>2. OnlyOneGoes(e)
  BY DEF OnlyOneGoes, Placed, WorldPart
<1>3. /\ world'.pos = [world.pos EXCEPT ![e] = world'.pos[e]]
      /\ TheBoard!Vacant(world'.pos[e], e)
  BY <1>1, <1>2, OneGoes
<1>4. world'.alive = [world.alive EXCEPT ![e] = TRUE]
  BY DEF Placed
<1>5. TheBoard!Return(e)
  BY <1>3, <1>4 DEF TheBoard!Return
<1> QED BY <1>1, <1>5, ActionIsStep

\* Killed, given its pid back, and moved or not: at the origin or where the move goes.
LEMMA PutBackLands ==
  ASSUME NEW w \in Worlds, Fits(w), NEW e \in Entities
  PROVE  LET out == Revive(Kill(w, e), e)
         IN out.pos[e] = Origin /\ \A c \in Floor : MoveTo(out, e, c).pos[e] \in {Origin, c}
<1> DEFINE k == Kill(w, e)
           out == Revive(k, e)
<1>1. k \in Worlds /\ Fits(k) /\ k.pos = [w.pos EXCEPT ![e] = Origin]
  BY KillFits
<1>2. out \in Worlds /\ out.pos = k.pos
  <2> HIDE DEF k
  <2> QED BY <1>1, ReviveFits
<1> HIDE DEF k, out
<1>3. out.pos[e] = Origin
  BY <1>1, <1>2 DEF Worlds
<1>4. ASSUME NEW c \in Floor
      PROVE  MoveTo(out, e, c).pos[e] \in {Origin, c}
  BY <1>2, <1>3, MoveLands
<1> QED BY <1>3, <1>4 DEF k, out

LEMMA RespawnOnBoard ==
  ASSUME WorldPart, NEW h \in Heroes, world' \in Respawns(world, h)
  PROVE  BoardStep
<1>1. h \in Entities /\ Camp[h] \subseteq Floor /\ Homes[h] = Camp[h]
  BY MapAssumption, SlotsAssumption DEF Entities, Homes
<1>2. Placed(world, world', h)
  BY RespawnFits DEF WorldPart
<1> DEFINE out == Revive(Kill(world, h), h)
<1>3. world' = out \/ \E c \in Camp[h] : world' = MoveTo(out, h, c)
  BY DEF Respawns
<1>4. out.pos[h] = Origin /\ \A c \in Floor : MoveTo(out, h, c).pos[h] \in {Origin, c}
  BY <1>1, PutBackLands DEF WorldPart
<1> HIDE DEF out
<1>5. world'.pos[h] \in Homes[h] \cup {Origin}
  BY <1>1, <1>3, <1>4
<1> QED BY <1>2, <1>5, PlacedOnBoard

LEMMA CreepSpawnOnBoard ==
  ASSUME WorldPart, NEW e \in Creeps, NEW s \in {0, 1}, world' \in CreepSpawns(world, e, s)
  PROVE  BoardStep
<1>1. e \in Entities /\ LaneHead[s] \subseteq Floor /\ LaneHead[s] \subseteq Homes[e]
  BY MapAssumption DEF Entities, Homes
<1>2. Placed(world, world', e)
  BY <1>1, CreepSpawnFits DEF WorldPart
<1> DEFINE out == Revive(Kill(world, e), e)
<1>3. world' = out \/ \E c \in LaneHead[s] : world' = MoveTo(out, e, c)
  BY DEF CreepSpawns
<1>4. out.pos[e] = Origin /\ \A c \in Floor : MoveTo(out, e, c).pos[e] \in {Origin, c}
  BY <1>1, PutBackLands DEF WorldPart
<1> HIDE DEF out
<1>5. world'.pos[e] \in Homes[e] \cup {Origin}
  BY <1>1, <1>3, <1>4
<1> QED BY <1>2, <1>5, PlacedOnBoard

\* A living neutral whose cell is taken stays where it is; a dead one comes back
\* off the map.
LEMMA NeutralSpawnOnBoard ==
  ASSUME WorldPart, NEW n \in Neutrals, world' \in NeutralSpawns(world, n)
  PROVE  BoardStep
<1>1. n \in Entities /\ Camp[n] \subseteq Floor /\ Homes[n] = Camp[n]
  BY MapAssumption, SlotsAssumption DEF Entities, Homes
<1>2. Placed(world, world', n)
  BY NeutralSpawnFits DEF WorldPart
<1> DEFINE out == Revive(world, n)
<1>3. out \in Worlds /\ out.pos = world.pos
  BY <1>1, ReviveFits DEF WorldPart
<1>4. world' = out \/ \E c \in Camp[n] : world' = MoveTo(out, n, c)
  BY DEF NeutralSpawns
<1> HIDE DEF out
<1>5. world' = out \/ world'.pos[n] \in Camp[n]
  BY <1>1, <1>3, <1>4, MoveLands
<1>6. CASE world'.pos[n] \in Camp[n]
  BY <1>1, <1>2, <1>6, PlacedOnBoard
<1>7. CASE world' = out
  <2>1. CASE world.alive[n]
    <3>1. world'.pos = world.pos
      BY <1>3, <1>7
    <3>2. world'.alive = world.alive
      BY <1>2, <2>1 DEF Placed, WorldPart, Worlds
    <3> QED BY <3>1, <3>2 DEF BoardStep, TheBoard!vars
  <2>2. CASE ~world.alive[n]
    <3>1. world'.pos[n] = Origin
      BY <1>1, <1>3, <1>7, <2>2, TheDeadAreOff DEF WorldPart
    <3> QED BY <1>2, <3>1, PlacedOnBoard
  <2> QED BY <2>1, <2>2
<1> QED BY <1>5, <1>6, <1>7

LEMMA AttackOnBoard ==
  ASSUME WorldPart, NEW a, NEW t \in Entities, Attack(a, t)
  PROVE  BoardStep
<1>1. CASE world' = world
  BY <1>1 DEF BoardStep, TheBoard!vars
<1>2. CASE world.alive[t] /\ world' \in Deaths(t)
  <2>1. CASE t \in Heroes
    BY <1>2, <2>1, RespawnOnBoard DEF Deaths
  <2>2. CASE t \notin Heroes
    <3>1. world' = Kill(world, t)
      BY <1>2, <2>2 DEF Deaths
    <3>2. /\ world'.alive = [world.alive EXCEPT ![t] = FALSE]
          /\ world'.pos = [world.pos EXCEPT ![t] = Origin]
      BY <3>1, KillFits DEF WorldPart
    <3>3. t \in (Creeps \cup Neutrals) \cup Towers
      BY <2>2 DEF Entities
    <3>4. TheBoard!Fall(t)
      BY <1>2, <3>2, <3>3 DEF TheBoard!Fall
    <3> QED BY <3>4, ActionIsStep
  <2> QED BY <2>1, <2>2
<1>3. world' = world \/ (world.alive[t] /\ world' \in Deaths(t))
  BY DEF Attack, Attackable
<1> QED BY <1>1, <1>2, <1>3

LEMMA InitOnBoard == WorldInit => TheBoard!Init
<1> SUFFICES ASSUME WorldInit PROVE TheBoard!Init
  OBVIOUS
<1>1. world \in Worlds /\ Fits(world)
  BY StartFits DEF WorldInit
<1>2. world.alive = [e \in Entities |-> e \in Heroes \cup Towers]
  <2> DEFINE standing == Heroes \cup Towers
  <2>1. world.alive = [e \in Entities |-> e \in standing]
    BY DEF WorldInit, StartWorlds
  <2> QED BY <2>1
<1>3. ASSUME NEW e \in Entities
      PROVE  /\ world.pos[e] # Origin => world.alive[e]
             /\ world.alive[e] => world.pos[e] # Origin
             /\ TheBoard!Vacant(world.pos[e], e)
  <2>1. world.pos[e] # Origin => world.alive[e]
    BY <1>1, TheDeadAreOff
  <2>2. world.alive[e] => world.pos[e] # Origin
    BY StartFits DEF WorldInit
  <2>3. ASSUME world.pos[e] # Origin, NEW f \in Entities \ {e}
        PROVE  world.pos[f] # world.pos[e]
    BY <1>1, <2>3 DEF Fits
  <2>4. TheBoard!Vacant(world.pos[e], e)
    BY <2>3, PiecesAreEntities DEF TheBoard!Vacant
  <2> QED BY <2>1, <2>2, <2>4
<1>4. world.pos \in [Entities -> Floor \cup {Origin}]
  BY <1>1 DEF Worlds, Cells
<1> QED BY <1>2, <1>3, <1>4, PiecesAreEntities DEF TheBoard!Init

LEMMA StepOnBoard == WorldInv /\ [WorldNext]_worldVars => BoardStep
<1> SUFFICES ASSUME WorldInv, [WorldNext]_worldVars PROVE BoardStep
  OBVIOUS
<1>0. WorldPart
  BY DEF WorldInv
<1>1. CASE UNCHANGED world
  BY <1>1 DEF BoardStep, TheBoard!vars
<1>2. CASE \/ SkipTurn \/ UnitLooks \/ PhaseEnds \/ Judge \/ HeroLooks \/ HeroCasts
  BY <1>1, <1>2 DEF SkipTurn, UnitLooks, PhaseEnds, Judge, HeroLooks, HeroCasts
<1>3. CASE NeutralsSpawn
  <2>1. Actor \in Neutrals
    BY <1>3, InTurn DEF NeutralsSpawn, ActorsIn
  <2> QED BY <1>0, <1>3, <2>1, NeutralSpawnOnBoard DEF NeutralsSpawn
<1>4. CASE WaveSpawns
  <2>1. todo # <<>> /\ Actor \in Creeps /\ phase = "wave"
    BY <1>4, InTurn DEF WaveSpawns, ActorsIn
  <2>2. PICK s \in {0, 1} : world' \in CreepSpawns(world, Actor, s)
    BY <1>4, <2>1, WaveSide DEF WaveSpawns
  <2> QED BY <1>0, <2>1, <2>2, CreepSpawnOnBoard
<1>5. CASE CreepWalks \/ NeutralWalks \/ HeroWalks \/ HeroShoves
  <2>1. PICK ph \in {"creeps", "neutrals", "heroes"}, st \in SUBSET {"aimed", "spent", "shoved"},
             r \in {1, 2, Leap} :
          Acting(ph, st) /\ world' \in Strolls(Actor, r)
    <3>1. CASE CreepWalks
      BY <3>1 DEF CreepWalks
    <3>2. CASE NeutralWalks
      BY <3>2 DEF NeutralWalks
    <3>3. CASE HeroWalks
      BY <3>3 DEF HeroWalks
    <3>4. CASE HeroShoves
      BY <3>4 DEF HeroShoves
    <3> QED BY <1>5, <3>1, <3>2, <3>3, <3>4
  <2>2. Actor \in Heroes \cup Creeps \cup Neutrals
    BY <2>1, InTurn DEF ActorsIn
  <2>3. world.alive[Actor]
    <3>1. stage # "idle"
      BY <2>1 DEF Acting
    <3> QED BY <2>1, <3>1, InTurn
  <2> QED BY <1>0, <2>1, <2>2, <2>3, StrollOnBoard
<1>6. CASE HeroLeaps
  <2>1. Actor \in Heroes
    BY <1>6, InTurn DEF HeroLeaps, ActorsIn
  <2>2. world.alive[Actor]
    <3>1. stage # "idle"
      BY <1>6 DEF HeroLeaps, Acting
    <3> QED BY <1>6, <3>1, InTurn DEF HeroLeaps
  <2>3. \E c \in Floor : world' = MoveTo(world, Actor, c)
    BY <1>6 DEF HeroLeaps
  <2> QED BY <1>0, <2>1, <2>2, <2>3, MoveOnBoard
<1>7. CASE CreepStrikes \/ NeutralStrikes \/ TowerFires \/ HeroStrikes
  <2>1. UNCHANGED world \/ (aim # NoPid /\ Attack(Actor, aim))
    BY <1>7 DEF CreepStrikes, NeutralStrikes, TowerFires, HeroStrikes, Close
  <2>2. CASE aim # NoPid /\ Attack(Actor, aim)
    <3>1. aim \in Entities
      BY <2>2 DEF WorldInv, TurnPart
    <3> QED BY <1>0, <2>2, <3>1, AttackOnBoard
  <2> QED BY <1>1, <2>1, <2>2
<1>8. CASE HeroHits
  <2>1. PICK t \in victims : Attack(Actor, t)
    BY <1>8 DEF HeroHits
  <2>2. t \in Entities
    BY DEF WorldInv, TurnPart
  <2> QED BY <1>0, <2>1, <2>2, AttackOnBoard
<1>9. CASE UNCHANGED worldVars
  BY <1>1, <1>9 DEF worldVars
<1> QED BY <1>2, <1>3, <1>4, <1>5, <1>6, <1>7, <1>8, <1>9 DEF WorldNext

\* Whatever move_to, kill_entity, the spawns and the skills do to grid, pids and
\* floats is play on a plain board: one entity at a time goes to a cell nobody is in,
\* dies, or comes back at home; heroes never stay dead, towers neither move nor rise.
THEOREM WorldImplementsTheBoard == WorldSpec => ImplementsBoard
<1>1. WorldInit => TheBoard!Init
  BY InitOnBoard
<1>2. WorldInv /\ [WorldNext]_worldVars => [TheBoard!Next]_(TheBoard!vars)
  BY StepOnBoard DEF BoardStep
<1> QED BY <1>1, <1>2, WorldIsSound, PTL DEF WorldSpec, ImplementsBoard, TheBoard!Spec
=============================================================================
