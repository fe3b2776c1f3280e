# cogame-moba: TLA+ models and proofs

This directory models the cogame-moba episode server, its simulator core, its
player client, its scripted player and its replay viewer in TLA+. TLC model-checks the models on small instances and
TLAPS proves theorems about them for every value of their constants. Every
definition is translated from the code under `src/`; `PROJECT.json` maps each
one to its source lines and lists the runs, the mutants, the findings, the
hazards and the theorems.

Contents: 1 the system, 2 the plan, 3 the modules, 4 the runs, 5 the findings,
6 the proofs, 7 what is left out.

## 1. The system

A *game server* process runs one episode of a ten-hero MOBA. The simulator is a
C program compiled to wasm (`sim/`, `vendor/upstream/moba.h`) and hosted by
`server/cogame_moba/sim.py`. The *lockstep engine* (`engine.py`) asks every
*seat* for its heroes' actions once per tick, under a deadline, and steps the
simulator. A seat is a websocket player (`server.py`, `WsSeat`). Each tick's
actions are recorded (`replay.py`), and the results and the replay are written
to URIs (`uris.py`). Viewers follow on a global websocket feed. A browser page
re-simulates a replay with the same C core (`sim/viewer_main.c`). Players are
separate processes (`players/`): a reconnecting client around a policy.

    player process            server process (one event loop)          platform
    client.py  <--ws /player-->  WsSeat <--get_actions-- engine.run() --> sim (wasm)
                                   ^                         | on_tick
                                   +---- on_seat_dead -------+--> ReplayWriter
    viewer     <--ws /global---  feed  <---------------------+--> global feed
                                 run_episode ---- write_uri ---------> results, replay
    browser    <--http replay--- replay server                 viewer_main.c + index.html

The server is one asyncio process: coroutines interleave only at an `await`.
That is the atomicity of the models: an action is the code between two awaits.

| Component | State it keeps | Operations | Correct when | Hard because |
|---|---|---|---|---|
| Lockstep engine (`engine.py`) | strikes, NOOP counts and causes, background probes, tick, fault and clock flags | loop head, gather under deadlines, poll dead seats, sanitize and strike, step, rewards, record, clean up, build the result | a silent seat costs bounded time; a dead seat is revived only by an answer of its current dead spell; record, rewards and result agree; the episode ends | live calls, probes and cancellations of one source; simulator calls that fail between two steps |
| Seat transport (`server.py` `WsSeat`, `_handle_player`, `_on_seat_dead`) | `ws`, `_waiter`, `_waiter_tick`, wrong-tick count, each handler's progress | accept, reject, deliver, disconnect, force-close on death, `get_actions` | at most one connection feeds a seat; a waiter belongs to the caller; a waiter is resolved when its connection goes | reconnects race the old handler's `finally`, late answers race deadlines |
| Episode orchestration (`server.py` `run_episode`) | the all-connected event, the results document, write errors | connect wait, no-show report, engine, done broadcast, artifact writes, fault path, exit | players always get a final message or are given up; each artifact is attempted; failure is reported | partial failure of writes, players that connect at any await |
| Artifact URIs (`uris.py`) | attempt counter | read, write with retry | bounded attempts, only transient failures retried | a PUT that landed may be reported as failed |
| Global feed (`server.py`) | viewer set, pending sends | accept with snapshot, broadcast with skip, final message | a viewer sees a snapshot, then increasing ticks, then the result | viewers that stop reading; three tasks send on one socket |
| Player client (`players/client.py`) | failure streak, progress flag | connect, play, retry, stop | bounded consecutive failures; stops on the final message or a fatal refusal | its budget, the strike rule and the heartbeat are set in three places |
| Replay viewer (`sim/viewer_main.c`, `viewer/index.html`) | simulator, cursor, play state, speed, time accumulator, phase, scheduled seeks | load, advance, seek, set speed, play, pause | what is on display is the re-simulation of its tick; it never moves backwards by itself | seeks are deferred, time is clamped, ticks and frames have different rates |
| Replay format (`replay.py`) | sequential action records | append, finalize, parse, index | parse inverts finalize; truncated data is refused | numeric ranges |
| Config and topology (`config.py`, `defaults.py`) | immutable configuration | validate, seat/hero/team maps | seats partition the heroes; a seat is on one team | boundary values |
| Simulator host (`sim.py`) | wasm instance | init, set actions, step, read | actions are clamped to the action space | NaN and range at the wasm boundary |
| Simulator core (`moba.h`, patches, shims) | entities, map occupancy, cooldowns, rewards | spawn, move, attack, skills, AI, reset, step | one entity per cell, map and entities agree, a fallen ancient ends the match | occupancy kept by hand at every move and death |
| Scripted player (`players/scripted_player.py`) | per-hero mode, waypoint, stuck and detour counters, tower memory | observe, choose a mode, act | mode hysteresis, detours end | long sequences of observations |
| Baseline and random players | network state / generator | one forward pass per tick | deterministic per seed | none of concurrency |
| Training wrapper (`training.py`) | match, opponents, done | reset, step | reward, done and score follow the simulator | end of match at the cap |
| Replay server, process entry (`server.py`) | none | serve two files, choose the mode | the mode follows the environment | none |
| Release and build tooling (`tools/`, `.github/`, build scripts) | none | next version, build, smoke test | versions grow | none at run time |

## 2. The plan

Order, most important behaviour first. Done in this version:

1. `StrikeRule` (abstract) and `LockstepEngine`, its proofs.
2. `PlayerSeats` = the engine composed with real connections, its proofs.
3. `Publication` (abstract) and `RunEpisode`.
4. `GlobalFeed` = the episode composed with its viewers.
5. `PlayerClient`, the client against what a seat shows of itself.
6. `ReplayViewer`.
7. `Board` (abstract) and `MobaWorld`, the simulator core, its proofs.
8. `ScriptedHero`, the scripted player against a simulator, and its proofs.
9. Proofs for `RunEpisode`, `GlobalFeed`, `ReplayViewer`, `PlayerClient` and the
   engine's remaining invariants.
10. That the compositions keep what their parts promise, how far each process is
    from its end, the board beneath the simulator, the scripted player's search.

Left, pure functions whose mistakes a unit test would catch:

11. `SeatTopology` (`defaults.py`): seats partition the heroes, a seat is on one
    team, `seat_for_pid` inverts `seat_hero_pids`.
12. The replay format as operators (`finalize`, `parse`), and `TrainingMatch`
    against the result rule of the engine.

The modules are written to be proved about as well as checked: constants with
named assumptions, one action per operation, no RECURSIVE operator.

## 3. The modules

### LockstepEngine, StrikeRule

`LockstepEngine` is `LockstepEngine.run()` of `engine.py`. `pc` is the await or
straight-line stretch the coroutine is at: `top` (loop head), `gather` /
`yield` (waiting for the live seats' deadlined calls, or the explicit
`asyncio.sleep(0)` of an all-dead tick), `collect` (results are sanitized, the
strike rule applied), `step`, `rewards`, `record` (`on_tick`, fault poll),
`cleanup`, `finish`, `done`. `call[s]` is the deadlined `get_actions` of a live
seat, `probe[s]` a dead seat's background task. Sources are an environment:
each call returns a member of `Outcomes` or never returns. So is the simulator:
a step may end the match, set the fault flag, or raise before or after its tick
counter moved. The wall clock is nondeterministic: any loop head may be the one
that finds it over. `waits` and `LastCollected` are observers of the properties.

`StrikeRule` is the rule the docstring of `engine.py` promises, with two
counters per seat and one action, `Tick`. `ImplementsStrikeRule` says the
engine, seen through `strikes` and `noop_ticks`, is that rule.

### PlayerSeats

EXTENDS the engine and replaces its arbitrary sources by `WsSeat`: `frame[s]`
is the `get_actions` coroutine of the seat with its waiter future, `ws[s]` is
`seat.ws`, `conn[c]` is a `/player` handler's progress (prepare, serve, gone),
`closed[c]` the websocket's own state, which turns before the handler's
`finally` runs. `condemned` are the close tasks of `_on_seat_dead`.
`ImplementsEngine` is `LockstepEngine!Spec` itself: whatever connections do is
something the engine's environment may do, so its theorems carry over.

### RunEpisode, Publication, GlobalFeed

`RunEpisode` is the coroutine `run_episode`, its helpers `_broadcast_done`,
`_report_player_failure`, `_write_fault_artifacts` and the retry loop of
`uris.py`. `pc` is the await it is suspended at; players connect and leave at
each one. On the normal path players are told first and artifacts written
afterwards; on the fault path (the engine raised) it is the other way round, and
the model keeps both orders. A failed PUT may have landed. `Publication` is the
promise: one outcome, decided once; stored artifacts hold it; success only when
all are stored.

`GlobalFeed` EXTENDS it with the viewers: a `send_str` writes its message when
it starts and returns when the transport lets it, so `wire[v]` is the sequence
written and `snapshotting`, `sendTask`, `final` are the calls in progress.
A viewer is registered only after its snapshot's send returned. A small
snapshot on a fresh socket normally does not suspend; the model allows both, and
`ViewersGetTheResult` names the one exception: a viewer suspended in that send
when the done broadcast starts is in no broadcast.

### PlayerClient

`play_episode` and `_play_connection` with the reconnect budget. The server is
what a client can see: the slot is free, ours, or stale (a drop the server has
not noticed), reaped at the latest after `ReapedAfter`, the smaller of
`StrikeLimit` missed deadlines and `Heartbeat`, what the websocket's heartbeat
needs to notice a dead peer: 20 s to the next ping and aiohttp's wait of half that for the
pong, 60 units of half a second in `client_conflict`. Handshakes take no time.
`barren` and `reasons` are observers.

### ReplayViewer

The viewer core and the page's controls. The simulator is represented by what
was fed to it since it was built: by determinism that is its state. Time is in
integer units, `FrameUnits` of them per twelfth of a tick, so the epsilon that
absorbs floating-point rounding is not needed.

### MobaWorld, Board

`c_step` of `moba.h` with the patches of `sim/patches`. `world` has both sides
of the occupancy that the code keeps by hand: `grid` and `pids` (per cell),
`pos` and `alive` (per entity, `pid # -1`). `MoveTo`, `Kill`, `Respawns`,
`CreepSpawns` and `NeutralSpawns` are `move_to`, `kill_entity` and the three
spawns, as operators on it. `phase` and `todo` say where `c_step` is: the camps'
spawn, the neutrals, the wave, the creeps, the towers, the heroes, the judgement
at its end. In its phase each entity has one turn, in slot order; a turn is a
few actions (`stage`): look for a target, strike or cast, leap or be shoved,
walk. The order of the code is kept where it matters: a target may come from a
scan up to `ScanEvery` ticks old (`scanned`) and is read again when it is
used; a creep strikes and then walks all the same; an area skill attacks every
scanned enemy, also those that died or respawned in between.

Abstracted: a position is the cell its floats truncate to, and `Close` and `Attackable`
compare distances of cells where the code compares those of the floats; health, mana, skill
cooldowns and stuns are choices (a blow may kill, a unit may pass its turn);
pathing, jitter and a hero's velocity are a step in any direction. Walls are the
cells that are not in `Floor`; the dead, and creeps and neutrals that found no
free cell, are at `Origin`, which is never floor: the outer three to seven rings
of the game map are walls, so a shove beyond the floor is refused. When a hero's
camp is full `spawn_player` draws cells for ever; the model stops there
(`Spinning`). A creep's or neutral's spawn may always be refused: the last cell
drawn may be a wall of its camp, as some around the lane heads are.

`Board` is the map as its users think of it: pieces on squares, no grid, no pids,
no turns. One piece at a time moves to a vacant square, falls, or comes back at
home; a hero is never down, a building neither moves nor stands again (which
`ScriptedHero` takes for granted of towers). `ImplementsBoard` says that the
world, seen through positions and lives alone, is that.

### ScriptedHero

The heroes of one radiant seat of `scripted_player.py` (`Decide`, one row after
the other, with the tower memory they share) against what the simulator does to
them (`Move`: a fraction of a cell per tick, a taken cell refused without a word).
The policy sees truncated cells; `pos` is in units of 1/`Scale` of a cell, so that
a slowed or diagonal hero keeps its cell for some ticks. `state[h]` is
`HeroState`: mode, waypoint, last cell, stuck count, detour. `NavGrid`'s cost
fields are the layers of its breadth-first search, `StepToward` its descent. The
environment: a wave that comes, engages and dies, towers that fall, and at most
`MaxMishaps` wounds, deaths, stuns, slows and leaps. `steady` is an observer:
turns since a hero was last refused, stunned or displaced.

Of the skills those are modelled that move the hero. In this simulator they all
move the one who casts them, in its own turn, before it walks: the support's hook
(`pull` is called with the caster as what is pulled), the assassin's leap, the
tank's engage, the carry's retreat (`Leaps`, to any cell of `LeapTo`). Haste
doubles the way for `HasteTime` turns (`Hastens`, `moveModifier`) and outlasts the
retreat it was sent in. `SkillFlags` says when the policy asks for them, by role;
mana, cooldowns and whether an enemy is near are choices. `Border` is two cells deep, as
no hasted step is longer (the game map's walls are three at least).

## 4. The runs

| Run | Question | Bounds, and why they are enough |
|---|---|---|
| `engine` | Do probes, strikes, NOOP accounting, record and result stay consistent, is the strike rule implemented, does the episode end? | two seats so that live and dead seats mix in a tick; limit 1 and five ticks give two dead spells and a revival between them, the shortest history in which a stale probe can hurt; replies valid, malformed or raising (an absent reply is in the seats' run) |
| `seats_reconnect` | Do connections that race, close, time out and reconnect keep the waiter and the seat right? | one seat (seats share nothing but the engine) and two connections: an old and a new one; five ticks for death, force-close, reconnect, probe, revival |
| `episode_artifacts` | Are artifacts, broadcast and failure report right when writes fail and players come and go? | two slots for a first and a later no-show; two attempts: a retried and a last one; three remote artifacts |
| `feed` | Does a viewer get a consistent stream and the result, and can it stall the episode? | one viewer (viewers share nothing) that may connect at any await; two ticks so that a slow viewer misses one |
| `player_client` | Does the client use its budget exactly, and does it always end? | four attempts one unit apart against a slot reaped after two: a budget that suffices |
| `replay_viewer` | Is what is on display the record, does it move only forward, do seeks go where asked? | replays of 0, 1 and 4 ticks; time steps below, at and above the clamp and speeds at which a frame steps none, one or several ticks; two seeks so that one supersedes another |
| `moba_world` | Do map and entities stay in step, does no debug guard trip, is it play on a plain board, who may remove or move whom? | a lane of six cells with an ancient at each end, so that spawns find cells taken, ancients are in reach and both may fall in one tick; three creep slots in waves of two, so that the second wave recycles a living creep for either team; four ticks: two waves and two camp spawns, scans due on every second tick |
| `scripted_hero` | Do heroes hold out of towers' range, forget no tower that stands, take no slow hero for a stuck one, and reach the ancient? | one hero, an assassin, who has both haste and a leap; a lane with one tower, two waypoints and the ancient; one mishap at any tick, a leap under the tower included. `StandoffHolds` is violated without its exceptions for an engaged wave, for a leap and for haste, so that all three happen. Distances and counts are scaled down (sight, tower range and engagement 3 cells, stuck and detour 3 ticks, 3 units to a cell) in proportion: range inside sight, a detour no longer than sight, a waypoint's reach above two cells less a unit. Two heroes exceed the time a run has; the theorems cover any number |
| four violation runs | see section 5 | the smallest instance that shows it; `client_conflict` and `scripted_detour` use the repository's defaults |

`CHECK_DEADLOCK FALSE` where the system stops (the episode ends, the client
returns) or the bound on ticks or seeks ends the behaviour.

Liveness and its fairness. The engine (`FairSpec`): the event loop is weakly
fair, so every enabled step of the engine, every armed deadline and every probe
task's first step happens; nothing is assumed of the sources, nor that probes
answer. `ValidProbeRevives` starts from a probe that has already answered. The feed
(`FairFeedSpec`): every await of `run_episode` ends by a timer (connect
timeout, engine deadlines and budget, 3 s per done send and per wait for a
previous one, the request timeout per attempt); nothing is assumed of players,
viewers or stores. The client (`FairSpec`): its coroutine runs, time passes,
the server reaps stale connections and ends its episode (both by its own timers).
The scripted player (`FairHeroSpec`): ticks go on, and health regenerates with them
(2 a tick). Nothing is assumed of waves and towers: that the towers fall and the
seat sees it is the premise of `HeroArrives`, and detours without end are among
its conclusions, since `scripted_detour` shows that they happen. The premise is about
what is seen, not what falls: a hero that haste and a detour have carried past a tower
out of its sight holds before it, fallen or not, until a wave shows it.

## 5. Findings

Four statements of the repository's comments and documents that its code does
not keep; each is the one property of a violation run.

- `seats_orphaned_probe`: `fail_waiter` is skipped when a reconnect takes the
  seat between the old socket's close and the old handler's `finally`; a probe
  parked there waits for good (`server.py:376` against `:162`). The strike
  spell then ends only with the episode.
- `client_conflict`: with the defaults the client's budget ends before the
  server reaps its stale connection (`client.py:48` against `PROTOCOL.md:43`).
- `moba_xp_share`: a kill's experience is shared by distance to where the
  victim was put after its death, the origin or its camp, so that the ally
  beside it gets none (`moba.h:753` against `:749`).
- `scripted_detour`: a detour's own blocked ticks count as stuck, so that between
  two blockers the next detour starts as the last one ends, although the way is
  free again (`scripted_player.py:629` against `:86` and `:249`). A detour that
  is refused leaves the count at `STUCK_TICKS`; the run shows the loop, with the
  repository's distances and counts, between two towers that stand as two of the
  radiant's do. `HeroArrives` therefore promises the ancient or detours without end.

Smaller remarks, not runs:

- the connection force-closed at the strike limit may be one accepted a moment
  ago (`server.py:474` against `:465`, `PROTOCOL.md:36`);
- the done message may be written while an earlier `send_str` is in progress
  (`server.py:651` against `:644`);
- a reply without `actions` is counted as disconnected (`server.py:195` against
  `engine.py:61`);
- a drop after progress counts as a failed attempt (`client.py:163` against
  `:107`; `GivesUpAfterBudget` has the difference in its statement).

## 6. The proofs

The eight `...Proofs` modules are checked by TLAPS for any set of seats, any limit
and cap, any connections, artifacts and viewers, any map, slots, waves, lane and
heroes, any replay and any budget. They assume only the named ASSUMEs of the
modules, which say what kind of value each constant is; two say more: `MobaWorld`'s
that a scan's radius is within the debug guard's, and `ScriptedHero`'s
`GaitAssumption` (below). Every safety invariant, action property and refinement
of a passing run is proved. The types of `RunEpisode`, `PlayerClient` and `MobaWorld`
are proved only: `EpisodeTypeCorrect`, `ClientTypeCorrect`, `WorldTypeCorrect`.

`LockstepEngineProofs`, `PlayerSeatsProofs`:

- `TypeCorrect`: `Spec => []TypeOK`, one step per action.
- `CallInvariant`: during a gather exactly the live seats have a call, outside
  it nobody does. From it and the types follows `TickInvariant`, which relates
  the local tick, the simulator's and the count of ticks run along the loop
  body.
- `StrikeInvariant`: a seat has waited at most as many deadlines as it has
  strikes, and at most the limit; the hook was called once in a dead spell.
  From it `DeadlinesBounded`. The bound is not inductive by itself: a live
  seat's next wait needs that its strikes are below the limit, which is the
  second half.
- `NoopsAreAccounted` needs the invariant that causes and NOOP ticks change only
  in `Collect` (`SeatVarsOnlyInCollect`).
- `ProbesBelongToTheirSpell` strengthens with the tick relation: a probe's tick
  lies in the last `strikes` ticks collected.
- `OneCaller` combines it with `CallInvariant`.
- `EngineImplementsStrikeRule`: initial states map to initial states, `Collect`
  maps to the rule's `Tick`, every other step leaves its variables alone.
- `ProbesAlwaysGetTheLoop`: at `collect` no probe is new, since `GatherReturns`
  waits for their first step; an all-dead tick has one too, by its yield.
- `ReplayAlwaysCovers` needs `RecordInv`: how far the record, the rewards and the
  simulator are apart at each point of the loop body, and that the engine never
  goes back to its head without all three being even. `ResultsAreFaithful` adds
  why the loop was left.
- `EpisodesRunDown`: `EngineRank`, six steps per tick still allowed and the rest of
  the loop body, falls in every step of the loop; a seat's step leaves it and uses
  up one of at most three it has between two of them.
- `SeatsImplementEngine`: with `SeatsInv` (types and `FrameInv`: whose the
  waiter is) every step of the composition is a step or a stutter of the
  engine; `SeatsDeadlinesBounded` and `SeatsKeepTheEnginesWord` (strike rule, NOOP
  accounting, probes, record, result, the rank) follow from the engine's theorems.
- `WaitersHaveCallers` is a consequence of `FrameInv`; `OneOpenConnection` has
  an invariant of its own (`ConnInv`) over the connection variables.
- `ProbesGoToFreshConnections` is about three actors: the hook that condemns a
  dead seat's connection, the close task, and the probe, created a tick later.
  `FreshInv` says that what a dead seat is connected with is fresh or condemned,
  and that no condemned connection is open when a tick is collected, so that it
  is fresh by the time a probe is new.

`MobaWorldProofs`:
- `WorldIsSound`: `WorldInv` is inductive. Its lemmas follow the code: what
  `MoveTo`, `Kill` and the spawns keep of `Fits` (grid, pids and entities agree),
  then one lemma per action or family of actions. `MapAgrees` alone is not
  inductive: `move_to` by a dead unit would put it back on the map, so the
  invariant also says whose turn it is and that it lives
  (`TurnOfTheLiving`), that heroes always live, and that the wave only ever
  recycles creep slots. `MapAlwaysAgrees` and `WorldTypeCorrect` are parts of it.
- `GuardsNeverTrip`: a scan reads the map, so by `Fits` what it sees is within
  the scan's radius, and twice the radius is within the guard; `should_reset`
  implies that the radiant ancient is down (`ResetMeansDown`), which ends the
  match.
- `OnlyEnemiesStrike`: the checks at the head of `attack`, with the invariant
  that an attacker is the living unit whose turn it is.
- `WorldImplementsTheBoard`: each operator on the world changes one entity's place
  or life (`MoveOnBoard`, `PlacedOnBoard`, `AttackOnBoard`); that the cell it goes to
  was vacant is read off the agreement of the map after the step (`OneGoes`).

`RunEpisodeProofs`, `GlobalFeedProofs`:

- `EpisodeInv` follows one episode through its awaits: how often each artifact
  was tried (`TriesInv`), what each document may hold by now (`OutcomeInv`,
  `ReportInv`), what is behind the present await (`AttemptInv`) and which errors
  are due to which artifact (`ErrorInv`). `ArtifactsAreAttempted` and
  `TheReportIsJust` are parts of it; the least no-show exists because slots are
  well-founded (`LowestIsLeast`).
- `EpisodeImplementsPublication` maps deciding, storing, success and failure to
  `Publication`'s four actions and everything else to a stutter.
- `FeedInv` strengthens `EpisodeInv`. That a viewer's messages are in order needs
  to know who may still write: a tick send is in progress or has ended, the
  snapshot is over (`PresenceInv`, `BroadcastInv`), and no wire is ahead of the
  episode (`WireInv`). `ViewersHaveTheResult` needs `ResultInv`: who is owed the
  done message while it is being sent.
- `FeedImplementsEpisode`: whatever viewers do, the episode's variables move as
  `RunEpisode` lets them; `FeedImplementsPublication` follows.
- `EpisodeComesToItsEnd`: `EpisodeRank`, the phases, ticks and write attempts left,
  falls in every step of `run_episode`; the others end a done send or are a
  player's coming or going. `TheFeedRunsDown` adds the viewers, each with a done
  message of at most three steps, and their own comings and goings.

`ReplayViewerProofs`, `PlayerClientProofs`:

- `ViewerInv`: the simulator is the record up to its tick (`ResimIsTheRecord`);
  outside a tick boundary the phase is the accumulated time (`SweepInv`), which
  is what keeps the display from moving backwards; without a replay nothing is
  set (`UnloadedInv`); the newest scheduled seek is the one last asked for
  (`NewestIsAsked`). The three action properties follow from it per action.
- `BudgetIsExact`: the observer `barren` counts what `failures` counts, up to the
  drop after progress, at each of the client's awaits.
- `PlayersRunOut`: ticks left, attempts left, steps to the next attempt: each step
  of the client, or of time, lowers the first of these that it changes. An answered
  tick renews the budget, but ticks are used up for good; a connection that has
  answered counts as having its whole budget before the code resets the counter.

`ScriptedHeroProofs`:

- `HeroTypesHold`: the counters are bounded only together, `stuck + left` never
  exceeds the larger of the two constants (`Bounded`), and no hero leaves the
  map, since what is refused includes its border (`OnMap`).
- `RememberedTowersAreDead`: what is seen gone does not stand, and nothing rises.
- `StandoffsHold`: `WishesKeepOut` says what a decided, not yet executed,
  velocity may do; the geometry is a lemma on distances: a cell's step changes the
  distance to a tower by at most one, and holding starts one cell outside its
  range. A hasted step is two such steps (`HasteIsTwice`, `NextCells`): the first
  ends outside the range, so the second ends at its edge at the deepest
  (`HasteKeepsToEdge`). That is all one cell of margin gives, and why the property has
  the exceptions it has: haste sent in a retreat lasts 25 ticks, and an ally's heal may
  end the retreat before.
- `SlowHeroesAreNotStuck`: the inductive invariant (`SlowInv`) follows a hero
  through one cell: since its cell last changed it has gone at least its pace
  times its turns there along some axis (`Paces`), and less than a cell's width fits
  in a cell. `GaitAssumption` is what makes it true: the slowest gait crosses
  a cell in `STUCK_TICKS` turns. In the code a slow halves the step and a
  diagonal takes 0.707 of it (`moba.h`), so four turns make 1.41 cells; a
  `STUCK_TICKS` of 2 would break it.
- `CostIsShortest`, `HeroesWalkShortestWays`: the breadth-first search of
  `NavGrid`, for any grid. `Layers` is a recursive function, about which nothing
  can be proved by the library's induction theorems (they take an operator);
  instead a least counterexample is taken (`LeastNatural`) and refuted. No way of open
  cells is shorter than the cost says; a cell with a cost has a neighbour of one
  less (`DownhillExists`), which is where `step_toward` leads.

Model-checked only: liveness (`Termination`, `ValidProbeRevives`,
`FeedNeverStalls`, `PlayerEnds`, `HeroArrives`), since fairness and ENABLED are
outside the prover's reach. Of the first, third and fourth the ranks above prove the safety
half: what is left to TLC is that a step which lowers the rank is enabled, and taken, until the
end.

## 7. What is left out

- The simulator host: a synchronous wrapper, each call of which the engine's model
  has as one that returns or raises. The topology, the replay format's `finalize`
  and `parse`, the training wrapper: pure functions, section 2.
- Of the scripted player: the skills that do not move the hero, the target filter, the
  decoding of the crop's bytes, and the dire seat, which is the mirror image. A leap's
  way is a choice of the cells in `LeapTo`.
- Two overlapping `get_actions` calls of one seat: `PlayerSeats` has one `frame` per
  seat. The engine never makes two (`SingleCaller`, proved as `OneCaller`).
- In the simulator core: heals, rewards and levels, observations, the path
  search, the log; `script_opponents`, off with the ten agents of every match.
- That `spawn_player` ends: a matter of probability (`moba.h:664`).
- Authorization (403) of seats in `PlayerSeats`: a pure check before anything
  else; `PlayerClient` has the client's side of it.
- A source that raises `CancelledError` of its own, and an `on_tick` hook that
  raises: both end `run()` with that exception, which `RunEpisode` has as
  `EngineRaises`.
- `read_uri`: it runs once before the event loop serves anybody.
- The replay server mode: two immutable files.
- The baseline policy's arithmetic, rendering, page text, logging, build and
  release scripts: no state of the running system that a property is about.
