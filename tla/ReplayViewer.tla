---------------------------- MODULE ReplayViewer -----------------------------
(***************************************************************************)
(* sim/viewer_main.c, the re-simulating replay viewer's core, driven by    *)
(* the page of viewer/index.html: animation frames, the play button, the   *)
(* speed menu and the seek bar with its deferred seeks.                    *)
(*                                                                         *)
(* Everything runs in one thread and every handler is atomic.  The         *)
(* simulator is its input: what matters is which recorded ticks were fed   *)
(* to it since it was built, and in which order.  Wall time is counted in  *)
(* integer units, FrameUnits of them per displayed twelfth of a tick.      *)
(***************************************************************************)
EXTENDS Naturals, Sequences

CONSTANTS FrameUnits,  \* time units in one twelfth of a simulator tick
          MaxDt,       \* VIEWER_MAX_DT_MS, in time units
          Totals,      \* possible lengths of the loaded replay, in ticks
          Speeds,      \* the speed menu, a subset of 1..1024
          Dts,         \* measured times between two animation frames
          MaxSeeks     \* bound on the seeks a behaviour asks for

ASSUME ViewerAssumption ==
  /\ FrameUnits \in Nat \ {0} /\ MaxDt \in Nat /\ MaxSeeks \in Nat
  /\ Totals \subseteq Nat /\ Dts \subseteq Nat
  /\ Speeds \subseteq 1..1024 /\ 1 \in Speeds

VARIABLES
  loaded, total,  \* g_loaded, g_total_ticks
  tick,           \* g_tick
  fed,            \* the recorded ticks fed to the simulator since sim_fresh
  playing,        \* g_playing
  speed,          \* g_speed
  timeAcc,        \* g_time_acc
  phase,          \* g_phase
  seekGen,        \* the page's seekGen: the number of the last seek asked for
  asked,          \* its target
  timers          \* the scheduled seeks, oldest first

viewerVars == <<loaded, total, tick, fed, playing, speed, timeAcc, phase>>
pageVars == <<seekGen, asked, timers>>
vars == <<viewerVars, pageVars>>

AtTick == 12                     \* VIEWER_FRAMES_PER_TICK
TickUnits == AtTick * FrameUnits \* VIEWER_TICK_MS

TypeOK ==
  /\ loaded \in BOOLEAN /\ playing \in BOOLEAN
  /\ total \in Totals \cup {0}
  /\ tick \in 0..total
  /\ fed \in Seq(Nat)
  /\ speed \in Speeds
  /\ timeAcc \in 0..(TickUnits - 1)
  /\ phase \in 0..AtTick
  /\ seekGen \in 0..MaxSeeks
  /\ asked \in 0..total
  /\ timers \in Seq([gen : 1..MaxSeeks, target : 0..total])

Init ==
  /\ loaded = FALSE /\ total = 0 /\ tick = 0 /\ fed = <<>>
  /\ playing = FALSE /\ speed = 1 /\ timeAcc = 0 /\ phase = 0
  /\ seekGen = 0 /\ asked = 0 /\ timers = <<>>

-----------------------------------------------------------------------------
(* The viewer's core.                                                      *)

Smaller(a, b) == IF a < b THEN a ELSE b

\* feed_and_step n times: ticks g_tick, g_tick + 1, ... of the recorded body.
FeedFrom(log, from, n) == log \o [i \in 1..n |-> from + i - 1]

\* Mutant: a seek forward continues from the current tick.
SeekTo_Continues(t) ==
  /\ tick' = t
  /\ fed' = IF t >= tick THEN FeedFrom(fed, tick + 1, t - tick) ELSE FeedFrom(<<>>, 0, t)
  /\ timeAcc' = 0 /\ phase' = AtTick
  /\ playing' = (playing /\ t < total)
  /\ UNCHANGED <<loaded, total, speed>>

\* viewer_seek: a fresh simulator, re-simulated from tick 0.
SeekTo(t) ==
  /\ tick' = t
  /\ fed' = FeedFrom(<<>>, 0, t)
  /\ timeAcc' = 0 /\ phase' = AtTick
  /\ playing' = (playing /\ t < total)
  /\ UNCHANGED <<loaded, total, speed>>

\* Mutant: the measured time is not clamped.
Elapsed_NotClamped(dt) == dt * speed

\* The wall time an animation frame contributes.
Elapsed(dt) == Smaller(dt, MaxDt) * speed

\* Mutant: the interpolation restarts from an at-tick display.
PhaseAfter_SweepsFromAtTick(stepped, acc, ended) ==
  IF ended \/ stepped > 1 THEN AtTick ELSE acc \div FrameUnits

\* The displayed twelfth: exactly at-tick when ended or after several ticks, the
\* progress through the current tick when sweeping, otherwise held.
PhaseAfter(stepped, acc, ended) ==
  IF ended \/ stepped > 1 THEN AtTick
  ELSE IF stepped = 1 \/ phase # AtTick THEN acc \div FrameUnits
  ELSE phase

\* Mutant: the remainder of the last frame survives the end of the replay.
AccAfter_KeptAtEnd(acc, due, ended) == IF ended THEN acc ELSE acc - due * TickUnits

AccAfter(acc, due, ended) == IF ended THEN 0 ELSE acc - due * TickUnits

\* viewer_advance: whole ticks that are due are stepped, at the end it pauses.
Advance(dt) ==
  LET acc     == timeAcc + Elapsed(dt)
      due     == acc \div TickUnits
      stepped == Smaller(due, total - tick)
      ended   == tick + stepped >= total
  IN /\ loaded /\ playing
     /\ tick' = tick + stepped
     /\ fed' = FeedFrom(fed, tick, stepped)
     /\ timeAcc' = AccAfter(acc, due, ended /\ due > 0)
     /\ playing' = ~ (ended /\ due > 0)
     /\ phase' = PhaseAfter(stepped, timeAcc', ended)
     /\ UNCHANGED <<loaded, total, speed>>

\* viewer_load of a well-formed replay of n ticks, then the page plays it.
Load(n) ==
  /\ ~loaded
  /\ loaded' = TRUE /\ total' = n
  /\ tick' = 0 /\ fed' = <<>>
  /\ timeAcc' = 0 /\ phase' = AtTick
  /\ playing' = (n > 0)
  /\ UNCHANGED <<speed, pageVars>>

-----------------------------------------------------------------------------
(* The page.                                                               *)

Frame(dt) == Advance(dt) /\ UNCHANGED pageVars

Pause ==
  /\ loaded /\ playing
  /\ playing' = FALSE
  /\ UNCHANGED <<loaded, total, tick, fed, speed, timeAcc, phase, pageVars>>

\* The play button: the accumulated time and the phase are kept.
Play ==
  /\ loaded /\ ~playing /\ tick < total
  /\ playing' = TRUE
  /\ UNCHANGED <<loaded, total, tick, fed, speed, timeAcc, phase, pageVars>>

\* At the end the button seeks to tick 0 and plays; a replay of no ticks stays.
PlayAgain ==
  /\ loaded /\ ~playing /\ tick >= total
  /\ tick' = 0 /\ fed' = <<>> /\ timeAcc' = 0 /\ phase' = AtTick
  /\ playing' = (total > 0)
  /\ UNCHANGED <<loaded, total, speed, pageVars>>

SetSpeed(s) ==
  /\ loaded /\ speed' = s
  /\ UNCHANGED <<loaded, total, tick, fed, playing, timeAcc, phase, pageVars>>

\* The seek bar was released: the seek is scheduled behind a repaint.
AskSeek(t) ==
  /\ loaded /\ seekGen < MaxSeeks
  /\ seekGen' = seekGen + 1
  /\ asked' = t
  /\ timers' = Append(timers, [gen |-> seekGen', target |-> t])
  /\ UNCHANGED viewerVars

\* Mutant: every scheduled seek is carried out.
Superseded_Never(timer) == FALSE

Superseded(timer) == timer.gen # seekGen

\* The oldest scheduled seek is due; one superseded by a newer seek is dropped.
SeekTimer ==
  /\ timers # <<>>
  /\ timers' = Tail(timers)
  /\ IF Superseded(Head(timers)) THEN UNCHANGED viewerVars ELSE SeekTo(Head(timers).target)
  /\ UNCHANGED <<seekGen, asked>>

Next ==
  \/ \E n \in Totals : Load(n)
  \/ \E dt \in Dts : Frame(dt)
  \/ Pause \/ Play \/ PlayAgain \/ SeekTimer
  \/ \E s \in Speeds : SetSpeed(s)
  \/ \E t \in 0..total : AskSeek(t)

Spec == Init /\ [][Next]_vars

-----------------------------------------------------------------------------
(* Properties.                                                             *)

\* The simulator on display was fed exactly the recorded ticks 0, 1, ..., tick-1
\* since it was built, whatever was seeked, paused or sped up in between
\* (viewer_main.c 21-26): its state is the recorded one.
ResimIsTheRecord == fed = [i \in 1..tick |-> i - 1]

\* What is on display, in twelfths of a tick: the sweep is from the last tick to
\* the current one.
Position == IF phase = AtTick THEN AtTick * tick ELSE AtTick * (tick - 1) + phase

\* Unless the page seeks, the display never moves backwards: not at a pause or
\* a resume, a change of speed, a tick boundary or the end (viewer_main.c
\* 197-203, 240-243).
DisplayNeverLurches ==
  [][ /\ loaded /\ tick' >= tick
      /\ timers' = timers \/ Len(timers') > Len(timers)
      => Position' >= Position ]_vars

\* One animation frame steps no more ticks than its clamped time at this speed
\* pays for, however long the tab slept or the replay was paused
\* (viewer_main.c 51-53, 240-241).
NoTickBurst ==
  [][ (\E dt \in Dts : Frame(dt)) =>
        (tick' - tick) * TickUnits < MaxDt * speed + TickUnits ]_vars

\* A jump goes where the seek bar was last released, or to the start: a seek
\* superseded while it was scheduled is never seen (index.html 190-214).
JumpsGoWhereAsked ==
  [][ loaded /\ timers' # timers /\ tick' # tick => tick' = asked ]_vars
=============================================================================
