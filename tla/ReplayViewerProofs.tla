-------------------------- MODULE ReplayViewerProofs --------------------------
(***************************************************************************)
(* Proofs about ReplayViewer, for replays of any length, any speed menu,   *)
(* any frame times and any number of seeks.                                *)
(***************************************************************************)
EXTENDS ReplayViewer, TLAPS

-----------------------------------------------------------------------------
(* Whole ticks and twelfths of a time.                                     *)

\* The whole units in a time, and what is left of it.
LEMMA WholeUnits ==
  ASSUME NEW x \in Nat, NEW u \in Nat \ {0}
  PROVE  /\ x \div u \in Nat
         /\ (x \div u) * u <= x
         /\ x < (x \div u) * u + u
OBVIOUS

\* More time holds no fewer whole units.
LEMMA WholeUnitsGrow ==
  ASSUME NEW x \in Nat, NEW y \in Nat, NEW u \in Nat \ {0}, x <= y
  PROVE  x \div u <= y \div u
OBVIOUS

\* Less than k units hold less than k whole ones.
LEMMA FewerUnits ==
  ASSUME NEW x \in Nat, NEW u \in Nat \ {0}, NEW k \in Nat, x < k * u
  PROVE  x \div u < k
OBVIOUS

\* A product grows with its factor.
LEMMA ProductGrows ==
  ASSUME NEW x \in Nat, NEW y \in Nat, NEW u \in Nat, x <= y
  PROVE  x * u <= y * u
OBVIOUS

\* A sweep in a tick is past every sweep in the tick before it.
LEMMA SweepMovesOn ==
  ASSUME NEW t \in Nat, NEW u, u = t + 1, NEW p \in 0..12, NEW q \in 0..12
  PROVE  12 * (u - 1) + q >= 12 * t /\ 12 * (u - 1) + q >= 12 * (t - 1) + p
OBVIOUS

\* Feeding on from tick t continues the record.
LEMMA FeedContinues ==
  ASSUME NEW t \in Nat, NEW n \in Nat
  PROVE  FeedFrom([i \in 1..t |-> i - 1], t, n) = [i \in 1..(t + n) |-> i - 1]
BY DEF FeedFrom

\* Feeding a fresh simulator from tick 0 is the record.
LEMMA FeedFresh ==
  ASSUME NEW n \in Nat
  PROVE  FeedFrom(<<>>, 0, n) = [i \in 1..n |-> i - 1]
BY DEF FeedFrom

\* The record is a sequence of ticks.
LEMMA RecordIsSeq ==
  ASSUME NEW n \in Nat
  PROVE  [i \in 1..n |-> i - 1] \in Seq(Nat)
OBVIOUS

\* What is in a tail was in the sequence.
LEMMA TailElements ==
  ASSUME NEW T, NEW s \in Seq(T), s # <<>>
  PROVE  /\ Head(s) \in T /\ Tail(s) \in Seq(T) /\ Len(Tail(s)) \in Nat
         /\ \A i \in 1..Len(Tail(s)) : \E j \in 1..Len(s) : Tail(s)[i] = s[j]
<1>1. \A i \in 1..Len(Tail(s)) : i + 1 \in 1..Len(s) /\ Tail(s)[i] = s[i + 1]
  OBVIOUS
<1> QED
  BY <1>1

\* The elements of a sequence.
LEMMA SeqElements ==
  ASSUME NEW T, NEW s \in Seq(T)
  PROVE  Len(s) \in Nat /\ \A i \in 1..Len(s) : s[i] \in T
OBVIOUS

\* What is in a longer sequence is the new element or was in it.
LEMMA AppendElements ==
  ASSUME NEW T, NEW s \in Seq(T), NEW e \in T
  PROVE  /\ Append(s, e) \in Seq(T)
         /\ \A i \in 1..Len(Append(s, e)) :
              Append(s, e)[i] = e \/ (i \in 1..Len(s) /\ Append(s, e)[i] = s[i])
OBVIOUS

\* The constants' types.
LEMMA ViewerConstants ==
  /\ FrameUnits \in Nat \ {0} /\ TickUnits \in Nat \ {0} /\ TickUnits = 12 * FrameUnits
  /\ MaxDt \in Nat /\ MaxSeeks \in Nat /\ Totals \subseteq Nat /\ Dts \subseteq Nat
  /\ Speeds \subseteq Nat \ {0} /\ 1 \in Speeds
BY ViewerAssumption DEF ViewerAssumption, TickUnits, AtTick

-----------------------------------------------------------------------------
(* The invariant.                                                          *)

\* While the display sweeps, it shows the whole twelfths of the time that has
\* accumulated; before a replay is loaded there is nothing to show or to seek;
\* the newest scheduled seek is the one asked for.
SweepInv == phase # AtTick => phase = timeAcc \div FrameUnits
UnloadedInv == ~loaded => tick = 0 /\ total = 0 /\ asked = 0 /\ timers = <<>>
NewestIsAsked ==
  \A i \in 1..Len(timers) : timers[i].gen <= seekGen /\ (timers[i].gen = seekGen => timers[i].target = asked)

ViewerInv == TypeOK /\ ResimIsTheRecord /\ SweepInv /\ UnloadedInv /\ NewestIsAsked

\* The numbers of an animation frame.
LEMMA FrameNumbers ==
  ASSUME ViewerInv, NEW dt \in Dts, Advance(dt)
  PROVE  \E acc \in Nat, due \in Nat, stepped \in Nat :
           /\ acc = timeAcc + Elapsed(dt) /\ due = acc \div TickUnits
           /\ stepped = Smaller(due, total - tick)
           /\ acc < TickUnits + MaxDt * speed
           /\ timeAcc <= acc
           /\ due * TickUnits <= acc /\ acc < due * TickUnits + TickUnits
           /\ stepped <= due /\ stepped * TickUnits <= due * TickUnits
           /\ tick + stepped <= total
           /\ stepped < due => tick + stepped = total
<1>1. /\ timeAcc \in Nat /\ timeAcc < TickUnits /\ speed \in Nat /\ dt \in Nat /\ MaxDt \in Nat
      /\ tick \in Nat /\ total \in Nat /\ tick <= total /\ TickUnits \in Nat \ {0}
  BY ViewerConstants DEF ViewerInv, TypeOK
<1>2. Smaller(dt, MaxDt) \in Nat /\ Smaller(dt, MaxDt) <= MaxDt
  BY <1>1 DEF Smaller
<1>3. Elapsed(dt) \in Nat /\ Elapsed(dt) <= MaxDt * speed
  BY <1>1, <1>2, ProductGrows DEF Elapsed
<1> DEFINE acc == timeAcc + Elapsed(dt)
<1> DEFINE due == acc \div TickUnits
<1> DEFINE stepped == Smaller(due, total - tick)
<1>4. acc \in Nat /\ acc < TickUnits + MaxDt * speed /\ timeAcc <= acc
  BY <1>1, <1>3
<1>5. due \in Nat /\ due * TickUnits <= acc /\ acc < due * TickUnits + TickUnits
  BY <1>1, <1>4, WholeUnits
<1> HIDE DEF due
<1>6. /\ stepped \in Nat /\ stepped <= due /\ tick + stepped <= total
      /\ stepped < due => tick + stepped = total
  BY <1>1, <1>5 DEF Smaller
<1> HIDE DEF stepped, acc
<1>7. stepped * TickUnits <= due * TickUnits
  BY <1>1, <1>5, <1>6, ProductGrows
<1> QED
  BY <1>4, <1>5, <1>6, <1>7 DEF stepped, due, acc

-----------------------------------------------------------------------------
(* Each operation keeps the invariant.                                     *)

LEMMA ViewerInit == Init => ViewerInv
<1> SUFFICES ASSUME Init PROVE ViewerInv
  OBVIOUS
<1>1. TypeOK
  <2>1. 0 \in 0..(TickUnits - 1) /\ 0 \in 0..AtTick /\ 0 \in 0..MaxSeeks /\ 1 \in Speeds
    BY ViewerConstants DEF AtTick
  <2>2. <<>> \in Seq(Nat) /\ <<>> \in Seq([gen : 1..MaxSeeks, target : 0..0])
    OBVIOUS
  <2>3. loaded \in BOOLEAN /\ playing \in BOOLEAN /\ total \in Totals \cup {0}
    BY Zenon DEF Init
  <2>4. tick \in 0..total /\ asked \in 0..total /\ seekGen \in 0..MaxSeeks /\ speed \in Speeds
    BY <2>1 DEF Init
  <2>5. fed \in Seq(Nat) /\ timers \in Seq([gen : 1..MaxSeeks, target : 0..total])
    BY <2>2, Zenon DEF Init
  <2> QED
    BY <2>1, <2>3, <2>4, <2>5 DEF Init, TypeOK
<1>2. ResimIsTheRecord
  BY DEF Init, ResimIsTheRecord
<1>3. SweepInv
  BY ViewerConstants DEF Init, SweepInv
<1> QED
  BY <1>1, <1>2, <1>3 DEF Init, ViewerInv, UnloadedInv, NewestIsAsked

\* An animation frame.
LEMMA FrameKeeps ==
  ASSUME ViewerInv, NEW dt \in Dts, Frame(dt)
  PROVE  ViewerInv'
<1>0. Advance(dt) /\ UNCHANGED pageVars
  BY DEF Frame
<1>1. PICK acc \in Nat, due \in Nat, stepped \in Nat :
           /\ acc = timeAcc + Elapsed(dt) /\ due = acc \div TickUnits
           /\ stepped = Smaller(due, total - tick)
           /\ acc < TickUnits + MaxDt * speed
           /\ timeAcc <= acc
           /\ due * TickUnits <= acc /\ acc < due * TickUnits + TickUnits
           /\ stepped <= due /\ stepped * TickUnits <= due * TickUnits
           /\ tick + stepped <= total
           /\ stepped < due => tick + stepped = total
  BY <1>0, FrameNumbers
<1>2. /\ loaded /\ playing
      /\ tick' = tick + stepped
      /\ fed' = FeedFrom(fed, tick, stepped)
      /\ timeAcc' = AccAfter(acc, due, tick + stepped >= total /\ due > 0)
      /\ playing' = ~ (tick + stepped >= total /\ due > 0)
      /\ phase' = PhaseAfter(stepped, timeAcc', tick + stepped >= total)
      /\ UNCHANGED <<loaded, total, speed>>
  BY <1>0, <1>1 DEF Advance
<1>3. FrameUnits \in Nat \ {0} /\ TickUnits \in Nat \ {0} /\ TickUnits = 12 * FrameUnits
  BY ViewerConstants
<1>4. timeAcc' \in 0..(TickUnits - 1)
  <2>1. acc - due * TickUnits \in 0..(TickUnits - 1)
    <3>1. due * TickUnits \in Nat
      BY <1>1, <1>3
    <3> QED
      BY <1>1, <1>3, <3>1
  <2> QED
    BY <1>2, <1>3, <2>1 DEF AccAfter
<1>5. timeAcc' \div FrameUnits \in 0..AtTick
  <2>1. timeAcc' \in Nat /\ timeAcc' < 12 * FrameUnits
    BY <1>3, <1>4
  <2>2. timeAcc' \div FrameUnits \in Nat /\ timeAcc' \div FrameUnits < 12
    BY <1>3, <2>1, WholeUnits, FewerUnits
  <2> QED
    BY <2>2 DEF AtTick
<1>6. phase' \in 0..AtTick /\ (phase' # AtTick => phase' = timeAcc' \div FrameUnits)
  <2>1. phase' \in {AtTick, timeAcc' \div FrameUnits}
    BY <1>2 DEF PhaseAfter
  <2> QED
    BY <1>5, <2>1 DEF AtTick
<1>7. tick \in Nat /\ total \in Nat
  BY ViewerConstants DEF ViewerInv, TypeOK
<1>8. fed' = [i \in 1..tick' |-> i - 1]
  BY <1>1, <1>2, <1>7, FeedContinues DEF ViewerInv, ResimIsTheRecord
<1>9. TypeOK'
  <2>1. tick' \in 0..total'
    BY <1>1, <1>2, <1>7
  <2>2. fed' \in Seq(Nat)
    BY <1>1, <1>2, <1>7, <1>8, RecordIsSeq
  <2> QED
    BY <1>0, <1>2, <1>4, <1>6, <2>1, <2>2 DEF ViewerInv, TypeOK, pageVars
<1> QED
  BY <1>0, <1>2, <1>6, <1>8, <1>9
     DEF ViewerInv, ResimIsTheRecord, SweepInv, UnloadedInv, NewestIsAsked, pageVars

\* A fresh simulator at tick t, with the page's variables as they are or with
\* the oldest scheduled seek taken off.
LEMMA SeekKeeps ==
  ASSUME ViewerInv, NEW t \in 0..total,
         tick' = t, fed' = FeedFrom(<<>>, 0, t), timeAcc' = 0, phase' = AtTick,
         playing' \in BOOLEAN, loaded, UNCHANGED <<loaded, total, speed, seekGen, asked>>,
         timers' = timers \/ (timers # <<>> /\ timers' = Tail(timers))
  PROVE  ViewerInv'
<1>1. t \in Nat /\ TickUnits \in Nat \ {0} /\ total \in Nat
  BY ViewerConstants DEF ViewerInv, TypeOK
<1>2. fed' = [i \in 1..tick' |-> i - 1]
  BY <1>1, FeedFresh
<1>3. fed' \in Seq(Nat)
  BY <1>1, <1>2, RecordIsSeq
<1>4. /\ timers' \in Seq([gen : 1..MaxSeeks, target : 0..total])
      /\ Len(timers') \in Nat
      /\ \A i \in 1..Len(timers') : \E j \in 1..Len(timers) : timers'[i] = timers[j]
  <2> DEFINE T == [gen : 1..MaxSeeks, target : 0..total]
  <2>1. timers \in Seq(T)
    BY DEF ViewerInv, TypeOK
  <2> HIDE DEF T
  <2>2. CASE timers' = timers
    BY <2>1, <2>2, SeqElements DEF T
  <2>3. CASE timers # <<>> /\ timers' = Tail(timers)
    <3>1. /\ Tail(timers) \in Seq(T) /\ Len(Tail(timers)) \in Nat
          /\ \A i \in 1..Len(Tail(timers)) : \E j \in 1..Len(timers) : Tail(timers)[i] = timers[j]
      BY <2>1, <2>3, TailElements
    <3> QED
      BY <2>3, <3>1 DEF T
  <2> QED
    BY <2>2, <2>3
<1>5. TypeOK'
  BY <1>1, <1>3, <1>4 DEF ViewerInv, TypeOK, AtTick
<1>6. NewestIsAsked'
  BY <1>4 DEF ViewerInv, NewestIsAsked
<1> QED
  BY <1>2, <1>5, <1>6 DEF ViewerInv, ResimIsTheRecord, SweepInv, UnloadedInv

\* Every step keeps the invariant.
LEMMA ViewerStep == ViewerInv /\ [Next]_vars => ViewerInv'
<1> SUFFICES ASSUME ViewerInv, [Next]_vars PROVE ViewerInv'
  OBVIOUS
<1>0. TickUnits \in Nat \ {0} /\ total \in Nat /\ MaxSeeks \in Nat /\ Totals \subseteq Nat
  BY ViewerConstants DEF ViewerInv, TypeOK
<1>1. ASSUME NEW n \in Totals, Load(n) PROVE ViewerInv'
  <2>1. TypeOK'
    BY <1>0, <1>1 DEF ViewerInv, TypeOK, UnloadedInv, Load, pageVars, AtTick
  <2> QED
    BY <1>1, <2>1 DEF ViewerInv, ResimIsTheRecord, SweepInv, UnloadedInv, NewestIsAsked, Load, pageVars
<1>2. ASSUME NEW dt \in Dts, Frame(dt) PROVE ViewerInv'
  BY <1>2, FrameKeeps
<1>3. CASE Pause \/ Play
  BY <1>3 DEF ViewerInv, TypeOK, ResimIsTheRecord, SweepInv, UnloadedInv, NewestIsAsked,
              Pause, Play, pageVars
<1>4. CASE PlayAgain
  <2>1. fed' = FeedFrom(<<>>, 0, 0) /\ 0 \in 0..total
    BY <1>0, <1>4, FeedFresh DEF PlayAgain
  <2> QED
    BY <1>4, <2>1, SeekKeeps DEF PlayAgain, pageVars
<1>5. CASE SeekTimer
  <2>1. CASE Superseded(Head(timers))
    <3>1. /\ timers' \in Seq([gen : 1..MaxSeeks, target : 0..total])
          /\ \A i \in 1..Len(timers') : \E j \in 1..Len(timers) : timers'[i] = timers[j]
      BY <1>5, TailElements DEF SeekTimer, ViewerInv, TypeOK
    <3>2. TypeOK'
      BY <1>5, <2>1, <3>1 DEF SeekTimer, ViewerInv, TypeOK, viewerVars
    <3>3. NewestIsAsked'
      BY <1>5, <3>1 DEF SeekTimer, ViewerInv, NewestIsAsked
    <3> QED
      BY <1>5, <2>1, <3>2, <3>3
         DEF SeekTimer, ViewerInv, ResimIsTheRecord, SweepInv, UnloadedInv, viewerVars
  <2>2. CASE ~Superseded(Head(timers))
    <3>1. Head(timers).target \in 0..total /\ loaded
      <4>1. Head(timers) \in [gen : 1..MaxSeeks, target : 0..total] /\ timers # <<>>
        BY <1>5, TailElements DEF SeekTimer, ViewerInv, TypeOK
      <4> QED
        BY <4>1 DEF ViewerInv, UnloadedInv
    <3>2. SeekTo(Head(timers).target)
      BY <1>5, <2>2 DEF SeekTimer
    <3> QED
      BY <1>5, <3>1, <3>2, SeekKeeps DEF SeekTimer, SeekTo
  <2> QED
    BY <2>1, <2>2
<1>6. ASSUME NEW s \in Speeds, SetSpeed(s) PROVE ViewerInv'
  BY <1>6 DEF ViewerInv, TypeOK, ResimIsTheRecord, SweepInv, UnloadedInv, NewestIsAsked,
              SetSpeed, pageVars
<1>7. ASSUME NEW t \in 0..total, AskSeek(t) PROVE ViewerInv'
  <2> DEFINE new == [gen |-> seekGen + 1, target |-> t]
  <2>1. seekGen + 1 \in 1..MaxSeeks /\ new \in [gen : 1..MaxSeeks, target : 0..total]
    BY <1>0, <1>7 DEF AskSeek, ViewerInv, TypeOK
  <2>2. /\ timers' = Append(timers, new) /\ seekGen' = seekGen + 1 /\ asked' = t /\ loaded
        /\ UNCHANGED viewerVars
    BY <1>7 DEF AskSeek
  <2>3. TypeOK'
    BY <1>0, <2>1, <2>2 DEF ViewerInv, TypeOK, viewerVars
  <2>4. NewestIsAsked'
    <3>1. \A i \in 1..Len(timers) : timers[i].gen <= seekGen /\ timers[i].gen \in Nat
      <4>1. \A i \in 1..Len(timers) : timers[i] \in [gen : 1..MaxSeeks, target : 0..total]
        BY SeqElements, Zenon DEF ViewerInv, TypeOK
      <4> QED
        BY <1>0, <4>1 DEF ViewerInv, NewestIsAsked
    <3>2. \A i \in 1..Len(timers') :
            timers'[i] = new \/ (i \in 1..Len(timers) /\ timers'[i] = timers[i])
      BY <2>1, <2>2, AppendElements DEF ViewerInv, TypeOK
    <3>3. seekGen \in Nat
      BY <1>0 DEF ViewerInv, TypeOK
    <3> SUFFICES ASSUME NEW i \in 1..Len(timers')
                 PROVE  timers'[i].gen <= seekGen' /\ (timers'[i].gen = seekGen' => timers'[i].target = asked')
      BY DEF NewestIsAsked
    <3>4. CASE timers'[i] = new
      BY <2>2, <3>3, <3>4
    <3>5. CASE i \in 1..Len(timers) /\ timers'[i] = timers[i]
      <4>1. timers'[i].gen < seekGen + 1
        BY <3>1, <3>3, <3>5
      <4> QED
        BY <2>2, <3>1, <3>3, <3>5, <4>1
    <3> QED
      BY <3>2, <3>4, <3>5
  <2> QED
    BY <2>2, <2>3, <2>4 DEF ViewerInv, ResimIsTheRecord, SweepInv, UnloadedInv, viewerVars
<1>8. CASE UNCHANGED vars
  BY <1>8 DEF ViewerInv, TypeOK, ResimIsTheRecord, SweepInv, UnloadedInv, NewestIsAsked,
              vars, viewerVars, pageVars
<1> QED
  BY <1>1, <1>2, <1>3, <1>4, <1>5, <1>6, <1>7, <1>8 DEF Next

\* The invariant holds in every state.
LEMMA ViewerInvariant == Spec => []ViewerInv
<1> QED
  BY ViewerInit, ViewerStep, PTL DEF Spec

-----------------------------------------------------------------------------
(* What the viewer promises.                                               *)

\* The viewer's and the page's variables keep their types.
THEOREM ViewerTypeCorrect == Spec => []TypeOK
<1>1. ViewerInv => TypeOK
  BY DEF ViewerInv
<1> QED
  BY <1>1, ViewerInvariant, PTL

\* The simulator on display was fed exactly the recorded ticks before the
\* current one, in order (viewer_main.c 21-26).
THEOREM TheResimIsTheRecord == Spec => []ResimIsTheRecord
<1>1. ViewerInv => ResimIsTheRecord
  BY DEF ViewerInv
<1> QED
  BY <1>1, ViewerInvariant, PTL

\* No animation frame steps more ticks than its clamped time pays for
\* (viewer_main.c 51-53, 240-241).
THEOREM FramesNeverBurst == Spec => NoTickBurst
<1>1. ViewerInv /\ [Next]_vars =>
        [(\E dt \in Dts : Frame(dt)) => (tick' - tick) * TickUnits < MaxDt * speed + TickUnits]_vars
  <2> SUFFICES ASSUME ViewerInv, NEW dt \in Dts, Frame(dt)
               PROVE  (tick' - tick) * TickUnits < MaxDt * speed + TickUnits
    OBVIOUS
  <2>1. PICK acc \in Nat, due \in Nat, stepped \in Nat :
          /\ acc = timeAcc + Elapsed(dt) /\ due = acc \div TickUnits
          /\ stepped = Smaller(due, total - tick)
          /\ acc < TickUnits + MaxDt * speed
          /\ due * TickUnits <= acc
          /\ stepped * TickUnits <= due * TickUnits
    BY FrameNumbers DEF Frame
  <2>2. tick' = tick + stepped /\ tick \in Nat
    BY <2>1, ViewerConstants DEF Frame, Advance, ViewerInv, TypeOK
  <2>3. tick' - tick = stepped
    BY <2>1, <2>2
  <2>4. TickUnits \in Nat /\ MaxDt * speed \in Nat /\ stepped * TickUnits \in Nat /\ due * TickUnits \in Nat
    <3>1. TickUnits \in Nat /\ MaxDt \in Nat /\ speed \in Nat
      BY ViewerConstants DEF ViewerInv, TypeOK
    <3> QED
      BY <2>1, <3>1
  <2> QED
    BY <2>1, <2>3, <2>4
<1> QED
  BY <1>1, ViewerInvariant, PTL DEF Spec, NoTickBurst

\* A jump goes where the seek bar was last released, or to the start: a
\* superseded seek is never seen (index.html 190-214).
THEOREM JumpsAreTheNewestSeek == Spec => JumpsGoWhereAsked
<1>1. ViewerInv /\ [Next]_vars => [loaded /\ timers' # timers /\ tick' # tick => tick' = asked]_vars
  <2> SUFFICES ASSUME ViewerInv, Next, loaded, timers' # timers, tick' # tick
               PROVE  tick' = asked
    OBVIOUS
  <2>1. SeekTimer
    BY DEF Next, Load, Frame, Pause, Play, PlayAgain, SetSpeed, AskSeek, viewerVars, pageVars
  <2>2. ~Superseded(Head(timers)) /\ tick' = Head(timers).target /\ timers # <<>>
    BY <2>1 DEF SeekTimer, SeekTo, viewerVars
  <2>3. 1 \in 1..Len(timers) /\ Head(timers) = timers[1]
    <3> DEFINE T == [gen : 1..MaxSeeks, target : 0..total]
    <3>1. timers \in Seq(T)
      BY DEF ViewerInv, TypeOK
    <3> QED
      BY <2>2, <3>1
  <2> QED
    BY <2>2, <2>3 DEF Superseded, ViewerInv, NewestIsAsked
<1> QED
  BY <1>1, ViewerInvariant, PTL DEF Spec, JumpsGoWhereAsked

\* Unless the page seeks, the display never moves backwards: what it shows of a
\* tick is the time that has accumulated in it (viewer_main.c 197-203, 240-243).
THEOREM TheDisplayNeverLurches == Spec => DisplayNeverLurches
<1>1. ViewerInv /\ [Next]_vars =>
        [/\ loaded /\ tick' >= tick
         /\ timers' = timers \/ Len(timers') > Len(timers)
         => Position' >= Position]_vars
  <2> SUFFICES ASSUME ViewerInv, Next, loaded, tick' >= tick,
                      timers' = timers \/ Len(timers') > Len(timers)
               PROVE  Position' >= Position
    OBVIOUS
  <2>0. /\ tick \in Nat /\ phase \in 0..12 /\ total \in Nat /\ timeAcc \in Nat
        /\ FrameUnits \in Nat \ {0} /\ TickUnits = 12 * FrameUnits
    BY ViewerConstants DEF ViewerInv, TypeOK, AtTick
  <2>1. CASE \E dt \in Dts : Frame(dt)
    <3> PICK dt \in Dts : Frame(dt)
      BY <2>1
    <3>1. PICK acc \in Nat, due \in Nat, stepped \in Nat :
            /\ acc = timeAcc + Elapsed(dt) /\ due = acc \div TickUnits
            /\ stepped = Smaller(due, total - tick)
            /\ timeAcc <= acc
            /\ tick + stepped <= total
            /\ stepped < due => tick + stepped = total
      BY FrameNumbers DEF Frame
    <3>2. /\ tick' = tick + stepped
          /\ timeAcc' = AccAfter(acc, due, tick + stepped >= total /\ due > 0)
          /\ phase' = PhaseAfter(stepped, timeAcc', tick + stepped >= total)
      BY <3>1 DEF Frame, Advance
    <3>3. phase' \in 0..12
      BY FrameKeeps DEF ViewerInv, TypeOK, AtTick
    <3>4. CASE phase' = 12
      <4>1. Position = 12 * tick \/ Position = 12 * (tick - 1) + phase
        BY DEF Position, AtTick
      <4>2. tick' = tick + stepped
        BY <3>2
      <4>3. Position' = 12 * tick'
        BY <3>4 DEF Position, AtTick
      <4>4. 12 * (tick + stepped) >= 12 * tick /\ 12 * (tick + stepped) >= 12 * (tick - 1) + phase
        BY <2>0
      <4> QED
        BY ONLY <4>1, <4>2, <4>3, <4>4
    <3>5. CASE phase' # 12 /\ stepped = 1
      <4>1. Position = 12 * tick \/ Position = 12 * (tick - 1) + phase
        BY DEF Position, AtTick
      <4>2. tick' = tick + 1 /\ phase' # 12
        BY <3>2, <3>5
      <4>3. Position' = 12 * (tick' - 1) + phase'
        BY <4>2 DEF Position, AtTick
      <4>4. 12 * (tick' - 1) + phase' >= 12 * tick /\ 12 * (tick' - 1) + phase' >= 12 * (tick - 1) + phase
        BY <2>0, <3>3, <4>2, SweepMovesOn
      <4> QED
        BY ONLY <4>1, <4>3, <4>4
    <3>6. CASE phase' # 12 /\ stepped = 0
      <4>1. phase # 12 /\ phase' = timeAcc' \div FrameUnits /\ ~(tick + stepped >= total)
        BY <3>2, <3>6 DEF PhaseAfter, AtTick
      <4>2. due = 0
        BY <2>0, <3>1, <3>6, <4>1
      <4>3. timeAcc' = acc
        BY <2>0, <3>1, <3>2, <4>1, <4>2, ViewerConstants DEF AccAfter
      <4>4. phase = timeAcc \div FrameUnits
        BY <4>1 DEF ViewerInv, SweepInv, AtTick
      <4>5. phase <= phase'
        BY <2>0, <3>1, <4>1, <4>3, <4>4, WholeUnitsGrow
      <4> QED
        BY <2>0, <3>2, <3>3, <3>6, <4>1, <4>5 DEF Position, AtTick
    <3>7. CASE phase' # 12 /\ stepped > 1
      BY <3>2, <3>7 DEF PhaseAfter, AtTick
    <3> QED
      BY <3>1, <3>4, <3>5, <3>6, <3>7
  <2>2. CASE PlayAgain
    <3>1. tick = 0 /\ tick' = 0 /\ phase' = 12
      BY <2>0, <2>2 DEF PlayAgain, AtTick
    <3> QED
      BY <2>0, <3>1 DEF Position, AtTick
  <2>3. CASE SeekTimer
    <3> DEFINE T == [gen : 1..MaxSeeks, target : 0..total]
    <3>1. timers \in Seq(T) /\ timers # <<>> /\ timers' = Tail(timers)
      BY <2>3 DEF ViewerInv, TypeOK, SeekTimer
    <3> HIDE DEF T
    <3>2. Len(timers') < Len(timers) /\ timers' # timers
      BY <3>1
    <3>3. Len(timers) \in Nat /\ Len(timers') \in Nat
      BY <3>1, TailElements, SeqElements
    <3> QED
      BY <3>2, <3>3
  <2>4. CASE \/ Pause \/ Play
             \/ \E s \in Speeds : SetSpeed(s)
             \/ \E t \in 0..total : AskSeek(t)
    <3>1. tick' = tick /\ phase' = phase
      BY <2>4 DEF Pause, Play, SetSpeed, AskSeek, viewerVars
    <3> QED
      BY <2>0, <3>1 DEF Position, AtTick
  <2> QED
    BY <2>1, <2>2, <2>3, <2>4 DEF Next, Load
<1> QED
  BY <1>1, ViewerInvariant, PTL DEF Spec, DisplayNeverLurches
=============================================================================
