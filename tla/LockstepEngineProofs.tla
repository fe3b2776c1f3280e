------------------------ MODULE LockstepEngineProofs ------------------------
(***************************************************************************)
(* Proofs about LockstepEngine, for any seats, strike limit, tick cap and  *)
(* sources.  Each invariant is proved from the ones before it:             *)
(*   TypeOK; CallInv (who is waited for); TickInv (how the counters are    *)
(*   related); ProbeOfThisSpell, SingleCaller; NoopsAccounted; StrikeInv,  *)
(*   DeadlineBudget; and the refinement of StrikeRule.                     *)
(***************************************************************************)
EXTENDS LockstepEngine, TLAPS

-----------------------------------------------------------------------------
\* Every step of the engine keeps the types.
LEMMA TypeStep == TypeOK /\ [Next]_vars => TypeOK'
<1> SUFFICES ASSUME TypeOK, [Next]_vars PROVE TypeOK'
  OBVIOUS
<1> USE DEF TypeOK
<1>1. CASE MatchOver \/ TickCapReached \/ WallClockExpires \/ SimRaisesAtTop
  BY <1>1 DEF MatchOver, TickCapReached, WallClockExpires, SimRaisesAtTop,
              Leave, simVars, seatVars
<1>2. CASE StartTick
  BY <1>2 DEF StartTick, simVars, seatVars, episodeVars
<1>3. CASE GatherReturns
  BY <1>3 DEF GatherReturns, simVars, seatVars, episodeVars
<1>4. CASE Collect
  <2>1. \A s \in Seats : CausesAfter(s) \in [NoopCauses -> Nat]
    <3>1. \A s \in Seats : Cause(s) \in NoopCauses
      BY DEF Cause, NoopCauses
    <3> QED
      BY <3>1 DEF CausesAfter
  <2>2. \A s \in Seats : ProbeAfter(s) \in
            [st : {"none", "new", "running", "done"}, tick : Nat, out : Replies]
    BY DEF ProbeAfter, ProbeAfterPoll, NoProbe, Replies
  <2>3. \A s \in Seats : /\ StrikesAfter(s) \in Nat
                         /\ AnnouncedAfter(s) \in Nat
                         /\ WaitsAfter(s) \in Nat
    BY DEF StrikesAfter, AnnouncedAfter, WaitsAfter
  <2> QED
    BY <1>4, <2>1, <2>2, <2>3 DEF Collect, simVars, episodeVars
<1>5. CASE Step
  <2>1. simFlag' \in BOOLEAN /\ simFault' \in BOOLEAN /\ wallClockExpired' \in BOOLEAN
    BY <1>5, Zenon DEF Step
  <2> QED
    BY <1>5, <2>1 DEF Step, seatVars
<1>6. CASE StepRaises
  <2>1. simFlag' \in BOOLEAN /\ simFault' \in BOOLEAN /\ wallClockExpired' \in BOOLEAN
    BY <1>6, Zenon DEF StepRaises
  <2> QED
    BY <1>6, <2>1 DEF StepRaises, seatVars
<1>7. CASE Rewards \/ RewardsRaise
  <2>1. simFlag' \in BOOLEAN /\ simFault' \in BOOLEAN /\ wallClockExpired' \in BOOLEAN
    BY <1>7, Zenon DEF Rewards, RewardsRaise, Leave, simVars
  <2> QED
    BY <1>7, <2>1 DEF Rewards, RewardsRaise, Leave, simVars, seatVars
<1>8. CASE Record
  <2>1. simFlag' \in BOOLEAN /\ simFault' \in BOOLEAN /\ wallClockExpired' \in BOOLEAN
    BY <1>8, Zenon DEF Record, simVars
  <2>2. pc' \in {"cleanup", "top"}
    BY <1>8 DEF Record
  <2>3. recorded' \in Seq(Nat)
    BY <1>8 DEF Record
  <2> QED
    BY <1>8, <2>1, <2>2, <2>3, Zenon DEF Record, simVars, seatVars
<1>9. CASE Cleanup
  BY <1>9 DEF Cleanup, NoProbe, Replies, simVars, seatVars, episodeVars
<1>10. ASSUME NEW r \in [reason : EndReasons \cup {"none", "raised"},
                        winner : Winners],
             Finish(r)
      PROVE  TypeOK'
  BY <1>10 DEF Finish, simVars, seatVars, episodeVars
<1>11. CASE \/ BuildFaultResult \/ BuildAncientResult
            \/ BuildTiebreakResult \/ BuildRaises
  BY <1>10, <1>11 DEF BuildFaultResult, BuildAncientResult, BuildTiebreakResult,
                     BuildRaises, EndReasons, Winners, Draw
<1>12. ASSUME NEW s \in Seats, Seat(s)
       PROVE  TypeOK'
  <2>1. CASE SeatAnswers(s) \/ Deadline(s)
    BY <2>1, EngineAssumption DEF EngineAssumption, SeatAnswers, Deadline,
       Replied, Replies, simVars, seatVars, episodeVars
  <2>2. CASE ProbeStarts(s)
    BY <2>2 DEF ProbeStarts, simVars, seatVars, episodeVars
  <2>3. CASE ProbeAnswers(s)
    <3>1. PICK o \in Outcomes :
            probe' = [probe EXCEPT ![s].st = "done", ![s].out = o]
      BY <2>3 DEF ProbeAnswers
    <3>2. o \in Replies
      BY EngineAssumption DEF EngineAssumption, Replies
    <3>3. probe' \in [Seats -> [st : {"none", "new", "running", "done"},
                               tick : Nat, out : Replies]]
      BY <3>1, <3>2
    <3> QED
      BY <2>3, <3>3 DEF ProbeAnswers, simVars, seatVars, episodeVars
  <2> QED
    BY <1>12, <2>1, <2>2, <2>3 DEF Seat
<1>13. CASE UNCHANGED vars
  BY <1>13 DEF vars, simVars, seatVars, episodeVars
<1> QED
  BY <1>1, <1>2, <1>3, <1>4, <1>5, <1>6, <1>7, <1>8, <1>9, <1>11, <1>12, <1>13
     DEF Next, Loop

\* The initial state is typed.
LEMMA TypeInit == Init => TypeOK
<1> SUFFICES ASSUME Init PROVE TypeOK
  OBVIOUS
<1>1. simFlag \in BOOLEAN /\ simFault \in BOOLEAN /\ wallClockExpired \in BOOLEAN
  BY Zenon DEF Init
<1>2. /\ pc = "top" /\ simTick \in Nat /\ simWinner \in Winners /\ tick \in Nat
      /\ ticksRun \in Nat /\ rewardTicks \in Nat /\ recorded \in Seq(Nat)
  BY DEF Init, Winners
<1>3. /\ strikes \in [Seats -> Nat] /\ noopTicks \in [Seats -> Nat]
      /\ waits \in [Seats -> Nat] /\ announced \in [Seats -> Nat]
      /\ noopCauses \in [Seats -> [NoopCauses -> Nat]]
  BY DEF Init
<1>4. /\ call \in [Seats -> Replies \cup {"idle", "pending"}]
      /\ probe \in [Seats -> [st : {"none", "new", "running", "done"},
                              tick : Nat, out : Replies]]
  BY DEF Init, NoProbe, Replies
<1>5. result \in [reason : EndReasons \cup {"none", "raised"}, winner : Winners]
  BY DEF Init, NoResult, Winners
<1> QED
  BY <1>1, <1>2, <1>3, <1>4, <1>5 DEF TypeOK

\* Type correctness: run()'s locals and counters keep their types.
THEOREM TypeCorrect == Spec => []TypeOK
BY TypeInit, TypeStep, PTL DEF Spec

-----------------------------------------------------------------------------
\* Who is being waited for: during a gather exactly the live seats have a
\* call, and outside it nobody does.
CallInv ==
  /\ pc \in {"gather", "collect"} => \A s \in Seats : Dead(s) <=> call[s] = "idle"
  /\ pc = "collect" => \A s \in Seats : call[s] # "pending"
  /\ pc \notin {"gather", "collect"} => \A s \in Seats : call[s] = "idle"
  /\ pc = "yield" => \A s \in Seats : Dead(s)

LEMMA CallInvariant == Spec => []CallInv
<1>1. Init => CallInv
  BY DEF Init, CallInv
<1>2. TypeOK /\ CallInv /\ [Next]_vars => CallInv'
  <2> SUFFICES ASSUME TypeOK, CallInv, [Next]_vars PROVE CallInv'
    OBVIOUS
  <2> USE DEF CallInv, Dead
  <2>1. CASE MatchOver \/ TickCapReached \/ WallClockExpires \/ SimRaisesAtTop
    BY <2>1 DEF MatchOver, TickCapReached, WallClockExpires, SimRaisesAtTop,
                Leave, seatVars
  <2>2. CASE StartTick
    BY <2>2 DEF StartTick, Live, seatVars
  <2>3. CASE GatherReturns
    BY <2>3 DEF GatherReturns, EventLoopRuns, seatVars
  <2>4. CASE Collect
    BY <2>4 DEF Collect
  <2>5. CASE Step \/ StepRaises \/ Rewards
    BY <2>5 DEF Step, StepRaises, Rewards
  <2>6. CASE RewardsRaise
    BY <2>6 DEF RewardsRaise, Leave
  <2>7. CASE Record
    BY <2>7 DEF Record
  <2>8. CASE Cleanup
    BY <2>8 DEF Cleanup
  <2>9. ASSUME NEW r, Finish(r) PROVE CallInv'
    BY <2>9 DEF Finish
  <2>10. CASE \/ BuildFaultResult \/ BuildAncientResult
              \/ BuildTiebreakResult \/ BuildRaises
    BY <2>9, <2>10 DEF BuildFaultResult, BuildAncientResult, BuildTiebreakResult,
                       BuildRaises
  <2>11. ASSUME NEW s \in Seats, Seat(s) PROVE CallInv'
    <3>1. ASSUME NEW reply \in Replies, Replied(s, reply) PROVE CallInv'
      BY <3>1 DEF Replied, Replies, AllOutcomes, TypeOK, seatVars
    <3>2. CASE SeatAnswers(s) \/ Deadline(s)
      BY <3>1, <3>2, EngineAssumption
         DEF SeatAnswers, Deadline, EngineAssumption, Replies
    <3>3. CASE ProbeStarts(s) \/ ProbeAnswers(s)
      BY <3>3 DEF ProbeStarts, ProbeAnswers, seatVars
    <3> QED
      BY <2>11, <3>2, <3>3 DEF Seat
  <2>12. CASE UNCHANGED vars
    BY <2>12 DEF vars, seatVars
  <2> QED
    BY <2>1, <2>2, <2>3, <2>4, <2>5, <2>6, <2>7, <2>8, <2>10, <2>11, <2>12
       DEF Next, Loop
<1> QED
  BY <1>1, <1>2, TypeCorrect, PTL DEF Spec

-----------------------------------------------------------------------------
\* How the tick counters are related along the loop body: the local tick is
\* the number of ticks run when it was read, and nothing is probed before the
\* first tick.
TickInv ==
  /\ pc \in {"gather", "yield", "collect", "step"} =>
       tick = ticksRun /\ simTick = ticksRun /\ ticksRun < MaxTicks
  /\ pc \in {"rewards", "record"} => ticksRun = tick + 1 /\ simTick = ticksRun
  /\ pc = "top" =>
       /\ simTick = ticksRun
       /\ ticksRun = 0 => \A s \in Seats : probe[s].st = "none"
       /\ ticksRun # 0 => ticksRun = tick + 1
  /\ ticksRun <= MaxTicks

LEMMA TickInvariant == Spec => []TickInv
<1>1. Init => TickInv
  BY EngineAssumption DEF Init, TickInv, NoProbe, EngineAssumption
<1>2. TypeOK /\ TickInv /\ [Next]_vars => TickInv'
  <2> SUFFICES ASSUME TypeOK, TickInv, [Next]_vars PROVE TickInv'
    OBVIOUS
  <2>0. ticksRun \in Nat /\ tick \in Nat /\ simTick \in Nat /\ MaxTicks \in Nat
    BY EngineAssumption DEF TypeOK, EngineAssumption
  <2> USE <2>0 DEF TickInv
  <2>1. CASE MatchOver \/ TickCapReached \/ WallClockExpires \/ SimRaisesAtTop
    BY <2>1 DEF MatchOver, TickCapReached, WallClockExpires, SimRaisesAtTop, Leave
  <2>2. CASE StartTick
    BY <2>2 DEF StartTick, simVars, episodeVars
  <2>3. CASE GatherReturns
    BY <2>3 DEF GatherReturns, EventLoopRuns, simVars, episodeVars
  <2>4. CASE Collect
    BY <2>4 DEF Collect, simVars, episodeVars
  <2>5. CASE Step
    BY <2>5 DEF Step
  <2>6. CASE StepRaises
    BY <2>6 DEF StepRaises
  <2>7. CASE Rewards
    BY <2>7 DEF Rewards, simVars
  <2>8. CASE RewardsRaise
    BY <2>8 DEF RewardsRaise, Leave
  <2>9. CASE Record
    BY <2>9 DEF Record, simVars
  <2>10. CASE Cleanup
    BY <2>10 DEF Cleanup, episodeVars
  <2>11. ASSUME NEW r, Finish(r) PROVE TickInv'
    BY <2>11 DEF Finish, episodeVars
  <2>12. CASE \/ BuildFaultResult \/ BuildAncientResult
              \/ BuildTiebreakResult \/ BuildRaises
    BY <2>11, <2>12 DEF BuildFaultResult, BuildAncientResult, BuildTiebreakResult,
                       BuildRaises
  <2>13. ASSUME NEW s \in Seats, Seat(s) PROVE TickInv'
    BY <2>13 DEF Seat, SeatAnswers, Deadline, Replied, ProbeStarts, ProbeAnswers,
                 EventLoopRuns, simVars, episodeVars
  <2>14. CASE UNCHANGED vars
    BY <2>14 DEF vars, simVars, episodeVars
  <2> QED
    BY <2>1, <2>2, <2>3, <2>4, <2>5, <2>6, <2>7, <2>8, <2>9, <2>10, <2>12, <2>13,
       <2>14 DEF Next, Loop
<1> QED
  BY <1>1, <1>2, TypeCorrect, PTL DEF Spec

-----------------------------------------------------------------------------
\* What the strike rule reads and writes changes only in Collect.
LEMMA SeatVarsOnlyInCollect ==
  ASSUME [Next]_vars, ~Collect PROVE UNCHANGED seatVars
<1>1. ASSUME NEW r, Finish(r) PROVE UNCHANGED seatVars
  BY <1>1 DEF Finish
<1>2. CASE BuildFaultResult \/ BuildAncientResult \/ BuildTiebreakResult \/ BuildRaises
  BY <1>1, <1>2 DEF BuildFaultResult, BuildAncientResult, BuildTiebreakResult,
                    BuildRaises
<1>3. CASE MatchOver \/ TickCapReached \/ WallClockExpires \/ SimRaisesAtTop
           \/ RewardsRaise
  BY <1>3 DEF MatchOver, TickCapReached, WallClockExpires, SimRaisesAtTop,
              RewardsRaise, Leave
<1>4. CASE StartTick \/ GatherReturns \/ Step \/ StepRaises \/ Rewards \/ Record
           \/ Cleanup
  BY <1>4 DEF StartTick, GatherReturns, Step, StepRaises, Rewards, Record, Cleanup
<1>5. ASSUME NEW s \in Seats, Seat(s) PROVE UNCHANGED seatVars
  BY <1>5 DEF Seat, SeatAnswers, Deadline, Replied, ProbeStarts, ProbeAnswers
<1>6. CASE UNCHANGED vars
  BY <1>6 DEF vars
<1> QED
  BY <1>2, <1>3, <1>4, <1>5, <1>6 DEF Next, Loop

\* What the strike rule keeps true of one seat.
StrikeInv ==
  \A s \in Seats :
    /\ waits[s] <= strikes[s] /\ waits[s] <= StrikeLimit
    /\ announced[s] = IF Dead(s) THEN 1 ELSE 0

LEMMA StrikeInvariant == Spec => []StrikeInv
<1>1. Init => StrikeInv
  <2> SUFFICES ASSUME Init, NEW s \in Seats
               PROVE  /\ waits[s] <= strikes[s] /\ waits[s] <= StrikeLimit
                      /\ announced[s] = IF Dead(s) THEN 1 ELSE 0
    BY DEF StrikeInv
  <2>1. strikes[s] = 0 /\ waits[s] = 0 /\ announced[s] = 0
    BY DEF Init
  <2>2. StrikeLimit \in Nat \ {0}
    BY EngineAssumption DEF EngineAssumption
  <2> QED
    BY <2>1, <2>2 DEF Dead
<1>2. TypeOK /\ CallInv /\ StrikeInv /\ [Next]_vars => StrikeInv'
  <2> SUFFICES ASSUME TypeOK, CallInv, StrikeInv, [Next]_vars PROVE StrikeInv'
    OBVIOUS
  <2>1. CASE Collect
    <3> SUFFICES ASSUME NEW s \in Seats
                 PROVE  /\ WaitsAfter(s) <= StrikesAfter(s)
                        /\ WaitsAfter(s) <= StrikeLimit
                        /\ AnnouncedAfter(s) =
                             IF StrikesAfter(s) >= StrikeLimit THEN 1 ELSE 0
      BY <2>1 DEF Collect, StrikeInv, Dead
    <3>1. /\ strikes[s] \in Nat /\ waits[s] \in Nat /\ announced[s] \in Nat
          /\ StrikeLimit \in Nat \ {0}
      BY EngineAssumption DEF TypeOK, EngineAssumption
    <3>2. Dead(s) <=> call[s] = "idle"
      BY <2>1 DEF Collect, CallInv
    <3> QED
      BY <3>1, <3>2 DEF StrikeInv, WaitsAfter, StrikesAfter, AnnouncedAfter, Dead
  <2>2. CASE ~Collect
    BY <2>2, SeatVarsOnlyInCollect DEF StrikeInv, Dead, seatVars
  <2> QED
    BY <2>1, <2>2
<1> QED
  BY <1>1, <1>2, TypeCorrect, CallInvariant, PTL DEF Spec

\* A seat costs at most StrikeLimit deadlines since its last valid action.
THEOREM DeadlinesBounded == Spec => []DeadlineBudget
<1>1. StrikeInv => DeadlineBudget
  BY DEF StrikeInv, DeadlineBudget
<1> QED
  BY <1>1, StrikeInvariant, PTL

\* Every NOOP tick has one cause, and every strike is a NOOP tick.
THEOREM NoopsAreAccounted == Spec => []NoopsAccounted
<1>1. Init => NoopsAccounted
  <2> SUFFICES ASSUME Init, NEW s \in Seats
               PROVE  LET n == noopCauses[s] IN
                      /\ n["timeout"] + n["malformed"] + n["disconnected"]
                           + n["host_error"] = noopTicks[s]
                      /\ strikes[s] <= noopTicks[s]
    BY DEF NoopsAccounted
  <2>1. strikes[s] = 0 /\ noopTicks[s] = 0
    BY DEF Init
  <2>2. noopCauses[s] = [c \in {"timeout", "malformed", "disconnected",
                                "host_error"} |-> 0]
    BY DEF Init, NoopCauses
  <2> QED
    BY <2>1, <2>2
<1>2. TypeOK /\ NoopsAccounted /\ [Next]_vars => NoopsAccounted'
  <2> SUFFICES ASSUME TypeOK, NoopsAccounted, [Next]_vars PROVE NoopsAccounted'
    OBVIOUS
  <2>1. CASE Collect
    <3> SUFFICES ASSUME NEW s \in Seats
                 PROVE  LET n == CausesAfter(s)
                            k == IF Reply(s) = "valid" THEN noopTicks[s]
                                 ELSE noopTicks[s] + 1
                        IN  /\ n["timeout"] + n["malformed"] + n["disconnected"]
                                 + n["host_error"] = k
                            /\ StrikesAfter(s) <= k
      BY <2>1 DEF Collect, NoopsAccounted
    <3>1. /\ strikes[s] \in Nat /\ noopTicks[s] \in Nat
          /\ noopCauses[s] \in [NoopCauses -> Nat]
      BY DEF TypeOK
    <3>2. Cause(s) \in NoopCauses
      BY DEF Cause, NoopCauses
    <3>3. /\ noopCauses[s]["timeout"] \in Nat /\ noopCauses[s]["malformed"] \in Nat
          /\ noopCauses[s]["disconnected"] \in Nat
          /\ noopCauses[s]["host_error"] \in Nat
      BY <3>1 DEF NoopCauses
    <3> QED
      BY <3>1, <3>2, <3>3 DEF NoopsAccounted, CausesAfter, StrikesAfter, NoopCauses
  <2>2. CASE ~Collect
    BY <2>2, SeatVarsOnlyInCollect DEF NoopsAccounted, seatVars
  <2> QED
    BY <2>1, <2>2
<1> QED
  BY <1>1, <1>2, TypeCorrect, PTL DEF Spec

-----------------------------------------------------------------------------
\* A background probe belongs to the current dead spell.
THEOREM ProbesBelongToTheirSpell == Spec => []ProbeOfThisSpell
<1>1. Init => ProbeOfThisSpell
  BY DEF Init, ProbeOfThisSpell, NoProbe
<1>2. TypeOK /\ TickInv /\ ProbeOfThisSpell /\ [Next]_vars => ProbeOfThisSpell'
  <2> SUFFICES ASSUME TypeOK, TickInv, ProbeOfThisSpell, [Next]_vars
               PROVE  ProbeOfThisSpell'
    OBVIOUS
  <2>0. /\ tick \in Nat /\ ticksRun \in Nat /\ StrikeLimit \in Nat
        /\ \A s \in Seats : strikes[s] \in Nat /\ probe[s].tick \in Nat
    BY EngineAssumption DEF TypeOK, EngineAssumption
  <2> USE <2>0 DEF ProbeOfThisSpell, LastCollected, Dead
  <2>1. CASE Collect
    <3> SUFFICES ASSUME NEW s \in Seats, ProbeAfter(s).st # "none"
                 PROVE  /\ StrikesAfter(s) >= StrikeLimit
                        /\ tick - (StrikesAfter(s) - StrikeLimit) < ProbeAfter(s).tick
                        /\ ProbeAfter(s).tick <= tick
      BY <2>1 DEF Collect
    <3>1. /\ Reply(s) # "valid" /\ StrikesAfter(s) = strikes[s] + 1
      BY DEF ProbeAfter, NoProbe, StrikesAfter
    <3>2. Dead(s)
      BY <3>1 DEF ProbeAfter
    <3>3. CASE probe[s].st \in {"none", "done"}
      BY <3>1, <3>2, <3>3 DEF ProbeAfter, ProbeAfterPoll
    <3>4. CASE probe[s].st \notin {"none", "done"}
      <4>1. ProbeAfter(s) = probe[s]
        BY <3>1, <3>2, <3>4 DEF ProbeAfter, ProbeAfterPoll
      <4> QED
        BY <2>1, <3>1, <3>4, <4>1 DEF Collect
    <3> QED
      BY <3>3, <3>4
  <2>2. CASE StartTick
    BY <2>2 DEF StartTick, TickInv, seatVars
  <2>3. CASE Cleanup
    BY <2>3 DEF Cleanup, NoProbe
  <2>4. CASE MatchOver \/ TickCapReached \/ WallClockExpires \/ SimRaisesAtTop
             \/ RewardsRaise
    BY <2>4 DEF MatchOver, TickCapReached, WallClockExpires, SimRaisesAtTop,
                RewardsRaise, Leave, seatVars
  <2>5. CASE GatherReturns
    BY <2>5 DEF GatherReturns, EventLoopRuns, seatVars
  <2>6. CASE Step \/ StepRaises \/ Rewards
    BY <2>6 DEF Step, StepRaises, Rewards, seatVars
  <2>7. CASE Record
    BY <2>7 DEF Record, seatVars
  <2>8. ASSUME NEW r, Finish(r) PROVE ProbeOfThisSpell'
    BY <2>8 DEF Finish, seatVars
  <2>9. CASE \/ BuildFaultResult \/ BuildAncientResult
             \/ BuildTiebreakResult \/ BuildRaises
    BY <2>8, <2>9 DEF BuildFaultResult, BuildAncientResult, BuildTiebreakResult,
                      BuildRaises
  <2>10. ASSUME NEW s \in Seats, Seat(s) PROVE ProbeOfThisSpell'
    <3>1. CASE SeatAnswers(s) \/ Deadline(s)
      BY <3>1 DEF SeatAnswers, Deadline, Replied, seatVars
    <3>2. CASE ProbeStarts(s)
      BY <3>2 DEF ProbeStarts, seatVars, TypeOK
    <3>3. CASE ProbeAnswers(s)
      BY <3>3 DEF ProbeAnswers, seatVars, TypeOK
    <3> QED
      BY <2>10, <3>1, <3>2, <3>3 DEF Seat
  <2>11. CASE UNCHANGED vars
    BY <2>11 DEF vars, seatVars
  <2> QED
    BY <2>1, <2>2, <2>3, <2>4, <2>5, <2>6, <2>7, <2>9, <2>10, <2>11 DEF Next, Loop
<1> QED
  BY <1>1, <1>2, TypeCorrect, TickInvariant, PTL DEF Spec

\* A seat's get_actions never has two callers.
THEOREM OneCaller == Spec => []SingleCaller
<1>1. CallInv /\ ProbeOfThisSpell => SingleCaller
  BY DEF CallInv, ProbeOfThisSpell, SingleCaller
<1> QED
  BY <1>1, CallInvariant, ProbesBelongToTheirSpell, PTL

-----------------------------------------------------------------------------
\* The engine implements the strike rule.
THEOREM EngineImplementsStrikeRule == Spec => ImplementsStrikeRule
<1>1. Init => Rule!Init
  BY DEF Init, Rule!Init
<1>2. TypeOK /\ CallInv /\ StrikeInv /\ [Next]_vars => [Rule!Next]_(Rule!vars)
  <2> SUFFICES ASSUME TypeOK, CallInv, StrikeInv, [Next]_vars
               PROVE  [Rule!Next]_(Rule!vars)
    OBVIOUS
  <2>1. CASE Collect
    <3> DEFINE valid == {s \in Seats : Reply(s) = "valid"}
               late == {s \in Seats : call[s] = "timeout"}
    <3>1. late \subseteq Rule!Live \ valid
      <4> SUFFICES ASSUME NEW s \in Seats, call[s] = "timeout"
                   PROVE  s \in Rule!Live /\ Reply(s) # "valid"
        OBVIOUS
      <4>1. ~Dead(s)
        BY <2>1 DEF Collect, CallInv
      <4>2. strikes[s] \in Nat /\ StrikeLimit \in Nat
        BY EngineAssumption DEF TypeOK, EngineAssumption
      <4> QED
        BY <4>1, <4>2 DEF Rule!Live, Dead, Reply
    <3>2. strikes' = [s \in Seats |-> IF s \in valid THEN 0 ELSE strikes[s] + 1]
      BY <2>1 DEF Collect, StrikesAfter
    <3>3. noopTicks' = [s \in Seats |->
            IF s \in valid THEN noopTicks[s] ELSE noopTicks[s] + 1]
      BY <2>1 DEF Collect
    <3>4. waits' = [s \in Seats |->
            IF s \in valid THEN 0
            ELSE IF s \in late THEN waits[s] + 1 ELSE waits[s]]
      BY <2>1 DEF Collect, WaitsAfter
    <3>5. announced' = [s \in Seats |->
            IF s \in valid THEN 0
            ELSE IF strikes'[s] >= StrikeLimit THEN 1 ELSE 0]
      <4>1. ASSUME NEW s \in Seats
            PROVE  AnnouncedAfter(s) =
                     IF s \in valid THEN 0
                     ELSE IF strikes'[s] >= StrikeLimit THEN 1 ELSE 0
        <5>1. strikes[s] \in Nat /\ StrikeLimit \in Nat \ {0}
          BY EngineAssumption DEF TypeOK, EngineAssumption
        <5> QED
          BY <3>2, <5>1 DEF AnnouncedAfter, StrikesAfter, StrikeInv, Dead
      <4> QED
        BY <2>1, <4>1 DEF Collect
    <3>6. Rule!Tick(valid, late)
      BY <3>1, <3>2, <3>3, <3>4, <3>5 DEF Rule!Tick
    <3> QED
      BY <3>6 DEF Rule!Next
  <2>2. CASE ~Collect
    BY <2>2, SeatVarsOnlyInCollect DEF seatVars, Rule!vars
  <2> QED
    BY <2>1, <2>2
<1> QED
  BY <1>1, <1>2, TypeCorrect, CallInvariant, StrikeInvariant, PTL
     DEF Spec, ImplementsStrikeRule, Rule!Spec
-----------------------------------------------------------------------------
\* No tick polls a probe that never had a chance to run, all-dead ticks included.
THEOREM ProbesAlwaysGetTheLoop == Spec => []ProbesGetTheLoop
<1>1. Init => ProbesGetTheLoop
  BY DEF Init, ProbesGetTheLoop
<1>2. ProbesGetTheLoop /\ [Next]_vars => ProbesGetTheLoop'
  <2> SUFFICES ASSUME ProbesGetTheLoop, [Next]_vars, pc' = "collect", NEW s \in Seats
               PROVE  probe'[s].st # "new"
    BY DEF ProbesGetTheLoop
  <2>1. CASE GatherReturns
    BY <2>1 DEF GatherReturns
  <2>2. CASE UNCHANGED vars
    BY <2>2 DEF vars, ProbesGetTheLoop
  <2>3. ASSUME NEW r, Finish(r) PROVE FALSE
    BY <2>3 DEF Finish
  <2>4. ASSUME NEW t \in Seats, Seat(t) PROVE FALSE
    BY <2>4 DEF Seat, SeatAnswers, Deadline, Replied, ProbeStarts, ProbeAnswers,
                EventLoopRuns
  <2>5. CASE Loop /\ ~GatherReturns
    BY <2>3, <2>5
       DEF Loop, MatchOver, TickCapReached, WallClockExpires, SimRaisesAtTop, Leave,
           StartTick, Collect, Step, StepRaises, Rewards, RewardsRaise, Record, Cleanup,
           BuildFaultResult, BuildAncientResult, BuildTiebreakResult, BuildRaises
  <2> QED
    BY <2>1, <2>2, <2>4, <2>5 DEF Next
<1> QED
  BY <1>1, <1>2, PTL DEF Spec

-----------------------------------------------------------------------------
\* Where in the loop body the record, the reward sums and the simulator agree,
\* and that only a fault leaves the body while they do not.
RecordInv ==
  /\ \A i \in 1..Len(recorded) : recorded[i] = i - 1
  /\ pc \in {"top", "gather", "yield", "collect", "step"} =>
       Len(recorded) = simTick /\ rewardTicks = simTick /\ ticksRun = simTick
  /\ pc \in {"rewards", "record"} =>
       Len(recorded) = tick /\ rewardTicks = IF pc = "rewards" THEN tick ELSE tick + 1
  /\ pc \in {"cleanup", "result", "done"} =>
       /\ Len(recorded) <= rewardTicks /\ rewardTicks <= ticksRun /\ ticksRun <= simTick
       /\ ~simFault => Len(recorded) = simTick /\ rewardTicks = simTick
  /\ pc \notin {"cleanup", "result", "done"} => ~simFault
  /\ pc # "done" => result.reason = "none"
  /\ pc = "done" => (result.reason = "sim_fault" <=> simFault)

LEMMA RecordInvariant == Spec => []RecordInv
<1>1. Init => RecordInv
  BY DEF Init, RecordInv, NoResult
<1>2. TypeOK /\ TickInv /\ RecordInv /\ [Next]_vars => RecordInv'
  <2> SUFFICES ASSUME TypeOK, TickInv, RecordInv, [Next]_vars PROVE RecordInv'
    OBVIOUS
  <2>0. /\ ticksRun \in Nat /\ tick \in Nat /\ simTick \in Nat /\ rewardTicks \in Nat
        /\ recorded \in Seq(Nat)
    BY DEF TypeOK
  <2> USE <2>0 DEF RecordInv, TickInv
  <2>1. CASE MatchOver \/ TickCapReached \/ WallClockExpires \/ SimRaisesAtTop
    BY <2>1 DEF MatchOver, TickCapReached, WallClockExpires, SimRaisesAtTop, Leave, simVars
  <2>2. CASE StartTick
    BY <2>2 DEF StartTick, simVars, episodeVars
  <2>3. CASE GatherReturns
    BY <2>3 DEF GatherReturns, EventLoopRuns, simVars, episodeVars
  <2>4. CASE Collect
    BY <2>4 DEF Collect, simVars, episodeVars
  <2>5. CASE Step
    BY <2>5 DEF Step
  <2>6. CASE StepRaises
    BY <2>6 DEF StepRaises
  <2>7. CASE Rewards
    BY <2>7 DEF Rewards, simVars
  <2>8. CASE RewardsRaise
    BY <2>8 DEF RewardsRaise, Leave, simVars
  <2>9. CASE Record
    <3>1. /\ pc = "record" /\ recorded' = Append(recorded, tick)
          /\ UNCHANGED <<simTick, ticksRun, rewardTicks, tick, result>>
      BY <2>9 DEF Record, simVars
    <3>2. (pc' = "top" /\ ~simFault') \/ (pc' = "cleanup" /\ simFault')
      BY <2>9 DEF Record
    <3>3. /\ Len(recorded') = Len(recorded) + 1
          /\ \A i \in 1..Len(recorded') : recorded'[i] = i - 1
      BY <3>1
    <3> QED
      BY <3>1, <3>2, <3>3
  <2>10. CASE Cleanup
    BY <2>10 DEF Cleanup, simVars, episodeVars
  <2>11. ASSUME NEW r, Finish(r), r.reason = "sim_fault" <=> simFault PROVE RecordInv'
    BY <2>11 DEF Finish, simVars, episodeVars
  <2>12. CASE \/ BuildFaultResult \/ BuildAncientResult
              \/ BuildTiebreakResult \/ BuildRaises
    BY <2>11, <2>12 DEF BuildFaultResult, BuildAncientResult, BuildTiebreakResult,
                       BuildRaises
  <2>13. ASSUME NEW s \in Seats, Seat(s) PROVE RecordInv'
    BY <2>13 DEF Seat, SeatAnswers, Deadline, Replied, ProbeStarts, ProbeAnswers,
                 EventLoopRuns, simVars, episodeVars
  <2>14. CASE UNCHANGED vars
    BY <2>14 DEF vars, simVars, episodeVars
  <2> QED
    BY <2>1, <2>2, <2>3, <2>4, <2>5, <2>6, <2>7, <2>8, <2>9, <2>10, <2>12, <2>13,
       <2>14 DEF Next, Loop
<1> QED
  BY <1>1, <1>2, TypeCorrect, TickInvariant, PTL DEF Spec

\* The replay has every tick once and in order, and a result other than a fault
\* covers every tick the simulator ran.
THEOREM ReplayAlwaysCovers == Spec => []ReplayCoversEpisode
<1>1. TypeOK /\ TickInv /\ RecordInv => ReplayCoversEpisode
  <2> SUFFICES ASSUME TypeOK, TickInv, RecordInv PROVE ReplayCoversEpisode
    OBVIOUS
  <2>0. /\ ticksRun \in Nat /\ tick \in Nat /\ simTick \in Nat /\ rewardTicks \in Nat
        /\ Len(recorded) \in Nat
    BY DEF TypeOK
  <2>1. Len(recorded) <= rewardTicks /\ rewardTicks <= ticksRun /\ ticksRun <= simTick
    BY <2>0 DEF TypeOK, TickInv, RecordInv
  <2>2. result.reason \in EndReasons \ {"sim_fault"} => pc = "done" /\ ~simFault
    BY DEF RecordInv, EndReasons
  <2> QED
    BY <2>1, <2>2 DEF ReplayCoversEpisode, RecordInv
<1> QED
  BY <1>1, TypeCorrect, TickInvariant, RecordInvariant, PTL

\* Why an episode that is neither faulty nor late nor won was left.
LeftInv ==
  /\ pc \in {"cleanup", "result"} /\ ~simFault /\ ~wallClockExpired /\ simWinner = Draw =>
       ticksRun = MaxTicks
  /\ ResultFaithful

\* The end reason tells the truth: a match won on the last tick is a win, and a
\* tick cap is reported only when it was reached.
THEOREM ResultsAreFaithful == Spec => []ResultFaithful
<1>1. Init => LeftInv
  BY DEF Init, LeftInv, ResultFaithful
<1>2. TypeOK /\ TickInv /\ RecordInv /\ LeftInv /\ [Next]_vars => LeftInv'
  <2> SUFFICES ASSUME TypeOK, TickInv, RecordInv, LeftInv, [Next]_vars PROVE LeftInv'
    OBVIOUS
  <2>0. ticksRun \in Nat /\ MaxTicks \in Nat
    BY EngineAssumption DEF TypeOK, EngineAssumption
  <2>1. CASE MatchOver \/ TickCapReached \/ WallClockExpires \/ SimRaisesAtTop
    BY <2>0, <2>1 DEF MatchOver, TickCapReached, WallClockExpires, SimRaisesAtTop, Leave,
                      simVars, LeftInv, TickInv, ResultFaithful
  <2>2. CASE StartTick \/ GatherReturns \/ Collect \/ Step \/ Rewards
    BY <2>2 DEF StartTick, GatherReturns, EventLoopRuns, Collect, Step, Rewards, LeftInv,
                ResultFaithful
  <2>3. CASE StepRaises \/ RewardsRaise
    BY <2>3 DEF StepRaises, RewardsRaise, Leave, LeftInv, ResultFaithful
  <2>4. CASE Record
    <3>1. pc' = "top" \/ (pc' = "cleanup" /\ simFault')
      BY <2>4 DEF Record
    <3> QED
      BY <3>1 DEF LeftInv, ResultFaithful
  <2>5. CASE Cleanup
    BY <2>5 DEF Cleanup, simVars, episodeVars, LeftInv, ResultFaithful
  <2>6. CASE BuildFaultResult
    BY <2>6 DEF BuildFaultResult, Finish, simVars, episodeVars, LeftInv, ResultFaithful,
                Score
  <2>7. CASE BuildAncientResult
    BY <2>7 DEF BuildAncientResult, Finish, simVars, episodeVars, LeftInv, ResultFaithful
  <2>8. CASE BuildTiebreakResult
    <3>1. PICK lead \in Winners :
            Finish([reason |-> IF wallClockExpired THEN "wall_clock" ELSE "tick_cap",
                    winner |-> lead])
      BY <2>8 DEF BuildTiebreakResult
    <3>2. ~simFault /\ simWinner = Draw /\ pc = "result"
      BY <2>8, <3>1 DEF BuildTiebreakResult, Finish
    <3>3. ~wallClockExpired => ticksRun = MaxTicks
      BY <3>2 DEF LeftInv
    <3> QED
      BY <3>1, <3>2, <3>3 DEF Finish, simVars, episodeVars, LeftInv, ResultFaithful
  <2>9. CASE BuildRaises
    BY <2>9 DEF BuildRaises, Finish, simVars, episodeVars, LeftInv, ResultFaithful
  <2>10. ASSUME NEW s \in Seats, Seat(s) PROVE LeftInv'
    BY <2>10 DEF Seat, SeatAnswers, Deadline, Replied, ProbeStarts, ProbeAnswers,
                 EventLoopRuns, simVars, episodeVars, LeftInv, ResultFaithful
  <2>11. CASE UNCHANGED vars
    BY <2>11 DEF vars, simVars, episodeVars, LeftInv, ResultFaithful, Score
  <2> QED
    BY <2>1, <2>2, <2>3, <2>4, <2>5, <2>6, <2>7, <2>8, <2>9, <2>10, <2>11
       DEF Next, Loop
<1>3. LeftInv => ResultFaithful
  BY DEF LeftInv
<1> QED
  BY <1>1, <1>2, <1>3, TypeCorrect, TickInvariant, RecordInvariant, PTL DEF Spec

-----------------------------------------------------------------------------
(* Why an episode ends.  A step of the loop lowers EngineRank; any other step  *)
(* is that of one seat's call or probe and lowers its SeatRank.                *)

Phase == [rewards |-> 8, record |-> 7, top |-> 6, gather |-> 5, yield |-> 5, collect |-> 4,
          step |-> 3, cleanup |-> 2, result |-> 1, done |-> 0]

EngineRank == 6 * (MaxTicks - ticksRun) + Phase[pc]

SeatRank(s) ==
  (IF call[s] = "pending" THEN 1 ELSE 0)
    + (CASE probe[s].st = "new" -> 2 [] probe[s].st = "running" -> 1 [] OTHER -> 0)

\* The loop's steps go forward, the seats' only use up what it waits for.
RunsDown ==
  [][\/ EngineRank' < EngineRank
     \/ /\ EngineRank' = EngineRank
        /\ \E s \in Seats : /\ SeatRank(s)' < SeatRank(s)
                            /\ \A t \in Seats \ {s} : SeatRank(t)' = SeatRank(t)]_vars

RanksBounded ==
  /\ EngineRank \in 0..(6 * MaxTicks + 6)
  /\ EngineRank = 0 => pc = "done"
  /\ \A s \in Seats : SeatRank(s) \in 0..3

LEMMA LoopRunsDown ==
  ASSUME TypeOK, TickInv, Loop
  PROVE  EngineRank' < EngineRank
<1>1. ticksRun \in Nat /\ MaxTicks \in Nat /\ ticksRun <= MaxTicks
  BY EngineAssumption DEF TypeOK, TickInv
<1>2. ASSUME ticksRun' = ticksRun, Phase[pc'] < Phase[pc], Phase[pc] \in 0..8, Phase[pc'] \in 0..8
      PROVE  EngineRank' < EngineRank
  BY <1>1, <1>2 DEF EngineRank
<1> USE DEF Phase
<1>3. CASE MatchOver \/ TickCapReached \/ WallClockExpires \/ SimRaisesAtTop \/ RewardsRaise
  BY <1>2, <1>3 DEF MatchOver, TickCapReached, WallClockExpires, SimRaisesAtTop, RewardsRaise, Leave
<1>4. CASE StartTick \/ GatherReturns \/ Collect
  BY <1>2, <1>4 DEF StartTick, GatherReturns, EventLoopRuns, Collect, episodeVars
<1>5. CASE Step
  BY <1>1, <1>5 DEF Step, EngineRank
<1>6. CASE StepRaises \/ Rewards \/ Record
  <2>1. \/ pc = "step" /\ pc' = "cleanup"
        \/ pc = "rewards" /\ pc' = "record"
        \/ pc = "record" /\ pc' \in {"cleanup", "top"}
    BY <1>6, Zenon DEF StepRaises, Rewards, Record
  <2>2. ticksRun' = ticksRun
    BY <1>6, Zenon DEF StepRaises, Rewards, Record
  <2> QED
    BY <1>2, <2>1, <2>2
<1>7. CASE Cleanup
  BY <1>2, <1>7 DEF Cleanup, episodeVars
<1>8. CASE BuildFaultResult \/ BuildAncientResult \/ BuildTiebreakResult \/ BuildRaises
  BY <1>2, <1>8 DEF BuildFaultResult, BuildAncientResult, BuildTiebreakResult, BuildRaises, Finish,
                    episodeVars
<1> QED
  BY <1>3, <1>4, <1>5, <1>6, <1>7, <1>8 DEF Loop

LEMMA SeatRunsDown ==
  ASSUME TypeOK, NEW s \in Seats, Seat(s)
  PROVE  /\ EngineRank' = EngineRank
         /\ SeatRank(s)' < SeatRank(s)
         /\ \A t \in Seats \ {s} : SeatRank(t)' = SeatRank(t)
<1>1. EngineRank' = EngineRank
  BY DEF Seat, SeatAnswers, Deadline, Replied, ProbeStarts, ProbeAnswers, EngineRank, episodeVars
<1>2. CASE SeatAnswers(s) \/ Deadline(s)
  <2>1. PICK reply \in Replies : Replied(s, reply)
    BY <1>2, EngineAssumption DEF SeatAnswers, Deadline, Replies
  <2>2. /\ call[s] = "pending" /\ call' = [call EXCEPT ![s] = reply] /\ probe' = probe
        /\ reply # "pending"
    BY <2>1 DEF Replied, Replies, AllOutcomes
  <2>3. call'[s] # "pending" /\ \A t \in Seats \ {s} : call'[t] = call[t]
    BY <2>2 DEF TypeOK
  <2> QED
    BY <1>1, <2>2, <2>3 DEF SeatRank
<1>3. CASE ProbeStarts(s) \/ ProbeAnswers(s)
  <2>1. /\ call' = call
        /\ \/ probe[s].st = "new" /\ probe'[s].st = "running"
           \/ probe[s].st = "running" /\ probe'[s].st = "done"
        /\ \A t \in Seats \ {s} : probe'[t] = probe[t]
    BY <1>3 DEF ProbeStarts, ProbeAnswers, TypeOK
  <2> QED
    BY <1>1, <2>1 DEF SeatRank
<1> QED
  BY <1>2, <1>3 DEF Seat

\* No episode, whatever its sources do, takes more than 6 * MaxTicks + 6 steps of
\* the engine, nor more than three of a seat between two of them: the liveness
\* Termination needs no more than that one of them is always taken.
THEOREM EpisodesRunDown == Spec => RunsDown /\ []RanksBounded
<1>1. TypeOK /\ TickInv /\ [Next]_vars =>
        [\/ EngineRank' < EngineRank
         \/ /\ EngineRank' = EngineRank
            /\ \E s \in Seats : /\ SeatRank(s)' < SeatRank(s)
                                /\ \A t \in Seats \ {s} : SeatRank(t)' = SeatRank(t)]_vars
  BY LoopRunsDown, SeatRunsDown DEF Next
<1>2. TypeOK /\ TickInv => RanksBounded
  <2> SUFFICES ASSUME TypeOK, TickInv PROVE RanksBounded
    OBVIOUS
  <2>1. ticksRun \in Nat /\ MaxTicks \in Nat /\ ticksRun <= MaxTicks
    BY EngineAssumption DEF TypeOK, TickInv
  <2>2. /\ Phase[pc] \in 0..8 /\ (Phase[pc] = 0 => pc = "done")
        /\ Phase[pc] > 6 => ticksRun # 0
    BY <2>1 DEF TypeOK, TickInv, Phase
  <2>3. \A s \in Seats : SeatRank(s) \in 0..3
    BY DEF SeatRank
  <2>4. EngineRank \in 0..(6 * MaxTicks + 6) /\ (EngineRank = 0 => Phase[pc] = 0)
    <3> DEFINE phase == Phase[pc]
    <3>1. phase \in 0..8 /\ (phase > 6 => ticksRun # 0) /\ EngineRank = 6 * (MaxTicks - ticksRun) + phase
      BY <2>2 DEF EngineRank
    <3> HIDE DEF phase
    <3>2. EngineRank \in 0..(6 * MaxTicks + 6) /\ (EngineRank = 0 => phase = 0)
      BY <2>1, <3>1
    <3> QED
      BY <3>2 DEF phase
  <2> QED
    BY <2>2, <2>3, <2>4 DEF RanksBounded
<1> QED
  BY <1>1, <1>2, TypeCorrect, TickInvariant, PTL DEF Spec, RunsDown
=============================================================================
