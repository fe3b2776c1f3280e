--------------------------- MODULE LockstepEngine ---------------------------
(***************************************************************************)
(* server/cogame_moba/engine.py: one episode of LockstepEngine.run.        *)
(*                                                                         *)
(* The engine is one coroutine.  It suspends only while it gathers the     *)
(* live seats' replies ("gather"), in the explicit sleep(0) of an all-dead *)
(* tick ("yield") and while it awaits its cancelled probes ("cleanup");    *)
(* action sources and revival probes run only then.  Everything from the   *)
(* return of the gather to the next suspension is await-free.              *)
(*                                                                         *)
(* An action source is whatever get_actions may do: answer a valid or a    *)
(* malformed reply, answer None, raise, or not answer.  The simulator is   *)
(* what its host interface shows: a tick counter, the winner, the fault    *)
(* flag, and the possibility that any call raises.                         *)
(***************************************************************************)
EXTENDS Integers, Sequences

CONSTANTS Seats,        \* the player seats
          Team,         \* Team[s]: 0 radiant, 1 dire
          StrikeLimit,  \* STRIKE_LIMIT
          MaxTicks,     \* config.max_ticks
          Outcomes      \* the ways a get_actions call may end by itself

AllOutcomes == {"valid", "malformed", "none", "raises"}

ASSUME EngineAssumption ==
  /\ Team \in [Seats -> {0, 1}]
  /\ StrikeLimit \in Nat \ {0}
  /\ MaxTicks \in Nat \ {0}
  /\ Outcomes \subseteq AllOutcomes

Draw == 2                      \* winner None
Winners == {0, 1, Draw}
EndReasons == {"ancient", "tick_cap", "wall_clock", "sim_fault"}

VARIABLES
  pc,            \* where run() is
  simTick,       \* the simulator's own tick counter
  simWinner,     \* Draw until an ancient falls (done() is false)
  simFlag,       \* the fault flag of patch 0004
  tick,          \* the local tick of the loop body
  strikes, noopTicks, noopCauses,
  call,          \* call[s]: this tick's deadlined get_actions of a live seat
  probe,         \* probe[s]: the background get_actions of a dead seat
  ticksRun, simFault, wallClockExpired,
  rewardTicks,   \* ticks whose rewards were added to reward_sums
  recorded,      \* the ticks passed to on_tick, in order
  waits,         \* waits[s]: deadlines waited out since s's last valid action
  announced,     \* announced[s]: on_seat_dead calls since that action
  result         \* what run() returned

simVars == <<simTick, simWinner, simFlag>>
seatVars == <<strikes, noopTicks, noopCauses, waits, announced>>
episodeVars == <<ticksRun, simFault, wallClockExpired, rewardTicks, recorded>>
vars == <<pc, simVars, tick, seatVars, call, probe, episodeVars, result>>

NoProbe == [st |-> "none", tick |-> 0, out |-> "timeout"]
NoResult == [reason |-> "none", winner |-> Draw]

\* NOOP_CAUSES; the transport adds its "wrong_tick" count to the final result.
NoopCauses == {"timeout", "malformed", "disconnected", "host_error"}
Replies == AllOutcomes \cup {"timeout"}

TypeOK ==
  /\ pc \in {"top", "gather", "yield", "collect", "step", "rewards", "record",
             "cleanup", "result", "done"}
  /\ simTick \in Nat /\ simWinner \in Winners /\ simFlag \in BOOLEAN
  /\ tick \in Nat
  /\ strikes \in [Seats -> Nat]
  /\ noopTicks \in [Seats -> Nat]
  /\ noopCauses \in [Seats -> [NoopCauses -> Nat]]
  /\ call \in [Seats -> Replies \cup {"idle", "pending"}]
  /\ probe \in [Seats -> [st : {"none", "new", "running", "done"},
                          tick : Nat, out : Replies]]
  /\ ticksRun \in Nat
  /\ simFault \in BOOLEAN /\ wallClockExpired \in BOOLEAN
  /\ rewardTicks \in Nat
  /\ recorded \in Seq(Nat)
  /\ waits \in [Seats -> Nat]
  /\ announced \in [Seats -> Nat]
  /\ result \in [reason : EndReasons \cup {"none", "raised"}, winner : Winners]

Init ==
  /\ pc = "top"
  /\ simTick = 0 /\ simWinner = Draw /\ simFlag = FALSE
  /\ tick = 0
  /\ strikes = [s \in Seats |-> 0]
  /\ noopTicks = [s \in Seats |-> 0]
  /\ noopCauses = [s \in Seats |-> [c \in NoopCauses |-> 0]]
  /\ call = [s \in Seats |-> "idle"]
  /\ probe = [s \in Seats |-> NoProbe]
  /\ ticksRun = 0 /\ simFault = FALSE /\ wallClockExpired = FALSE
  /\ rewardTicks = 0 /\ recorded = <<>>
  /\ waits = [s \in Seats |-> 0]
  /\ announced = [s \in Seats |-> 0]
  /\ result = NoResult

Dead(s) == strikes[s] >= StrikeLimit
Live == {s \in Seats : ~Dead(s)}
EventLoopRuns == pc \in {"gather", "yield"}

-----------------------------------------------------------------------------
(* The head of the loop: the reasons to stop, in the order they are tried. *)

Leave == pc' = "cleanup" /\ UNCHANGED <<simVars, tick, seatVars, call, probe,
                                        ticksRun, rewardTicks, recorded, result>>

MatchOver ==
  /\ pc = "top" /\ simWinner # Draw
  /\ Leave /\ UNCHANGED <<simFault, wallClockExpired>>

TickCapReached ==
  /\ pc = "top" /\ simWinner = Draw /\ ticksRun >= MaxTicks
  /\ Leave /\ UNCHANGED <<simFault, wallClockExpired>>

\* The clock is outside the model: any head of the loop may be the late one.
WallClockExpires ==
  /\ pc = "top" /\ simWinner = Draw /\ ticksRun < MaxTicks
  /\ wallClockExpired' = TRUE
  /\ Leave /\ UNCHANGED simFault

\* done(), tick() or observations() raises.
SimRaisesAtTop ==
  /\ pc = "top"
  /\ simFault' = TRUE
  /\ Leave /\ UNCHANGED wallClockExpired

\* Mutant: the explicit yield of an all-dead tick is dropped.
StartTick_NoYield ==
  /\ pc = "top" /\ simWinner = Draw /\ ticksRun < MaxTicks
  /\ tick' = simTick
  /\ call' = [s \in Seats |-> IF Dead(s) THEN "idle" ELSE "pending"]
  /\ pc' = IF Live = {} THEN "collect" ELSE "gather"
  /\ UNCHANGED <<simVars, seatVars, probe, episodeVars, result>>

\* With no live seat the gather awaits nothing, so the loop yields explicitly.
StartTick ==
  /\ pc = "top" /\ simWinner = Draw /\ ticksRun < MaxTicks
  /\ tick' = simTick
  /\ call' = [s \in Seats |-> IF Dead(s) THEN "idle" ELSE "pending"]
  /\ pc' = IF Live = {} THEN "yield" ELSE "gather"
  /\ UNCHANGED <<simVars, seatVars, probe, episodeVars, result>>

-----------------------------------------------------------------------------
(* While the engine is suspended: sources, deadlines and probes.           *)

Replied(s, reply) ==
  /\ pc = "gather" /\ call[s] = "pending"
  /\ call' = [call EXCEPT ![s] = reply]
  /\ UNCHANGED <<pc, simVars, tick, seatVars, probe, episodeVars, result>>

SeatAnswers(s) == \E o \in Outcomes : Replied(s, o)

\* Mutant: the gather has no deadline.
Deadline_Unarmed(s) == FALSE /\ Replied(s, "timeout")

\* wait_for gives up and cancels the call.
Deadline(s) == Replied(s, "timeout")

\* The first step of a probe task: get_actions is called.
ProbeStarts(s) ==
  /\ EventLoopRuns /\ probe[s].st = "new"
  /\ probe' = [probe EXCEPT ![s].st = "running"]
  /\ UNCHANGED <<pc, simVars, tick, seatVars, call, episodeVars, result>>

ProbeAnswers(s) ==
  /\ EventLoopRuns /\ probe[s].st = "running"
  /\ \E o \in Outcomes :
       probe' = [probe EXCEPT ![s].st = "done", ![s].out = o]
  /\ UNCHANGED <<pc, simVars, tick, seatVars, call, episodeVars, result>>

\* The event loop is first in first out: a probe task created in an earlier
\* tick has taken its first step before the engine is resumed.
GatherReturns ==
  /\ EventLoopRuns
  /\ \A s \in Seats : call[s] # "pending" /\ probe[s].st # "new"
  /\ pc' = "collect"
  /\ UNCHANGED <<simVars, tick, seatVars, call, probe, episodeVars, result>>

-----------------------------------------------------------------------------
(* From the gather to sim.step: _poll_dead_seat for every dead seat, then  *)
(* _sanitize and the strike rule for every seat.                           *)

\* Mutant: a finished probe is replaced without being read.
Polled_Discarded(s) == "timeout"

Polled(s) == IF probe[s].st = "done" THEN probe[s].out ELSE "timeout"

\* At most one probe is outstanding; a harvested one is replaced at once.
ProbeAfterPoll(s) ==
  IF probe[s].st \in {"none", "done"}
  THEN [st |-> "new", tick |-> tick, out |-> "timeout"]
  ELSE probe[s]

Reply(s) == IF Dead(s) THEN Polled(s) ELSE call[s]

\* Mutants: any reply resets the count; the count goes the wrong way.
StrikesAfter_ResetByMalformed(s) ==
  IF Reply(s) \in {"valid", "malformed"} THEN 0 ELSE strikes[s] + 1
StrikesAfter_CountsDown(s) == IF Reply(s) = "valid" THEN 0 ELSE strikes[s] - 1

\* The strike rule for one seat: a valid action resets it, whatever it was.
StrikesAfter(s) == IF Reply(s) = "valid" THEN 0 ELSE strikes[s] + 1

\* Mutant: a revival leaves the probe of the harvest tick behind.
ProbeAfter_KeptOnRevival(s) == IF Dead(s) THEN ProbeAfterPoll(s) ELSE probe[s]

\* A valid action drops the probe, the one just created included.
ProbeAfter(s) ==
  IF Reply(s) = "valid" THEN NoProbe
  ELSE IF Dead(s) THEN ProbeAfterPoll(s) ELSE probe[s]

\* A reply that is present but fails sanitization is malformed; an absent one
\* brings its cause.
Cause(s) ==
  CASE Reply(s) = "malformed" -> "malformed"
    [] Reply(s) = "none"      -> "disconnected"
    [] Reply(s) = "raises"    -> "host_error"
    [] OTHER                  -> "timeout"

\* Mutant: a malformed reply is a NOOP without a cause.
CausesAfter_MalformedUncounted(s) ==
  IF Reply(s) \in {"valid", "malformed"} THEN noopCauses[s]
  ELSE [noopCauses[s] EXCEPT ![Cause(s)] = @ + 1]

CausesAfter(s) ==
  IF Reply(s) = "valid" THEN noopCauses[s]
  ELSE [noopCauses[s] EXCEPT ![Cause(s)] = @ + 1]

\* Mutant: on_seat_dead is called on every tick of a dead spell.
AnnouncedAfter_EveryDeadTick(s) ==
  IF Reply(s) = "valid" THEN 0
  ELSE IF StrikesAfter(s) >= StrikeLimit THEN announced[s] + 1 ELSE announced[s]

\* on_seat_dead is called when the count reaches the limit, not beyond it.
AnnouncedAfter(s) ==
  IF Reply(s) = "valid" THEN 0
  ELSE IF StrikesAfter(s) = StrikeLimit THEN announced[s] + 1 ELSE announced[s]

WaitsAfter(s) ==
  IF Reply(s) = "valid" THEN 0
  ELSE IF call[s] = "timeout" THEN waits[s] + 1 ELSE waits[s]

Collect ==
  /\ pc = "collect"
  /\ strikes' = [s \in Seats |-> StrikesAfter(s)]
  /\ noopTicks' = [s \in Seats |->
       IF Reply(s) = "valid" THEN noopTicks[s] ELSE noopTicks[s] + 1]
  /\ noopCauses' = [s \in Seats |-> CausesAfter(s)]
  /\ probe' = [s \in Seats |-> ProbeAfter(s)]
  /\ announced' = [s \in Seats |-> AnnouncedAfter(s)]
  /\ waits' = [s \in Seats |-> WaitsAfter(s)]
  /\ call' = [s \in Seats |-> "idle"]
  /\ pc' = "step"
  /\ UNCHANGED <<simVars, tick, episodeVars, result>>

-----------------------------------------------------------------------------
(* set_actions and step, rewards, on_tick, the fault flag.                 *)

Step ==
  /\ pc = "step"
  /\ simTick' = simTick + 1
  /\ simWinner' \in Winners
  /\ simFlag' \in BOOLEAN
  /\ ticksRun' = ticksRun + 1
  /\ pc' = "rewards"
  /\ UNCHANGED <<tick, seatVars, call, probe, simFault, wallClockExpired,
                 rewardTicks, recorded, result>>

\* set_actions or step raises; a trap may come before or after the counter.
StepRaises ==
  /\ pc = "step"
  /\ simTick' \in {simTick, simTick + 1}
  /\ simFault' = TRUE
  /\ pc' = "cleanup"
  /\ UNCHANGED <<simWinner, simFlag, tick, seatVars, call, probe, ticksRun,
                 wallClockExpired, rewardTicks, recorded, result>>

Rewards ==
  /\ pc = "rewards"
  /\ rewardTicks' = rewardTicks + 1
  /\ pc' = "record"
  /\ UNCHANGED <<simVars, tick, seatVars, call, probe, ticksRun, simFault,
                 wallClockExpired, recorded, result>>

\* Mutant: a failing rewards read skips the tick instead of ending the episode.
RewardsRaise_Swallowed ==
  /\ pc = "rewards"
  /\ pc' = "top"
  /\ UNCHANGED <<simVars, tick, seatVars, call, probe, episodeVars, result>>

RewardsRaise ==
  /\ pc = "rewards"
  /\ simFault' = TRUE
  /\ Leave /\ UNCHANGED wallClockExpired

\* on_tick, then the fault flag; fault() itself may raise.
Record ==
  /\ pc = "record"
  /\ recorded' = Append(recorded, tick)
  /\ \E fault \in {simFlag, TRUE} :
       /\ simFault' = fault
       /\ pc' = IF fault THEN "cleanup" ELSE "top"
  /\ UNCHANGED <<simVars, tick, seatVars, call, probe, ticksRun,
                 wallClockExpired, rewardTicks, result>>

-----------------------------------------------------------------------------
(* The finally block, and _build_result.                                   *)

Cleanup ==
  /\ pc = "cleanup"
  /\ probe' = [s \in Seats |-> NoProbe]
  /\ pc' = "result"
  /\ UNCHANGED <<simVars, tick, seatVars, call, episodeVars, result>>

Finish(r) ==
  /\ pc = "result"
  /\ result' = r
  /\ pc' = "done"
  /\ UNCHANGED <<simVars, tick, seatVars, call, probe, episodeVars>>

BuildFaultResult ==
  simFault /\ Finish([reason |-> "sim_fault", winner |-> Draw])

BuildAncientResult ==
  /\ ~simFault /\ simWinner # Draw
  /\ Finish([reason |-> "ancient", winner |-> simWinner])

\* Mutant: the tiebreak is applied without asking the simulator again.
BuildTiebreakResult_IgnoresDone ==
  /\ ~simFault
  /\ \E lead \in Winners :
       Finish([reason |-> IF wallClockExpired THEN "wall_clock" ELSE "tick_cap",
               winner |-> lead])

\* The ancient-health tiebreak decides an unfinished match.
BuildTiebreakResult ==
  /\ ~simFault /\ simWinner = Draw
  /\ \E lead \in Winners :
       Finish([reason |-> IF wallClockExpired THEN "wall_clock" ELSE "tick_cap",
               winner |-> lead])

\* Outside the fault path the simulator is read unguarded.
BuildRaises == ~simFault /\ Finish([reason |-> "raised", winner |-> Draw])

Score(s) == IF result.winner = Draw THEN "draw"
            ELSE IF Team[s] = result.winner THEN "win" ELSE "loss"

-----------------------------------------------------------------------------
Loop ==
  \/ MatchOver \/ TickCapReached \/ WallClockExpires \/ SimRaisesAtTop
  \/ StartTick \/ GatherReturns \/ Collect
  \/ Step \/ StepRaises \/ Rewards \/ RewardsRaise \/ Record
  \/ Cleanup
  \/ BuildFaultResult \/ BuildAncientResult \/ BuildTiebreakResult \/ BuildRaises

Seat(s) ==
  \/ SeatAnswers(s) \/ Deadline(s) \/ ProbeStarts(s) \/ ProbeAnswers(s)

Next == Loop \/ \E s \in Seats : Seat(s)

Spec == Init /\ [][Next]_vars

(***************************************************************************)
(* The engine's coroutine is always resumed, the event loop gives every    *)
(* task its first step, and timers fire.  Nothing is assumed of a source:  *)
(* it may hang forever.                                                    *)
(***************************************************************************)
Fairness ==
  /\ WF_vars(Loop)
  /\ \A s \in Seats : WF_vars(Deadline(s)) /\ WF_vars(ProbeStarts(s))

FairSpec == Spec /\ Fairness
-----------------------------------------------------------------------------
(* Properties.                                                             *)

\* Ticks whose replies have been collected: the current one is among them
\* only after Collect.
LastCollected == IF pc \in {"gather", "yield", "collect"} THEN tick - 1 ELSE tick

\* A seat has a background probe only while it is dead, and the probe carries
\* an observation of the current dead spell: a reply asked for before the
\* seat's last revival can never revive it again (engine.py 221-229).
ProbeOfThisSpell ==
  \A s \in Seats : probe[s].st # "none" =>
    /\ Dead(s)
    /\ LastCollected - (strikes[s] - StrikeLimit) < probe[s].tick
    /\ probe[s].tick <= tick

\* A seat's get_actions never has two callers: the deadlined call of a live
\* seat and a revival probe never overlap, whatever order they end in.
SingleCaller ==
  \A s \in Seats :
    call[s] = "pending" => probe[s].st \notin {"new", "running"}

\* Every NOOP tick of a seat has exactly one cause, and every strike is one of
\* those ticks (noop_causes and noop_ticks of the results document agree).
NoopsAccounted ==
  \A s \in Seats :
    LET n == noopCauses[s] IN
    /\ n["timeout"] + n["malformed"] + n["disconnected"] + n["host_error"]
         = noopTicks[s]
    /\ strikes[s] <= noopTicks[s]

\* The strike rule's purpose: since its last valid action a seat has cost at
\* most StrikeLimit tick deadlines of wall clock, however long it stays dead.
DeadlineBudget == \A s \in Seats : waits[s] <= StrikeLimit

\* No tick polls a probe that never had a chance to run: even when every seat
\* is dead the loop gives the event loop a turn (engine.py 192-197).
ProbesGetTheLoop ==
  pc = "collect" => \A s \in Seats : probe[s].st # "new"

\* The replay holds the ticks 0, 1, 2, ... without a gap, and a result other
\* than a fault covers every tick the simulator ran, with its rewards.
ReplayCoversEpisode ==
  /\ \A i \in 1..Len(recorded) : recorded[i] = i - 1
  /\ Len(recorded) <= rewardTicks /\ rewardTicks <= ticksRun /\ ticksRun <= simTick
  /\ result.reason \in EndReasons \ {"sim_fault"} =>
       Len(recorded) = simTick /\ rewardTicks = simTick

\* The end reason tells the truth: a finished match is reported with its
\* winner even on the last tick, an unfinished one is a tick cap only when the
\* cap was reached, and a sim fault scores every seat a draw.
ResultFaithful ==
  pc = "done" /\ result.reason # "raised" =>
    /\ result.reason = "sim_fault" <=> simFault
    /\ result.reason = "ancient" => result.winner = simWinner /\ simWinner # Draw
    /\ result.reason \in {"tick_cap", "wall_clock"} => simWinner = Draw
    /\ result.reason = "tick_cap" => ticksRun = MaxTicks
    /\ result.reason = "sim_fault" => \A s \in Seats : Score(s) = "draw"

\* The engine implements the strike rule: Collect is the rule's tick and every
\* other step is invisible to it.
Rule == INSTANCE StrikeRule WITH silent <- strikes, noops <- noopTicks
ImplementsStrikeRule == Rule!Spec

\* However the sources behave, the episode ends with a result.
Termination == <>(pc = "done")

\* A valid reply to a probe revives its seat: once the probe has finished it
\* is harvested, never lost.
ValidProbeRevives ==
  \A s \in Seats :
    (probe[s].st = "done" /\ probe[s].out = "valid") ~> (strikes[s] = 0)
=============================================================================
