----------------------------- MODULE StrikeRule -----------------------------
(***************************************************************************)
(* What the lockstep engine promises about a seat, with no probes, no      *)
(* event loop and no simulator: the strike rule of engine.py's module      *)
(* docstring.  A tick is one atomic step in which some seats deliver a     *)
(* valid action.  Only a live seat may be waited for; a seat that stays    *)
(* silent for StrikeLimit ticks is dead and is announced as dead exactly   *)
(* once, until a valid action revives it.                                  *)
(***************************************************************************)
EXTENDS Naturals

CONSTANTS Seats,        \* the player seats
          StrikeLimit   \* silent ticks after which a seat is dead, at least 1

VARIABLES silent,       \* silent[s]: ticks since seat s last played a valid action
          noops,        \* noops[s]: ticks seat s has played the NOOP fallback
          waits,        \* waits[s]: deadlines waited out for s since that action
          announced     \* announced[s]: times s was announced dead since then

vars == <<silent, noops, waits, announced>>

TypeOK ==
  /\ silent \in [Seats -> Nat]
  /\ noops \in [Seats -> Nat]
  /\ waits \in [Seats -> Nat]
  /\ announced \in [Seats -> 0..1]

Init ==
  /\ silent = [s \in Seats |-> 0]
  /\ noops = [s \in Seats |-> 0]
  /\ waits = [s \in Seats |-> 0]
  /\ announced = [s \in Seats |-> 0]

Live == {s \in Seats : silent[s] < StrikeLimit}

(***************************************************************************)
(* One tick: the seats in valid deliver an action, the live seats in late  *)
(* run into the tick deadline, everyone else is silent at no cost.         *)
(***************************************************************************)
Tick(valid, late) ==
  /\ late \subseteq Live \ valid
  /\ silent' = [s \in Seats |-> IF s \in valid THEN 0 ELSE silent[s] + 1]
  /\ noops' = [s \in Seats |-> IF s \in valid THEN noops[s] ELSE noops[s] + 1]
  /\ waits' = [s \in Seats |->
                 IF s \in valid THEN 0
                 ELSE IF s \in late THEN waits[s] + 1 ELSE waits[s]]
  /\ announced' = [s \in Seats |->
                     IF s \in valid THEN 0
                     ELSE IF silent'[s] >= StrikeLimit THEN 1 ELSE 0]

Next == \E valid, late \in SUBSET Seats : Tick(valid, late)

Spec == Init /\ [][Next]_vars
=============================================================================
