----------------------------- MODULE Publication -----------------------------
(***************************************************************************)
(* What GameServer.run_episode promises the platform, with no connections, *)
(* no broadcast and no retries: an episode has one outcome, decided once;  *)
(* an artifact, once stored, holds that outcome; and the process reports   *)
(* success only when every artifact it was asked for is stored.            *)
(***************************************************************************)
EXTENDS Naturals

CONSTANTS Artifacts,   \* the artifacts the platform asked for
          Outcomes,    \* what an episode can come to
          NoOutcome    \* not yet decided, or not stored

VARIABLES outcome, stored, status

vars == <<outcome, stored, status>>

Init ==
  /\ outcome = NoOutcome
  /\ stored = [a \in Artifacts |-> NoOutcome]
  /\ status = "running"

Decide ==
  /\ outcome = NoOutcome
  /\ outcome' \in Outcomes
  /\ UNCHANGED <<stored, status>>

Store(a) ==
  /\ status = "running" /\ outcome # NoOutcome
  /\ stored' = [stored EXCEPT ![a] = outcome]
  /\ UNCHANGED <<outcome, status>>

Succeed ==
  /\ status = "running" /\ outcome # NoOutcome
  /\ \A a \in Artifacts : stored[a] = outcome
  /\ status' = "ok"
  /\ UNCHANGED <<outcome, stored>>

Fail ==
  /\ status = "running"
  /\ status' = "error"
  /\ UNCHANGED <<outcome, stored>>

Next == Decide \/ Succeed \/ Fail \/ \E a \in Artifacts : Store(a)

Spec == Init /\ [][Next]_vars
=============================================================================
