-------------------------------- MODULE Board --------------------------------
(***************************************************************************)
(* What the simulator core promises about the match's map, with no grid,   *)
(* no pids and no order of turns: the pieces of a board game.  A square    *)
(* has at most one piece; one piece at a time moves, falls or comes back;  *)
(* heroes never stay down, whoever comes back does so at home, and a       *)
(* building neither moves nor ever stands again.                           *)
(***************************************************************************)
CONSTANTS Heroes, Troops, Buildings,   \* the pieces
          Squares,
          Off,         \* not on the board
          Home         \* Home[e]: where a hero or a troop comes back

Pieces == Heroes \cup Troops \cup Buildings

VARIABLES place, alive

vars == <<place, alive>>

Vacant(p, e) == p = Off \/ \A f \in Pieces \ {e} : place[f] # p

Init ==
  /\ place \in [Pieces -> Squares \cup {Off}]
  /\ alive = [e \in Pieces |-> e \in Heroes \cup Buildings]
  /\ \A e \in Pieces : /\ place[e] # Off <=> alive[e]
                       /\ Vacant(place[e], e)

Move(e) ==
  /\ e \in Heroes \cup Troops /\ alive[e]
  /\ \E p \in Squares : Vacant(p, e) /\ place' = [place EXCEPT ![e] = p]
  /\ UNCHANGED alive

Fall(e) ==
  /\ e \in Troops \cup Buildings /\ alive[e]
  /\ place' = [place EXCEPT ![e] = Off]
  /\ alive' = [alive EXCEPT ![e] = FALSE]

\* A hero that falls, or a slot taken for a new troop, comes back at once; one for
\* whom no square of its home is found lives off the board.
Return(e) ==
  /\ e \in Heroes \cup Troops
  /\ \E p \in Home[e] \cup {Off} : Vacant(p, e) /\ place' = [place EXCEPT ![e] = p]
  /\ alive' = [alive EXCEPT ![e] = TRUE]

Next == \E e \in Pieces : Move(e) \/ Fall(e) \/ Return(e)

Spec == Init /\ [][Next]_vars
=============================================================================
