-------------------------- MODULE PlayerClientProofs --------------------------
(***************************************************************************)
(* Proofs about PlayerClient, for any budget, delays, limits and number of *)
(* ticks: the types, what a player that gives up has been through, and     *)
(* that it runs out of attempts.                                           *)
(***************************************************************************)
EXTENDS PlayerClient, Integers, TLAPS

\* The drop after progress that opens a streak of failures, if one did.
FirstDrop == IF "dropped" \in reasons THEN 1 ELSE 0

\* The counter of play_episode against the history: they agree unless the
\* connection of the moment has answered a tick, which resets the counter only
\* when the connection ends.
BudgetInv ==
  /\ cpc \notin FinalPcs => failures < MaxConnectAttempts
  /\ cpc = "gave_up" => failures = MaxConnectAttempts
  /\ (cpc \in {"connect", "sleep", "gave_up"} \/ (cpc \in {"play", "close"} /\ answered = 0)) =>
       failures = barren + FirstDrop
  /\ (cpc \in {"play", "close"} /\ answered = 1) => barren = 0 /\ reasons = {}

ClientInv == TypeOK /\ BudgetInv

-----------------------------------------------------------------------------
\* The initial state satisfies the invariant.
LEMMA ClientInit == Init => ClientInv
<1> SUFFICES ASSUME Init PROVE ClientInv
  OBVIOUS
<1>1. MaxConnectAttempts \in Nat \ {0} /\ ReconnectDelay \in Nat /\ MaxTicks \in Nat
  BY ClientAssumption DEF ClientAssumption
<1>2. ReapedAfter \in Nat
  BY ClientAssumption DEF ClientAssumption, ReapedAfter
<1>3. heardDone \in BOOLEAN /\ authorized \in BOOLEAN /\ over \in BOOLEAN /\ doneSent \in BOOLEAN
  BY Zenon DEF Init
<1>4. TypeOK
  BY <1>1, <1>2, <1>3 DEF Init, TypeOK
<1>5. BudgetInv
  BY <1>1 DEF Init, BudgetInv, FinalPcs, FirstDrop
<1> QED
  BY <1>4, <1>5 DEF ClientInv

\* What is left of a sum is no more than the sum.
LEMMA PartOfSum ==
  ASSUME NEW total \in Nat, NEW part \in Nat, NEW one \in {0, 1}, total = part + one
  PROVE  part <= total
OBVIOUS

\* One more failure keeps the invariant, whatever came before it: after progress
\* the counter starts at one, and so does the history.
LEMMA FailKeeps ==
  ASSUME ClientInv, NEW reason \in Reasons, Fail(reason), UNCHANGED <<answered, heardDone, serverVars>>,
         \/ cpc = "connect" /\ reason \in {"conflict", "unreachable"}
         \/ cpc = "close" /\ answered = 1 /\ reason = "dropped"
         \/ cpc = "close" /\ answered = 0 /\ reason = "dropped_idle"
  PROVE  ClientInv'
<1>1. MaxConnectAttempts \in Nat \ {0} /\ ReconnectDelay \in Nat \ {0}
  BY ClientAssumption DEF ClientAssumption
<1>2. /\ failures \in 0..MaxConnectAttempts /\ barren \in 0..MaxConnectAttempts
      /\ reasons \subseteq Reasons /\ failures < MaxConnectAttempts
  BY DEF ClientInv, TypeOK, BudgetInv, FinalPcs
<1>3. /\ failures' = FailuresBefore + 1
      /\ IF FailuresBefore + 1 >= MaxConnectAttempts
           THEN cpc' = "gave_up" /\ sleepLeft' = sleepLeft
           ELSE cpc' = "sleep" /\ sleepLeft' = ReconnectDelay
      /\ IF reason = "dropped"
           THEN barren' = 0 /\ reasons' = {reason}
           ELSE barren' = OneMore(barren) /\ reasons' = reasons \cup {reason}
  BY DEF Fail, Exhausted
<1>4. failures' = barren' + FirstDrop'
  <2>1. CASE reason = "dropped"
    BY <1>2, <1>3, <2>1 DEF FailuresBefore, FirstDrop
  <2>2. CASE reason # "dropped"
    <3>1. FailuresBefore = failures
      BY <2>2 DEF FailuresBefore
    <3>2. failures = barren + FirstDrop
      BY <2>2 DEF ClientInv, BudgetInv
    <3>3. FirstDrop' = FirstDrop
      BY <1>3, <2>2 DEF FirstDrop
    <3>4. barren' = barren + 1
      BY <1>1, <1>2, <1>3, <2>2 DEF OneMore
    <3> QED
      BY <1>2, <1>3, <3>1, <3>2, <3>3, <3>4 DEF FirstDrop
  <2> QED
    BY <2>1, <2>2
<1>5. failures' \in 1..MaxConnectAttempts /\ barren' \in 0..MaxConnectAttempts
  <2>1. failures' \in 1..MaxConnectAttempts
    BY <1>1, <1>2, <1>3 DEF FailuresBefore
  <2>2. barren' \in Nat
    BY <1>1, <1>2, <1>3 DEF OneMore
  <2>3. barren' <= failures'
    <3>1. failures' \in Nat /\ FirstDrop' \in {0, 1}
      BY <1>1, <2>1 DEF FirstDrop
    <3> QED
      BY ONLY <1>4, <2>2, <3>1, PartOfSum
  <2> QED
    BY <1>1, <2>1, <2>2, <2>3
<1>6. reasons' \subseteq Reasons
  BY <1>2, <1>3 DEF Reasons
<1>7. cpc' \in {"gave_up", "sleep"} /\ sleepLeft' \in 0..ReconnectDelay
  BY <1>1, <1>3 DEF ClientInv, TypeOK
<1>8. TypeOK'
  BY <1>5, <1>6, <1>7 DEF ClientInv, TypeOK, FinalPcs, serverVars, ReapedAfter
<1>9. BudgetInv'
  <2>1. cpc' = "gave_up" => failures' = MaxConnectAttempts
    BY <1>1, <1>2, <1>3, <1>5
  <2>2. cpc' # "gave_up" => failures' < MaxConnectAttempts
    BY <1>1, <1>2, <1>3, <1>5
  <2> QED
    BY <1>4, <1>7, <2>1, <2>2 DEF BudgetInv, FinalPcs
<1> QED
  BY <1>8, <1>9 DEF ClientInv

\* Every step of the client and its server keeps the invariant.
LEMMA ClientStep == ClientInv /\ [Next]_vars => ClientInv'
<1> SUFFICES ASSUME ClientInv, [Next]_vars PROVE ClientInv'
  OBVIOUS
<1>0. /\ MaxConnectAttempts \in Nat \ {0} /\ ReconnectDelay \in Nat \ {0} /\ MaxTicks \in Nat
      /\ ReapedAfter \in Nat
  BY ClientAssumption DEF ClientAssumption, ReapedAfter
<1> USE DEF FinalPcs, FirstDrop
<1>1. CASE Accepted
  <2>1. TypeOK'
    BY <1>1 DEF Accepted, ClientInv, TypeOK, historyVars, ReapedAfter
  <2>2. BudgetInv'
    BY <1>1 DEF Accepted, ClientInv, BudgetInv, historyVars
  <2> QED
    BY <2>1, <2>2 DEF ClientInv
<1>2. CASE Forbidden
  <2>1. TypeOK'
    BY <1>2 DEF Forbidden, ClientInv, TypeOK, historyVars, serverVars, ReapedAfter
  <2>2. BudgetInv'
    BY <1>2 DEF Forbidden, ClientInv, BudgetInv, historyVars
  <2> QED
    BY <2>1, <2>2 DEF ClientInv
<1>3. CASE Conflict
  BY <1>3, FailKeeps DEF Conflict, Reasons
<1>4. CASE Unreachable
  BY <1>4, FailKeeps DEF Unreachable, Reasons
<1>5. CASE Wakes
  <2>1. TypeOK'
    BY <1>5 DEF Wakes, ClientInv, TypeOK, historyVars, serverVars, ReapedAfter
  <2>2. BudgetInv'
    BY <1>5 DEF Wakes, ClientInv, BudgetInv, historyVars
  <2> QED
    BY <2>1, <2>2 DEF ClientInv
<1>6. CASE AnswersTick
  <2>1. serverTick' \in 0..MaxTicks
    BY <1>0, <1>6 DEF AnswersTick, ClientInv, TypeOK
  <2>2. TypeOK'
    BY <1>0, <1>6, <2>1 DEF AnswersTick, ClientInv, TypeOK, ReapedAfter
  <2>3. BudgetInv'
    BY <1>6 DEF AnswersTick, ClientInv, BudgetInv
  <2> QED
    BY <2>2, <2>3 DEF ClientInv
<1>7. CASE ReadsDone
  <2>1. TypeOK'
    BY <1>7 DEF ReadsDone, ClientInv, TypeOK, historyVars, ReapedAfter
  <2>2. BudgetInv'
    BY <1>7 DEF ReadsDone, ClientInv, BudgetInv, historyVars
  <2> QED
    BY <2>1, <2>2 DEF ClientInv
<1>8. CASE Breaks
  <2>1. TypeOK'
    BY <1>8 DEF Breaks, ClientInv, TypeOK, historyVars, ReapedAfter
  <2>2. BudgetInv'
    BY <1>8 DEF Breaks, ClientInv, BudgetInv, historyVars
  <2> QED
    BY <2>1, <2>2 DEF ClientInv
<1>9. CASE Drops
  <2>1. staleFor' \in 0..ReapedAfter'
    BY <1>0, <1>9 DEF Drops, ReapedAfter
  <2>2. TypeOK'
    BY <1>9, <2>1 DEF Drops, ClientInv, TypeOK, historyVars
  <2>3. BudgetInv'
    BY <1>9 DEF Drops, ClientInv, BudgetInv, historyVars
  <2> QED
    BY <2>2, <2>3 DEF ClientInv
<1>10. CASE Closes
  <2>1. CASE heardDone
    <3>1. TypeOK'
      BY <1>10, <2>1 DEF Closes, ClientInv, TypeOK, historyVars, serverVars, ReapedAfter
    <3>2. BudgetInv'
      BY <1>10, <2>1 DEF Closes, ClientInv, BudgetInv, historyVars
    <3> QED
      BY <3>1, <3>2 DEF ClientInv
  <2>2. CASE ~heardDone
    <3>1. answered \in {0, 1}
      BY DEF ClientInv, TypeOK
    <3> QED
      BY <1>10, <2>2, <3>1, FailKeeps DEF Closes, Reasons
  <2> QED
    BY <2>1, <2>2
<1>11. CASE EpisodeEnds
  <2>1. over' \in BOOLEAN /\ doneSent' \in BOOLEAN
    BY <1>11, Zenon DEF EpisodeEnds
  <2>2. TypeOK'
    BY <1>11, <2>1 DEF EpisodeEnds, ClientInv, TypeOK, clientVars, historyVars, ReapedAfter
  <2>3. BudgetInv'
    BY <1>11 DEF EpisodeEnds, ClientInv, BudgetInv, clientVars, historyVars
  <2> QED
    BY <2>2, <2>3 DEF ClientInv
<1>12. CASE Reaped
  <2>1. staleFor' \in 0..ReapedAfter'
    BY <1>0, <1>12 DEF Reaped, ReapedAfter
  <2>2. TypeOK'
    BY <1>12, <2>1 DEF Reaped, ClientInv, TypeOK, clientVars, historyVars
  <2>3. BudgetInv'
    BY <1>12 DEF Reaped, ClientInv, BudgetInv, clientVars, historyVars
  <2> QED
    BY <2>2, <2>3 DEF ClientInv
<1>13. CASE TimePasses
  <2>1. staleFor' \in 0..ReapedAfter'
    <3>1. ReapedAfter' = ReapedAfter /\ staleFor \in 0..ReapedAfter
      BY DEF ReapedAfter, ClientInv, TypeOK
    <3> QED
      BY <1>0, <1>13, <3>1 DEF TimePasses
  <2>2. sleepLeft' \in 0..ReconnectDelay
    BY <1>0, <1>13 DEF TimePasses, ClientInv, TypeOK
  <2>3. TypeOK'
    BY <1>13, <2>1, <2>2 DEF TimePasses, ClientInv, TypeOK, historyVars
  <2>4. BudgetInv'
    BY <1>13 DEF TimePasses, ClientInv, BudgetInv, historyVars
  <2> QED
    BY <2>3, <2>4 DEF ClientInv
<1>14. CASE UNCHANGED vars
  <2>1. TypeOK'
    BY <1>14 DEF vars, ClientInv, TypeOK, clientVars, historyVars, serverVars, ReapedAfter
  <2>2. BudgetInv'
    BY <1>14 DEF vars, ClientInv, BudgetInv, clientVars, historyVars
  <2> QED
    BY <2>1, <2>2 DEF ClientInv
<1> QED
  BY <1>1, <1>2, <1>3, <1>4, <1>5, <1>6, <1>7, <1>8, <1>9, <1>10, <1>11, <1>12, <1>13, <1>14
     DEF Next, Client

-----------------------------------------------------------------------------
\* Type correctness: the failure counter never passes the budget, a stale slot is
\* never older than the server allows.
THEOREM ClientTypeCorrect == Spec => []TypeOK
<1>1. ClientInv => TypeOK
  BY DEF ClientInv
<1> QED
  BY <1>1, ClientInit, ClientStep, PTL DEF Spec

\* A player that gives up made exactly MaxConnectAttempts attempts since it last
\* answered a tick, the drop that ended that connection included.
THEOREM BudgetIsExact == Spec => []GivesUpAfterBudget
<1>1. ClientInv => GivesUpAfterBudget
  <2> SUFFICES ASSUME ClientInv, cpc = "gave_up" PROVE barren + FirstDrop = MaxConnectAttempts
    BY DEF GivesUpAfterBudget, FirstDrop
  <2> QED
    BY DEF ClientInv, BudgetInv
<1> QED
  BY <1>1, ClientInit, ClientStep, PTL DEF Spec

-----------------------------------------------------------------------------
(* Progress, but for what the scheduler owes: in lexicographic order the   *)
(* server's ticks, the budget and the way to the next attempt run out.     *)

TicksLeft == MaxTicks - serverTick

\* A connection that has answered a tick has the whole budget after it.
TriesLeft ==
  MaxConnectAttempts - (IF cpc \in {"play", "close"} /\ answered = 1 THEN 0 ELSE failures)

StepsLeft ==
  CASE cpc = "sleep" -> 4 + sleepLeft
    [] cpc = "connect" -> 3
    [] cpc = "play" -> 2
    [] cpc = "close" -> 1
    [] OTHER -> 0

NearerTheEnd ==
  \/ TicksLeft' < TicksLeft
  \/ TicksLeft' = TicksLeft /\ TriesLeft' < TriesLeft
  \/ TicksLeft' = TicksLeft /\ TriesLeft' = TriesLeft /\ StepsLeft' < StepsLeft

ClientRunsDown ==
  [][NearerTheEnd \/ ((EpisodeEnds \/ Reaped) /\ UNCHANGED <<TicksLeft, TriesLeft, StepsLeft>>)]_vars

LeftBounded ==
  /\ TicksLeft \in 0..MaxTicks
  /\ TriesLeft \in 0..MaxConnectAttempts
  /\ StepsLeft \in 0..(ReconnectDelay + 4)
  /\ StepsLeft = 0 <=> Done

\* A failure uses up an attempt, and never more than there are.
LEMMA FailIsNearer ==
  ASSUME ClientInv, NEW reason, Fail(reason), cpc \in {"connect", "close"},
         UNCHANGED <<answered, serverVars>>
  PROVE  NearerTheEnd
<1>1. FailuresBefore = IF cpc \in {"play", "close"} /\ answered = 1 THEN 0 ELSE failures
  BY DEF FailuresBefore, ClientInv, TypeOK
<1>2. cpc' \in {"gave_up", "sleep"} /\ failures' = FailuresBefore + 1
  BY DEF Fail
<1>3. /\ TriesLeft = MaxConnectAttempts - FailuresBefore
      /\ TriesLeft' = MaxConnectAttempts - (FailuresBefore + 1)
  BY <1>1, <1>2 DEF TriesLeft
<1>4. FailuresBefore \in Nat /\ MaxConnectAttempts \in Nat
  BY <1>1, ClientAssumption DEF ClientInv, TypeOK
<1>5. TriesLeft' < TriesLeft
  BY <1>3, <1>4
<1>6. TicksLeft' = TicksLeft
  BY DEF TicksLeft, serverVars
<1> QED
  BY <1>5, <1>6 DEF NearerTheEnd

LEMMA ClientStepIsNearer ==
  ASSUME ClientInv, Next
  PROVE  NearerTheEnd \/ ((EpisodeEnds \/ Reaped) /\ UNCHANGED <<TicksLeft, TriesLeft, StepsLeft>>)
<1>0. /\ failures \in Nat /\ MaxConnectAttempts \in Nat /\ MaxTicks \in Nat /\ serverTick \in Nat
      /\ sleepLeft \in Nat /\ failures <= MaxConnectAttempts /\ answered \in {0, 1}
  BY ClientAssumption DEF ClientInv, TypeOK
<1>1. CASE Conflict \/ Unreachable
  BY <1>1, FailIsNearer DEF Conflict, Unreachable
<1>2. CASE Closes /\ ~heardDone
  BY <1>2, FailIsNearer DEF Closes
<1>3. CASE AnswersTick
  BY <1>0, <1>3 DEF AnswersTick, NearerTheEnd, TicksLeft
<1>4. CASE Accepted \/ Wakes \/ TimePasses
  <2>1. TicksLeft' = TicksLeft
    BY <1>4 DEF Accepted, Wakes, TimePasses, TicksLeft, serverVars
  <2>2. TriesLeft' = TriesLeft
    BY <1>4 DEF Accepted, Wakes, TimePasses, TriesLeft
  <2>3. StepsLeft' < StepsLeft
    BY <1>0, <1>4 DEF Accepted, Wakes, TimePasses, StepsLeft
  <2> QED
    BY <2>1, <2>2, <2>3 DEF NearerTheEnd
<1>5. CASE Forbidden \/ ReadsDone \/ Breaks \/ Drops \/ (Closes /\ heardDone)
  <2>1. TicksLeft' = TicksLeft
    BY <1>5 DEF Forbidden, ReadsDone, Breaks, Drops, Closes, TicksLeft, serverVars
  <2>2. TriesLeft' <= TriesLeft
    BY <1>0, <1>5 DEF Forbidden, ReadsDone, Breaks, Drops, Closes, TriesLeft
  <2>3. StepsLeft' < StepsLeft
    BY <1>5 DEF Forbidden, ReadsDone, Breaks, Drops, Closes, StepsLeft
  <2>4. TriesLeft \in Int /\ TriesLeft' \in Int
    BY <1>0, <1>5 DEF Forbidden, ReadsDone, Breaks, Drops, Closes, TriesLeft
  <2>5. TriesLeft' < TriesLeft \/ TriesLeft' = TriesLeft
    BY <2>2, <2>4
  <2> QED
    BY <2>1, <2>3, <2>5 DEF NearerTheEnd
<1>6. CASE EpisodeEnds \/ Reaped
  BY <1>6 DEF EpisodeEnds, Reaped, TicksLeft, TriesLeft, StepsLeft, clientVars
<1> QED
  BY <1>1, <1>2, <1>3, <1>4, <1>5, <1>6 DEF Next, Client

\* However the server drops, refuses or stalls it, every step of a player but the
\* server's own answers a tick, uses up an attempt or brings the next one nearer,
\* of which there are boundedly many; nothing is left exactly when it has ended.
THEOREM PlayersRunOut == Spec => ClientRunsDown /\ []LeftBounded
<1>1. ClientInv /\ [Next]_vars =>
        [NearerTheEnd \/ ((EpisodeEnds \/ Reaped) /\ UNCHANGED <<TicksLeft, TriesLeft, StepsLeft>>)]_vars
  BY ClientStepIsNearer
<1>2. ClientInv => LeftBounded
  <2> SUFFICES ASSUME ClientInv PROVE LeftBounded
    OBVIOUS
  <2>1. /\ failures \in 0..MaxConnectAttempts /\ serverTick \in 0..MaxTicks
        /\ sleepLeft \in 0..ReconnectDelay /\ ReconnectDelay \in Nat
        /\ MaxConnectAttempts \in Nat /\ MaxTicks \in Nat
    BY ClientAssumption DEF ClientInv, TypeOK
  <2>2. cpc \in {"connect", "play", "close", "sleep"} \cup FinalPcs
    BY DEF ClientInv, TypeOK
  <2>3. TicksLeft \in 0..MaxTicks /\ TriesLeft \in 0..MaxConnectAttempts
    BY <2>1 DEF TicksLeft, TriesLeft
  <2>4. StepsLeft \in 0..(ReconnectDelay + 4) /\ (StepsLeft = 0 <=> Done)
    BY <2>1, <2>2 DEF StepsLeft, Done, FinalPcs
  <2> QED
    BY <2>3, <2>4 DEF LeftBounded
<1> QED
  BY <1>1, <1>2, ClientInit, ClientStep, PTL DEF Spec, ClientRunsDown
=============================================================================
