---------------------------- MODULE PlayerClient -----------------------------
(***************************************************************************)
(* players/client.py: play_episode and _play_connection of one player,     *)
(* against what the server's seat shows of itself: it accepts, rejects     *)
(* with 403 or 409, sends ticks and the done message, and drops.           *)
(*                                                                         *)
(* A drop the server does not notice leaves the slot occupied by the old   *)
(* connection.  It is reaped after StrikeLimit missed tick deadlines or by *)
(* the heartbeat, whichever is first.  Time is counted in units of the     *)
(* cfg's choosing; handshakes take none.                                   *)
(***************************************************************************)
EXTENDS Naturals

CONSTANTS MaxConnectAttempts,   \* max_connect_attempts
          ReconnectDelay,       \* reconnect_delay_seconds, in time units
          TickDeadline,         \* the server's tick deadline, in time units
          StrikeLimit,          \* the server's STRIKE_LIMIT
          Heartbeat,            \* how long the websocket's heartbeat takes to notice a dead
                                \* peer: its interval and the wait for the pong
          MaxTicks              \* ticks the server plays

ASSUME ClientAssumption ==
  /\ MaxConnectAttempts \in Nat \ {0}
  /\ ReconnectDelay \in Nat \ {0}
  /\ TickDeadline \in Nat \ {0} /\ StrikeLimit \in Nat \ {0} /\ Heartbeat \in Nat \ {0}
  /\ MaxTicks \in Nat

VARIABLES
  cpc,             \* where play_episode is
  failures,        \* consecutive failed attempts
  answered,        \* ticks answered on this connection (0: none, 1: some)
  sleepLeft,       \* rest of the reconnect delay
  heardDone,       \* the done message was read
  authorized,      \* whether slot and token are good
  serverTick,      \* the tick the server sends next
  over,            \* the episode is over at the server
  doneSent,        \* the done broadcast reached this connection
  slot,            \* the server's side of the seat
  staleFor,        \* time since the slot became stale
  barren,          \* attempts that answered nothing since the last answered tick
  reasons          \* why attempts failed since the last answered tick

clientVars == <<cpc, failures, answered, sleepLeft, heardDone>>
serverVars == <<authorized, serverTick, over, doneSent, slot, staleFor>>
historyVars == <<barren, reasons>>
vars == <<clientVars, serverVars, historyVars>>

FinalPcs == {"returned", "gave_up", "rejected", "broken"}
Reasons == {"conflict", "unreachable", "dropped_idle", "dropped"}

\* At the latest a stale connection is closed this long after it became stale.
ReapedAfter == IF StrikeLimit * TickDeadline < Heartbeat
                 THEN StrikeLimit * TickDeadline ELSE Heartbeat

TypeOK ==
  /\ cpc \in {"connect", "play", "close", "sleep"} \cup FinalPcs
  /\ failures \in 0..MaxConnectAttempts
  /\ answered \in {0, 1}
  /\ sleepLeft \in 0..ReconnectDelay
  /\ heardDone \in BOOLEAN /\ authorized \in BOOLEAN /\ over \in BOOLEAN
  /\ doneSent \in BOOLEAN
  /\ serverTick \in 0..MaxTicks
  /\ slot \in {"free", "ours", "stale"}
  /\ staleFor \in 0..ReapedAfter
  /\ barren \in 0..MaxConnectAttempts
  /\ reasons \subseteq Reasons

Init ==
  /\ cpc = "connect"
  /\ failures = 0 /\ answered = 0 /\ sleepLeft = 0 /\ heardDone = FALSE
  /\ authorized \in BOOLEAN
  /\ serverTick = 0 /\ over = FALSE /\ doneSent = FALSE
  /\ slot = "free" /\ staleFor = 0
  /\ barren = 0 /\ reasons = {}

-----------------------------------------------------------------------------
(* play_episode: connecting.                                               *)

Exhausted(n) == n >= MaxConnectAttempts

\* Mutant: progress does not give a fresh budget.
FailuresBefore_NoReset == failures

\* Mutant: any accepted connection gives a fresh budget.
FailuresBefore_AlwaysReset == IF cpc = "close" THEN 0 ELSE failures

\* A connection that answered a tick gives a fresh budget.
FailuresBefore == IF cpc = "close" /\ answered > 0 THEN 0 ELSE failures

\* The history counts no further than one past the budget.
OneMore(n) == IF n > MaxConnectAttempts THEN n ELSE n + 1

\* _fail: one more consecutive failure; raise, or sleep and try again.
Fail(reason) ==
  /\ failures' = FailuresBefore + 1
  /\ IF Exhausted(FailuresBefore + 1)
       THEN cpc' = "gave_up" /\ UNCHANGED sleepLeft
       ELSE cpc' = "sleep" /\ sleepLeft' = ReconnectDelay
  /\ IF reason = "dropped"
       THEN barren' = 0 /\ reasons' = {reason}
       ELSE barren' = OneMore(barren) /\ reasons' = reasons \cup {reason}

\* The slot is free: the websocket is established.
Accepted ==
  /\ cpc = "connect" /\ authorized /\ slot = "free"
  /\ cpc' = "play" /\ answered' = 0
  /\ slot' = "ours" /\ doneSent' = FALSE
  /\ UNCHANGED <<failures, sleepLeft, heardDone, authorized, serverTick, over,
                 staleFor, historyVars>>

\* 403: never retried.
Forbidden ==
  /\ cpc = "connect" /\ ~authorized
  /\ cpc' = "rejected"
  /\ UNCHANGED <<failures, answered, sleepLeft, heardDone, serverVars, historyVars>>

\* 409: our own previous connection still holds the slot; retried.
Conflict ==
  /\ cpc = "connect" /\ authorized /\ slot = "stale"
  /\ Fail("conflict")
  /\ UNCHANGED <<answered, heardDone, serverVars>>

\* The connect times out or is refused, as it is once the server has exited.
Unreachable ==
  /\ cpc = "connect"
  /\ Fail("unreachable")
  /\ UNCHANGED <<answered, heardDone, serverVars>>

\* The delay has passed.
Wakes ==
  /\ cpc = "sleep" /\ sleepLeft = 0
  /\ cpc' = "connect"
  /\ UNCHANGED <<failures, answered, sleepLeft, heardDone, serverVars, historyVars>>

-----------------------------------------------------------------------------
(* _play_connection.                                                       *)

\* A tick message is answered.  An answer not followed by a drop clears the
\* history of failures.
AnswersTick ==
  /\ cpc = "play" /\ slot = "ours" /\ ~over /\ serverTick < MaxTicks
  /\ serverTick' = serverTick + 1
  /\ answered' = 1
  /\ barren' = 0 /\ reasons' = {}
  /\ UNCHANGED <<cpc, failures, sleepLeft, heardDone, authorized, over, doneSent, slot, staleFor>>

\* The done message is read; the server closes the socket after sending it.
ReadsDone ==
  /\ cpc = "play" /\ slot = "ours" /\ doneSent
  /\ heardDone' = TRUE
  /\ cpc' = "close"
  /\ slot' = "free"
  /\ UNCHANGED <<failures, answered, sleepLeft, authorized, serverTick, over, doneSent,
                 staleFor, historyVars>>

\* An undecodable observation, or a policy with a wrong number of rows.
Breaks ==
  /\ cpc = "play" /\ slot = "ours" /\ ~over
  /\ cpc' = "broken"
  /\ slot' = "free"
  /\ UNCHANGED <<failures, answered, sleepLeft, heardDone, authorized, serverTick,
                 over, doneSent, staleFor, historyVars>>

\* The connection drops, with or without the server noticing.
Drops ==
  /\ cpc = "play" /\ slot = "ours"
  /\ cpc' = "close"
  /\ slot' \in {"free", "stale"} /\ staleFor' = 0
  /\ UNCHANGED <<failures, answered, sleepLeft, heardDone, authorized, serverTick,
                 over, doneSent, historyVars>>

\* The finally closes the socket, whatever becomes of the close: a result is
\* returned, a drop without one is a failure even after progress.
Closes ==
  /\ cpc = "close"
  /\ IF heardDone
       THEN cpc' = "returned" /\ UNCHANGED <<failures, sleepLeft, historyVars>>
       ELSE Fail(IF answered > 0 THEN "dropped" ELSE "dropped_idle")
  /\ UNCHANGED <<answered, heardDone, serverVars>>

-----------------------------------------------------------------------------
(* The server and time.                                                    *)

\* The episode ends; the done broadcast goes to the connection of the moment.
EpisodeEnds ==
  /\ ~over
  /\ over' = TRUE /\ doneSent' = (slot = "ours")
  /\ UNCHANGED <<clientVars, authorized, serverTick, slot, staleFor, historyVars>>

\* The stale connection is closed by a strike death, the heartbeat, or earlier.
Reaped ==
  /\ slot = "stale"
  /\ slot' = "free" /\ staleFor' = 0
  /\ UNCHANGED <<clientVars, authorized, serverTick, over, doneSent, historyVars>>

\* One unit of time: neither the client's sleep nor a stale slot overstays.
TimePasses ==
  /\ cpc = "sleep" /\ sleepLeft > 0
  /\ slot = "stale" => staleFor < ReapedAfter
  /\ sleepLeft' = sleepLeft - 1
  /\ staleFor' = IF slot = "stale" THEN staleFor + 1 ELSE staleFor
  /\ UNCHANGED <<cpc, failures, answered, heardDone, authorized, serverTick, over, doneSent,
                 slot, historyVars>>

Client == Accepted \/ Forbidden \/ Conflict \/ Unreachable \/ Wakes
          \/ AnswersTick \/ ReadsDone \/ Breaks \/ Drops \/ Closes

Next == Client \/ EpisodeEnds \/ Reaped \/ TimePasses

Spec == Init /\ [][Next]_vars

\* The client runs, time passes, and the server's episode ends by itself.
FairSpec ==
  /\ Spec
  /\ WF_vars(Client) /\ WF_vars(TimePasses) /\ WF_vars(Reaped) /\ WF_vars(EpisodeEnds)

-----------------------------------------------------------------------------
(* Properties.                                                             *)

Done == cpc \in FinalPcs

\* A player gives up after MaxConnectAttempts attempts of which at most the
\* first, a drop after progress, answered anything.
GivesUpAfterBudget ==
  cpc = "gave_up" => barren + (IF "dropped" \in reasons THEN 1 ELSE 0) = MaxConnectAttempts

\* "the stale connection clears" (client.py 26-28): a player whose only trouble
\* after a drop is its own stale connection gets back in before it gives up.
StaleConnectionClears == cpc = "gave_up" => reasons # {"dropped", "conflict"}

\* The player ends: a bounded budget against a server that keeps dropping it.
PlayerEnds == <>Done
=============================================================================
