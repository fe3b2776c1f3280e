---------------------------- MODULE PlayerSeats -----------------------------
(***************************************************************************)
(* The websocket transport of server/cogame_moba/server.py composed with   *)
(* the lockstep engine: WsSeat is the engine's action source, /player      *)
(* handlers accept and lose connections, and on_seat_dead force-closes the *)
(* connection of a seat that dies.                                         *)
(*                                                                         *)
(* A connection is one websocket.  It may be closed on the server side     *)
(* (peer close, heartbeat, force-close) before its handler has run its     *)
(* finally block; other coroutines run in between.  Coroutines other than  *)
(* the engine run only while the engine is suspended.                      *)
(***************************************************************************)
EXTENDS LockstepEngine

CONSTANTS Conns,        \* the connections players attempt, one websocket each
          SlotOf,       \* SlotOf[c]: the seat whose slot and token c presents
          NoConn,       \* seat.ws is None
          Kinds         \* what a reply with the right tick may carry

\* A reply without "actions" resolves the waiter with None.
ASSUME SeatsAssumption ==
  /\ SlotOf \in [Conns -> Seats]
  /\ NoConn \notin Conns
  /\ Kinds \subseteq {"valid", "malformed", "none"}
  /\ Outcomes = Kinds \cup {"none"}

VARIABLES
  started,       \* run_episode's connect wait is over
  allConnected,  \* the _all_connected event
  everConnected, \* ever_connected of each seat
  ws,            \* seat.ws
  frame,         \* the seat's get_actions coroutine, its waiter included
  conn,          \* what has become of each connection's handler
  closed,        \* ws.closed
  condemned,     \* connections on_seat_dead has scheduled to be closed
  fresh,         \* connections accepted in their seat's current dead spell
  unread,        \* unread[c]: ticks sent to c's client and not answered
  replies,       \* replies[c]: the client's messages in flight, in order
  wrongTick      \* wrong_tick_count of each seat

wire == <<unread, replies>>
connVars == <<ws, conn, closed, everConnected, allConnected>>
seatsVars == <<started, connVars, frame, condemned, fresh, wire, wrongTick>>
allVars == <<vars, seatsVars>>

NoFrame == [owner |-> "none", stage |-> "none", conn |-> NoConn, tick |-> 0,
            fut |-> "unset"]

SeatsTypeOK ==
  /\ TypeOK
  /\ started \in BOOLEAN /\ allConnected \in BOOLEAN
  /\ everConnected \in [Seats -> BOOLEAN]
  /\ ws \in [Seats -> Conns \cup {NoConn}]
  /\ frame \in [Seats -> [owner : {"none", "live", "probe"},
                          stage : {"none", "absent", "sending", "waiting"},
                          conn : Conns \cup {NoConn}, tick : Nat,
                          fut : {"unset"} \cup Outcomes]]
  /\ conn \in [Conns -> {"idle", "preparing", "serving", "gone"}]
  /\ closed \in [Conns -> BOOLEAN]
  /\ condemned \subseteq Conns /\ fresh \subseteq Conns
  /\ unread \in [Conns -> SUBSET Nat]
  /\ replies \in [Conns -> Seq([tick : Nat, kind : Kinds])]
  /\ wrongTick \in [Seats -> Nat]

SeatsInit ==
  /\ Init
  /\ started = FALSE /\ allConnected = FALSE
  /\ everConnected = [s \in Seats |-> FALSE]
  /\ ws = [s \in Seats |-> NoConn]
  /\ frame = [s \in Seats |-> NoFrame]
  /\ conn = [c \in Conns |-> "idle"]
  /\ closed = [c \in Conns |-> FALSE]
  /\ condemned = {} /\ fresh = {}
  /\ unread = [c \in Conns |-> {}]
  /\ replies = [c \in Conns |-> <<>>]
  /\ wrongTick = [s \in Seats |-> 0]

Connected(s) == ws[s] # NoConn /\ ~closed[ws[s]]
HasWaiter(s) == frame[s].stage \in {"sending", "waiting"}

\* The coroutines of the web server run before the episode, after it, and
\* whenever the engine is suspended.
OthersRun == ~started \/ EventLoopRuns \/ pc \in {"cleanup", "done"}

-----------------------------------------------------------------------------
(* /player: _handle_player.                                                *)

\* A taken slot is refused with 409 and the connection never exists.
Knock(c) ==
  /\ OthersRun /\ conn[c] = "idle" /\ ~Connected(SlotOf[c])
  /\ conn' = [conn EXCEPT ![c] = "preparing"]
  /\ UNCHANGED <<vars, started, ws, closed, everConnected, allConnected, frame,
                 condemned, fresh, wire, wrongTick>>

\* Mutant: the slot is not checked again after the websocket handshake.
Accept_NoRecheck(c) ==
  LET s == SlotOf[c] IN
  /\ OthersRun /\ conn[c] = "preparing"
  /\ conn' = [conn EXCEPT ![c] = "serving"]
  /\ ws' = [ws EXCEPT ![s] = c]
  /\ everConnected' = [everConnected EXCEPT ![s] = TRUE]
  /\ allConnected' = (allConnected \/ \A r \in Seats \ {s} : Connected(r))
  /\ fresh' = IF Dead(s) THEN fresh \cup {c} ELSE fresh
  /\ UNCHANGED <<vars, started, closed, frame, condemned, wire, wrongTick>>

\* The slot is checked again: another connection may have won it meanwhile.
Accept(c) ==
  LET s == SlotOf[c] IN
  /\ OthersRun /\ conn[c] = "preparing" /\ ~Connected(s)
  /\ conn' = [conn EXCEPT ![c] = "serving"]
  /\ ws' = [ws EXCEPT ![s] = c]
  /\ everConnected' = [everConnected EXCEPT ![s] = TRUE]
  /\ allConnected' = (allConnected \/ \A r \in Seats \ {s} : Connected(r))
  /\ fresh' = IF Dead(s) THEN fresh \cup {c} ELSE fresh
  /\ UNCHANGED <<vars, started, closed, frame, condemned, wire, wrongTick>>

\* The loser of the slot is closed at once; a handshake may also fail.
Reject(c) ==
  /\ OthersRun /\ conn[c] = "preparing"
  /\ conn' = [conn EXCEPT ![c] = "gone"]
  /\ closed' = [closed EXCEPT ![c] = TRUE]
  /\ UNCHANGED <<vars, started, ws, everConnected, allConnected, frame,
                 condemned, fresh, wire, wrongTick>>

\* WsSeat.deliver, for the oldest message of an open connection.
Deliver(c) ==
  LET s == SlotOf[c]  m == Head(replies[c]) IN
  /\ OthersRun /\ conn[c] = "serving" /\ ~closed[c] /\ replies[c] # <<>>
  /\ replies' = [replies EXCEPT ![c] = Tail(@)]
  /\ frame' = IF HasWaiter(s) /\ m.tick = frame[s].tick /\ frame[s].fut = "unset"
              THEN [frame EXCEPT ![s].fut = m.kind] ELSE frame
  /\ wrongTick' = IF HasWaiter(s) /\ m.tick # frame[s].tick
                  THEN [wrongTick EXCEPT ![s] = @ + 1] ELSE wrongTick
  /\ UNCHANGED <<vars, started, connVars, condemned, fresh, unread>>

\* Peer close, heartbeat timeout or a transport error: ws.closed turns true.
ConnectionCloses(c) ==
  /\ OthersRun /\ conn[c] = "serving" /\ ~closed[c]
  /\ closed' = [closed EXCEPT ![c] = TRUE]
  /\ UNCHANGED <<vars, started, ws, conn, everConnected, allConnected, frame,
                 condemned, fresh, wire, wrongTick>>

\* Mutant: the finally block clears seat.ws whoever holds it.
HandlerEnds_ClearsAnyone(c) ==
  LET s == SlotOf[c] IN
  /\ OthersRun /\ conn[c] = "serving" /\ closed[c]
  /\ conn' = [conn EXCEPT ![c] = "gone"]
  /\ ws' = [ws EXCEPT ![s] = NoConn]
  /\ frame' = IF HasWaiter(s) /\ frame[s].fut = "unset"
              THEN [frame EXCEPT ![s].fut = "none"] ELSE frame
  /\ UNCHANGED <<vars, started, closed, everConnected, allConnected, condemned,
                 fresh, wire, wrongTick>>

\* The handler's finally block, with fail_waiter; a handler whose seat has
\* been taken over leaves everything alone.
HandlerEnds(c) ==
  LET s == SlotOf[c] IN
  /\ OthersRun /\ conn[c] = "serving" /\ closed[c]
  /\ conn' = [conn EXCEPT ![c] = "gone"]
  /\ ws' = IF ws[s] = c THEN [ws EXCEPT ![s] = NoConn] ELSE ws
  /\ frame' = IF ws[s] = c /\ HasWaiter(s) /\ frame[s].fut = "unset"
              THEN [frame EXCEPT ![s].fut = "none"] ELSE frame
  /\ UNCHANGED <<vars, started, closed, everConnected, allConnected, condemned,
                 fresh, wire, wrongTick>>

\* The close task of on_seat_dead.
CloseStale(c) ==
  /\ OthersRun /\ c \in condemned /\ ~closed[c]
  /\ closed' = [closed EXCEPT ![c] = TRUE]
  /\ UNCHANGED <<vars, started, ws, conn, everConnected, allConnected, frame,
                 condemned, fresh, wire, wrongTick>>

-----------------------------------------------------------------------------
(* The player at the other end of c answers observations late, out of      *)
(* order, or never, and answers each at most once.                         *)

ClientReplies(c) ==
  /\ OthersRun
  /\ \E t \in unread[c], k \in Kinds :
       /\ unread' = [unread EXCEPT ![c] = @ \ {t}]
       /\ replies' = [replies EXCEPT ![c] = Append(@, [tick |-> t, kind |-> k])]
  /\ UNCHANGED <<vars, started, connVars, frame, condemned, fresh, wrongTick>>

-----------------------------------------------------------------------------
(* WsSeat.get_actions, as the engine's live call or as its probe.          *)

NewFrame(s, owner, t) ==
  [owner |-> owner, stage |-> IF Connected(s) THEN "sending" ELSE "absent",
   conn |-> ws[s], tick |-> t, fut |-> "unset"]

LiveEnters(s) ==
  /\ pc = "gather" /\ call[s] = "pending" /\ frame[s].owner = "none"
  /\ frame' = [frame EXCEPT ![s] = NewFrame(s, "live", tick)]
  /\ UNCHANGED <<vars, started, connVars, condemned, fresh, wire, wrongTick>>

ProbeEnters(s) ==
  /\ ProbeStarts(s)
  /\ frame' = [frame EXCEPT ![s] = NewFrame(s, "probe", probe[s].tick)]
  /\ UNCHANGED <<started, connVars, condemned, fresh, wire, wrongTick>>

\* send_str returns; on a half-open connection it may never do so.
Sent(s) ==
  LET c == frame[s].conn IN
  /\ OthersRun /\ frame[s].stage = "sending"
  /\ frame' = [frame EXCEPT ![s].stage = "waiting"]
  /\ unread' = [unread EXCEPT ![c] = @ \cup {frame[s].tick}]
  /\ UNCHANGED <<vars, started, connVars, condemned, fresh, replies, wrongTick>>

\* get_actions returns o to whoever called it.
Returns(s, o) ==
  /\ \/ frame[s].owner = "live" /\ Replied(s, o)
     \/ /\ frame[s].owner = "probe" /\ EventLoopRuns
        /\ probe' = [probe EXCEPT ![s].st = "done", ![s].out = o]
        /\ UNCHANGED <<pc, simVars, tick, seatVars, call, episodeVars, result>>
  /\ frame' = [frame EXCEPT ![s] = NoFrame]
  /\ UNCHANGED <<started, connVars, condemned, fresh, wire, wrongTick>>

\* No connection, a send that raises on a closed one, or a resolved waiter.
ReturnsAbsent(s) == frame[s].stage = "absent" /\ Returns(s, "none")
SendFails(s) ==
  frame[s].stage = "sending" /\ closed[frame[s].conn] /\ Returns(s, "none")
ReturnsReply(s) ==
  /\ frame[s].stage = "waiting" /\ frame[s].fut # "unset"
  /\ Returns(s, frame[s].fut)

\* Mutant: the timed-out get_actions keeps its waiter.
TimesOut_KeepsWaiter(s) ==
  /\ frame[s].owner = "live" /\ HasWaiter(s) /\ Deadline(s)
  /\ UNCHANGED seatsVars

\* The deadline cancels get_actions, whose finally drops the waiter.
TimesOut(s) ==
  /\ frame[s].owner = "live" /\ HasWaiter(s) /\ Deadline(s)
  /\ frame' = [frame EXCEPT ![s] = NoFrame]
  /\ UNCHANGED <<started, connVars, condemned, fresh, wire, wrongTick>>

-----------------------------------------------------------------------------
(* The engine's own steps.                                                 *)

\* run_episode's wait for the players, with its timeout.
StartEpisode ==
  /\ ~started
  /\ started' = TRUE
  /\ UNCHANGED <<vars, connVars, frame, condemned, fresh, wire, wrongTick>>

EngineSteps ==
  /\ started
  /\ \/ MatchOver \/ TickCapReached \/ WallClockExpires \/ SimRaisesAtTop
     \/ StartTick \/ Step \/ StepRaises \/ Rewards \/ RewardsRaise \/ Record
     \/ BuildFaultResult \/ BuildAncientResult \/ BuildTiebreakResult \/ BuildRaises
  /\ UNCHANGED seatsVars

\* Mutant: the first reply resumes the engine.
Resume_FirstReply ==
  /\ started /\ EventLoopRuns /\ \E s \in Seats : call[s] # "pending"
  /\ pc' = "collect"
  /\ UNCHANGED <<simVars, tick, seatVars, call, probe, episodeVars, result, seatsVars>>

\* Tasks created before the gather, close tasks among them, have started.
Resume ==
  /\ started /\ GatherReturns
  /\ \A c \in condemned : closed[c]
  /\ UNCHANGED seatsVars

\* Mutant: the hook that closes a dead seat's connection is not installed.
Doomed_NoHook == {s \in Seats : FALSE}

\* Mutant: the hook closes whatever seat.ws holds, None included.
Doomed_Unchecked == {s \in Seats : AnnouncedAfter(s) > announced[s]}

\* The seats this tick kills while their connection is open (_on_seat_dead).
Doomed == {s \in Seats : AnnouncedAfter(s) > announced[s] /\ Connected(s)}

CollectAndClose ==
  /\ started /\ Collect
  /\ condemned' = condemned \cup {ws[s] : s \in Doomed}
  /\ fresh' = {c \in fresh : AnnouncedAfter(SlotOf[c]) = announced[SlotOf[c]]}
  /\ UNCHANGED <<started, connVars, frame, wire, wrongTick>>

\* Cancelling the probes cancels their get_actions.
CleanupProbes ==
  /\ started /\ Cleanup
  /\ frame' = [s \in Seats |-> NoFrame]
  /\ UNCHANGED <<started, connVars, condemned, fresh, wire, wrongTick>>

-----------------------------------------------------------------------------
Transport(c) ==
  \/ Knock(c) \/ Accept(c) \/ Reject(c) \/ Deliver(c) \/ ConnectionCloses(c)
  \/ HandlerEnds(c) \/ CloseStale(c) \/ ClientReplies(c)

Source(s) ==
  \/ LiveEnters(s) \/ ProbeEnters(s) \/ Sent(s) \/ ReturnsAbsent(s)
  \/ SendFails(s) \/ ReturnsReply(s) \/ TimesOut(s)

Engine == StartEpisode \/ EngineSteps \/ Resume \/ CollectAndClose \/ CleanupProbes

SeatsNext ==
  \/ Engine
  \/ \E c \in Conns : Transport(c)
  \/ \E s \in Seats : Source(s)

SeatsSpec == SeatsInit /\ [][SeatsNext]_allVars

-----------------------------------------------------------------------------
(* Properties.                                                             *)

\* A connection that is open on the server side is the one its seat uses: an
\* older handler that ends late never disconnects its successor, and two open
\* connections never feed one seat.
OpenConnectionIsSeats ==
  \A c \in Conns : conn[c] = "serving" /\ ~closed[c] => ws[SlotOf[c]] = c

\* The waiter is never clobbered or leaked: the seat's get_actions is the one
\* the engine is waiting for, for the same tick.
WaiterIsTheCallers ==
  \A s \in Seats :
    /\ frame[s].owner = "live" => call[s] = "pending" /\ frame[s].tick = tick
    /\ frame[s].owner = "probe" <=> probe[s].st = "running"
    /\ frame[s].owner = "probe" => frame[s].tick = probe[s].tick

\* A dead seat's probe is never sent on the connection the seat died on: it is
\* closed first, and the client's reconnect is the one that is probed.
ProbesUseFreshConnections ==
  \A s \in Seats :
    frame[s].owner = "probe" /\ HasWaiter(s) => frame[s].conn \in fresh

\* The transport is one of the sources the engine is proved for.
ImplementsEngine == Spec

\* fail_waiter: a probe never waits on a connection whose handler has ended.
ProbeWaitsOnLivingConnection ==
  \A s \in Seats :
    frame[s].owner = "probe" /\ frame[s].stage = "waiting"
      /\ conn[frame[s].conn] = "gone" => frame[s].fut # "unset"
=============================================================================
