------------------------- MODULE PlayerSeatsProofs --------------------------
(***************************************************************************)
(* The websocket transport is one of the action sources LockstepEngine is  *)
(* proved for: every behaviour of the composition is a behaviour of the    *)
(* engine, so the engine's theorems hold of it.  The proof needs to know   *)
(* that a get_actions coroutine always has the caller the engine waits for.*)
(***************************************************************************)
EXTENDS PlayerSeats, LockstepEngineProofs

FrameType ==
  /\ frame \in [Seats -> [owner : {"none", "live", "probe"},
                          stage : {"none", "absent", "sending", "waiting"},
                          conn : Conns \cup {NoConn}, tick : Nat,
                          fut : {"unset"} \cup Outcomes]]
  /\ ws \in [Seats -> Conns \cup {NoConn}]
  /\ replies \in [Conns -> Seq([tick : Nat, kind : Kinds])]
  /\ unread \in [Conns -> SUBSET Nat]

\* The waiter's owner is the engine's live call of this tick or the running
\* probe, and only a dead seat has a probe.
FrameInv ==
  \A s \in Seats :
    /\ frame[s].owner = "live" =>
         pc = "gather" /\ call[s] = "pending" /\ frame[s].tick = tick
    /\ frame[s].owner = "probe" <=> probe[s].st = "running"
    /\ frame[s].owner = "probe" => frame[s].tick = probe[s].tick
    /\ frame[s].owner = "none" <=> frame[s].stage = "none"
    /\ probe[s].st # "none" => Dead(s)

SeatsInv == TypeOK /\ FrameType /\ FrameInv

-----------------------------------------------------------------------------
\* The engine's state does not change in a step of the transport.
LEMMA TransportIsInvisible ==
  ASSUME NEW c \in Conns, Transport(c) PROVE UNCHANGED vars
BY DEF Transport, Knock, Accept, Reject, Deliver, ConnectionCloses, HandlerEnds,
       CloseStale, ClientReplies

\* Every step of the composition is a step of the engine, or invisible to it.
LEMMA StepMapsToEngine ==
  ASSUME SeatsInv, [SeatsNext]_allVars PROVE [Next]_vars
<1>1. CASE Engine
  BY <1>1 DEF Engine, StartEpisode, EngineSteps, Resume, CollectAndClose,
              CleanupProbes, Next, Loop
<1>2. ASSUME NEW c \in Conns, Transport(c) PROVE [Next]_vars
  BY <1>2, TransportIsInvisible
<1>3. ASSUME NEW s \in Seats, Source(s) PROVE [Next]_vars
  <2>1. ASSUME NEW o \in Outcomes, frame[s].stage # "none", Returns(s, o)
        PROVE  Seat(s)
    <3>1. CASE frame[s].owner = "live" /\ Replied(s, o)
      BY <3>1 DEF Seat, SeatAnswers
    <3>2. CASE frame[s].owner = "probe"
      <4>1. probe[s].st = "running"
        BY <3>2 DEF SeatsInv, FrameInv
      <4>2. ProbeAnswers(s)
        BY <2>1, <3>2, <4>1 DEF Returns, ProbeAnswers
      <4> QED
        BY <4>2 DEF Seat
    <3> QED
      BY <2>1, <3>1, <3>2 DEF Returns
  <2>2. "none" \in Outcomes
    BY SeatsAssumption DEF SeatsAssumption
  <2>3. CASE ReturnsAbsent(s) \/ SendFails(s)
    BY <2>1, <2>2, <2>3 DEF ReturnsAbsent, SendFails, Next
  <2>4. CASE ReturnsReply(s)
    <3>1. frame[s].fut \in Outcomes
      BY <2>4 DEF ReturnsReply, SeatsInv, FrameType
    <3> QED
      BY <2>1, <2>4, <3>1 DEF ReturnsReply, Next
  <2>5. CASE ProbeEnters(s) \/ TimesOut(s)
    BY <2>5 DEF ProbeEnters, TimesOut, Next, Seat
  <2>6. CASE LiveEnters(s) \/ Sent(s)
    BY <2>6 DEF LiveEnters, Sent
  <2> QED
    BY <1>3, <2>3, <2>4, <2>5, <2>6 DEF Source
<1>4. CASE UNCHANGED allVars
  BY <1>4 DEF allVars
<1> QED
  BY <1>1, <1>2, <1>3, <1>4 DEF SeatsNext

-----------------------------------------------------------------------------
\* The oldest message, and the ones behind it.
LEMMA HeadTail ==
  ASSUME NEW T, NEW q \in Seq(T), q # <<>>
  PROVE  Head(q) \in T /\ Tail(q) \in Seq(T)
OBVIOUS

\* The coroutine, the connection and the messages of a seat keep their types.
LEMMA FrameTypeStep == SeatsInv /\ [SeatsNext]_allVars => FrameType'
<1> SUFFICES ASSUME SeatsInv, [SeatsNext]_allVars PROVE FrameType'
  OBVIOUS
<1> USE DEF FrameType
<1>0. FrameType /\ TypeOK /\ "none" \in Outcomes /\ SlotOf \in [Conns -> Seats]
      /\ Kinds \subseteq Outcomes
  BY SeatsAssumption DEF SeatsInv, SeatsAssumption
<1>1. CASE StartEpisode \/ EngineSteps \/ Resume \/ CollectAndClose
  BY <1>0, <1>1 DEF StartEpisode, EngineSteps, Resume, CollectAndClose,
                    seatsVars, connVars, wire
<1>2. CASE CleanupProbes
  BY <1>0, <1>2 DEF CleanupProbes, NoFrame, connVars, wire
<1>3. ASSUME NEW c \in Conns, Transport(c) PROVE FrameType'
  <2>1. CASE Knock(c) \/ Reject(c) \/ ConnectionCloses(c) \/ CloseStale(c)
    BY <1>0, <2>1 DEF Knock, Reject, ConnectionCloses, CloseStale, wire
  <2>2. CASE Accept(c)
    BY <1>0, <2>2 DEF Accept, wire
  <2>3. CASE Deliver(c)
    <3> DEFINE Message == [tick : Nat, kind : Kinds]
    <3>1. replies[c] \in Seq(Message) /\ replies[c] # <<>>
      BY <1>0, <2>3 DEF Deliver
    <3>2. Head(replies[c]) \in Message /\ Tail(replies[c]) \in Seq(Message)
      <4> HIDE DEF Message
      <4> QED
        BY <3>1, HeadTail
    <3>3. Head(replies[c]).kind \in Kinds
      BY <3>2
    <3>4. replies' \in [Conns -> Seq(Message)]
      BY <1>0, <2>3, <3>2 DEF Deliver
    <3>5. frame' \in [Seats -> [owner : {"none", "live", "probe"},
                          stage : {"none", "absent", "sending", "waiting"},
                          conn : Conns \cup {NoConn}, tick : Nat,
                          fut : {"unset"} \cup Outcomes]]
      BY <1>0, <2>3, <3>3 DEF Deliver
    <3> QED
      BY <1>0, <2>3, <3>4, <3>5 DEF Deliver, connVars
  <2>4. CASE HandlerEnds(c)
    BY <1>0, <2>4 DEF HandlerEnds, wire
  <2>5. CASE ClientReplies(c)
    <3>1. PICK t \in unread[c], k \in Kinds :
            replies' = [replies EXCEPT ![c] = Append(@, [tick |-> t, kind |-> k])]
      BY <2>5 DEF ClientReplies
    <3>2. t \in Nat
      BY <1>0, <3>1 DEF FrameType
    <3> DEFINE Message == [tick : Nat, kind : Kinds]
    <3>3. [tick |-> t, kind |-> k] \in Message /\ replies[c] \in Seq(Message)
      BY <1>0, <3>2
    <3>4. Append(replies[c], [tick |-> t, kind |-> k]) \in Seq(Message)
      <4> HIDE DEF Message
      <4> QED
        BY <3>3
    <3>5. replies' \in [Conns -> Seq(Message)]
      BY <1>0, <3>1, <3>4
    <3> QED
      BY <1>0, <2>5, <3>5 DEF ClientReplies, connVars
  <2> QED
    BY <1>3, <2>1, <2>2, <2>3, <2>4, <2>5 DEF Transport
<1>4. ASSUME NEW s \in Seats, Source(s) PROVE FrameType'
  <2>1. CASE LiveEnters(s)
    BY <1>0, <2>1 DEF LiveEnters, NewFrame, connVars, wire, TypeOK
  <2>2. CASE ProbeEnters(s)
    BY <1>0, <2>2 DEF ProbeEnters, NewFrame, connVars, wire, TypeOK
  <2>3. CASE Sent(s)
    <3>1. frame[s].tick \in Nat
      BY <1>0
    <3>2. unread' \in [Conns -> SUBSET Nat]
      BY <1>0, <2>3, <3>1 DEF Sent
    <3> QED
      BY <1>0, <2>3, <3>2 DEF Sent, connVars
  <2>4. ASSUME NEW o, Returns(s, o) PROVE FrameType'
    <3>1. frame' = [frame EXCEPT ![s] = NoFrame] /\ UNCHANGED <<ws, replies, unread>>
      BY <2>4 DEF Returns, connVars, wire
    <3> QED
      BY <1>0, <3>1 DEF NoFrame
  <2>5. CASE TimesOut(s)
    BY <1>0, <2>5 DEF TimesOut, NoFrame, connVars, wire
  <2> QED
    BY <1>4, <2>1, <2>2, <2>3, <2>4, <2>5
       DEF Source, ReturnsAbsent, SendFails, ReturnsReply
<1>5. CASE UNCHANGED allVars
  BY <1>0, <1>5 DEF allVars, seatsVars, connVars, wire
<1> QED
  BY <1>1, <1>2, <1>3, <1>4, <1>5 DEF SeatsNext, Engine

\* The waiter keeps its owner, and a live seat keeps having no probe.
LEMMA FrameInvStep == SeatsInv /\ [SeatsNext]_allVars => FrameInv'
<1> SUFFICES ASSUME SeatsInv, [SeatsNext]_allVars PROVE FrameInv'
  OBVIOUS
<1>0. TypeOK /\ FrameType /\ FrameInv
  BY DEF SeatsInv
<1> USE <1>0 DEF FrameInv, Dead
<1>1. CASE StartEpisode
  BY <1>1 DEF StartEpisode, vars, seatVars
<1>2. CASE EngineSteps
  <2>0. UNCHANGED frame
    BY <1>2 DEF EngineSteps, seatsVars
  <2>1. ASSUME NEW r, Finish(r) PROVE FrameInv'
    BY <2>0, <2>1 DEF Finish, seatVars
  <2>2. CASE \/ BuildFaultResult \/ BuildAncientResult
             \/ BuildTiebreakResult \/ BuildRaises
    BY <2>1, <2>2 DEF BuildFaultResult, BuildAncientResult, BuildTiebreakResult,
                      BuildRaises
  <2>3. CASE MatchOver \/ TickCapReached \/ WallClockExpires \/ SimRaisesAtTop
             \/ RewardsRaise
    BY <2>0, <2>3 DEF MatchOver, TickCapReached, WallClockExpires, SimRaisesAtTop,
                      RewardsRaise, Leave, seatVars
  <2>4. CASE StartTick \/ Step \/ StepRaises \/ Rewards \/ Record
    BY <2>0, <2>4 DEF StartTick, Step, StepRaises, Rewards, Record, seatVars
  <2> QED
    BY <1>2, <2>2, <2>3, <2>4 DEF EngineSteps
<1>3. CASE Resume
  BY <1>3 DEF Resume, GatherReturns, seatsVars, seatVars
<1>4. CASE CollectAndClose
  <2> SUFFICES ASSUME NEW s \in Seats
               PROVE  /\ frame[s].owner # "live"
                      /\ probe[s].st = "running" <=> ProbeAfter(s).st = "running"
                      /\ probe[s].st = "running" => ProbeAfter(s).tick = probe[s].tick
                      /\ ProbeAfter(s).st # "none" => StrikesAfter(s) >= StrikeLimit
    BY <1>4 DEF CollectAndClose, Collect
  <2>1. strikes[s] \in Nat /\ StrikeLimit \in Nat
    BY EngineAssumption DEF EngineAssumption, TypeOK
  <2>2. frame[s].owner # "live"
    BY <1>4 DEF CollectAndClose, Collect
  <2>3. CASE Dead(s)
    BY <2>1, <2>2, <2>3 DEF ProbeAfter, ProbeAfterPoll, Reply, Polled, StrikesAfter,
                            NoProbe
  <2>4. CASE ~Dead(s)
    BY <2>1, <2>2, <2>4 DEF ProbeAfter, NoProbe
  <2> QED
    BY <2>3, <2>4
<1>5. CASE CleanupProbes
  BY <1>5 DEF CleanupProbes, Cleanup, NoFrame, NoProbe, seatVars
<1>6. ASSUME NEW c \in Conns, Transport(c) PROVE FrameInv'
  <2>1. UNCHANGED <<pc, call, tick, probe, strikes>>
    BY <1>6, TransportIsInvisible DEF vars, seatVars
  <2>2. SlotOf[c] \in Seats
    BY SeatsAssumption DEF SeatsAssumption
  <2>3. \A s \in Seats : /\ frame'[s].owner = frame[s].owner
                         /\ frame'[s].stage = frame[s].stage
                         /\ frame'[s].tick = frame[s].tick
    <3>1. CASE Deliver(c)
      BY <2>2, <3>1 DEF Deliver, FrameType
    <3>2. CASE HandlerEnds(c)
      BY <2>2, <3>2 DEF HandlerEnds, FrameType
    <3>3. CASE ~Deliver(c) /\ ~HandlerEnds(c)
      BY <1>6, <3>3 DEF Transport, Knock, Accept, Reject, ConnectionCloses,
                        CloseStale, ClientReplies
    <3> QED
      BY <3>1, <3>2, <3>3
  <2> QED
    BY <2>1, <2>3
<1>7. ASSUME NEW s \in Seats, Source(s) PROVE FrameInv'
  <2>1. CASE LiveEnters(s)
    BY <2>1 DEF LiveEnters, NewFrame, vars, seatVars, FrameType
  <2>2. CASE ProbeEnters(s)
    BY <2>2 DEF ProbeEnters, ProbeStarts, NewFrame, seatVars, FrameType, TypeOK
  <2>3. CASE Sent(s)
    BY <2>3 DEF Sent, vars, seatVars, FrameType
  <2>4. ASSUME NEW o, frame[s].stage # "none", Returns(s, o) PROVE FrameInv'
    <3>1. CASE frame[s].owner = "live" /\ Replied(s, o)
      BY <2>4, <3>1 DEF Returns, Replied, NoFrame, seatVars, FrameType, TypeOK
    <3>2. CASE frame[s].owner = "probe" /\ EventLoopRuns
               /\ probe' = [probe EXCEPT ![s].st = "done", ![s].out = o]
               /\ UNCHANGED <<pc, simVars, tick, seatVars, call, episodeVars, result>>
      BY <2>4, <3>2 DEF Returns, NoFrame, seatVars, FrameType, TypeOK
    <3> QED
      BY <2>4, <3>1, <3>2 DEF Returns
  <2>5. CASE ReturnsAbsent(s) \/ SendFails(s) \/ ReturnsReply(s)
    BY <2>4, <2>5 DEF ReturnsAbsent, SendFails, ReturnsReply
  <2>6. CASE TimesOut(s)
    BY <2>6 DEF TimesOut, Deadline, Replied, NoFrame, seatVars, FrameType, TypeOK
  <2> QED
    BY <1>7, <2>1, <2>2, <2>3, <2>5, <2>6 DEF Source
<1>8. CASE UNCHANGED allVars
  BY <1>8 DEF allVars, seatsVars, vars, seatVars
<1> QED
  BY <1>1, <1>2, <1>3, <1>4, <1>5, <1>6, <1>7, <1>8 DEF SeatsNext, Engine

LEMMA SeatsInvariant == SeatsSpec => []SeatsInv
<1>1. SeatsInit => SeatsInv
  <2> SUFFICES ASSUME SeatsInit PROVE SeatsInv
    OBVIOUS
  <2>1. TypeOK
    BY TypeInit DEF SeatsInit
  <2>2. FrameType
    BY DEF SeatsInit, FrameType, NoFrame
  <2>3. FrameInv
    BY DEF SeatsInit, Init, FrameInv, NoFrame, NoProbe
  <2> QED
    BY <2>1, <2>2, <2>3 DEF SeatsInv
<1>2. SeatsInv /\ [SeatsNext]_allVars => SeatsInv'
  <2> SUFFICES ASSUME SeatsInv, [SeatsNext]_allVars PROVE SeatsInv'
    OBVIOUS
  <2>1. TypeOK'
    BY StepMapsToEngine, TypeStep DEF SeatsInv
  <2> QED
    BY <2>1, FrameTypeStep, FrameInvStep DEF SeatsInv
<1> QED
  BY <1>1, <1>2, PTL DEF SeatsSpec

-----------------------------------------------------------------------------
\* The transport is one of the sources the engine is proved for, so every
\* theorem about Spec holds of a game with real connections.
THEOREM SeatsImplementEngine == SeatsSpec => ImplementsEngine
<1>1. SeatsInit => Init
  BY DEF SeatsInit
<1>2. SeatsInv /\ [SeatsNext]_allVars => [Next]_vars
  BY StepMapsToEngine
<1> QED
  BY <1>1, <1>2, SeatsInvariant, PTL DEF SeatsSpec, Spec, ImplementsEngine

\* A seat's waiter is never clobbered: it belongs to the call the engine is
\* waiting for.
THEOREM WaitersHaveCallers == SeatsSpec => []WaiterIsTheCallers
<1>1. SeatsInv => WaiterIsTheCallers
  BY DEF SeatsInv, FrameInv, WaiterIsTheCallers
<1> QED
  BY <1>1, SeatsInvariant, PTL

\* The engine's budget holds with real connections: a player that disconnects,
\* hangs and reconnects in any order costs at most StrikeLimit deadlines
\* between two valid actions.
THEOREM SeatsDeadlinesBounded == SeatsSpec => []DeadlineBudget
BY SeatsImplementEngine, DeadlinesBounded, PTL DEF ImplementsEngine

\* So do the strike rule, the books of NOOPs, ticks and results, and the way to the
\* episode's end, whatever players send, drop or leave unanswered.
THEOREM SeatsKeepTheEnginesWord ==
  SeatsSpec => /\ ImplementsStrikeRule
               /\ []NoopsAccounted /\ []ProbeOfThisSpell /\ []SingleCaller
               /\ []ReplayCoversEpisode /\ []ResultFaithful
               /\ RunsDown /\ []RanksBounded
BY SeatsImplementEngine, EngineImplementsStrikeRule, NoopsAreAccounted, ProbesBelongToTheirSpell,
   OneCaller, ReplayAlwaysCovers, ResultsAreFaithful, EpisodesRunDown, PTL DEF ImplementsEngine

-----------------------------------------------------------------------------
\* Only the transport opens, closes and ends connections.
LEMMA OnlyTransportConnects ==
  ASSUME [SeatsNext]_allVars, \A c \in Conns : ~Transport(c)
  PROVE  UNCHANGED <<conn, closed, ws>>
<1>1. CASE Engine
  BY <1>1 DEF Engine, StartEpisode, EngineSteps, Resume, CollectAndClose,
              CleanupProbes, seatsVars, connVars
<1>2. ASSUME NEW s \in Seats, Source(s) PROVE UNCHANGED <<conn, closed, ws>>
  BY <1>2 DEF Source, LiveEnters, ProbeEnters, Sent, ReturnsAbsent, SendFails,
              ReturnsReply, Returns, TimesOut, connVars
<1>3. CASE UNCHANGED allVars
  BY <1>3 DEF allVars, seatsVars, connVars
<1> QED
  BY <1>1, <1>2, <1>3 DEF SeatsNext

ConnInv ==
  /\ conn \in [Conns -> {"idle", "preparing", "serving", "gone"}]
  /\ closed \in [Conns -> BOOLEAN]
  /\ ws \in [Seats -> Conns \cup {NoConn}]
  /\ OpenConnectionIsSeats

LEMMA ConnInvStep == ConnInv /\ [SeatsNext]_allVars => ConnInv'
<1> SUFFICES ASSUME ConnInv, [SeatsNext]_allVars PROVE ConnInv'
  OBVIOUS
<1> USE DEF ConnInv, OpenConnectionIsSeats
<1>1. SlotOf \in [Conns -> Seats] /\ NoConn \notin Conns
  BY SeatsAssumption DEF SeatsAssumption
<1>2. ASSUME NEW c \in Conns, Transport(c) PROVE ConnInv'
  <2>1. CASE Knock(c) \/ Reject(c)
    BY <1>1, <2>1 DEF Knock, Reject
  <2>2. CASE Accept(c)
    BY <1>1, <2>2 DEF Accept, Connected
  <2>3. CASE ConnectionCloses(c) \/ CloseStale(c)
    BY <1>1, <2>3 DEF ConnectionCloses, CloseStale
  <2>4. CASE HandlerEnds(c)
    BY <1>1, <2>4 DEF HandlerEnds
  <2>5. CASE Deliver(c) \/ ClientReplies(c)
    BY <2>5 DEF Deliver, ClientReplies, connVars
  <2> QED
    BY <1>2, <2>1, <2>2, <2>3, <2>4, <2>5 DEF Transport
<1>3. CASE \A c \in Conns : ~Transport(c)
  BY <1>3, OnlyTransportConnects
<1> QED
  BY <1>2, <1>3

\* An open connection is the one its seat uses: a late handler never
\* disconnects its successor, and no two open connections share a seat.
THEOREM OneOpenConnection == SeatsSpec => []OpenConnectionIsSeats
<1>1. SeatsInit => ConnInv
  BY DEF SeatsInit, ConnInv, OpenConnectionIsSeats
<1>2. ConnInv => OpenConnectionIsSeats
  BY DEF ConnInv
<1> QED
  BY <1>1, <1>2, ConnInvStep, PTL DEF SeatsSpec

-----------------------------------------------------------------------------
(* The rest of the types, and the connections probes are sent on.          *)

HandlerType ==
  /\ started \in BOOLEAN /\ allConnected \in BOOLEAN
  /\ everConnected \in [Seats -> BOOLEAN]
  /\ conn \in [Conns -> {"idle", "preparing", "serving", "gone"}]
  /\ closed \in [Conns -> BOOLEAN]
  /\ condemned \subseteq Conns /\ fresh \subseteq Conns
  /\ wrongTick \in [Seats -> Nat]

LEMMA HandlerTypeStep == SeatsInv /\ HandlerType /\ [SeatsNext]_allVars => HandlerType'
<1> SUFFICES ASSUME SeatsInv, HandlerType, [SeatsNext]_allVars PROVE HandlerType'
  OBVIOUS
<1> USE DEF HandlerType
<1>0. FrameType /\ SlotOf \in [Conns -> Seats] /\ NoConn \notin Conns
  BY SeatsAssumption DEF SeatsInv, SeatsAssumption
<1>1. CASE StartEpisode \/ EngineSteps \/ Resume \/ CleanupProbes
  BY <1>1 DEF StartEpisode, EngineSteps, Resume, CleanupProbes, seatsVars, connVars
<1>2. CASE CollectAndClose
  <2>1. \A s \in Doomed : ws[s] \in Conns
    BY <1>0 DEF Doomed, Connected, FrameType
  <2> QED
    BY <1>2, <2>1 DEF CollectAndClose, connVars
<1>3. ASSUME NEW c \in Conns, Transport(c) PROVE HandlerType'
  <2>0. SlotOf[c] \in Seats
    BY <1>0
  <2>1. CASE Knock(c) \/ Reject(c) \/ ConnectionCloses(c) \/ CloseStale(c)
             \/ ClientReplies(c) \/ HandlerEnds(c)
    BY <2>1 DEF Knock, Reject, ConnectionCloses, CloseStale, ClientReplies, HandlerEnds,
                connVars
  <2>2. CASE Accept(c)
    <3>1. (\A r \in Seats \ {SlotOf[c]} : Connected(r)) \in BOOLEAN
      OBVIOUS
    <3>2. allConnected' \in BOOLEAN
      BY <2>2, <3>1 DEF Accept
    <3> QED
      BY <2>0, <2>2, <3>2 DEF Accept
  <2>3. CASE Deliver(c)
    BY <2>0, <2>3 DEF Deliver, connVars
  <2> QED
    BY <1>3, <2>1, <2>2, <2>3 DEF Transport
<1>4. ASSUME NEW s \in Seats, Source(s) PROVE HandlerType'
  BY <1>4 DEF Source, LiveEnters, ProbeEnters, Sent, ReturnsAbsent, SendFails,
              ReturnsReply, Returns, TimesOut, connVars
<1>5. CASE UNCHANGED allVars
  BY <1>5 DEF allVars, seatsVars, connVars
<1> QED
  BY <1>1, <1>2, <1>3, <1>4, <1>5 DEF SeatsNext, Engine

\* seat.ws and the waiter's websocket are connections of that seat.
OwnConnections ==
  \A s \in Seats : /\ ws[s] # NoConn => SlotOf[ws[s]] = s
                   /\ HasWaiter(s) => /\ frame[s].conn \in Conns
                                      /\ SlotOf[frame[s].conn] = s

\* What a dead seat is connected with came after its death or is condemned, and
\* no condemned connection is open any more when the next tick is collected.
CondemnedInv ==
  /\ pc = "collect" => \A c \in condemned : closed[c]
  /\ \A s \in Seats : Connected(s) =>
       /\ Dead(s) => ws[s] \in fresh \cup condemned
       /\ probe[s].st = "new" => ws[s] \in fresh

FreshInv == SeatsInv /\ HandlerType /\ OwnConnections /\ CondemnedInv
              /\ ProbesUseFreshConnections

LEMMA FreshInvStep ==
  ASSUME FreshInv, [SeatsNext]_allVars
  PROVE  (OwnConnections /\ CondemnedInv /\ ProbesUseFreshConnections)'
<1> DEFINE Goal == OwnConnections /\ CondemnedInv /\ ProbesUseFreshConnections
<1> USE DEF OwnConnections, CondemnedInv, ProbesUseFreshConnections
<1>0. /\ FrameType /\ FrameInv /\ TypeOK /\ HandlerType /\ Goal
      /\ SlotOf \in [Conns -> Seats] /\ NoConn \notin Conns
  BY SeatsAssumption DEF FreshInv, SeatsInv, SeatsAssumption
<1>1. CASE StartEpisode
  BY <1>0, <1>1 DEF StartEpisode, vars, seatVars, connVars, Connected, Dead, HasWaiter
<1>2. CASE EngineSteps
  <2>1. UNCHANGED <<ws, closed, condemned, fresh, frame>>
    BY <1>2 DEF EngineSteps, seatsVars, connVars
  <2>2. pc' # "collect" /\ UNCHANGED <<strikes, probe>>
    BY <1>2 DEF EngineSteps, MatchOver, TickCapReached, WallClockExpires, SimRaisesAtTop,
       RewardsRaise, Leave, StartTick, Step, StepRaises, Rewards, Record, Finish,
       BuildFaultResult, BuildAncientResult, BuildTiebreakResult, BuildRaises, seatVars
  <2> QED
    BY <1>0, <2>1, <2>2 DEF Connected, Dead, HasWaiter
<1>3. CASE Resume
  BY <1>0, <1>3 DEF Resume, GatherReturns, seatsVars, connVars, seatVars, Connected, Dead,
                    HasWaiter
<1>4. CASE CollectAndClose
  <2>1. /\ UNCHANGED <<ws, closed, frame>> /\ pc = "collect" /\ pc' = "step"
        /\ condemned' = condemned \cup {ws[s] : s \in Doomed}
        /\ fresh' = {c \in fresh : AnnouncedAfter(SlotOf[c]) = announced[SlotOf[c]]}
        /\ \A s \in Seats : /\ strikes'[s] = StrikesAfter(s)
                            /\ probe'[s] = ProbeAfter(s)
    BY <1>4 DEF CollectAndClose, Collect, connVars
  <2>2. \A s \in Seats : strikes[s] \in Nat /\ announced[s] \in Nat
    BY <1>0 DEF TypeOK
  <2>3. StrikeLimit \in Nat /\ StrikeLimit > 0
    BY EngineAssumption DEF EngineAssumption
  <2>4. ASSUME NEW s \in Seats, Dead(s), StrikesAfter(s) >= StrikeLimit
        PROVE  AnnouncedAfter(s) = announced[s]
    BY <2>2, <2>3, <2>4 DEF Dead, StrikesAfter, AnnouncedAfter
  <2>5. ASSUME NEW s \in Seats, ~Dead(s), StrikesAfter(s) >= StrikeLimit
        PROVE  AnnouncedAfter(s) > announced[s]
    BY <2>2, <2>3, <2>5 DEF Dead, StrikesAfter, AnnouncedAfter
  <2>6. ASSUME NEW s \in Seats, ProbeAfter(s).st # "none"
        PROVE  Dead(s) /\ StrikesAfter(s) >= StrikeLimit
    <3>1. Dead(s) /\ Reply(s) # "valid"
      BY <1>0, <2>6 DEF ProbeAfter, FrameInv, NoProbe
    <3> QED
      BY <2>2, <2>3, <3>1 DEF StrikesAfter, Dead
  <2>7. ASSUME NEW s \in Seats, Connected(s), Dead(s), StrikesAfter(s) >= StrikeLimit
        PROVE  ws[s] \in fresh'
    BY <1>0, <2>1, <2>4, <2>7 DEF Connected, FrameType
  <2>8. ASSUME NEW s \in Seats, Connected(s), ~Dead(s), StrikesAfter(s) >= StrikeLimit
        PROVE  ws[s] \in condemned'
    BY <2>1, <2>5, <2>8 DEF Doomed
  <2>9. CondemnedInv'
    BY <2>1, <2>6, <2>7, <2>8 DEF Connected, Dead
  <2>10. OwnConnections'
    BY <1>0, <2>1 DEF HasWaiter
  <2>11. ASSUME NEW s \in Seats, frame[s].owner = "probe", HasWaiter(s)
         PROVE  frame[s].conn \in fresh'
    <3>1. FrameInv'
      BY FrameInvStep DEF FreshInv
    <3>2. probe'[s].st = "running"
      BY <2>1, <2>11, <3>1 DEF FrameInv
    <3> QED
      BY <1>0, <2>1, <2>4, <2>6, <2>11, <3>2
  <2> QED
    BY <2>1, <2>9, <2>10, <2>11 DEF HasWaiter
<1>5. CASE CleanupProbes
  BY <1>0, <1>5 DEF CleanupProbes, Cleanup, NoFrame, NoProbe, connVars, seatVars, Connected,
                    Dead, HasWaiter
<1>6. ASSUME NEW c \in Conns, Transport(c) PROVE Goal'
  <2>1. UNCHANGED <<pc, probe, strikes>>
    BY <1>6, TransportIsInvisible DEF vars, seatVars
  <2>2. SlotOf[c] \in Seats
    BY <1>0
  <2>3. CASE Knock(c) \/ ClientReplies(c)
    BY <1>0, <2>1, <2>3 DEF Knock, ClientReplies, connVars, Connected, Dead, HasWaiter
  <2>4. CASE Reject(c) \/ ConnectionCloses(c) \/ CloseStale(c)
    <3>0. closed' = [closed EXCEPT ![c] = TRUE] /\ closed \in [Conns -> BOOLEAN]
      BY <1>0, <2>4 DEF Reject, ConnectionCloses, CloseStale, HandlerType
    <3>1. \A d \in Conns : closed[d] => closed'[d]
      BY <3>0
    <3>2. UNCHANGED <<ws, frame, condemned, fresh>>
      BY <2>4 DEF Reject, ConnectionCloses, CloseStale
    <3>3. \A s \in Seats : Connected(s)' => Connected(s)
      BY <1>0, <3>1, <3>2 DEF Connected, FrameType
    <3> QED
      BY <1>0, <2>1, <3>1, <3>2, <3>3 DEF Dead, HasWaiter, HandlerType
  <2>5. CASE Accept(c)
    <3>1. /\ ws' = [ws EXCEPT ![SlotOf[c]] = c] /\ UNCHANGED <<frame, closed, condemned>>
          /\ fresh' = IF Dead(SlotOf[c]) THEN fresh \cup {c} ELSE fresh
      BY <2>5 DEF Accept
    <3>2. probe[SlotOf[c]].st = "new" => Dead(SlotOf[c])
      BY <1>0, <2>2 DEF FrameInv
    <3> DEFINE t == SlotOf[c]
    <3>3. CondemnedInv'
      <4> SUFFICES ASSUME NEW s \in Seats, Connected(s)'
                   PROVE  /\ Dead(s) => ws'[s] \in fresh' \cup condemned
                          /\ probe[s].st = "new" => ws'[s] \in fresh'
        BY <1>0, <2>1, <2>5, <3>1 DEF Dead, Accept, OthersRun, EventLoopRuns
      <4>1. CASE s = t
        BY <1>0, <2>2, <3>1, <3>2, <4>1 DEF FrameType
      <4>2. CASE s # t
        <5>1. ws'[s] = ws[s] /\ Connected(s) /\ fresh \subseteq fresh'
          BY <1>0, <2>2, <3>1, <4>2 DEF Connected, FrameType
        <5> QED
          BY <1>0, <5>1
      <4> QED
        BY <4>1, <4>2
    <3>4. OwnConnections'
      BY <1>0, <2>2, <3>1 DEF HasWaiter, FrameType
    <3>5. ProbesUseFreshConnections'
      BY <1>0, <3>1 DEF HasWaiter
    <3> QED
      BY <3>3, <3>4, <3>5
  <2>6. CASE Deliver(c)
    <3>1. UNCHANGED <<ws, closed, condemned, fresh>>
      BY <2>6 DEF Deliver, connVars
    <3>2. \A s \in Seats : /\ frame'[s].owner = frame[s].owner
                          /\ frame'[s].stage = frame[s].stage
                          /\ frame'[s].conn = frame[s].conn
      BY <1>0, <2>2, <2>6 DEF Deliver, FrameType
    <3> QED
      BY <1>0, <2>1, <3>1, <3>2 DEF Connected, Dead, HasWaiter
  <2>7. CASE HandlerEnds(c)
    <3>1. UNCHANGED <<closed, condemned, fresh>>
          /\ \A s \in Seats : ws'[s] \in {ws[s], NoConn}
      BY <1>0, <2>2, <2>7 DEF HandlerEnds, FrameType
    <3>2. \A s \in Seats : /\ frame'[s].owner = frame[s].owner
                          /\ frame'[s].stage = frame[s].stage
                          /\ frame'[s].conn = frame[s].conn
      BY <1>0, <2>2, <2>7 DEF HandlerEnds, FrameType
    <3> QED
      BY <1>0, <2>1, <3>1, <3>2 DEF Connected, Dead, HasWaiter
  <2> QED
    BY <1>6, <2>3, <2>4, <2>5, <2>6, <2>7 DEF Transport
<1>7. ASSUME NEW s \in Seats, Source(s) PROVE Goal'
  <2>1. UNCHANGED <<ws, closed, condemned, fresh, strikes, pc>>
    BY <1>7 DEF Source, LiveEnters, ProbeEnters, ProbeStarts, Sent, ReturnsAbsent, SendFails,
                ReturnsReply, Returns, Replied, TimesOut, Deadline, connVars, vars, seatVars
  <2>2. \A r \in Seats : probe'[r].st = "new" => probe[r].st = "new"
    <3>1. CASE probe' = [probe EXCEPT ![s].st = "running"]
      BY <1>0, <3>1 DEF TypeOK
    <3>2. ASSUME NEW o, probe' = [probe EXCEPT ![s].st = "done", ![s].out = o]
          PROVE  \A r \in Seats : probe'[r].st = "new" => probe[r].st = "new"
      BY <1>0, <3>2 DEF TypeOK
    <3>3. ASSUME NEW o, Returns(s, o)
          PROVE  \A r \in Seats : probe'[r].st = "new" => probe[r].st = "new"
      BY <3>2, <3>3 DEF Returns, Replied
    <3> QED
      BY <1>7, <3>1, <3>3 DEF Source, LiveEnters, ProbeEnters, ProbeStarts, Sent,
         ReturnsAbsent, SendFails, ReturnsReply, TimesOut, Deadline, Replied, vars
  <2>3. CondemnedInv'
    BY <1>0, <2>1, <2>2 DEF Connected, Dead
  <2>4. CASE LiveEnters(s)
    BY <1>0, <2>1, <2>3, <2>4 DEF LiveEnters, NewFrame, Connected, HasWaiter, FrameType
  <2>5. CASE ProbeEnters(s)
    <3> DEFINE f == NewFrame(s, "probe", probe[s].tick)
    <3>1. frame' = [frame EXCEPT ![s] = f] /\ probe[s].st = "new"
      BY <2>5 DEF ProbeEnters, ProbeStarts
    <3>2. f.conn = ws[s] /\ (f.stage \in {"sending", "waiting"} => Connected(s))
      BY DEF NewFrame
    <3>3. f.stage \in {"sending", "waiting"} =>
            f.conn \in Conns /\ SlotOf[f.conn] = s /\ f.conn \in fresh
      BY <1>0, <3>1, <3>2 DEF Connected, FrameType
    <3> HIDE DEF f
    <3>4. \A r \in Seats : frame'[r] = IF r = s THEN f ELSE frame[r]
      BY <1>0, <3>1 DEF FrameType
    <3> QED
      BY <1>0, <2>1, <2>3, <3>3, <3>4 DEF HasWaiter
  <2>6. CASE Sent(s)
    BY <1>0, <2>1, <2>3, <2>6 DEF Sent, HasWaiter, FrameType
  <2>7. CASE frame' = [frame EXCEPT ![s] = NoFrame]
    BY <1>0, <2>1, <2>3, <2>7 DEF NoFrame, HasWaiter, FrameType
  <2> QED
    BY <1>7, <2>4, <2>5, <2>6, <2>7
       DEF Source, ReturnsAbsent, SendFails, ReturnsReply, Returns, TimesOut
<1>8. CASE UNCHANGED allVars
  BY <1>0, <1>8 DEF allVars, seatsVars, vars, seatVars, connVars, Connected, Dead, HasWaiter
<1> QED
  BY <1>1, <1>2, <1>3, <1>4, <1>5, <1>6, <1>7, <1>8 DEF SeatsNext, Engine

LEMMA FreshInvariant == SeatsSpec => []FreshInv
<1>1. SeatsInv /\ SeatsInit => FreshInv
  <2> SUFFICES ASSUME SeatsInv, SeatsInit PROVE FreshInv
    OBVIOUS
  <2>1. /\ pc = "top" /\ condemned = {}
        /\ \A s \in Seats : /\ ws[s] = NoConn
                            /\ frame[s].stage = "none" /\ frame[s].owner = "none"
    BY DEF SeatsInit, Init, NoFrame
  <2>2. HandlerType
    BY DEF SeatsInit, HandlerType
  <2> QED
    BY <2>1, <2>2 DEF OwnConnections, CondemnedInv, Connected, HasWaiter,
                      ProbesUseFreshConnections, FreshInv
<1>2. SeatsInv' /\ FreshInv /\ [SeatsNext]_allVars => FreshInv'
  BY FreshInvStep, HandlerTypeStep DEF FreshInv
<1> QED
  BY <1>1, <1>2, SeatsInvariant, PTL DEF SeatsSpec

\* The engine's, the handlers' and the clients' variables keep their types.
THEOREM SeatsTypeCorrect == SeatsSpec => []SeatsTypeOK
<1>1. FreshInv => SeatsTypeOK
  BY DEF FreshInv, SeatsInv, FrameType, HandlerType, SeatsTypeOK
<1> QED
  BY <1>1, FreshInvariant, PTL

\* A dead seat's probe is never sent on the connection the seat died on: the
\* force-close comes first, and the client's reconnect is the one probed.
THEOREM ProbesGoToFreshConnections == SeatsSpec => []ProbesUseFreshConnections
<1>1. FreshInv => ProbesUseFreshConnections
  BY DEF FreshInv
<1> QED
  BY <1>1, FreshInvariant, PTL
=============================================================================
