--------------------------- MODULE GlobalFeedProofs ---------------------------
(***************************************************************************)
(* Proofs about GlobalFeed, for any viewers, seats and broadcast interval: *)
(* the types, what a viewer reads and in which order, and that whoever is  *)
(* still there after the broadcast has been given the result.              *)
(***************************************************************************)
EXTENDS GlobalFeed, RunEpisodeProofs

-----------------------------------------------------------------------------
(* Facts about the episode that feeds the viewers.                         *)

\* Before the done broadcast, on either path.
QuietPcs == {"connect", "report", "engine", "fault_results", "fault_replay"}
OverPcs == {"results", "replay", "grace", "exit_ok"}

\* How run_episode moves past the done broadcast, and when its result can
\* still change.
LEMMA EpisodeMoves ==
  ASSUME EpisodeInv, EpisodeNext
  PROVE  /\ pc' \in QuietPcs => pc \in QuietPcs
         /\ pc' \in AnnouncePcs => pc \in QuietPcs \cup AnnouncePcs
         /\ pc \in QuietPcs => pc' \in QuietPcs \cup AnnouncePcs
         /\ pc' = "announce" => pc \in {"engine", "announce"}
         /\ pc' \in OverPcs => pc \in OverPcs \cup {"announce"}
         /\ pc \in {"announce"} \cup OverPcs => resultsDoc' = resultsDoc
<1> USE DEF QuietPcs, OverPcs, AnnouncePcs
<1>1. CASE ConnectWaitEnds
  BY <1>1 DEF ConnectWaitEnds
<1>2. CASE EngineTick
  BY <1>2 DEF EngineTick
<1>3. CASE EngineReturns \/ EngineRaises
  BY <1>3 DEF EngineReturns, EngineRaises, ToFaultResults, ToFaultReplay
<1>4. CASE AnnounceEnds
  BY <1>4 DEF AnnounceEnds, ToResults, ToReplay, Ending
<1>5. CASE Write
  <2>1. pc \in WritePcs /\ resultsDoc' = resultsDoc /\ (pc' = pc \/ pc' = AfterWrite)
    BY <1>5, WriteFacts
  <2>2. CASE pc' = pc
    BY <2>1, <2>2
  <2>3. CASE pc' = AfterWrite
    BY <2>1, <2>3, Targets, AfterWriteFacts DEF ToReplay, ToFaultReplay, Ending
  <2> QED
    BY <2>1, <2>2, <2>3
<1>6. CASE ProcessExits
  BY <1>6 DEF ProcessExits
<1>7. CASE \E s \in Slots : PlayerConnects(s) \/ PlayerLeaves(s) \/ DoneSent(s) \/ DoneFails(s)
  BY <1>7 DEF PlayerConnects, PlayerLeaves, DoneSent, DoneFails
<1> QED
  BY <1>1, <1>2, <1>3, <1>4, <1>5, <1>6, <1>7 DEF EpisodeNext

\* What is in a longer sequence is the new element or was in it.
LEMMA AppendElements ==
  ASSUME NEW T, NEW s \in Seq(T), NEW e \in T
  PROVE  /\ Append(s, e) \in Seq(T) /\ Len(s) \in Nat /\ Len(Append(s, e)) = Len(s) + 1
         /\ Append(s, e)[Len(s) + 1] = e
         /\ \A i \in 1..Len(s) : Append(s, e)[i] = s[i]
OBVIOUS

\* The messages are messages.
LEMMA MessageTypes ==
  ASSUME TypeOK
  PROVE  /\ TickMsg(tickCount) \in Messages /\ tickCount \in Nat
         /\ StatusMsg(resultsDoc) \in Messages /\ DoneMsg \in Messages
<1>1. tickCount \in Nat /\ resultsDoc \in Docs /\ NoDoc \in Docs
  BY EpisodeAssumption DEF TypeOK, Docs, EpisodeAssumption
<1> QED
  BY <1>1 DEF TickMsg, StatusMsg, DoneMsg, Messages

-----------------------------------------------------------------------------
(* The invariant.                                                          *)

Wires == wire \in [Viewers -> Seq(Messages)]

\* A viewer that never came was sent nothing; one that is there is registered or
\* in its snapshot's send.
PresenceInv ==
  \A v \in Viewers :
    /\ socket[v] = "away" => sendTask[v] = 0 /\ wire[v] = <<>>
    /\ socket[v] = "open" => v \in member \/ v \in snapshotting

\* The done broadcast's sends live exactly as long as the broadcast.
BroadcastInv ==
  /\ pc \in QuietPcs => \A v \in Viewers : final[v] = "idle"
  /\ pc \notin QuietPcs \cup AnnouncePcs => FinalsOver

\* What a viewer was sent, against the tick and the broadcast.
WireInv ==
  \A v \in Viewers : \A i \in 1..Len(wire[v]) :
    /\ wire[v][i].type = "tick" => wire[v][i].tick < tickCount
    /\ wire[v][i].type = "done" => final[v] \in {"sending", "over"}

HasResult(v) == \E i \in 1..Len(wire[v]) : wire[v][i].result = resultsDoc

\* Whoever is there and has had its final send, or came after it started, has
\* the result.
ResultInv ==
  pc \in {"announce"} \cup OverPcs =>
    \A v \in Viewers : socket[v] = "open" /\ final[v] \in {"sending", "over"} => HasResult(v)

FeedInv ==
  /\ EpisodeInv /\ FeedTypeOK /\ Wires /\ PresenceInv /\ TickSendsSerialized
  /\ BroadcastInv /\ WireInv /\ FeedIsOrdered /\ ResultInv

-----------------------------------------------------------------------------
(* The invariant is inductive.                                             *)

LEMMA FeedStarts == FeedInit => FeedInv
<1> SUFFICES ASSUME FeedInit PROVE FeedInv
  OBVIOUS
<1>1. EpisodeInv /\ pc = "connect"
  BY EpisodeStarts DEF FeedInit, EpisodeInit
<1>2. Wires /\ \A v \in Viewers : wire[v] = <<>> /\ Len(wire[v]) = 0
  BY DEF FeedInit, Wires
<1>3. FeedTypeOK
  BY <1>1, <1>2 DEF FeedInit, FeedTypeOK, EpisodeInv
<1>4. PresenceInv /\ TickSendsSerialized
  BY <1>2 DEF FeedInit, PresenceInv, TickSendsSerialized, InSnapshot
<1>5. BroadcastInv /\ ResultInv
  BY <1>1 DEF FeedInit, BroadcastInv, ResultInv, QuietPcs, OverPcs
<1>6. WireInv /\ FeedIsOrdered
  BY <1>2 DEF WireInv, FeedIsOrdered
<1> QED
  BY <1>1, <1>2, <1>3, <1>4, <1>5, <1>6 DEF FeedInv

\* One more message on a viewer's wire.
LEMMA SendKeeps ==
  ASSUME FeedInv, NEW v \in Viewers, NEW m \in Messages, wire'[v] = Append(wire[v], m),
         m.type = "status" => wire[v] = <<>>,
         m.type = "tick" => m.tick = tickCount,
         final[v] \in {"sending", "over"} => wire[v] = <<>>
  PROVE  /\ Len(wire'[v]) = Len(wire[v]) + 1 /\ Len(wire[v]) \in Nat
         /\ wire'[v][Len(wire[v]) + 1] = m
         /\ \A i \in 1..Len(wire[v]) : wire'[v][i] = wire[v][i]
         /\ \A i, j \in 1..Len(wire'[v]) : i < j =>
              /\ wire'[v][j].type # "status"
              /\ wire'[v][i].type # "done"
              /\ wire'[v][i].type = "tick" /\ wire'[v][j].type = "tick" =>
                   wire'[v][i].tick < wire'[v][j].tick
<1>1. wire[v] \in Seq(Messages)
  BY DEF FeedInv, Wires
<1>2. /\ Len(wire'[v]) = Len(wire[v]) + 1 /\ Len(wire[v]) \in Nat
      /\ wire'[v][Len(wire[v]) + 1] = m
      /\ \A i \in 1..Len(wire[v]) : wire'[v][i] = wire[v][i]
  BY <1>1, AppendElements
<1>3. ASSUME NEW i \in 1..Len(wire'[v]), NEW j \in 1..Len(wire'[v]), i < j
      PROVE  /\ wire'[v][j].type # "status"
             /\ wire'[v][i].type # "done"
             /\ wire'[v][i].type = "tick" /\ wire'[v][j].type = "tick" =>
                  wire'[v][i].tick < wire'[v][j].tick
  <2>1. i \in 1..Len(wire[v]) /\ wire'[v][i] = wire[v][i]
    BY <1>2, <1>3
  <2>2. CASE j = Len(wire[v]) + 1
    <3>1. wire[v] # <<>> /\ wire'[v][j] = m
      BY <1>1, <1>2, <2>1, <2>2
    <3>2. wire[v][i].type # "done" /\ (wire[v][i].type = "tick" => wire[v][i].tick < tickCount)
      BY <2>1, <3>1 DEF FeedInv, WireInv
    <3> QED
      BY <2>1, <3>1, <3>2
  <2>3. CASE j \in 1..Len(wire[v])
    <3>1. wire'[v][j] = wire[v][j]
      BY <1>2, <2>3
    <3>2. /\ wire[v][j].type # "status"
          /\ wire[v][i].type # "done"
          /\ wire[v][i].type = "tick" /\ wire[v][j].type = "tick" => wire[v][i].tick < wire[v][j].tick
      BY <1>3, <2>1, <2>3 DEF FeedInv, FeedIsOrdered
    <3> QED
      BY <2>1, <3>1, <3>2
  <2> QED
    BY <1>2, <2>2, <2>3
<1> QED
  BY <1>2, <1>3

\* The episode's part of the invariant does not look at the viewers.
LEMMA EpisodeUntouched ==
  ASSUME FeedInv, UNCHANGED episodeVars
  PROVE  EpisodeInv' /\ TypeOK'
BY EpisodeSteps DEF FeedInv, EpisodeInv

\* A viewer's step that writes nothing: sockets only close, and a send of the done
\* broadcast is over once it was written or the socket is closed.
LEMMA SilentStepKeeps ==
  ASSUME FeedInv, UNCHANGED <<episodeVars, wire>>,
         FeedTypeOK', TickSendsSerialized',
         \A v \in Viewers :
           /\ socket'[v] = "open" => socket[v] = "open" /\ (v \in member' \/ v \in snapshotting')
           /\ socket'[v] = "away" => socket[v] = "away" /\ sendTask'[v] = sendTask[v]
           /\ \/ final'[v] = final[v]
              \/ final[v] = "waiting" /\ final'[v] = "over" /\ socket'[v] # "open"
              \/ final[v] = "sending" /\ final'[v] = "over"
  PROVE  FeedInv'
<1>1. EpisodeInv'
  BY EpisodeUntouched
<1>2. Wires' /\ PresenceInv' /\ FeedIsOrdered'
  BY DEF FeedInv, Wires, PresenceInv, FeedIsOrdered
<1>3. BroadcastInv'
  BY DEF FeedInv, BroadcastInv, FinalsOver, episodeVars
<1>4. WireInv'
  BY DEF FeedInv, WireInv, episodeVars
<1>5. ResultInv'
  BY DEF FeedInv, ResultInv, HasResult, episodeVars
<1> QED
  BY <1>1, <1>2, <1>3, <1>4, <1>5 DEF FeedInv

\* A viewer's step that writes one message to it.
LEMMA SendingStepKeeps ==
  ASSUME FeedInv, UNCHANGED episodeVars, NEW v \in Viewers, NEW m \in Messages, Sends(v, m),
         \/ m.type = "status" /\ wire[v] = <<>> /\ final'[v] = final[v]
         \/ m.type = "done" /\ final[v] = "waiting" /\ final'[v] = "sending",
         m.result = resultsDoc,
         FeedTypeOK', TickSendsSerialized',
         UNCHANGED sendTask, socket'[v] = "open", v \in member' \/ v \in snapshotting',
         \A w \in Viewers \ {v} :
           /\ socket'[w] = socket[w] /\ final'[w] = final[w]
           /\ w \in member' <=> w \in member
           /\ w \in snapshotting' <=> w \in snapshotting
  PROVE  FeedInv'
<1>1. EpisodeInv'
  BY EpisodeUntouched
<1>2. /\ wire'[v] = Append(wire[v], m) /\ \A w \in Viewers \ {v} : wire'[w] = wire[w]
      /\ Wires'
  BY AppendElements DEF Sends, FeedInv, Wires
<1>3. /\ Len(wire'[v]) = Len(wire[v]) + 1 /\ Len(wire[v]) \in Nat
      /\ wire'[v][Len(wire[v]) + 1] = m
      /\ \A i \in 1..Len(wire[v]) : wire'[v][i] = wire[v][i]
      /\ \A i, j \in 1..Len(wire'[v]) : i < j =>
           /\ wire'[v][j].type # "status"
           /\ wire'[v][i].type # "done"
           /\ wire'[v][i].type = "tick" /\ wire'[v][j].type = "tick" =>
                wire'[v][i].tick < wire'[v][j].tick
  BY <1>2, SendKeeps
<1>4. FeedIsOrdered'
  <2> SUFFICES ASSUME NEW u \in Viewers, NEW i \in 1..Len(wire'[u]), NEW j \in 1..Len(wire'[u]), i < j
               PROVE  /\ wire'[u][j].type # "status"
                      /\ wire'[u][i].type # "done"
                      /\ wire'[u][i].type = "tick" /\ wire'[u][j].type = "tick" =>
                           wire'[u][i].tick < wire'[u][j].tick
    BY DEF FeedIsOrdered
  <2>1. CASE u = v
    BY <1>3, <2>1
  <2>2. CASE u # v
    <3>1. wire'[u] = wire[u]
      BY <1>2, <2>2
    <3> QED
      BY <3>1 DEF FeedInv, FeedIsOrdered
  <2> QED
    BY <2>1, <2>2
<1>5. PresenceInv'
  BY <1>2 DEF FeedInv, PresenceInv
<1>6. BroadcastInv'
  BY DEF FeedInv, BroadcastInv, FinalsOver, episodeVars
<1>7. WireInv'
  <2>1. ASSUME NEW w \in Viewers \ {v}, NEW i \in 1..Len(wire'[w])
        PROVE  /\ wire'[w][i].type = "tick" => wire'[w][i].tick < tickCount'
               /\ wire'[w][i].type = "done" => final'[w] \in {"sending", "over"}
    BY <1>2, <2>1 DEF FeedInv, WireInv, episodeVars
  <2>2. ASSUME NEW i \in 1..Len(wire'[v])
        PROVE  /\ wire'[v][i].type = "tick" => wire'[v][i].tick < tickCount'
               /\ wire'[v][i].type = "done" => final'[v] \in {"sending", "over"}
    <3>1. CASE i = Len(wire[v]) + 1
      BY <1>3, <3>1
    <3>2. CASE i \in 1..Len(wire[v])
      BY <1>3, <3>2 DEF FeedInv, WireInv, episodeVars
    <3> QED
      BY <1>3, <2>2, <3>1, <3>2
  <2> QED
    BY <2>1, <2>2 DEF WireInv
<1>8. ResultInv'
  <2>1. HasResult(v)'
    <3>1. Len(wire[v]) + 1 \in 1..Len(wire'[v])
      BY <1>3
    <3>2. wire'[v][Len(wire[v]) + 1].result = resultsDoc'
      BY <1>3 DEF episodeVars
    <3> QED
      BY <3>1, <3>2 DEF HasResult
  <2>2. \A w \in Viewers \ {v} : HasResult(w) => HasResult(w)'
    BY <1>2 DEF HasResult, episodeVars
  <2> QED
    BY <2>1, <2>2 DEF FeedInv, ResultInv, episodeVars
<1> QED
  BY <1>1, <1>2, <1>4, <1>5, <1>6, <1>7, <1>8 DEF FeedInv

\* A viewer's steps keep the invariant.
LEMMA ViewerSteps ==
  ASSUME FeedInv, NEW v \in Viewers, Viewer(v)
  PROVE  FeedInv'
<1>0. /\ TypeOK /\ FeedTypeOK /\ TickSendsSerialized /\ PresenceInv
      /\ socket \in [Viewers -> {"away", "open", "closed", "gone"}]
      /\ sendTask \in [Viewers -> Nat]
      /\ final \in [Viewers -> {"idle", "waiting", "sending", "over", "unregistered"}]
  BY DEF FeedInv, FeedTypeOK
<1>1. CASE ViewerConnects(v)
  <2>1. /\ socket[v] = "away" /\ socket' = [socket EXCEPT ![v] = "open"]
        /\ Sends(v, StatusMsg(resultsDoc)) /\ UNCHANGED <<episodeVars, sendTask, final>>
        /\ \/ snapshotting' = snapshotting \cup {v} /\ UNCHANGED member
           \/ member' = member \cup {v} /\ UNCHANGED snapshotting
    BY <1>1 DEF ViewerConnects, Snapshot
  <2>2. v \notin member /\ v \notin snapshotting /\ sendTask[v] = 0 /\ wire[v] = <<>>
    BY <1>0, <2>1 DEF FeedTypeOK, PresenceInv
  <2>3. StatusMsg(resultsDoc) \in Messages /\ TypeOK'
    BY <1>0, <2>1, MessageTypes, EpisodeUntouched
  <2>4. \A w \in Viewers : wire'[w] \in Seq(Messages)
    BY <2>1, <2>3, AppendElements DEF Sends, FeedInv, Wires
  <2>5. FeedTypeOK'
    BY <1>0, <2>1, <2>2, <2>3, <2>4 DEF FeedTypeOK
  <2>6. TickSendsSerialized'
    <3>1. sendTask'[v] + InSnapshot(v)' <= 1
      BY <2>1, <2>2 DEF InSnapshot
    <3>2. ASSUME NEW w \in Viewers \ {v} PROVE sendTask'[w] + InSnapshot(w)' <= 1
      <4>1. sendTask' = sendTask /\ InSnapshot(w)' = InSnapshot(w)
        BY <2>1 DEF InSnapshot
      <4> QED
        BY <1>0, <4>1 DEF TickSendsSerialized
    <3> QED
      BY <3>1, <3>2 DEF TickSendsSerialized
  <2>7. /\ socket'[v] = "open" /\ (v \in member' \/ v \in snapshotting')
        /\ \A w \in Viewers \ {v} :
             /\ socket'[w] = socket[w] /\ final'[w] = final[w]
             /\ w \in member' <=> w \in member
             /\ w \in snapshotting' <=> w \in snapshotting
    BY <1>0, <2>1
  <2>8. PICK m \in Messages : m = StatusMsg(resultsDoc)
    BY <2>3
  <2>9. m.type = "status" /\ m.result = resultsDoc
    BY <2>8 DEF StatusMsg
  <2>10. /\ UNCHANGED episodeVars /\ UNCHANGED sendTask /\ final'[v] = final[v]
         /\ Sends(v, m) /\ wire[v] = <<>>
    BY <2>1, <2>2, <2>8
  <2> QED
    BY <2>5, <2>6, <2>7, <2>9, <2>10, SendingStepKeeps, Zenon
<1>2. CASE SnapshotSent(v)
  <2>1. FeedTypeOK'
    BY <1>0, <1>2, EpisodeUntouched DEF SnapshotSent, FeedTypeOK
  <2>2. TickSendsSerialized'
    BY <1>0, <1>2 DEF SnapshotSent, TickSendsSerialized, InSnapshot
  <2> QED
    BY <1>0, <1>2, <2>1, <2>2, SilentStepKeeps DEF SnapshotSent, PresenceInv
<1>3. CASE ViewerCloses(v)
  <2>1. FeedTypeOK'
    BY <1>0, <1>3, EpisodeUntouched DEF ViewerCloses, FeedTypeOK
  <2>2. TickSendsSerialized'
    BY <1>0, <1>3 DEF ViewerCloses, TickSendsSerialized, InSnapshot
  <2> QED
    BY <1>0, <1>3, <2>1, <2>2, SilentStepKeeps DEF ViewerCloses, PresenceInv
<1>4. CASE ViewerHandlerEnds(v)
  <2>1. FeedTypeOK'
    BY <1>0, <1>4, EpisodeUntouched DEF ViewerHandlerEnds, FeedTypeOK
  <2>2. TickSendsSerialized'
    BY <1>0, <1>4 DEF ViewerHandlerEnds, TickSendsSerialized, InSnapshot
  <2> QED
    BY <1>0, <1>4, <2>1, <2>2, SilentStepKeeps DEF ViewerHandlerEnds, PresenceInv
<1>5. CASE TickSendReturns(v)
  <2>1. /\ sendTask' \in [Viewers -> Nat] /\ sendTask[v] > 0
        /\ \A w \in Viewers : sendTask'[w] <= sendTask[w] /\ (w # v => sendTask'[w] = sendTask[w])
    BY <1>0, <1>5 DEF TickSendReturns
  <2>2. FeedTypeOK'
    BY <1>0, <1>5, <2>1, EpisodeUntouched DEF TickSendReturns, FeedTypeOK
  <2>3. TickSendsSerialized'
    BY <1>0, <1>5, <2>1 DEF TickSendReturns, TickSendsSerialized, InSnapshot
  <2>4. socket[v] # "away"
    BY <1>0, <2>1 DEF PresenceInv
  <2> QED
    BY <1>0, <1>5, <2>1, <2>2, <2>3, <2>4, SilentStepKeeps DEF TickSendReturns, PresenceInv
<1>6. CASE FinalSend(v) /\ socket[v] = "open"
  <2>1. /\ final[v] = "waiting" /\ final' = [final EXCEPT ![v] = "sending"] /\ Sends(v, DoneMsg)
        /\ UNCHANGED <<episodeVars, socket, member, snapshotting, sendTask>>
    BY <1>6 DEF FinalSend
  <2>2. DoneMsg \in Messages /\ TypeOK'
    BY <1>0, <2>1, MessageTypes, EpisodeUntouched
  <2>3. \A w \in Viewers : wire'[w] \in Seq(Messages)
    BY <2>1, <2>2, AppendElements DEF Sends, FeedInv, Wires
  <2>4. FeedTypeOK'
    BY <1>0, <2>1, <2>2, <2>3 DEF FeedTypeOK
  <2>5. TickSendsSerialized'
    BY <1>0, <2>1 DEF TickSendsSerialized, InSnapshot
  <2>6. v \in member' \/ v \in snapshotting'
    BY <1>0, <1>6, <2>1 DEF PresenceInv
  <2> QED
    BY <1>0, <1>6, <2>1, <2>2, <2>4, <2>5, <2>6, SendingStepKeeps DEF DoneMsg
<1>7. CASE FinalSend(v) /\ socket[v] # "open"
  <2>1. FeedTypeOK'
    BY <1>0, <1>7, EpisodeUntouched DEF FinalSend, FeedTypeOK
  <2>2. TickSendsSerialized'
    BY <1>0, <1>7 DEF FinalSend, TickSendsSerialized, InSnapshot
  <2> QED
    BY <1>0, <1>7, <2>1, <2>2, SilentStepKeeps DEF FinalSend, PresenceInv
<1>8. CASE FinalSendReturns(v)
  <2>0. v \notin snapshotting \/ socket[v] # "away"
    BY <1>0 DEF FeedTypeOK
  <2>1. FeedTypeOK'
    <3>1. CASE socket' = socket
      BY <1>0, <1>8, <3>1, EpisodeUntouched DEF FinalSendReturns, FeedTypeOK
    <3>2. CASE socket' = [socket EXCEPT ![v] = "closed"]
      BY <1>0, <1>8, <3>2, EpisodeUntouched DEF FinalSendReturns, FeedTypeOK
    <3> QED
      BY <1>8, <3>1, <3>2 DEF FinalSendReturns
  <2>2. TickSendsSerialized'
    BY <1>0, <1>8 DEF FinalSendReturns, TickSendsSerialized, InSnapshot
  <2> QED
    BY <1>0, <1>8, <2>1, <2>2, SilentStepKeeps DEF FinalSendReturns, PresenceInv
<1> QED
  BY <1>1, <1>2, <1>3, <1>4, <1>5, <1>6, <1>7, <1>8 DEF Viewer, PreviousSendOver, PreviousSendOutwaited

\* A tick and its broadcast keep the invariant: the engine is at work, so no done
\* message is out, and no earlier tick has this number.
LEMMA TickKeeps ==
  ASSUME FeedInv, TickAndBroadcast
  PROVE  FeedInv'
<1>0. /\ EngineTick /\ pc = "engine" /\ pc' = pc /\ tickCount' = tickCount + 1
      /\ UNCHANGED <<resultsDoc, socket, member, snapshotting, final>>
  BY DEF TickAndBroadcast, EngineTick
<1>1. EpisodeInv' /\ TypeOK'
  <2>1. EpisodeNext
    BY <1>0 DEF EpisodeNext
  <2> QED
    BY <2>1, EpisodeSteps DEF FeedInv, EpisodeInv
<1>2. /\ TypeOK /\ FeedTypeOK /\ TickSendsSerialized /\ PresenceInv /\ Wires
      /\ sendTask \in [Viewers -> Nat]
      /\ \A v \in Viewers : final[v] = "idle"
      /\ TickMsg(tickCount) \in Messages /\ tickCount \in Nat
  BY <1>0, MessageTypes DEF FeedInv, FeedTypeOK, BroadcastInv, QuietPcs
<1>3. \A v \in Viewers :
        \/ wire'[v] = wire[v] /\ sendTask'[v] = sendTask[v]
        \/ /\ wire'[v] = Append(wire[v], TickMsg(tickCount)) /\ sendTask'[v] = sendTask[v] + 1
           /\ socket[v] = "open" /\ v \in member /\ sendTask[v] = 0
  BY DEF TickAndBroadcast, Receivers
<1>4. sendTask' \in [Viewers -> Nat]
  <2>1. CASE UNCHANGED sendTask
    BY <1>2, <2>1
  <2>2. CASE sendTask' = [v \in Viewers |-> IF v \in Receivers THEN sendTask[v] + 1 ELSE sendTask[v]]
    BY <1>2, <2>2
  <2> QED
    BY <2>1, <2>2 DEF TickAndBroadcast
<1>5. Wires'
  <2>1. \A v \in Viewers : Append(wire[v], TickMsg(tickCount)) \in Seq(Messages) /\ wire[v] \in Seq(Messages)
    BY <1>2, AppendElements DEF Wires
  <2>2. CASE UNCHANGED wire
    BY <1>2, <2>2 DEF Wires
  <2>3. CASE wire' = [v \in Viewers |-> IF v \in Receivers THEN Append(wire[v], TickMsg(tickCount)) ELSE wire[v]]
    BY <2>1, <2>3 DEF Wires
  <2> QED
    BY <2>2, <2>3 DEF TickAndBroadcast
<1>6. FeedTypeOK'
  <2>1. \A v \in Viewers : wire'[v] \in Seq(Messages)
    BY <1>5 DEF Wires
  <2> QED
    BY <1>0, <1>1, <1>2, <1>4, <2>1 DEF FeedTypeOK
<1>7. PresenceInv'
  BY <1>0, <1>2, <1>3 DEF PresenceInv
<1>8. TickSendsSerialized'
  <2> SUFFICES ASSUME NEW v \in Viewers PROVE sendTask'[v] + InSnapshot(v)' <= 1
    BY DEF TickSendsSerialized
  <2>1. InSnapshot(v)' = InSnapshot(v) /\ sendTask[v] + InSnapshot(v) <= 1
    BY <1>0, <1>2 DEF InSnapshot, TickSendsSerialized
  <2>2. CASE sendTask'[v] = sendTask[v]
    BY <2>1, <2>2
  <2>3. CASE sendTask'[v] = sendTask[v] + 1 /\ v \in member /\ sendTask[v] = 0
    <3>1. InSnapshot(v)' = 0
      BY <1>0, <1>2, <2>3 DEF FeedTypeOK, InSnapshot
    <3> QED
      BY <2>3, <3>1
  <2> QED
    BY <1>3, <2>2, <2>3
<1>9. BroadcastInv' /\ ResultInv'
  BY <1>0, <1>2 DEF BroadcastInv, ResultInv, QuietPcs, OverPcs
<1>10. ASSUME NEW v \in Viewers, wire'[v] = Append(wire[v], TickMsg(tickCount))
       PROVE  /\ \A i \in 1..Len(wire'[v]) :
                   /\ wire'[v][i].type = "tick" => wire'[v][i].tick < tickCount'
                   /\ wire'[v][i].type # "done"
              /\ \A i, j \in 1..Len(wire'[v]) : i < j =>
                   /\ wire'[v][j].type # "status"
                   /\ wire'[v][i].type # "done"
                   /\ wire'[v][i].type = "tick" /\ wire'[v][j].type = "tick" =>
                        wire'[v][i].tick < wire'[v][j].tick
  <2> DEFINE m == TickMsg(tickCount)
  <2>1. m.type = "tick" /\ m.tick = tickCount /\ m \in Messages /\ final[v] = "idle"
    BY <1>2 DEF TickMsg
  <2> HIDE DEF m
  <2>2. wire'[v] = Append(wire[v], m)
    BY <1>10 DEF m
  <2>3. /\ Len(wire'[v]) = Len(wire[v]) + 1 /\ Len(wire[v]) \in Nat
        /\ wire'[v][Len(wire[v]) + 1] = m
        /\ \A i \in 1..Len(wire[v]) : wire'[v][i] = wire[v][i]
        /\ \A i, j \in 1..Len(wire'[v]) : i < j =>
             /\ wire'[v][j].type # "status"
             /\ wire'[v][i].type # "done"
             /\ wire'[v][i].type = "tick" /\ wire'[v][j].type = "tick" =>
                  wire'[v][i].tick < wire'[v][j].tick
    BY <2>1, <2>2, SendKeeps
  <2>4. ASSUME NEW i \in 1..Len(wire'[v])
        PROVE  /\ wire'[v][i].type = "tick" => wire'[v][i].tick < tickCount'
               /\ wire'[v][i].type # "done"
    <3>1. CASE i = Len(wire[v]) + 1
      BY <1>0, <1>2, <2>1, <2>3, <3>1
    <3>2. CASE i \in 1..Len(wire[v])
      <4>1. /\ wire[v][i].type = "tick" => wire[v][i].tick < tickCount
            /\ wire[v][i].type # "done"
        BY <2>1, <3>2 DEF FeedInv, WireInv
      <4>2. wire[v][i] \in Messages
        BY <1>2, <3>2 DEF Wires
      <4>3. wire[v][i].tick \in Nat
        BY <4>2 DEF Messages
      <4> QED
        BY <1>0, <1>2, <2>3, <3>2, <4>1, <4>3
    <3> QED
      BY <2>3, <2>4, <3>1, <3>2
  <2> QED
    BY <2>3, <2>4
<1>11. WireInv'
  <2> SUFFICES ASSUME NEW v \in Viewers, NEW i \in 1..Len(wire'[v])
               PROVE  /\ wire'[v][i].type = "tick" => wire'[v][i].tick < tickCount'
                      /\ wire'[v][i].type # "done"
    BY DEF WireInv
  <2>1. CASE wire'[v] = wire[v]
    <3>1. /\ wire[v][i].type = "tick" => wire[v][i].tick < tickCount
          /\ wire[v][i].type # "done"
      BY <1>2, <2>1 DEF FeedInv, WireInv
    <3>2. wire[v][i] \in Messages
      BY <1>2, <2>1 DEF Wires
    <3>3. wire[v][i].tick \in Nat
      BY <3>2 DEF Messages
    <3> QED
      BY <1>0, <1>2, <2>1, <3>1, <3>3
  <2>2. CASE wire'[v] = Append(wire[v], TickMsg(tickCount))
    BY <1>10, <2>2
  <2> QED
    BY <1>3, <2>1, <2>2
<1>12. FeedIsOrdered'
  <2> SUFFICES ASSUME NEW u \in Viewers, NEW i \in 1..Len(wire'[u]), NEW j \in 1..Len(wire'[u]), i < j
               PROVE  /\ wire'[u][j].type # "status"
                      /\ wire'[u][i].type # "done"
                      /\ wire'[u][i].type = "tick" /\ wire'[u][j].type = "tick" =>
                           wire'[u][i].tick < wire'[u][j].tick
    BY DEF FeedIsOrdered
  <2>1. CASE wire'[u] = wire[u]
    BY <2>1 DEF FeedInv, FeedIsOrdered
  <2>2. CASE wire'[u] = Append(wire[u], TickMsg(tickCount))
    BY <1>10, <2>2
  <2> QED
    BY <1>3, <2>1, <2>2
<1> QED
  BY <1>1, <1>5, <1>6, <1>7, <1>8, <1>9, <1>11, <1>12 DEF FeedInv

\* The episode's other steps write to no viewer; the one that starts the done
\* broadcast gives every viewer that is there a final send, or finds it in its
\* snapshot's.
LEMMA EpisodeStepKeeps ==
  ASSUME FeedInv, EpisodeNext, tickCount' = tickCount, FeedAllows,
         IF AnnounceStarts THEN FinalsStart ELSE UNCHANGED final,
         UNCHANGED <<socket, member, snapshotting, sendTask, wire>>
  PROVE  FeedInv'
<1>1. EpisodeInv' /\ TypeOK' /\ TypeOK
  BY EpisodeSteps DEF FeedInv, EpisodeInv
<1>2. /\ pc' \in QuietPcs => pc \in QuietPcs
      /\ pc' \in AnnouncePcs => pc \in QuietPcs \cup AnnouncePcs
      /\ pc \in QuietPcs => pc' \in QuietPcs \cup AnnouncePcs
      /\ pc' = "announce" => pc \in {"engine", "announce"}
      /\ pc' \in OverPcs => pc \in OverPcs \cup {"announce"}
      /\ pc \in {"announce"} \cup OverPcs => resultsDoc' = resultsDoc
  BY EpisodeMoves DEF FeedInv
<1>3. AnnounceStarts => (pc \in QuietPcs /\ pc' \in AnnouncePcs /\ FinalsStart)
  BY <1>2 DEF AnnounceStarts
<1>4. ~AnnounceStarts => final' = final
  OBVIOUS
<1>5. FeedTypeOK'
  <2>1. final' \in [Viewers -> {"idle", "waiting", "sending", "over", "unregistered"}]
    BY <1>3, <1>4 DEF FinalsStart, FeedInv, FeedTypeOK
  <2> QED
    BY <1>1, <2>1 DEF FeedInv, FeedTypeOK
<1>6. Wires' /\ PresenceInv' /\ TickSendsSerialized' /\ FeedIsOrdered'
  BY DEF FeedInv, Wires, PresenceInv, TickSendsSerialized, InSnapshot, FeedIsOrdered
<1>7. BroadcastInv'
  <2>1. pc' \in QuietPcs => final' = final /\ pc \in QuietPcs
    BY <1>2, <1>3, <1>4 DEF QuietPcs, AnnouncePcs
  <2>2. pc' \notin QuietPcs \cup AnnouncePcs => FinalsOver'
    <3> SUFFICES ASSUME pc' \notin QuietPcs \cup AnnouncePcs PROVE FinalsOver'
      OBVIOUS
    <3>1. final' = final
      BY <1>3, <1>4
    <3>2. CASE pc \in AnnouncePcs
      <4>1. FinalsOver
        BY <3>2 DEF FeedAllows, AnnounceStarts
      <4> QED
        BY <3>1, <4>1 DEF FinalsOver
    <3>3. CASE pc \in QuietPcs
      BY <1>2, <3>3
    <3>4. CASE pc \notin QuietPcs \cup AnnouncePcs
      BY <3>1, <3>4 DEF FeedInv, BroadcastInv, FinalsOver
    <3> QED
      BY <3>2, <3>3, <3>4
  <2> QED
    BY <2>1, <2>2 DEF FeedInv, BroadcastInv
<1>8. WireInv'
  <2>1. CASE AnnounceStarts
    <3>1. \A v \in Viewers : \A i \in 1..Len(wire[v]) : wire[v][i].type # "done"
      BY <1>3, <2>1 DEF FeedInv, WireInv, BroadcastInv
    <3> QED
      BY <3>1 DEF FeedInv, WireInv
  <2>2. CASE ~AnnounceStarts
    BY <1>4, <2>2 DEF FeedInv, WireInv
  <2> QED
    BY <2>1, <2>2
<1>9. ResultInv'
  <2> SUFFICES ASSUME pc' \in {"announce"} \cup OverPcs, NEW v \in Viewers,
                      socket'[v] = "open", final'[v] \in {"sending", "over"}
               PROVE  HasResult(v)'
    BY DEF ResultInv
  <2>1. CASE AnnounceStarts
    <3>1. v \in member \/ v \in snapshotting
      BY DEF FeedInv, PresenceInv
    <3>2. final'[v] \in {"unregistered", "waiting"}
      BY <1>3, <2>1, <3>1 DEF FinalsStart
    <3> QED
      BY <3>2
  <2>2. CASE ~AnnounceStarts
    <3>1. pc \in {"announce"} \cup OverPcs
      BY <1>2, <2>2 DEF AnnounceStarts, AnnouncePcs
    <3>2. HasResult(v)
      BY <1>4, <2>2, <3>1 DEF FeedInv, ResultInv
    <3> QED
      BY <1>2, <3>1, <3>2 DEF HasResult
  <2> QED
    BY <2>1, <2>2
<1> QED
  BY <1>1, <1>5, <1>6, <1>7, <1>8, <1>9 DEF FeedInv

\* Every step keeps the invariant.
LEMMA FeedSteps == FeedInv /\ [FeedNext]_feedEpisodeVars => FeedInv'
<1> SUFFICES ASSUME FeedInv, [FeedNext]_feedEpisodeVars PROVE FeedInv'
  OBVIOUS
<1>1. CASE TickAndBroadcast
  BY <1>1, TickKeeps
<1>2. CASE EpisodeStep /\ ~TickAndBroadcast
  BY <1>2, EpisodeStepKeeps DEF EpisodeStep
<1>3. CASE \E v \in Viewers : Viewer(v)
  BY <1>3, ViewerSteps
<1>4. CASE UNCHANGED feedEpisodeVars
  <2>1. UNCHANGED episodeVars /\ UNCHANGED <<socket, member, snapshotting, sendTask, final, wire>>
    BY <1>4 DEF feedEpisodeVars, feedVars
  <2>2. FeedTypeOK' /\ TickSendsSerialized'
    BY <2>1, EpisodeUntouched DEF FeedInv, FeedTypeOK, TickSendsSerialized, InSnapshot
  <2> QED
    BY <2>1, <2>2, SilentStepKeeps DEF FeedInv, PresenceInv
<1> QED
  BY <1>1, <1>2, <1>3, <1>4 DEF FeedNext

\* The invariant holds in every state.
LEMMA FeedInvariant == FeedSpec => []FeedInv
<1> QED
  BY FeedStarts, FeedSteps, PTL DEF FeedSpec

-----------------------------------------------------------------------------
(* What the feed promises.                                                 *)

\* The viewers' sockets, sends and messages keep their types.
THEOREM FeedTypeCorrect == FeedSpec => []FeedTypeOK
<1>1. FeedInv => FeedTypeOK
  BY DEF FeedInv
<1> QED
  BY <1>1, FeedInvariant, PTL

\* A viewer reads its status, then ticks in increasing order, and nothing after
\* the done message (PROTOCOL.md, "Global viewer").
THEOREM ViewersReadInOrder == FeedSpec => []FeedIsOrdered
<1>1. FeedInv => FeedIsOrdered
  BY DEF FeedInv
<1> QED
  BY <1>1, FeedInvariant, PTL

\* A tick message's send never overlaps another one's or the snapshot's
\* (server.py 219-224, 309-312).
THEOREM SendsAreSerialized == FeedSpec => []TickSendsSerialized
<1>1. FeedInv => TickSendsSerialized
  BY DEF FeedInv
<1> QED
  BY <1>1, FeedInvariant, PTL

\* After the done broadcast every viewer still there has been sent the result,
\* but for those the broadcast found in their snapshot's send (server.py
\* 279-283, 293-295).
THEOREM ViewersHaveTheResult == FeedSpec => []ViewersGetTheResult
<1>1. FeedInv => ViewersGetTheResult
  <2> SUFFICES ASSUME FeedInv, BroadcastOver, NEW v \in Viewers, socket[v] = "open", final[v] # "unregistered"
               PROVE  \E i \in 1..Len(wire[v]) : wire[v][i].result = resultsDoc
    BY DEF ViewersGetTheResult
  <2>1. pc \in OverPcs
    BY DEF BroadcastOver, OverPcs
  <2>2. final[v] = "over"
    BY <2>1 DEF FeedInv, BroadcastInv, FinalsOver, QuietPcs, AnnouncePcs, OverPcs
  <2> QED
    BY <2>1, <2>2 DEF FeedInv, ResultInv, HasResult
<1> QED
  BY <1>1, FeedInvariant, PTL

-----------------------------------------------------------------------------
(* The episode beneath the feed.                                           *)

\* "Viewer sockets can never affect the episode" (server.py 339): whatever viewers
\* do, what the composition does to the episode the episode could do by itself.
THEOREM FeedImplementsEpisode == FeedSpec => EpisodeSpec
<1>1. FeedInit => EpisodeInit
  BY DEF FeedInit
<1>2. [FeedNext]_feedEpisodeVars => [EpisodeNext]_episodeVars
  <2> SUFFICES ASSUME [FeedNext]_feedEpisodeVars PROVE [EpisodeNext]_episodeVars
    OBVIOUS
  <2>1. CASE EpisodeStep
    BY <2>1 DEF EpisodeStep, TickAndBroadcast, EpisodeNext
  <2>2. CASE \E v \in Viewers : Viewer(v)
    BY <2>2 DEF Viewer, ViewerConnects, SnapshotSent, ViewerCloses, ViewerHandlerEnds,
                TickSendReturns, PreviousSendOver, PreviousSendOutwaited, FinalSend,
                FinalSendReturns
  <2>3. CASE UNCHANGED feedEpisodeVars
    BY <2>3 DEF feedEpisodeVars
  <2> QED
    BY <2>1, <2>2, <2>3 DEF FeedNext
<1> QED
  BY <1>1, <1>2, PTL DEF FeedSpec, EpisodeSpec

\* With viewers, too, one outcome is published and no artifact forgotten.
THEOREM FeedImplementsPublication ==
  FeedSpec => PublicationHolds /\ []NoArtifactForgotten /\ []ReportBlamesFirstNoShow
BY FeedImplementsEpisode, EpisodeImplementsPublication, ArtifactsAreAttempted, TheReportIsJust, PTL

\* How far a viewer's done message is from its end.
FinalRank(v) ==
  CASE final[v] = "idle" -> 3
    [] final[v] = "waiting" -> 2
    [] final[v] = "sending" -> 1
    [] OTHER -> 0

FinalsLeft == \E v \in Viewers : /\ FinalRank(v)' < FinalRank(v)
                                /\ \A u \in Viewers \ {v} : FinalRank(u)' = FinalRank(u)

ViewerComesOrGoes ==
  \E v \in Viewers : \/ ViewerConnects(v) \/ SnapshotSent(v) \/ ViewerCloses(v)
                     \/ ViewerHandlerEnds(v) \/ TickSendReturns(v)

\* A step brings the episode nearer to its end, or one of the two gathers of the
\* done broadcast, or it is a player's, a viewer's or its tick send's own.
FeedRunsDown ==
  [][\/ EpisodeRank' < EpisodeRank
     \/ /\ EpisodeRank' = EpisodeRank /\ final' = final
        /\ \/ \E s \in Slots : /\ SendRank(s)' < SendRank(s)
                               /\ \A t \in Slots \ {s} : SendRank(t)' = SendRank(t)
           \/ ComesOrGoes /\ \A t \in Slots : SendRank(t)' <= SendRank(t)
     \/ /\ UNCHANGED episodeVars
        /\ FinalsLeft \/ (ViewerComesOrGoes /\ final' = final)]_feedEpisodeVars

LEMMA FinalStepRank ==
  ASSUME FeedInv, NEW v \in Viewers, FinalSend(v) \/ FinalSendReturns(v)
  PROVE  UNCHANGED episodeVars /\ FinalsLeft
<1>1. final \in [Viewers -> {"idle", "waiting", "sending", "over", "unregistered"}]
  BY DEF FeedInv, FeedTypeOK
<1>2. \/ /\ final[v] = "waiting"
         /\ final' \in {[final EXCEPT ![v] = "sending"], [final EXCEPT ![v] = "over"]}
      \/ final[v] = "sending" /\ final' = [final EXCEPT ![v] = "over"]
  BY DEF FinalSend, FinalSendReturns
<1>3. FinalRank(v)' < FinalRank(v)
  BY <1>1, <1>2 DEF FinalRank
<1>4. \A u \in Viewers \ {v} : FinalRank(u)' = FinalRank(u)
  BY <1>1, <1>2 DEF FinalRank
<1>5. UNCHANGED episodeVars
  BY DEF FinalSend, FinalSendReturns
<1> QED
  BY <1>3, <1>4, <1>5 DEF FinalsLeft

LEMMA FeedStepRank ==
  ASSUME FeedInv, FeedInv', FeedNext
  PROVE  \/ EpisodeRank' < EpisodeRank
         \/ /\ EpisodeRank' = EpisodeRank /\ final' = final
            /\ \/ \E s \in Slots : /\ SendRank(s)' < SendRank(s)
                                   /\ \A t \in Slots \ {s} : SendRank(t)' = SendRank(t)
               \/ ComesOrGoes /\ \A t \in Slots : SendRank(t)' <= SendRank(t)
         \/ /\ UNCHANGED episodeVars
            /\ FinalsLeft \/ (ViewerComesOrGoes /\ final' = final)
<1>0. EpisodeInv /\ EpisodeInv'
  BY DEF FeedInv
<1>1. CASE EpisodeStep
  <2>1. EpisodeNext
    BY <1>1 DEF EpisodeStep, TickAndBroadcast, EpisodeNext
  <2>2. pc' = pc => final' = final
    BY <1>1 DEF EpisodeStep, TickAndBroadcast, AnnounceStarts
  <2> QED
    BY <1>0, <2>1, <2>2, EpisodeStepRank
<1>2. ASSUME NEW v \in Viewers, Viewer(v)
      PROVE  UNCHANGED episodeVars /\ (FinalsLeft \/ (ViewerComesOrGoes /\ final' = final))
  <2>1. CASE FinalSend(v) \/ FinalSendReturns(v)
    BY <2>1, FinalStepRank
  <2>2. CASE \/ ViewerConnects(v) \/ SnapshotSent(v) \/ ViewerCloses(v)
             \/ ViewerHandlerEnds(v) \/ TickSendReturns(v)
    <3>1. UNCHANGED <<episodeVars, final>>
      BY <2>2 DEF ViewerConnects, SnapshotSent, ViewerCloses, ViewerHandlerEnds, TickSendReturns
    <3> QED
      BY <2>2, <3>1 DEF ViewerComesOrGoes
  <2> QED
    BY <1>2, <2>1, <2>2 DEF Viewer, PreviousSendOver, PreviousSendOutwaited
<1> QED
  BY <1>1, <1>2 DEF FeedNext

\* Viewers cannot add to what is left: each has one done message, of at most three
\* steps, and between its own doings the episode comes nearer to its end.
THEOREM TheFeedRunsDown ==
  FeedSpec => /\ FeedRunsDown
              /\ [](EpisodeRank \in 0..(8 + MaxTicks + 3 * Attempts))
              /\ [](EpisodeRank = 0 => Exited)
<1>1. FeedInv /\ FeedInv' /\ [FeedNext]_feedEpisodeVars =>
        [\/ EpisodeRank' < EpisodeRank
         \/ /\ EpisodeRank' = EpisodeRank /\ final' = final
            /\ \/ \E s \in Slots : /\ SendRank(s)' < SendRank(s)
                                   /\ \A t \in Slots \ {s} : SendRank(t)' = SendRank(t)
               \/ ComesOrGoes /\ \A t \in Slots : SendRank(t)' <= SendRank(t)
         \/ /\ UNCHANGED episodeVars
            /\ FinalsLeft \/ (ViewerComesOrGoes /\ final' = final)]_feedEpisodeVars
  BY FeedStepRank
<1> QED
  BY <1>1, FeedInvariant, FeedImplementsEpisode, EpisodeComesToItsEnd, PTL DEF FeedSpec, FeedRunsDown
=============================================================================
