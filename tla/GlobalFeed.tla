----------------------------- MODULE GlobalFeed ------------------------------
(***************************************************************************)
(* server.py's broadcast-only viewer feed (_handle_global,                 *)
(* _broadcast_global, _global_send and the viewers' half of                *)
(* _broadcast_done), composed with the episode that feeds it.              *)
(*                                                                         *)
(* A send_str call puts its message on the wire when it starts and returns *)
(* when the transport lets it: a viewer that stops reading keeps it        *)
(* suspended.  wire[v] is what was written to v, in order; the calls that  *)
(* have not returned are snapshotting, sendTask and final.                 *)
(***************************************************************************)
EXTENDS RunEpisode, Sequences

CONSTANTS Viewers,          \* viewers' connection attempts
          TickEvery         \* GLOBAL_TICK_EVERY

ASSUME FeedAssumption == TickEvery \in Nat \ {0}

VARIABLES
  socket,        \* socket[v]: the viewer's websocket and its handler
  member,        \* _global_wss
  snapshotting,  \* viewers whose handler is suspended in the snapshot's send
  sendTask,      \* sendTask[v]: the tick messages' sends that have not returned
  final,         \* final[v]: v's send_and_close_global
  wire           \* wire[v]: the messages written to v's socket

feedVars == <<socket, member, snapshotting, sendTask, final, wire>>
feedEpisodeVars == <<episodeVars, feedVars>>

StatusMsg(doc) == [type |-> "status", tick |-> 0, result |-> doc]
TickMsg(t) == [type |-> "tick", tick |-> t, result |-> NoDoc]
DoneMsg == [type |-> "done", tick |-> 0, result |-> resultsDoc]

Messages == [type : {"status", "tick", "done"}, tick : Nat, result : Docs]

FeedTypeOK ==
  /\ TypeOK
  /\ socket \in [Viewers -> {"away", "open", "closed", "gone"}]
  /\ member \subseteq {v \in Viewers : socket[v] \in {"open", "closed"}}
  /\ snapshotting \subseteq {v \in Viewers : socket[v] \in {"open", "closed"}} \ member
  /\ sendTask \in [Viewers -> Nat]
  /\ final \in [Viewers -> {"idle", "waiting", "sending", "over", "unregistered"}]
  /\ \A v \in Viewers : wire[v] \in Seq(Messages)

FeedInit ==
  /\ EpisodeInit
  /\ socket = [v \in Viewers |-> "away"]
  /\ member = {} /\ snapshotting = {}
  /\ sendTask = [v \in Viewers |-> 0]
  /\ final = [v \in Viewers |-> "idle"]
  /\ wire = [v \in Viewers |-> <<>>]

Sends(v, m) == wire' = [wire EXCEPT ![v] = Append(@, m)]

-----------------------------------------------------------------------------
(* A viewer's handler.                                                     *)

\* Mutant: the snapshot of a finished episode has no result.
Snapshot_WithoutResult == StatusMsg(NoDoc)

\* The status snapshot; after the episode it carries the results document.
Snapshot == StatusMsg(resultsDoc)

\* prepare() has returned: the snapshot is built and its send starts.  A send
\* that does not suspend registers the viewer in the same step.
ViewerConnects(v) ==
  /\ Serving /\ socket[v] = "away"
  /\ socket' = [socket EXCEPT ![v] = "open"]
  /\ Sends(v, Snapshot)
  /\ \/ snapshotting' = snapshotting \cup {v} /\ UNCHANGED member
     \/ member' = member \cup {v} /\ UNCHANGED snapshotting
  /\ UNCHANGED <<episodeVars, sendTask, final>>

\* The snapshot's send returned: only now is the viewer registered.
SnapshotSent(v) ==
  /\ Serving /\ v \in snapshotting /\ socket[v] = "open"
  /\ snapshotting' = snapshotting \ {v}
  /\ member' = member \cup {v}
  /\ UNCHANGED <<episodeVars, socket, sendTask, final, wire>>

\* The viewer's connection is lost or closed from its side.
ViewerCloses(v) ==
  /\ Serving /\ socket[v] = "open"
  /\ socket' = [socket EXCEPT ![v] = "closed"]
  /\ UNCHANGED <<episodeVars, member, snapshotting, sendTask, final, wire>>

\* Mutant: the finally does not discard the socket.
ViewerHandlerEnds_NotDiscarded(v) ==
  /\ Serving /\ socket[v] = "closed"
  /\ socket' = [socket EXCEPT ![v] = "gone"]
  /\ snapshotting' = snapshotting \ {v}
  /\ UNCHANGED <<episodeVars, member, sendTask, final, wire>>

\* The handler ends: its finally, or the exception of the snapshot's send.
\* Forgetting the entry of a send task does not end the task.
ViewerHandlerEnds(v) ==
  /\ Serving /\ socket[v] = "closed"
  /\ socket' = [socket EXCEPT ![v] = "gone"]
  /\ member' = member \ {v}
  /\ snapshotting' = snapshotting \ {v}
  /\ UNCHANGED <<episodeVars, sendTask, final, wire>>

\* A tick message's send returns, or raises on a closed socket.
TickSendReturns(v) ==
  /\ Serving /\ sendTask[v] > 0
  /\ sendTask' = [sendTask EXCEPT ![v] = @ - 1]
  /\ UNCHANGED <<episodeVars, socket, member, snapshotting, final, wire>>

-----------------------------------------------------------------------------
(* The broadcasts.                                                         *)

\* Mutant: a broadcast does not look at the previous send.
Receivers_NotSerialized == {v \in member : socket[v] = "open"}

\* Who gets a tick message: open sockets whose previous send is over.
Receivers == {v \in member : socket[v] = "open" /\ sendTask[v] = 0}

\* on_tick: the writer records the tick, every TickEvery-th is broadcast.
TickAndBroadcast ==
  /\ EngineTick
  /\ IF tickCount % TickEvery = 0
       THEN /\ wire' = [v \in Viewers |-> IF v \in Receivers
                                            THEN Append(wire[v], TickMsg(tickCount))
                                            ELSE wire[v]]
            /\ sendTask' = [v \in Viewers |-> IF v \in Receivers
                                                THEN sendTask[v] + 1
                                                ELSE sendTask[v]]
       ELSE UNCHANGED <<wire, sendTask>>
  /\ UNCHANGED <<socket, member, snapshotting, final>>

AnnounceStarts == pc \notin AnnouncePcs /\ pc' \in AnnouncePcs

\* _broadcast_done: one send_and_close_global per registered open viewer.  A
\* viewer still in its snapshot's send is in no broadcast ("unregistered").
FinalsStart ==
  final' = [v \in Viewers |->
              IF v \in snapshotting THEN "unregistered"
              ELSE IF v \in member /\ socket[v] = "open" THEN "waiting" ELSE "over"]

\* The done message is written; on a closed socket send_str raises.
FinalSend(v) ==
  /\ final[v] = "waiting"
  /\ IF socket[v] = "open"
       THEN Sends(v, DoneMsg) /\ final' = [final EXCEPT ![v] = "sending"]
       ELSE UNCHANGED wire /\ final' = [final EXCEPT ![v] = "over"]
  /\ UNCHANGED <<episodeVars, socket, member, snapshotting, sendTask>>

\* The previous send is over.
PreviousSendOver(v) == sendTask[v] = 0 /\ FinalSend(v)

\* DONE_SEND_TIMEOUT_SECONDS passed: the done message is sent all the same.
PreviousSendOutwaited(v) == sendTask[v] > 0 /\ FinalSend(v)

\* Mutant: a done message that timed out is sent again.
FinalSendReturns_Retried(v) ==
  /\ final[v] = "sending"
  /\ \/ socket' = [socket EXCEPT ![v] = "closed"] /\ final' = [final EXCEPT ![v] = "over"]
     \/ final' = [final EXCEPT ![v] = "waiting"] /\ UNCHANGED socket
  /\ UNCHANGED <<episodeVars, member, snapshotting, sendTask, wire>>

\* The send returned and the socket was closed, or the timeout cut it short.
FinalSendReturns(v) ==
  /\ final[v] = "sending"
  /\ final' = [final EXCEPT ![v] = "over"]
  /\ socket' \in {socket, [socket EXCEPT ![v] = "closed"]}
  /\ UNCHANGED <<episodeVars, member, snapshotting, sendTask, wire>>

FinalsOver == \A v \in Viewers : final[v] \in {"over", "unregistered"}

-----------------------------------------------------------------------------
\* The gather of _broadcast_done waits for the viewers as for the seats.
FeedAllows == AnnounceStarts \/ pc \notin AnnouncePcs \/ pc' = pc \/ FinalsOver

EpisodeStep ==
  \/ TickAndBroadcast
  \/ /\ EpisodeNext /\ tickCount' = tickCount
     /\ FeedAllows
     /\ IF AnnounceStarts THEN FinalsStart ELSE UNCHANGED final
     /\ UNCHANGED <<socket, member, snapshotting, sendTask, wire>>

Viewer(v) ==
  \/ ViewerConnects(v) \/ SnapshotSent(v) \/ ViewerCloses(v) \/ ViewerHandlerEnds(v)
  \/ TickSendReturns(v)
  \/ PreviousSendOver(v) \/ PreviousSendOutwaited(v) \/ FinalSendReturns(v)

FeedNext == EpisodeStep \/ \E v \in Viewers : Viewer(v)

FeedSpec == FeedInit /\ [][FeedNext]_feedEpisodeVars

(***************************************************************************)
(* Every await of run_episode is bounded by a timer: the connect timeout,  *)
(* the engine's deadlines and budget (LockstepEngine shows it ends), three *)
(* seconds per done message and per wait for a previous send, the request  *)
(* timeout of each attempt.  Players and viewers owe nothing.              *)
(***************************************************************************)
FairFeedSpec ==
  /\ FeedSpec
  /\ WF_feedEpisodeVars(EpisodeStep /\ (ConnectWaitEnds \/ Write \/ ProcessExits))
  /\ WF_feedEpisodeVars(TickAndBroadcast \/ (EpisodeStep /\ (EngineReturns \/ EngineRaises)))
  /\ WF_feedEpisodeVars(EpisodeStep /\ AnnounceEnds)
  /\ \A s \in Slots : WF_feedEpisodeVars(EpisodeStep /\ DoneFails(s))
  /\ \A v \in Viewers :
       /\ WF_feedEpisodeVars(PreviousSendOver(v) \/ PreviousSendOutwaited(v))
       /\ WF_feedEpisodeVars(FinalSendReturns(v))

-----------------------------------------------------------------------------
(* Properties.                                                             *)

\* A viewer reads its status first, then ticks in increasing order, and nothing
\* after the final done message (PROTOCOL.md, "Global viewer").
FeedIsOrdered ==
  \A v \in Viewers : \A i, j \in 1..Len(wire[v]) : i < j =>
    /\ wire[v][j].type # "status"
    /\ wire[v][i].type # "done"
    /\ wire[v][i].type = "tick" /\ wire[v][j].type = "tick" =>
         wire[v][i].tick < wire[v][j].tick

InSnapshot(v) == IF v \in snapshotting THEN 1 ELSE 0

\* Tick messages never interleave with each other or with the snapshot: a slow
\* viewer loses updates instead (server.py 219-224, 309-312).
TickSendsSerialized == \A v \in Viewers : sendTask[v] + InSnapshot(v) <= 1

BroadcastOver == pc \in {"results", "replay", "grace", "exit_ok"}

\* Once the done broadcast is over every viewer whose socket is still open has
\* the episode's result in what was written to it, by the done message or by
\* the snapshot of a late connect (server.py 279-283, 293-295).  The exception
\* is a viewer whose snapshot was being sent when the broadcast started.
ViewersGetTheResult ==
  BroadcastOver =>
    \A v \in Viewers : socket[v] = "open" /\ final[v] # "unregistered" =>
      \E i \in 1..Len(wire[v]) : wire[v][i].result = resultsDoc

\* The feed never holds the episode up: the process exits whatever viewers do
\* ("viewer sockets can never affect the episode", server.py 339).
FeedNeverStalls == <>Exited
=============================================================================
