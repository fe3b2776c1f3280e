----------------------------- MODULE RunEpisode ------------------------------
(***************************************************************************)
(* server.py GameServer.run_episode, from the wait for the players to the  *)
(* process exit, with the artifact writes of uris.py.                      *)
(*                                                                         *)
(* run_episode is one coroutine; pc is the await it is suspended at, and   *)
(* players connect and leave at every one of them.  The engine appears as  *)
(* what run_episode sees of it: on_tick calls, a result, or an exception.  *)
(* Players are seats with a socket or without (PlayerSeats has the         *)
(* handler in full).  An http PUT may fail after it reached the store.     *)
(***************************************************************************)
EXTENDS Naturals, FiniteSets

CONSTANTS Slots,       \* the seats, numbered from 0
          MaxTicks,    \* config.max_ticks
          Attempts,    \* HTTP_ATTEMPTS
          Requested,   \* the artifacts with a URI in the environment
          Remote       \* those with an http(s) URI; the others are local files

ArtifactNames == {"failure", "results", "replay"}

ASSUME EpisodeAssumption ==
  /\ Slots \subseteq Nat /\ Slots # {} /\ IsFiniteSet(Slots)
  /\ MaxTicks \in Nat \ {0}
  /\ Attempts \in Nat \ {0}
  /\ Requested \subseteq ArtifactNames
  /\ Remote \subseteq Requested

VARIABLES
  pc,              \* where run_episode is
  everConnected,   \* seats that ever connected
  onTime,          \* those of them that had when the connect wait ended
  linked,          \* seats whose socket is open
  tickCount,       \* ReplayWriter.tick_count
  resultsDoc,      \* self.results_doc
  done,            \* done[s]: the state of seat s's done message
  store,           \* store[a]: what the platform can read at artifact a's URI
  tries,           \* tries[a]: write attempts made for artifact a
  refused,         \* artifacts whose write failed without a retry
  writeErrors      \* the artifacts in write_errors

connVars == <<everConnected, onTime, linked>>
writeVars == <<store, tries, refused, writeErrors>>
episodeVars == <<pc, connVars, tickCount, resultsDoc, done, writeVars>>

NoDoc == [kind |-> "none", n |-> 0]

\* A results document: of a played episode (n = final_tick), of a simulator
\* fault the engine contained, or of an engine that raised.  A no-show report
\* names a slot.
ResultDocs == [kind : {"played", "sim_fault", "crash"}, n : Nat]
Docs == ResultDocs \cup [kind : {"no_show"}, n : Nat] \cup {NoDoc}

Writing == [report |-> "failure", results |-> "results", replay |-> "replay",
            fault_results |-> "results", fault_replay |-> "replay"]
WritePcs == DOMAIN Writing
AnnouncePcs == {"announce", "fault_announce"}
ExitPcs == {"exit_ok", "exit_error"}

TypeOK ==
  /\ pc \in {"connect", "engine", "grace", "raised"} \cup WritePcs \cup AnnouncePcs \cup ExitPcs
  /\ everConnected \subseteq Slots
  /\ onTime \subseteq everConnected
  /\ linked \subseteq everConnected
  /\ tickCount \in 0..MaxTicks
  /\ resultsDoc \in ResultDocs \cup {NoDoc}
  /\ done \in [Slots -> {"idle", "sending", "broken", "told", "over"}]
  /\ store \in [ArtifactNames -> Docs]
  /\ tries \in [ArtifactNames -> 0..Attempts]
  /\ refused \subseteq Requested
  /\ writeErrors \subseteq {"results", "replay"}

EpisodeInit ==
  /\ pc = "connect"
  /\ everConnected = {} /\ onTime = {} /\ linked = {}
  /\ tickCount = 0
  /\ resultsDoc = NoDoc
  /\ done = [s \in Slots |-> "idle"]
  /\ store = [a \in ArtifactNames |-> NoDoc]
  /\ tries = [a \in ArtifactNames |-> 0]
  /\ refused = {} /\ writeErrors = {}

-----------------------------------------------------------------------------
(* Players, at any suspension of run_episode.                              *)

Serving == pc \notin ExitPcs \cup {"raised"}

\* A free seat's player passes authorization and is accepted.
PlayerConnects(s) ==
  /\ Serving /\ s \notin linked
  /\ linked' = linked \cup {s}
  /\ everConnected' = everConnected \cup {s}
  /\ UNCHANGED <<pc, onTime, tickCount, resultsDoc, done, writeVars>>

\* The socket closes; a done message on its way can no longer arrive.
PlayerLeaves(s) ==
  /\ Serving /\ s \in linked
  /\ linked' = linked \ {s}
  /\ done' = [done EXCEPT ![s] = IF @ = "sending" THEN "broken" ELSE @]
  /\ UNCHANGED <<pc, everConnected, onTime, tickCount, resultsDoc, writeVars>>

-----------------------------------------------------------------------------
(* Where run_episode goes next: a write without a URI is no suspension.    *)

\* The aggregated errors are raised, and only at the end.
Ending == IF writeErrors' = {} THEN "grace" ELSE "raised"
ToReplay == IF "replay" \in Requested THEN "replay" ELSE Ending
ToResults == IF "results" \in Requested THEN "results" ELSE ToReplay

\* The fault path writes first and broadcasts last.
ToFaultReplay == IF "replay" \in Requested THEN "fault_replay" ELSE "fault_announce"
ToFaultResults == IF "results" \in Requested THEN "fault_results" ELSE ToFaultReplay

\* _broadcast_done starts one send per seat with an open socket.
SendsStart == done' = [s \in Slots |-> IF s \in linked THEN "sending" ELSE "over"]

FaultSends == IF pc' = "fault_announce" THEN SendsStart ELSE UNCHANGED done

-----------------------------------------------------------------------------
(* The wait for the players.                                               *)

\* no_shows is empty; the event of _handle_player says the same.
AllConnected == everConnected = Slots
Lowest(S) == CHOOSE s \in S : \A t \in S : s <= t

\* Mutant: the report names the seat the loop visited last.
Reported_LastNoShow ==
  CHOOSE s \in Slots \ onTime : \A t \in Slots \ onTime : t <= s

\* The seat a failure report names: the first no-show in seat order.
Reported == Lowest(Slots \ onTime)

\* wait_for returns: every seat connected, or the connect timeout expired.
ConnectWaitEnds ==
  /\ pc = "connect"
  /\ onTime' = everConnected
  /\ pc' = IF AllConnected \/ "failure" \notin Requested THEN "engine" ELSE "report"
  /\ UNCHANGED <<everConnected, linked, tickCount, resultsDoc, done, writeVars>>

-----------------------------------------------------------------------------
(* The engine, seen from run_episode.                                      *)

\* on_tick: the writer records the tick.
EngineTick ==
  /\ pc = "engine" /\ tickCount < MaxTicks
  /\ tickCount' = tickCount + 1
  /\ UNCHANGED <<pc, connVars, resultsDoc, done, writeVars>>

\* The documents the engine can come back with: the final tick of a contained
\* simulator fault is the simulator's, which may be one past the record.
EngineDocs ==
  [kind : {"played"}, n : {tickCount}]
    \cup [kind : {"sim_fault"}, n : {tickCount, tickCount + 1}]

\* The engine returned: the document is kept for late viewers and the done
\* broadcast starts at once.
EngineReturns ==
  /\ pc = "engine"
  /\ resultsDoc' \in EngineDocs
  /\ SendsStart
  /\ pc' = "announce"
  /\ UNCHANGED <<connVars, tickCount, writeVars>>

\* The engine or its host raised: fault artifacts of the ticks recorded so far.
EngineRaises ==
  /\ pc = "engine"
  /\ resultsDoc' = [kind |-> "crash", n |-> tickCount]
  /\ pc' = ToFaultResults
  /\ FaultSends
  /\ UNCHANGED <<connVars, tickCount, writeVars>>

-----------------------------------------------------------------------------
(* The done broadcast to the seats (the viewers are in GlobalFeed).        *)

\* The message is sent and the server closes the socket.
DoneSent(s) ==
  /\ done[s] = "sending"
  /\ done' = [done EXCEPT ![s] = "told"]
  /\ linked' = linked \ {s}
  /\ UNCHANGED <<pc, everConnected, onTime, tickCount, resultsDoc, writeVars>>

\* Mutant: the send has no time limit, only a closed socket ends it.
DoneFails_Untimed(s) ==
  /\ done[s] = "broken"
  /\ done' = [done EXCEPT ![s] = "over"]
  /\ UNCHANGED <<pc, connVars, tickCount, resultsDoc, writeVars>>

\* The send raised, or DONE_SEND_TIMEOUT_SECONDS passed.
DoneFails(s) ==
  /\ done[s] \in {"sending", "broken"}
  /\ done' = [done EXCEPT ![s] = "over"]
  /\ UNCHANGED <<pc, connVars, tickCount, resultsDoc, writeVars>>

SendsOver == \A s \in Slots : done[s] \in {"told", "over"}

\* The gather returns: to the artifact writes, or to the re-raised exception.
AnnounceEnds ==
  /\ pc \in AnnouncePcs /\ SendsOver
  /\ UNCHANGED <<connVars, tickCount, resultsDoc, done, writeVars>>
  /\ pc' = IF pc = "announce" THEN ToResults ELSE "raised"

-----------------------------------------------------------------------------
(* Artifact writes: uris.write_uri and its callers' handling of failure.   *)

Target == Writing[pc]
Payload == IF Target = "failure" THEN [kind |-> "no_show", n |-> Reported] ELSE resultsDoc

\* Mutant: a failed write ends the episode there, the other is never tried.
AfterWrite_FirstErrorRaises ==
  CASE pc = "report"        -> "engine"
    [] pc = "results"       -> IF writeErrors' = {} THEN ToReplay ELSE Ending
    [] pc = "replay"        -> Ending
    [] pc = "fault_results" -> ToFaultReplay
    [] pc = "fault_replay"  -> "fault_announce"

\* Mutant: the aggregated errors are logged but not raised.
AfterWrite_ErrorsSwallowed ==
  CASE pc = "report"        -> "engine"
    [] pc = "results"       -> ToReplay
    [] pc = "replay"        -> "grace"
    [] pc = "fault_results" -> ToFaultReplay
    [] pc = "fault_replay"  -> "fault_announce"

\* The two artifacts are written one after the other whatever becomes of the
\* first.
AfterWrite ==
  CASE pc = "report"        -> "engine"
    [] pc = "results"       -> ToReplay
    [] pc = "replay"        -> Ending
    [] pc = "fault_results" -> ToFaultReplay
    [] pc = "fault_replay"  -> "fault_announce"

\* write_uri is over.  The fault broadcast, if next, starts here.
WriteEnds ==
  /\ pc' = AfterWrite
  /\ FaultSends
  /\ UNCHANGED <<connVars, tickCount, resultsDoc>>

\* The run's error list, which the report and the fault path do not keep.
Errors == IF pc \in {"results", "replay"} THEN writeErrors \cup {Target} ELSE writeErrors

\* One attempt: mkdir and write_bytes, or one PUT answered 2xx.
WriteSucceeds ==
  /\ pc \in WritePcs
  /\ store' = [store EXCEPT ![Target] = Payload]
  /\ tries' = [tries EXCEPT ![Target] = @ + 1]
  /\ UNCHANGED <<refused, writeErrors>>
  /\ WriteEnds

LastAttempt == tries[Target] + 1 = Attempts

\* A failed PUT, which may have reached the store all the same.
PutLost ==
  /\ pc \in WritePcs /\ Target \in Remote
  /\ store' \in {store, [store EXCEPT ![Target] = Payload]}
  /\ tries' = [tries EXCEPT ![Target] = @ + 1]

\* An attempt failed in a way the loop retries, after the backoff.
PutRetried ==
  /\ PutLost /\ ~LastAttempt
  /\ UNCHANGED <<pc, connVars, tickCount, resultsDoc, done, refused, writeErrors>>

\* The last attempt failed: the loop raises the last error.
PutGivesUp ==
  /\ PutLost /\ LastAttempt
  /\ writeErrors' = Errors
  /\ UNCHANGED refused
  /\ WriteEnds

\* An error outside the retried classes: a local file error, a bad scheme.
WriteRefused ==
  /\ pc \in WritePcs
  /\ tries[Target] < Attempts
  /\ refused' = refused \cup {Target}
  /\ writeErrors' = Errors
  /\ UNCHANGED <<store, tries>>
  /\ WriteEnds

\* async_main: a grace period after a result, then cleanup and exit 0; what
\* run_episode raised ends the process with an error.
ProcessExits ==
  /\ pc \in {"grace", "raised"}
  /\ pc' = IF pc = "grace" THEN "exit_ok" ELSE "exit_error"
  /\ UNCHANGED <<connVars, tickCount, resultsDoc, done, writeVars>>

-----------------------------------------------------------------------------
Write == WriteSucceeds \/ PutRetried \/ PutGivesUp \/ WriteRefused

EpisodeNext ==
  \/ ConnectWaitEnds \/ EngineTick \/ EngineReturns \/ EngineRaises
  \/ AnnounceEnds \/ Write \/ ProcessExits
  \/ \E s \in Slots : \/ PlayerConnects(s) \/ PlayerLeaves(s)
                      \/ DoneSent(s) \/ DoneFails(s)

EpisodeSpec == EpisodeInit /\ [][EpisodeNext]_episodeVars

-----------------------------------------------------------------------------
(* Properties.                                                             *)

Wanted == Requested \cap {"results", "replay"}
Exited == pc \in ExitPcs

Status == CASE pc = "exit_ok" -> "ok"
            [] pc = "exit_error" -> "error"
            [] OTHER -> "running"

\* run_episode implements the promise: one outcome, artifacts that hold it,
\* and no success without every artifact stored (server.py 457-460).
ImplementsPublication ==
  INSTANCE Publication WITH
    Artifacts <- Wanted, Outcomes <- ResultDocs, NoOutcome <- NoDoc,
    outcome <- resultsDoc, stored <- [a \in Wanted |-> store[a]], status <- Status
PublicationHolds == ImplementsPublication!Spec

\* "independent writes: attempt all": at the exit an artifact the platform asked
\* for was refused, or is stored, or had every attempt the retry loop allows.
NoArtifactForgotten ==
  Exited => \A a \in Wanted :
              a \in refused \/ store[a] = resultsDoc \/ tries[a] = Attempts

\* A failure report blames the first of the seats that had not connected when
\* the connect timeout expired, even if others connect while it is written.
ReportBlamesFirstNoShow ==
  store["failure"] # NoDoc =>
    /\ store["failure"].n \in Slots \ onTime
    /\ \A s \in Slots : s < store["failure"].n => s \in onTime
=============================================================================
