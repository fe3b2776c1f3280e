--------------------------- MODULE RunEpisodeProofs ---------------------------
(***************************************************************************)
(* Proofs about RunEpisode, for any seats, tick cap, number of attempts    *)
(* and choice of artifacts: the types, the failure report, the artifacts   *)
(* at the exit, and the implementation of Publication.                     *)
(***************************************************************************)
EXTENDS RunEpisode, WellFoundedInduction, TLAPS

-----------------------------------------------------------------------------
\* The lowest of some natural numbers is one of them.
LEMMA LowestIsLeast ==
  ASSUME NEW S, S \subseteq Nat, S # {}
  PROVE  Lowest(S) \in S /\ \A t \in S : Lowest(S) <= t
<1> DEFINE R == OpToRel(<, Nat)
<1>1. IsWellFoundedOn(R, Nat)
  BY NatLessThanWellFounded
<1>2. R = {p \in Nat \X Nat : p[1] < p[2]}
  BY DEF OpToRel
<1> HIDE DEF R
<1>3. PICK x \in S : \A y \in S : ~ (<<y, x>> \in R)
  BY <1>1, WFMin
<1>4. ASSUME NEW y \in S PROVE x <= y
  <2>1. x \in Nat /\ y \in Nat
    OBVIOUS
  <2>2. y < x => <<y, x>> \in R
    BY <1>2, <2>1
  <2> QED
    BY <1>3, <2>1, <2>2
<1> QED
  BY <1>4 DEF Lowest

-----------------------------------------------------------------------------
(* The invariant.                                                          *)

BeforeResult == {"connect", "report", "engine"}
BeforeWrites == BeforeResult \cup {"announce"}
ResultsBehind == {"replay", "grace", "raised", "fault_replay", "fault_announce"} \cup ExitPcs
ReplayBehind == {"grace", "raised", "fault_announce"} \cup ExitPcs

\* A write loop runs for an artifact with a URI and has an attempt left; what it
\* has not come to yet has none made.
TriesInv ==
  /\ pc \in WritePcs => Target \in Requested /\ tries[Target] < Attempts
  /\ pc = "connect" => tries["failure"] = 0
  /\ pc \in BeforeWrites => tries["results"] = 0
  /\ pc \in BeforeWrites \cup {"results", "fault_results"} => tries["replay"] = 0

\* The result is there from the engine's return or fault on, and only it is
\* stored.
OutcomeInv ==
  /\ pc \in BeforeResult <=> resultsDoc = NoDoc
  /\ store["results"] \in {NoDoc, resultsDoc}
  /\ store["replay"] \in {NoDoc, resultsDoc}

\* The report is of the seats missing when the connect wait ended.
ReportInv ==
  /\ pc = "connect" => store["failure"] = NoDoc
  /\ pc = "report" => onTime # Slots
  /\ store["failure"] # NoDoc =>
       onTime # Slots /\ store["failure"] = [kind |-> "no_show", n |-> Reported]

Attempted(a) == a \in refused \/ store[a] = resultsDoc \/ tries[a] = Attempts

\* An artifact run_episode is past has been attempted.
AttemptInv ==
  /\ pc \in ResultsBehind /\ "results" \in Requested => Attempted("results")
  /\ pc \in ReplayBehind /\ "replay" \in Requested => Attempted("replay")

\* On the way to the grace period an artifact run_episode is past is stored or
\* in the error list, and the way ends there only with no errors.
ErrorInv ==
  /\ pc \in {"grace", "exit_ok"} => writeErrors = {}
  /\ pc \in {"replay", "grace", "exit_ok"} /\ "results" \in Requested =>
       store["results"] = resultsDoc \/ "results" \in writeErrors
  /\ pc \in {"grace", "exit_ok"} /\ "replay" \in Requested =>
       store["replay"] = resultsDoc \/ "replay" \in writeErrors

EpisodeInv == TypeOK /\ TriesInv /\ OutcomeInv /\ ReportInv /\ AttemptInv /\ ErrorInv

-----------------------------------------------------------------------------
(* Facts about the control.                                                *)

\* What each write is of.
LEMMA Targets ==
  /\ WritePcs = {"report", "results", "replay", "fault_results", "fault_replay"}
  /\ pc = "report" => Target = "failure"
  /\ pc \in {"results", "fault_results"} => Target = "results"
  /\ pc \in {"replay", "fault_replay"} => Target = "replay"
BY DEF WritePcs, Writing, Target

\* The no-show a report names, when there is one.
LEMMA ReportedIsFirst ==
  ASSUME TypeOK, onTime # Slots
  PROVE  /\ Reported \in Slots \ onTime /\ Reported \in Nat
         /\ \A s \in Slots \ onTime : Reported <= s
<1>1. Slots \ onTime \subseteq Nat /\ Slots \ onTime # {}
  BY EpisodeAssumption DEF EpisodeAssumption, TypeOK
<1> QED
  BY <1>1, LowestIsLeast, EpisodeAssumption DEF Reported, EpisodeAssumption

\* One step of a write loop: a retry, or the end of the loop after an attempt,
\* the last attempt or a refusal.
LEMMA WriteFacts ==
  ASSUME EpisodeInv, Write
  PROVE  /\ pc \in WritePcs /\ Target \in Requested
         /\ UNCHANGED <<connVars, tickCount, resultsDoc>>
         /\ store' \in {store, [store EXCEPT ![Target] = Payload]}
         /\ tries' \in {tries, [tries EXCEPT ![Target] = @ + 1]}
         /\ refused' \in {refused, refused \cup {Target}}
         /\ writeErrors' \in {writeErrors, Errors}
         /\ \/ /\ pc' = pc /\ UNCHANGED <<done, refused, writeErrors>>
               /\ tries[Target] + 1 < Attempts /\ tries' = [tries EXCEPT ![Target] = @ + 1]
            \/ /\ pc' = AfterWrite /\ FaultSends
               /\ store'[Target] = Payload \/ Target \in refused' \/ tries'[Target] = Attempts
               /\ store'[Target] = Payload \/ writeErrors' = Errors
<1>0. /\ pc \in WritePcs /\ Target \in Requested /\ Target \in ArtifactNames
      /\ tries[Target] \in Nat /\ Attempts \in Nat \ {0} /\ tries[Target] < Attempts
      /\ store \in [ArtifactNames -> Docs] /\ tries \in [ArtifactNames -> 0..Attempts]
  <2>1. pc \in WritePcs
    BY DEF Write, WriteSucceeds, PutRetried, PutGivesUp, PutLost, WriteRefused
  <2> QED
    BY <2>1, EpisodeAssumption DEF EpisodeInv, TriesInv, TypeOK, EpisodeAssumption
<1> HIDE DEF Payload
<1>1. CASE WriteSucceeds
  BY <1>0, <1>1 DEF WriteSucceeds, WriteEnds, connVars
<1>2. CASE PutRetried
  <2>1. tries[Target] + 1 < Attempts
    BY <1>0, <1>2 DEF PutRetried, LastAttempt
  <2> QED
    BY <1>0, <1>2, <2>1 DEF PutRetried, PutLost
<1>3. CASE PutGivesUp
  <2>1. tries' = [tries EXCEPT ![Target] = @ + 1] /\ tries[Target] + 1 = Attempts
    BY <1>3 DEF PutGivesUp, PutLost, LastAttempt
  <2>2. tries'[Target] = Attempts
    BY <1>0, <2>1
  <2> QED
    BY <1>0, <1>3, <2>1, <2>2 DEF PutGivesUp, PutLost, WriteEnds
<1>4. CASE WriteRefused
  BY <1>0, <1>4 DEF WriteRefused, WriteEnds
<1> QED
  BY <1>1, <1>2, <1>3, <1>4 DEF Write

-----------------------------------------------------------------------------
(* The invariant is inductive.                                             *)

LEMMA EpisodeStarts == EpisodeInit => EpisodeInv
<1> SUFFICES ASSUME EpisodeInit PROVE EpisodeInv
  OBVIOUS
<1>1. TypeOK
  BY EpisodeAssumption
     DEF EpisodeInit, TypeOK, EpisodeAssumption, ArtifactNames, Docs, ResultDocs
<1>2. TriesInv /\ OutcomeInv /\ ReportInv
  BY Targets DEF EpisodeInit, TriesInv, OutcomeInv, ReportInv, BeforeWrites, BeforeResult, ArtifactNames
<1>3. AttemptInv /\ ErrorInv
  BY DEF EpisodeInit, AttemptInv, ErrorInv, ResultsBehind, ReplayBehind, ExitPcs
<1> QED
  BY <1>1, <1>2, <1>3 DEF EpisodeInv

\* Where a write goes next.
LEMMA AfterWriteFacts ==
  ASSUME pc \in WritePcs, pc' = AfterWrite
  PROVE  /\ pc = "report" => pc' = "engine"
         /\ pc = "results" => pc' = ToReplay
         /\ pc = "replay" => pc' = Ending
         /\ pc = "fault_results" => pc' = ToFaultReplay
         /\ pc = "fault_replay" => pc' = "fault_announce"
BY Targets DEF AfterWrite

\* A write step keeps the invariant.
LEMMA WriteKeeps ==
  ASSUME EpisodeInv, Write
  PROVE  EpisodeInv'
<1>1. /\ pc \in WritePcs /\ Target \in Requested
      /\ UNCHANGED <<connVars, tickCount, resultsDoc>>
      /\ store' \in {store, [store EXCEPT ![Target] = Payload]}
      /\ tries' \in {tries, [tries EXCEPT ![Target] = @ + 1]}
      /\ refused' \in {refused, refused \cup {Target}}
      /\ writeErrors' \in {writeErrors, Errors}
      /\ \/ /\ pc' = pc /\ UNCHANGED <<done, refused, writeErrors>>
            /\ tries[Target] + 1 < Attempts
         \/ /\ pc' = AfterWrite /\ FaultSends
            /\ store'[Target] = Payload \/ Target \in refused' \/ tries'[Target] = Attempts
            /\ store'[Target] = Payload \/ writeErrors' = Errors
  BY WriteFacts
<1>2. /\ Attempts \in Nat \ {0} /\ Requested \subseteq ArtifactNames
      /\ store \in [ArtifactNames -> Docs] /\ tries \in [ArtifactNames -> 0..Attempts]
      /\ tries[Target] \in Nat /\ tries[Target] < Attempts
  BY <1>1, EpisodeAssumption DEF EpisodeInv, TypeOK, TriesInv, EpisodeAssumption
<1>3. Payload \in Docs /\ (Target # "failure" => Payload = resultsDoc)
  <2>1. CASE Target = "failure"
    <3>1. pc = "report"
      BY <1>1, <2>1, Targets
    <3>2. Reported \in Nat
      BY <3>1, ReportedIsFirst DEF EpisodeInv, ReportInv
    <3> QED
      BY <2>1, <3>2 DEF Payload, Docs
  <2>2. CASE Target # "failure"
    BY <2>2 DEF Payload, EpisodeInv, TypeOK, Docs
  <2> QED
    BY <2>1, <2>2
<1>4. store' \in [ArtifactNames -> Docs]
  BY <1>1, <1>2, <1>3
<1>5. tries' \in [ArtifactNames -> 0..Attempts]
  BY <1>1, <1>2
<1>6. \A a \in ArtifactNames \ {Target} : store'[a] = store[a] /\ tries'[a] = tries[a]
  BY <1>1, <1>2
<1>7. \A a \in ArtifactNames \ {Target} : a \in refused' <=> a \in refused
  BY <1>1
<1>8. store'[Target] \in {store[Target], Payload} /\ tries'[Target] \in {tries[Target], tries[Target] + 1}
  BY <1>1, <1>2
<1>9. writeErrors \subseteq writeErrors' /\ writeErrors' \subseteq writeErrors \cup {Target}
  BY <1>1 DEF Errors
<1>10. writeErrors' \subseteq {"results", "replay"}
  BY <1>1, Targets DEF Errors, EpisodeInv, TypeOK
<1>11. CASE pc' = pc /\ UNCHANGED <<done, refused, writeErrors>> /\ tries[Target] + 1 < Attempts
  <2>1. TypeOK'
    BY <1>1, <1>4, <1>5, <1>11 DEF EpisodeInv, TypeOK, connVars
  <2>2. TriesInv'
    BY <1>1, <1>2, <1>6, <1>8, <1>11, Targets
       DEF EpisodeInv, TriesInv, BeforeWrites, BeforeResult, ArtifactNames, Target
  <2>3. OutcomeInv'
    BY <1>1, <1>3, <1>6, <1>8, <1>11, Targets
       DEF EpisodeInv, OutcomeInv, BeforeResult, ArtifactNames
  <2>4. ReportInv'
    <3>1. store'["failure"] # store["failure"] => pc = "report" /\ store'["failure"] = Payload /\ Target = "failure"
      BY <1>1, <1>6, <1>8, Targets DEF ArtifactNames
    <3>2. Reported' = Reported
      BY <1>1 DEF Reported, Lowest, connVars
    <3> QED
      BY <1>1, <1>11, <3>1, <3>2, Targets DEF EpisodeInv, ReportInv, Payload, connVars
  <2>5. AttemptInv' /\ ErrorInv'
    BY <1>1, <1>6, <1>7, <1>11, Targets
       DEF EpisodeInv, AttemptInv, ErrorInv, Attempted, ResultsBehind, ReplayBehind, ExitPcs, ArtifactNames
  <2> QED
    BY <2>1, <2>2, <2>3, <2>4, <2>5 DEF EpisodeInv
<1>12. CASE /\ pc' = AfterWrite /\ FaultSends
            /\ store'[Target] = Payload \/ Target \in refused' \/ tries'[Target] = Attempts
            /\ store'[Target] = Payload \/ writeErrors' = Errors
  <2>1. /\ pc = "report" => pc' = "engine"
        /\ pc = "results" => pc' = ToReplay
        /\ pc = "replay" => pc' = Ending
        /\ pc = "fault_results" => pc' = ToFaultReplay
        /\ pc = "fault_replay" => pc' = "fault_announce"
    BY <1>1, <1>12, AfterWriteFacts
  <2>2. /\ pc = "results" => pc' \in {"replay", "grace", "raised"}
        /\ pc = "replay" => pc' \in {"grace", "raised"}
        /\ pc = "fault_results" => pc' \in {"fault_replay", "fault_announce"}
        /\ pc' \in {"replay", "fault_replay"} <=> (pc \in {"results", "fault_results"} /\ "replay" \in Requested)
        /\ pc' = "grace" => writeErrors' = {}
    BY <1>1, <2>1, Targets DEF ToReplay, Ending, ToFaultReplay
  <2>3. TypeOK'
    <3>1. done' \in [Slots -> {"idle", "sending", "broken", "told", "over"}]
      BY <1>12 DEF FaultSends, SendsStart, EpisodeInv, TypeOK
    <3>2. refused' \subseteq Requested
      BY <1>1 DEF EpisodeInv, TypeOK
    <3>3. pc' \in {"connect", "engine", "grace", "raised"} \cup WritePcs \cup AnnouncePcs \cup ExitPcs
      BY <1>1, <2>1, <2>2, Targets DEF AnnouncePcs
    <3> QED
      BY <1>1, <1>4, <1>5, <1>10, <3>1, <3>2, <3>3 DEF EpisodeInv, TypeOK, connVars
  <2>4. TriesInv'
    <3>1. pc' \in WritePcs => pc' \in {"replay", "fault_replay"} /\ Target' = "replay"
      <4>1. pc' \in {"replay", "fault_replay"} => Target' = "replay"
        BY DEF Target, Writing
      <4> QED
        BY <1>1, <2>1, <2>2, <4>1, Targets
    <3>2. pc' \in WritePcs => tries'["replay"] = 0 /\ "replay" \in Requested
      <4>1. pc' \in WritePcs => pc \in {"results", "fault_results"} /\ "replay" \in Requested
        BY <2>2, <3>1
      <4> QED
        BY <1>6, <4>1, Targets DEF EpisodeInv, TriesInv, ArtifactNames
    <3>3. pc' \in BeforeWrites \cup {"results", "fault_results"} => pc = "report" /\ pc' = "engine"
      BY <1>1, <2>1, <2>2, Targets DEF BeforeWrites, BeforeResult
    <3>4. pc = "report" => tries'["results"] = 0 /\ tries'["replay"] = 0
      BY <1>6, Targets DEF EpisodeInv, TriesInv, ArtifactNames, BeforeWrites, BeforeResult
    <3> QED
      BY <1>2, <3>1, <3>2, <3>3, <3>4 DEF TriesInv, BeforeWrites, BeforeResult
  <2>5. OutcomeInv'
    <3>1. pc' \in BeforeResult <=> pc \in BeforeResult
      BY <1>1, <2>1, <2>2, Targets DEF BeforeResult
    <3> QED
      BY <1>1, <1>3, <1>6, <1>8, <3>1, Targets DEF EpisodeInv, OutcomeInv, BeforeResult, ArtifactNames
  <2>6. ReportInv'
    <3>1. store'["failure"] # store["failure"] => pc = "report" /\ store'["failure"] = Payload /\ Target = "failure"
      BY <1>1, <1>6, <1>8, Targets DEF ArtifactNames
    <3>2. Reported' = Reported
      BY <1>1 DEF Reported, Lowest, connVars
    <3>3. pc' \notin {"connect", "report"}
      BY <1>1, <2>1, <2>2, Targets
    <3> QED
      BY <1>1, <3>1, <3>2, <3>3 DEF EpisodeInv, ReportInv, Payload, connVars
  <2>7. AttemptInv'
    <3>1. pc' \in ResultsBehind /\ "results" \in Requested => Attempted("results")'
      <4>1. CASE pc \in {"results", "fault_results"}
        BY <1>1, <1>3, <1>12, <4>1, Targets DEF Attempted
      <4>2. CASE pc \in {"replay", "fault_replay"}
        BY <1>1, <1>6, <1>7, <4>2, Targets
           DEF EpisodeInv, AttemptInv, Attempted, ResultsBehind, ArtifactNames
      <4>3. CASE pc = "report"
        BY <2>1, <4>3 DEF ResultsBehind, ExitPcs
      <4> QED
        BY <1>1, <4>1, <4>2, <4>3, Targets
    <3>2. pc' \in ReplayBehind /\ "replay" \in Requested => Attempted("replay")'
      <4>1. CASE pc \in {"replay", "fault_replay"}
        BY <1>1, <1>3, <1>12, <4>1, Targets DEF Attempted
      <4>2. CASE pc \in {"results", "fault_results", "report"}
        BY <2>1, <2>2, <4>2 DEF ReplayBehind, ExitPcs
      <4> QED
        BY <1>1, <4>1, <4>2, Targets
    <3> QED
      BY <3>1, <3>2 DEF AttemptInv
  <2>8. ErrorInv'
    <3>1. pc' \notin ExitPcs /\ (pc' = "replay" => pc = "results") /\ (pc' = "grace" => pc \in {"results", "replay"})
      BY <1>1, <2>1, <2>2, Targets DEF ExitPcs, ToFaultReplay
    <3>2. pc = "results" => store'["results"] = resultsDoc' \/ "results" \in writeErrors'
      BY <1>1, <1>3, <1>12, Targets DEF Errors
    <3>3. pc = "replay" => store'["replay"] = resultsDoc' \/ "replay" \in writeErrors'
      BY <1>1, <1>3, <1>12, Targets DEF Errors
    <3>4. pc = "replay" /\ "results" \in Requested => store'["results"] = resultsDoc' \/ "results" \in writeErrors'
      BY <1>1, <1>6, <1>9, Targets DEF EpisodeInv, ErrorInv, ArtifactNames
    <3>5. pc' = "grace" /\ "replay" \in Requested => pc = "replay"
      BY <2>2, <3>1
    <3>6. pc' = "grace" => writeErrors' = {}
      BY <2>2
    <3> QED
      BY <3>1, <3>2, <3>3, <3>4, <3>5, <3>6 DEF ErrorInv, ExitPcs
  <2> QED
    BY <2>3, <2>4, <2>5, <2>6, <2>7, <2>8 DEF EpisodeInv
<1> QED
  BY <1>1, <1>11, <1>12

\* Players, and the done messages to them, are none of the artifacts' business.
LEMMA SeatKeeps ==
  ASSUME EpisodeInv, NEW s \in Slots, PlayerConnects(s) \/ PlayerLeaves(s) \/ DoneSent(s) \/ DoneFails(s)
  PROVE  EpisodeInv'
<1>1. /\ UNCHANGED <<pc, onTime, tickCount, resultsDoc, store, tries, refused, writeErrors>>
      /\ everConnected \subseteq everConnected' /\ everConnected' \subseteq Slots
      /\ linked' \subseteq everConnected'
      /\ done' \in [Slots -> {"idle", "sending", "broken", "told", "over"}]
  BY DEF PlayerConnects, PlayerLeaves, DoneSent, DoneFails, connVars, writeVars, EpisodeInv, TypeOK
<1>2. TypeOK'
  BY <1>1 DEF EpisodeInv, TypeOK
<1>3. Reported' = Reported /\ Target' = Target
  BY <1>1 DEF Reported, Lowest, Target
<1>4. TriesInv' /\ OutcomeInv'
  BY <1>1, <1>3 DEF EpisodeInv, TriesInv, OutcomeInv
<1>5. ReportInv' /\ AttemptInv' /\ ErrorInv'
  BY <1>1, <1>3 DEF EpisodeInv, ReportInv, AttemptInv, ErrorInv, Attempted
<1> QED
  BY <1>2, <1>4, <1>5 DEF EpisodeInv

\* Every step keeps the invariant.
LEMMA EpisodeSteps == EpisodeInv /\ [EpisodeNext]_episodeVars => EpisodeInv'
<1> SUFFICES ASSUME EpisodeInv, [EpisodeNext]_episodeVars PROVE EpisodeInv'
  OBVIOUS
<1> USE Targets
<1>1. CASE ConnectWaitEnds
  <2>1. /\ pc = "connect" /\ pc' \in {"engine", "report"} /\ onTime' = everConnected
        /\ pc' = "report" => onTime' # Slots /\ "failure" \in Requested
        /\ UNCHANGED <<everConnected, linked, tickCount, resultsDoc, done, store, tries, refused, writeErrors>>
    BY <1>1 DEF ConnectWaitEnds, AllConnected, writeVars
  <2>2. TypeOK'
    BY <2>1 DEF EpisodeInv, TypeOK
  <2>3. TriesInv'
    <3>1. pc' = "report" => Target' = "failure"
      BY DEF Target, Writing
    <3> QED
      BY <2>1, <3>1, EpisodeAssumption
         DEF EpisodeInv, TriesInv, BeforeWrites, BeforeResult, EpisodeAssumption
  <2>4. OutcomeInv' /\ AttemptInv' /\ ErrorInv'
    BY <2>1 DEF EpisodeInv, OutcomeInv, AttemptInv, ErrorInv, BeforeResult, ResultsBehind, ReplayBehind, ExitPcs
  <2>5. ReportInv'
    BY <2>1 DEF EpisodeInv, ReportInv
  <2> QED
    BY <2>2, <2>3, <2>4, <2>5 DEF EpisodeInv
<1>2. CASE EngineTick
  <2>1. /\ UNCHANGED <<pc, connVars, resultsDoc, done, writeVars>> /\ tickCount' \in 0..MaxTicks
    BY <1>2, EpisodeAssumption DEF EngineTick, EpisodeInv, TypeOK, EpisodeAssumption
  <2>2. TypeOK'
    BY <2>1 DEF EpisodeInv, TypeOK, connVars, writeVars
  <2>3. Reported' = Reported /\ Target' = Target
    BY <2>1 DEF Reported, Lowest, Target, connVars
  <2> QED
    BY <2>1, <2>2, <2>3
       DEF EpisodeInv, TriesInv, OutcomeInv, ReportInv, AttemptInv, ErrorInv, Attempted, connVars, writeVars
<1>3. CASE EngineReturns \/ EngineRaises
  <2>1. /\ pc = "engine" /\ resultsDoc' \in ResultDocs
        /\ UNCHANGED <<everConnected, onTime, linked, tickCount, store, tries, refused, writeErrors>>
        /\ done' \in [Slots -> {"idle", "sending", "broken", "told", "over"}]
    <3>1. tickCount \in Nat
      BY EpisodeAssumption DEF EpisodeInv, TypeOK, EpisodeAssumption
    <3> QED
      BY <1>3, <3>1
         DEF EngineReturns, EngineRaises, EngineDocs, ResultDocs, SendsStart, FaultSends, EpisodeInv,
             TypeOK, connVars, writeVars
  <2>2. /\ pc' \in {"announce", "fault_results", "fault_replay", "fault_announce"}
        /\ pc' = "fault_results" => "results" \in Requested
        /\ pc' \in {"fault_replay", "fault_announce"} => "results" \notin Requested
        /\ pc' = "fault_replay" => "replay" \in Requested
        /\ pc' = "fault_announce" => "replay" \notin Requested
    BY <1>3 DEF EngineReturns, EngineRaises, ToFaultResults, ToFaultReplay
  <2>3. resultsDoc' # NoDoc
    BY <2>1 DEF ResultDocs, NoDoc
  <2>4. TypeOK'
    BY <2>1, <2>2 DEF EpisodeInv, TypeOK, AnnouncePcs
  <2>5. TriesInv'
    <3>1. pc' = "fault_results" => Target' = "results"
      BY DEF Target, Writing
    <3>2. pc' = "fault_replay" => Target' = "replay"
      BY DEF Target, Writing
    <3> QED
      BY <2>1, <2>2, <3>1, <3>2, EpisodeAssumption
         DEF EpisodeInv, TriesInv, BeforeWrites, BeforeResult, EpisodeAssumption
  <2>6. OutcomeInv'
    BY <2>1, <2>2, <2>3 DEF EpisodeInv, OutcomeInv, BeforeResult
  <2>7. ReportInv'
    <3>1. Reported' = Reported
      BY <2>1 DEF Reported, Lowest
    <3> QED
      BY <2>1, <2>2, <3>1 DEF EpisodeInv, ReportInv
  <2>8. AttemptInv' /\ ErrorInv'
    BY <2>1, <2>2 DEF AttemptInv, ErrorInv, ResultsBehind, ReplayBehind, ExitPcs
  <2> QED
    BY <2>4, <2>5, <2>6, <2>7, <2>8 DEF EpisodeInv
<1>4. CASE AnnounceEnds
  <2>1. /\ pc \in {"announce", "fault_announce"}
        /\ UNCHANGED <<connVars, tickCount, resultsDoc, done, writeVars>>
        /\ pc = "fault_announce" => pc' = "raised"
        /\ pc = "announce" => pc' = ToResults
    BY <1>4 DEF AnnounceEnds, AnnouncePcs
  <2>2. /\ pc' \in {"results", "replay", "grace", "raised"}
        /\ pc' = "results" => pc = "announce" /\ "results" \in Requested
        /\ pc' = "replay" => pc = "announce" /\ "results" \notin Requested /\ "replay" \in Requested
        /\ pc' = "grace" => "results" \notin Requested /\ "replay" \notin Requested /\ writeErrors' = {}
        /\ pc' = "raised" => pc = "fault_announce" \/ ("results" \notin Requested /\ "replay" \notin Requested)
    BY <2>1 DEF ToResults, ToReplay, Ending
  <2>3. TypeOK'
    BY <2>1, <2>2 DEF EpisodeInv, TypeOK, connVars, writeVars
  <2>4. TriesInv'
    <3>1. pc' = "results" => Target' = "results"
      BY DEF Target, Writing
    <3>2. pc' = "replay" => Target' = "replay"
      BY DEF Target, Writing
    <3> QED
      BY <2>1, <2>2, <3>1, <3>2, EpisodeAssumption
         DEF EpisodeInv, TriesInv, BeforeWrites, BeforeResult, EpisodeAssumption, writeVars
  <2>5. OutcomeInv'
    BY <2>1, <2>2 DEF EpisodeInv, OutcomeInv, BeforeResult, writeVars
  <2>6. ReportInv'
    <3>1. Reported' = Reported
      BY <2>1 DEF Reported, Lowest, connVars
    <3> QED
      BY <2>1, <2>2, <3>1 DEF EpisodeInv, ReportInv, connVars, writeVars
  <2>7. AttemptInv' /\ ErrorInv'
    BY <2>1, <2>2
       DEF EpisodeInv, AttemptInv, ErrorInv, Attempted, ResultsBehind, ReplayBehind, ExitPcs, writeVars
  <2> QED
    BY <2>3, <2>4, <2>5, <2>6, <2>7 DEF EpisodeInv
<1>5. CASE Write
  BY <1>5, WriteKeeps
<1>6. CASE ProcessExits
  <2>1. /\ pc \in {"grace", "raised"} /\ pc' \in ExitPcs /\ (pc' = "exit_ok" => pc = "grace")
        /\ UNCHANGED <<connVars, tickCount, resultsDoc, done, writeVars>>
    BY <1>6 DEF ProcessExits, ExitPcs
  <2>2. TypeOK'
    BY <2>1 DEF EpisodeInv, TypeOK, connVars, writeVars
  <2>3. TriesInv' /\ OutcomeInv'
    BY <2>1 DEF EpisodeInv, TriesInv, OutcomeInv, BeforeWrites, BeforeResult, ExitPcs, writeVars
  <2>4. ReportInv'
    <3>1. Reported' = Reported
      BY <2>1 DEF Reported, Lowest, connVars
    <3> QED
      BY <2>1, <3>1 DEF EpisodeInv, ReportInv, ExitPcs, connVars, writeVars
  <2>5. AttemptInv' /\ ErrorInv'
    BY <2>1
       DEF EpisodeInv, AttemptInv, ErrorInv, Attempted, ResultsBehind, ReplayBehind, ExitPcs, writeVars
  <2> QED
    BY <2>2, <2>3, <2>4, <2>5 DEF EpisodeInv
<1>7. CASE \E s \in Slots : PlayerConnects(s) \/ PlayerLeaves(s) \/ DoneSent(s) \/ DoneFails(s)
  BY <1>7, SeatKeeps
<1>8. CASE UNCHANGED episodeVars
  <2>1. Reported' = Reported /\ Target' = Target
    BY <1>8 DEF Reported, Lowest, Target, episodeVars, connVars
  <2> QED
    BY <1>8, <2>1
       DEF EpisodeInv, TypeOK, TriesInv, OutcomeInv, ReportInv, AttemptInv, ErrorInv, Attempted,
           episodeVars, connVars, writeVars
<1> QED
  BY <1>1, <1>2, <1>3, <1>4, <1>5, <1>6, <1>7, <1>8 DEF EpisodeNext

\* The invariant holds in every state.
LEMMA EpisodeInvariant == EpisodeSpec => []EpisodeInv
<1> QED
  BY EpisodeStarts, EpisodeSteps, PTL DEF EpisodeSpec

-----------------------------------------------------------------------------
(* What run_episode promises.                                              *)

\* The coroutine's variables and the platform's store keep their types.
THEOREM EpisodeTypeCorrect == EpisodeSpec => []TypeOK
<1>1. EpisodeInv => TypeOK
  BY DEF EpisodeInv
<1> QED
  BY <1>1, EpisodeInvariant, PTL

\* A failure report blames the first seat missing at the connect timeout.
THEOREM TheReportIsJust == EpisodeSpec => []ReportBlamesFirstNoShow
<1>1. EpisodeInv => ReportBlamesFirstNoShow
  <2> SUFFICES ASSUME EpisodeInv, store["failure"] # NoDoc
               PROVE  /\ store["failure"].n \in Slots \ onTime
                      /\ \A s \in Slots : s < store["failure"].n => s \in onTime
    BY DEF ReportBlamesFirstNoShow
  <2>1. onTime # Slots /\ store["failure"] = [kind |-> "no_show", n |-> Reported]
    BY DEF EpisodeInv, ReportInv
  <2>2. Reported \in Slots \ onTime /\ Reported \in Nat /\ \A s \in Slots \ onTime : Reported <= s
    BY <2>1, ReportedIsFirst DEF EpisodeInv
  <2>3. Slots \subseteq Nat
    BY EpisodeAssumption DEF EpisodeAssumption
  <2> QED
    BY <2>1, <2>2, <2>3
<1> QED
  BY <1>1, EpisodeInvariant, PTL

\* At the exit every artifact asked for was refused, is stored, or had every
\* attempt the retry loop allows.
THEOREM ArtifactsAreAttempted == EpisodeSpec => []NoArtifactForgotten
<1>1. EpisodeInv => NoArtifactForgotten
  BY DEF EpisodeInv, AttemptInv, Attempted, NoArtifactForgotten, Exited, Wanted, ResultsBehind, ReplayBehind
<1> QED
  BY <1>1, EpisodeInvariant, PTL

\* run_episode implements the promise of Publication.
THEOREM EpisodeImplementsPublication == EpisodeSpec => PublicationHolds
<1>1. EpisodeInit => ImplementsPublication!Init
  BY DEF EpisodeInit, ImplementsPublication!Init, Status, Wanted, ArtifactNames
<1>2. EpisodeInv /\ [EpisodeNext]_episodeVars =>
        [ImplementsPublication!Next]_(ImplementsPublication!vars)
  <2> SUFFICES ASSUME EpisodeInv, [EpisodeNext]_episodeVars
               PROVE  [ImplementsPublication!Next]_(ImplementsPublication!vars)
    OBVIOUS
  <2> USE DEF ImplementsPublication!Next, ImplementsPublication!vars
  <2>1. CASE EngineReturns \/ EngineRaises
    <3>1. pc = "engine" /\ pc' \notin ExitPcs /\ store' = store
      BY <2>1 DEF EngineReturns, EngineRaises, ToFaultResults, ToFaultReplay, ExitPcs, writeVars
    <3>2. tickCount \in Nat
      BY EpisodeAssumption DEF EpisodeInv, TypeOK, EpisodeAssumption
    <3>3. resultsDoc' \in ResultDocs
      BY <2>1, <3>2 DEF EngineReturns, EngineRaises, EngineDocs, ResultDocs
    <3>4. resultsDoc = NoDoc
      BY <3>1 DEF EpisodeInv, OutcomeInv, BeforeResult
    <3>5. ImplementsPublication!Decide
      BY <3>1, <3>3, <3>4 DEF ImplementsPublication!Decide, Status, ExitPcs
    <3> QED
      BY <3>5
  <2>2. CASE Write
    <3>1. /\ pc \in WritePcs /\ resultsDoc' = resultsDoc
          /\ store' \in {store, [store EXCEPT ![Target] = Payload]}
          /\ pc' = pc \/ pc' = AfterWrite
      BY <2>2, WriteFacts
    <3>2. pc \notin ExitPcs /\ pc' \notin ExitPcs
      BY <3>1, Targets, AfterWriteFacts DEF ExitPcs, ToReplay, ToFaultReplay, Ending
    <3>3. Status = "running" /\ Status' = "running"
      BY <3>2 DEF Status, ExitPcs
    <3>4. CASE store' = store \/ Target \notin Wanted
      <4>1. [a \in Wanted |-> store'[a]] = [a \in Wanted |-> store[a]]
        <5>1. store \in [ArtifactNames -> Docs] /\ Target \in ArtifactNames
          BY <3>1, Targets DEF EpisodeInv, TypeOK, ArtifactNames
        <5>2. \A a \in Wanted : store'[a] = store[a]
          <6> HIDE DEF Payload
          <6>1. Wanted \subseteq ArtifactNames
            BY DEF Wanted, ArtifactNames
          <6> HIDE DEF Wanted
          <6> QED
            BY <3>1, <3>4, <5>1, <6>1
        <5> QED
          BY <5>2, Zenon
      <4> QED
        BY <3>1, <3>3, <4>1
    <3>5. CASE store' = [store EXCEPT ![Target] = Payload] /\ Target \in Wanted
      <4>1. Target # "failure" /\ Payload = resultsDoc
        BY <3>5 DEF Wanted, Payload
      <4>2. resultsDoc # NoDoc
        BY <3>1, <4>1, Targets DEF EpisodeInv, OutcomeInv, BeforeResult
      <4>3. [a \in Wanted |-> store'[a]] = [[a \in Wanted |-> store[a]] EXCEPT ![Target] = resultsDoc]
        <5>1. store \in [ArtifactNames -> Docs] /\ Wanted \subseteq ArtifactNames
          BY DEF EpisodeInv, TypeOK, Wanted, ArtifactNames
        <5> HIDE DEF Wanted
        <5>2. \A a \in Wanted : store'[a] = IF a = Target THEN resultsDoc ELSE store[a]
          BY <3>5, <4>1, <5>1
        <5>3. [[a \in Wanted |-> store[a]] EXCEPT ![Target] = resultsDoc]
                = [a \in Wanted |-> IF a = Target THEN resultsDoc ELSE store[a]]
          BY <3>5
        <5> QED
          BY <5>2, <5>3, Zenon
      <4>4. PICK a \in Wanted : a = Target
        BY <3>5
      <4>5. ImplementsPublication!Store(a)
        BY <3>1, <3>3, <4>2, <4>3, <4>4 DEF ImplementsPublication!Store
      <4> QED
        BY <4>5
    <3> QED
      BY <3>1, <3>4, <3>5
  <2>3. CASE ProcessExits
    <3>1. UNCHANGED <<resultsDoc, store>> /\ Status = "running"
      BY <2>3 DEF ProcessExits, writeVars, Status
    <3>2. CASE pc = "grace"
      <4>1. Status' = "ok"
        BY <2>3, <3>2 DEF ProcessExits, Status
      <4>2. resultsDoc # NoDoc
        BY <3>2 DEF EpisodeInv, OutcomeInv, BeforeResult
      <4>3. \A a \in Wanted : store[a] = resultsDoc
        BY <3>2 DEF EpisodeInv, ErrorInv, Wanted
      <4>4. ImplementsPublication!Succeed
        BY <3>1, <4>1, <4>2, <4>3 DEF ImplementsPublication!Succeed
      <4> QED
        BY <4>4
    <3>3. CASE pc = "raised"
      <4>1. Status' = "error"
        BY <2>3, <3>3 DEF ProcessExits, Status
      <4>2. ImplementsPublication!Fail
        BY <3>1, <4>1 DEF ImplementsPublication!Fail
      <4> QED
        BY <4>2
    <3> QED
      BY <2>3, <3>2, <3>3 DEF ProcessExits
  <2>4. CASE ConnectWaitEnds \/ EngineTick \/ AnnounceEnds
    <3>1. UNCHANGED <<resultsDoc, store>> /\ pc \notin ExitPcs /\ pc' \notin ExitPcs
      BY <2>4
         DEF ConnectWaitEnds, EngineTick, AnnounceEnds, writeVars, ExitPcs, AnnouncePcs, ToResults,
             ToReplay, Ending
    <3> QED
      BY <3>1 DEF Status, ExitPcs
  <2>5. CASE \E s \in Slots : PlayerConnects(s) \/ PlayerLeaves(s) \/ DoneSent(s) \/ DoneFails(s)
    <3>1. UNCHANGED <<resultsDoc, store, pc>>
      BY <2>5 DEF PlayerConnects, PlayerLeaves, DoneSent, DoneFails, writeVars
    <3> QED
      BY <3>1 DEF Status
  <2>6. CASE UNCHANGED episodeVars
    BY <2>6 DEF episodeVars, writeVars, Status
  <2> QED
    BY <2>1, <2>2, <2>3, <2>4, <2>5, <2>6 DEF EpisodeNext
<1> QED
  BY <1>1, <1>2, EpisodeInvariant, PTL
     DEF EpisodeSpec, PublicationHolds, ImplementsPublication!Spec

-----------------------------------------------------------------------------
(* Why run_episode ends.  What it does by itself lowers EpisodeRank or the     *)
(* SendRank of one done message; only players' coming and going does not.      *)

EpisodePhase ==
  [connect |-> 8, report |-> 7, engine |-> 6, announce |-> 5, results |-> 4, replay |-> 3,
   fault_results |-> 5, fault_replay |-> 4, fault_announce |-> 3, grace |-> 1, raised |-> 1,
   exit_ok |-> 0, exit_error |-> 0]

\* Ways of run_episode still to go, ticks to play and attempts to make.
EpisodeRank ==
  EpisodePhase[pc] + (MaxTicks - tickCount)
    + (Attempts - tries["failure"]) + (Attempts - tries["results"]) + (Attempts - tries["replay"])

SendRank(s) == [idle |-> 3, sending |-> 2, broken |-> 1, told |-> 0, over |-> 0][done[s]]

ComesOrGoes == \E s \in Slots : PlayerConnects(s) \/ PlayerLeaves(s)

EpisodeRunsDown ==
  [][\/ EpisodeRank' < EpisodeRank
     \/ /\ EpisodeRank' = EpisodeRank
        /\ \/ \E s \in Slots : /\ SendRank(s)' < SendRank(s)
                               /\ \A t \in Slots \ {s} : SendRank(t)' = SendRank(t)
           \/ ComesOrGoes /\ \A t \in Slots : SendRank(t)' <= SendRank(t)]_episodeVars

LEMMA RankParts ==
  ASSUME TypeOK
  PROVE  /\ EpisodePhase[pc] \in 0..8 /\ tickCount \in 0..MaxTicks /\ MaxTicks \in Nat
         /\ Attempts \in Nat /\ \A a \in ArtifactNames : tries[a] \in 0..Attempts
         /\ "failure" \in ArtifactNames /\ "results" \in ArtifactNames /\ "replay" \in ArtifactNames
BY EpisodeAssumption DEF TypeOK, EpisodePhase, WritePcs, Writing, AnnouncePcs, ExitPcs, ArtifactNames

\* A step to a later phase that takes back neither a tick nor an attempt.
LEMMA PhaseGoesDown ==
  ASSUME TypeOK, TypeOK', EpisodePhase[pc'] < EpisodePhase[pc], tickCount' = tickCount,
         \A a \in ArtifactNames : tries[a] <= tries'[a]
  PROVE  EpisodeRank' < EpisodeRank
<1> DEFINE p == EpisodePhase[pc]
           q == EpisodePhase[pc']
<1>1. /\ p \in 0..8 /\ tickCount \in 0..MaxTicks /\ MaxTicks \in Nat /\ Attempts \in Nat
      /\ tries["failure"] \in 0..Attempts /\ tries["results"] \in 0..Attempts
      /\ tries["replay"] \in 0..Attempts
  BY RankParts
<1>2. /\ q \in 0..8 /\ tries'["failure"] \in 0..Attempts /\ tries'["results"] \in 0..Attempts
      /\ tries'["replay"] \in 0..Attempts
  <2>1. /\ (EpisodePhase[pc] \in 0..8)'
        /\ (\A a \in ArtifactNames : tries[a] \in 0..Attempts)'
        /\ "failure" \in ArtifactNames /\ "results" \in ArtifactNames /\ "replay" \in ArtifactNames
    <3>1. TypeOK' => /\ (EpisodePhase[pc] \in 0..8)'
                     /\ (\A a \in ArtifactNames : tries[a] \in 0..Attempts)'
      BY EpisodeAssumption DEF TypeOK, EpisodePhase, WritePcs, Writing, AnnouncePcs, ExitPcs,
                               ArtifactNames
    <3> QED
      BY <3>1 DEF ArtifactNames
  <2> QED
    BY <2>1
<1>3. /\ tries["failure"] <= tries'["failure"] /\ tries["results"] <= tries'["results"]
      /\ tries["replay"] <= tries'["replay"]
  BY RankParts
<1>4. q < p /\ EpisodeRank = p + (MaxTicks - tickCount) + (Attempts - tries["failure"])
                              + (Attempts - tries["results"]) + (Attempts - tries["replay"])
      /\ EpisodeRank' = q + (MaxTicks - tickCount) + (Attempts - tries'["failure"])
                              + (Attempts - tries'["results"]) + (Attempts - tries'["replay"])
  BY DEF EpisodeRank
<1> HIDE DEF p, q
<1> QED
  BY <1>1, <1>2, <1>3, <1>4

LEMMA EpisodeStepRank ==
  ASSUME EpisodeInv, EpisodeInv', EpisodeNext
  PROVE  \/ EpisodeRank' < EpisodeRank
         \/ /\ EpisodeRank' = EpisodeRank /\ pc' = pc
            /\ \/ \E s \in Slots : /\ SendRank(s)' < SendRank(s)
                                   /\ \A t \in Slots \ {s} : SendRank(t)' = SendRank(t)
               \/ ComesOrGoes /\ \A t \in Slots : SendRank(t)' <= SendRank(t)
<1>0. TypeOK /\ TypeOK'
  BY DEF EpisodeInv
<1>1. tries' = tries => \A a \in ArtifactNames : tries[a] <= tries'[a]
  BY <1>0, RankParts
<1>2. CASE ConnectWaitEnds \/ EngineReturns \/ EngineRaises \/ AnnounceEnds \/ ProcessExits
  <2>1. tickCount' = tickCount /\ tries' = tries
    BY <1>2 DEF ConnectWaitEnds, EngineReturns, EngineRaises, AnnounceEnds, ProcessExits, writeVars
  <2>2. EpisodePhase[pc'] < EpisodePhase[pc]
    BY <1>2 DEF ConnectWaitEnds, EngineReturns, EngineRaises, AnnounceEnds, ProcessExits,
                EpisodePhase, AnnouncePcs, ToResults, ToReplay, Ending, ToFaultResults, ToFaultReplay
  <2> QED
    BY <1>0, <1>1, <2>1, <2>2, PhaseGoesDown
<1>3. CASE EngineTick
  <2>1. /\ pc' = pc /\ tries' = tries /\ tickCount' = tickCount + 1
    BY <1>3 DEF EngineTick, writeVars
  <2> DEFINE p == EpisodePhase[pc]
  <2>2. p \in 0..8 /\ tickCount \in 0..MaxTicks /\ MaxTicks \in Nat /\ Attempts \in Nat
        /\ tries["failure"] \in 0..Attempts /\ tries["results"] \in 0..Attempts
        /\ tries["replay"] \in 0..Attempts
    BY <1>0, RankParts
  <2>3. /\ EpisodeRank = p + (MaxTicks - tickCount) + (Attempts - tries["failure"])
                           + (Attempts - tries["results"]) + (Attempts - tries["replay"])
        /\ EpisodeRank' = p + (MaxTicks - (tickCount + 1)) + (Attempts - tries["failure"])
                           + (Attempts - tries["results"]) + (Attempts - tries["replay"])
    BY <2>1 DEF EpisodeRank
  <2> HIDE DEF p
  <2> QED
    BY <2>2, <2>3
<1>4. CASE Write
  <2>1. /\ pc \in WritePcs /\ tickCount' = tickCount
        /\ tries' \in {tries, [tries EXCEPT ![Target] = @ + 1]}
        /\ \/ pc' = pc /\ tries' = [tries EXCEPT ![Target] = @ + 1]
           \/ pc' = AfterWrite
    BY <1>4, WriteFacts
  <2>2. tries \in [ArtifactNames -> 0..Attempts] /\ Attempts \in Nat /\ Target \in ArtifactNames
    BY <1>0, <2>1, Targets, RankParts DEF TypeOK, ArtifactNames
  <2>3. \A a \in ArtifactNames : tries[a] <= tries'[a]
    BY <2>1, <2>2
  <2>4. CASE pc' = AfterWrite
    <3>1. EpisodePhase[pc'] < EpisodePhase[pc]
      BY <2>1, <2>4, Targets, AfterWriteFacts DEF EpisodePhase, ToReplay, ToFaultReplay, Ending
    <3> QED
      BY <1>0, <2>1, <2>3, <3>1, PhaseGoesDown
  <2>5. CASE pc' = pc /\ tries' = [tries EXCEPT ![Target] = @ + 1]
    <3> DEFINE p == EpisodePhase[pc]
    <3>1. p \in 0..8 /\ tickCount \in 0..MaxTicks /\ MaxTicks \in Nat
          /\ tries["failure"] \in 0..Attempts /\ tries["results"] \in 0..Attempts
          /\ tries["replay"] \in 0..Attempts
      BY <1>0, RankParts
    <3>2. \A a \in ArtifactNames : tries'[a] = IF a = Target THEN tries[a] + 1 ELSE tries[a]
      BY <2>2, <2>5
    <3>3. /\ tries'["failure"] = IF "failure" = Target THEN tries["failure"] + 1 ELSE tries["failure"]
          /\ tries'["results"] = IF "results" = Target THEN tries["results"] + 1 ELSE tries["results"]
          /\ tries'["replay"] = IF "replay" = Target THEN tries["replay"] + 1 ELSE tries["replay"]
      BY <3>2 DEF ArtifactNames
    <3>4. Target \in {"failure", "results", "replay"}
      BY <2>2 DEF ArtifactNames
    <3>5. /\ EpisodeRank = p + (MaxTicks - tickCount) + (Attempts - tries["failure"])
                             + (Attempts - tries["results"]) + (Attempts - tries["replay"])
          /\ EpisodeRank' = p + (MaxTicks - tickCount) + (Attempts - tries'["failure"])
                             + (Attempts - tries'["results"]) + (Attempts - tries'["replay"])
      BY <2>1, <2>5 DEF EpisodeRank
    <3> HIDE DEF p
    <3> QED
      BY <2>2, <3>1, <3>3, <3>4, <3>5
  <2> QED
    BY <2>1, <2>4, <2>5
<1>5. ASSUME NEW s \in Slots, DoneSent(s) \/ DoneFails(s)
      PROVE  /\ EpisodeRank' = EpisodeRank /\ pc' = pc /\ SendRank(s)' < SendRank(s)
             /\ \A t \in Slots \ {s} : SendRank(t)' = SendRank(t)
  <2>1. /\ done[s] \in {"sending", "broken"} /\ done'[s] \in {"told", "over"}
        /\ \A t \in Slots \ {s} : done'[t] = done[t]
    BY <1>0, <1>5 DEF DoneSent, DoneFails, TypeOK
  <2>2. EpisodeRank' = EpisodeRank /\ pc' = pc
    BY <1>5 DEF DoneSent, DoneFails, EpisodeRank, writeVars
  <2> QED
    BY <2>1, <2>2 DEF SendRank
<1>6. ASSUME NEW s \in Slots, PlayerConnects(s) \/ PlayerLeaves(s)
      PROVE  /\ EpisodeRank' = EpisodeRank /\ pc' = pc
             /\ \A t \in Slots : SendRank(t)' <= SendRank(t)
  <2>1. \A t \in Slots : done'[t] = done[t] \/ (done[t] = "sending" /\ done'[t] = "broken")
    BY <1>0, <1>6 DEF PlayerConnects, PlayerLeaves, TypeOK
  <2>2. EpisodeRank' = EpisodeRank /\ pc' = pc
    BY <1>6 DEF PlayerConnects, PlayerLeaves, EpisodeRank, writeVars
  <2>3. \A t \in Slots : done[t] \in {"idle", "sending", "broken", "told", "over"}
    BY <1>0 DEF TypeOK
  <2> QED
    BY <2>1, <2>2, <2>3 DEF SendRank
<1> QED
  BY <1>2, <1>3, <1>4, <1>5, <1>6 DEF EpisodeNext, ComesOrGoes

\* However the engine, the store and the players behave, the process has at most
\* 8 + MaxTicks + 3 * Attempts steps of run_episode to go before its exit.
THEOREM EpisodeComesToItsEnd ==
  EpisodeSpec => /\ EpisodeRunsDown
                 /\ [](EpisodeRank \in 0..(8 + MaxTicks + 3 * Attempts))
                 /\ [](EpisodeRank = 0 => Exited)
<1>1. EpisodeInv /\ EpisodeInv' /\ [EpisodeNext]_episodeVars =>
        [\/ EpisodeRank' < EpisodeRank
         \/ /\ EpisodeRank' = EpisodeRank
            /\ \/ \E s \in Slots : /\ SendRank(s)' < SendRank(s)
                                   /\ \A t \in Slots \ {s} : SendRank(t)' = SendRank(t)
               \/ ComesOrGoes /\ \A t \in Slots : SendRank(t)' <= SendRank(t)]_episodeVars
  BY EpisodeStepRank
<1>2. EpisodeInv => /\ EpisodeRank \in 0..(8 + MaxTicks + 3 * Attempts)
                    /\ EpisodeRank = 0 => Exited
  <2> SUFFICES ASSUME EpisodeInv PROVE /\ EpisodeRank \in 0..(8 + MaxTicks + 3 * Attempts)
                                       /\ EpisodeRank = 0 => Exited
    OBVIOUS
  <2> DEFINE p == EpisodePhase[pc]
  <2>1. p \in 0..8 /\ tickCount \in 0..MaxTicks /\ MaxTicks \in Nat /\ Attempts \in Nat
        /\ tries["failure"] \in 0..Attempts /\ tries["results"] \in 0..Attempts
        /\ tries["replay"] \in 0..Attempts
    BY RankParts DEF EpisodeInv
  <2>2. EpisodeRank = p + (MaxTicks - tickCount) + (Attempts - tries["failure"])
                        + (Attempts - tries["results"]) + (Attempts - tries["replay"])
    BY DEF EpisodeRank
  <2>3. p = 0 => Exited
    BY DEF EpisodeInv, TypeOK, EpisodePhase, WritePcs, Writing, AnnouncePcs, ExitPcs, Exited
  <2> HIDE DEF p
  <2> QED
    BY <2>1, <2>2, <2>3
<1> QED
  BY <1>1, <1>2, EpisodeInvariant, PTL DEF EpisodeSpec, EpisodeRunsDown
=============================================================================
