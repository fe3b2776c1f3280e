---------------------------- MODULE MCReplayViewer ---------------------------
(* ReplayViewer for TLC.                                                   *)
EXTENDS ReplayViewer
=============================================================================
