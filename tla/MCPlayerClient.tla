---------------------------- MODULE MCPlayerClient ---------------------------
(* PlayerClient for TLC.                                                   *)
EXTENDS PlayerClient
=============================================================================
