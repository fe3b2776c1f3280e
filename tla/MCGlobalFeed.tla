----------------------------- MODULE MCGlobalFeed ----------------------------
(* GlobalFeed for TLC: one seat, viewers that connect at any time.         *)
EXTENDS GlobalFeed
CONSTANTS v1
OneViewer == {v1}
=============================================================================
