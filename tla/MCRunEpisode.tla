----------------------------- MODULE MCRunEpisode ----------------------------
(* RunEpisode for TLC: two seats, two artifacts behind retries.            *)
EXTENDS RunEpisode

TwoSlots == {0, 1}
=============================================================================
