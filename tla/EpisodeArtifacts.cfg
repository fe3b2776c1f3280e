\* Two seats, a failure report and two artifacts, each behind the retry loop.
SPECIFICATION EpisodeSpec
CONSTANTS
  Slots <- TwoSlots
  MaxTicks = 1
  Attempts = 2
  Requested = {"failure", "results", "replay"}
  Remote = {"failure", "results", "replay"}
INVARIANTS
  NoArtifactForgotten
  ReportBlamesFirstNoShow
PROPERTIES
  PublicationHolds
CHECK_DEADLOCK FALSE
