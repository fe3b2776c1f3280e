\* A viewer that stalls, closes or comes late; a local report and a remote replay.
SPECIFICATION FairFeedSpec
CONSTANTS
  v1 = v1
  Slots = {0}
  MaxTicks = 2
  Attempts = 2
  Requested = {"failure", "replay"}
  Remote = {"replay"}
  Viewers <- OneViewer
  TickEvery = 1
INVARIANTS
  FeedTypeOK
  FeedIsOrdered
  TickSendsSerialized
  ViewersGetTheResult
PROPERTIES
  FeedNeverStalls
CHECK_DEADLOCK FALSE
