\* A server that reaps a stale connection well inside the client's budget.
SPECIFICATION FairSpec
CONSTANTS
  MaxConnectAttempts = 4
  ReconnectDelay = 1
  TickDeadline = 1
  StrikeLimit = 2
  Heartbeat = 4
  MaxTicks = 3
INVARIANTS
  GivesUpAfterBudget
PROPERTIES
  PlayerEnds
CHECK_DEADLOCK FALSE
