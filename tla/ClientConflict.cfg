\* The repository's defaults, in half seconds: 5 attempts 0.5 s apart, a 1 s
\* tick deadline, 10 strikes, a 20 s heartbeat with 10 s for the pong.
SPECIFICATION Spec
CONSTANTS
  MaxConnectAttempts = 5
  ReconnectDelay = 1
  TickDeadline = 2
  StrikeLimit = 10
  Heartbeat = 60
  MaxTicks = 2
INVARIANTS
  StaleConnectionClears
CHECK_DEADLOCK FALSE
