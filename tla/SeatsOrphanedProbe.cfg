\* A reconnect that wins the seat before the old handler has ended.
SPECIFICATION SeatsSpec
CONSTANTS
  s1 = s1
  s2 = s2
  c1 = c1
  c2 = c2
  c3 = c3
  NoConn = NoConn
  Seats <- OneSeat
  Team <- OneTeam
  Conns <- TwoConns
  SlotOf <- ForOneSeat
  StrikeLimit = 1
  MaxTicks = 5
  Outcomes = {"valid", "none"}
  Kinds = {"valid"}
INVARIANTS
  ProbeWaitsOnLivingConnection
CHECK_DEADLOCK FALSE
