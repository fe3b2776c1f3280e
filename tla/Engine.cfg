\* Two seats, live and dead in every combination, several dead spells, faults.
SPECIFICATION FairSpec
CONSTANTS
  s1 = s1
  s2 = s2
  Seats <- TwoSeats
  Team <- TwoTeams
  StrikeLimit = 1
  MaxTicks = 5
  Outcomes = {"valid", "malformed", "raises"}
INVARIANTS
  TypeOK
  ProbeOfThisSpell
  SingleCaller
  NoopsAccounted
  DeadlineBudget
  ProbesGetTheLoop
  ReplayCoversEpisode
  ResultFaithful
PROPERTIES
  ImplementsStrikeRule
  Termination
  ValidProbeRevives
CHECK_DEADLOCK FALSE
