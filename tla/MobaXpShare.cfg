\* Two radiant heroes and a dire one: who gets the experience of a kill.
SPECIFICATION WorldSpec
CONSTANTS
  h1 = h1
  h2 = h2
  h3 = h3
  c1 = c1
  c2 = c2
  c3 = c3
  n1 = n1
  radiant = radiant
  dire = dire
  HeroOrder <- Trio
  CreepOrder <- Ring
  NeutralOrder <- OneNeutral
  TowerOrder <- Ancients
  SideOf <- Sides
  DireAncient = dire
  RadiantAncient = radiant
  NoPid = NoPid
  Floor <- LaneFloor
  TowerCell <- AncientCells
  Camp <- Camps
  LaneHead <- Heads
  WaveTeams <- OneEach
  WaveEvery = 2
  CampEvery = 3
  ScanEvery = 2
  TowerScanEvery = 2
  Vision = 1
  AttackRange = 2
  XpRange = 1
  ScanLimit = 2
  Leap = 3
  MaxTick = 2
INVARIANTS
  XpIsShared
CHECK_DEADLOCK FALSE
