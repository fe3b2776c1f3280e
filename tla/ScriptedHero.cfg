\* One hero on a lane with a tower.
SPECIFICATION FairHeroSpec
CONSTANTS
  Rows <- OneRow
  Role <- LaneRole
  Height = 11
  Width = 20
  Walls <- Border
  Farthest = 13
  Towers = {1, 2}
  TowerCell <- LaneTowers
  EnemyTowers = {1}
  Ancient = 2
  Spawn <- LaneSpawn
  Fountain <- LaneFountain
  Lane <- LaneWay
  Vis = 3
  TowerVision = 3
  CreepEngagedDist = 3
  RetreatEnter = 3
  RetreatExit = 8
  WaypointReached = 7
  TeleportDist = 3
  StuckTicks = 3
  DetourTicks = 3
  Scale = 3
  Straight = 3
  Diagonal = 2
  SlowStraight = 1
  SlowDiagonal = 1
  Waves <- LaneWaves
  LeapTo <- LaneLeaps
  StunTime = 4
  SlowTime = 4
  HasteTime = 4
  MaxMishaps = 1
INVARIANTS
  HeroTypeOK
  RememberedDeadAreDead
PROPERTIES
  
  SlowIsNotStuck
  HeroArrives
CHECK_DEADLOCK FALSE
