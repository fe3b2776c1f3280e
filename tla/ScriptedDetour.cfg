\* One hero on its way through a gap between two towers.
SPECIFICATION FairHeroSpec
CONSTANTS
  Rows <- OneRow
  Role <- GapRole
  Height = 15
  Width = 17
  Walls <- Border
  Farthest = 13
  Towers = {1, 2, 3}
  TowerCell <- GapTowers
  EnemyTowers = {}
  Ancient = 3
  Spawn <- GapSpawn
  Fountain <- GapFountain
  Lane <- GapWay
  Vis = 5
  TowerVision = 5
  CreepEngagedDist = 5
  RetreatEnter = 3
  RetreatExit = 8
  WaypointReached = 7
  TeleportDist = 4
  StuckTicks = 4
  DetourTicks = 5
  Scale = 3
  Straight = 3
  Diagonal = 2
  SlowStraight = 1
  SlowDiagonal = 1
  Waves <- GapWaves
  LeapTo = {}
  StunTime = 6
  SlowTime = 4
  HasteTime = 4
  MaxMishaps = 1
PROPERTIES
  DetoursEnd
CHECK_DEADLOCK FALSE
