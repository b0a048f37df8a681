CONSTANTS
  NumClients = 3
  TickSpeed = 1
  SecondsToExplosion = 2
  MinSeconds = 0
  BombDamage = 1
  BombsPerPlayer = 2
  CollateralDamage = TRUE
  WarmupSeconds = 2
  GameOverSeconds = 2
  WantedTeams <- ButtonTeams
  Rcon = {}
  NoBomb = NoBomb
SPECIFICATION FairSpec
INVARIANTS
  TypeOK SlotsInOrder AliveOnlyInRound RoundRunsFree AliveUnrecorded ArenaIsForTheLiving
PROPERTIES
  SoleSurvivorWins NobodyRejoins PickSparesSomebody RoundEnds PauseLifts RoundStarts
