CONSTANTS
  NumClients = 3
  TickSpeed = 1
  SecondsToExplosion = 2
  MinSeconds = 0
  BombDamage = 1
  BombsPerPlayer = 6
  CollateralDamage = FALSE
  WarmupSeconds = 1
  GameOverSeconds = 2
  WantedTeams <- ButtonTeams
  Rcon = {}
  NoBomb = NoBomb
SPECIFICATION FairSpec
PROPERTIES
  RoundsHaveABomb
