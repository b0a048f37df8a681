CONSTANTS
  NumClients = 2
  TickSpeed = 1
  SecondsToExplosion = 2
  MinSeconds = 1
  BombDamage = 2
  BombsPerPlayer = 2
  CollateralDamage = TRUE
  WarmupSeconds = 2
  GameOverSeconds = 2
  WantedTeams <- AllTeams
  Rcon <- AllCommands
  NoBomb = NoBomb
SPECIFICATION Spec
INVARIANTS
  AliveUnrecorded
PROPERTIES
  SoleSurvivorWins
