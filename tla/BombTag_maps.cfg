CONSTANTS
  NumClients = 2
  TickSpeed = 1
  SecondsToExplosion = 2
  MinSeconds = 0
  BombDamage = 1
  BombsPerPlayer = 2
  CollateralDamage = FALSE
  WarmupSeconds = 1
  GameOverSeconds = 2
  WantedTeams <- ButtonTeams
  Rcon = {"enqueue_map"}
  NoBomb = NoBomb
SPECIFICATION StatsFairSpec
PROPERTIES
  SpectatorsStay EnqueuedMapLoads CreditedOnce
INVARIANT RecordedOnce
