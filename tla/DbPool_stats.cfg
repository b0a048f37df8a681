SPECIFICATION Spec

CONSTANTS
  QueueSize = 3
  MaxBacklog = 2
  MaxQueries = 2
  Kinds = {"stats", "add_write", "add_backup"}
  ServerMay = {"done", "refused"}
  BackupMay = {"done"}

INVARIANT StatsAreStored

CHECK_DEADLOCK FALSE
