SPECIFICATION FairSpec

CONSTANTS
  QueueSize = 3
  MaxBacklog = 2
  MaxQueries = 5
  Kinds = {"read", "write", "add_write", "add_backup"}
  ServerMay = {"done", "refused"}
  BackupMay = {"done"}

INVARIANT CopiedFirst
INVARIANT SettledOnce
INVARIANT SuccessIsStored

PROPERTY AllAnswered
PROPERTY ShutdownReturns

CHECK_DEADLOCK FALSE
