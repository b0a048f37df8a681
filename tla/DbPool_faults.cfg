SPECIFICATION Spec

CONSTANTS
  QueueSize = 3
  MaxBacklog = 2
  MaxQueries = 5
  Kinds = {"print", "add_read", "read", "write", "add_write", "add_backup"}
  ServerMay = {"done", "refused", "lost"}
  BackupMay = {"done", "refused", "half"}

INVARIANT TypeOK
PROPERTY NothingLost
PROPERTY KeepsPromise

CHECK_DEADLOCK FALSE
