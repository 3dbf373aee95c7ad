SPECIFICATION RestartSpec
CONSTANTS
  Clients = {t1}
  Configs = {s, a}
  Startup = s
  Rejected = bad
  MaxRevision = 1
INVARIANTS
  NoLostUpdate
CHECK_DEADLOCK FALSE
