SPECIFICATION Spec
CONSTANTS
  Servers = {"a", "b", "c"}
  None = None
  Dbs = {0, 1}
  repl_backlog_size = 4
  Scenes <- MCScenes
CHECK_DEADLOCK FALSE
INVARIANT WaitCountsHolders
