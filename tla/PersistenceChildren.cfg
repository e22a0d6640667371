SPECIFICATION Spec
CONSTANTS
  dbnum = 2
  REDIS_AOF_REWRITE_ITEMS_PER_CMD = 2
  Scenes <- MCScenes
CHECK_DEADLOCK FALSE
INVARIANT ChildrenReaped
