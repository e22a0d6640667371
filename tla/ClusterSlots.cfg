CONSTANTS
    Nodes = {1, 2, 3}
    Keys = {1, 2}
    Scenes <- MCScenes
SPECIFICATION Spec
CHECK_DEADLOCK FALSE
INVARIANTS ReadsLatest AskIsServed OneCopy
