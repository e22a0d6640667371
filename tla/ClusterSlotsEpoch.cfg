CONSTANTS
    Nodes = {1, 2, 3}
    Keys = {1, 2}
    Scenes <- EpochScenes
SPECIFICATION Spec
CHECK_DEADLOCK FALSE
INVARIANTS MovedKeysStay
