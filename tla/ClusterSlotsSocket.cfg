CONSTANTS
    Nodes = {1, 2, 3}
    Keys = {1, 2}
    Scenes <- FaultScenes
SPECIFICATION Spec
CHECK_DEADLOCK FALSE
INVARIANT SocketsIdle
