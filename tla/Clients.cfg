CONSTANTS
    Clients = {"a", "b", "c"}
    Channels = {"x"}
    REDIS_REPLY_BUF = 3
    REDIS_REPLY_CHUNK_BYTES = 3
    EMBSTR_SIZE_LIMIT = 1
    REDIS_IOBUF_LEN = 4
    REDIS_MBULK_BIG_ARG = 2
    REDIS_MAX_WRITE_PER_EVENT = 3
    client_max_querybuf_len = 8
    Scenes <- MCScenes
SPECIFICATION Spec
CHECK_DEADLOCK FALSE
INVARIANTS TypeOK QueuedOnce StreamIntact InOrder SubscriptionsMatch
