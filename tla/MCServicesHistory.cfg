SPECIFICATION Spec
CONSTANTS
    U32Max = 1000
    Scope <- SmallScope
    DEFAULT_CAPACITY = 2
    DEFAULT_REFILL_RATE = 1
    FLOOD_WARN_THRESHOLD = 1
    FLOOD_LIMIT = 2
    FLOOD_BAN_THRESHOLD = 4
    BUCKET_CAPACITY = 2
    DEFAULT_BUDGET_BYTES = 3
    MAX_INITIAL_TTL = 3
    ACK_TIMEOUT_EPOCHS = 1
    MAX_PENDING_PER_PEER = 1
    BASE_RETRY_EPOCHS = 1
    MAX_RETRY_EPOCHS = 2
    MAX_RETRIES = 3
    MAX_TRACKED_PEERS = 1
    QUEUE_CAPACITY = 2
    WINDOW_EPOCHS = 3
    MAX_NONCES_PER_EPOCH = 1
    CACHE_WINDOW_EPOCHS = 3
    MAX_ENTRIES_PER_EPOCH = 1
    MAX_BLOCKLIST_SIZE = 1
    MAX_POOL_SIZE = 1
    MAX_IDLE_EPOCHS = 2
    MAX_BOOK_SIZE = 1
    MAX_ROUTES = 1
    MAX_TOPICS_PER_PEER = 2
    MAX_FILTER_TOPICS = 1
    MISS_THRESHOLD = 2
    DEAD_THRESHOLD = 4
    Voters = 3
    LATENCY_WINDOW = 2
    DEFAULT_WINDOW_SIZE = 5
    MAX_EPOCH_LAG = 0
    MAX_LATENCY_TICKS = 255
    INITIAL_ENTROPY_BUDGET = 3
    ADAPTIVE_EVENT_COST = 2
    REPLAY_REPLENISHMENT = 1
    MAX_ENTROPY_BUDGET = 4
    DEFAULT_MOMENTUM_WINDOW = 3
    MAX_WATERMARK_PEERS = 1
    BOUNDARY_QUORUM_PCT = 66
    MIN_FANOUT = 2
    MAX_FANOUT = 4
    FIB_CAP_INDEX = 5
    MAX_ARCHIVE_SIZE = 2
    CONVERGENCE_WINDOW_SIZE = 3
    U8Range = 8
    DEFAULT_MAX_EPOCH_LAG = 1
    FRAGMENT_SIZE = 2
    MAX_FRAGMENTS = 3
    MAX_LAG_ALLOWED = 1
    COMPACT_ENTRY_THRESHOLD = 3
    COMPACT_EPOCH_INTERVAL = 2
    PRUNE_TARGET_SIZE = 2
    MIN_RETAIN = 1
    OldAge = 1
INVARIANTS
    AnchorCoversPruned
CHECK_DEADLOCK FALSE
