CONSTANTS
    Width = 6
    RECONNECT_BASE_DELAY = 1
    RECONNECT_MAX_DELAY = 30
SPECIFICATION FairSpec
INVARIANTS TypeOK FloorUntilOverflow
PROPERTIES BackoffGrows Recovers
