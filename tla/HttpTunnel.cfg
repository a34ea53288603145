CONSTANTS
    good = good
    Psk <- MCPsk
    ServerPsk = good
    Public <- MCPublic
    SESSION_TIMEOUT = 3
    CleanupPeriod = 1
    KEEPALIVE_INTERVAL = 1
    ConnectTimeout = 1
    MaxAttempt = 2
    MaxNow = 4
    MaxSession = 2
    MaxStream = 0
    MaxDown = 0
    MaxUp = 2
    MaxQueue = 0
SPECIFICATION TunnelSpec
CHECK_DEADLOCK FALSE
INVARIANTS NothingLost EvictedOnlyUnanswered
