CONSTANTS
    good = good
    Psk <- MCPsk
    ServerPsk = good
    Public <- MCPublic
    SESSION_TIMEOUT = 1
    CleanupPeriod = 1
    KEEPALIVE_INTERVAL = 1
    ConnectTimeout = 1
    MaxAttempt = 1
    MaxNow = 2
    MaxSession = 1
    MaxStream = 1
    MaxDown = 1
    MaxUp = 1
    MaxQueue = 1
SPECIFICATION FairTunnelSpec
CHECK_DEADLOCK FALSE
INVARIANTS ClientTypeOK
PROPERTIES StoreSpec GoneNoticed UplinkDelivery
