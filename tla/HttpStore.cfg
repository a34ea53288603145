CONSTANTS
    good = good
    bad = bad
    pub = pub
    Psk <- MCPsk
    ServerPsk = good
    Public <- MCPublic
    SESSION_TIMEOUT = 1
    CleanupPeriod = 1
    MaxNow = 2
    MaxSession = 2
    MaxStream = 2
    MaxDown = 2
    MaxUp = 2
    MaxQueue = 2
SPECIFICATION Spec
CHECK_DEADLOCK FALSE
INVARIANTS TypeOK NonceOnce StreamContiguous ActiveKept StaleEvicted UplinkInOrder
