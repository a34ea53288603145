CONSTANTS
    p1 = p1
    p2 = p2
    good = good
    bad = bad
    Packet <- MCPacket
    Psk <- MCPsk
    ServerPsk = good
    ClientPsks <- MCPsk
    MaxConn = 2
    MaxSent <- NoTraffic
    MaxChan = 0
    WireCap = 1
SPECIFICATION FairSpec
CHECK_DEADLOCK FALSE
INVARIANT KeysAgree
PROPERTIES Teardown HandshakeEnds
