CONSTANTS
    p1 = p1
    p2 = p2
    good = good
    bad = bad
    Packet <- MCPacket
    Psk <- GoodOnly
    ServerPsk = good
    ClientPsks <- GoodOnly
    MaxConn = 1
    MaxSent <- OneAndTwo
    MaxChan = 1
    WireCap = 1
SPECIFICATION FairSpec
CHECK_DEADLOCK FALSE
INVARIANTS TypeOK InOrder NoDecryptError
PROPERTIES PipeSpec Delivery
