CONSTANTS
    Base = 8
    SealedLength = 8
    SizeLine <- MCSizeLine
    CRLF <- MCCRLF
    MaxFrames = 2
    MaxStreams = 2
    MaxForwarded = 3
SPECIFICATION FairSpec
CHECK_DEADLOCK FALSE
PROPERTIES FramesForwarded
