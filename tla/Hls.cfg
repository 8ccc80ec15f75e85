SPECIFICATION FairSpec
CONSTANTS
    t1 = t1
    t2 = t2
    Tracks = {t1, t2}
    Clients = {c1, c2}
    NoFrame = NoFrame
    NoClient = NoClient
    NoName = NoName
    HeaderLen <- ShortHeaders
    SsndHeader = 2
    FmtLen = 2
    FullLace = 3
    SegmentSecs = 2
    PacketFrames = 2
    Limit = 2
    MaxClock = 1
    Instances <- All
INVARIANTS TypeOK VisibleIsWhole LimitHolds NoAudioIsSkipped SegmentsPartitionTrack DurationsMatchSource
PROPERTIES LoneRequestsSucceed RequestsEnd
CHECK_DEADLOCK FALSE
