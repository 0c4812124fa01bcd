SPECIFICATION ReadingSpec
CONSTANTS
    Initial = 4
    PeerInitial = 0
    PacketSize = 3
    MinAdjust = 2
    HeadSlack = 1
    Modulus = 64
    ReadSizes = {1, 5}
    WriteSizes = {}
    AdjustSizes = {}
    DataSizes = {2}
    GrantSizes = {}
    Modes = {}
    ReadStreams = {0}
    PeerStreams = {0}
    Ops = {"read"}
    Blocking = FALSE
    MayTimeout = FALSE
    MayBlock = TRUE
    MayDrop = FALSE
    MaxWire = 2
    MaxSent = 8
    MaxWindow = 6
    MaxPeerGranted = 0
    MaxRequests = 0
    MaxRekeys = 0
PROPERTY
    ReaderFeedsPeer
CHECK_DEADLOCK FALSE
