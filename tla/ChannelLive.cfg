SPECIFICATION MCSpec
CONSTANTS
    Initial = 2
    PeerInitial = 0
    PacketSize = 2
    MinAdjust = 2
    HeadSlack = 1
    Modulus = 64
    ReadSizes = {1, 3}
    WriteSizes = {}
    AdjustSizes = {}
    DataSizes = {1}
    GrantSizes = {}
    Modes = {}
    ReadStreams = {0}
    PeerStreams = {0}
    Ops = {"read"}
    Blocking = TRUE
    MayTimeout = FALSE
    MayBlock = TRUE
    MayDrop = FALSE
    MaxWire = 2
    MaxSent = 6
    MaxWindow = 0
    MaxPeerGranted = 0
    MaxRequests = 0
    MaxRekeys = 0
PROPERTIES
    ReaderIsFed
    CloseReturns
CHECK_DEADLOCK FALSE
