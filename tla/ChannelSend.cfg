SPECIFICATION Spec
CONSTANTS
    Initial = 1
    PeerInitial = 1
    PacketSize = 2
    MinAdjust = 1
    HeadSlack = 1
    Modulus = 64
    ReadSizes = {1}
    WriteSizes = {1, 3}
    AdjustSizes = {}
    DataSizes = {1}
    GrantSizes = {2}
    Modes = {}
    ReadStreams = {0}
    PeerStreams = {0}
    Ops = {"write", "eof", "close", "free", "wait_eof", "wait_closed"}
    Blocking = FALSE
    MayTimeout = FALSE
    MayBlock = TRUE
    MayDrop = TRUE
    MaxWire = 2
    MaxSent = 1
    MaxWindow = 1
    MaxPeerGranted = 3
    MaxRequests = 1
    MaxRekeys = 0
INVARIANTS
    TypeOK
    WriteWithinWindow
PROPERTIES
    NoDataAfterEof
CHECK_DEADLOCK FALSE
