SPECIFICATION Spec
CONSTANTS
    Initial = 3
    PeerInitial = 0
    PacketSize = 2
    MinAdjust = 2
    HeadSlack = 1
    Modulus = 64
    ReadSizes = {1, 5}
    WriteSizes = {}
    AdjustSizes = {}
    DataSizes = {1, 2}
    GrantSizes = {}
    Modes = {"MERGE"}
    ReadStreams = {0, 1}
    PeerStreams = {0, 1}
    Ops = {"read", "mode", "eof", "close", "free"}
    Blocking = TRUE
    MayTimeout = FALSE
    MayBlock = FALSE
    MayDrop = FALSE
    MaxWire = 2
    MaxSent = 4
    MaxWindow = 8
    MaxPeerGranted = 0
    MaxRequests = 0
    MaxRekeys = 1
INVARIANTS
    WindowAgreement
    StreamInOrder
    ZeroReadIsEnd
    ClosedIsSent
CHECK_DEADLOCK FALSE
