SPECIFICATION Spec
CONSTANTS
    Initial = 4
    PeerInitial = 0
    PacketSize = 3
    MinAdjust = 2
    HeadSlack = 2
    Modulus = 64
    ReadSizes = {1, 2}
    WriteSizes = {}
    AdjustSizes = {1}
    DataSizes = {1, 3}
    GrantSizes = {}
    Modes = {"IGNORE"}
    ReadStreams = {0, 1}
    PeerStreams = {0, 1}
    Ops = {"read", "flush", "adjust", "adjust_queued", "mode", "pump", "window_read"}
    Blocking = FALSE
    MayTimeout = FALSE
    MayBlock = FALSE
    MayDrop = FALSE
    MaxWire = 1
    MaxSent = 4
    MaxWindow = 4
    MaxPeerGranted = 0
    MaxRequests = 0
    MaxRekeys = 0
INVARIANTS
    NoDataDropped
    ReadAvailIsQueued
CHECK_DEADLOCK FALSE
