SPECIFICATION TrSpec
CONSTANTS
    Block = 2
    PlainBlock = 2
    MinPad = 1
    MacLen = 3
    BufSize = 3
    MaxPayload = 9
    PayLen <- Lengths
    UserMsgs = {"m1"}
    PeerMsgs = {"d1", "REQUEST"}
    SeqnoMod = 4
    MaxKeys = 2
INVARIANTS
    NeverGarbled
    NothingHidden
PROPERTIES
    IsWire
CHECK_DEADLOCK FALSE
