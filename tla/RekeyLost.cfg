SPECIFICATION TrSpec
CONSTANTS
    Block = 2
    PlainBlock = 2
    MinPad = 1
    MacLen = 3
    BufSize = 3
    MaxPayload = 9
    PayLen <- Lengths
    UserMsgs = {"m1"}
    PeerMsgs = {}
    SeqnoMod = 4
    MaxKeys = 2
PROPERTIES
    ExchangeEnds
CHECK_DEADLOCK FALSE
