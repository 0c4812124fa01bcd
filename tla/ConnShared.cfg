SPECIFICATION Spec
CONSTANTS
    Ports = {1, 2}
    QueueMax = 1
    Kinds = {"pty", "agent"}
    Ops = {"open", "listen", "request", "resize", "accept", "cancel", "free", "keepalive"}
    Blocking = TRUE
    MayBlock = TRUE
    MayTimeout = TRUE
    OneRequest = FALSE
    WantReply = FALSE
    MaxTags = 2
    MaxForwards = 2
INVARIANTS
    IdsDistinct
    QueueBounded
CHECK_DEADLOCK FALSE
