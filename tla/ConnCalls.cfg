SPECIFICATION MCSpec
CONSTANTS
    Ports = {1}
    QueueMax = 1
    Kinds = {"pty", "process"}
    Ops = {"open", "listen", "request", "resize", "free", "cancel"}
    Blocking = TRUE
    MayBlock = TRUE
    MayTimeout = FALSE
    OneRequest = FALSE
    WantReply = FALSE
    MaxTags = 4
    MaxForwards = 2
INVARIANTS
    AnswerIsOwn
    PatientOwnsAll
    PendingHasOwner
PROPERTIES
    BlockingCallsReturn
CHECK_DEADLOCK FALSE
