SPECIFICATION Spec
CONSTANTS
    ScpPaths <- Paths
    ScpStderr = FALSE
    PkKeys = {1, 2}
    PkMaxRequests = 4
    PkTroubles = {}
    AgentKeys = {k1, k2}
    AgentTroubles = {"old", "forgets", "refused", "dies"}
    KhHosts = {"host", "ab"}
    KhShort = {"ab"}
    KhKeys = {"k1", "k2"}
    KhMax = 2
    KhFormats = {}
INVARIANTS
    NamedFile
    ChannelAtData
    VerdictIsOwn
    SignatureIsAsked
    VerdictIsMeant
    FileKeepsVerdicts
PROPERTIES
    ServicesEnd
CHECK_DEADLOCK FALSE
