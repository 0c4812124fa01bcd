SPECIFICATION MCSpec
CONSTANTS
    Handles = {1, 2}
    Buffers = {1, 2}
    FileSize = 3
    Stream = 3
    MaxChunk = 2
    Entries = 3
    Scenes = {"read", "write", "open", "readdir", "fsync", "fstat", "unlink", "rename", "fstatvfs", "statvfs", "mkdir", "rmdir", "stat", "symlink", "realpath", "close"}
    MixHandles = FALSE
    MixCalls = FALSE
    Moods = {"plain", "odd", "tight"}
    MaxRequests = 5
    MaxOthers = 4
    MaxSeeks = 1
    PyKinds = {"channel", "sftp", "handle", "listener", "publickey", "agent"}
    PyHabits = {}
    PyMax = 3
INVARIANTS
    ReadsAreFile
    RepliesOwned
    WritesLand
    ListingInOrder
    NeverReached
    NoUseAfterFree
    NothingLeaks
CHECK_DEADLOCK FALSE
