SPECIFICATION MCSpec
CONSTANTS
    Parts = {"hashes"}
    Procs = {p1, p2, p3}
    Inodes = {i1, i2, i3}
    NoInode = NoInode
    Requests <- MCRequests
    AtomicConversion = TRUE
    Tasks = {"a", "b"}
    Expected = {"good", "other"}
    PREMIRRORS <- MCPremirrors
    MIRRORS <- MCMirrors
    Upstream = "up"
    LocalSources = {"local"}
    Offered <- OnlyMirror
    MaxIOErrors = 1
    MaxKills = 3
    MaxCleans = 1
    Parsers = {"p1", "p2"}
    Nobody = "nobody"
    Jobs = {"r1", "r2", "r3", "r4"}
    Share <- MCShare
    Bad = {"r4"}
    QueueSize = 2
    MayShutdown = TRUE
    MaxParserKills = 1
    TornWrites = FALSE
    DefersSignals = TRUE
INVARIANT WorkerStays
