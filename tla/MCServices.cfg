SPECIFICATION MCSpec
CONSTANTS
    Parts = {"hashserv", "upstream", "outage", "prserv", "rpc"}
    Clients = {c1, c2}
    Taskhashes = {t1, t2}
    Outhashes = {o1, o2}
    Unihashes = {u1, u2}
    None = None
    Slots = {1, 2, 3}
    Kinds = {"report", "report-equiv", "get-stream"}
    MaxAsked = 2
    MaxUpReports = 0
    MaxCrashes = 1
    MaxOutages = 0
    MaxTimeouts = 1
    Servers = {c1, c2}
    Versions = {t1, t2}
    Checksums = {o1, o2}
    MaxRequests = 4
    MaxExports = 1
    Crashes = FALSE
    NumCalls = 4
    Long = {2, 3}
SYMMETRY Symmetry
INVARIANTS OneUnihash ValuesKept AnswersMatch
PROPERTY UnihashesKept
