SPECIFICATION DiagnosticsSpec
CONSTANTS
    MaxUnits = 0
    Threads <- BothThreads
    t1 = t1
    t2 = t2
    m1 = m1
    m2 = m2
    MaxLines = 1
    MaxTime = 0
    Namespaces = {Absent}
    Types = {type}
    Names = {m1, m2}
    Bracketed <- OneBracket
    Addresses = {1}
    Unknown = Unknown
    Absent = Absent
    MaxDump = 3
    MaxOffset = 1
CHECK_DEADLOCK FALSE
INVARIANT AnnotatedOnce
