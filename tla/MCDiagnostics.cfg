SPECIFICATION DiagnosticsSpec
CONSTANTS
    MaxUnits = 4
    Threads <- BothThreads
    t1 = t1
    t2 = t2
    m1 = m1
    m2 = m2
    MaxLines = 3
    MaxTime = 1
    Namespaces = {ns, Absent}
    Types = {type}
    Names = {m1, m2}
    Bracketed <- NoBracket
    Addresses = {1, 2}
    Unknown = Unknown
    Absent = Absent
    MaxDump = 5
    MaxOffset = 1
CHECK_DEADLOCK FALSE
SYMMETRY AnyThread
INVARIANTS
    Utf8ButLast
    KeepsMeaning
    OverlapOnly
    NumbersComplete
    FewOvertaken
    MethodsExact
    AnnotatedRight
    AnnotatedOnce
