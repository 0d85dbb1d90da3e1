\* An assembly at least every MaxGap polls, StableChecks = 2 * MaxGap + 1.
CONSTANTS
    WaitSteps = 8
    StableChecks = 5
    Headroom = 2
    Total = 4
    MaxCount = 5
    MaxGap = 2
    EntryOrder <- MCEntryOrder
    Preloaded <- MCPreloaded
    Images <- MCImages
    None = None
SPECIFICATION PhaseSpec
\* The thread ends and so does the registration.
CHECK_DEADLOCK FALSE
INVARIANTS
    TypeOK
    WalkSafe
    NoFalseTimeout
    NoLeakedAttach
    ResolveHonest
    ReportHonest
    NoFalseAbsence
PROPERTIES
    Terminates
    HooksInstalled
    Protected
    StepsRunOut
