\* One poll interval more between two registrations.
CONSTANTS
    WaitSteps = 9
    StableChecks = 5
    Headroom = 2
    Total = 4
    MaxCount = 5
    MaxGap = 3
SPECIFICATION Spec
\* The thread ends and so does the registration.
CHECK_DEADLOCK FALSE
INVARIANTS
    WalkSafe
