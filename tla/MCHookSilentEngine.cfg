\* hook.cpp promises that rolling back avoids the crash: checked against an
\* engine that gives no trampoline, with one game thread and one target.
CONSTANTS
    Threads = {g1}
    Targets = {t1}
    Addresses = {a1}
    None = None
    EngineSilent = TRUE
SPECIFICATION Spec
INVARIANTS
    NoNullForward
CHECK_DEADLOCK FALSE
