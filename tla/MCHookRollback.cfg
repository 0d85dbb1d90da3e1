\* An engine that may hook an address and give no trampoline.
CONSTANTS
    Threads = {g1, g2}
    Targets = {t1, t2, t3}
    Addresses = {a1, a2}
    None = None
    EngineSilent = TRUE
SPECIFICATION Spec
\* The process stops for good when a thread jumps through a null slot.
CHECK_DEADLOCK FALSE
SYMMETRY Symmetry
INVARIANTS
    OutcomeHonest
    RunsOwnOriginal
PROPERTIES
    InstalledForGood
