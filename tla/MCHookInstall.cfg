\* An engine that fills the slot before it patches: the protocol is safe and
\* implements HookTable.
CONSTANTS
    Threads = {g1, g2}
    Targets = {t1, t2, t3}
    Addresses = {a1, a2}
    None = None
    EngineSilent = FALSE
SPECIFICATION Spec
INVARIANTS
    TypeOK
    NoNullForward
    RunsOwnOriginal
    OutcomeHonest
PROPERTIES
    InstalledForGood
    ImplementsTable
