\* One refused entry hook: the report still says ready.
CONSTANTS
    EntryOrder <- MCEntryOrder
    TracedEntries = {}
    Builds <- OnlyFull
    EngineFails = TRUE
    AllocFails = FALSE
    Hosts <- MCHosts
    Regions <- MCRegions
    PunStates <- FewPunStates
    None = None
SPECIFICATION Spec
INVARIANTS
    LateRouted
