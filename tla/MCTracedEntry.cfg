\* GameConnect.ConnectToPhoton/0 is hooked for tracing only.
CONSTANTS
    EntryOrder <- MCEntryOrder
    TracedEntries = {"GameConnect.ConnectToPhoton/0"}
    Builds <- OnlyFull
    EngineFails = FALSE
    AllocFails = FALSE
    Hosts <- MCHosts
    Regions <- MCRegions
    PunStates <- FewPunStates
    None = None
SPECIFICATION Spec
INVARIANTS
    LateRouted
