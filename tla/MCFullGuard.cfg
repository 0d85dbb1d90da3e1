\* The engine never refuses a method that exists and every entry is guarded:
\* what the report promises, and that the quarantine ends with the session.
CONSTANTS
    EntryOrder <- MCEntryOrder
    TracedEntries = {}
    Builds <- FullOrSquadless
    EngineFails = FALSE
    AllocFails = TRUE
    Hosts <- MCHosts
    Regions <- MCRegions
    PunStates <- FewPunStates
    None = None
SPECIFICATION FairSpec
INVARIANTS
    LateRouted
PROPERTIES
    ImplementsSession
    UpdateResumes
