\* The engine and string_new may fail, builds differ, the game re-routes.
CONSTANTS
    EntryOrder <- MCEntryOrder
    TracedEntries = {}
    Builds <- WithGetter
    EngineFails = TRUE
    AllocFails = TRUE
    Hosts <- MCHosts
    Regions <- MCRegions
    PunStates <- MCPunStates
    None = None
SPECIFICATION Spec
INVARIANTS
    TypeOK
    SessionRouted
PROPERTIES
    EarlyOnlyUnchecked
    NoFriendsDisconnect
