\* connection_state() answers -1 when PUN lacks the getter.
CONSTANTS
    EntryOrder <- OneEntryOrder
    TracedEntries = {}
    Builds <- WithoutGetter
    EngineFails = FALSE
    AllocFails = FALSE
    Hosts <- MCHosts
    Regions <- MCRegions
    PunStates <- FewPunStates
    None = None
SPECIFICATION Spec
PROPERTIES
    NoFriendsDisconnect
