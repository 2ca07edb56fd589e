SPECIFICATION Spec
CONSTANTS
    None = None
    MaxSessions = 2
    MaxPatches = 2
    MaxFaults = 1
INVARIANTS
    TypeOK
    SwitchShowsFlag
    DisconnectIsShown
