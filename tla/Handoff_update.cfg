SPECIFICATION FairSpec
CONSTANTS
    MaxSessions = 2
    Deaths = {"app", "relay", "engine"}
CHECK_DEADLOCK FALSE
INVARIANTS
    NoAppWhileExecuting
    GateHeld
    RestartEnters
    FrozenOnlyInHandoff
PROPERTIES
    LeavesForItsOwnSession
    GateReopens
