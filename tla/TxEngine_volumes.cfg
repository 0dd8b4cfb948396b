SPECIFICATION FairSpec
CONSTANTS
    created = created
    replaced = replaced
    deleted = deleted
    manifest = manifest
    version = version
    respelt = respelt
    old = old
    new = new
    Absent = Absent
    Partial = Partial
    Alien = Alien
    None = None
    Files <- MCFiles
    Key <- MCKey
    Size <- MCSize
    NoFile = Absent
    Manifest = manifest
    DisplayVersion = version
    Contents = {old, new}
    Old <- MCOld
    New <- MCNew
    Plan <- MCPlan
    SameVolume = FALSE
    Faults = {"kill", "append", "effect", "undo", "recheck", "replay"}
    MaxFaults = 3
    MaxForeign = 0
CHECK_DEADLOCK TRUE
INVARIANTS
    OutcomeTruthful
    Restorable
PROPERTIES
    AtomicSpec
    ReportsOutcome
