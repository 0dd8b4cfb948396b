SPECIFICATION Spec
CONSTANTS
    created = created
    replaced = replaced
    deleted = deleted
    manifest = manifest
    version = version
    respelt = respelt
    old = old
    new = new
    Absent = Absent
    Partial = Partial
    Alien = Alien
    None = None
    Files <- MCFiles
    Key <- MCKey
    Size <- MCSize
    NoFile = Absent
    Manifest = manifest
    DisplayVersion = version
    Contents = {old, new}
    Old <- MCOld
    New <- MCNew
    Plan <- MCPlan
    SameVolume = TRUE
    Faults = {"kill", "effect", "undo", "recheck", "replay", "foreign"}
    MaxFaults = 2
    MaxForeign = 2
CHECK_DEADLOCK TRUE
INVARIANTS
    UndoNeverRefused
    NothingLeftHalf
PROPERTIES
    ForeignKept
