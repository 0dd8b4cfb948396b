SPECIFICATION Spec
CONSTANTS
    Names <- MCNames
    Keys <- MCKeys
    Folded <- MCFolded
    OldFiles <- MCOldFiles
    NewFiles <- MCNewFiles
    Exe = "zzlogg.exe"
    Manifest = "files.json"
    UserFiles = {"new.dll"}
    MaxAttempts = 2
    MaxFaults = 2
    MaxSessions = 2
    MaxKills = 1
CHECK_DEADLOCK FALSE
INVARIANTS
    ReplacesAlone
    RevokedStays
    Recoverable
PROPERTIES
    EndsWhole
    Opens
