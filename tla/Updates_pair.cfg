SPECIFICATION Spec
CONSTANTS
    Preferred = "stable"
    Instances = {1, 2}
    Primary = {1}
    Channels = {"stable", "preview"}
    Manifests <- MCManifests
    Installed = 0
    Packages = {"A", "B"}
    Day = 1
    Delays <- MCDelays
    CancelDelay = 1
    PackageSize = 1
    None = None
    MaxClock = 1
    MaxCalls = 3
    MaxFaults = 1
CHECK_DEADLOCK FALSE
INVARIANTS
    ShownIsAccepted
PROPERTIES
    AcceptedForward
    InstallsLatest
    TransfersEnd
