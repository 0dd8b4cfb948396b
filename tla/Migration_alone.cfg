SPECIFICATION FairSpec
CONSTANTS
    None = None
    Instances = {gui}
    gui = gui
    Greps = {}
    Roots <- AloneRoots
    Locations <- AloneLocations
    Choices <- AloneLocations
    Overrides = {}
    UserRoot = "home"
    Legacy = None
    LegacyTarget = None
    Transactions = {1, 2, 3, 4, 5, 6}
    InitLocators <- AloneLocators
    InitData <- AloneData
    FirstVersion = 2
    MaxVersion = 4
    Faults = {"kill", "effect"}
    MaxFaults = 3
INVARIANTS ActiveIsComplete
PROPERTIES SettingsSurvive Startable
