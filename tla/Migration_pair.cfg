SPECIFICATION Spec
CONSTANTS
    None = None
    Instances = {gui, second}
    gui = gui
    second = second
    Greps = {second}
    Roots <- OldRoots
    Locations <- OldLocations
    Choices <- OldChoices
    Overrides = {"disk"}
    UserRoot = "home"
    Legacy <- OldLoc
    LegacyTarget <- HomeLoc
    Transactions = {1, 2, 3, 4, 5, 6, 7}
    InitLocators <- OldLocators
    InitData <- OldData
    FirstVersion = 2
    MaxVersion = 3
    Faults = {"kill", "effect"}
    MaxFaults = 1
INVARIANTS OneMigration
PROPERTIES ActiveIsKept
