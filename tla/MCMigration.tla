---------------------------- MODULE MCMigration -----------------------------
EXTENDS Migration

Loc(r, l) == [root |-> r, locator |-> l]

HomeLoc == Loc("home", "user")
ProgramLoc == Loc("app", "program")
DiskLoc == Loc("disk", "user")
AppAsCustom == Loc("app", "user")
OldLoc == Loc("old", "user")

NoFiles == [f \in Files |-> NoFile]
Used == [f \in Files |->
           CASE f \in {"config", "logs"} -> 2 [] f = "session" -> NoFile [] OTHER -> Empty]
OldFiles == [f \in Files |-> IF f = "config" THEN 2 ELSE NoFile]

\* A directory in use at home, and a first start.
AloneRoots == {"home", "app", "disk"}
AloneLocations == {HomeLoc, ProgramLoc, DiskLoc, AppAsCustom}
AloneLocators == {[l \in Locators |-> None],
                  [l \in Locators |-> IF l = "user" THEN State(HomeLoc, None, TRUE, None)
                                      ELSE None]}
AloneData == {[r \in AloneRoots |-> IF r = "home" THEN Used ELSE NoFiles]}

\* The old layout, never moved, or left named by a locator.
OldRoots == {"old", "home", "disk"}
OldChoices == {HomeLoc, DiskLoc}
OldLocations == {OldLoc} \cup OldChoices
OldLocators == {[l \in Locators |-> None],
                [l \in Locators |-> IF l = "user"
                                    THEN State(OldLoc, None, FALSE, Last(1, "rolledBack"))
                                    ELSE None]}
OldData == {[r \in OldRoots |-> IF r = "old" THEN OldFiles ELSE NoFiles]}
=============================================================================
