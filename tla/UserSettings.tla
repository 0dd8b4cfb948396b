---------------------------- MODULE UserSettings ----------------------------
(***************************************************************************)
(* What the storage of ZzLogg promises to its user: once there is a data   *)
(* directory, the settings read from it are the ones saved last.  Where    *)
(* they are kept, and how they get there, is not to be seen.               *)
(***************************************************************************)
EXTENDS Naturals

CONSTANTS Settings,     \* the files that hold settings
          FirstVersion, \* the newest version there is at the start
          Unset         \* what a file holds that was never saved

VARIABLES attached,     \* there is a data directory
          settings,     \* what its files hold
          version       \* the newest version saved

Contents == {Unset} \cup Nat

Init ==
    /\ attached \in BOOLEAN
    /\ settings \in [Settings -> {Unset} \cup 0..FirstVersion]
    /\ version = FirstVersion

\* The first start: the user names a directory and takes it as it is.
Attach ==
    /\ ~attached
    /\ attached' = TRUE
    /\ settings' \in [Settings -> {Unset} \cup 0..version]
    /\ UNCHANGED version

Save(f) ==
    /\ attached
    /\ version' = version + 1
    /\ settings' = [settings EXCEPT ![f] = version']
    /\ UNCHANGED attached

Next == Attach \/ \E f \in Settings : Save(f)

Spec == Init /\ [][Next]_<<attached, settings, version>>
=============================================================================
