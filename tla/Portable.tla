------------------------------ MODULE Portable ------------------------------
(***************************************************************************)
(* The update of a portable installation: the PortableUpdateInstaller of   *)
(* the application (src/src/portableupdater/portableupdateinstaller.cpp,   *)
(* driven by kloggapp.h), the helper it starts (helper_win.cpp), and the   *)
(* files through which they talk, over PortableTransaction.                *)
(*                                                                         *)
(* Attempts are numbered; each has a stage directory, in which the two     *)
(* leave "cancel", "ready", "failed" and "complete".  The helper watches   *)
(* the process that started it, a session of the application, and both     *)
(* hold the mutex of the installation directory.  Any process can be       *)
(* killed, MaxKills times in all; any call can fail.                       *)
(***************************************************************************)
EXTENDS PortableTransaction, FiniteSets

CONSTANTS
    Exe,            \* the application's file
    Manifest,       \* the list of the installation's files
    UserFiles,      \* files the user may create in the directory
    MaxSessions,    \* bound on the starts of the application
    MaxKills        \* bound on the processes killed

ASSUME PortableAssumption ==
    /\ Exe \in FilesOf(OldFiles) \cap FilesOf(NewFiles)
    /\ Manifest \in FilesOf(OldFiles) \cap FilesOf(NewFiles)
    /\ UserFiles \subseteq Keys
    /\ MaxSessions \in Nat \ {0} /\ MaxKills \in Nat

VARIABLES
    app,        \* the process: [state, session, native]
    installer,  \* PortableUpdateInstaller::Impl, and its task on the pool
    mutex,      \* the mutex of the directory: [owner, abandoned, handles]
    helper,     \* attempt -> [pc, parent, expected, left]
    stage,      \* attempt -> the files in its stage, and whether it is intact
    story,      \* attempt -> what happened to it (history)
    kills       \* processes killed

vars == <<txVars, app, installer, mutex, helper, stage, story, kills>>

App == 0
Holders == {App} \cup Attempts

FreeMutex == [owner |-> {}, abandoned |-> FALSE, handles |-> {}]

NewInstaller == [attempt |-> 0, busy |-> FALSE, handedOff |-> FALSE,
                 cancelled |-> FALSE, task |-> "none", timer |-> FALSE]

TypeOK ==
    /\ TxTypeOK
    /\ app \in [state : {"running", "exiting", "gone"}, session : 1..(MaxSessions + MaxAttempts),
                native : BOOLEAN]
    /\ installer \in [attempt : 0..MaxAttempts, busy : BOOLEAN, handedOff : BOOLEAN,
                      cancelled : BOOLEAN, task : {"none", "running", "ready", "error"},
                      timer : BOOLEAN]
    /\ mutex \in [owner : SUBSET Holders, abandoned : BOOLEAN, handles : SUBSET Holders]
    /\ helper \in [Attempts -> [pc : {"none", "started", "opened", "ready", "left", "owner",
                                      "replacing", "restart", "message", "ended"},
                                parent : 0..(MaxSessions + MaxAttempts),
                                expected : {"old", "new"}, left : BOOLEAN]]
    /\ stage \in [Attempts -> [notes : SUBSET {"cancel", "ready", "failed", "complete"},
                               intact : BOOLEAN]]
    /\ story \in [Attempts -> [told : BOOLEAN, unsaved : BOOLEAN, committed : BOOLEAN]]
    /\ kills \in 0..MaxKills

Init ==
    /\ tree \in {t \in [Keys -> Contents] :
                    /\ t[Exe] = "old" /\ t[Manifest] = "old"
                    /\ \A k \in FilesOf(OldFiles) : t[k] \in {"none", "old"}
                    /\ \A k \in Keys \ FilesOf(OldFiles) : t[k] = "none"}
    /\ TxInit
    /\ app = [state |-> "running", session |-> 1, native |-> FALSE]
    /\ installer = NewInstaller
    /\ mutex = FreeMutex
    /\ helper = [a \in Attempts |->
                    [pc |-> "none", parent |-> 0, expected |-> "old", left |-> FALSE]]
    /\ stage = [a \in Attempts |-> [notes |-> {}, intact |-> TRUE]]
    /\ story = [a \in Attempts |->
                    [told |-> FALSE, unsaved |-> FALSE, committed |-> FALSE]]
    /\ kills = 0

-----------------------------------------------------------------------------
\* The mutex.  The object exists while somebody has a handle on it.
Exists == mutex.handles # {}

Free == mutex.owner = {} /\ ~mutex.abandoned

Released(m, holder) ==
    IF m.handles \subseteq {holder} THEN FreeMutex
    ELSE [m EXCEPT !.owner = @ \ {holder}, !.handles = @ \ {holder}]

\* The end of a process that may own it.
Orphaned(m, holder) ==
    IF m.owner = {holder} /\ m.handles # {holder}
    THEN [Released(m, holder) EXCEPT !.abandoned = TRUE]
    ELSE Released(m, holder)

-----------------------------------------------------------------------------
\* The application.

\* save(stage + "/cancel"): it may fail, which nobody looks at.
SavesCancel(a, saved) ==
    stage' = IF saved THEN [stage EXCEPT ![a].notes = @ \cup {"cancel"}] ELSE stage

\* What the history notes of an attempt of which the user is told that it is off.
Told(a, saved) ==
    story' = [story EXCEPT ![a].told = TRUE, ![a].unsaved = @ \/ ~saved]

\* nativeInstallFailed: the windows are given back, the reservation too.
NativeInstallFailed ==
    /\ app' = [app EXCEPT !.native = FALSE]
    /\ mutex' = Released(mutex, App)

\* performDownloadedUpdate and PortableUpdateInstaller::start.  Where the
\* offer, the session, the reservation or the stage fails, or an attempt is
\* still busy, nothing of this state changes.
Install(a) ==
    /\ app.state = "running"
    /\ ~app.native
    /\ ~installer.busy
    /\ ~Exists
    /\ a = installer.attempt + 1
    /\ app' = [app EXCEPT !.native = TRUE]
    /\ mutex' = [FreeMutex EXCEPT !.owner = {App}, !.handles = {App}]
    /\ installer' = [NewInstaller EXCEPT !.attempt = a, !.busy = TRUE, !.task = "running"]
    /\ UNCHANGED <<txVars, helper, stage, story, kills>>

\* preparePackage on the pool: it reads what is installed, extracts and
\* verifies the package, and validates the transaction.  The flag is looked
\* at many times, the last of which may precede a cancel.
PreparePackage(a) ==
    /\ a = installer.attempt
    /\ installer.task = "running"
    /\ \/ /\ tree[Manifest] \in {"old", "new"}
          /\ LET old == IF tree[Manifest] = "new" THEN NewFiles ELSE OldFiles
             IN
             /\ Valid(old)
             /\ tx' = [tx EXCEPT ![a].old = old]
          /\ helper' = [helper EXCEPT ![a].expected = tree[Manifest]]
          /\ installer' = [installer EXCEPT !.task = "ready"]
          /\ UNCHANGED faults
       \/ /\ \/ tree[Manifest] \notin {"old", "new"}
             \/ installer.cancelled
             \/ ~Valid(IF tree[Manifest] = "new" THEN NewFiles ELSE OldFiles)
          /\ installer' = [installer EXCEPT !.task = "error"]
          /\ UNCHANGED <<tx, helper, faults>>
       \/ /\ Fails
          /\ installer' = [installer EXCEPT !.task = "error"]
          /\ UNCHANGED <<tx, helper>>
    /\ UNCHANGED <<tree, temporary, backup, app, mutex, stage, story, kills>>

\* The handler of the watcher's finished, where it reports a failure: of the
\* preparation, a cancel, or the plan, the copy or the start of the helper.
PreparationFailed(a) ==
    /\ a = installer.attempt
    /\ app.state = "running"
    /\ \/ /\ installer.task = "error" \/ (installer.task = "ready" /\ installer.cancelled)
          /\ UNCHANGED faults
       \/ /\ installer.task = "ready" /\ ~installer.cancelled
          /\ Fails
    /\ installer' = [installer EXCEPT !.busy = FALSE, !.task = "none"]
    /\ Told(a, TRUE)
    /\ NativeInstallFailed
    /\ UNCHANGED <<tree, temporary, backup, tx, helper, stage, kills>>

\* The same handler: the helper has started.  If its handle cannot be opened
\* it is told to stop, and left alone.
StartHelper(a) ==
    /\ a = installer.attempt
    /\ app.state = "running"
    /\ installer.task = "ready" /\ ~installer.cancelled
    /\ helper' = [helper EXCEPT ![a].pc = "started", ![a].parent = app.session]
    /\ \/ /\ installer' = [installer EXCEPT !.task = "none", !.timer = TRUE]
          /\ UNCHANGED <<app, mutex, stage, story, faults>>
       \/ \E saved \in BOOLEAN :
            /\ faults + (IF saved THEN 1 ELSE 2) <= MaxFaults
            /\ faults' = faults + (IF saved THEN 1 ELSE 2)
            /\ SavesCancel(a, saved)
            /\ installer' = [installer EXCEPT !.busy = FALSE, !.task = "none"]
            /\ Told(a, saved)
            /\ NativeInstallFailed
    /\ UNCHANGED <<tree, temporary, backup, tx, kills>>

\* A tick of the timer finds the helper's message.
HelperFailed(a) ==
    /\ a = installer.attempt
    /\ app.state = "running"
    /\ installer.timer
    /\ "failed" \in stage[a].notes
    /\ installer' = [installer EXCEPT !.timer = FALSE, !.busy = FALSE]
    /\ Told(a, TRUE)
    /\ NativeInstallFailed
    /\ UNCHANGED <<txVars, helper, stage, kills>>

\* A tick finds that the helper has ended, or that its minute is over: it is
\* told to stop and terminated.
HelperTooLate(a) ==
    /\ a = installer.attempt
    /\ app.state = "running"
    /\ installer.timer
    /\ "failed" \notin stage[a].notes
    /\ \E saved \in BOOLEAN : MayFail(saved) /\ SavesCancel(a, saved)
    /\ installer' = [installer EXCEPT !.timer = FALSE, !.busy = FALSE]
    /\ helper' = [helper EXCEPT ![a].pc = "ended"]
    /\ Told(a, TRUE)
    /\ app' = [app EXCEPT !.native = FALSE]
    /\ mutex' = Orphaned(Released(mutex, App), a)
    /\ UNCHANGED <<tree, temporary, backup, tx, kills>>

\* A tick finds the helper ready, and the exit is committed.
HandOff(a) ==
    /\ a = installer.attempt
    /\ app.state = "running"
    /\ installer.timer
    /\ helper[a].pc # "ended"
    /\ "failed" \notin stage[a].notes /\ "ready" \in stage[a].notes
    /\ installer' = [installer EXCEPT !.timer = FALSE, !.handedOff = TRUE]
    /\ app' = [app EXCEPT !.native = FALSE, !.state = "exiting"]
    /\ story' = [story EXCEPT ![a].committed = TRUE]
    /\ UNCHANGED <<txVars, mutex, helper, stage, kills>>

\* cancel(), as the state it leaves: busy stays while the task runs.
Cancelled(i) ==
    [i EXCEPT !.handedOff = FALSE, !.cancelled = TRUE, !.timer = FALSE,
              !.busy = @ /\ ~i.timer /\ ~i.handedOff]

\* PortableUpdateInstaller::cancel, of an attempt that is busy.
Cancel(a, handedOff) ==
    /\ installer.busy
    /\ installer' = Cancelled([installer EXCEPT !.handedOff = handedOff])
    /\ \E saved \in BOOLEAN :
        /\ MayFail(saved)
        /\ SavesCancel(a, saved)
        /\ Told(a, saved)

\* A tick finds the helper ready, but the session cannot be saved: the handler
\* of readyToExit cancels.
Veto(a) ==
    /\ a = installer.attempt
    /\ app.state = "running"
    /\ installer.timer
    /\ helper[a].pc # "ended"
    /\ "failed" \notin stage[a].notes /\ "ready" \in stage[a].notes
    /\ Cancel(a, TRUE)
    /\ NativeInstallFailed
    /\ UNCHANGED <<tree, temporary, backup, tx, helper, kills>>

\* The user cancels in the dialog.
UserCancels(a) ==
    /\ a = installer.attempt
    /\ app.state = "running"
    /\ Cancel(a, FALSE)
    /\ NativeInstallFailed
    /\ UNCHANGED <<tree, temporary, backup, tx, helper, kills>>

\* The application is closed by its user, which a busy installation prevents.
Quit ==
    /\ app.state = "running"
    /\ ~app.native
    /\ app' = [app EXCEPT !.state = "exiting"]
    /\ UNCHANGED <<txVars, installer, mutex, helper, stage, story, kills>>

\* The destructors: of the installer, which cancels what it has not handed
\* off and waits for its task, then of the guard; and the process is gone.
AppEnds ==
    /\ app.state = "exiting"
    /\ installer.task # "running"
    /\ IF installer.busy /\ ~installer.handedOff
       THEN \E saved \in BOOLEAN :
                /\ MayFail(saved)
                /\ SavesCancel(installer.attempt, saved)
                /\ Told(installer.attempt, saved)
       ELSE UNCHANGED <<stage, story, faults>>
    /\ app' = [app EXCEPT !.state = "gone"]
    /\ installer' = [NewInstaller EXCEPT !.attempt = installer.attempt]
    /\ mutex' = Released(mutex, App)
    /\ UNCHANGED <<tree, temporary, backup, tx, helper, kills>>

AppKilled ==
    /\ app.state # "gone"
    /\ kills < MaxKills /\ kills' = kills + 1
    /\ app' = [app EXCEPT !.state = "gone", !.native = FALSE]
    /\ installer' = [NewInstaller EXCEPT !.attempt = installer.attempt]
    /\ mutex' = Orphaned(mutex, App)
    /\ UNCHANGED <<txVars, helper, stage, story>>

\* A new process: it enters unless it sees the mutex.
Entered(m) ==
    IF m.handles = {} /\ app.state = "gone"
    THEN [state |-> "running", session |-> app.session + 1, native |-> FALSE]
    ELSE app

UserStarts ==
    /\ app.session < MaxSessions
    /\ app.state = "gone"
    /\ tree[Exe] # "none"
    /\ ~Exists
    /\ app' = Entered(mutex)
    /\ UNCHANGED <<txVars, installer, mutex, helper, stage, story, kills>>

-----------------------------------------------------------------------------
\* The helper.

ParentGone(a) == app.state = "gone" \/ app.session # helper[a].parent

\* The handler of an exception: the message of a helper that has seen its
\* parent leave is shown, and its handle on the mutex stays open until it is
\* read.
HelperFails(a, m, left) ==
    /\ stage' = [stage EXCEPT ![a].notes = @ \cup {"failed"}]
    /\ helper' = [helper EXCEPT ![a].pc = IF left THEN "message" ELSE "ended",
                                ![a].left = left]
    /\ mutex' = IF left THEN m ELSE Orphaned(m, a)

\* wmain, up to the mutex: the plan, the parent, the leases.
OpenMutex(a) ==
    /\ helper[a].pc = "started"
    /\ IF ~ParentGone(a) /\ Exists
       THEN /\ helper' = [helper EXCEPT ![a].pc = "opened"]
            /\ mutex' = [mutex EXCEPT !.handles = @ \cup {a}]
            /\ UNCHANGED stage
       ELSE HelperFails(a, mutex, FALSE)
    /\ UNCHANGED <<txVars, app, installer, story, kills>>

\* The stage is locked, the owned files and the transaction are validated.
GetReady(a) ==
    /\ helper[a].pc = "opened"
    /\ IF stage[a].intact /\ tree[Manifest] = helper[a].expected /\ Valid(tx[a].old)
       THEN /\ stage' = [stage EXCEPT ![a].notes = @ \cup {"ready"}]
            /\ helper' = [helper EXCEPT ![a].pc = "ready"]
            /\ UNCHANGED mutex
       ELSE HelperFails(a, mutex, FALSE)
    /\ UNCHANGED <<txVars, app, installer, story, kills>>

\* A fault of AwaitExit: the helper waits as long as the parent runs.
W_NoDeadline(a) ==
    /\ helper[a].pc = "ready"
    /\ \/ /\ "cancel" \in stage[a].notes
          /\ HelperFails(a, mutex, FALSE)
       \/ /\ ParentGone(a)
          /\ helper' = [helper EXCEPT ![a].pc = "left", ![a].left = TRUE]
          /\ UNCHANGED <<mutex, stage>>
    /\ UNCHANGED <<txVars, app, installer, story, kills>>

\* A turn of the loop that waits for the parent's end, up to two minutes.
AwaitExit(a) ==
    /\ helper[a].pc = "ready"
    /\ \/ /\ "cancel" \in stage[a].notes \/ ~ParentGone(a)
          /\ HelperFails(a, mutex, FALSE)
       \/ /\ ParentGone(a)
          /\ helper' = [helper EXCEPT ![a].pc = "left", ![a].left = TRUE]
          /\ UNCHANGED <<mutex, stage>>
    /\ UNCHANGED <<txVars, app, installer, story, kills>>

\* A fault of Acquire: an abandoned reservation is taken over.
A_Abandoned(a) ==
    /\ helper[a].pc = "left"
    /\ IF "cancel" \notin stage[a].notes /\ mutex.owner = {}
       THEN /\ mutex' = [mutex EXCEPT !.owner = {a}, !.abandoned = FALSE]
            /\ helper' = [helper EXCEPT ![a].pc = "owner"]
            /\ UNCHANGED stage
       ELSE HelperFails(a, mutex, TRUE)
    /\ UNCHANGED <<txVars, app, installer, story, kills>>

\* A fault of Acquire: the cancel is not looked for after the parent's end.
A_NoLastLook(a) ==
    /\ helper[a].pc = "left"
    /\ IF Free
       THEN /\ mutex' = [mutex EXCEPT !.owner = {a}, !.abandoned = FALSE]
            /\ helper' = [helper EXCEPT ![a].pc = "owner"]
            /\ UNCHANGED stage
       ELSE HelperFails(a, mutex, TRUE)
    /\ UNCHANGED <<txVars, app, installer, story, kills>>

\* The last look for a cancel, and five seconds for the mutex, which has to
\* be free and not abandoned.  An abandoned one passes to the helper, which
\* fails and never releases it.
Acquire(a) ==
    /\ helper[a].pc = "left"
    /\ IF "cancel" \notin stage[a].notes /\ Free
       THEN /\ mutex' = [mutex EXCEPT !.owner = {a}, !.abandoned = FALSE]
            /\ helper' = [helper EXCEPT ![a].pc = "owner"]
            /\ UNCHANGED stage
       ELSE LET taken == IF "cancel" \notin stage[a].notes /\ mutex.abandoned
                         THEN [mutex EXCEPT !.owner = {a}, !.abandoned = FALSE] ELSE mutex
            IN HelperFails(a, taken, TRUE)
    /\ UNCHANGED <<txVars, app, installer, story, kills>>

\* Nobody has changed what is installed, and no program file is in use.
StartReplacing(a) ==
    /\ helper[a].pc = "owner"
    /\ \/ /\ tree[Manifest] = helper[a].expected
          /\ app.state = "gone"
          /\ Begin(a)
          /\ helper' = [helper EXCEPT ![a].pc = "replacing"]
          /\ UNCHANGED <<mutex, stage>>
       \/ /\ \/ tree[Manifest] # helper[a].expected \/ app.state # "gone"
             \/ faults < MaxFaults
          /\ faults' = IF tree[Manifest] # helper[a].expected \/ app.state # "gone"
                       THEN faults ELSE faults + 1
          /\ HelperFails(a, [mutex EXCEPT !.owner = {}], TRUE)
          /\ UNCHANGED <<tree, temporary, backup, tx>>
    /\ UNCHANGED <<app, installer, story, kills>>

ReplaceStep(a) ==
    /\ helper[a].pc = "replacing"
    /\ Replace(a)
    /\ UNCHANGED <<app, installer, mutex, helper, stage, story, kills>>

\* replaceFiles has returned, or thrown.
Replaced(a) ==
    /\ helper[a].pc = "replacing"
    /\ \/ /\ tx[a].step = "done"
          /\ helper' = [helper EXCEPT ![a].pc = "restart"]
          /\ mutex' = Released(mutex, a)
          /\ UNCHANGED stage
       \/ /\ tx[a].step \in {"refused", "undone"}
          /\ HelperFails(a, [mutex EXCEPT !.owner = {}], TRUE)
    /\ UNCHANGED <<txVars, app, installer, story, kills>>

\* The application is started again, unless that fails.
Restart(a) ==
    /\ helper[a].pc = "restart"
    /\ \/ /\ app' = Entered(mutex)
          /\ stage' = [stage EXCEPT ![a].notes = @ \cup {"complete"}]
          /\ helper' = [helper EXCEPT ![a].pc = "ended"]
          /\ UNCHANGED <<mutex, faults>>
       \/ /\ Fails
          /\ HelperFails(a, mutex, TRUE)
          /\ UNCHANGED app
    /\ UNCHANGED <<tree, temporary, backup, tx, installer, story, kills>>

\* The user reads the message, and the process ends.
Dismiss(a) ==
    /\ helper[a].pc = "message"
    /\ helper' = [helper EXCEPT ![a].pc = "ended"]
    /\ mutex' = Orphaned(mutex, a)
    /\ UNCHANGED <<txVars, app, installer, stage, story, kills>>

\* The helper is killed; what it copies at that moment is cut short.
HelperKilled(a) ==
    /\ helper[a].pc \notin {"none", "ended"}
    /\ kills < MaxKills /\ kills' = kills + 1
    /\ helper' = [helper EXCEPT ![a].pc = "ended"]
    /\ mutex' = Orphaned(mutex, a)
    /\ temporary' \in {temporary} \cup
            (IF helper[a].pc = "replacing" /\ tx[a].step = "stage" /\ tx[a].i <= Len(NewFiles)
             THEN {"partial"} ELSE {})
    /\ UNCHANGED <<tree, backup, tx, faults, app, installer, stage, story>>

HelperStep(a) ==
    \/ OpenMutex(a) \/ GetReady(a) \/ AwaitExit(a) \/ Acquire(a) \/ StartReplacing(a)
    \/ ReplaceStep(a) \/ Replaced(a) \/ Restart(a)

-----------------------------------------------------------------------------
\* The user puts a file of his own into the directory, while nothing replaces.
UserCreates(k) ==
    /\ tree[k] = "none"
    /\ \A a \in Attempts : helper[a].pc # "replacing"
    /\ tree' = [tree EXCEPT ![k] = "foreign"]
    /\ UNCHANGED <<temporary, backup, tx, faults, app, installer, mutex, helper, stage, story,
                   kills>>

\* A file of the stage changes on the disk before the helper locks it.
StageChanges(a) ==
    /\ stage[a].intact
    /\ helper[a].pc \in {"started", "opened"}
    /\ stage' = [stage EXCEPT ![a].intact = FALSE]
    /\ UNCHANGED <<txVars, app, installer, mutex, helper, story, kills>>

AppStep(a) ==
    \/ PreparePackage(a) \/ PreparationFailed(a) \/ StartHelper(a) \/ HelperFailed(a)
    \/ HelperTooLate(a) \/ HandOff(a) \/ Veto(a)

Next ==
    \/ \E a \in Attempts :
        \/ Install(a) \/ AppStep(a) \/ UserCancels(a)
        \/ HelperStep(a) \/ Dismiss(a) \/ HelperKilled(a) \/ StageChanges(a)
    \/ Quit \/ AppEnds \/ AppKilled \/ UserStarts
    \/ \E k \in UserFiles : UserCreates(k)

\* The pool runs the task, the event loop delivers the watcher's signal and
\* the ticks, the destructors run, and the helper's process runs.  The user
\* need do nothing.
Fairness ==
    /\ WF_vars(AppEnds)
    /\ \A a \in Attempts : WF_vars(AppStep(a)) /\ WF_vars(HelperStep(a))

Spec == Init /\ [][Next]_vars /\ Fairness

-----------------------------------------------------------------------------
\* Files are replaced by one helper, which owns the mutex, after the
\* application that started it committed its exit and when none runs.  (A
\* cancel that could not be saved is the exception.)
ReplacesAlone ==
    \A a \in Attempts : helper[a].pc = "replacing" =>
        /\ mutex.owner = {a}
        /\ app.state = "gone"
        /\ story[a].committed \/ story[a].unsaved
        /\ \A b \in Attempts : helper[b].pc = "replacing" => b = a

\* An attempt of which the user was told that it failed or was cancelled does
\* not touch the installation afterwards, unless the cancel could not be saved.
RevokedStays ==
    \A a \in Attempts : story[a].told /\ ~story[a].unsaved =>
        tx[a].step = "idle" /\ helper[a].pc # "restart"

\* A transaction that ends leaves the package's files and no other that was
\* owned, or every file as it was, or a rollback that says it is incomplete.
EndsWhole ==
    [][\A a \in Attempts : tx'[a].step # tx[a].step =>
        /\ tx'[a].step = "done" =>
            /\ \A k \in FilesOf(NewFiles) : tree'[k] = "new"
            /\ \A k \in FilesOf(tx[a].old) \ FilesOf(NewFiles) : tree'[k] = "none"
        /\ tx'[a].step \in {"refused", "undone"} /\ ~tx'[a].incomplete =>
            tree' = tx'[a].before]_vars

\* Whatever is killed or fails, the backup holds every file that the
\* transaction has changed, and a file that nobody owns keeps its content.
Recoverable ==
    \A a \in Attempts : tx[a].step \notin {"idle", "refused", "backup"} => \A k \in Keys :
        LET before == tx[a].before[k] IN
        \/ before = "none"
        \/ before = tree[k]
        \/ before = backup[a][k] /\ k \in FilesOf(tx[a].old)

\* The directory does not stay closed: every process that has a handle on the
\* mutex ends, or shows a message.
Opens ==
    Exists ~> \/ ~Exists
              \/ \E a \in Attempts : helper[a].pc = "message"
=============================================================================
