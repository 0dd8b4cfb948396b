----------------------------- MODULE Migration ------------------------------
(***************************************************************************)
(* Where the settings live and how they move: the two locator files        *)
(* (StorageLocatorStore), the migration of a data directory                *)
(* (StorageMigrator), the resolution at every start (bootstrapStorage,     *)
(* runKloggApplication) and the change a user asks for (OptionsDialog).    *)
(*                                                                         *)
(* A location is a root and the locator file that names it; its mode is    *)
(* told by the two.  A root maps each of its files to a content: NoFile,   *)
(* Empty (an INI without keys), or the version that was saved.  Every      *)
(* write of the code goes through QSaveFile, so no file is ever torn.      *)
(*                                                                         *)
(* Several instances run: windows of the application, which read and save  *)
(* settings, and the command-line search, which only looks for its root.   *)
(* Each can be killed between any two of its effects and each effect can   *)
(* fail.  Locators and roots that cannot be read are left out.             *)
(***************************************************************************)
EXTENDS Naturals

CONSTANTS
    Instances,      \* the processes
    Greps,          \* those that are command-line searches
    Roots,          \* data directories, and the directory of the old layout
    Locations,      \* the locations that occur
    Choices,        \* those a user can ask for
    Overrides,      \* the roots that --data-dir names
    UserRoot,       \* the root of a command-line search without a locator
    Legacy,         \* the old layout's location, or None
    LegacyTarget,   \* where it is to move
    Transactions,   \* transaction ids
    None,
    InitLocators,   \* the locator files at the start
    InitData,       \* the roots at the start
    FirstVersion,   \* the newest version in InitData
    MaxVersion,     \* bound on the saves
    Faults,         \* which happen: "kill", "effect"
    MaxFaults       \* bound on them

Locators == {"program", "user"}
Files == {"dirs", "config", "session", "logs", "manifest"}
Settings == {"config", "session"}

NoFile == 0
Empty == 1

\* The order in which a migration makes the files of its target.
CopyOrder == <<"dirs", "config", "session", "logs", "manifest">>

Other(l) == CHOOSE m \in Locators : m # l

ASSUME MigrationAssumption ==
    /\ Greps \subseteq Instances
    /\ Locations \subseteq [root : Roots, locator : Locators]
    /\ Choices \subseteq Locations
    /\ Overrides \subseteq Roots /\ UserRoot \in Roots
    /\ Legacy # None =>
          /\ Legacy \in Locations /\ LegacyTarget \in Locations
          /\ Legacy.root # LegacyTarget.root
          /\ \A c \in Choices : c.root # Legacy.root
    /\ None \notin Locators /\ None \notin Instances /\ None \notin Locations
    /\ FirstVersion \in Nat /\ FirstVersion >= Empty
    /\ MaxVersion \in Nat /\ MaxFaults \in Nat /\ Faults \subseteq {"kill", "effect"}
    /\ InitData \subseteq [Roots -> [Files -> 0..FirstVersion]]

VARIABLES
    locator,    \* the two locator files
    data,       \* the files of every root
    version,    \* the newest version saved
    job,        \* what each instance is doing
    migLock,    \* who holds each locator's migration lock
    mutex,      \* who holds the locator mutation lock
    faults

vars == <<locator, data, version, job, migLock, mutex, faults>>

-----------------------------------------------------------------------------
(* Locator files and roots *)

State(active, pending, verified, last) ==
    [active |-> active, pending |-> pending, verified |-> verified, last |-> last]

Last(tx, outcome) == [tx |-> tx, outcome |-> outcome]

Request(tx, source, target, legacy) ==
    [tx |-> tx, source |-> source, target |-> target, legacy |-> legacy,
     existed |-> FALSE]

\* sameRequest ignores whether the source's locator existed.
SameRequest(r, s) == [r EXCEPT !.existed = FALSE] = [s EXCEPT !.existed = FALSE]

\* resolve: the program's locator comes first.
Resolved ==
    IF locator["program"] # None THEN locator["program"] ELSE locator["user"]

Managed(r) == data[r]["manifest"] # NoFile
Vacant(r) == \A f \in Files : data[r][f] = NoFile

\* A fault of Complete: the INIs are not looked for.
Complete_ManifestOnly(r) == Managed(r)

Complete(r) == \A f \in {"manifest"} \cup Settings : data[r][f] # NoFile

\* LegacyStorageDetector::detect; a search looks only beside the program.
LegacyFound ==
    /\ Legacy # None
    /\ \/ data[Legacy.root]["config"] # NoFile
       \/ Legacy.locator = "user" /\ data[Legacy.root]["session"] # NoFile

LegacySeenBy(p) == LegacyFound /\ (p \in Greps => Legacy.locator = "program")

\* What a migration reads for a file of its target.  The old layout has no logs,
\* and its session may be in its config file.
SourceContent(r, f) ==
    LET source == data[r.source.root]
    IN IF r.legacy /\ f = "logs" THEN NoFile
       ELSE IF r.legacy /\ f = "session" /\ source["session"] = NoFile
            THEN source["config"]
       ELSE source[f]

UsedTransactions ==
    UNION {{s.pending.tx : s \in {s \in {locator[l] : l \in Locators} \ {None} :
                                     s.pending # None}},
           {s.last.tx : s \in {s \in {locator[l] : l \in Locators} \ {None} :
                                  s.last # None}},
           {job[p].req.tx : p \in {p \in Instances : job[p].req # None}}}

\* A new UUID.
NewTransaction == CHOOSE t \in Transactions : t \notin UsedTransactions

-----------------------------------------------------------------------------
(* Instances *)

\* pc     where it is
\* why    what the call in progress is for
\* seen   the locator state it read
\* at     the location it installs, its locator None if none names it
\* req    the migration it works on
\* step   the place in CopyOrder
\* made   the target's files it made
\* tries  how often resolveExisting began a recovery
\* prev   the locator to restore
Idle == [pc |-> "off", why |-> "none", seen |-> None, at |-> None, req |-> None,
         step |-> 1, made |-> {}, tries |-> 0, prev |-> None]

Init ==
    /\ locator \in InitLocators
    /\ data \in InitData
    /\ version = FirstVersion
    /\ job = [p \in Instances |-> Idle]
    /\ migLock = [l \in Locators |-> None]
    /\ mutex = None
    /\ faults = 0

At(p, pc) == job[p].pc = pc
Goto(p, pc) == job' = [job EXCEPT ![p].pc = pc]
Call(p, pc, why) == job' = [job EXCEPT ![p].pc = pc, ![p].why = why]

\* The process ends: the locks it holds are free.
End(p) ==
    /\ job' = [job EXCEPT ![p] = Idle]
    /\ migLock' = [l \in Locators |-> IF migLock[l] = p THEN None ELSE migLock[l]]
    /\ mutex' = IF mutex = p THEN None ELSE mutex

\* The migration call returns: its lock is free.
Unlocked(p) == [migLock EXCEPT ![job[p].req.source.locator] = None]

Faulty(kind) ==
    /\ kind \in Faults /\ faults < MaxFaults
    /\ faults' = faults + 1

\* A write, a removal or a lock fails; the lock may be held by an instance that is
\* writing one locator, which is one step here.
Fault == Faulty("effect")

Kill(p) ==
    /\ ~At(p, "off")
    /\ Faulty("kill")
    /\ End(p)
    /\ UNCHANGED <<locator, data, version>>

-----------------------------------------------------------------------------
(* bootstrapStorage: find the location *)

Launch(p) ==
    /\ At(p, "off")
    /\ job' = [job EXCEPT ![p] = [Idle EXCEPT !.pc = "program", !.why = "bootstrap"]]
    /\ UNCHANGED <<locator, data, version, migLock, mutex, faults>>

\* --data-dir: no locator is read or written.
LaunchAt(p, r) ==
    /\ At(p, "off")
    /\ Vacant(r) \/ Managed(r)
    /\ job' = [job EXCEPT ![p] = [Idle EXCEPT !.pc = "dirs", !.why = "override",
                                   !.at = [root |-> r, locator |-> None]]]
    /\ UNCHANGED <<locator, data, version, migLock, mutex, faults>>

\* resolve takes no lock: the two files are read one after the other.
ReadLocator(p, l, missing) ==
    /\ job' = [job EXCEPT
          ![p].seen = locator[l],
          ![p].pc = IF locator[l] = None /\ missing # "decide" THEN missing
                    ELSE IF job[p].why = "bootstrap" THEN "decide" ELSE "existing"]
    /\ UNCHANGED <<locator, data, version, migLock, mutex, faults>>

ReadProgramLocator(p) == At(p, "program") /\ ReadLocator(p, "program", "user")
ReadUserLocator(p) == At(p, "user") /\ ReadLocator(p, "user", "decide")

\* An unverified locator that names the old layout is what an earlier rollback left.
LeftByRollback(p) ==
    /\ job[p].seen # None
    /\ job[p].seen.pending = None /\ ~job[p].seen.verified
    /\ ~Managed(job[p].seen.active.root)
    /\ LegacySeenBy(p) /\ job[p].seen.active = Legacy

Discardable(s) ==
    /\ s # None
    /\ ~s.verified /\ s.pending = None /\ s.active = Legacy
    /\ s.last # None /\ s.last.outcome = "rolledBack"

DiscardLegacyLocator(p) ==
    /\ At(p, "decide") /\ LeftByRollback(p)
    /\ \/ /\ mutex = None /\ Discardable(locator[Legacy.locator])
          /\ locator' = [locator EXCEPT ![Legacy.locator] = None]
          /\ Goto(p, "program")
          /\ UNCHANGED <<migLock, mutex, faults>>
       \/ /\ Fault \/ (UNCHANGED faults /\ ~(mutex = None
                                            /\ Discardable(locator[Legacy.locator])))
          /\ End(p)
          /\ UNCHANGED locator
    /\ UNCHANGED <<data, version>>

UseLocator(p) ==
    /\ At(p, "decide") /\ job[p].seen # None /\ ~LeftByRollback(p)
    /\ Call(p, "existing", "existing")
    /\ UNCHANGED <<locator, data, version, migLock, mutex, faults>>

\* No locator: a search takes the user's root.
UseDefaultRoot(p) ==
    /\ At(p, "decide") /\ job[p].seen = None /\ p \in Greps
    /\ IF Vacant(UserRoot) \/ Managed(UserRoot)
       THEN /\ job' = [job EXCEPT ![p].pc = "dirs", ![p].why = "default",
                                  ![p].at = [root |-> UserRoot, locator |-> None]]
            /\ UNCHANGED <<migLock, mutex>>
       ELSE End(p)
    /\ UNCHANGED <<locator, data, version, faults>>

\* No locator, the old layout, and a target that is in use: take the target.
AdoptTarget(p) ==
    /\ At(p, "decide") /\ job[p].seen = None /\ p \notin Greps
    /\ LegacyFound /\ Managed(LegacyTarget.root)
    /\ data' = [data EXCEPT ![LegacyTarget.root]["dirs"] = Empty]
    /\ job' = [job EXCEPT ![p].pc = "write", ![p].why = "adopt", ![p].at = LegacyTarget]
    /\ UNCHANGED <<locator, version, migLock, mutex, faults>>

\* No locator, the old layout: its migration needs an empty target.
MigrateLegacy(p) ==
    /\ At(p, "decide") /\ job[p].seen = None /\ p \notin Greps
    /\ LegacyFound /\ ~Managed(LegacyTarget.root)
    /\ IF Vacant(LegacyTarget.root)
       THEN /\ job' = [job EXCEPT ![p].pc = "lock", ![p].why = "execute",
                    ![p].req = Request(NewTransaction, Legacy, LegacyTarget, TRUE)]
            /\ UNCHANGED <<migLock, mutex>>
       ELSE End(p)
    /\ UNCHANGED <<locator, data, version, faults>>

\* No locator and no old layout: the user names a directory.
SelectRoot(p, c) ==
    /\ At(p, "decide") /\ job[p].seen = None /\ p \notin Greps /\ ~LegacyFound
    /\ Vacant(c.root) \/ Managed(c.root)
    /\ job' = [job EXCEPT ![p].pc = "dirs", ![p].why = "select", ![p].at = c]
    /\ UNCHANGED <<locator, data, version, migLock, mutex, faults>>

CancelSelection(p) ==
    /\ At(p, "decide") /\ job[p].seen = None /\ p \notin Greps /\ ~LegacyFound
    /\ End(p)
    /\ UNCHANGED <<locator, data, version, faults>>

MakeDirectories(p) ==
    /\ At(p, "dirs")
    /\ \/ /\ data' = [data EXCEPT ![job[p].at.root]["dirs"] = Empty]
          /\ Goto(p, "manifest")
          /\ UNCHANGED <<migLock, mutex, faults>>
       \/ Fault /\ End(p) /\ UNCHANGED data
    /\ UNCHANGED <<locator, version>>

MakeManifest(p) ==
    /\ At(p, "manifest")
    /\ \/ /\ data' = [data EXCEPT ![job[p].at.root]["manifest"] = Empty]
          /\ job' = [job EXCEPT
                ![p].made = IF Managed(job[p].at.root) THEN {} ELSE {"manifest"},
                ![p].pc = IF job[p].why = "select" THEN "write" ELSE "running"]
          /\ UNCHANGED <<migLock, mutex, faults>>
       \/ Fault /\ End(p) /\ UNCHANGED data
    /\ UNCHANGED <<locator, version>>

-----------------------------------------------------------------------------
(* writeActive: for an adopted or a selected location, and to verify the one in use *)

MayWriteActive(loc) ==
    /\ mutex = None
    /\ Resolved # None => Resolved.pending = None /\ Resolved.active = loc

\* What follows: the application verifies what it adopted, and reads again what
\* was selected.
Written(p) ==
    CASE job[p].why = "adopt" -> Call(p, "write", "verify")
      [] job[p].why = "select" ->
            job' = [job EXCEPT ![p] = [Idle EXCEPT !.pc = "program", !.why = "existing"]]
      [] OTHER -> job' = [job EXCEPT ![p] = [Idle EXCEPT !.pc = "running", !.at = job[p].at]]

\* A selected root loses the manifest that was made for it.
NotWritten(p) ==
    /\ data' = IF job[p].why = "select" /\ job[p].made # {}
               THEN [data EXCEPT ![job[p].at.root]["manifest"] = NoFile] ELSE data
    /\ End(p)

WriteActive(p) ==
    /\ At(p, "write")
    /\ LET l == job[p].at.locator IN
       \/ /\ MayWriteActive(job[p].at)
          /\ locator' = [locator EXCEPT ![l] = State(job[p].at, None, TRUE, None)]
          /\ IF locator[Other(l)] = None
             THEN Written(p) /\ UNCHANGED mutex
             ELSE /\ job' = [job EXCEPT ![p].pc = "writeRemove", ![p].prev = locator[l]]
                  /\ mutex' = p
          /\ UNCHANGED <<data, migLock, faults>>
       \/ /\ Fault \/ (UNCHANGED faults /\ ~MayWriteActive(job[p].at))
          /\ NotWritten(p)
          /\ UNCHANGED locator
    /\ UNCHANGED version

\* The locator that is not used goes; if it cannot, the other is restored.
RemoveConflicting(p) ==
    /\ At(p, "writeRemove")
    /\ LET l == job[p].at.locator IN
       \/ /\ locator' = [locator EXCEPT ![Other(l)] = None]
          /\ Written(p)
          /\ mutex' = None
          /\ UNCHANGED <<data, migLock, faults>>
       \/ /\ Fault
          /\ locator' \in {locator, [locator EXCEPT ![l] = job[p].prev]}
          /\ NotWritten(p)
    /\ UNCHANGED version

-----------------------------------------------------------------------------
(* resolveExisting: install the location, or finish its migration first *)

MaxTries == 3

GiveUp(p) ==
    /\ At(p, "existing")
    /\ ~ /\ job[p].tries < MaxTries /\ job[p].seen # None
         /\ job[p].seen.pending = None => Managed(job[p].seen.active.root)
    /\ End(p)
    /\ UNCHANGED <<locator, data, version, faults>>

\* The application then verifies the locator; a search does not.
Install(p) ==
    /\ At(p, "existing") /\ job[p].tries < MaxTries
    /\ job[p].seen # None
    /\ job[p].seen.pending = None /\ Managed(job[p].seen.active.root)
    /\ data' = [data EXCEPT ![job[p].seen.active.root]["dirs"] = Empty]
    /\ job' = [job EXCEPT
          ![p] = [Idle EXCEPT !.at = job[p].seen.active,
                              !.pc = IF p \in Greps THEN "running" ELSE "write",
                              !.why = IF p \in Greps THEN "none" ELSE "verify"]]
    /\ UNCHANGED <<locator, version, migLock, mutex, faults>>

RecoverFirst(p) ==
    /\ At(p, "existing") /\ job[p].tries < MaxTries
    /\ job[p].seen # None /\ job[p].seen.pending # None
    /\ job' = [job EXCEPT
          ![p] = [Idle EXCEPT !.pc = "lock", !.why = "recover",
                              !.req = job[p].seen.pending, !.tries = job[p].tries + 1]]
    /\ UNCHANGED <<locator, data, version, migLock, mutex, faults>>

-----------------------------------------------------------------------------
(* StorageMigrator: what execute and recoverPending share *)

\* A fault of TakeLock: the lock is taken from who holds it.
TakeLock_Always(p) ==
    /\ At(p, "lock")
    /\ migLock' = [migLock EXCEPT ![job[p].req.source.locator] = p]
    /\ Goto(p, IF job[p].why = "recover" THEN "judge" ELSE "pend")
    /\ UNCHANGED <<locator, data, version, mutex, faults>>

\* Both take the lock beside the source's locator, or give up.
TakeLock(p) ==
    /\ At(p, "lock")
    /\ LET l == job[p].req.source.locator IN
       IF migLock[l] = None
       THEN /\ migLock' = [migLock EXCEPT ![l] = p]
            /\ Goto(p, IF job[p].why = "recover" THEN "judge" ELSE "pend")
            /\ UNCHANGED mutex
       ELSE End(p)
    /\ UNCHANGED <<locator, data, version, faults>>

SameRoot(r) == r.source.root = r.target.root

\* The request is what the source's locator has pending.
PendingIs(r) ==
    LET s == locator[r.source.locator]
    IN s # None /\ s.pending # None /\ SameRequest(s.pending, r)

\* The migration is done: resolveExisting reads the locators again.
Succeed(p) ==
    /\ job' = [job EXCEPT ![p] = [Idle EXCEPT !.pc = "program", !.why = "existing",
                                              !.tries = job[p].tries]]
    /\ migLock' = Unlocked(p)

\* A fault of CommitInPlace: the migration stays pending.
CommitInPlace_Pending(p) ==
    LET r == job[p].req IN
    /\ At(p, "commit") /\ r.source.locator = r.target.locator
    /\ mutex = None /\ PendingIs(r)
    /\ locator' = [locator EXCEPT ![r.target.locator] = [@ EXCEPT !.active = r.target]]
    /\ Succeed(p)
    /\ UNCHANGED <<data, version, mutex, faults>>

\* commitPending, when both locations have the same locator: one write.
CommitInPlace(p) ==
    LET r == job[p].req IN
    /\ At(p, "commit") /\ r.source.locator = r.target.locator
    /\ mutex = None /\ PendingIs(r)
    /\ locator' = [locator EXCEPT ![r.target.locator] =
                       State(r.target, None, FALSE, Last(r.tx, "committed"))]
    /\ Succeed(p)
    /\ UNCHANGED <<data, version, mutex, faults>>

\* Otherwise the target's locator is written, and then the source's removed.
CommitTarget(p) ==
    LET r == job[p].req IN
    /\ At(p, "commit") /\ r.source.locator # r.target.locator
    /\ mutex = None /\ PendingIs(r)
    /\ locator' = [locator EXCEPT ![r.target.locator] =
                       State(r.target, None, FALSE, Last(r.tx, "committed"))]
    /\ mutex' = p
    /\ job' = [job EXCEPT ![p].pc = "commitRemove", ![p].prev = locator[r.target.locator]]
    /\ UNCHANGED <<data, version, migLock, faults>>

CommitRefused(p) ==
    /\ At(p, "commit")
    /\ Fault \/ (UNCHANGED faults /\ ~(mutex = None /\ PendingIs(job[p].req)))
    /\ Goto(p, "commitFailed")
    /\ UNCHANGED <<locator, data, version, migLock, mutex>>

CommitRemoveSource(p) ==
    LET r == job[p].req IN
    /\ At(p, "commitRemove")
    /\ mutex' = None
    /\ \/ /\ locator' = [locator EXCEPT ![r.source.locator] = None]
          /\ Succeed(p)
          /\ UNCHANGED faults
       \/ /\ Fault
          /\ locator' \in {locator, [locator EXCEPT ![r.target.locator] = job[p].prev]}
          /\ Goto(p, "commitFailed")
          /\ UNCHANGED migLock
    /\ UNCHANGED <<data, version>>

\* A fault of TargetRemainsCommitted: a commit that failed is always rolled back.
TargetRemainsCommitted_Never(r) == FALSE

TargetRemainsCommitted(r) ==
    LET s == locator[r.target.locator]
    IN /\ s # None
       /\ s.pending = None /\ ~s.verified /\ s.active = r.target
       /\ s.last = Last(r.tx, "committed")

\* A commit that failed is rolled back, unless the target's locator stands, or
\* execute only changes the locator.
CommitFailed(p) ==
    LET r == job[p].req IN
    /\ At(p, "commitFailed")
    /\ IF TargetRemainsCommitted(r) \/ (SameRoot(r) /\ job[p].why = "execute")
       THEN End(p)
       ELSE Goto(p, "rollback") /\ UNCHANGED <<migLock, mutex>>
    /\ UNCHANGED <<locator, data, version, faults>>

\* After rollbackPending, recoverPending returns and resolveExisting executes the
\* request again; execute cleans up, whether the rollback failed or not.
RolledBack(p) ==
    IF job[p].why = "recover"
    THEN /\ job' = [job EXCEPT ![p] = [Idle EXCEPT !.pc = "lock", !.why = "execute",
                           !.req = job[p].req, !.tries = job[p].tries]]
         /\ migLock' = Unlocked(p)
    ELSE Goto(p, "cleanup") /\ UNCHANGED migLock

RollbackPending(p) ==
    LET r == job[p].req
        s == locator[r.source.locator]
    IN
    /\ At(p, "rollback")
    /\ mutex = None /\ PendingIs(r)
    /\ locator' = [locator EXCEPT ![r.source.locator] =
          IF s.pending.existed
          THEN State(r.source, None, s.verified, Last(r.tx, "rolledBack")) ELSE None]
    /\ RolledBack(p)
    /\ UNCHANGED <<data, version, mutex, faults>>

RollbackRefused(p) ==
    /\ At(p, "rollback")
    /\ Fault \/ (UNCHANGED faults /\ ~(mutex = None /\ PendingIs(job[p].req)))
    /\ IF job[p].why = "recover" THEN End(p)
       ELSE Goto(p, "cleanup") /\ UNCHANGED <<migLock, mutex>>
    /\ UNCHANGED <<locator, data, version>>

-----------------------------------------------------------------------------
(* StorageMigrator::recoverPending *)

\* What the locators say of a request that is not pending any more.
WasCommitted(r) ==
    LET s == locator[r.source.locator]
        t == locator[r.target.locator]
    IN IF s # None /\ s.last # None /\ s.last.tx = r.tx
       THEN s.last.outcome = "committed" /\ s.active = r.target
       ELSE /\ t # None
            /\ t.pending = None /\ t.active = r.target
            /\ t.last = Last(r.tx, "committed")

WasRolledBack(r) ==
    LET s == locator[r.source.locator]
    IN s # None /\ s.last = Last(r.tx, "rolledBack") /\ s.active = r.source

NothingPending(r) ==
    LET s == locator[r.source.locator] IN s = None \/ s.pending = None

JudgePending(p) ==
    LET r == job[p].req IN
    /\ At(p, "judge") /\ PendingIs(r)
    /\ Goto(p, IF Complete(r.target.root) THEN "commit" ELSE "rollback")
    /\ UNCHANGED <<locator, data, version, migLock, mutex, faults>>

JudgeOutcome(p) ==
    LET r == job[p].req IN
    /\ At(p, "judge") /\ ~PendingIs(r)
    /\ IF NothingPending(r) /\ WasCommitted(r)
       THEN Succeed(p) /\ UNCHANGED mutex
       ELSE IF NothingPending(r) /\ WasRolledBack(r)
       THEN RolledBack(p) /\ UNCHANGED mutex
       ELSE End(p)
    /\ UNCHANGED <<locator, data, version, faults>>

-----------------------------------------------------------------------------
(* StorageMigrator::execute *)

MayWritePending(r) ==
    LET s == locator[r.source.locator] IN
    /\ mutex = None
    /\ Resolved # None => Resolved.active = r.source
    /\ IF s = None THEN Resolved = None
       ELSE /\ s.active = r.source
            /\ s.pending # None => SameRequest(s.pending, r)

\* An identical pending request is left as it is.
PendingWritten(r) ==
    LET s == locator[r.source.locator] IN
    IF PendingIs(r) THEN locator
    ELSE [locator EXCEPT ![r.source.locator] =
             State(r.source, [r EXCEPT !.existed = s # None],
                   s # None /\ s.verified, None)]

\* A change of the locator alone needs a complete root, and copies nothing.
WritePending(p) ==
    LET r == job[p].req IN
    /\ At(p, "pend")
    /\ \/ /\ MayWritePending(r)
          /\ locator' = PendingWritten(r)
          /\ Goto(p, IF ~SameRoot(r) THEN "copy"
                     ELSE IF Complete(r.target.root) THEN "commit" ELSE "rollback")
          /\ UNCHANGED <<migLock, mutex, faults>>
       \/ /\ Fault \/ (UNCHANGED faults /\ ~MayWritePending(r))
          /\ End(p)
          /\ UNCHANGED locator
    /\ UNCHANGED <<data, version>>

\* What the target's file is to hold; NoFile if it is not to be made.  An INI the
\* source has not becomes an empty one.
Wanted(r, f) ==
    IF f \in {"dirs", "manifest"} THEN Empty
    ELSE IF f \in Settings /\ SourceContent(r, f) = NoFile THEN Empty
    ELSE SourceContent(r, f)

\* Only what is not there is made, and what is there must be the same.  The
\* manifest is looked for at the start, and written in any case at the end.
Conflicts(r, f) ==
    LET there == data[r.target.root]
    IN CASE f = "dirs" -> there["manifest"] # NoFile
         [] f = "manifest" -> FALSE
         [] OTHER -> Wanted(r, f) # NoFile /\ there[f] \notin {NoFile, Wanted(r, f)}

Copy(p) ==
    LET r == job[p].req
        f == CopyOrder[job[p].step]
        there == data[r.target.root][f]
        made == IF there = NoFile /\ Wanted(r, f) # NoFile THEN {f} ELSE {}
    IN
    /\ At(p, "copy")
    /\ \/ /\ f = "dirs" \/ ~Conflicts(r, f)
          /\ data' = IF made = {} THEN data
                     ELSE [data EXCEPT ![r.target.root][f] = Wanted(r, f)]
          /\ job' = [job EXCEPT
                ![p].made = @ \cup made,
                ![p].step = IF f = "manifest" THEN 1 ELSE @ + 1,
                ![p].pc = IF f = "manifest" THEN "commit"
                          ELSE IF Conflicts(r, f) THEN "rollback" ELSE "copy"]
          /\ UNCHANGED faults
       \/ /\ Fault \/ (UNCHANGED faults /\ f # "dirs" /\ Conflicts(r, f))
          /\ Goto(p, "rollback")
          /\ UNCHANGED data
    /\ UNCHANGED <<locator, version, migLock, mutex>>

\* A fault of Cleaned: whatever is in the target goes.
Cleaned_All(root, files) == [f \in Files |-> NoFile]

\* Files first; the directories go if nothing is left in them.
Cleaned(root, files) ==
    LET left == [f \in Files |-> IF f \in files \ {"dirs"} THEN NoFile ELSE data[root][f]]
    IN IF "dirs" \in files /\ \A f \in Files \ {"dirs"} : left[f] = NoFile
       THEN [left EXCEPT !["dirs"] = NoFile] ELSE left

\* cleanupCreatedTargets removes what this call made; execute reports the failure.
Cleanup(p) ==
    LET root == job[p].req.target.root IN
    /\ At(p, "cleanup")
    /\ \/ /\ data' = [data EXCEPT ![root] = Cleaned(root, job[p].made)]
          /\ UNCHANGED faults
       \/ /\ Fault
          /\ \E f \in job[p].made :
                data' = [data EXCEPT ![root] = Cleaned(root, job[p].made \ {f})]
    /\ End(p)
    /\ UNCHANGED <<locator, version>>

-----------------------------------------------------------------------------
(* A running instance *)

Save(p, f) ==
    /\ At(p, "running") /\ p \notin Greps
    /\ version < MaxVersion
    /\ version' = version + 1
    /\ data' = [data EXCEPT ![job[p].at.root][f] = version']
    /\ UNCHANGED <<locator, job, migLock, mutex, faults>>

\* OptionsDialog::scheduleStorageMigration: the next start migrates.
Schedule(p, c) ==
    LET r == Request(NewTransaction, job[p].at, c, FALSE) IN
    /\ At(p, "running") /\ p \notin Greps
    /\ job[p].at.locator # None /\ c # job[p].at
    /\ Vacant(c.root) \/ Managed(c.root)
    /\ c.root = job[p].at.root \/ ~Managed(c.root)
    /\ Resolved # None /\ Resolved.active = job[p].at /\ Resolved.pending = None
    /\ MayWritePending(r)
    /\ locator' = PendingWritten(r)
    /\ UNCHANGED <<data, version, job, migLock, mutex, faults>>

Quit(p) ==
    /\ At(p, "running")
    /\ End(p)
    /\ UNCHANGED <<locator, data, version, faults>>

-----------------------------------------------------------------------------
(* The specification *)

Bootstrap(p) ==
    \/ ReadProgramLocator(p) \/ ReadUserLocator(p)
    \/ DiscardLegacyLocator(p) \/ UseLocator(p)
    \/ UseDefaultRoot(p) \/ AdoptTarget(p) \/ MigrateLegacy(p)
    \/ (\E c \in Choices : SelectRoot(p, c)) \/ CancelSelection(p)
    \/ MakeDirectories(p) \/ MakeManifest(p)
    \/ WriteActive(p) \/ RemoveConflicting(p)
    \/ GiveUp(p) \/ Install(p) \/ RecoverFirst(p)

Migrate(p) ==
    \/ TakeLock(p)
    \/ CommitInPlace(p) \/ CommitTarget(p) \/ CommitRefused(p)
    \/ CommitRemoveSource(p) \/ CommitFailed(p)
    \/ RollbackPending(p) \/ RollbackRefused(p)
    \/ JudgePending(p) \/ JudgeOutcome(p)
    \/ WritePending(p) \/ Copy(p) \/ Cleanup(p)

Use(p) ==
    \/ Launch(p) \/ (\E r \in Overrides : LaunchAt(p, r))
    \/ (\E f \in Settings : Save(p, f))
    \/ (\E c \in Choices : Schedule(p, c))
    \/ Quit(p)

Next == \E p \in Instances : Bootstrap(p) \/ Migrate(p) \/ Use(p) \/ Kill(p)

Spec == Init /\ [][Next]_vars

\* A process that is not killed goes on, and a user whose ZzLogg does not run
\* starts it again.
FairSpec ==
    /\ Spec
    /\ \A p \in Instances : WF_vars(Bootstrap(p)) /\ WF_vars(Migrate(p)) /\ WF_vars(Launch(p))

-----------------------------------------------------------------------------
(* Properties *)

Requests == [tx : Transactions, source : Locations, target : Locations,
             legacy : BOOLEAN, existed : BOOLEAN]

Outcomes == [tx : Transactions, outcome : {"committed", "rolledBack"}]

States == [active : Locations, pending : Requests \cup {None}, verified : BOOLEAN,
           last : Outcomes \cup {None}]

ASSUME TypesAssumption ==
    /\ None \notin Requests \cup Outcomes \cup States
    /\ None \notin [root : Roots, locator : Locators \cup {None}]
    /\ InitLocators \subseteq [Locators -> States \cup {None}]

Pcs == {"off", "program", "user", "decide", "dirs", "manifest", "write", "writeRemove",
        "existing", "lock", "judge", "pend", "copy", "commit", "commitRemove",
        "commitFailed", "rollback", "cleanup", "running"}

Whys == {"none", "bootstrap", "existing", "default", "override", "adopt", "select", "verify",
         "recover", "execute"}

Jobs == [pc : Pcs, why : Whys,
         seen : States \cup {None},
         at : [root : Roots, locator : Locators \cup {None}] \cup {None},
         req : Requests \cup {None}, step : 1..5, made : SUBSET Files,
         tries : 0..MaxTries, prev : States \cup {None}]

\* Every variable has its type (readState, StorageMigrationRequest,
\* StorageLocatorState); Pending and LastMigration exclude each other, or the
\* locator is refused as invalid (storagelocator.cpp:387).
TypeOK ==
    /\ locator \in [Locators -> States \cup {None}]
    /\ \A l \in Locators : locator[l] # None =>
          /\ locator[l].active.locator = l
          /\ locator[l].pending = None \/ locator[l].last = None
    /\ data \in [Roots -> [Files -> Nat]]
    /\ version \in Nat /\ faults \in 0..MaxFaults
    /\ job \in [Instances -> Jobs]
    /\ migLock \in [Locators -> Instances \cup {None}]
    /\ mutex \in Instances \cup {None}

\* A locator without a pending migration names a complete directory: its manifest
\* is there, and after a migration both INIs are.  Only the old layout, named by a
\* locator while it moves, has none (hasCompatibleManifest, recoverPending).
ActiveIsComplete ==
    \A l \in Locators :
        LET s == locator[l] IN
        s # None /\ s.pending = None /\ s.active # Legacy =>
            /\ Managed(s.active.root)
            /\ s.last # None /\ s.last.outcome = "committed" =>
                  \A f \in Settings : data[s.active.root][f] # NoFile

\* The root the next start would read settings from.
NoRoot == "no root"

ASSUME NoRootAssumption == NoRoot \notin Roots

Home ==
    IF Resolved # None THEN Resolved.active.root
    ELSE IF ~LegacyFound THEN NoRoot
    ELSE IF Managed(LegacyTarget.root) THEN LegacyTarget.root ELSE Legacy.root

\* What it reads: an empty INI is like none, and the old layout may keep the
\* session in its config file.
ReadFrom(root, f) ==
    LET there == data[root]
        held == IF Legacy # None /\ root = Legacy.root /\ f = "session"
                   /\ there["session"] = NoFile
                THEN there["config"] ELSE there[f]
    IN IF held = NoFile THEN Empty ELSE held

Promise == INSTANCE UserSettings WITH
    Unset <- Empty,
    attached <- Home # NoRoot,
    settings <- [f \in Settings |-> IF Home = NoRoot THEN Empty ELSE ReadFrom(Home, f)]

\* Whatever is scheduled, migrated, rolled back, killed, refused or started again,
\* the settings the next start reads are those saved last (StorageMigrator "以事务方式",
\* BUILD.md:165).
SettingsSurvive == Promise!Spec

\* No write and no cleanup of a migration, whichever instance does it, overwrites
\* or removes a file of the directory that the locators name: only saving does
\* (cleanupCreatedTargets, copyLegacyIni).
ActiveIsKept ==
    [][\A f \in Files :
          Resolved # None =>
             LET root == Resolved.active.root IN
             data[root][f] # NoFile =>
                \/ data'[root][f] = data[root][f]
                \/ f \in Settings /\ version' # version]_vars

Moving(p) == job[p].pc \in {"copy", "commitRemove"}

\* Two migrations never copy or commit at once, though each locator has a lock of
\* its own (storagemigrator.cpp:1028).
OneMigration == \A p, q \in Instances : Moving(p) /\ Moving(q) => p = q

AsksUser(p) == At(p, "decide") /\ job[p].seen = None /\ p \notin Greps /\ ~LegacyFound

\* However a start, a migration or a recovery was stopped, starting again ends in a
\* running ZzLogg, or in the question where to keep its data.
Startable == \A p \in Instances : []<>(At(p, "running") \/ AsksUser(p))
=============================================================================
