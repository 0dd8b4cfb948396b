------------------------------ MODULE TxEngine ------------------------------
(***************************************************************************)
(* The transaction engine that updates an installation: TxEngine::execute, *)
(* its rollback, TxEngine::recover, and the TxJournal they write and       *)
(* replay (src/src/updater/txengine_win.cpp, txjournal_win.cpp).           *)
(*                                                                         *)
(* The tree maps everything the transaction may change to its content: the *)
(* files of the two manifests, the installed manifest itself and the       *)
(* DisplayVersion value of the registry.  A content is a model value, and  *)
(* two digests are equal iff the contents are.  One transaction runs, in   *)
(* one process at a time: the engine, then any number of recoveries.  Each *)
(* of them can be killed between any two of its effects, any of its calls  *)
(* can fail, and other programs can write to the same files.               *)
(*                                                                         *)
(* Temporary files are left out: their names are never reused, and nothing *)
(* reads one that the same step did not write.                             *)
(***************************************************************************)
EXTENDS Naturals, Sequences

CONSTANTS
    Files,          \* the files that either manifest names
    Manifest,       \* the installed manifest
    DisplayVersion, \* the registry value
    Contents,       \* what a file or the value can hold
    Absent,         \* no such file
    Partial,        \* a copy that was cut off
    Alien,          \* what another program wrote
    None,
    Old,            \* the tree before the update
    New,            \* the tree it is to produce
    Plan,           \* the targets in the order the engine takes them
    SameVolume,     \* the journal and the installation share a volume
    Faults,         \* which faults happen: see Fault
    MaxFaults,      \* bound on the faults
    MaxForeign      \* bound on the changes made by other programs

Targets == Files \cup {Manifest, DisplayVersion}
Values == Contents \cup {Absent, Partial, Alien}

Outcomes == {"Applied", "Rejected", "Conflict", "RolledBack", "Recovered",
             "NothingToRecover", "NeedsAuthorizedRecovery", "RecoveryFailed"}

ASSUME TxAssumption ==
    /\ Manifest # DisplayVersion /\ {Manifest, DisplayVersion} \cap Files = {}
    /\ {Absent, Partial, Alien} \cap Contents = {}
    /\ Absent # Partial /\ Absent # Alien /\ Partial # Alien
    /\ None \notin Targets \cup Outcomes \cup {"updated", "restored"}
    /\ Old \in [Targets -> Contents \cup {Absent}]
    /\ New \in [Targets -> Contents \cup {Absent}]
    /\ \A t \in {Manifest, DisplayVersion} : Old[t] # Absent /\ New[t] # Absent
    /\ SameVolume \in BOOLEAN
    /\ Faults \subseteq {"kill", "append", "effect", "undo", "recheck", "replay", "hidden",
                      "foreign", "window"}
    /\ MaxFaults \in Nat /\ MaxForeign \in Nat

\* prepare's plan: every file the manifests differ in, once, and after them the
\* registry value and the installed manifest.
ASSUME PlanAssumption ==
    /\ Plan \in Seq(Targets)
    /\ \A i, j \in DOMAIN Plan : Plan[i] = Plan[j] => i = j
    /\ \A f \in Files : Old[f] # New[f] <=> \E i \in DOMAIN Plan : Plan[i] = f
    /\ \A t \in {Manifest, DisplayVersion} : \E i \in DOMAIN Plan : Plan[i] = t

VARIABLES
    tree,       \* the installation
    backup,     \* the backup of each target in the transaction's directory
    log,        \* journal.log: "none", "empty" (no whole header), "open"
    journal,    \* the whole records in it
    torn,       \* it ends in part of a record
    pc,         \* where the process is
    item,       \* the entry of Plan that execute works on
    records,    \* the records the process knows
    undo,       \* how many of them are still to be undone
    verdict,    \* the outcome if this rollback succeeds
    outcome,    \* the TxOutcome it exited with, or None
    settled,    \* history: "updated" or "restored" once either was reported
    faults, foreign

journalVars == <<log, journal, torn>>
vars == <<tree, backup, log, journal, torn, pc, item, records, undo, verdict,
          outcome, settled, faults, foreign>>

ExecutePcs == {"backup", "copy", "record", "apply", "placing"}
UndoPcs == {"check", "act", "restoring", "drop"}
Running == pc \in {"header"} \cup ExecutePcs \cup UndoPcs

-----------------------------------------------------------------------------
(* Journal records *)

OpOf(t) ==
    IF t = DisplayVersion THEN "Registry"
    ELSE IF Old[t] = Absent THEN "Create"
    ELSE IF New[t] = Absent THEN "Delete" ELSE "Replace"

Record(op, t, x) == [op |-> op, target |-> t, sha |-> x]

\* A Create or Replace holds the digest of the new content, a Delete that of the
\* old one, a Registry the old value.
OpRecord(t) ==
    Record(OpOf(t), t, IF OpOf(t) \in {"Create", "Replace"} THEN New[t] ELSE Old[t])

\* The backup of a file must match the old manifest; that of the installed
\* manifest is whatever is there.
BackupRecord(t) == Record("Backup", t, IF t = Manifest THEN tree[t] ELSE Old[t])

CompleteRecord == Record("Complete", None, Absent)

Records == [op : {"Backup", "Create", "Replace", "Delete", "Registry", "Complete"},
            target : Targets \cup {None}, sha : Values]

Init ==
    /\ tree = Old
    /\ backup = [t \in Targets |-> Absent]
    /\ log = "none" /\ journal = <<>> /\ torn = FALSE
    /\ pc = "prepared" /\ item = 1 /\ records = <<>> /\ undo = 0
    /\ verdict = None /\ outcome = None /\ settled = None
    /\ faults = 0 /\ foreign = 0

-----------------------------------------------------------------------------
(* Faults and ends *)

Fault(kind) == kind \in Faults /\ faults < MaxFaults /\ faults' = faults + 1

Exit(result) == pc' = "exited" /\ outcome' = result

\* A fault of RollBack: the last record is taken for the one that failed.
RollBack_SkipsLast(result) ==
    /\ pc' = "check"
    /\ undo' = IF records = <<>> THEN 0 ELSE Len(records) - 1
    /\ verdict' = result

\* execute's fail(): the records this process appended are undone in reverse.
RollBack(result) ==
    /\ pc' = "check"
    /\ undo' = Len(records)
    /\ verdict' = result

\* What the write of a record that does not succeed leaves in the file.
LeavesBehind(record) ==
    \/ UNCHANGED <<journal, torn>>
    \/ torn' = TRUE /\ UNCHANGED journal
    \/ journal' = Append(journal, record) /\ UNCHANGED torn

\* TxJournal::append
\*   IF the write or the flush fails
\*   THEN the journal is latched and this process rolls back without the record
\* (A digest the record needs that cannot be read counts as a failing write.)
AppendRecord(record, next) ==
    \/ /\ journal' = Append(journal, record)
       /\ records' = Append(records, record)
       /\ pc' = next
       /\ UNCHANGED <<torn, undo, verdict, faults>>
    \/ /\ Fault("append")
       /\ LeavesBehind(record)
       /\ RollBack("RolledBack")
       /\ UNCHANGED records

-----------------------------------------------------------------------------
(* TxEngine::execute *)

Target == Plan[item]
BackedUp(t) == OpOf(t) \in {"Replace", "Delete"}

\* Where the work on entry i begins; after the last one comes Complete.
StartOf(i) == IF i \in DOMAIN Plan /\ BackedUp(Plan[i]) THEN "backup" ELSE "record"

\* TxJournal::open creates the transaction's directory and an empty journal.
OpenJournal ==
    /\ pc = "prepared"
    /\ \/ /\ log' = "empty" /\ pc' = "header"
          /\ UNCHANGED <<outcome, faults>>
       \/ /\ Fault("effect") /\ Exit("Rejected") /\ UNCHANGED log
    /\ UNCHANGED <<tree, backup, journal, torn, item, records, undo, verdict,
                   settled, foreign>>

\*   IF the header cannot be written THEN the journal is removed again;
\*   IF the subdirectories cannot be created THEN nothing was done
WriteHeader ==
    /\ pc = "header"
    /\ \/ /\ log' = "open" /\ pc' = StartOf(1)
          /\ UNCHANGED <<outcome, settled, faults>>
       \/ /\ Fault("effect") /\ Exit("Rejected") /\ log' = "none"
          /\ UNCHANGED settled
       \/ /\ Fault("effect") /\ Exit("RolledBack") /\ log' = "open"
          /\ settled' = "restored"
    /\ UNCHANGED <<tree, backup, journal, torn, item, records, undo, verdict, foreign>>

\* The intent to back up is journaled first.
JournalBackup ==
    /\ pc = "backup"
    /\ AppendRecord(BackupRecord(Target), "copy")
    /\ UNCHANGED <<tree, backup, log, item, outcome, settled, foreign>>

\* Fault of CopyBackup: the copy is not compared with the old manifest.
CopyBackup_Unproved ==
    /\ pc = "copy"
    /\ \/ /\ tree[Target] # Absent
          /\ backup' = [backup EXCEPT ![Target] = tree[Target]]
          /\ pc' = "record"
          /\ UNCHANGED <<undo, verdict, faults>>
       \/ /\ tree[Target] = Absent
          /\ RollBack("Conflict")
          /\ UNCHANGED <<backup, faults>>
    /\ UNCHANGED <<tree, journalVars, item, records, outcome, settled, foreign>>

\* The old content is copied while it is proved against the old manifest.
\*   IF it is another content THEN the file was modified: a conflict
CopyBackup ==
    /\ pc = "copy"
    /\ LET proved == tree[Target] = Old[Target] \/ Target = Manifest
       IN  \/ /\ tree[Target] # Absent
              /\ backup' = [backup EXCEPT ![Target] = tree[Target]]
              /\ \/ proved /\ pc' = "record" /\ UNCHANGED <<undo, verdict>>
                 \/ ~proved /\ RollBack("Conflict")
              /\ UNCHANGED faults
           \/ /\ \/ tree[Target] = Absent /\ UNCHANGED faults
                 \/ Fault("effect")
              /\ RollBack(IF Target = Manifest THEN "RolledBack" ELSE "Conflict")
              /\ UNCHANGED backup
    /\ UNCHANGED <<tree, journalVars, item, records, outcome, settled, foreign>>

JournalOperation ==
    /\ pc = "record" /\ item \in DOMAIN Plan
    /\ AppendRecord(OpRecord(Target), "apply")
    /\ UNCHANGED <<tree, backup, log, item, outcome, settled, foreign>>

Applied ==
    /\ item' = item + 1
    /\ pc' = StartOf(item + 1)
    /\ UNCHANGED <<undo, verdict, faults>>

\* The staged file is moved to its place, the old file is deleted, or the new
\* version is registered.  A move across volumes is a copy, which can be cut off.
\*   IF a file to create is there, or one to delete is not, THEN the step fails
Apply ==
    /\ pc = "apply"
    /\ LET op == OpOf(Target)
           possible == /\ op = "Create" => tree[Target] = Absent
                       /\ op = "Delete" => tree[Target] # Absent
           copied == ~SameVolume /\ op \in {"Create", "Replace"}
       IN  \/ /\ possible /\ ~copied
              /\ tree' = [tree EXCEPT ![Target] = New[Target]]
              /\ Applied
           \/ /\ possible /\ copied
              /\ tree' = [tree EXCEPT ![Target] = Partial]
              /\ pc' = "placing"
              /\ UNCHANGED <<item, undo, verdict, faults>>
           \/ /\ \/ ~possible /\ UNCHANGED faults
                 \/ Fault("effect")
              /\ RollBack("RolledBack")
              /\ UNCHANGED <<tree, item>>
    /\ UNCHANGED <<backup, journalVars, records, outcome, settled, foreign>>

\* The copy across volumes ends, or fails and its destination is removed.
FinishPlacing ==
    /\ pc = "placing"
    /\ \/ /\ tree' = [tree EXCEPT ![Target] = New[Target]]
          /\ Applied
       \/ /\ Fault("effect")
          /\ tree' = [tree EXCEPT ![Target] = Absent]
          /\ RollBack("RolledBack")
          /\ UNCHANGED item
    /\ UNCHANGED <<backup, journalVars, records, outcome, settled, foreign>>

Complete ==
    /\ pc = "record" /\ item \notin DOMAIN Plan
    /\ AppendRecord(CompleteRecord, "exited")
    /\ \/ pc' = "exited" /\ outcome' = "Applied" /\ settled' = "updated"
       \/ pc' = "check" /\ UNCHANGED <<outcome, settled>>
    /\ UNCHANGED <<tree, backup, log, item, foreign>>

-----------------------------------------------------------------------------
(* Undo: execute's rollback and TxEngine::recover *)

Last(s) == s[Len(s)]

\* TxJournal::replay refuses a journal without a whole header or with a torn tail.
Corrupt == log = "empty" \/ torn

\* Fault of NothingJournaled: after a backup record nothing was replaced.
NothingJournaled_Backup ==
    log = "none" \/ (IF journal = <<>> THEN TRUE
                     ELSE Last(journal).op \in {"Complete", "Backup"})

NothingJournaled ==
    log = "none" \/ (IF journal = <<>> THEN TRUE ELSE Last(journal) = CompleteRecord)

\* recover's checks before it looks at the journal
\*   IF the image is not protected, a path is nonstandard, or the registration, its
\*      schema or the marker of the installation (which no manifest owns) do not match
\*   THEN it is rejected, whatever the journal holds
RecheckFails == Fault("recheck") /\ Exit("Rejected")

\* TxJournal::replay cannot get at a journal that is not corrupt
\*   IF its place is refused, or it is there and cannot be opened THEN recovery failed;
\*   IF it is opened and cannot be read THEN it is taken for a corrupt one;
\*   IF even its attributes cannot be read THEN it is taken for a missing one
ReplayFails ==
    \/ Fault("replay") /\ Exit("RecoveryFailed")
    \/ Fault("replay") /\ log # "none" /\ Exit("NeedsAuthorizedRecovery")
    \/ Fault("hidden") /\ Exit("NothingToRecover")

\* TxEngine::recover, in a new process
\*   IF it is rejected or the journal cannot be read THEN nothing is touched;
\*   IF the journal is corrupt THEN the scene is preserved;
\*   IF it is missing, fresh or complete THEN there is nothing to do
Recover ==
    /\ pc \in {"exited", "killed"}
    /\ \/ /\ RecheckFails \/ ReplayFails
          /\ UNCHANGED <<records, undo, verdict>>
       \/ /\ Corrupt /\ Exit("NeedsAuthorizedRecovery")
          /\ UNCHANGED <<records, undo, verdict, faults>>
       \/ /\ ~Corrupt /\ NothingJournaled /\ Exit("NothingToRecover")
          /\ UNCHANGED <<records, undo, verdict, faults>>
       \/ /\ ~Corrupt /\ ~NothingJournaled
          /\ records' = journal /\ undo' = Len(journal)
          /\ pc' = "check" /\ verdict' = "Recovered" /\ outcome' = None
          /\ UNCHANGED faults
    /\ UNCHANGED <<tree, backup, journalVars, item, settled, foreign>>

Undone == records[undo]

\* RollbackContext::backups, and the old content it lets a record be undone to.
BackupsOf(t) ==
    {i \in DOMAIN records : records[i].op = "Backup" /\ records[i].target = t}

OldContent(r) ==
    IF r.op = "Replace" THEN records[CHOOSE i \in BackupsOf(r.target) : TRUE].sha
                        ELSE r.sha

\* Faults of UndoVerdict: an unknown content is left where it is; a file that was
\* restored already is taken for a modified one.
UndoVerdict_SkipsUnknown(r, now) ==
    IF r.op \in {"Backup", "Complete"} THEN "skip"
    ELSE IF r.op = "Registry" THEN "act"
    ELSE IF now \in {Absent, r.sha} /\ r.op = "Replace" THEN "act"
    ELSE IF now = r.sha /\ r.op = "Create" THEN "act"
    ELSE IF now = Absent /\ r.op = "Delete" THEN "act" ELSE "skip"
UndoVerdict_NotTwice(r, now) ==
    IF r.op \in {"Backup", "Complete"} \/ (r.op = "Create" /\ now = Absent) THEN "skip"
    ELSE IF r.op # "Create" /\ now = OldContent(r) THEN "refuse" ELSE "act"

\* What undoRecord does with a record whose target holds now: it does nothing,
\* drops the backup of a file that is old already, acts, or refuses.
UndoVerdict(r, now) ==
    LET placed == now = r.sha       \* what a Create or Replace put there
    IN  CASE r.op \in {"Backup", "Complete"} -> "skip"
          [] r.op = "Registry" -> IF now = r.sha THEN "skip" ELSE "act"
          [] r.op = "Create" ->
                IF now = Absent THEN "skip" ELSE IF placed THEN "act" ELSE "refuse"
          [] r.op = "Delete" ->
                IF now = Absent THEN "act" ELSE IF now = r.sha THEN "drop" ELSE "refuse"
          [] r.op = "Replace" ->
                IF BackupsOf(r.target) = {} THEN "refuse"
                ELSE IF now = OldContent(r) THEN "drop"
                ELSE IF now = Absent \/ placed THEN "act" ELSE "refuse"

\* Fault of NextUndo: the first record is undone for ever.
NextUndo_NeverZero == undo' = (IF undo > 1 THEN undo - 1 ELSE undo) /\ pc' = "check"

NextUndo == undo' = undo - 1 /\ pc' = "check"

\* undoAll stops at the first record that cannot be undone.
Refuse ==
    /\ Exit(IF verdict = "Recovered" THEN "RecoveryFailed" ELSE "NeedsAuthorizedRecovery")
    /\ UNCHANGED undo

UndoCheck ==
    /\ pc = "check" /\ undo > 0
    /\ LET next == UndoVerdict(Undone, tree[Undone.target])
       IN  \/ next = "skip" /\ NextUndo /\ UNCHANGED <<outcome, faults>>
           \/ next \in {"act", "drop"} /\ pc' = next /\ UNCHANGED <<undo, outcome, faults>>
           \/ next = "refuse" /\ Refuse /\ UNCHANGED faults
           \/ Fault("undo") /\ Refuse
    /\ UNCHANGED <<tree, backup, journalVars, item, records, verdict, settled, foreign>>

\* Fault of UndoAct: the backup is moved away before its copy is in place.
UndoAct_DropsFirst ==
    /\ pc = "act"
    /\ LET t == Undone.target
       IN  IF Undone.op \in {"Replace", "Delete"}
           THEN /\ tree' = [tree EXCEPT ![t] = IF SameVolume THEN backup[t] ELSE Partial]
                /\ backup' = [backup EXCEPT ![t] = Absent]
                /\ pc' = IF SameVolume THEN "drop" ELSE "restoring"
                /\ UNCHANGED undo
           ELSE /\ tree' = [tree EXCEPT ![t] = IF Undone.op = "Create" THEN Absent
                                                                     ELSE Undone.sha]
                /\ NextUndo /\ UNCHANGED backup
    /\ UNCHANGED <<journalVars, item, records, verdict, outcome, settled, faults,
                   foreign>>

\* The placed file is deleted, the old value written, or the backup, which is
\* proved again while it is copied, moved into place (restoreFromBackup).
UndoAct ==
    /\ pc = "act"
    /\ LET t == Undone.target
           restores == Undone.op \in {"Replace", "Delete"}
       IN  \/ /\ ~restores
              /\ tree' = [tree EXCEPT ![t] =
                            IF Undone.op = "Create" THEN Absent ELSE Undone.sha]
              /\ NextUndo
              /\ UNCHANGED <<outcome, faults>>
           \/ /\ restores /\ backup[t] = OldContent(Undone)
              /\ IF SameVolume THEN tree' = [tree EXCEPT ![t] = backup[t]] /\ pc' = "drop"
                               ELSE tree' = [tree EXCEPT ![t] = Partial] /\ pc' = "restoring"
              /\ UNCHANGED <<undo, outcome, faults>>
           \/ /\ \/ restores /\ backup[t] # OldContent(Undone) /\ UNCHANGED faults
                 \/ Fault("undo")
              /\ Refuse
              /\ UNCHANGED tree
    /\ UNCHANGED <<backup, journalVars, item, records, verdict, settled, foreign>>

\* The copy across volumes ends, or fails and its destination is removed.
FinishRestoring ==
    /\ pc = "restoring"
    /\ \/ /\ tree' = [tree EXCEPT ![Undone.target] = backup[Undone.target]]
          /\ pc' = "drop"
          /\ UNCHANGED <<undo, outcome, faults>>
       \/ /\ Fault("undo")
          /\ tree' = [tree EXCEPT ![Undone.target] = Absent]
          /\ Refuse
    /\ UNCHANGED <<backup, journalVars, item, records, verdict, settled, foreign>>

\* The backup has done its service.
UndoDrop ==
    /\ pc = "drop"
    /\ backup' = [backup EXCEPT ![Undone.target] = Absent]
    /\ NextUndo
    /\ UNCHANGED <<tree, journalVars, item, records, verdict, outcome, settled,
                   faults, foreign>>

UndoDone ==
    /\ pc = "check" /\ undo = 0
    /\ Exit(verdict)
    /\ settled' = IF settled = None THEN "restored" ELSE settled
    /\ UNCHANGED <<tree, backup, journalVars, item, records, undo, verdict,
                   faults, foreign>>

-----------------------------------------------------------------------------
(* The outside world *)

\* The process is killed.  A write it was in may have happened in part.
Kill ==
    /\ Running
    /\ Fault("kill")
    /\ pc' = "killed"
    /\ CASE pc = "backup" -> LeavesBehind(BackupRecord(Target)) /\ UNCHANGED backup
         [] pc = "record" ->
              /\ LeavesBehind(IF item \in DOMAIN Plan THEN OpRecord(Target) ELSE CompleteRecord)
              /\ UNCHANGED backup
         [] pc = "copy" ->
              /\ backup' \in {backup, [backup EXCEPT ![Target] = Partial]}
              /\ UNCHANGED <<journal, torn>>
         [] OTHER -> UNCHANGED <<journal, torn, backup>>
    /\ UNCHANGED <<tree, log, item, records, undo, verdict, outcome, settled, foreign>>

\* The process has looked at this target and is about to change it.
InWindow(t) ==
    \/ pc \in {"record", "apply", "placing"} /\ item \in DOMAIN Plan
       /\ Target = t /\ BackedUp(t)
    \/ pc \in {"act", "restoring"} /\ Undone.target = t

\* Another program writes or removes a file of the installation: in the window
\* only if Faults says so.
Foreign ==
    /\ "foreign" \in Faults
    /\ foreign < MaxForeign /\ foreign' = foreign + 1
    /\ \E f \in Files, x \in {Alien, Absent} :
          /\ x # tree[f]
          /\ InWindow(f) => "window" \in Faults
          /\ tree' = [tree EXCEPT ![f] = x]
    /\ UNCHANGED <<backup, journalVars, pc, item, records, undo, verdict, outcome,
                   settled, faults>>

-----------------------------------------------------------------------------

Execute ==
    \/ OpenJournal \/ WriteHeader \/ JournalBackup \/ CopyBackup \/ JournalOperation
    \/ Apply \/ FinishPlacing \/ Complete

Undo == UndoCheck \/ UndoAct \/ FinishRestoring \/ UndoDrop \/ UndoDone

Next == Execute \/ Undo \/ Recover \/ Kill \/ Foreign

Spec == Init /\ [][Next]_vars

\* A process that is not killed goes on; nobody is obliged to start a recovery.
FairSpec == Spec /\ WF_vars(Execute) /\ WF_vars(Undo)

-----------------------------------------------------------------------------
(* Properties *)

\* Every variable holds a value of its type.
TypeOK ==
    /\ tree \in [Targets -> Values] /\ backup \in [Targets -> Values]
    /\ log \in {"none", "empty", "open"}
    /\ journal \in Seq(Records) /\ records \in Seq(Records) /\ torn \in BOOLEAN
    /\ pc \in {"prepared", "header", "exited", "killed"} \cup ExecutePcs \cup UndoPcs
    /\ item \in 1..(Len(Plan) + 1)
    /\ undo \in 0..Len(records)
    /\ verdict \in Outcomes \cup {None} /\ outcome \in Outcomes \cup {None}
    /\ settled \in {None, "updated", "restored"}
    /\ faults \in 0..MaxFaults /\ foreign \in 0..MaxForeign

\* An outcome is the truth about the tree: Applied means that all of it is new,
\* RolledBack, Conflict and Recovered that all of it is old again (execute and
\* recover, as long as no other program writes).  Rejected means that it was never
\* touched only where nothing is journaled: a recovery is rejected before it looks at
\* the journal, over a tree that may be half new, which then is Restorable.
OutcomeTruthful ==
    foreign = 0 =>
        /\ outcome = "Applied" => tree = New
        /\ outcome \in {"RolledBack", "Conflict", "Recovered"} => tree = Old
        /\ outcome = "Rejected" /\ journal = <<>> => tree = Old

\* Journal first: whatever is no longer old has its record on disk, and unless it
\* was created or registered, a proved backup of the old content (the order in which
\* execute appends, copies and places, and undoRecord restores and drops).  It stays so
\* when a recovery is rejected, cannot read the journal, or stops half way.
Restorable ==
    foreign = 0 =>
        \A t \in Targets : tree[t] # Old[t] =>
            /\ \E i \in DOMAIN journal : journal[i] = OpRecord(t)
            /\ BackedUp(t) => backup[t] = Old[t]

\* Recovery finds nothing to do only where the update is whole: entirely done, or
\* entirely undone.  (Not so if a journal that is there passes for a missing one.)
NothingLeftHalf ==
    foreign = 0 /\ outcome = "NothingToRecover" => tree \in {Old, New}

\* Undoing is never refused while only this transaction writes to the tree: every
\* state a kill or a failed call leaves behind can be undone, by the process itself
\* and by any later recovery (undoRecord and restoreFromBackup).
UndoNeverRefused ==
    foreign = 0 =>
        /\ pc = "check" /\ undo > 0 =>
              UndoVerdict(Undone, tree[Undone.target]) # "refuse"
        /\ pc = "act" /\ Undone.op \in {"Replace", "Delete"} =>
              backup[Undone.target] = OldContent(Undone)

\* Settled is settled: once the update was reported as applied or undone, no
\* further recovery changes the tree (undoRecord is idempotent), as long as no
\* other program does.
SettledStays == [][settled # None /\ foreign' = 0 => tree' = tree]_vars

\* The engine never overwrites or deletes what another program wrote: it stops, as
\* a conflict or a refusal.  (Not so if the other program writes between the look
\* at the file and its change: no call looks and replaces at once.)
ForeignKept ==
    [][foreign' = foreign =>
          \A f \in Files : tree[f] = Alien => tree'[f] = Alien]_vars

\* A process that is not killed comes to an end and reports an outcome.
ReportsOutcome == Running ~> (pc = "killed" \/ outcome # None)

\* The transaction implements an atomic update of the tree.
Atomic == INSTANCE AtomicUpdate WITH Trees <- [Targets -> Values]
AtomicSpec == Atomic!Spec
=============================================================================
