------------------------ MODULE PortableTransaction ------------------------
(***************************************************************************)
(* The replacement of the files of a portable installation, with a backup  *)
(* and a rollback: src/src/portableupdater/transaction.cpp.                *)
(*                                                                         *)
(* A name is what a manifest spells, a key is the file it means: Windows   *)
(* folds the case of names (Folded).  A file has one of four contents.     *)
(* Every update attempt has a stage, a backup and a transaction of its     *)
(* own; the tree, and the one temporary name in it, are shared.  A call on *)
(* the file system may fail, MaxFaults times in all.  Subdirectories and   *)
(* links are left out: one directory, one temporary name.                  *)
(***************************************************************************)
EXTENDS Naturals, Sequences

CONSTANTS
    Names,          \* the spellings in the two manifests
    Keys,           \* the files they mean, and those of the user
    Folded,         \* the file a spelling means
    OldFiles,       \* what the installed manifest lists
    NewFiles,       \* what the package's manifest lists, in the package's order
    MaxAttempts,    \* bound on the attempts to update
    MaxFaults       \* bound on the calls that fail

Attempts == 1..MaxAttempts

ASSUME TransactionAssumption ==
    /\ Folded \in [Names -> Keys]
    /\ OldFiles \in Seq(Names) /\ NewFiles \in Seq(Names) /\ NewFiles # <<>>
    /\ MaxAttempts \in Nat /\ MaxFaults \in Nat

\* The files that a list of names means.
FilesOf(names) == {Folded[names[i]] : i \in DOMAIN names}

\* checkSet: a list names no file twice.
ASSUME ListsAssumption ==
    \A names \in {OldFiles, NewFiles} : \A i, j \in DOMAIN names :
        Folded[names[i]] = Folded[names[j]] => i = j

VARIABLES
    tree,       \* the content of every file of the installation
    temporary,  \* .zzlogg-update-new: "none", "partial" or "new"
    backup,     \* attempt -> what its backup directory holds
    tx,         \* attempt -> the state of its replaceFiles
    faults      \* calls that have failed

txVars == <<tree, temporary, backup, tx, faults>>

Contents == {"none", "old", "new", "foreign"}

NoBackup == [k \in Keys |-> "none"]

NewTx == [step |-> "idle", i |-> 1, old |-> <<>>, backedUp |-> {}, changed |-> <<>>,
          incomplete |-> FALSE, before |-> NoBackup]

Steps == {"idle", "backup", "stage", "remove", "rename", "retire", "undo",
          "refused", "done", "undone"}

TxTypeOK ==
    /\ tree \in [Keys -> Contents]
    /\ temporary \in {"none", "partial", "new"}
    /\ backup \in [Attempts -> [Keys -> Contents \cup {"partial"}]]
    /\ tx \in [Attempts -> [step : Steps, i : 1..(Len(OldFiles) + Len(NewFiles) + 1),
                            old : {<<>>, OldFiles, NewFiles}, backedUp : SUBSET Names,
                            changed : Seq(Names), incomplete : BOOLEAN,
                            before : [Keys -> Contents]]]
    /\ faults \in 0..MaxFaults

TxInit ==
    /\ temporary = "none"
    /\ backup = [a \in Attempts |-> NoBackup]
    /\ tx = [a \in Attempts |-> NewTx]
    /\ faults = 0

Fails == faults < MaxFaults /\ faults' = faults + 1

MayFail(ok) == IF ok THEN UNCHANGED faults ELSE Fails

Goes(a, step) == tx' = [tx EXCEPT ![a].step = step, ![a].i = 1]
Advances(a) == tx' = [tx EXCEPT ![a].i = @ + 1]

-----------------------------------------------------------------------------
\* A fault of Valid: a file nobody owns does not block the update.
V_AnyTarget(old) == TRUE

\* validateTransaction on the tree: a new file's target is absent, or owned.
Valid(old) ==
    \A k \in FilesOf(NewFiles) : tree[k] = "none" \/ k \in FilesOf(old)

\* replaceFiles up to the backups.  "refused" is the exception that leaves it.
Begin(a) ==
    /\ tx[a].step = "idle"
    /\ tx' = [tx EXCEPT ![a].step = IF Valid(tx[a].old) THEN "backup" ELSE "refused",
                        ![a].before = tree]
    /\ UNCHANGED <<tree, temporary, backup, faults>>

\* The next old file is copied to the backup, if it is there.
BackUp(a) ==
    LET name == tx[a].old[tx[a].i]
        k == Folded[name]
    IN
    /\ tx[a].step = "backup"
    /\ UNCHANGED <<tree, temporary>>
    /\ \/ /\ tx[a].i > Len(tx[a].old)
          /\ Goes(a, "stage")
          /\ UNCHANGED <<backup, faults>>
       \/ /\ tx[a].i <= Len(tx[a].old)
          /\ tree[k] = "none"
          /\ Advances(a)
          /\ UNCHANGED <<backup, faults>>
       \/ /\ tx[a].i <= Len(tx[a].old)
          /\ tree[k] # "none"
          /\ backup' = [backup EXCEPT ![a][k] = tree[k]]
          /\ tx' = [tx EXCEPT ![a].i = @ + 1, ![a].backedUp = @ \cup {name}]
          /\ UNCHANGED faults
       \/ /\ tx[a].i <= Len(tx[a].old)
          /\ tree[k] # "none"
          /\ Fails
          /\ backup' = [backup EXCEPT ![a][k] = "partial"]
          /\ Goes(a, "refused")

\* The handler of an exception: the temporary file goes, if this call made it.
Throw(a, mine) ==
    /\ Goes(a, "undo")
    /\ temporary' = IF mine THEN "none" ELSE temporary

\* The next new file is copied under the temporary name and verified.
Stage(a) ==
    /\ tx[a].step = "stage"
    /\ UNCHANGED <<tree, backup>>
    /\ \/ /\ tx[a].i > Len(NewFiles)
          /\ Goes(a, "retire")
          /\ UNCHANGED <<temporary, faults>>
       \/ /\ tx[a].i <= Len(NewFiles)
          /\ temporary # "none"
          /\ Throw(a, FALSE)
          /\ UNCHANGED faults
       \/ /\ tx[a].i <= Len(NewFiles)
          /\ temporary = "none"
          /\ temporary' = "new"
          /\ tx' = [tx EXCEPT ![a].step = "remove"]
          /\ UNCHANGED faults
       \/ /\ tx[a].i <= Len(NewFiles)
          /\ temporary = "none"
          /\ Fails
          /\ Throw(a, TRUE)

\* A fault of Remove: the file is noted as changed when it has been replaced.
R_NotedLate(a) ==
    /\ tx[a].step = "remove"
    /\ UNCHANGED backup
    /\ \/ /\ tree' = [tree EXCEPT ![Folded[NewFiles[tx[a].i]]] = "none"]
          /\ tx' = [tx EXCEPT ![a].step = "rename"]
          /\ UNCHANGED <<temporary, faults>>
       \/ Fails /\ Throw(a, TRUE) /\ UNCHANGED tree

\* The target is noted as changed and removed.
Remove(a) ==
    LET name == NewFiles[tx[a].i]
        changed == Append(tx[a].changed, name)
    IN
    /\ tx[a].step = "remove"
    /\ UNCHANGED backup
    /\ \/ /\ tree' = [tree EXCEPT ![Folded[name]] = "none"]
          /\ tx' = [tx EXCEPT ![a].step = "rename", ![a].changed = changed]
          /\ UNCHANGED <<temporary, faults>>
       \/ /\ Fails
          /\ tx' = [tx EXCEPT ![a].step = "undo", ![a].i = 1, ![a].changed = changed]
          /\ temporary' = "none"
          /\ UNCHANGED tree

\* The temporary file takes the target's name.
Rename(a) ==
    /\ tx[a].step = "rename"
    /\ UNCHANGED backup
    /\ \/ /\ tree' = [tree EXCEPT ![Folded[NewFiles[tx[a].i]]] = temporary]
          /\ temporary' = "none"
          /\ tx' = [tx EXCEPT ![a].step = "stage", ![a].i = @ + 1]
          /\ UNCHANGED faults
       \/ Fails /\ Throw(a, TRUE) /\ UNCHANGED tree

\* The next old file that the package does not have is removed.
Retire(a) ==
    LET name == tx[a].old[tx[a].i]
        changed == Append(tx[a].changed, name)
    IN
    /\ tx[a].step = "retire"
    /\ UNCHANGED <<temporary, backup>>
    /\ \/ /\ tx[a].i > Len(tx[a].old)
          /\ Goes(a, "done")
          /\ UNCHANGED <<tree, faults>>
       \/ /\ tx[a].i <= Len(tx[a].old)
          /\ Folded[name] \in FilesOf(NewFiles)
          /\ Advances(a)
          /\ UNCHANGED <<tree, faults>>
       \/ /\ tx[a].i <= Len(tx[a].old)
          /\ Folded[name] \notin FilesOf(NewFiles)
          /\ tree' = [tree EXCEPT ![Folded[name]] = "none"]
          /\ tx' = [tx EXCEPT ![a].i = @ + 1, ![a].changed = changed]
          /\ UNCHANGED faults
       \/ /\ tx[a].i <= Len(tx[a].old)
          /\ Folded[name] \notin FilesOf(NewFiles)
          /\ Fails
          /\ tx' = [tx EXCEPT ![a].step = "undo", ![a].i = 1, ![a].changed = changed]
          /\ UNCHANGED tree

\* The last changed file, which is not undone yet.
LastChanged(a) == tx[a].changed[Len(tx[a].changed) + 1 - tx[a].i]

\* One file of the rollback, the last changed first: the target is removed,
\* and restored if its name, as it is spelled, is among those backed up.
Undo(a) ==
    LET k == Folded[LastChanged(a)]
        mine == LastChanged(a) \in tx[a].backedUp
    IN
    /\ tx[a].step = "undo"
    /\ UNCHANGED <<temporary, backup>>
    /\ \/ /\ tx[a].i > Len(tx[a].changed)
          /\ Goes(a, "undone")
          /\ UNCHANGED <<tree, faults>>
       \/ /\ tx[a].i <= Len(tx[a].changed)
          /\ tree' = [tree EXCEPT ![k] = IF mine THEN backup[a][k] ELSE "none"]
          /\ Advances(a)
          /\ UNCHANGED faults
       \/ /\ tx[a].i <= Len(tx[a].changed)
          /\ Fails
          /\ \E content \in {tree[k]} \cup (IF mine THEN {"none"} ELSE {}) :
                tree' = [tree EXCEPT ![k] = content]
          /\ tx' = [tx EXCEPT ![a].i = @ + 1, ![a].incomplete = TRUE]

Replace(a) ==
    \/ BackUp(a) \/ Stage(a) \/ Remove(a) \/ Rename(a) \/ Retire(a) \/ Undo(a)
=============================================================================
