------------------------------- MODULE TxPlan -------------------------------
(* What TxEngine::prepare makes of the two manifests (txengine_win.cpp): the *)
(* files that execute will create, replace and delete, in that order, or the *)
(* reason why there will be no update.  It only reads.                       *)
(*                                                                           *)
(* The installation maps what the file system takes a path for, without case *)
(* (upperKey), to a content; a content has its digest and its size.  The     *)
(* manifests are sequences of entries; prepare compares their paths exactly. *)
EXTENDS Naturals, Sequences
LOCAL INSTANCE SequencesExt

CONSTANTS
    Key,        \* the file that each relative path names
    Size,       \* the bytes of each content
    NoFile      \* the content of a key where no file is

Entry(path, content) == [path |-> path, content |-> content]
PathsOf(manifest) == {manifest[i].path : i \in DOMAIN manifest}

\* parseManifestFile refuses two paths that differ in case only.
Readable(manifest) ==
    \A i, j \in DOMAIN manifest : Key[manifest[i].path] = Key[manifest[j].path] => i = j

Bytes(entries) == FoldLeft(LAMBDA sum, entry : sum + Size[entry.content], 0, entries)

\* The entries to create or replace, in the new manifest's order, and those to delete,
\* in the old one's.
Incoming(old, new) == SelectSeq(new, LAMBDA entry : entry \notin ToSet(old))
Replaced(old, new) ==
    SelectSeq(old, LAMBDA entry : \E incoming \in ToSet(Incoming(old, new)) :
                                      incoming.path = entry.path)
Dropped(old, new) == SelectSeq(old, LAMBDA entry : entry.path \notin PathsOf(new))

\* A payload may not overwrite a file that the old installation did not own.
Collides(old, new, tree) ==
    \E entry \in ToSet(Incoming(old, new)) :
        entry.path \notin PathsOf(old) /\ tree[Key[entry.path]] # NoFile

\* One volume holds the staged copy, the placed one and the backup; of two, the
\* journal's holds the staged copy and the backup.
Room(old, new, manifestBytes, free, sameVolume) ==
    LET payload == Bytes(Incoming(old, new))
        backup == Bytes(Replaced(old, new) \o Dropped(old, new)) + manifestBytes
    IN IF sameVolume THEN free.journal >= payload + payload + backup
       ELSE free.journal >= payload + backup /\ free.install >= payload

\* The staged files hold what the new manifest says of them.
StagedMatches(old, new, staged) ==
    \A entry \in ToSet(Incoming(old, new)) : staged[Key[entry.path]] = entry.content

Planned(op, entry, expected) ==
    [op |-> op, path |-> entry.path, content |-> entry.content, expected |-> expected]

ContentOf(manifest, path) ==
    (CHOOSE entry \in ToSet(manifest) : entry.path = path).content

Arriving(old, entry) ==
    IF entry.path \in PathsOf(old)
    THEN Planned("Replace", entry, ContentOf(old, entry.path))
    ELSE Planned("Create", entry, NoFile)

Leaving(entry) == Planned("Delete", Entry(entry.path, NoFile), entry.content)

\* prepare
Prepared(old, new, tree, staged, manifestBytes, free, sameVolume) ==
    IF /\ Readable(old) /\ Readable(new) /\ ~Collides(old, new, tree)
       /\ Room(old, new, manifestBytes, free, sameVolume) /\ StagedMatches(old, new, staged)
    THEN [outcome |-> "Prepared",
          plan |-> [i \in DOMAIN Incoming(old, new) |-> Arriving(old, Incoming(old, new)[i])]
                   \o [i \in DOMAIN Dropped(old, new) |-> Leaving(Dropped(old, new)[i])]]
    ELSE [outcome |-> "Rejected", plan |-> <<>>]

-----------------------------------------------------------------------------
(* What the plan should be *)

\* execute without a fault: a file that is not as its step expects stops the update.
Carried(tree, plan) ==
    FoldLeft(LAMBDA state, file :
                [ok |-> state.ok /\ state.tree[Key[file.path]] = file.expected,
                 tree |-> [state.tree EXCEPT ![Key[file.path]] = file.content]],
             [ok |-> TRUE, tree |-> tree], plan)

\* What a manifest says of a file
Said(manifest, key) ==
    LET entries == SelectSeq(manifest, LAMBDA entry : Key[entry.path] = key)
    IN IF entries = <<>> THEN NoFile ELSE Head(entries).content

\* An update that goes through leaves what the new manifest says, and what neither of
\* the manifests names as it was; and it takes no file twice.
Leads(old, tree, new, prepared) ==
    LET named == {Key[path] : path \in PathsOf(old) \cup PathsOf(new)}
        done == Carried(tree, prepared.plan)
    IN prepared.outcome = "Prepared" /\ done.ok =>
          /\ \A key \in DOMAIN tree :
                done.tree[key] = IF key \in named /\ Said(old, key) # Said(new, key)
                                 THEN Said(new, key) ELSE tree[key]
          /\ IsInjective([i \in DOMAIN prepared.plan |-> Key[prepared.plan[i].path]])

\* The installation is what the old manifest says: then every step goes through.
Intact(old, tree) == \A key \in {Key[path] : path \in PathsOf(old)} : tree[key] = Said(old, key)

\* No path changes in case only.  An intact installation is not updated if one does; in
\* one that lacks the file the plan creates it and deletes it again (Leads does not hold).
SpellingKept(old, new) ==
    \A path \in PathsOf(old), other \in PathsOf(new) : Key[path] = Key[other] => path = other
=============================================================================
