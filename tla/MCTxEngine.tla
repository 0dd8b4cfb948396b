---------------------------- MODULE MCTxEngine -----------------------------
(* Instances of TxEngine for TLC: one file to create, one to replace, one to  *)
(* delete, the registry value and the manifest, in the order that TxPlan      *)
(* makes of two manifests; and the evaluation of TxPlan over small manifests. *)
EXTENDS TxEngine, TxPlan

CONSTANTS created, replaced, deleted, manifest, version,    \* the targets
          respelt,                                          \* replaced in another case
          old, new                                          \* the contents

MCFiles == {created, replaced, deleted}
MCPaths == MCFiles \cup {respelt}
MCKey == [path \in MCPaths |-> IF path = respelt THEN replaced ELSE path]
MCSize == [content \in {old, new} |-> IF content = old THEN 1 ELSE 2]

OldManifest == <<Entry(replaced, old), Entry(deleted, old)>>
NewManifest == <<Entry(created, new), Entry(replaced, new)>>

MCOld == [t \in MCFiles \cup {manifest, version} |->
            IF t \in MCFiles THEN Said(OldManifest, t) ELSE old]

MCNew == [t \in MCFiles \cup {manifest, version} |->
            IF t \in MCFiles THEN Said(NewManifest, t) ELSE new]

Enough == [journal |-> 20, install |-> 20]
Staged(entries) == [key \in MCFiles |-> Said(entries, key)]

MCPlan ==
    LET plan == Prepared(OldManifest, NewManifest, MCOld, Staged(NewManifest),
                         1, Enough, TRUE).plan
    IN [i \in DOMAIN plan |-> plan[i].path] \o <<version, manifest>>

-----------------------------------------------------------------------------
Entries == {Entry(path, content) : path \in {created, replaced, respelt}, content \in {old, new}}
Manifests == UNION {[1..n -> Entries] : n \in 0..2}
Trees == [{created, replaced} -> {old, new, NoFile}]

\* Every plan leads to the new manifest, and an intact installation lets it.
ASSUME PlansLead ==
    \A from, to \in {some \in Manifests : Readable(some)} : \A installed \in Trees :
        LET prepared == Prepared(from, to, installed, Staged(to), 1, Enough, FALSE) IN
        /\ SpellingKept(from, to) \/ Intact(from, installed)
              => Leads(from, installed, to, prepared)
        /\ prepared.outcome = "Prepared" /\ Intact(from, installed)
              => Carried(installed, prepared.plan).ok
        /\ Intact(from, installed) /\ SpellingKept(from, to)
              /\ (\A key \in DOMAIN installed : installed[key] # NoFile => Said(from, key) # NoFile)
              => prepared.outcome = "Prepared"
=============================================================================
