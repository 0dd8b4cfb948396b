-------------------------- MODULE TxEngine_proofs --------------------------
(***************************************************************************)
(* Proofs about the transaction engine, for every pair of file sets, every *)
(* plan and every number of faults.                                        *)
(*                                                                         *)
(* Changes by other programs void what is promised of the whole tree, so   *)
(* Core and Whole are about foreign = 0.  Spared is about those changes.   *)
(***************************************************************************)
EXTENDS TxEngine, SequenceTheorems, TLAPS

(* The inductive invariant *)

Planned(t) == \E i \in DOMAIN Plan : Plan[i] = t

\* Types, and what the program counter says of the entry and of the record.
TypeInv ==
    /\ TypeOK
    /\ pc \in {"prepared", "header"} => item = 1
    /\ pc \in {"backup", "copy", "apply", "placing"} => item \in DOMAIN Plan
    /\ pc \in {"act", "restoring", "drop"} => undo > 0

Dirty(t) == tree[t] # Old[t]

ProvedBackup(t) == Record("Backup", t, Old[t])

Has(s, record) == \E i \in DOMAIN s : s[i] = record

\* A record that execute writes: a backup of the old content, an operation, after
\* its backup if it has one, or the end.
GoodRecord(s, r) ==
    \/ r = CompleteRecord
    \/ \E t \in Targets : Planned(t) /\ r = ProvedBackup(t)
    \/ \E t \in Targets :
          /\ Planned(t) /\ r = OpRecord(t)
          /\ BackedUp(t) => Has(s, ProvedBackup(t))

GoodRecords(s) == \A i \in DOMAIN s : GoodRecord(s, s[i])

\* What is no longer old is on record, in the journal.
DirtyIsJournaled ==
    \A t \in Targets : Dirty(t) =>
        Has(journal, OpRecord(t)) /\ (BackedUp(t) => backup[t] = Old[t])

\* Before and during execute: the entries before this one are done, the others
\* untouched, and the process and the disk agree on the records.
Executing ==
    pc \in {"prepared", "header"} \cup ExecutePcs =>
        /\ journal = records /\ ~torn /\ settled = None
        /\ pc \in {"prepared", "header"} => journal = <<>>
        /\ pc \in ExecutePcs => log = "open"
        /\ \A j \in DOMAIN Plan : j < item => tree[Plan[j]] = New[Plan[j]]
        /\ \A j \in DOMAIN Plan :
              j > item \/ (j = item /\ pc # "placing") => ~Dirty(Plan[j])
        /\ pc \in {"backup", "copy"} => BackedUp(Target)
        /\ pc \in {"apply", "placing"} => Has(records, OpRecord(Target))
        /\ /\ pc \in {"copy", "record", "apply", "placing"} /\ item \in DOMAIN Plan
           /\ BackedUp(Target)
           => Has(records, ProvedBackup(Target))
        /\ /\ pc \in {"record", "apply", "placing"} /\ item \in DOMAIN Plan
           /\ BackedUp(Target)
           => backup[Target] = Old[Target]

\* During undo: what is still to be undone is on record below.
Undoing ==
    pc \in UndoPcs =>
        /\ verdict \in {"RolledBack", "Conflict", "Recovered"}
        /\ \A t \in Targets : Dirty(t) => \E i \in 1..undo : records[i] = OpRecord(t)
        /\ pc = "act" => Undone.op \notin {"Backup", "Complete"} /\ Dirty(Undone.target)
        /\ pc = "restoring" =>
              /\ Undone.op \in {"Replace", "Delete"} /\ Dirty(Undone.target)
              /\ backup[Undone.target] = Old[Undone.target]
        /\ pc = "drop" => Undone.op \in {"Replace", "Delete"} /\ ~Dirty(Undone.target)

\* What was reported, and what a settled transaction looks like.
Reported ==
    /\ outcome # None => pc = "exited"
    /\ outcome = "Applied" => settled = "updated"
    /\ outcome \in {"RolledBack", "Conflict", "Recovered"} => settled = "restored"
    /\ settled = "updated" =>
          /\ tree = New /\ pc = "exited"
          /\ log = "open" /\ ~torn /\ Has(journal, CompleteRecord)
          /\ journal # <<>> /\ Last(journal) = CompleteRecord
    /\ settled = "restored" => tree = Old

\* Only a copy across volumes leaves anything but the old and the new content.
OldOrNew ==
    SameVolume => /\ pc \notin {"placing", "restoring"}
                  /\ \A t \in Targets : tree[t] \in {Old[t], New[t]}

Core ==
    /\ GoodRecords(journal) /\ GoodRecords(records)
    /\ DirtyIsJournaled /\ Executing /\ Undoing /\ Reported /\ OldOrNew

CoreInv == foreign = 0 => Core

-----------------------------------------------------------------------------
(* Lemmas about the operators of the model *)

LEMMA RecordTypes ==
    ASSUME NEW t \in Targets
    PROVE  /\ OpOf(t) \in {"Create", "Replace", "Delete", "Registry"}
           /\ Old[t] \in Values /\ New[t] \in Values
           /\ OpRecord(t) \in Records
           /\ ProvedBackup(t) \in Records
           /\ CompleteRecord \in Records
           /\ tree \in [Targets -> Values] => BackupRecord(t) \in Records
  <1>1. OpOf(t) \in {"Create", "Replace", "Delete", "Registry"}
    BY DEF OpOf
  <1>2. Old[t] \in Values /\ New[t] \in Values /\ Absent \in Values
    BY TxAssumption DEF Values
  <1>. QED BY <1>1, <1>2 DEF OpRecord, ProvedBackup, BackupRecord, CompleteRecord,
                             Record, Records

\* Appending a record keeps the records that were there, and adds only itself.
LEMMA AppendFacts ==
    ASSUME NEW s \in Seq(Records), NEW r \in Records
    PROVE  /\ Append(s, r) \in Seq(Records)
           /\ Len(s) \in Nat /\ DOMAIN s = 1..Len(s)
           /\ Len(Append(s, r)) = Len(s) + 1
           /\ DOMAIN Append(s, r) = 1..(Len(s) + 1)
           /\ \A i \in DOMAIN s : Append(s, r)[i] = s[i] /\ s[i] \in Records
           /\ Append(s, r)[Len(s) + 1] = r
  BY AppendProperties, LenProperties, ElementOfSeq

LEMMA PlanFacts ==
    /\ Len(Plan) \in Nat /\ DOMAIN Plan = 1..Len(Plan)
    /\ \A i \in DOMAIN Plan : Plan[i] \in Targets
  BY PlanAssumption, LenProperties, ElementOfSeq

-----------------------------------------------------------------------------
(* Type correctness *)

\* What a write of a record does to the variables it assigns.
LEMMA AppendTypes ==
    ASSUME TypeOK, NEW r \in Records, NEW next, AppendRecord(r, next)
    PROVE  /\ journal' \in Seq(Records) /\ records' \in Seq(Records)
           /\ torn' \in BOOLEAN
           /\ undo' \in 0..Len(records')
           /\ verdict' \in Outcomes \cup {None}
           /\ faults' \in 0..MaxFaults
           /\ pc' = next \/ pc' = "check"
  <1>. USE DEF TypeOK
  <1>1. CASE /\ journal' = Append(journal, r) /\ records' = Append(records, r)
             /\ pc' = next /\ UNCHANGED <<torn, undo, verdict, faults>>
    BY <1>1, AppendFacts
  <1>2. CASE /\ Fault("append") /\ LeavesBehind(r) /\ RollBack("RolledBack")
             /\ UNCHANGED records
    <2>1. journal' \in Seq(Records) /\ torn' \in BOOLEAN
      BY <1>2, AppendFacts DEF LeavesBehind
    <2>2. Len(records) \in Nat
      BY LenProperties
    <2>. QED BY <1>2, <2>1, <2>2, TxAssumption DEF Fault, RollBack, Outcomes
  <1>. QED BY <1>1, <1>2 DEF AppendRecord

LEMMA StartTypes ==
    ASSUME NEW i
    PROVE  /\ StartOf(i) \in {"backup", "record"}
           /\ StartOf(i) = "backup" => i \in DOMAIN Plan /\ BackedUp(Plan[i])
           /\ StartOf(i) = "record" => ~(i \in DOMAIN Plan /\ BackedUp(Plan[i]))
  BY DEF StartOf

LEMMA TypeInit == Init => TypeInv
  <1>1. <<>> \in Seq(Records) /\ Len(<<>>) = 0
    OBVIOUS
  <1>2. Old \in [Targets -> Values] /\ [t \in Targets |-> Absent] \in [Targets -> Values]
    BY TxAssumption DEF Values
  <1>3. 1 \in 1..(Len(Plan) + 1) /\ 0 \in 0..MaxFaults /\ 0 \in 0..MaxForeign
    BY PlanFacts, TxAssumption
  <1>. SUFFICES ASSUME Init PROVE TypeInv
    OBVIOUS
  <1>4. tree \in [Targets -> Values] /\ backup \in [Targets -> Values]
    BY <1>2 DEF Init
  <1>5. journal \in Seq(Records) /\ records \in Seq(Records) /\ undo \in 0..Len(records)
    BY <1>1 DEF Init
  <1>. QED BY <1>3, <1>4, <1>5 DEF Init, TypeInv, TypeOK

LEMMA TypeStep == TypeInv /\ [Next]_vars => TypeInv'
  <1>. SUFFICES ASSUME TypeInv, [Next]_vars PROVE TypeInv'
    OBVIOUS
  <1>. USE DEF TypeInv, TypeOK, ExecutePcs, UndoPcs, journalVars
  <1>0. /\ Len(records) \in Nat /\ item \in Nat /\ undo \in Nat
        /\ Len(Plan) \in Nat /\ DOMAIN Plan = 1..Len(Plan)
        /\ item \in DOMAIN Plan => item + 1 \in 1..(Len(Plan) + 1)
    BY PlanFacts, LenProperties
  <1>1. CASE OpenJournal
    BY <1>1, TxAssumption DEF OpenJournal, Fault, Exit, Outcomes
  <1>2. CASE WriteHeader
    BY <1>2, StartTypes, TxAssumption DEF WriteHeader, Fault, Exit, Outcomes
  <1>3. CASE JournalBackup
    <2>1. BackupRecord(Target) \in Records
      BY <1>3, PlanFacts, RecordTypes DEF JournalBackup, Target
    <2>. QED BY <1>3, <2>1, AppendTypes DEF JournalBackup
  <1>4. CASE CopyBackup
    <2>1. /\ backup' \in [Targets -> Values]
          /\ pc' \in {"record", "check"}
          /\ undo' \in 0..Len(records) /\ verdict' \in Outcomes \cup {None}
          /\ faults' \in 0..MaxFaults
          /\ UNCHANGED <<tree, journalVars, item, records, outcome, settled, foreign>>
      <3>1. pc = "copy" /\ item \in DOMAIN Plan /\ MaxFaults \in Nat
        BY <1>4, TxAssumption DEF CopyBackup
      <3>2. backup' \in [Targets -> Values]
        BY <1>4, <3>1, PlanFacts DEF CopyBackup, Target
      <3>. QED BY <1>0, <1>4, <3>1, <3>2 DEF CopyBackup, RollBack, Fault, Outcomes
    <2>. QED BY <2>1
  <1>5. CASE JournalOperation
    <2>1. OpRecord(Target) \in Records
      BY <1>5, PlanFacts, RecordTypes DEF JournalOperation, Target
    <2>. QED BY <1>5, <2>1, AppendTypes DEF JournalOperation
  <1>6. CASE Apply
    <2>1. Target \in Targets /\ New[Target] \in Values /\ Partial \in Values
      BY <1>6, PlanFacts, RecordTypes DEF Apply, Target, Values
    <2>2. /\ tree' \in [Targets -> Values]
          /\ \/ Applied
             \/ /\ pc' = "placing" /\ UNCHANGED <<item, undo, verdict, faults>>
             \/ /\ RollBack("RolledBack") /\ UNCHANGED item
                /\ UNCHANGED faults \/ Fault("effect")
          /\ UNCHANGED <<backup, journalVars, records, outcome, settled, foreign>>
      BY <1>6, <2>1 DEF Apply
    <2>. QED BY <1>0, <1>6, <2>2, StartTypes, TxAssumption
             DEF Apply, Applied, RollBack, Fault, Outcomes
  <1>7. CASE FinishPlacing
    <2>1. Target \in Targets /\ New[Target] \in Values /\ Absent \in Values
      BY <1>7, PlanFacts, RecordTypes DEF FinishPlacing, Target, Values
    <2>2. /\ tree' \in [Targets -> Values]
          /\ \/ Applied
             \/ RollBack("RolledBack") /\ UNCHANGED item /\ Fault("effect")
          /\ UNCHANGED <<backup, journalVars, records, outcome, settled, foreign>>
      BY <1>7, <2>1 DEF FinishPlacing
    <2>. QED BY <1>0, <1>7, <2>2, StartTypes, TxAssumption
             DEF FinishPlacing, Applied, RollBack, Fault, Outcomes
  <1>8. CASE Complete
    <2>1. CompleteRecord \in Records
      BY TxAssumption DEF CompleteRecord, Record, Records, Values
    <2>. QED BY <1>8, <2>1, AppendTypes DEF Complete, Outcomes
  <1>9. CASE UndoCheck
    BY <1>0, <1>9, TxAssumption DEF UndoCheck, NextUndo, Refuse, Exit, Fault, Outcomes
  <1>10. CASE UndoAct
    <2>1. tree' \in [Targets -> Values]
      <3>1. Undone \in Records
        BY <1>0, <1>10, LenProperties, ElementOfSeq DEF UndoAct, Undone
      <3>2. Undone.sha \in Values /\ Absent \in Values /\ Partial \in Values
        BY <3>1 DEF Records, Values
      <3>. QED BY <1>10, <3>2 DEF UndoAct
    <2>. QED BY <1>0, <1>10, <2>1, TxAssumption
             DEF UndoAct, NextUndo, Refuse, Exit, Fault, Outcomes
  <1>11. CASE FinishRestoring
    <2>1. tree' \in [Targets -> Values]
      BY <1>11 DEF FinishRestoring, Values
    <2>. QED BY <1>0, <1>11, <2>1, TxAssumption
             DEF FinishRestoring, Refuse, Exit, Fault, Outcomes
  <1>12. CASE UndoDrop
    <2>1. backup' \in [Targets -> Values]
      BY <1>12 DEF UndoDrop, Values
    <2>. QED BY <1>0, <1>12, <2>1 DEF UndoDrop, NextUndo
  <1>13. CASE UndoDone
    BY <1>0, <1>13 DEF UndoDone, Exit
  <1>14. CASE Recover
    <2>1. Len(journal) \in Nat
      BY LenProperties
    <2>2. UNCHANGED faults \/ faults' \in 0..MaxFaults
      BY <1>14, TxAssumption DEF Recover, RecheckFails, ReplayFails, Fault
    <2>. QED BY <1>14, <2>1, <2>2
             DEF Recover, RecheckFails, ReplayFails, Exit, Outcomes
  <1>15. CASE Kill
    <2>1. pc \in {"backup", "copy"} => Target \in Targets
      BY PlanFacts DEF Target
    <2>2. /\ journal' \in Seq(Records) /\ torn' \in BOOLEAN
          /\ backup' \in [Targets -> Values]
      <3>1. CASE pc = "backup"
        BY <1>15, <2>1, <3>1, RecordTypes, AppendFacts DEF Kill, LeavesBehind
      <3>2. CASE pc = "record"
        <4>1. (IF item \in DOMAIN Plan THEN OpRecord(Target) ELSE CompleteRecord)
                  \in Records
          BY PlanFacts, RecordTypes, TxAssumption
          DEF Target, CompleteRecord, Record, Records, Values
        <4>. QED BY <1>15, <3>2, <4>1, AppendFacts, ZenonT(60) DEF Kill, LeavesBehind
      <3>3. CASE pc = "copy"
        BY <1>15, <3>3 DEF Kill, Values
      <3>4. CASE pc \notin {"backup", "record", "copy"}
        BY <1>15, <3>4 DEF Kill
      <3>. QED BY <3>1, <3>2, <3>3, <3>4
    <2>3. /\ UNCHANGED <<tree, log, item, records, undo, verdict, outcome, settled, foreign>>
          /\ pc' = "killed" /\ faults' \in 0..MaxFaults
      BY <1>15, TxAssumption DEF Kill, Fault
    <2>. QED BY <2>2, <2>3
  <1>16. CASE Foreign
    <2>1. tree' \in [Targets -> Values]
      BY <1>16 DEF Foreign, Values
    <2>. QED BY <1>16, <2>1, TxAssumption DEF Foreign
  <1>17. CASE UNCHANGED vars
    BY <1>17 DEF vars
  <1>. QED BY <1>1, <1>2, <1>3, <1>4, <1>5, <1>6, <1>7, <1>8, <1>9, <1>10, <1>11,
              <1>12, <1>13, <1>14, <1>15, <1>16, <1>17 DEF Next, Execute, Undo

LEMMA TypeInvariant == Spec => []TypeInv
  BY TypeInit, TypeStep, PTL DEF Spec

\* Every variable keeps its type, whatever is killed, fails or is written by others.
THEOREM TypeCorrect == Spec => []TypeOK
  <1>1. TypeInv => TypeOK
    BY DEF TypeInv
  <1>. QED BY <1>1, TypeInvariant, PTL

-----------------------------------------------------------------------------
(* Lemmas about the records *)

\* What the record of an operation says of its target, and that it is nobody else's.
LEMMA OpFacts ==
    ASSUME NEW t \in Targets
    PROVE  /\ OpRecord(t).target = t /\ OpRecord(t).op = OpOf(t)
           /\ OpOf(t) \in {"Create", "Replace", "Delete", "Registry"}
           /\ OpOf(t) = "Create" => Old[t] = Absent /\ OpRecord(t).sha = New[t]
           /\ OpOf(t) = "Replace" => Old[t] # Absent /\ OpRecord(t).sha = New[t]
           /\ OpOf(t) = "Delete" =>
                 Old[t] # Absent /\ New[t] = Absent /\ OpRecord(t).sha = Old[t]
           /\ OpOf(t) = "Registry" => OpRecord(t).sha = Old[t]
           /\ BackedUp(t) <=> OpOf(t) \in {"Replace", "Delete"}
           /\ \A u \in Targets : OpRecord(t) = OpRecord(u) => t = u
           /\ \A u \in Targets : OpRecord(t) # ProvedBackup(u)
           /\ OpRecord(t) # CompleteRecord
           /\ Old[t] \notin {Partial, Alien} /\ New[t] \notin {Partial, Alien}
  <1>1. \A u \in Targets : /\ OpOf(u) \in {"Create", "Replace", "Delete", "Registry"}
                           /\ OpRecord(u).target = u /\ OpRecord(u).op = OpOf(u)
    BY DEF OpRecord, Record, OpOf
  <1>2. /\ \A u \in Targets : OpRecord(t) # ProvedBackup(u)
        /\ OpRecord(t) # CompleteRecord
    BY <1>1 DEF ProvedBackup, CompleteRecord, Record
  <1>3. Old[t] \notin {Partial, Alien} /\ New[t] \notin {Partial, Alien}
    BY TxAssumption
  <1>4. OpRecord(t).sha =
          IF OpOf(t) \in {"Create", "Replace"} THEN New[t] ELSE Old[t]
    BY DEF OpRecord, Record
  <1>5. /\ OpOf(t) = "Create" => Old[t] = Absent
        /\ OpOf(t) \in {"Replace", "Delete"} => Old[t] # Absent
        /\ OpOf(t) = "Delete" => New[t] = Absent
    BY DEF OpOf
  <1>. QED BY <1>1, <1>2, <1>3, <1>4, <1>5 DEF BackedUp

\* A good record can be added to good records.
LEMMA GoodAppend ==
    ASSUME NEW s \in Seq(Records), NEW r \in Records,
           GoodRecords(s), GoodRecord(s, r)
    PROVE  /\ GoodRecords(Append(s, r))
           /\ \A q : Has(s, q) => Has(Append(s, r), q)
           /\ Has(Append(s, r), r)
  <1>1. \A q : Has(s, q) => Has(Append(s, r), q)
    BY AppendFacts DEF Has
  <1>2. Has(Append(s, r), r)
    BY AppendFacts DEF Has
  <1>3. \A q : GoodRecord(s, q) => GoodRecord(Append(s, r), q)
    BY <1>1 DEF GoodRecord
  <1>4. ASSUME NEW i \in DOMAIN Append(s, r)
        PROVE  GoodRecord(Append(s, r), Append(s, r)[i])
    <2>1. i \in DOMAIN s \/ i = Len(s) + 1
      BY AppendFacts
    <2>2. CASE i \in DOMAIN s
      BY <1>3, <2>2, AppendFacts DEF GoodRecords
    <2>3. CASE i = Len(s) + 1
      BY <1>3, <2>3, AppendFacts
    <2>. QED BY <2>1, <2>2, <2>3
  <1>. QED BY <1>1, <1>2, <1>4 DEF GoodRecords

\* A record that is neither a backup nor the end is that of its target.
LEMMA GoodOperation ==
    ASSUME NEW s \in Seq(Records), GoodRecords(s), NEW i \in DOMAIN s,
           s[i].op \notin {"Backup", "Complete"}
    PROVE  /\ s[i].target \in Targets /\ Planned(s[i].target)
           /\ s[i] = OpRecord(s[i].target)
           /\ BackedUp(s[i].target) => Has(s, ProvedBackup(s[i].target))
  <1>1. GoodRecord(s, s[i])
    BY DEF GoodRecords
  <1>2. s[i] # CompleteRecord
    BY DEF CompleteRecord, Record
  <1>3. \A t \in Targets : s[i] # ProvedBackup(t)
    BY DEF ProvedBackup, Record
  <1>4. PICK t \in Targets : /\ Planned(t) /\ s[i] = OpRecord(t)
                             /\ BackedUp(t) => Has(s, ProvedBackup(t))
    BY <1>1, <1>2, <1>3 DEF GoodRecord
  <1>. QED BY <1>4, OpFacts

\* A record of an operation is among good ones only if its target is planned.
LEMMA GoodPlanned ==
    ASSUME NEW s \in Seq(Records), GoodRecords(s), NEW t \in Targets,
           Has(s, OpRecord(t))
    PROVE  Planned(t) /\ (BackedUp(t) => Has(s, ProvedBackup(t)))
  <1>1. PICK i \in DOMAIN s : s[i] = OpRecord(t)
    BY DEF Has
  <1>2. s[i].op \notin {"Backup", "Complete"} /\ s[i].target = t
    BY <1>1, OpFacts
  <1>. QED BY <1>2, GoodOperation

\* The old content that undoRecord looks up is the old content.
LEMMA OldContentIs ==
    ASSUME records \in Seq(Records), GoodRecords(records), NEW i \in DOMAIN records,
           records[i].op \in {"Replace", "Delete"}
    PROVE  /\ OldContent(records[i]) = Old[records[i].target]
           /\ BackupsOf(records[i].target) # {}
  <1>. DEFINE t == records[i].target
  <1>1. /\ t \in Targets /\ records[i] = OpRecord(t)
        /\ BackedUp(t) => Has(records, ProvedBackup(t))
    BY GoodOperation
  <1>2. OpOf(t) = records[i].op /\ BackedUp(t)
    BY <1>1, OpFacts
  <1>3. BackupsOf(t) # {}
    BY <1>1, <1>2 DEF Has, BackupsOf, ProvedBackup, Record
  <1>4. ASSUME NEW k \in BackupsOf(t) PROVE records[k].sha = Old[t]
    <2>1. k \in DOMAIN records /\ records[k].op = "Backup" /\ records[k].target = t
      BY DEF BackupsOf
    <2>2. GoodRecord(records, records[k])
      BY <2>1 DEF GoodRecords
    <2>3. records[k] # CompleteRecord
      BY <2>1 DEF CompleteRecord, Record
    <2>4. \A u \in Targets : records[k] # OpRecord(u)
      BY <2>1, OpFacts
    <2>5. PICK u \in Targets : records[k] = ProvedBackup(u)
      BY <2>2, <2>3, <2>4 DEF GoodRecord
    <2>. QED BY <2>1, <2>5 DEF ProvedBackup, Record
  <1>5. CASE records[i].op = "Replace"
    <2>. DEFINE k == CHOOSE j \in BackupsOf(t) : TRUE
    <2>1. k \in BackupsOf(t)
      BY <1>3
    <2>2. OldContent(records[i]) = records[k].sha
      BY <1>5 DEF OldContent
    <2>. HIDE DEF k
    <2>. QED BY <1>4, <2>1, <2>2
  <1>6. CASE records[i].op = "Delete"
    BY <1>1, <1>2, <1>3, <1>6, OpFacts DEF OldContent
  <1>. QED BY <1>3, <1>5, <1>6

-----------------------------------------------------------------------------
(* The invariant is inductive: the start, and the steps of execute *)

LEMMA CoreInit == Init => CoreInv
  <1>. SUFFICES ASSUME Init PROVE Core
    BY DEF CoreInv
  <1>1. GoodRecords(<<>>)
    BY DEF GoodRecords
  <1>2. \A t \in Targets : ~Dirty(t)
    BY DEF Init, Dirty
  <1>3. \A j \in DOMAIN Plan : ~(j < 1) /\ ~Dirty(Plan[j])
    BY <1>2, PlanFacts
  <1>4. /\ pc = "prepared" /\ item = 1 /\ journal = <<>> /\ records = <<>>
        /\ ~torn /\ settled = None
    BY DEF Init
  <1>5. Executing
    BY <1>3, <1>4 DEF Executing, ExecutePcs
  <1>. QED BY <1>1, <1>2, <1>5, TxAssumption
           DEF Outcomes, Init, Core, DirtyIsJournaled, Undoing, UndoPcs, Reported, OldOrNew, Dirty

\* The entry that execute works on.
LEMMA TargetFacts ==
    ASSUME TypeInv, Core, pc \in ExecutePcs, item \in DOMAIN Plan
    PROVE  /\ Target \in Targets /\ Planned(Target)
           /\ pc # "placing" => tree[Target] = Old[Target]
           /\ \A j \in DOMAIN Plan : j # item => Plan[j] # Target
  <1>1. Target \in Targets /\ Planned(Target)
    BY PlanFacts DEF Target, Planned
  <1>2. pc # "placing" => tree[Target] = Old[Target]
    BY DEF Core, Executing, Dirty, Target
  <1>3. \A j \in DOMAIN Plan : j # item => Plan[j] # Target
    BY PlanAssumption DEF Target
  <1>. QED BY <1>1, <1>2, <1>3

\* A write that fails leaves good records, and all that were there.
LEMMA LeavesGood ==
    ASSUME TypeInv, GoodRecords(journal), NEW r \in Records, GoodRecord(journal, r),
           LeavesBehind(r)
    PROVE  /\ GoodRecords(journal')
           /\ \A q : Has(journal, q) => Has(journal', q)
  <1>1. journal' = journal \/ journal' = Append(journal, r)
    BY DEF LeavesBehind
  <1>2. journal \in Seq(Records)
    BY DEF TypeInv, TypeOK
  <1>. QED BY <1>1, <1>2, GoodAppend

\* A failing step of execute leaves all that is not old on record.
LEMMA RollBackGood ==
    ASSUME TypeInv, Core, pc \in ExecutePcs,
           NEW result \in {"RolledBack", "Conflict"}, RollBack(result),
           GoodRecords(journal'), \A q : Has(journal, q) => Has(journal', q),
           UNCHANGED <<records, outcome, settled>>,
           \A t \in Targets : tree'[t] # Old[t] =>
               Has(journal, OpRecord(t)) /\ (BackedUp(t) => backup'[t] = Old[t]),
           SameVolume => \A t \in Targets : tree'[t] \in {Old[t], New[t]}
    PROVE  Core'
  <1>1. journal = records /\ settled = None /\ outcome = None
    BY DEF Core, Executing, Reported, ExecutePcs
  <1>2. records \in Seq(Records) /\ Len(records) \in Nat /\ DOMAIN records = 1..Len(records)
    BY LenProperties DEF TypeInv, TypeOK
  <1>3. GoodRecords(journal') /\ GoodRecords(records')
    BY DEF Core
  <1>4. DirtyIsJournaled'
    BY DEF DirtyIsJournaled, Dirty
  <1>5. pc' = "check" /\ undo' = Len(records) /\ verdict' = result
    BY DEF RollBack
  <1>6. Executing'
    BY <1>5 DEF Executing, ExecutePcs
  <1>7. ASSUME NEW t \in Targets, tree'[t] # Old[t]
        PROVE  \E i \in 1..undo' : records'[i] = OpRecord(t)
    BY <1>1, <1>2, <1>5, <1>7 DEF Has
  <1>8. Undoing'
    BY <1>5, <1>7 DEF Undoing, Dirty
  <1>9. Reported'
    BY <1>1, TxAssumption DEF Reported, Outcomes
  <1>10. OldOrNew'
    BY <1>5 DEF OldOrNew
  <1>. QED BY <1>3, <1>4, <1>6, <1>8, <1>9, <1>10 DEF Core

LEMMA CoreOpen ==
    ASSUME TypeInv, Core, OpenJournal \/ WriteHeader
    PROVE  Core'
  <1>1. /\ pc \in {"prepared", "header"} /\ item = 1
        /\ journal = records /\ journal = <<>> /\ ~torn /\ settled = None /\ outcome = None
    BY DEF OpenJournal, WriteHeader, TypeInv, Core, Executing, Reported
  <1>2. \A t \in Targets : tree[t] = Old[t]
    BY <1>1 DEF Core, DirtyIsJournaled, Dirty, Has
  <1>3. UNCHANGED <<tree, backup, journal, torn, item, records>>
    BY DEF OpenJournal, WriteHeader
  <1>4. /\ pc' \in {"header", "backup", "record", "exited"}
        /\ pc' \in {"backup", "record"} => log' = "open" /\ pc' = StartOf(1)
        /\ pc' = "exited" =>
              \/ outcome' = "Rejected" /\ settled' = None
              \/ outcome' = "RolledBack" /\ settled' = "restored"
        /\ pc' # "exited" => outcome' = None /\ settled' = None
    BY <1>1, StartTypes DEF OpenJournal, WriteHeader, Exit
  <1>5. GoodRecords(journal') /\ GoodRecords(records')
    BY <1>3 DEF Core
  <1>6. DirtyIsJournaled'
    BY <1>2, <1>3 DEF DirtyIsJournaled, Dirty
  <1>7. Executing'
    <2>1. \A j \in DOMAIN Plan : ~(j < 1) /\ ~Dirty(Plan[j])'
      BY <1>2, <1>3, PlanFacts DEF Dirty
    <2>2. pc' \in {"backup", "record"} =>
              /\ pc' = "backup" => BackedUp(Plan[1])
              /\ pc' = "record" => ~(1 \in DOMAIN Plan /\ BackedUp(Plan[1]))
      BY <1>4, StartTypes
    <2>. QED BY <2>2, <1>1, <1>3, <1>4, <2>1, StartTypes DEF Executing, ExecutePcs, Target
  <1>8. Undoing'
    BY <1>4 DEF Undoing, UndoPcs
  <1>9. tree' = Old
    BY <1>2, <1>3, TxAssumption DEF TypeInv, TypeOK
  <1>10. Reported'
    BY <1>1, <1>3, <1>4, <1>9, TxAssumption DEF Reported, Outcomes
  <1>11. OldOrNew'
    BY <1>3, <1>4 DEF Core, OldOrNew
  <1>. QED BY <1>5, <1>6, <1>7, <1>8, <1>10, <1>11 DEF Core

\* What a write of a good record does in execute, done or failed.
LEMMA AppendGood ==
    ASSUME TypeInv, Core, pc \in {"backup", "record"},
           NEW r \in Records, GoodRecord(journal, r), NEW next, AppendRecord(r, next),
           UNCHANGED <<tree, backup>>
    PROVE  /\ GoodRecords(journal') /\ DirtyIsJournaled'
           /\ \/ /\ records' = journal' /\ journal' = Append(journal, r)
                 /\ Has(journal', r) /\ \A q : Has(journal, q) => Has(journal', q)
                 /\ pc' = next /\ UNCHANGED torn
              \/ pc' = "check" /\ (UNCHANGED <<outcome, settled>> => Core')
  <1>1. journal = records /\ GoodRecords(journal) /\ DirtyIsJournaled /\ OldOrNew
    BY DEF Core, Executing, ExecutePcs
  <1>2. journal \in Seq(Records)
    BY DEF TypeInv, TypeOK
  <1>3. CASE journal' = Append(journal, r) /\ records' = Append(records, r)
             /\ pc' = next /\ UNCHANGED <<torn, undo, verdict, faults>>
    <2>1. /\ GoodRecords(journal') /\ Has(journal', r)
          /\ \A q : Has(journal, q) => Has(journal', q)
      BY <1>1, <1>2, <1>3, GoodAppend
    <2>. QED BY <1>1, <1>3, <2>1 DEF DirtyIsJournaled, Dirty
  <1>4. CASE LeavesBehind(r) /\ RollBack("RolledBack") /\ UNCHANGED records
    <2>1. GoodRecords(journal') /\ \A q : Has(journal, q) => Has(journal', q)
      BY <1>1, <1>4, LeavesGood
    <2>2. DirtyIsJournaled'
      BY <1>1, <2>1 DEF DirtyIsJournaled, Dirty
    <2>3. UNCHANGED <<outcome, settled>> => Core'
      BY <1>1, <1>4, <2>1, RollBackGood DEF DirtyIsJournaled, Dirty, OldOrNew, ExecutePcs
    <2>4. pc' = "check"
      BY <1>4 DEF RollBack
    <2>. QED BY <2>1, <2>2, <2>3, <2>4
  <1>. QED BY <1>3, <1>4 DEF AppendRecord

LEMMA CoreJournalBackup ==
    ASSUME TypeInv, Core, JournalBackup
    PROVE  Core'
  <1>1. /\ pc = "backup" /\ item \in DOMAIN Plan
        /\ AppendRecord(BackupRecord(Target), "copy")
        /\ UNCHANGED <<tree, backup, log, item, outcome, settled, foreign>>
    BY DEF JournalBackup, TypeInv
  <1>2. /\ Target \in Targets /\ Planned(Target) /\ tree[Target] = Old[Target]
        /\ BackedUp(Target)
    BY <1>1, TargetFacts DEF ExecutePcs, Core, Executing
  <1>3. BackupRecord(Target) = ProvedBackup(Target)
    BY <1>2 DEF BackupRecord, ProvedBackup
  <1>4. ProvedBackup(Target) \in Records /\ GoodRecord(journal, ProvedBackup(Target))
    BY <1>2, RecordTypes DEF GoodRecord
  <1>5. /\ GoodRecords(journal') /\ DirtyIsJournaled'
        /\ \/ /\ records' = journal' /\ Has(journal', ProvedBackup(Target))
              /\ pc' = "copy" /\ UNCHANGED torn
           \/ Core'
    BY <1>1, <1>3, <1>4, AppendGood
  <1>6. CASE /\ records' = journal' /\ Has(journal', ProvedBackup(Target))
             /\ pc' = "copy" /\ UNCHANGED torn
    <2>1. Executing'
      BY <1>1, <1>2, <1>6 DEF Core, Executing, ExecutePcs, Target, Dirty
    <2>2. Undoing' /\ Reported'
      BY <1>1, <1>6, TxAssumption
      DEF Core, Executing, ExecutePcs, Undoing, UndoPcs, Reported, Outcomes
    <2>3. OldOrNew'
      BY <1>1, <1>6 DEF Core, OldOrNew
    <2>. QED BY <1>5, <1>6, <2>1, <2>2, <2>3 DEF Core
  <1>. QED BY <1>5, <1>6

LEMMA CoreCopyBackup ==
    ASSUME TypeInv, Core, CopyBackup
    PROVE  Core'
  <1>1. /\ pc = "copy" /\ item \in DOMAIN Plan
        /\ UNCHANGED <<tree, journalVars, item, records, outcome, settled, foreign>>
    BY DEF CopyBackup, TypeInv
  <1>2. /\ Target \in Targets /\ tree[Target] = Old[Target]
        /\ BackedUp(Target) /\ Has(records, ProvedBackup(Target))
        /\ journal = records /\ settled = None /\ outcome = None
    BY <1>1, TargetFacts DEF ExecutePcs, Core, Executing, Reported
  <1>3. \A t \in Targets : t # Target => backup'[t] = backup[t]
    BY <1>2 DEF CopyBackup, TypeInv, TypeOK
  <1>4. \A t \in Targets : tree[t] # Old[t] =>
            Has(journal, OpRecord(t)) /\ (BackedUp(t) => backup'[t] = Old[t])
    BY <1>2, <1>3 DEF Core, DirtyIsJournaled, Dirty
  <1>5. CASE pc' = "record" /\ backup' = [backup EXCEPT ![Target] = tree[Target]]
    <2>1. backup'[Target] = Old[Target]
      BY <1>2, <1>5 DEF TypeInv, TypeOK
    <2>2. Executing'
      BY <1>1, <1>2, <1>5, <2>1
      DEF Core, Executing, ExecutePcs, Target, Dirty, journalVars
    <2>3. Undoing' /\ Reported'
      BY <1>1, <1>2, <1>5, TxAssumption
      DEF Undoing, UndoPcs, Reported, Outcomes
    <2>4. OldOrNew' /\ DirtyIsJournaled'
      BY <1>1, <1>4, <1>5 DEF Core, OldOrNew, DirtyIsJournaled, Dirty, journalVars
    <2>. QED BY <1>1, <2>2, <2>3, <2>4 DEF Core, journalVars
  <1>6. CASE \E result \in {"RolledBack", "Conflict"} : RollBack(result)
    BY <1>1, <1>4, <1>6, RollBackGood DEF Core, OldOrNew, ExecutePcs, journalVars
  <1>. QED BY <1>5, <1>6 DEF CopyBackup

LEMMA CoreJournalOperation ==
    ASSUME TypeInv, Core, JournalOperation
    PROVE  Core'
  <1>1. /\ pc = "record" /\ item \in DOMAIN Plan
        /\ AppendRecord(OpRecord(Target), "apply")
        /\ UNCHANGED <<tree, backup, log, item, outcome, settled, foreign>>
    BY DEF JournalOperation
  <1>2. /\ Target \in Targets /\ Planned(Target) /\ tree[Target] = Old[Target]
        /\ journal = records
        /\ BackedUp(Target) => Has(records, ProvedBackup(Target))
    BY <1>1, TargetFacts DEF ExecutePcs, Core, Executing
  <1>3. OpRecord(Target) \in Records /\ GoodRecord(journal, OpRecord(Target))
    BY <1>2, RecordTypes DEF GoodRecord
  <1>4. /\ GoodRecords(journal') /\ DirtyIsJournaled'
        /\ \/ /\ records' = journal' /\ Has(journal', OpRecord(Target))
              /\ \A q : Has(journal, q) => Has(journal', q)
              /\ pc' = "apply" /\ UNCHANGED torn
           \/ Core'
    BY <1>1, <1>3, AppendGood
  <1>5. CASE /\ records' = journal' /\ Has(journal', OpRecord(Target))
             /\ \A q : Has(journal, q) => Has(journal', q)
             /\ pc' = "apply" /\ UNCHANGED torn
    <2>1. Executing'
      BY <1>1, <1>2, <1>5 DEF Core, Executing, ExecutePcs, Target, Dirty
    <2>2. Undoing' /\ Reported'
      BY <1>1, <1>5, TxAssumption
      DEF Core, Executing, ExecutePcs, Undoing, UndoPcs, Reported, Outcomes
    <2>3. OldOrNew'
      BY <1>1, <1>5 DEF Core, OldOrNew
    <2>. QED BY <1>4, <1>5, <2>1, <2>2, <2>3 DEF Core
  <1>. QED BY <1>4, <1>5

\* The entry is done, and execute goes on with the next one.
LEMMA AppliedGood ==
    ASSUME TypeInv, Core, pc \in {"apply", "placing"}, item \in DOMAIN Plan,
           tree' = [tree EXCEPT ![Target] = New[Target]], Applied,
           UNCHANGED <<backup, journalVars, records, outcome, settled, foreign>>
    PROVE  Core'
  <1>1. /\ Target \in Targets /\ \A j \in DOMAIN Plan : j # item => Plan[j] # Target
        /\ journal = records /\ settled = None /\ outcome = None
        /\ Has(journal, OpRecord(Target))
        /\ BackedUp(Target) => backup[Target] = Old[Target]
        /\ log = "open" /\ ~torn
    BY TargetFacts DEF ExecutePcs, Core, Executing, Reported
  <1>2. /\ tree'[Target] = New[Target]
        /\ \A t \in Targets : t # Target => tree'[t] = tree[t]
    BY <1>1 DEF TypeInv, TypeOK
  <1>3. DirtyIsJournaled'
    BY <1>1, <1>2 DEF Core, DirtyIsJournaled, Dirty, journalVars
  <1>4. pc' \in {"backup", "record"} /\ item' = item + 1
    BY StartTypes DEF Applied
  <1>5. /\ item \in Nat /\ \A j \in DOMAIN Plan : j \in Nat /\ Plan[j] \in Targets
    BY PlanFacts
  <1>6. \A j \in DOMAIN Plan : j < item + 1 => tree'[Plan[j]] = New[Plan[j]]
    <2>1. \A j \in DOMAIN Plan : j < item => tree[Plan[j]] = New[Plan[j]]
      BY DEF Core, Executing, ExecutePcs
    <2>2. \A j \in DOMAIN Plan : j < item + 1 => j < item \/ j = item
      BY <1>5
    <2>3. Plan[item] = Target
      BY DEF Target
    <2>. QED BY <1>1, <1>2, <1>5, <2>1, <2>2, <2>3
  <1>7. \A j \in DOMAIN Plan : j > item => tree'[Plan[j]] = Old[Plan[j]]
    <2>1. \A j \in DOMAIN Plan : j > item => tree[Plan[j]] = Old[Plan[j]]
      BY DEF Core, Executing, ExecutePcs, Dirty
    <2>. QED BY <1>1, <1>2, <1>5, <2>1
  <1>8. Executing'
    <2>1. /\ pc' = "backup" => BackedUp(Plan[item + 1])
          /\ pc' = "record" => ~(item + 1 \in DOMAIN Plan /\ BackedUp(Plan[item + 1]))
      BY <1>4, StartTypes DEF Applied
    <2>2. \A j \in DOMAIN Plan : (j > item + 1 \/ j = item + 1) => j > item
      BY <1>5
    <2>. QED BY <1>1, <1>4, <1>6, <1>7, <2>1, <2>2
             DEF Executing, ExecutePcs, Target, Dirty, journalVars
  <1>9. Undoing' /\ Reported'
    BY <1>1, <1>4, TxAssumption DEF Undoing, UndoPcs, Reported, Outcomes
  <1>10. OldOrNew'
    BY <1>2, <1>4 DEF Core, OldOrNew
  <1>. QED BY <1>3, <1>8, <1>9, <1>10 DEF Core, journalVars

LEMMA CoreApply ==
    ASSUME TypeInv, Core, Apply \/ FinishPlacing
    PROVE  Core'
  <1>1. /\ pc \in {"apply", "placing"} /\ item \in DOMAIN Plan
        /\ UNCHANGED <<backup, journalVars, records, outcome, settled, foreign>>
    BY DEF Apply, FinishPlacing, TypeInv
  <1>2. /\ Target \in Targets /\ \A j \in DOMAIN Plan : j # item => Plan[j] # Target
        /\ journal = records /\ settled = None /\ outcome = None
        /\ Has(journal, OpRecord(Target))
        /\ BackedUp(Target) => backup[Target] = Old[Target]
    BY <1>1, TargetFacts DEF ExecutePcs, Core, Executing, Reported
  <1>3. CASE tree' = [tree EXCEPT ![Target] = New[Target]] /\ Applied
    BY <1>1, <1>3, AppliedGood
  <1>4. CASE /\ pc = "apply" /\ ~SameVolume
             /\ tree' = [tree EXCEPT ![Target] = Partial]
             /\ pc' = "placing" /\ UNCHANGED <<item, undo, verdict, faults>>
    <2>1. \A t \in Targets : t # Target => tree'[t] = tree[t]
      BY <1>2, <1>4 DEF TypeInv, TypeOK
    <2>2. DirtyIsJournaled'
      BY <1>1, <1>2, <2>1 DEF Core, DirtyIsJournaled, Dirty, journalVars
    <2>3. \A j \in DOMAIN Plan : j # item => tree'[Plan[j]] = tree[Plan[j]]
      BY <1>2, <2>1, PlanFacts
    <2>4. item \in Nat /\ \A j \in DOMAIN Plan : j \in Nat
      BY <1>1, PlanFacts
    <2>5. Executing'
      BY <1>1, <1>2, <1>4, <2>3, <2>4
      DEF Core, Executing, ExecutePcs, Target, Dirty, journalVars
    <2>6. Undoing' /\ Reported' /\ OldOrNew'
      BY <1>1, <1>2, <1>4, TxAssumption DEF Undoing, UndoPcs, Reported, Outcomes, OldOrNew
    <2>. QED BY <1>1, <2>2, <2>5, <2>6 DEF Core, journalVars
  <1>5. CASE /\ RollBack("RolledBack")
             /\ \/ UNCHANGED tree
                \/ pc = "placing" /\ tree' = [tree EXCEPT ![Target] = Absent]
    <2>1. \A t \in Targets : tree'[t] # Old[t] =>
              Has(journal, OpRecord(t)) /\ (BackedUp(t) => backup'[t] = Old[t])
      BY <1>1, <1>2, <1>5 DEF Core, DirtyIsJournaled, Dirty, TypeInv, TypeOK
    <2>2. SameVolume => \A t \in Targets : tree'[t] \in {Old[t], New[t]}
      BY <1>5 DEF Core, OldOrNew
    <2>. QED BY <1>1, <1>5, <2>1, <2>2, RollBackGood DEF Core, ExecutePcs, journalVars
  <1>. QED BY <1>1, <1>3, <1>4, <1>5 DEF Apply, FinishPlacing

\* After the last entry of the plan the tree is the new one.
LEMMA AllDone ==
    ASSUME TypeInv, Core, pc = "record", item \notin DOMAIN Plan
    PROVE  tree = New
  <1>1. journal = records
    BY DEF Core, Executing, ExecutePcs
  <1>2. \A t \in Targets : Planned(t) => tree[t] = New[t]
    <2>1. \A j \in DOMAIN Plan : j < item
      BY PlanFacts DEF TypeInv, TypeOK
    <2>. QED BY <2>1 DEF Planned, Core, Executing, ExecutePcs
  <1>3. ASSUME NEW t \in Targets, ~Planned(t) PROVE tree[t] = New[t]
    <2>1. Old[t] = New[t]
      BY <1>3, PlanAssumption DEF Planned, Targets
    <2>2. ~Has(journal, OpRecord(t))
      BY <1>1, <1>3, GoodPlanned DEF Core, TypeInv, TypeOK
    <2>. QED BY <2>1, <2>2 DEF Core, DirtyIsJournaled, Dirty
  <1>. QED BY <1>2, <1>3, TxAssumption DEF TypeInv, TypeOK

LEMMA CoreComplete ==
    ASSUME TypeInv, Core, Complete
    PROVE  Core'
  <1>1. /\ pc = "record" /\ item \notin DOMAIN Plan
        /\ AppendRecord(CompleteRecord, "exited")
        /\ UNCHANGED <<tree, backup, log, item, foreign>>
    BY DEF Complete
  <1>2. /\ journal = records /\ log = "open" /\ ~torn /\ settled = None /\ outcome = None
        /\ journal \in Seq(Records)
    BY <1>1 DEF TypeInv, TypeOK, Core, Executing, ExecutePcs, Reported
  <1>3. tree = New
    BY <1>1, AllDone
  <1>4. CompleteRecord \in Records /\ GoodRecord(journal, CompleteRecord)
    BY DEF CompleteRecord, Record, Records, Values, GoodRecord
  <1>5. /\ GoodRecords(journal') /\ DirtyIsJournaled'
        /\ \/ /\ records' = journal' /\ journal' = Append(journal, CompleteRecord)
              /\ pc' = "exited" /\ UNCHANGED torn
           \/ pc' = "check" /\ (UNCHANGED <<outcome, settled>> => Core')
    BY <1>1, <1>4, AppendGood
  <1>6. CASE /\ pc' = "exited"
             /\ records' = journal' /\ journal' = Append(journal, CompleteRecord)
             /\ UNCHANGED torn
    <2>1. outcome' = "Applied" /\ settled' = "updated"
      BY <1>6 DEF Complete
    <2>2. journal' # <<>> /\ Last(journal') = CompleteRecord /\ Has(journal', CompleteRecord)
      BY <1>2, <1>4, <1>6, AppendFacts DEF Last, Has
    <2>3. Executing' /\ Undoing'
      BY <1>6 DEF Executing, ExecutePcs, Undoing, UndoPcs
    <2>4. Reported'
      BY <1>1, <1>2, <1>3, <1>6, <2>1, <2>2 DEF Reported
    <2>5. OldOrNew'
      BY <1>1, <1>6 DEF Core, OldOrNew
    <2>. QED BY <1>5, <1>6, <2>3, <2>4, <2>5 DEF Core
  <1>7. CASE pc' = "check" /\ UNCHANGED <<outcome, settled>>
    BY <1>5, <1>7
  <1>. QED BY <1>5, <1>6, <1>7 DEF Complete

-----------------------------------------------------------------------------
(* The steps of undo *)

\* The record that is undone, and what is to become of its target.
LEMMA UndoneFacts ==
    ASSUME TypeInv, Core, pc \in UndoPcs, undo > 0
    PROVE  /\ undo \in DOMAIN records /\ Undone = records[undo]
           /\ Undone.op \notin {"Backup", "Complete"} =>
                 /\ Undone.target \in Targets /\ Undone = OpRecord(Undone.target)
                 /\ Undone.op = OpOf(Undone.target)
           /\ Undone.op \in {"Replace", "Delete"} =>
                 /\ OldContent(Undone) = Old[Undone.target]
                 /\ BackupsOf(Undone.target) # {}
  <1>1. records \in Seq(Records) /\ undo \in DOMAIN records
    BY LenProperties DEF TypeInv, TypeOK
  <1>2. Undone.op \notin {"Backup", "Complete"} =>
            Undone.target \in Targets /\ Undone = OpRecord(Undone.target)
    BY <1>1, GoodOperation DEF Undone, Core
  <1>3. Undone.op \in {"Replace", "Delete"} =>
            /\ OldContent(Undone) = Old[Undone.target]
            /\ BackupsOf(Undone.target) # {}
    BY <1>1, OldContentIs DEF Undone, Core
  <1>4. Undone.op \notin {"Backup", "Complete"} => Undone.op = OpOf(Undone.target)
    BY <1>2, OpFacts
  <1>. QED BY <1>1, <1>2, <1>3, <1>4 DEF Undone

\* undoRecord refuses nothing on one volume, acts only on what is not old, and passes over or drops
\* the backup of what is old.
LEMMA VerdictFacts ==
    ASSUME TypeInv, Core, pc \in UndoPcs, undo > 0,
           NEW next, next = UndoVerdict(Undone, tree[Undone.target])
    PROVE  /\ SameVolume => next # "refuse"
           /\ next \in {"act", "drop", "skip", "refuse"}
           /\ next = "act" =>
                 Undone.op \notin {"Backup", "Complete"} /\ Dirty(Undone.target)
           /\ next = "drop" =>
                 Undone.op \in {"Replace", "Delete"} /\ ~Dirty(Undone.target)
           /\ next = "skip" /\ Undone.op \notin {"Backup", "Complete"} =>
                 ~Dirty(Undone.target)
  <1>. DEFINE t == Undone.target
              now == tree[t]
  <1>1. CASE Undone.op \in {"Backup", "Complete"}
    BY <1>1 DEF UndoVerdict
  <1>2. CASE Undone.op \notin {"Backup", "Complete"}
    <2>1. /\ t \in Targets /\ Undone = OpRecord(t) /\ Undone.op = OpOf(t)
          /\ Undone.op \in {"Create", "Replace", "Delete", "Registry"}
      BY <1>2, UndoneFacts, OpFacts
    <2>2. /\ SameVolume => now \in {Old[t], New[t]}
          /\ Old[t] = now <=> ~Dirty(t)
      BY <2>1 DEF Core, OldOrNew, Dirty
    <2>3. CASE Undone.op = "Registry"
      <3>1. Undone.sha = Old[t]
        BY <2>1, <2>3, OpFacts
      <3>2. next = IF now = Undone.sha THEN "skip" ELSE "act"
        BY <2>3 DEF UndoVerdict
      <3>. QED BY <2>2, <2>3, <3>1, <3>2
    <2>4. CASE Undone.op = "Create"
      <3>1. Undone.sha = New[t] /\ Old[t] = Absent
        BY <2>1, <2>4, OpFacts
      <3>2. next = IF now = Absent THEN "skip"
                   ELSE IF now = Undone.sha THEN "act" ELSE "refuse"
        BY <2>4 DEF UndoVerdict
      <3>. QED BY <2>2, <2>4, <3>1, <3>2
    <2>5. CASE Undone.op = "Delete"
      <3>1. Undone.sha = Old[t] /\ New[t] = Absent /\ Old[t] # Absent
        BY <2>1, <2>5, OpFacts
      <3>2. next = IF now = Absent THEN "act"
                   ELSE IF now = Undone.sha THEN "drop" ELSE "refuse"
        BY <2>5 DEF UndoVerdict
      <3>. QED BY <2>2, <2>5, <3>1, <3>2
    <2>6. CASE Undone.op = "Replace"
      <3>1. Undone.sha = New[t] /\ OldContent(Undone) = Old[t] /\ BackupsOf(t) # {}
        BY <2>1, <2>6, OpFacts, UndoneFacts
      <3>2. next = IF BackupsOf(t) = {} THEN "refuse"
                   ELSE IF now = OldContent(Undone) THEN "drop"
                   ELSE IF now = Absent \/ now = Undone.sha THEN "act" ELSE "refuse"
        BY <2>6 DEF UndoVerdict
      <3>. QED BY <2>2, <2>6, <3>1, <3>2
    <2>. QED BY <2>1, <2>3, <2>4, <2>5, <2>6
  <1>. QED BY <1>1, <1>2

\* A refusal leaves all that is not old on record.
LEMMA RefuseGood ==
    ASSUME TypeInv, Core, pc \in UndoPcs, Refuse,
           UNCHANGED <<backup, journalVars, item, records, settled>>,
           \A t \in Targets : tree'[t] # Old[t] => Dirty(t),
           settled = "restored" => tree' = Old,
           SameVolume => \A t \in Targets : tree'[t] \in {Old[t], New[t]}
    PROVE  Core'
  <1>1. /\ pc' = "exited" /\ outcome' \in {"RecoveryFailed", "NeedsAuthorizedRecovery"}
        /\ settled # "updated"
    BY DEF Refuse, Exit, Core, Reported, UndoPcs
  <1>2. DirtyIsJournaled' /\ GoodRecords(journal') /\ GoodRecords(records')
    BY DEF Core, DirtyIsJournaled, Dirty, journalVars
  <1>3. Executing' /\ Undoing' /\ Reported' /\ OldOrNew'
    BY <1>1 DEF Executing, ExecutePcs, Undoing, UndoPcs, Reported, OldOrNew
  <1>. QED BY <1>2, <1>3 DEF Core

\* Going on to the next record is right once the target of this one is old.
LEMMA NextUndoGood ==
    ASSUME TypeInv, Core, pc \in UndoPcs, undo > 0, NextUndo,
           UNCHANGED <<journalVars, item, records, verdict, outcome, settled>>,
           \A t \in Targets : tree'[t] # Old[t] =>
               Dirty(t) /\ OpRecord(t) # Undone /\ backup'[t] = backup[t],
           settled = "restored" => tree' = Old,
           SameVolume => \A t \in Targets : tree'[t] \in {Old[t], New[t]}
    PROVE  Core'
  <1>1. /\ pc' = "check" /\ undo' = undo - 1 /\ undo \in Nat
        /\ outcome = None /\ settled # "updated"
    BY DEF NextUndo, Core, Reported, UndoPcs, TypeInv, TypeOK
  <1>2. DirtyIsJournaled' /\ GoodRecords(journal') /\ GoodRecords(records')
    BY DEF Core, DirtyIsJournaled, Dirty, journalVars
  <1>3. ASSUME NEW t \in Targets, tree'[t] # Old[t]
        PROVE  \E i \in 1..undo' : records'[i] = OpRecord(t)
    <2>1. PICK i \in 1..undo : records[i] = OpRecord(t)
      BY <1>3 DEF Core, Undoing
    <2>2. i # undo
      BY <1>3, <2>1 DEF Undone
    <2>. QED BY <1>1, <2>1, <2>2
  <1>4. Undoing'
    BY <1>1, <1>3 DEF Core, Undoing, Dirty
  <1>5. Executing' /\ Reported' /\ OldOrNew'
    BY <1>1, TxAssumption DEF Executing, ExecutePcs, Reported, OldOrNew, Outcomes
  <1>. QED BY <1>2, <1>4, <1>5 DEF Core

LEMMA CoreUndoCheck ==
    ASSUME TypeInv, Core, UndoCheck
    PROVE  Core'
  <1>. DEFINE next == UndoVerdict(Undone, tree[Undone.target])
  <1>1. /\ pc = "check" /\ undo > 0 /\ pc \in UndoPcs
        /\ UNCHANGED <<tree, backup, journalVars, item, records, verdict, settled, foreign>>
    BY DEF UndoCheck, UndoPcs
  <1>2. /\ next \in {"act", "drop", "skip", "refuse"}
        /\ next = "act" =>
              Undone.op \notin {"Backup", "Complete"} /\ Dirty(Undone.target)
        /\ next = "drop" =>
              Undone.op \in {"Replace", "Delete"} /\ ~Dirty(Undone.target)
        /\ next = "skip" /\ Undone.op \notin {"Backup", "Complete"} =>
              ~Dirty(Undone.target)
    BY <1>1, VerdictFacts
  <1>. HIDE DEF next
  <1>3. SameVolume => \A t \in Targets : tree'[t] \in {Old[t], New[t]}
    BY <1>1 DEF Core, OldOrNew
  <1>4. settled = "restored" => tree' = Old
    BY <1>1 DEF Core, Reported
  <1>5. CASE Refuse
    BY <1>1, <1>3, <1>4, <1>5, RefuseGood DEF Dirty
  <1>6. CASE next = "skip" /\ NextUndo /\ UNCHANGED <<outcome, faults>>
    <2>1. ASSUME NEW t \in Targets, tree'[t] # Old[t]
          PROVE  Dirty(t) /\ OpRecord(t) # Undone
      <3>1. Dirty(t)
        BY <1>1, <2>1 DEF Dirty
      <3>2. CASE OpRecord(t) = Undone
        BY <1>2, <1>6, <3>1, <3>2, OpFacts
      <3>. QED BY <3>1, <3>2
    <2>. QED BY <1>1, <1>3, <1>4, <1>6, <2>1, NextUndoGood
  <1>7. CASE /\ next \in {"act", "drop"} /\ pc' = next
             /\ UNCHANGED <<undo, outcome, faults>>
    <2>1. Undone' = Undone
      BY <1>1, <1>7 DEF Undone
    <2>2. DirtyIsJournaled' /\ GoodRecords(journal') /\ GoodRecords(records')
      BY <1>1 DEF Core, DirtyIsJournaled, Dirty, journalVars
    <2>3. Undoing'
      <3>1. \A t \in Targets : Dirty(t)' => \E i \in 1..undo' : records'[i] = OpRecord(t)
        BY <1>1, <1>7 DEF Core, Undoing, Dirty
      <3>2. /\ verdict' \in {"RolledBack", "Conflict", "Recovered"}
        BY <1>1 DEF Core, Undoing
      <3>. QED BY <1>1, <1>2, <1>7, <2>1, <3>1, <3>2 DEF Undoing, Dirty
    <2>4. Executing' /\ OldOrNew'
      BY <1>3, <1>7 DEF Executing, ExecutePcs, OldOrNew
    <2>5. Reported'
      BY <1>1, <1>7, TxAssumption DEF Core, Reported, Outcomes
    <2>. QED BY <2>2, <2>3, <2>4, <2>5 DEF Core
  <1>. QED BY <1>2, <1>5, <1>6, <1>7 DEF UndoCheck, next

LEMMA CoreUndoAct ==
    ASSUME TypeInv, Core, UndoAct
    PROVE  Core'
  <1>. DEFINE t == Undone.target
  <1>1. /\ pc = "act" /\ undo > 0 /\ pc \in UndoPcs
        /\ UNCHANGED <<backup, journalVars, item, records, verdict, settled, foreign>>
    BY DEF UndoAct, UndoPcs, TypeInv
  <1>2. /\ Undone.op \notin {"Backup", "Complete"} /\ Dirty(t)
        /\ t \in Targets /\ Undone = OpRecord(t) /\ Undone.op = OpOf(t)
        /\ Undone.op \in {"Replace", "Delete"} => OldContent(Undone) = Old[t]
    BY <1>1, UndoneFacts DEF Core, Undoing
  <1>3. settled = None
    BY <1>1, <1>2 DEF Core, Reported, Dirty, TypeInv, TypeOK
  <1>4. /\ SameVolume => \A u \in Targets : tree[u] \in {Old[u], New[u]}
        /\ settled # "restored"
    BY <1>3, TxAssumption DEF Core, OldOrNew
  <1>5. CASE Refuse /\ UNCHANGED tree
    BY <1>1, <1>4, <1>5, RefuseGood DEF Dirty
  <1>6. CASE /\ Undone.op \notin {"Replace", "Delete"}
             /\ tree' = [tree EXCEPT ![t] =
                           IF Undone.op = "Create" THEN Absent ELSE Undone.sha]
             /\ NextUndo /\ UNCHANGED <<outcome, faults>>
    <2>1. (IF Undone.op = "Create" THEN Absent ELSE Undone.sha) = Old[t]
      BY <1>2, <1>6, OpFacts
    <2>2. tree' = [tree EXCEPT ![t] = Old[t]]
      BY <1>6, <2>1
    <2>3. /\ tree'[t] = Old[t]
          /\ \A u \in Targets : u # t => tree'[u] = tree[u]
      BY <1>2, <2>2 DEF TypeInv, TypeOK
    <2>4. ASSUME NEW u \in Targets, tree'[u] # Old[u]
          PROVE  Dirty(u) /\ OpRecord(u) # Undone
      BY <1>2, <2>3, <2>4, OpFacts DEF Dirty
    <2>5. SameVolume => \A u \in Targets : tree'[u] \in {Old[u], New[u]}
      BY <1>4, <2>3
    <2>. QED BY <1>1, <1>4, <1>6, <2>4, <2>5, NextUndoGood
  <1>7. CASE /\ Undone.op \in {"Replace", "Delete"} /\ backup[t] = OldContent(Undone)
             /\ IF SameVolume THEN tree' = [tree EXCEPT ![t] = backup[t]] /\ pc' = "drop"
                              ELSE tree' = [tree EXCEPT ![t] = Partial] /\ pc' = "restoring"
             /\ UNCHANGED <<undo, outcome, faults>>
    <2>1. backup[t] = Old[t]
      BY <1>2, <1>7
    <2>2. /\ \A u \in Targets : u # t => tree'[u] = tree[u]
          /\ SameVolume => pc' = "drop" /\ tree'[t] = Old[t]
          /\ ~SameVolume => pc' = "restoring" /\ tree'[t] = Partial
      BY <1>2, <1>7, <2>1 DEF TypeInv, TypeOK
    <2>3. Partial # Old[t]
      BY <1>2, OpFacts
    <2>4. Undone' = Undone
      BY <1>1, <1>7 DEF Undone
    <2>5. DirtyIsJournaled' /\ GoodRecords(journal') /\ GoodRecords(records')
      BY <1>1, <1>2, <2>2 DEF Core, DirtyIsJournaled, Dirty, journalVars
    <2>6. Undoing'
      <3>1. ASSUME NEW u \in Targets, Dirty(u)'
            PROVE  \E i \in 1..undo' : records'[i] = OpRecord(u)
        <4>1. Dirty(u)
          BY <1>2, <2>2, <3>1 DEF Dirty
        <4>. QED BY <1>1, <1>7, <4>1 DEF Core, Undoing
      <3>2. verdict' \in {"RolledBack", "Conflict", "Recovered"}
        BY <1>1 DEF Core, Undoing
      <3>. QED BY <1>1, <1>2, <1>7, <2>1, <2>2, <2>3, <2>4, <3>1, <3>2
               DEF Undoing, Dirty
    <2>7. Executing' /\ OldOrNew'
      BY <1>4, <2>2 DEF Executing, ExecutePcs, OldOrNew
    <2>8. Reported'
      BY <1>1, <1>3, <1>7, TxAssumption DEF Core, Reported, Outcomes
    <2>. QED BY <2>5, <2>6, <2>7, <2>8 DEF Core
  <1>. QED BY <1>5, <1>6, <1>7 DEF UndoAct

LEMMA CoreFinishRestoring ==
    ASSUME TypeInv, Core, FinishRestoring
    PROVE  Core'
  <1>. DEFINE t == Undone.target
  <1>1. /\ pc = "restoring" /\ undo > 0 /\ pc \in UndoPcs /\ ~SameVolume
        /\ UNCHANGED <<backup, journalVars, item, records, verdict, settled, foreign>>
    BY DEF FinishRestoring, UndoPcs, TypeInv, Core, OldOrNew
  <1>2. /\ Undone.op \in {"Replace", "Delete"} /\ Dirty(t) /\ backup[t] = Old[t]
        /\ t \in Targets
    BY <1>1, UndoneFacts DEF Core, Undoing
  <1>3. settled = None /\ settled # "restored"
    BY <1>1, <1>2, TxAssumption DEF Core, Reported, Dirty, TypeInv, TypeOK
  <1>4. CASE Refuse /\ tree' = [tree EXCEPT ![t] = Absent]
    <2>1. \A u \in Targets : u # t => tree'[u] = tree[u]
      BY <1>4 DEF TypeInv, TypeOK
    <2>. QED BY <1>1, <1>2, <1>3, <1>4, <2>1, RefuseGood DEF Dirty
  <1>5. CASE /\ tree' = [tree EXCEPT ![t] = backup[t]] /\ pc' = "drop"
             /\ UNCHANGED <<undo, outcome, faults>>
    <2>1. tree'[t] = Old[t] /\ \A u \in Targets : u # t => tree'[u] = tree[u]
      BY <1>2, <1>5 DEF TypeInv, TypeOK
    <2>2. Undone' = Undone
      BY <1>1, <1>5 DEF Undone
    <2>3. DirtyIsJournaled' /\ GoodRecords(journal') /\ GoodRecords(records')
      BY <1>1, <1>2, <2>1 DEF Core, DirtyIsJournaled, Dirty, journalVars
    <2>4. Undoing'
      <3>1. ASSUME NEW u \in Targets, Dirty(u)'
            PROVE  \E i \in 1..undo' : records'[i] = OpRecord(u)
        <4>1. Dirty(u)
          BY <1>2, <2>1, <3>1 DEF Dirty
        <4>. QED BY <1>1, <1>5, <4>1 DEF Core, Undoing
      <3>2. verdict' \in {"RolledBack", "Conflict", "Recovered"}
        BY <1>1 DEF Core, Undoing
      <3>. QED BY <1>2, <1>5, <2>1, <2>2, <3>1, <3>2 DEF Undoing, Dirty
    <2>5. Executing' /\ OldOrNew'
      BY <1>1, <1>5 DEF Executing, ExecutePcs, OldOrNew
    <2>6. Reported'
      BY <1>1, <1>3, <1>5, TxAssumption DEF Core, Reported, Outcomes
    <2>. QED BY <2>3, <2>4, <2>5, <2>6 DEF Core
  <1>. QED BY <1>4, <1>5 DEF FinishRestoring

LEMMA CoreUndoDrop ==
    ASSUME TypeInv, Core, UndoDrop
    PROVE  Core'
  <1>. DEFINE t == Undone.target
  <1>1. /\ pc = "drop" /\ undo > 0 /\ pc \in UndoPcs
        /\ backup' = [backup EXCEPT ![t] = Absent] /\ NextUndo
        /\ UNCHANGED <<tree, journalVars, item, records, verdict, outcome, settled, foreign>>
    BY DEF UndoDrop, UndoPcs, TypeInv
  <1>2. ~Dirty(t) /\ Undone.target \in Targets
    BY <1>1, UndoneFacts DEF Core, Undoing
  <1>3. \A u \in Targets : u # t => backup'[u] = backup[u]
    BY <1>1 DEF TypeInv, TypeOK
  <1>4. ASSUME NEW u \in Targets, tree'[u] # Old[u]
        PROVE  Dirty(u) /\ OpRecord(u) # Undone /\ backup'[u] = backup[u]
    BY <1>1, <1>2, <1>3, <1>4, OpFacts DEF Dirty
  <1>5. SameVolume => \A u \in Targets : tree'[u] \in {Old[u], New[u]}
    BY <1>1 DEF Core, OldOrNew
  <1>. QED BY <1>1, <1>4, <1>5, NextUndoGood DEF Core, Reported

LEMMA CoreUndoDone ==
    ASSUME TypeInv, Core, UndoDone
    PROVE  Core'
  <1>1. /\ pc = "check" /\ undo = 0 /\ pc' = "exited" /\ outcome' = verdict
        /\ settled' = IF settled = None THEN "restored" ELSE settled
        /\ UNCHANGED <<tree, backup, journalVars, item, records, undo, verdict>>
    BY DEF UndoDone, Exit
  <1>2. verdict \in {"RolledBack", "Conflict", "Recovered"} /\ settled # "updated"
    BY <1>1 DEF Core, Undoing, UndoPcs, Reported
  <1>3. tree = Old
    BY <1>1, TxAssumption DEF Core, Undoing, UndoPcs, Dirty, TypeInv, TypeOK
  <1>4. settled' = "restored"
    BY <1>1, <1>2 DEF TypeInv, TypeOK
  <1>5. DirtyIsJournaled' /\ GoodRecords(journal') /\ GoodRecords(records')
    BY <1>1 DEF Core, DirtyIsJournaled, Dirty, journalVars
  <1>6. Executing' /\ Undoing' /\ Reported' /\ OldOrNew'
    BY <1>1, <1>2, <1>3, <1>4
    DEF Core, Executing, ExecutePcs, Undoing, UndoPcs, Reported, OldOrNew
  <1>. QED BY <1>5, <1>6 DEF Core

-----------------------------------------------------------------------------
(* Recovery, and the outside world *)

LEMMA CoreRecover ==
    ASSUME TypeInv, Core, Recover
    PROVE  Core'
  <1>1. /\ pc \in {"exited", "killed"}
        /\ UNCHANGED <<tree, backup, journalVars, item, settled, foreign>>
    BY DEF Recover
  <1>2. DirtyIsJournaled' /\ GoodRecords(journal')
    BY <1>1 DEF Core, DirtyIsJournaled, Dirty, journalVars
  <1>3. SameVolume => \A t \in Targets : tree'[t] \in {Old[t], New[t]}
    BY <1>1 DEF Core, OldOrNew
  <1>4. CASE /\ pc' = "exited"
             /\ outcome' \in {"Rejected", "RecoveryFailed", "NeedsAuthorizedRecovery",
                              "NothingToRecover"}
             /\ UNCHANGED <<records, undo, verdict>>
    <2>1. Executing' /\ Undoing' /\ OldOrNew'
      BY <1>3, <1>4 DEF Executing, ExecutePcs, Undoing, UndoPcs, OldOrNew
    <2>2. Reported'
      BY <1>1, <1>4 DEF Core, Reported, journalVars
    <2>3. GoodRecords(records')
      BY <1>4 DEF Core
    <2>. QED BY <1>2, <2>1, <2>2, <2>3 DEF Core
  <1>5. CASE /\ ~Corrupt /\ ~NothingJournaled
             /\ records' = journal /\ undo' = Len(journal)
             /\ pc' = "check" /\ verdict' = "Recovered" /\ outcome' = None
    <2>1. DOMAIN journal = 1..Len(journal)
      BY LenProperties DEF TypeInv, TypeOK
    <2>2. settled # "updated"
      BY <1>5 DEF Core, Reported, NothingJournaled
    <2>3. \A t \in Targets : Dirty(t)' => \E i \in 1..undo' : records'[i] = OpRecord(t)
      BY <1>1, <1>5, <2>1 DEF Core, DirtyIsJournaled, Dirty, Has
    <2>4. Executing' /\ Undoing' /\ OldOrNew'
      BY <1>3, <1>5, <2>3 DEF Executing, ExecutePcs, Undoing, UndoPcs, OldOrNew
    <2>5. Reported'
      BY <1>1, <1>5, <2>2, TxAssumption DEF Core, Reported, Outcomes
    <2>6. GoodRecords(records')
      BY <1>5 DEF Core
    <2>. QED BY <1>2, <2>4, <2>5, <2>6 DEF Core
  <1>. QED BY <1>4, <1>5 DEF Recover, RecheckFails, ReplayFails, Exit

LEMMA CoreKill ==
    ASSUME TypeInv, Core, Kill
    PROVE  Core'
  <1>1. /\ Running /\ pc' = "killed"
        /\ UNCHANGED <<tree, log, item, records, undo, verdict, outcome, settled, foreign>>
    BY DEF Kill
  <1>2. outcome = None /\ settled # "updated"
    BY <1>1 DEF Core, Reported, Running, ExecutePcs, UndoPcs
  <1>3. /\ GoodRecords(journal')
        /\ \A q : Has(journal, q) => Has(journal', q)
        /\ \A t \in Targets : Dirty(t) => backup'[t] = backup[t]
    <2>1. CASE pc = "backup"
      <3>1. /\ Target \in Targets /\ Planned(Target) /\ tree[Target] = Old[Target]
        BY <2>1, TargetFacts DEF TypeInv, ExecutePcs
      <3>2. BackupRecord(Target) = ProvedBackup(Target)
        BY <3>1 DEF BackupRecord, ProvedBackup
      <3>3. ProvedBackup(Target) \in Records /\ GoodRecord(journal, ProvedBackup(Target))
        BY <3>1, RecordTypes DEF GoodRecord
      <3>4. LeavesBehind(ProvedBackup(Target)) /\ UNCHANGED backup
        BY <2>1, <3>2 DEF Kill
      <3>. QED BY <3>3, <3>4, LeavesGood DEF Core
    <2>2. CASE pc = "record" /\ item \in DOMAIN Plan
      <3>1. /\ Target \in Targets /\ Planned(Target) /\ journal = records
            /\ BackedUp(Target) => Has(records, ProvedBackup(Target))
        BY <2>2, TargetFacts DEF ExecutePcs, Core, Executing
      <3>2. OpRecord(Target) \in Records /\ GoodRecord(journal, OpRecord(Target))
        BY <3>1, RecordTypes DEF GoodRecord
      <3>3. LeavesBehind(OpRecord(Target)) /\ UNCHANGED backup
        BY <2>2 DEF Kill
      <3>. QED BY <3>2, <3>3, LeavesGood DEF Core
    <2>3. CASE pc = "record" /\ item \notin DOMAIN Plan
      <3>1. CompleteRecord \in Records /\ GoodRecord(journal, CompleteRecord)
        BY DEF CompleteRecord, Record, Records, Values, GoodRecord
      <3>2. LeavesBehind(CompleteRecord) /\ UNCHANGED backup
        BY <2>3 DEF Kill
      <3>. QED BY <3>1, <3>2, LeavesGood DEF Core
    <2>4. CASE pc = "copy"
      <3>1. Target \in Targets /\ tree[Target] = Old[Target]
        BY <2>4, TargetFacts DEF TypeInv, ExecutePcs
      <3>2. /\ backup' \in {backup, [backup EXCEPT ![Target] = Partial]}
            /\ UNCHANGED journal
        BY <2>4 DEF Kill
      <3>. QED BY <3>1, <3>2 DEF Core, Dirty, TypeInv, TypeOK
    <2>5. CASE pc \notin {"backup", "record", "copy"}
      BY <2>5 DEF Kill, Core
    <2>. QED BY <2>1, <2>2, <2>3, <2>4, <2>5
  <1>4. DirtyIsJournaled' /\ GoodRecords(records')
    BY <1>1, <1>3 DEF Core, DirtyIsJournaled, Dirty
  <1>5. Executing' /\ Undoing' /\ OldOrNew'
    BY <1>1 DEF Core, Executing, ExecutePcs, Undoing, UndoPcs, OldOrNew
  <1>6. Reported'
    BY <1>1, <1>2, TxAssumption DEF Core, Reported, Outcomes
  <1>. QED BY <1>3, <1>4, <1>5, <1>6 DEF Core

LEMMA CoreStep == TypeInv /\ CoreInv /\ [Next]_vars => CoreInv'
  <1>. SUFFICES ASSUME TypeInv, CoreInv, [Next]_vars, foreign' = 0 PROVE Core'
    BY DEF CoreInv
  <1>1. foreign = 0 /\ ~Foreign
    <2>1. ~Foreign /\ foreign \in Nat
      BY DEF Foreign, TypeInv, TypeOK
    <2>2. UNCHANGED foreign
      BY <2>1 DEF Next, Execute, Undo, vars, OpenJournal, WriteHeader, JournalBackup,
                  CopyBackup, JournalOperation, Apply, FinishPlacing, Complete,
                  UndoCheck, UndoAct, FinishRestoring, UndoDrop, UndoDone, Recover, Kill
    <2>. QED BY <2>1, <2>2
  <1>2. Core
    BY <1>1 DEF CoreInv
  <1>3. CASE Execute
    BY <1>2, <1>3, CoreOpen, CoreJournalBackup, CoreCopyBackup, CoreJournalOperation,
       CoreApply, CoreComplete DEF Execute
  <1>4. CASE Undo
    BY <1>2, <1>4, CoreUndoCheck, CoreUndoAct, CoreFinishRestoring, CoreUndoDrop,
       CoreUndoDone DEF Undo
  <1>5. CASE Recover \/ Kill
    BY <1>2, <1>5, CoreRecover, CoreKill
  <1>6. CASE UNCHANGED vars
    <2>1. UNCHANGED <<tree, backup, journalVars, pc, item, records, undo, verdict,
                      outcome, settled>>
      BY <1>6 DEF vars, journalVars
    <2>2. DirtyIsJournaled' /\ GoodRecords(journal') /\ GoodRecords(records')
      BY <1>2, <2>1 DEF Core, DirtyIsJournaled, Dirty, journalVars
    <2>3. Executing'
      BY <1>2, <2>1 DEF Core, Executing, Dirty, Target, journalVars
    <2>4. Undoing'
      BY <1>2, <2>1 DEF Core, Undoing, Dirty, Undone, journalVars
    <2>5. Reported' /\ OldOrNew'
      BY <1>2, <2>1 DEF Core, Reported, OldOrNew, journalVars
    <2>. QED BY <2>2, <2>3, <2>4, <2>5 DEF Core
  <1>. QED BY <1>1, <1>3, <1>4, <1>5, <1>6 DEF Next

LEMMA CoreInvariant == Spec => [](TypeInv /\ CoreInv)
  BY TypeInvariant, CoreInit, CoreStep, PTL DEF Spec

-----------------------------------------------------------------------------
(* What the transaction promises *)

\* An outcome is the truth about the tree: the invariant says of each outcome what
\* is settled, and of what is settled what the tree is.  A Rejected says of the tree only
\* what the journal says: that it was never touched, where nothing is journaled.
THEOREM OutcomesAreTrue == Spec => []OutcomeTruthful
  <1>1. TypeInv /\ CoreInv => OutcomeTruthful
    <2>. SUFFICES ASSUME TypeInv, Core PROVE
              /\ outcome = "Applied" => tree = New
              /\ outcome \in {"RolledBack", "Conflict", "Recovered"} => tree = Old
              /\ outcome = "Rejected" /\ journal = <<>> => tree = Old
      BY DEF CoreInv, OutcomeTruthful
    <2>1. journal = <<>> => tree = Old
      <3>1. journal = <<>> => \A t \in Targets : tree[t] = Old[t]
        BY DEF Core, DirtyIsJournaled, Dirty, Has
      <3>. QED BY <3>1, TxAssumption DEF TypeInv, TypeOK
    <2>. QED BY <2>1 DEF Core, Reported
  <1>. QED BY <1>1, CoreInvariant, PTL

\* Journal first: a kill at any point leaves everything restorable.
THEOREM AlwaysRestorable == Spec => []Restorable
  <1>1. TypeInv /\ CoreInv => Restorable
    BY DEF CoreInv, Core, DirtyIsJournaled, Dirty, Has, Restorable
  <1>. QED BY <1>1, CoreInvariant, PTL

\* On one volume no undo is refused, by the process itself or by any later recovery,
\* whatever was killed or failed before.
THEOREM NeverRefusedOnOneVolume ==
    ASSUME SameVolume
    PROVE  Spec => []UndoNeverRefused
  <1>1. TypeInv /\ CoreInv => UndoNeverRefused
    <2>. SUFFICES ASSUME TypeInv, Core, foreign = 0 PROVE UndoNeverRefused
      BY DEF CoreInv, UndoNeverRefused
    <2>1. ASSUME pc = "check", undo > 0
          PROVE  UndoVerdict(Undone, tree[Undone.target]) # "refuse"
      BY <2>1, VerdictFacts DEF UndoPcs
    <2>2. ASSUME pc = "act", Undone.op \in {"Replace", "Delete"}
          PROVE  backup[Undone.target] = OldContent(Undone)
      <3>1. /\ Undone.target \in Targets /\ Undone.op = OpOf(Undone.target)
            /\ OldContent(Undone) = Old[Undone.target]
        BY <2>2, UndoneFacts DEF TypeInv, UndoPcs
      <3>2. Dirty(Undone.target) /\ BackedUp(Undone.target)
        BY <2>2, <3>1 DEF Core, Undoing, UndoPcs, BackedUp
      <3>. QED BY <3>1, <3>2 DEF Core, DirtyIsJournaled
    <2>. QED BY <2>1, <2>2 DEF UndoNeverRefused
  <1>. QED BY <1>1, CoreInvariant, PTL

\* A step settles at most once, and not while it changes the tree.
LEMMA SettlingStep ==
    ASSUME TypeInv, Core, Core', [Next]_vars
    PROVE  /\ settled' = settled \/ (settled = None /\ tree' = tree)
           /\ settled # None /\ settled' = settled => tree' = tree
  <1>1. CASE UNCHANGED settled
    BY <1>1 DEF Core, Reported, TypeInv, TypeOK
  <1>2. CASE settled' # settled
    <2>1. WriteHeader \/ Complete \/ UndoDone
      BY <1>2 DEF Next, Execute, Undo, vars, OpenJournal, JournalBackup, CopyBackup,
                  JournalOperation, Apply, FinishPlacing, UndoCheck, UndoAct,
                  FinishRestoring, UndoDrop, Recover, Kill, Foreign
    <2>2. UNCHANGED tree
      BY <2>1 DEF WriteHeader, Complete, UndoDone
    <2>3. settled = None
      BY <1>2, <2>1 DEF WriteHeader, Complete, UndoDone, Core, Executing, ExecutePcs
    <2>. QED BY <1>2, <2>2, <2>3
  <1>. QED BY <1>1, <1>2

\* Settled is settled: undoing what is undone, or what was completed, is no change.
THEOREM SettledIsFinal == Spec => SettledStays
  <1>1. TypeInv /\ CoreInv /\ TypeInv' /\ CoreInv' /\ [Next]_vars
            => [settled # None /\ foreign' = 0 => tree' = tree]_vars
    <2>. SUFFICES ASSUME TypeInv, CoreInv, TypeInv', CoreInv', [Next]_vars,
                         settled # None, foreign' = 0
                  PROVE  tree' = tree
      OBVIOUS
    <2>1. Core'
      BY DEF CoreInv
    <2>2. CASE foreign = 0
      BY <2>1, <2>2, SettlingStep DEF CoreInv
    <2>3. CASE foreign # 0
      BY <2>3 DEF Next, Execute, Undo, vars, OpenJournal, WriteHeader, JournalBackup,
                  CopyBackup, JournalOperation, Apply, FinishPlacing, Complete,
                  UndoCheck, UndoAct, FinishRestoring, UndoDrop, UndoDone, Recover,
                  Kill, Foreign, TypeInv, TypeOK
    <2>. QED BY <2>2, <2>3
  <1>. QED BY <1>1, CoreInvariant, PTL DEF Spec, SettledStays

-----------------------------------------------------------------------------
(* Nothing is left half *)

\* The record of the end is the last one, and is only where the tree is new, which
\* holds as long as no append fails after its record reached the disk.
Whole ==
    /\ log = "none" => journal = <<>>
    /\ Has(journal, CompleteRecord) =>
          /\ tree = New /\ pc \in {"exited", "killed"}
          /\ Last(journal) = CompleteRecord
    /\ outcome = "NothingToRecover" => NothingJournaled

WholeInv == foreign = 0 => Whole

\* A record added to a journal is its last one, and no other is new.
LEMMA AddedRecord ==
    ASSUME NEW s \in Seq(Records), NEW r \in Records
    PROVE  /\ Last(Append(s, r)) = r
           /\ \A q : Has(Append(s, r), q) <=> Has(s, q) \/ q = r
  <1>1. Len(s) \in Nat /\ \A i \in 1..Len(s) : i # Len(s) + 1
    BY AppendFacts
  <1>2. 1..(Len(s) + 1) = 1..Len(s) \cup {Len(s) + 1}
    BY <1>1
  <1>. QED BY <1>1, <1>2, AppendFacts DEF Last, Has

\* The records of the entries are not the one of the end.
LEMMA EntryRecords ==
    ASSUME NEW t \in Targets
    PROVE  OpRecord(t) # CompleteRecord /\ BackupRecord(t) # CompleteRecord
  BY RecordTypes DEF OpRecord, BackupRecord, CompleteRecord, Record

\* While the process works there is no record of the end.
LEMMA WorkingIsOpen ==
    ASSUME Core, Whole, Running
    PROVE  ~Has(journal, CompleteRecord) /\ outcome = None
  BY DEF Core, Whole, Running, ExecutePcs, UndoPcs, Reported

LEMMA WholeExecute ==
    ASSUME "append" \notin Faults, TypeInv, Core, Whole, Execute
    PROVE  Whole'
  <1>. USE DEF TypeInv, TypeOK
  <1>1. CASE OpenJournal \/ WriteHeader
    <2>1. journal = <<>> /\ journal' = <<>> /\ outcome = None
      BY <1>1, TxAssumption DEF OpenJournal, WriteHeader, journalVars, Core, Executing, Reported
    <2>2. outcome' # "NothingToRecover"
      BY <1>1, <2>1, TxAssumption DEF OpenJournal, WriteHeader, Exit, Outcomes
    <2>. QED BY <2>1, <2>2 DEF Whole, Has
  <1>2. CASE JournalBackup \/ JournalOperation
    <2>1. /\ pc \in {"backup", "record"} /\ item \in DOMAIN Plan
          /\ UNCHANGED <<tree, log, outcome>>
      BY <1>2 DEF JournalBackup, JournalOperation
    <2>2. PICK r \in {OpRecord(Target), BackupRecord(Target)} : journal' = Append(journal, r)
      BY <1>2 DEF JournalBackup, JournalOperation, AppendRecord, Fault
    <2>3. Target \in Targets
      BY <2>1, PlanFacts DEF Target
    <2>4. r \in Records /\ r # CompleteRecord
      BY <2>2, <2>3, RecordTypes, EntryRecords
    <2>5. ~Has(journal, CompleteRecord) /\ outcome = None /\ log = "open"
      BY <2>1, WorkingIsOpen DEF Running, ExecutePcs, Core, Executing
    <2>6. ~Has(journal', CompleteRecord)
      BY <2>2, <2>4, <2>5, AddedRecord
    <2>. QED BY <2>1, <2>5, <2>6, TxAssumption DEF Whole, Outcomes
  <1>3. CASE CopyBackup \/ Apply \/ FinishPlacing
    <2>1. pc \in ExecutePcs /\ UNCHANGED <<log, journal, outcome>>
      BY <1>3 DEF CopyBackup, Apply, FinishPlacing, ExecutePcs, journalVars
    <2>2. ~Has(journal, CompleteRecord) /\ outcome = None
      BY <2>1, WorkingIsOpen DEF Running
    <2>. QED BY <2>1, <2>2, TxAssumption DEF Whole, Outcomes
  <1>4. CASE Complete
    <2>1. pc = "record" /\ item \notin DOMAIN Plan /\ UNCHANGED <<tree, log>>
      BY <1>4 DEF Complete
    <2>2. journal' = Append(journal, CompleteRecord) /\ pc' = "exited" /\ outcome' = "Applied"
      BY <1>4 DEF Complete, AppendRecord, Fault
    <2>3. tree = New /\ log = "open"
      BY <2>1, AllDone DEF Core, Executing, ExecutePcs
    <2>4. CompleteRecord \in Records
      BY DEF CompleteRecord, Record, Records, Values
    <2>. QED BY <2>1, <2>2, <2>3, <2>4, AddedRecord DEF Whole
  <1>. QED BY <1>1, <1>2, <1>3, <1>4 DEF Execute

LEMMA WholeUndo ==
    ASSUME Core, Whole, Undo
    PROVE  Whole'
  <1>1. pc \in UndoPcs /\ UNCHANGED <<log, journal>>
    BY DEF Undo, UndoCheck, UndoAct, FinishRestoring, UndoDrop, UndoDone, UndoPcs, journalVars
  <1>2. ~Has(journal, CompleteRecord) /\ outcome = None
    BY <1>1, WorkingIsOpen DEF Running
  <1>3. outcome' # "NothingToRecover"
    <2>1. verdict # "NothingToRecover"
      BY <1>1 DEF Core, Undoing
    <2>2. outcome # "NothingToRecover"
      BY <1>2, TxAssumption DEF Outcomes
    <2>. QED BY <2>1, <2>2 DEF Undo, UndoCheck, UndoAct, FinishRestoring, UndoDrop, UndoDone,
                               Refuse, Exit
  <1>. QED BY <1>1, <1>2, <1>3 DEF Whole

LEMMA WholeRecover ==
    ASSUME "hidden" \notin Faults, Core, Whole, Recover
    PROVE  Whole'
  <1>1. UNCHANGED <<tree, log, journal>>
    BY DEF Recover, journalVars
  <1>2. /\ pc' = "exited" \/ (pc' = "check" /\ ~NothingJournaled)
        /\ outcome' = "NothingToRecover" => NothingJournaled
    BY TxAssumption DEF Recover, RecheckFails, ReplayFails, Fault, Exit, Outcomes
  <1>3. Has(journal, CompleteRecord) => NothingJournaled
    BY DEF Whole, NothingJournaled, Has
  <1>4. NothingJournaled' = NothingJournaled
    BY <1>1 DEF NothingJournaled
  <1>5. Has(journal, CompleteRecord) => pc' = "exited"
    BY <1>2, <1>3
  <1>. QED BY <1>1, <1>2, <1>4, <1>5 DEF Whole

LEMMA WholeKill ==
    ASSUME TypeInv, Core, Whole, Kill
    PROVE  Whole'
  <1>1. Running /\ pc' = "killed" /\ UNCHANGED <<tree, log, outcome>>
    BY DEF Kill
  <1>2. ~Has(journal, CompleteRecord) /\ outcome = None /\ journal \in Seq(Records)
    BY <1>1, WorkingIsOpen DEF TypeInv, TypeOK
  <1>3. outcome' # "NothingToRecover"
    BY <1>1, <1>2, TxAssumption DEF Outcomes
  <1>4. CASE UNCHANGED journal
    BY <1>1, <1>2, <1>3, <1>4 DEF Whole
  <1>5. CASE /\ pc = "backup" \/ (pc = "record" /\ item \in DOMAIN Plan)
             /\ journal' # journal
    <2>1. PICK r \in {OpRecord(Target), BackupRecord(Target)} : journal' = Append(journal, r)
      BY <1>5 DEF Kill, LeavesBehind
    <2>2. Target \in Targets
      BY <1>5, PlanFacts DEF TypeInv, Target
    <2>3. r \in Records /\ r # CompleteRecord
      BY <2>1, <2>2, RecordTypes, EntryRecords DEF TypeInv, TypeOK
    <2>4. ~Has(journal', CompleteRecord)
      BY <1>2, <2>1, <2>3, AddedRecord
    <2>5. log = "open"
      BY <1>5 DEF Core, Executing, ExecutePcs
    <2>. QED BY <1>1, <1>3, <2>4, <2>5 DEF Whole
  <1>6. CASE pc = "record" /\ item \notin DOMAIN Plan /\ journal' # journal
    <2>1. journal' = Append(journal, CompleteRecord)
      BY <1>6 DEF Kill, LeavesBehind
    <2>2. tree = New /\ log = "open"
      BY <1>6, AllDone DEF Core, Executing, ExecutePcs
    <2>3. CompleteRecord \in Records
      BY DEF CompleteRecord, Record, Records, Values
    <2>. QED BY <1>1, <1>2, <1>3, <2>1, <2>2, <2>3, AddedRecord DEF Whole
  <1>. QED BY <1>4, <1>5, <1>6 DEF Kill

LEMMA WholeStep ==
    ASSUME {"append", "hidden"} \cap Faults = {}, TypeInv, CoreInv, WholeInv, [Next]_vars
    PROVE  WholeInv'
  <1>. SUFFICES ASSUME foreign' = 0 PROVE Whole'
    BY DEF WholeInv
  <1>1. CASE foreign # 0
    BY <1>1 DEF Next, Execute, Undo, vars, OpenJournal, WriteHeader, JournalBackup,
                CopyBackup, JournalOperation, Apply, FinishPlacing, Complete,
                UndoCheck, UndoAct, FinishRestoring, UndoDrop, UndoDone, Recover,
                Kill, Foreign, TypeInv, TypeOK
  <1>2. CASE foreign = 0
    <2>1. Core /\ Whole
      BY <1>2 DEF CoreInv, WholeInv
    <2>2. ~Foreign
      BY <1>2 DEF Foreign
    <2>3. CASE UNCHANGED vars
      BY <2>1, <2>3 DEF vars, journalVars, Whole, NothingJournaled
    <2>. QED BY <2>1, <2>2, <2>3, WholeExecute, WholeUndo, WholeRecover, WholeKill DEF Next
  <1>. QED BY <1>1, <1>2

\* Where no append fails, and a journal that is there does not pass for a missing one, the
\* recovery finds nothing to do only where the tree is wholly old or wholly new.  (A failing
\* append that leaves its record breaks it, and so does a journal that is hidden.)
THEOREM NothingIsLeftHalf ==
    ASSUME {"append", "hidden"} \cap Faults = {}
    PROVE  Spec => []NothingLeftHalf
  <1>1. Init => WholeInv
    BY TxAssumption DEF Init, WholeInv, Whole, Has, Outcomes
  <1>2. TypeInv /\ CoreInv /\ WholeInv /\ [Next]_vars => WholeInv'
    BY WholeStep
  <1>3. TypeInv /\ CoreInv /\ WholeInv => NothingLeftHalf
    <2>. SUFFICES ASSUME TypeInv, Core, Whole, NothingJournaled PROVE tree \in {Old, New}
      BY DEF CoreInv, WholeInv, Whole, NothingLeftHalf
    <2>1. CASE journal = <<>>
      <3>1. \A t \in Targets : tree[t] = Old[t]
        BY <2>1 DEF Core, DirtyIsJournaled, Dirty, Has
      <3>. QED BY <3>1, TxAssumption DEF TypeInv, TypeOK
    <2>2. CASE journal # <<>>
      <3>1. Last(journal) = CompleteRecord
        BY <2>2 DEF NothingJournaled, Whole
      <3>2. Len(journal) \in DOMAIN journal
        BY <2>2, LenProperties, EmptySeq DEF TypeInv, TypeOK
      <3>. QED BY <3>1, <3>2 DEF Whole, Has, Last
    <2>. QED BY <2>1, <2>2
  <1>. QED BY <1>1, <1>2, <1>3, CoreInvariant, PTL DEF Spec

-----------------------------------------------------------------------------
(* What another program wrote *)

\* No record of a file holds another program's content as the new one.
Known(s) ==
    \A i \in DOMAIN s :
        /\ s[i].op \in {"Create", "Replace"} => s[i].sha # Alien
        /\ s[i].op = "Registry" => s[i].target \notin Files

\* On one volume, where other programs do not write between the look at a file and its
\* change: what is about to be replaced or deleted is not another program's.
Spared ==
    /\ pc \notin {"placing", "restoring"}
    /\ Known(journal) /\ Known(records)
    /\ /\ pc \in {"record", "apply"} /\ item \in DOMAIN Plan
       /\ BackedUp(Target) /\ Target \in Files
       => tree[Target] # Alien
    /\ pc = "act" /\ Undone.target \in Files => tree[Undone.target] # Alien

LEMMA KnownRecords ==
    ASSUME NEW s \in Seq(Records), Known(s), NEW t \in Targets,
           NEW r \in {OpRecord(t), BackupRecord(t), CompleteRecord}, r \in Records
    PROVE  Known(Append(s, r))
  <1>1. /\ r.op \in {"Create", "Replace"} => r.sha # Alien
        /\ r.op = "Registry" => r.target \notin Files
    <2>1. New[t] # Alien
      BY TxAssumption
    <2>2. t = DisplayVersion => t \notin Files
      BY TxAssumption
    <2>. QED BY <2>1, <2>2 DEF OpRecord, OpOf, BackupRecord, CompleteRecord, Record
  <1>2. /\ DOMAIN Append(s, r) = 1..(Len(s) + 1) /\ DOMAIN s = 1..Len(s) /\ Len(s) \in Nat
        /\ \A i \in DOMAIN s : Append(s, r)[i] = s[i]
        /\ Append(s, r)[Len(s) + 1] = r
    BY AppendFacts
  <1>3. \A i \in DOMAIN Append(s, r) : i \in DOMAIN s \/ i = Len(s) + 1
    BY <1>2
  <1>. QED BY <1>1, <1>2, <1>3 DEF Known

\* Whatever a step appends or takes over, the records stay known.
LEMMA KnownStep ==
    ASSUME TypeInv, Known(journal), Known(records), [Next]_vars
    PROVE  Known(journal') /\ Known(records')
  <1>1. CASE JournalBackup \/ JournalOperation
    <2>1. item \in DOMAIN Plan
      BY <1>1 DEF JournalBackup, JournalOperation, TypeInv
    <2>2. Target \in Targets
      BY <2>1, PlanFacts DEF Target
    <2>3. PICK r \in {OpRecord(Target), BackupRecord(Target)} :
              /\ journal' = journal \/ journal' = Append(journal, r)
              /\ records' = records \/ records' = Append(records, r)
      BY <1>1 DEF JournalBackup, JournalOperation, AppendRecord, LeavesBehind
    <2>4. r \in Records
      BY <2>2, <2>3, RecordTypes DEF TypeInv, TypeOK
    <2>. QED BY <2>2, <2>3, <2>4, KnownRecords DEF TypeInv, TypeOK
  <1>2. CASE Complete
    <2>1. /\ journal' = journal \/ journal' = Append(journal, CompleteRecord)
          /\ records' = records \/ records' = Append(records, CompleteRecord)
      BY <1>2 DEF Complete, AppendRecord, LeavesBehind
    <2>2. CompleteRecord \in Records /\ Manifest \in Targets
      BY DEF CompleteRecord, Record, Records, Values, Targets
    <2>. QED BY <2>1, <2>2, KnownRecords DEF TypeInv, TypeOK
  <1>3. CASE Kill
    <2>1. UNCHANGED records
      BY <1>3 DEF Kill
    <2>2. CASE pc = "backup" \/ (pc = "record" /\ item \in DOMAIN Plan)
      <3>1. Target \in Targets
        BY <2>2, PlanFacts DEF Target, TypeInv
      <3>2. PICK r \in {OpRecord(Target), BackupRecord(Target)} :
                journal' = journal \/ journal' = Append(journal, r)
        BY <1>3, <2>2 DEF Kill, LeavesBehind
      <3>3. r \in Records
        BY <3>1, <3>2, RecordTypes DEF TypeInv, TypeOK
      <3>. QED BY <2>1, <3>1, <3>2, <3>3, KnownRecords DEF TypeInv, TypeOK
    <2>3. CASE pc = "record" /\ item \notin DOMAIN Plan
      <3>1. journal' = journal \/ journal' = Append(journal, CompleteRecord)
        BY <1>3, <2>3 DEF Kill, LeavesBehind
      <3>2. CompleteRecord \in Records /\ Manifest \in Targets
        BY DEF CompleteRecord, Record, Records, Values, Targets
      <3>. QED BY <2>1, <3>1, <3>2, KnownRecords DEF TypeInv, TypeOK
    <2>4. CASE pc \notin {"backup", "record"}
      BY <1>3, <2>1, <2>4 DEF Kill
    <2>. QED BY <2>2, <2>3, <2>4
  <1>4. CASE Recover
    BY <1>4 DEF Recover, journalVars
  <1>5. CASE UNCHANGED <<journal, records>>
    BY <1>5
  <1>. QED BY <1>1, <1>2, <1>3, <1>4, <1>5
           DEF Next, Execute, Undo, vars, OpenJournal, WriteHeader, CopyBackup, Apply,
               FinishPlacing, UndoCheck, UndoAct, FinishRestoring, UndoDrop, UndoDone,
               Foreign, journalVars

\* The process looks before it changes: after the look the target is not Alien.
LEMMA SparedLook ==
    ASSUME SameVolume, TypeInv, Spared, Execute \/ Undo \/ Recover \/ Kill
    PROVE  /\ pc' \notin {"placing", "restoring"}
           /\ /\ pc' \in {"record", "apply"} /\ item' \in DOMAIN Plan
              /\ BackedUp(Plan[item']) /\ Plan[item'] \in Files
              => tree'[Plan[item']] # Alien
           /\ pc' = "act" /\ records'[undo'].target \in Files
              => tree'[records'[undo'].target] # Alien
  <1>1. CASE JournalBackup \/ JournalOperation \/ Complete
    <2>1. /\ pc \in {"backup", "record"} /\ UNCHANGED <<tree, item>>
          /\ pc' \in {"copy", "apply", "exited", "check"}
          /\ pc' = "apply" => pc = "record"
      BY <1>1 DEF JournalBackup, JournalOperation, Complete, AppendRecord, RollBack
    <2>. QED BY <2>1 DEF Spared, Target
  <1>2. CASE CopyBackup
    <2>1. /\ UNCHANGED <<tree, item>> /\ item \in DOMAIN Plan
          /\ \/ pc' = "check"
             \/ pc' = "record" /\ (tree[Target] = Old[Target] \/ Target = Manifest)
      BY <1>2 DEF CopyBackup, RollBack, TypeInv
    <2>2. Target \in Files => Target # Manifest /\ Old[Target] # Alien
      BY TxAssumption DEF Targets
    <2>. QED BY <2>1, <2>2 DEF Target
  <1>3. CASE Apply
    <2>1. pc' = "check" \/ (item' = item + 1 /\ pc' = StartOf(item'))
      BY <1>3 DEF Apply, RollBack, Applied
    <2>. QED BY <2>1, StartTypes
  <1>4. CASE UndoCheck
    <2>1. /\ UNCHANGED <<tree, records>>
          /\ \/ pc' = "act" /\ UndoVerdict(Undone, tree[Undone.target]) = "act"
                /\ undo' = undo
             \/ pc' \in {"check", "drop", "exited"}
      BY <1>4 DEF UndoCheck, NextUndo, Refuse, Exit
    <2>2. ASSUME UndoVerdict(Undone, tree[Undone.target]) = "act", Undone.target \in Files
          PROVE  tree[Undone.target] # Alien
      <3>1. undo \in DOMAIN records
        BY <1>4, LenProperties DEF UndoCheck, TypeInv, TypeOK
      <3>2. /\ Undone.op \in {"Create", "Replace"} => Undone.sha # Alien
            /\ Undone.op # "Registry"
        BY <2>2, <3>1 DEF Spared, Known, Undone
      <3>3. Undone \in Records
        BY <3>1, ElementOfSeq DEF TypeInv, TypeOK, Undone
      <3>4. Undone.op \in {"Backup", "Create", "Replace", "Delete", "Registry", "Complete"}
        BY <3>3 DEF Records
      <3>5. Absent # Alien
        BY TxAssumption
      <3>6. CASE Undone.op \in {"Backup", "Complete"}
        BY <2>2, <3>6 DEF UndoVerdict
      <3>7. CASE Undone.op = "Create"
        BY <2>2, <3>2, <3>5, <3>7 DEF UndoVerdict
      <3>8. CASE Undone.op = "Delete"
        BY <2>2, <3>5, <3>8 DEF UndoVerdict
      <3>9. CASE Undone.op = "Replace"
        BY <2>2, <3>2, <3>5, <3>9 DEF UndoVerdict
      <3>. QED BY <3>2, <3>4, <3>6, <3>7, <3>8, <3>9
    <2>. QED BY <2>1, <2>2 DEF Undone
  <1>5. CASE UndoAct \/ FinishRestoring \/ UndoDrop \/ UndoDone
    <2>1. pc' \in {"check", "drop", "exited"}
      BY <1>5 DEF UndoAct, FinishRestoring, UndoDrop, UndoDone, NextUndo, Refuse, Exit, Spared
    <2>. QED BY <2>1
  <1>6. CASE Recover \/ Kill \/ OpenJournal \/ FinishPlacing
    <2>1. pc' \in {"check", "exited", "killed", "header"}
      BY <1>6 DEF Recover, RecheckFails, ReplayFails, Kill, OpenJournal, FinishPlacing,
                  Exit, Spared
    <2>. QED BY <2>1
  <1>7. CASE WriteHeader
    <2>1. (pc' = StartOf(1) /\ item' = 1) \/ pc' = "exited"
      BY <1>7 DEF WriteHeader, Exit, TypeInv
    <2>. QED BY <2>1, StartTypes
  <1>. QED BY <1>1, <1>2, <1>3, <1>4, <1>5, <1>6, <1>7 DEF Execute, Undo

LEMMA SparedStep ==
    ASSUME SameVolume, "window" \notin Faults, TypeInv, Spared, [Next]_vars
    PROVE  Spared'
  <1>1. Known(journal') /\ Known(records')
    BY KnownStep DEF Spared
  <1>2. CASE Execute \/ Undo \/ Recover \/ Kill
    BY <1>1, <1>2, SparedLook DEF Spared, Target, Undone, Known
  <1>3. CASE Foreign
    <2>1. /\ UNCHANGED <<pc, item, records, undo>>
          /\ \E f \in Files : ~InWindow(f) /\ \E x : tree' = [tree EXCEPT ![f] = x]
      BY <1>3 DEF Foreign
    <2>2. \A t \in Targets : InWindow(t) => tree'[t] = tree[t]
      BY <2>1 DEF TypeInv, TypeOK
    <2>. QED BY <1>1, <2>1, <2>2 DEF Spared, Target, Undone, Known, InWindow, Targets
  <1>4. CASE UNCHANGED vars
    BY <1>1, <1>4 DEF Spared, vars, Target, Undone, Known
  <1>. QED BY <1>2, <1>3, <1>4 DEF Next

\* The engine never overwrites or deletes what another program wrote, whatever fails and
\* whenever it is killed: on one volume, and unless the other program writes between the
\* look at the file and its change.
THEOREM ForeignIsKept ==
    ASSUME SameVolume, "window" \notin Faults
    PROVE  Spec => ForeignKept
  <1>1. Init => Spared
    BY DEF Init, Spared, Known
  <1>2. TypeInv /\ Spared /\ [Next]_vars => Spared'
    BY SparedStep
  <1>3. TypeInv /\ Spared /\ [Next]_vars
            => [foreign' = foreign =>
                   \A f \in Files : tree[f] = Alien => tree'[f] = Alien]_vars
    <2>. SUFFICES ASSUME TypeInv, Spared, Next, foreign' = foreign,
                         NEW f \in Files, tree[f] = Alien
                  PROVE  tree'[f] = Alien
      OBVIOUS
    <2>1. f \in Targets /\ Absent # Alien
      BY TxAssumption DEF Targets
    <2>2. CASE Apply
      <3>1. /\ item \in DOMAIN Plan /\ pc = "apply"
            /\ \/ UNCHANGED tree
               \/ /\ tree' = [tree EXCEPT ![Target] = New[Target]]
                  /\ OpOf(Target) = "Create" => tree[Target] = Absent
        BY <2>2 DEF Apply, TypeInv
      <3>2. f = Target => UNCHANGED tree
        <4>1. f = Target => OpOf(f) \in {"Create", "Replace", "Delete"}
          BY TxAssumption DEF OpOf
        <4>. QED BY <2>1, <3>1, <4>1 DEF Spared, BackedUp
      <3>. QED BY <2>1, <3>1, <3>2 DEF TypeInv, TypeOK
    <2>3. CASE UndoAct
      <3>1. f # Undone.target
        BY <2>3 DEF UndoAct, Spared
      <3>2. UNCHANGED tree \/ \E x : tree' = [tree EXCEPT ![Undone.target] = x]
        BY <2>3 DEF UndoAct
      <3>. QED BY <2>1, <3>1, <3>2 DEF TypeInv, TypeOK
    <2>4. CASE UNCHANGED tree
      BY <2>4
    <2>. QED BY <2>2, <2>3, <2>4
             DEF Next, Execute, Undo, OpenJournal, WriteHeader, JournalBackup, CopyBackup,
                 JournalOperation, FinishPlacing, Complete, UndoCheck, FinishRestoring,
                 UndoDrop, UndoDone, Recover, Kill, Foreign, Spared, TypeInv, TypeOK
  <1>. QED BY <1>1, <1>2, <1>3, TypeInvariant, PTL DEF Spec, ForeignKept

-----------------------------------------------------------------------------
(* The refinement *)

\* Where no other program writes, the transaction implements the atomic update: in
\* between anything goes, but it settles only on the whole new or the whole old tree,
\* and for good.
THEOREM ImplementsAtomicUpdate ==
    ASSUME MaxForeign = 0
    PROVE  Spec => AtomicSpec
  <1>1. Init => Atomic!Init
    BY DEF Init, Atomic!Init
  <1>2. TypeInv /\ CoreInv /\ TypeInv' /\ CoreInv' /\ [Next]_vars
            => [Atomic!Next]_<<tree, settled>>
    <2>. SUFFICES ASSUME TypeInv, CoreInv, TypeInv', CoreInv', [Next]_vars,
                         ~UNCHANGED <<tree, settled>>
                  PROVE  Atomic!Next
      OBVIOUS
    <2>1. foreign = 0 /\ foreign' = 0
      BY DEF TypeInv, TypeOK
    <2>2. Core /\ Core'
      BY <2>1 DEF CoreInv
    <2>3. CASE settled' = settled
      <3>1. settled = None
        BY <2>2, <2>3, SettlingStep
      <3>2. tree' \in [Targets -> Values]
        BY DEF TypeInv, TypeOK
      <3>. QED BY <2>3, <3>1, <3>2 DEF Atomic!Next, Atomic!Work
    <2>4. CASE settled' # settled
      <3>1. settled = None /\ tree' = tree
        BY <2>2, <2>4, SettlingStep
      <3>2. settled' \in {"updated", "restored"}
        BY <2>4, <3>1 DEF TypeInv, TypeOK
      <3>3. /\ settled' = "updated" => tree = New
            /\ settled' = "restored" => tree = Old
        BY <2>2, <3>1 DEF Core, Reported
      <3>. QED BY <3>1, <3>2, <3>3 DEF Atomic!Next, Atomic!Commit, Atomic!Abort
    <2>. QED BY <2>3, <2>4
  <1>. QED BY <1>1, <1>2, CoreInvariant, PTL DEF Spec, AtomicSpec, Atomic!Spec
=============================================================================
