--------------------------- MODULE Portable_proofs ---------------------------
(***************************************************************************)
(* Proofs about Portable, for any manifests, any number of attempts and    *)
(* any faults and kills: files are replaced by one helper, after a         *)
(* committed exit, never for a user who was told that it is off, and what  *)
(* was there can be had back.                                              *)
(***************************************************************************)
EXTENDS Portable, FiniteSetTheorems, TLAPS

-----------------------------------------------------------------------------
(* The inductive invariant: who holds the directory *)

Inside == {"opened", "ready", "left", "owner", "replacing"}
Began(a) == tx[a].step # "idle"
Active(a) == helper[a].pc = "replacing"

\* Whoever owns the mutex has a handle on it; one does.
Held ==
    /\ mutex.owner \subseteq mutex.handles
    /\ \A x, y \in mutex.owner : x = y
    /\ App \in mutex.handles => app.state # "gone"

\* While a helper has its handle no other session enters, and the helper goes on to
\* the files when its own has gone.
Lock(a) ==
    /\ a \in mutex.handles => /\ helper[a].pc \in Inside \cup {"message"}
                              /\ helper[a].parent = app.session
    /\ helper[a].pc \in Inside => a \in mutex.handles
    /\ helper[a].pc \in {"left", "owner", "replacing"} => app.state = "gone"
    /\ helper[a].pc \in {"owner", "replacing"} => mutex.owner = {a} /\ ~mutex.abandoned
    /\ a \in mutex.owner => helper[a].pc \in {"owner", "replacing", "message"}
    /\ helper[a].parent <= app.session

\* An installation that is not off has the directory.
Task ==
    /\ installer.timer \/ (installer.task # "none" /\ ~installer.cancelled)
         => app.state = "running" /\ app.native /\ mutex.owner = {App}
    /\ installer.timer => /\ installer.busy /\ installer.task = "none"
                          /\ helper[installer.attempt].pc # "none"
    /\ installer.task # "none" => installer.busy
    /\ installer.busy => app.state # "gone" /\ installer.attempt \in Attempts
    /\ installer.handedOff => /\ installer.attempt \in Attempts
                              /\ story[installer.attempt].committed
                              /\ app.state = "exiting" /\ installer.task = "none"
    /\ installer.task # "none" =>
        /\ helper[installer.attempt].pc = "none"
        /\ story[installer.attempt].told => installer.cancelled

-----------------------------------------------------------------------------
(* What happens to an attempt *)

Past(a) == Began(a) \/ helper[a].pc \in {"owner", "replacing", "restart"}

Fresh(a) ==
    a > installer.attempt => helper[a].pc = "none" /\ ~story[a].told /\ ~Began(a)

\* A user who was told so has left a note, or there is no helper to read it.
Revoked(a) ==
    story[a].told /\ ~story[a].unsaved =>
        "cancel" \in stage[a].notes \/ helper[a].pc \in {"none", "ended", "message"}

\* A helper has left when it has failed.
Failed(a) == "failed" \in stage[a].notes => helper[a].pc \in {"ended", "message"}

\* One that has gone past the last look was sent, and is not called back.
Sent(a) ==
    /\ Past(a) => /\ ~story[a].told \/ story[a].unsaved
                  /\ story[a].committed \/ story[a].unsaved
    /\ Past(a) \/ helper[a].pc = "left" => (a = installer.attempt => ~installer.busy)

\* A killed application leaves a mutex that no helper takes.
Stuck ==
    /\ app.state = "gone"
    /\ mutex.abandoned \/ \E b \in Attempts : mutex.owner = {b} /\ helper[b].pc = "message"

\* What a helper waits for.
Waits(a) ==
    helper[a].pc \in {"started", "opened", "ready", "left"} =>
        \/ story[a].committed \/ story[a].told
        \/ a = installer.attempt /\ installer.timer
        \/ helper[a].pc = "started" /\ ParentGone(a)
        \/ a \in mutex.handles /\ Stuck

\* What it was started with.
Plan(a) ==
    /\ helper[a].pc # "none" \/ (a = installer.attempt /\ installer.task = "ready") =>
        tx[a].old = IF helper[a].expected = "new" THEN NewFiles ELSE OldFiles
    /\ helper[a].pc = "none" => helper[a].parent = 0
    /\ Began(a) => helper[a].pc \in {"replacing", "restart", "message", "ended"}
    /\ helper[a].pc = "replacing" => Began(a)

Story(a) == Fresh(a) /\ Revoked(a) /\ Failed(a) /\ Sent(a) /\ Waits(a) /\ Plan(a)

Control == Held /\ Task /\ \A a \in Attempts : Lock(a) /\ Story(a)

\* A session for each start by the user, and each by a helper.
Finished == {a \in Attempts : helper[a].pc = "ended"}
Counted == app.session <= MaxSessions + Cardinality(Finished)

-----------------------------------------------------------------------------
(* Types *)

Apps == [state : {"running", "exiting", "gone"}, session : 1..(MaxSessions + MaxAttempts),
         native : BOOLEAN]
Installers == [attempt : 0..MaxAttempts, busy : BOOLEAN, handedOff : BOOLEAN,
               cancelled : BOOLEAN, task : {"none", "running", "ready", "error"},
               timer : BOOLEAN]
Mutexes == [owner : SUBSET Holders, abandoned : BOOLEAN, handles : SUBSET Holders]
Helpers == [pc : {"none", "started", "opened", "ready", "left", "owner", "replacing", "restart",
                  "message", "ended"},
            parent : 0..(MaxSessions + MaxAttempts), expected : {"old", "new"}, left : BOOLEAN]
Stages == [notes : SUBSET {"cancel", "ready", "failed", "complete"}, intact : BOOLEAN]
Tales == [told : BOOLEAN, unsaved : BOOLEAN, committed : BOOLEAN]

LEMMA Types ==
    TypeOK <=> /\ TxTypeOK
               /\ app \in Apps /\ installer \in Installers /\ mutex \in Mutexes
               /\ helper \in [Attempts -> Helpers] /\ stage \in [Attempts -> Stages]
               /\ story \in [Attempts -> Tales] /\ kills \in 0..MaxKills
BY DEF TypeOK, Apps, Installers, Mutexes, Helpers, Stages, Tales

LEMMA TypesNext ==
    TypeOK' <=> /\ TxTypeOK'
                /\ app' \in Apps /\ installer' \in Installers /\ mutex' \in Mutexes
                /\ helper' \in [Attempts -> Helpers] /\ stage' \in [Attempts -> Stages]
                /\ story' \in [Attempts -> Tales] /\ kills' \in 0..MaxKills
BY DEF TypeOK, Apps, Installers, Mutexes, Helpers, Stages, Tales

Transactions == [step : Steps, i : 1..(Len(OldFiles) + Len(NewFiles) + 1),
                 old : {<<>>, OldFiles, NewFiles}, backedUp : SUBSET Names,
                 changed : Seq(Names), incomplete : BOOLEAN, before : [Keys -> Contents]]
Trees == [Keys -> Contents]
Backups == [Attempts -> [Keys -> Contents \cup {"partial"}]]

LEMMA TransactionTypes ==
    TxTypeOK <=> /\ tree \in Trees /\ temporary \in {"none", "partial", "new"}
                 /\ backup \in Backups /\ tx \in [Attempts -> Transactions]
                 /\ faults \in 0..MaxFaults
BY DEF TxTypeOK, Transactions, Trees, Backups

LEMMA TransactionTypesNext ==
    TxTypeOK' <=> /\ tree' \in Trees /\ temporary' \in {"none", "partial", "new"}
                  /\ backup' \in Backups /\ tx' \in [Attempts -> Transactions]
                  /\ faults' \in 0..MaxFaults
BY DEF TxTypeOK, Transactions, Trees, Backups

LEMMA AttemptsAre ==
    /\ MaxAttempts \in Nat /\ App \notin Attempts
    /\ \A a \in Attempts : a \in Nat /\ a # 0 /\ a <= MaxAttempts /\ a \in 0..MaxAttempts
    /\ Holders = {App} \cup Attempts
BY TransactionAssumption DEF Attempts, App, Holders

-----------------------------------------------------------------------------
(* The mutex *)

LEMMA Releases ==
    ASSUME NEW m \in Mutexes, NEW h \in Holders, m.owner \subseteq m.handles
    PROVE /\ Released(m, h) \in Mutexes
          /\ Released(m, h).handles = m.handles \ {h}
          /\ Released(m, h).owner = m.owner \ {h}
          /\ Released(m, h).abandoned <=> m.abandoned /\ ~ m.handles \subseteq {h}
BY DEF Released, FreeMutex, Mutexes

LEMMA Orphans ==
    ASSUME NEW m \in Mutexes, NEW h \in Holders, m.owner \subseteq m.handles
    PROVE /\ Orphaned(m, h) \in Mutexes
          /\ Orphaned(m, h).handles = m.handles \ {h}
          /\ Orphaned(m, h).owner = m.owner \ {h}
          /\ Orphaned(m, h).abandoned <=>
                ~ m.handles \subseteq {h} /\ (m.abandoned \/ m.owner = {h})
<1>1. CASE m.owner = {h} /\ m.handles # {h}
  <2>1. ~ m.handles \subseteq {h}
    BY <1>1
  <2>2. Released(m, h) = [m EXCEPT !.owner = @ \ {h}, !.handles = @ \ {h}]
    BY <2>1 DEF Released
  <2>3. QED
    BY <1>1, <2>1, <2>2 DEF Orphaned, Mutexes
<1>2. CASE ~(m.owner = {h} /\ m.handles # {h})
  <2>1. Orphaned(m, h) = Released(m, h)
    BY <1>2 DEF Orphaned
  <2>2. m.owner = {h} => m.handles \subseteq {h}
    BY <1>2
  <2>3. QED
    BY <2>1, <2>2, Releases
<1>3. QED
  BY <1>1, <1>2

-----------------------------------------------------------------------------
(* Attempts that a step leaves alone *)

\* Nothing that is noted of the attempt changes.
Same(b) ==
    /\ helper'[b] = helper[b] /\ stage'[b].notes = stage[b].notes /\ story'[b] = story[b]
    /\ Began(b)' <=> Began(b)
    /\ tx'[b].old = tx[b].old

\* The installer does not take it up again.
Left(b) ==
    /\ b > installer'.attempt => b > installer.attempt
    /\ b = installer'.attempt =>
        /\ b = installer.attempt
        /\ installer'.busy => installer.busy
        /\ installer'.task = "ready" => installer.task = "ready"

\* What it waits for stays.
StaysFor(b) ==
    /\ b = installer.attempt /\ installer.timer => b = installer'.attempt /\ installer'.timer
    /\ ParentGone(b) => ParentGone(b)'
    /\ b \in mutex.handles /\ Stuck => b \in mutex'.handles /\ Stuck'

LEMMA WaitsStill ==
    ASSUME NEW b \in Attempts, Waits(b), helper'[b] = helper[b], story'[b] = story[b], StaysFor(b)
    PROVE Waits(b)'
<1>1. ParentGone(b) => ParentGone(b)'
  BY DEF StaysFor
<1>2. b \in mutex.handles /\ Stuck => b \in mutex'.handles /\ Stuck'
  BY DEF StaysFor
<1>3. b = installer.attempt /\ installer.timer => b = installer'.attempt /\ installer'.timer
  BY DEF StaysFor
<1>4. QED
  BY <1>1, <1>2, <1>3 DEF Waits

LEMMA StoryStill ==
    ASSUME NEW b \in Attempts, Story(b), Same(b), Left(b), Waits(b)'
    PROVE Story(b)'
<1>1. Fresh(b)'
  BY DEF Fresh, Story, Same, Left
<1>2. Revoked(b)' /\ Failed(b)'
  BY DEF Revoked, Failed, Story, Same
<1>3. Past(b)' <=> Past(b)
  BY DEF Past, Same
<1>4. Sent(b)'
  BY <1>3 DEF Sent, Story, Same, Left
<1>5. Plan(b)'
  BY DEF Plan, Story, Same, Left
<1>6. QED
  BY <1>1, <1>2, <1>4, <1>5 DEF Story

\* A step that does not let an attempt's handle go, nor another session in.
Keeps(b) ==
    /\ helper'[b].pc = helper[b].pc /\ helper'[b].parent = helper[b].parent
    /\ b \in mutex'.handles <=> b \in mutex.handles
    /\ b \in mutex.handles =>
        /\ app'.session = app.session
        /\ app.state = "gone" => app'.state = "gone"
    /\ app'.session >= app.session
    /\ helper[b].pc \in {"owner", "replacing"} =>
        mutex'.owner = mutex.owner /\ mutex'.abandoned = mutex.abandoned
    /\ b \in mutex'.owner => b \in mutex.owner

LEMMA LockStill ==
    ASSUME TypeOK, TypeOK', NEW b \in Attempts, Lock(b), Keeps(b)
    PROVE Lock(b)'
<1>1. /\ helper[b].parent \in Nat /\ app.session \in Nat /\ app'.session \in Nat
  BY Types, TypesNext DEF Apps, Helpers
<1>2. helper[b].pc \in {"left", "owner", "replacing"} => app'.state = "gone"
  BY DEF Lock, Keeps, Inside
<1>3. helper[b].parent <= app'.session
  BY <1>1 DEF Lock, Keeps
<1>4. QED
  BY <1>2, <1>3 DEF Lock, Keeps, Inside

LEMMA Elsewhere ==
    ASSUME TypeOK, TypeOK', Control, NEW b \in Attempts,
           Same(b), Left(b), StaysFor(b), Keeps(b)
    PROVE Lock(b)' /\ Story(b)'
<1>1. Lock(b) /\ Story(b)
  BY DEF Control
<1>2. Lock(b)'
  BY <1>1, LockStill
<1>3. Waits(b) /\ helper'[b] = helper[b] /\ story'[b] = story[b]
  BY <1>1 DEF Story, Same
<1>4. Waits(b)'
  BY <1>3, WaitsStill
<1>5. QED
  BY <1>1, <1>2, <1>4, StoryStill

-----------------------------------------------------------------------------
(* Steps of the application *)

LEMMA InstallControl ==
    ASSUME TypeOK, TypeOK', Control, NEW a \in Attempts, Install(a)
    PROVE Control'
<1>1. /\ helper \in [Attempts -> Helpers] /\ app \in Apps /\ installer \in Installers
      /\ story \in [Attempts -> Tales] /\ mutex \in Mutexes
  BY Types
<1>2. /\ app.state = "running" /\ ~app.native /\ ~installer.busy /\ mutex.handles = {}
      /\ a = installer.attempt + 1
      /\ app' = [app EXCEPT !.native = TRUE]
      /\ mutex' = [FreeMutex EXCEPT !.owner = {App}, !.handles = {App}]
      /\ installer' = [NewInstaller EXCEPT !.attempt = a, !.busy = TRUE, !.task = "running"]
      /\ UNCHANGED <<tx, helper, stage, story>>
  BY DEF Install, Exists, txVars
<1>3. /\ app'.state = "running" /\ app'.native /\ app'.session = app.session
      /\ mutex'.owner = {App} /\ mutex'.handles = {App} /\ ~mutex'.abandoned
      /\ installer'.attempt = a /\ installer'.busy /\ installer'.task = "running"
      /\ ~installer'.timer /\ ~installer'.handedOff /\ ~installer'.cancelled
  BY <1>1, <1>2 DEF FreeMutex, NewInstaller, Apps
<1>4. Held'
  BY <1>3 DEF Held
<1>5. installer.attempt \in Nat /\ a > installer.attempt
  BY <1>1, <1>2 DEF Installers
<1>6. Fresh(a)
  BY DEF Control, Story
<1>7. Task'
  BY <1>2, <1>3, <1>5, <1>6, AttemptsAre DEF Task, Fresh
<1>8. ASSUME NEW b \in Attempts
      PROVE Lock(b)' /\ Story(b)'
  <2>1. Lock(b) /\ Story(b) /\ b \notin mutex.handles /\ b \in Nat /\ b # App
    BY <1>2, AttemptsAre DEF Control
  <2>2. Keeps(b)
    BY <1>1, <1>2, <1>3, <2>1 DEF Keeps, Lock, Inside, Apps
  <2>3. Same(b)
    BY <1>2 DEF Same, Began
  <2>4. CASE b = a
    <3>1. helper[b].pc = "none" /\ ~story[b].told /\ ~Began(b)
      BY <1>5, <1>6, <2>4 DEF Fresh
    <3>2. helper'[b].pc = "none" /\ ~story'[b].told /\ ~Began(b)'
      BY <1>2, <3>1 DEF Began
    <3>3. Failed(b)' /\ Plan(b)'
      BY <1>2, <1>3, <2>1, <3>2 DEF Story, Failed, Plan, Began
    <3>4. Fresh(b)' /\ Revoked(b)' /\ Sent(b)' /\ Waits(b)'
      BY <1>3, <2>1, <2>4, <3>2 DEF Fresh, Revoked, Sent, Waits, Past
    <3>5. QED
      BY <2>1, <2>2, <3>3, <3>4, LockStill DEF Story
  <2>5. CASE b # a
    <3>1. Left(b)
      BY <1>2, <1>3, <1>5, <2>1, <2>5 DEF Left
    <3>2. StaysFor(b)
      BY <1>2, <1>3, <2>1 DEF StaysFor, ParentGone, Control, Task
    <3>3. QED
      BY <2>2, <2>3, <3>1, <3>2, Elsewhere
  <2>6. QED
    BY <2>4, <2>5
<1>9. QED
  BY <1>4, <1>7, <1>8 DEF Control

LEMMA PreparePackageControl ==
    ASSUME TypeOK, TypeOK', Control, NEW a \in Attempts, PreparePackage(a)
    PROVE Control'
<1>1. /\ helper \in [Attempts -> Helpers] /\ installer \in Installers /\ TxTypeOK
      /\ app \in Apps
  BY Types
<1>2. /\ a = installer.attempt /\ installer.task = "running"
      /\ UNCHANGED <<app, mutex, stage, story>>
  BY DEF PreparePackage
<1>3. tx \in [Attempts -> Transactions]
  BY <1>1, TransactionTypes
<1>4. /\ \A b \in Attempts : b # a => tx'[b] = tx[b] /\ helper'[b] = helper[b]
      /\ \A b \in Attempts : tx'[b].step = tx[b].step
      /\ helper'[a].pc = helper[a].pc /\ helper'[a].parent = helper[a].parent
      /\ \/ /\ installer' = [installer EXCEPT !.task = "ready"]
            /\ tx'[a].old = IF helper'[a].expected = "new" THEN NewFiles ELSE OldFiles
         \/ installer' = [installer EXCEPT !.task = "error"]
  <2>1. CASE /\ tree[Manifest] \in {"old", "new"}
             /\ tx' = [tx EXCEPT ![a].old = IF tree[Manifest] = "new" THEN NewFiles ELSE OldFiles]
             /\ helper' = [helper EXCEPT ![a].expected = tree[Manifest]]
             /\ installer' = [installer EXCEPT !.task = "ready"]
    BY <1>1, <1>3, <2>1 DEF Transactions, Helpers
  <2>2. CASE installer' = [installer EXCEPT !.task = "error"] /\ UNCHANGED <<tx, helper>>
    BY <2>2
  <2>3. QED
    BY <2>1, <2>2 DEF PreparePackage
<1>5. /\ installer'.attempt = installer.attempt /\ installer'.busy = installer.busy
      /\ installer'.timer = installer.timer /\ installer'.cancelled = installer.cancelled
      /\ installer'.handedOff = installer.handedOff /\ installer'.task \in {"ready", "error"}
  BY <1>1, <1>4 DEF Installers
<1>6. Held'
  BY <1>2 DEF Held, Control
<1>7. Task
  BY DEF Control
<1>8. helper[a].pc = "none" /\ installer.busy /\ ~installer.timer
  BY <1>2, <1>7 DEF Task
<1>9. Task'
  BY <1>2, <1>4, <1>5, <1>7, <1>8 DEF Task
<1>10. ASSUME NEW b \in Attempts
       PROVE Lock(b)' /\ Story(b)'
  <2>1. Lock(b) /\ Story(b)
    BY DEF Control
  <2>2. Keeps(b)
    BY <1>1, <1>2, <1>4 DEF Keeps, Apps
  <2>3. CASE b = a
    <3>1. helper'[b].pc = "none" /\ ~Began(b)'
      BY <1>4, <1>8, <2>1, <2>3 DEF Story, Plan, Began
    <3>2. Fresh(b)' /\ Revoked(b)' /\ Sent(b)' /\ Waits(b)' /\ Failed(b)'
      <4>1. installer.attempt \in Nat
        BY <1>1 DEF Installers
      <4>2. ~ b > installer'.attempt
        BY <1>2, <1>5, <2>3, <4>1
      <4>3. QED
        BY <1>2, <1>8, <2>1, <2>3, <3>1, <4>2
        DEF Story, Fresh, Revoked, Sent, Waits, Past, Failed
    <3>3. Plan(b)'
      BY <1>1, <1>4, <1>8, <2>1, <2>3, <3>1 DEF Story, Plan, Installers
    <3>4. QED
      BY <2>1, <2>2, <3>2, <3>3, LockStill DEF Story
  <2>4. CASE b # a
    <3>1. Same(b)
      BY <1>2, <1>4, <2>4 DEF Same, Began
    <3>2. Left(b)
      BY <1>2, <1>5, <2>4 DEF Left
    <3>3. StaysFor(b)
      BY <1>2, <1>4, <1>5, <1>8, <2>4 DEF StaysFor, ParentGone, Stuck
    <3>4. QED
      BY <2>2, <3>1, <3>2, <3>3, Elsewhere
  <2>5. QED
    BY <2>3, <2>4
<1>11. QED
  BY <1>6, <1>9, <1>10 DEF Control

\* The user is told that the attempt is off, and the directory is given back.
LEMMA GivenBack ==
    ASSUME TypeOK, TypeOK', Control, NEW a \in Attempts,
           a = installer.attempt, installer.busy, app.state = "running",
           app'.state = "running", app'.session = app.session,
           UNCHANGED tx,
           \A b \in Attempts : b # a =>
               helper'[b] = helper[b] /\ stage'[b] = stage[b] /\ story'[b] = story[b],
           installer'.attempt = a, ~installer'.timer, ~installer'.handedOff,
           \/ ~installer'.busy /\ installer'.task = "none"
           \/ /\ installer'.busy /\ installer'.cancelled
              /\ installer'.task \in {"none", installer.task} /\ helper'[a].pc = helper[a].pc,
           helper'[a].parent = IF helper[a].pc = "none" /\ helper'[a].pc # "none"
                               THEN app.session ELSE helper[a].parent,
           \/ helper'[a].pc \in {helper[a].pc, "ended"} /\ helper[a].pc # "none"
           \/ helper[a].pc = "none" /\ helper'[a].pc = "none"
           \/ helper[a].pc = "none" /\ helper'[a].pc = "started" /\ installer.task = "ready",
           helper'[a].expected = helper[a].expected,
           story'[a].told, story'[a].committed = story[a].committed,
           story[a].unsaved => story'[a].unsaved,
           \/ story'[a].unsaved \/ "cancel" \in stage'[a].notes
           \/ helper'[a].pc \in {"none", "ended", "message"},
           "failed" \in stage'[a].notes <=> "failed" \in stage[a].notes,
           mutex'.handles = mutex.handles \ ({App} \cup IF helper'[a].pc = "ended" THEN {a} ELSE {}),
           mutex'.owner = mutex.owner \ ({App} \cup IF helper'[a].pc = "ended" THEN {a} ELSE {})
    PROVE Control'
<1>1. /\ installer \in Installers /\ app \in Apps /\ app' \in Apps /\ helper \in [Attempts -> Helpers]
      /\ installer' \in Installers
  BY Types, TypesNext
<1>2. /\ Held /\ Task /\ Lock(a) /\ Story(a)
  BY DEF Control
<1>3. Held'
  BY <1>2 DEF Held
<1>4. ~Past(a) /\ ~Began(a) /\ helper[a].pc # "left"
  BY <1>2 DEF Story, Sent, Past
<1>5. ~ a > installer'.attempt /\ installer.attempt \in Nat
  BY <1>1 DEF Installers
<1>6. Task'
  <2>1. CASE ~installer'.busy /\ installer'.task = "none"
    BY <2>1 DEF Task
  <2>2. CASE /\ installer'.busy /\ installer'.cancelled
             /\ installer'.task \in {"none", installer.task} /\ helper'[a].pc = helper[a].pc
    BY <1>2, <2>2 DEF Task
  <2>3. QED
    BY <2>1, <2>2
<1>7. ~Stuck
  BY DEF Stuck
<1>8. ASSUME NEW b \in Attempts
      PROVE Lock(b)' /\ Story(b)'
  <2>1. /\ Lock(b) /\ Story(b) /\ b # App
        /\ helper[b].pc \notin {"left", "owner", "replacing"}
    BY AttemptsAre DEF Control, Lock
  <2>2. CASE b = a
    <3>1. helper'[a].pc \notin {"left", "owner", "replacing"} /\ ~Began(a)'
      BY <1>4, <2>1, <2>2 DEF Began
    <3>2. Lock(a)'
      <4>1. a \in mutex'.handles => a \in mutex.handles /\ helper'[a].pc # "ended"
        OBVIOUS
      <4>2. a \in mutex.handles => helper'[a].pc \in Inside \cup {"message", "ended"}
                                   /\ helper'[a].parent = app.session
        BY <1>2 DEF Lock, Inside
      <4>3. helper'[a].pc \in Inside => a \in mutex'.handles
        BY <1>2, <2>1, <2>2 DEF Lock, Inside
      <4>4. helper'[a].parent <= app'.session
        BY <1>1, <1>2 DEF Lock, Apps, Helpers
      <4>5. a \in mutex'.owner => helper'[a].pc \in {"owner", "replacing", "message"}
        <5>1. a \in mutex'.owner => a \in mutex.owner /\ helper'[a].pc # "ended"
          OBVIOUS
        <5>2. QED
          BY <1>2, <5>1 DEF Lock
      <4>6. QED
        BY <3>1, <4>1, <4>2, <4>3, <4>4, <4>5 DEF Lock
    <3>3. Fresh(a)' /\ Revoked(a)' /\ Waits(a)'
      BY <1>5 DEF Fresh, Revoked, Waits
    <3>4. Sent(a)'
      <4>1. ~Past(a)' /\ helper'[a].pc # "left"
        BY <1>4, <3>1 DEF Past
      <4>2. QED
        BY <4>1 DEF Sent
    <3>5. Failed(a)'
      BY <1>2 DEF Failed, Story
    <3>6. Plan(a)'
      <4>1. helper'[a].pc # "none" \/ installer'.task = "ready" =>
              helper[a].pc # "none" \/ installer.task = "ready"
        OBVIOUS
      <4>2. QED
        BY <1>2, <3>1, <4>1 DEF Story, Plan
    <3>7. QED
      BY <2>2, <3>2, <3>3, <3>4, <3>5, <3>6 DEF Story
  <2>3. CASE b # a
    <3>1. Same(b) /\ Left(b)
      BY <2>3 DEF Same, Left, Began
    <3>2. StaysFor(b)
      BY <1>7, <2>3 DEF StaysFor, ParentGone
    <3>3. Keeps(b)
      BY <1>1, <2>1, <2>3 DEF Keeps, Apps
    <3>4. QED
      BY <3>1, <3>2, <3>3, Elsewhere
  <2>4. QED
    BY <2>2, <2>3
<1>9. QED
  BY <1>3, <1>6, <1>8 DEF Control

LEMMA NativeInstallFails ==
    ASSUME TypeOK, Control, NativeInstallFailed
    PROVE /\ app'.state = app.state /\ app'.session = app.session
          /\ mutex'.handles = mutex.handles \ {App} /\ mutex'.owner = mutex.owner \ {App}
<1>1. app \in Apps /\ mutex \in Mutexes /\ App \in Holders
  BY Types, AttemptsAre
<1>2. mutex.owner \subseteq mutex.handles
  BY DEF Control, Held
<1>3. app' = [app EXCEPT !.native = FALSE] /\ mutex' = Released(mutex, App)
  BY DEF NativeInstallFailed
<1>4. QED
  BY <1>1, <1>2, <1>3, Releases DEF Apps

LEMMA Telling ==
    ASSUME TypeOK, NEW a \in Attempts, NEW saved \in BOOLEAN, Told(a, saved)
    PROVE /\ story'[a].told /\ story'[a].committed = story[a].committed
          /\ story'[a].unsaved <=> story[a].unsaved \/ ~saved
          /\ \A b \in Attempts : b # a => story'[b] = story[b]
<1>1. story \in [Attempts -> Tales]
  BY Types
<1>2. story' = [story EXCEPT ![a].told = TRUE, ![a].unsaved = @ \/ ~saved]
  BY DEF Told
<1>3. QED
  BY <1>1, <1>2 DEF Tales

LEMMA Saving ==
    ASSUME TypeOK, NEW a \in Attempts, NEW saved \in BOOLEAN, SavesCancel(a, saved)
    PROVE /\ saved => "cancel" \in stage'[a].notes
          /\ \A n : n # "cancel" => (n \in stage'[a].notes <=> n \in stage[a].notes)
          /\ \A b \in Attempts : b # a => stage'[b] = stage[b]
<1>1. stage \in [Attempts -> Stages]
  BY Types
<1>2. stage' = IF saved THEN [stage EXCEPT ![a].notes = @ \cup {"cancel"}] ELSE stage
  BY DEF SavesCancel
<1>3. QED
  BY <1>1, <1>2 DEF Stages

LEMMA PreparationFailedControl ==
    ASSUME TypeOK, TypeOK', Control, NEW a \in Attempts, PreparationFailed(a)
    PROVE Control'
<1>1. installer \in Installers /\ story \in [Attempts -> Tales]
  BY Types
<1>2. /\ a = installer.attempt /\ app.state = "running" /\ installer.task \in {"error", "ready"}
      /\ installer' = [installer EXCEPT !.busy = FALSE, !.task = "none"]
      /\ Told(a, TRUE) /\ NativeInstallFailed /\ UNCHANGED <<tx, helper, stage>>
  BY DEF PreparationFailed
<1>3. installer.busy /\ ~installer.timer /\ ~installer.handedOff /\ helper[a].pc = "none"
  BY <1>1, <1>2 DEF Control, Task, Installers
<1>4. /\ installer'.attempt = a /\ ~installer'.timer /\ ~installer'.handedOff /\ ~installer'.busy
      /\ installer'.task = "none"
  BY <1>1, <1>2, <1>3 DEF Installers
<1>5. /\ app'.state = app.state /\ app'.session = app.session
      /\ mutex'.handles = mutex.handles \ {App} /\ mutex'.owner = mutex.owner \ {App}
  BY <1>2, NativeInstallFails
<1>6. /\ story'[a].told /\ story'[a].committed = story[a].committed
      /\ story'[a].unsaved <=> story[a].unsaved
      /\ \A b \in Attempts : b # a => story'[b] = story[b]
  BY <1>2, Telling
<1>7. QED
  BY <1>2, <1>3, <1>4, <1>5, <1>6, GivenBack

LEMMA StartHelperControl ==
    ASSUME TypeOK, TypeOK', Control, NEW a \in Attempts, StartHelper(a)
    PROVE Control'
<1>1. /\ installer \in Installers /\ app \in Apps /\ helper \in [Attempts -> Helpers]
      /\ helper' \in [Attempts -> Helpers]
  BY Types, TypesNext
<1>2. /\ a = installer.attempt /\ app.state = "running" /\ installer.task = "ready"
      /\ ~installer.cancelled
      /\ helper' = [helper EXCEPT ![a].pc = "started", ![a].parent = app.session]
      /\ UNCHANGED tx
  BY DEF StartHelper
<1>3. /\ installer.busy /\ ~installer.timer /\ ~installer.handedOff /\ helper[a].pc = "none"
      /\ ~story[a].told /\ app.native /\ mutex.owner = {App}
  BY <1>1, <1>2 DEF Control, Task, Installers
<1>4. /\ helper'[a].pc = "started" /\ helper'[a].parent = app.session
      /\ helper'[a].expected = helper[a].expected
      /\ \A b \in Attempts : b # a => helper'[b] = helper[b]
  BY <1>1, <1>2 DEF Helpers
<1>5. CASE /\ installer' = [installer EXCEPT !.task = "none", !.timer = TRUE]
           /\ UNCHANGED <<app, mutex, stage, story, faults>>
  <2>1. /\ installer'.attempt = a /\ installer'.timer /\ ~installer'.handedOff /\ installer'.busy
        /\ installer'.task = "none"
    BY <1>1, <1>2, <1>3, <1>5 DEF Installers
  <2>2. Held'
    BY <1>5 DEF Control, Held
  <2>3. Task'
    BY <1>2, <1>3, <1>4, <1>5, <2>1 DEF Task
  <2>4. ASSUME NEW b \in Attempts
        PROVE Lock(b)' /\ Story(b)'
    <3>1. Lock(b) /\ Story(b) /\ b # App
      BY AttemptsAre DEF Control
    <3>2. CASE b = a
      <4>1. ~Began(a) /\ ~Began(a)' /\ ~ a > installer'.attempt
            /\ "failed" \notin stage[a].notes
        BY <1>1, <1>2, <1>3, <2>1, <3>1, <3>2 DEF Story, Plan, Began, Failed, Installers
      <4>2. Lock(b)'
        BY <1>1, <1>3, <1>4, <1>5, <3>1, <3>2 DEF Lock, Inside, Apps
      <4>3. Fresh(b)' /\ Failed(b)' /\ Waits(b)'
        BY <1>4, <1>5, <2>1, <3>2, <4>1 DEF Fresh, Failed, Waits
      <4>4. Revoked(b)'
        BY <1>3, <1>5, <3>2 DEF Revoked
      <4>5. Sent(b)' /\ Plan(b)'
        BY <1>2, <1>4, <3>1, <3>2, <4>1 DEF Story, Sent, Plan, Past
      <4>6. QED
        BY <4>2, <4>3, <4>4, <4>5 DEF Story
    <3>3. CASE b # a
      <4>1. Same(b) /\ Left(b)
        BY <1>2, <1>4, <1>5, <2>1, <3>3 DEF Same, Left, Began
      <4>2. StaysFor(b) /\ Keeps(b)
        BY <1>1, <1>2, <1>4, <1>5, <3>3 DEF StaysFor, Keeps, ParentGone, Stuck, Apps
      <4>3. QED
        BY <4>1, <4>2, Elsewhere
    <3>4. QED
      BY <3>2, <3>3
  <2>5. QED
    BY <2>2, <2>3, <2>4 DEF Control
<1>6. ASSUME NEW saved \in BOOLEAN, SavesCancel(a, saved), Told(a, saved), NativeInstallFailed,
             installer' = [installer EXCEPT !.busy = FALSE, !.task = "none"]
      PROVE Control'
  <2>1. /\ installer'.attempt = a /\ ~installer'.timer /\ ~installer'.handedOff
        /\ ~installer'.busy /\ installer'.task = "none"
    BY <1>1, <1>2, <1>3, <1>6 DEF Installers
  <2>2. /\ app'.state = app.state /\ app'.session = app.session
        /\ mutex'.handles = mutex.handles \ {App} /\ mutex'.owner = mutex.owner \ {App}
    BY <1>6, NativeInstallFails
  <2>3. /\ story'[a].told /\ story'[a].committed = story[a].committed
        /\ story'[a].unsaved <=> story[a].unsaved \/ ~saved
        /\ \A b \in Attempts : b # a => story'[b] = story[b]
    BY <1>6, Telling
  <2>4. /\ saved => "cancel" \in stage'[a].notes
        /\ "failed" \in stage'[a].notes <=> "failed" \in stage[a].notes
        /\ \A b \in Attempts : b # a => stage'[b] = stage[b]
    BY <1>6, Saving
  <2>5. QED
    BY <1>2, <1>3, <1>4, <2>1, <2>2, <2>3, <2>4, GivenBack, ZenonT(60)
<1>7. QED
  BY <1>5, <1>6 DEF StartHelper

LEMMA HelperFailedControl ==
    ASSUME TypeOK, TypeOK', Control, NEW a \in Attempts, HelperFailed(a)
    PROVE Control'
<1>1. installer \in Installers /\ Failed(a) /\ Task
  BY Types DEF Control, Story
<1>2. /\ a = installer.attempt /\ app.state = "running" /\ installer.timer
      /\ "failed" \in stage[a].notes
      /\ installer' = [installer EXCEPT !.timer = FALSE, !.busy = FALSE]
      /\ Told(a, TRUE) /\ NativeInstallFailed /\ UNCHANGED <<tx, helper, stage>>
  BY DEF HelperFailed, txVars
<1>3. installer.busy /\ installer.task = "none" /\ ~installer.handedOff
      /\ helper[a].pc \in {"ended", "message"}
  BY <1>1, <1>2 DEF Task, Failed
<1>4. /\ installer'.attempt = a /\ ~installer'.timer /\ ~installer'.handedOff /\ ~installer'.busy
      /\ installer'.task = "none"
  BY <1>1, <1>2, <1>3 DEF Installers
<1>5. /\ app'.state = app.state /\ app'.session = app.session
      /\ mutex'.handles = mutex.handles \ {App} /\ mutex'.owner = mutex.owner \ {App}
  BY <1>2, NativeInstallFails
<1>6. /\ story'[a].told /\ story'[a].committed = story[a].committed
      /\ story'[a].unsaved <=> story[a].unsaved
      /\ \A b \in Attempts : b # a => story'[b] = story[b]
  BY <1>2, Telling
<1>7. CASE helper[a].pc = "message"
  BY <1>2, <1>3, <1>4, <1>5, <1>6, <1>7, GivenBack
<1>8. CASE helper[a].pc = "ended"
  <2>1. a \notin mutex.handles /\ a \notin mutex.owner
    BY <1>8 DEF Control, Lock, Inside
  <2>2. QED
    BY <1>2, <1>3, <1>4, <1>5, <1>6, <1>8, <2>1, GivenBack
<1>9. QED
  BY <1>3, <1>7, <1>8

LEMMA HelperTooLateControl ==
    ASSUME TypeOK, TypeOK', Control, NEW a \in Attempts, HelperTooLate(a)
    PROVE Control'
<1>1. /\ installer \in Installers /\ Task /\ Held /\ app \in Apps /\ mutex \in Mutexes
      /\ helper \in [Attempts -> Helpers] /\ App \in Holders /\ a \in Holders
  BY Types, AttemptsAre DEF Control
<1>2. /\ a = installer.attempt /\ app.state = "running" /\ installer.timer
      /\ installer' = [installer EXCEPT !.timer = FALSE, !.busy = FALSE]
      /\ helper' = [helper EXCEPT ![a].pc = "ended"]
      /\ Told(a, TRUE) /\ app' = [app EXCEPT !.native = FALSE]
      /\ mutex' = Orphaned(Released(mutex, App), a) /\ UNCHANGED tx
  BY DEF HelperTooLate
<1>3. PICK saved \in BOOLEAN : SavesCancel(a, saved)
  BY DEF HelperTooLate
<1>4. installer.busy /\ installer.task = "none" /\ ~installer.handedOff
  BY <1>1, <1>2 DEF Task
<1>5. /\ installer'.attempt = a /\ ~installer'.timer /\ ~installer'.handedOff /\ ~installer'.busy
      /\ installer'.task = "none" /\ app'.state = app.state /\ app'.session = app.session
  BY <1>1, <1>2, <1>4 DEF Installers, Apps
<1>6. /\ mutex'.handles = mutex.handles \ {App, a} /\ mutex'.owner = mutex.owner \ {App, a}
  <2>1. mutex.owner \subseteq mutex.handles
    BY <1>1 DEF Held
  <2>2. /\ Released(mutex, App) \in Mutexes
        /\ Released(mutex, App).handles = mutex.handles \ {App}
        /\ Released(mutex, App).owner = mutex.owner \ {App}
    BY <1>1, <2>1, Releases
  <2>3. Released(mutex, App).owner \subseteq Released(mutex, App).handles
    BY <2>1, <2>2
  <2>4. QED
    BY <1>1, <1>2, <2>2, <2>3, Orphans
<1>7. /\ story'[a].told /\ story'[a].committed = story[a].committed
      /\ story'[a].unsaved <=> story[a].unsaved
      /\ \A b \in Attempts : b # a => story'[b] = story[b]
  BY <1>2, Telling
<1>8. /\ "failed" \in stage'[a].notes <=> "failed" \in stage[a].notes
      /\ \A b \in Attempts : b # a => stage'[b] = stage[b]
  BY <1>3, Saving
<1>9. /\ helper'[a].pc = "ended" /\ helper'[a].parent = helper[a].parent
      /\ helper'[a].expected = helper[a].expected
      /\ \A b \in Attempts : b # a => helper'[b] = helper[b]
  BY <1>1, <1>2 DEF Helpers
<1>10. helper[a].pc # "none"
  BY <1>1, <1>2 DEF Task
<1>11. QED
  BY <1>2, <1>4, <1>5, <1>6, <1>7, <1>8, <1>9, <1>10, GivenBack

LEMMA HandOffControl ==
    ASSUME TypeOK, TypeOK', Control, NEW a \in Attempts, HandOff(a)
    PROVE Control'
<1>1. /\ installer \in Installers /\ app \in Apps /\ story \in [Attempts -> Tales]
      /\ Task /\ Held
  BY Types DEF Control
<1>2. /\ a = installer.attempt /\ app.state = "running" /\ installer.timer
      /\ installer' = [installer EXCEPT !.timer = FALSE, !.handedOff = TRUE]
      /\ app' = [app EXCEPT !.native = FALSE, !.state = "exiting"]
      /\ story' = [story EXCEPT ![a].committed = TRUE]
      /\ UNCHANGED <<tx, mutex, helper, stage>>
  BY DEF HandOff, txVars
<1>3. installer.busy /\ installer.task = "none"
  BY <1>1, <1>2 DEF Task
<1>4. /\ installer'.attempt = a /\ ~installer'.timer /\ installer'.handedOff /\ installer'.busy
      /\ installer'.task = "none" /\ app'.state = "exiting" /\ app'.session = app.session
  BY <1>1, <1>2, <1>3 DEF Installers, Apps
<1>5. /\ story'[a].told = story[a].told /\ story'[a].unsaved = story[a].unsaved
      /\ story'[a].committed /\ \A b \in Attempts : b # a => story'[b] = story[b]
  BY <1>1, <1>2 DEF Tales
<1>6. Held'
  BY <1>1, <1>2, <1>4 DEF Held
<1>7. Task'
  BY <1>4, <1>5 DEF Task
<1>8. ASSUME NEW b \in Attempts
      PROVE Lock(b)' /\ Story(b)'
  <2>1. Lock(b) /\ Story(b)
    BY DEF Control
  <2>2. Keeps(b)
    BY <1>1, <1>2, <1>4 DEF Keeps, Apps
  <2>3. CASE b = a
    <3>1. ~Past(a) /\ helper[a].pc # "left"
      BY <1>2, <1>3, <2>1, <2>3 DEF Story, Sent
    <3>2. ~Past(a)'
      BY <1>2, <3>1 DEF Past, Began
    <3>3. ~ a > installer'.attempt
      BY <1>1, <1>2, <1>4 DEF Installers
    <3>4. Fresh(b)' /\ Sent(b)' /\ Waits(b)'
      BY <1>2, <1>5, <2>3, <3>1, <3>2, <3>3 DEF Fresh, Sent, Waits
    <3>5. Revoked(b)' /\ Failed(b)' /\ Plan(b)'
      BY <1>2, <1>4, <1>5, <2>1, <2>3 DEF Story, Revoked, Failed, Plan, Began
    <3>6. QED
      BY <2>1, <2>2, <3>4, <3>5, LockStill DEF Story
  <2>4. CASE b # a
    <3>1. Same(b) /\ Left(b)
      BY <1>2, <1>4, <1>5, <2>4 DEF Same, Left, Began
    <3>2. StaysFor(b)
      BY <1>2, <1>4, <2>4 DEF StaysFor, ParentGone, Stuck
    <3>3. QED
      BY <2>2, <3>1, <3>2, Elsewhere
  <2>5. QED
    BY <2>3, <2>4
<1>9. QED
  BY <1>6, <1>7, <1>8 DEF Control

\* The state that a cancel leaves.
LEMMA Cancels ==
    ASSUME TypeOK, Control, NEW a \in Attempts, NEW handedOff \in BOOLEAN, Cancel(a, handedOff)
    PROVE /\ installer.busy
          /\ installer'.attempt = installer.attempt /\ ~installer'.timer /\ ~installer'.handedOff
          /\ installer'.cancelled /\ installer'.task = installer.task
          /\ installer'.busy <=> ~installer.timer /\ ~handedOff
          /\ story'[a].told /\ story'[a].committed = story[a].committed
          /\ story[a].unsaved => story'[a].unsaved
          /\ \A b \in Attempts : b # a => story'[b] = story[b] /\ stage'[b] = stage[b]
          /\ story'[a].unsaved \/ "cancel" \in stage'[a].notes
          /\ "failed" \in stage'[a].notes <=> "failed" \in stage[a].notes
<1>1. installer \in Installers
  BY Types
<1>2. /\ installer.busy
      /\ installer' = Cancelled([installer EXCEPT !.handedOff = handedOff])
  BY DEF Cancel
<1>3. PICK saved \in BOOLEAN : SavesCancel(a, saved) /\ Told(a, saved)
  BY DEF Cancel
<1>4. /\ story'[a].told /\ story'[a].committed = story[a].committed
      /\ story'[a].unsaved <=> story[a].unsaved \/ ~saved
      /\ \A b \in Attempts : b # a => story'[b] = story[b]
  BY <1>3, Telling
<1>5. /\ saved => "cancel" \in stage'[a].notes
      /\ "failed" \in stage'[a].notes <=> "failed" \in stage[a].notes
      /\ \A b \in Attempts : b # a => stage'[b] = stage[b]
  BY <1>3, Saving
<1>6. /\ installer'.attempt = installer.attempt /\ ~installer'.timer /\ ~installer'.handedOff
      /\ installer'.cancelled /\ installer'.task = installer.task
      /\ installer'.busy <=> ~installer.timer /\ ~handedOff
  BY <1>1, <1>2 DEF Cancelled, Installers
<1>7. QED
  BY <1>2, <1>4, <1>5, <1>6

LEMMA CancelControl ==
    ASSUME TypeOK, TypeOK', Control, NEW a \in Attempts, NEW handedOff \in BOOLEAN,
           a = installer.attempt, app.state = "running", handedOff => installer.timer,
           Cancel(a, handedOff), NativeInstallFailed, UNCHANGED <<tx, helper>>
    PROVE Control'
<1>1. /\ installer.busy
      /\ installer'.attempt = a /\ ~installer'.timer /\ ~installer'.handedOff
      /\ installer'.cancelled /\ installer'.task = installer.task
      /\ installer'.busy <=> ~installer.timer
      /\ story'[a].told /\ story'[a].committed = story[a].committed
      /\ story[a].unsaved => story'[a].unsaved
      /\ \A b \in Attempts : b # a => story'[b] = story[b] /\ stage'[b] = stage[b]
      /\ story'[a].unsaved \/ "cancel" \in stage'[a].notes
      /\ "failed" \in stage'[a].notes <=> "failed" \in stage[a].notes
  BY Cancels
<1>2. /\ app'.state = app.state /\ app'.session = app.session
      /\ mutex'.handles = mutex.handles \ {App} /\ mutex'.owner = mutex.owner \ {App}
  BY NativeInstallFails
<1>3. installer.timer => installer.task = "none"
  BY DEF Control, Task
<1>4. installer'.busy \/ installer'.task = "none"
  BY <1>1, <1>3
<1>5. helper[a].pc = "ended" => a \notin mutex.handles /\ a \notin mutex.owner
  BY DEF Control, Lock, Inside
<1>6. QED
  BY <1>1, <1>2, <1>4, <1>5, GivenBack

LEMMA QuitControl ==
    ASSUME TypeOK, TypeOK', Control, Quit
    PROVE Control'
<1>1. app \in Apps /\ Task /\ Held
  BY Types DEF Control
<1>2. /\ app.state = "running" /\ ~app.native /\ app' = [app EXCEPT !.state = "exiting"]
      /\ UNCHANGED <<tx, installer, mutex, helper, stage, story>>
  BY DEF Quit, txVars
<1>3. app'.state = "exiting" /\ app'.session = app.session
  BY <1>1, <1>2 DEF Apps
<1>4. ~installer.timer /\ (installer.task # "none" => installer.cancelled) /\ ~installer.handedOff
  BY <1>1, <1>2 DEF Task
<1>5. Held' /\ Task'
  BY <1>1, <1>2, <1>3, <1>4 DEF Held, Task
<1>6. ASSUME NEW b \in Attempts
      PROVE Lock(b)' /\ Story(b)'
  <2>1. Same(b) /\ Left(b) /\ Keeps(b)
    BY <1>1, <1>2, <1>3 DEF Same, Left, Keeps, Began, Apps
  <2>2. StaysFor(b)
    BY <1>2, <1>3 DEF StaysFor, ParentGone, Stuck
  <2>3. QED
    BY <2>1, <2>2, Elsewhere
<1>7. QED
  BY <1>5, <1>6 DEF Control

LEMMA AppEndsControl ==
    ASSUME TypeOK, TypeOK', Control, AppEnds
    PROVE Control'
<1>1. /\ app \in Apps /\ Task /\ Held /\ mutex \in Mutexes /\ App \in Holders
      /\ installer \in Installers
  BY Types, AttemptsAre DEF Control
<1>2. /\ app.state = "exiting" /\ app' = [app EXCEPT !.state = "gone"]
      /\ installer' = [NewInstaller EXCEPT !.attempt = installer.attempt]
      /\ mutex' = Released(mutex, App)
      /\ UNCHANGED <<tx, helper>>
  BY DEF AppEnds
<1>3. /\ app'.state = "gone" /\ app'.session = app.session
      /\ installer'.attempt = installer.attempt /\ ~installer'.busy /\ ~installer'.timer
      /\ installer'.task = "none" /\ ~installer'.handedOff
  BY <1>1, <1>2 DEF Apps, NewInstaller
<1>4. /\ mutex'.handles = mutex.handles \ {App} /\ mutex'.owner = mutex.owner \ {App}
      /\ mutex'.abandoned <=> mutex.abandoned /\ ~ mutex.handles \subseteq {App}
  BY <1>1, <1>2, Releases DEF Held
<1>5. ~installer.timer /\ ~Stuck
  BY <1>1, <1>2 DEF Task, Stuck
<1>6. Held' /\ Task'
  BY <1>1, <1>3, <1>4 DEF Held, Task
<1>7. ASSUME NEW b \in Attempts
      PROVE /\ Lock(b)' /\ Left(b) /\ StaysFor(b) /\ Lock(b) /\ Story(b)
            /\ Keeps(b) /\ helper'[b] = helper[b] /\ (Began(b)' <=> Began(b))
            /\ tx'[b].old = tx[b].old
  <2>1. Lock(b) /\ Story(b) /\ b # App /\ helper[b].pc \notin {"left", "owner", "replacing"}
    BY <1>2, AttemptsAre DEF Control, Lock
  <2>2. Keeps(b)
    BY <1>1, <1>2, <1>3, <1>4, <2>1 DEF Keeps, Apps
  <2>3. Left(b) /\ StaysFor(b)
    BY <1>3, <1>5 DEF Left, StaysFor, ParentGone
  <2>4. QED
    BY <1>2, <2>1, <2>2, <2>3, LockStill DEF Began
<1>8. CASE UNCHANGED <<stage, story, faults>>
  <2>1. ASSUME NEW b \in Attempts
        PROVE Lock(b)' /\ Story(b)'
    <3>1. Same(b)
      BY <1>7, <1>8 DEF Same
    <3>2. QED
      BY <1>7, <3>1, Elsewhere
  <2>2. QED
    BY <1>6, <2>1 DEF Control
<1>9. ASSUME installer.busy, NEW saved \in BOOLEAN, SavesCancel(installer.attempt, saved),
             Told(installer.attempt, saved)
      PROVE Control'
  <2>1. PICK a \in Attempts : a = installer.attempt
    BY <1>1, <1>9 DEF Task
  <2>2. SavesCancel(a, saved) /\ Told(a, saved)
    BY <1>9, <2>1
  <2>3. /\ story'[a].told /\ story'[a].committed = story[a].committed
        /\ story'[a].unsaved <=> story[a].unsaved \/ ~saved
        /\ \A b \in Attempts : b # a => story'[b] = story[b]
    BY <2>2, Telling
  <2>4. /\ saved => "cancel" \in stage'[a].notes
        /\ \A n : n # "cancel" => (n \in stage'[a].notes <=> n \in stage[a].notes)
        /\ \A b \in Attempts : b # a => stage'[b] = stage[b]
    BY <2>2, Saving
  <2>5. ASSUME NEW b \in Attempts, b # a
        PROVE Story(b)'
    <3>1. Same(b)
      BY <1>7, <2>3, <2>4, <2>5 DEF Same
    <3>2. QED
      BY <1>7, <3>1, Elsewhere
  <2>6. Story(a)'
    <3>1. ~Past(a) /\ helper[a].pc # "left" /\ Story(a)
      BY <1>7, <1>9, <2>1 DEF Story, Sent
    <3>2. ~Past(a)' /\ helper'[a].pc # "left" /\ helper'[a] = helper[a]
      BY <1>7, <3>1 DEF Past
    <3>3. Fresh(a)' /\ Sent(a)' /\ Waits(a)' /\ Plan(a)'
      <4>1. ~ a > installer'.attempt
        BY <1>1, <1>3, <2>1 DEF Installers
      <4>2. QED
        BY <1>3, <1>7, <2>3, <3>1, <3>2, <4>1 DEF Fresh, Sent, Waits, Story, Plan
    <3>4. Revoked(a)' /\ Failed(a)'
      BY <2>3, <2>4, <3>1, <3>2 DEF Story, Revoked, Failed
    <3>5. QED
      BY <3>3, <3>4 DEF Story
  <2>7. ASSUME NEW b \in Attempts
        PROVE Lock(b)' /\ Story(b)'
    BY <1>7, <2>5, <2>6
  <2>8. QED
    BY <1>6, <2>7 DEF Control
<1>10. QED
  BY <1>8, <1>9 DEF AppEnds

LEMMA AppKilledControl ==
    ASSUME TypeOK, TypeOK', Control, AppKilled
    PROVE Control'
<1>1. /\ app \in Apps /\ Task /\ Held /\ mutex \in Mutexes /\ App \in Holders
      /\ installer \in Installers
  BY Types, AttemptsAre DEF Control
<1>2. /\ app.state # "gone" /\ app' = [app EXCEPT !.state = "gone", !.native = FALSE]
      /\ installer' = [NewInstaller EXCEPT !.attempt = installer.attempt]
      /\ mutex' = Orphaned(mutex, App)
      /\ UNCHANGED <<tx, helper, stage, story>>
  BY DEF AppKilled, txVars
<1>3. /\ app'.state = "gone" /\ app'.session = app.session
      /\ installer'.attempt = installer.attempt /\ ~installer'.busy /\ ~installer'.timer
      /\ installer'.task = "none" /\ ~installer'.handedOff
  BY <1>1, <1>2 DEF Apps, NewInstaller
<1>4. /\ mutex'.handles = mutex.handles \ {App} /\ mutex'.owner = mutex.owner \ {App}
      /\ mutex'.abandoned <=> ~ mutex.handles \subseteq {App} /\ (mutex.abandoned \/ mutex.owner = {App})
  BY <1>1, <1>2, Orphans DEF Held
<1>5. ~Stuck
  BY <1>1, <1>2 DEF Stuck
<1>6. Held' /\ Task'
  BY <1>1, <1>3, <1>4 DEF Held, Task
<1>7. ASSUME NEW b \in Attempts
      PROVE Lock(b)' /\ Story(b)'
  <2>1. Lock(b) /\ Story(b) /\ b # App /\ helper[b].pc \notin {"left", "owner", "replacing"}
    BY <1>2, AttemptsAre DEF Control, Lock
  <2>2. Keeps(b)
    BY <1>1, <1>2, <1>3, <1>4, <2>1 DEF Keeps, Apps
  <2>3. Left(b) /\ Same(b)
    BY <1>2, <1>3 DEF Left, Same, Began
  <2>4. Waits(b)'
    <3>1. CASE story[b].committed \/ story[b].told
      BY <1>2, <3>1 DEF Waits
    <3>2. CASE helper[b].pc = "started"
      BY <1>2, <1>3, <3>2 DEF Waits, ParentGone
    <3>3. CASE /\ ~story[b].committed /\ ~story[b].told
               /\ helper[b].pc \in {"opened", "ready", "left"}
      <4>1. b \in mutex.handles
        BY <2>1, <3>3 DEF Lock, Inside
      <4>2. installer.timer
        BY <1>5, <2>1, <3>3 DEF Story, Waits
      <4>3. mutex.owner = {App} /\ ~ mutex.handles \subseteq {App}
        BY <1>1, <2>1, <4>1, <4>2 DEF Task
      <4>4. b \in mutex'.handles /\ Stuck'
        BY <1>3, <1>4, <2>1, <4>1, <4>3 DEF Stuck
      <4>5. QED
        BY <4>4 DEF Waits
    <3>4. CASE helper[b].pc \notin {"started", "opened", "ready", "left"}
      BY <1>2, <3>4 DEF Waits
    <3>5. QED
      BY <3>1, <3>2, <3>3, <3>4
  <2>5. QED
    BY <2>1, <2>2, <2>3, <2>4, LockStill, StoryStill
<1>8. QED
  BY <1>6, <1>7 DEF Control

\* A new session.
LEMMA Enters ==
    ASSUME TypeOK, TypeOK', Control, mutex.handles = {}, app.state = "gone",
           app'.state = "running", app'.session = app.session + 1,
           UNCHANGED <<installer, mutex>>, NEW b \in Attempts,
           helper'[b].parent = helper[b].parent
    PROVE StaysFor(b) /\ (helper'[b].pc = helper[b].pc => Keeps(b))
<1>1. app \in Apps /\ helper \in [Attempts -> Helpers] /\ Lock(b)
  BY Types DEF Control
<1>2. app.session \in Nat /\ app'.session \in Nat /\ app'.session > app.session
  BY <1>1 DEF Apps
<1>3. ParentGone(b)'
  BY <1>1, <1>2 DEF Lock, ParentGone, Helpers
<1>4. StaysFor(b)
  BY <1>3 DEF StaysFor
<1>5. helper[b].pc \notin Inside
  BY <1>1 DEF Lock
<1>6. QED
  BY <1>2, <1>4, <1>5 DEF Keeps, Inside

LEMMA UserStartsControl ==
    ASSUME TypeOK, TypeOK', Control, UserStarts
    PROVE Control'
<1>1. /\ app.state = "gone" /\ mutex.handles = {} /\ app' = Entered(mutex)
      /\ UNCHANGED <<tx, installer, mutex, helper, stage, story>>
  BY DEF UserStarts, Exists, txVars
<1>2. app'.state = "running" /\ app'.session = app.session + 1
  BY <1>1 DEF Entered
<1>3. Held'
  BY <1>1 DEF Control, Held
<1>4. Task'
  BY <1>1, <1>2 DEF Control, Task
<1>5. ASSUME NEW b \in Attempts
      PROVE Lock(b)' /\ Story(b)'
  <2>1. Same(b) /\ Left(b)
    BY <1>1 DEF Same, Left, Began
  <2>2. StaysFor(b) /\ Keeps(b)
    BY <1>1, <1>2, Enters
  <2>3. QED
    BY <2>1, <2>2, Elsewhere
<1>6. QED
  BY <1>3, <1>4, <1>5 DEF Control

-----------------------------------------------------------------------------
(* Steps of the helper *)

\* Nothing of the application changes, and of one attempt's transaction at most how far it is.
HelperOf(a) ==
    /\ UNCHANGED <<installer, story>>
    /\ \A b \in Attempts : b # a => /\ helper'[b] = helper[b] /\ stage'[b] = stage[b]
                                    /\ tx'[b] = tx[b]
    /\ tx'[a].old = tx[a].old /\ helper'[a].parent = helper[a].parent
    /\ helper'[a].expected = helper[a].expected

LEMMA HelperSame ==
    ASSUME NEW a \in Attempts, HelperOf(a), NEW b \in Attempts, b # a
    PROVE Same(b) /\ Left(b)
BY DEF HelperOf, Same, Left, Began

LEMMA HelperTask ==
    ASSUME Control, NEW a \in Attempts, HelperOf(a), UNCHANGED app, helper[a].pc # "none",
           helper'[a].pc # "none",
           mutex.owner = {App} => mutex'.owner = {App}
    PROVE Task'
<1>1. Task
  BY DEF Control
<1>2. installer.attempt \in Attempts => installer.attempt = a \/ helper'[installer.attempt] = helper[installer.attempt]
  BY DEF HelperOf
<1>3. installer.task # "none" => installer.attempt # a
  BY <1>1 DEF Task
<1>4. QED
  BY <1>1, <1>2, <1>3 DEF Task, HelperOf

\* What is written of a failure.
LEMMA Failing ==
    ASSUME TypeOK, NEW a \in Attempts, NEW m, NEW left \in BOOLEAN, HelperFails(a, m, left)
    PROVE /\ helper'[a].pc = IF left THEN "message" ELSE "ended"
          /\ helper'[a].parent = helper[a].parent /\ helper'[a].expected = helper[a].expected
          /\ mutex' = IF left THEN m ELSE Orphaned(m, a)
          /\ stage'[a].notes = stage[a].notes \cup {"failed"}
          /\ \A b \in Attempts : b # a => helper'[b] = helper[b] /\ stage'[b] = stage[b]
<1>1. helper \in [Attempts -> Helpers] /\ stage \in [Attempts -> Stages]
  BY Types
<1>2. /\ helper' = [helper EXCEPT ![a].pc = IF left THEN "message" ELSE "ended", ![a].left = left]
      /\ stage' = [stage EXCEPT ![a].notes = @ \cup {"failed"}]
      /\ mutex' = IF left THEN m ELSE Orphaned(m, a)
  BY DEF HelperFails
<1>3. QED
  BY <1>1, <1>2 DEF Helpers, Stages

\* The end of a helper.
LEMMA EndsControl ==
    ASSUME TypeOK, TypeOK', Control, NEW a \in Attempts, HelperOf(a), UNCHANGED app,
           helper[a].pc # "none", helper'[a].pc = "ended", tx'[a].step = tx[a].step,
           mutex' = Orphaned(mutex, a)
    PROVE Control'
<1>1. /\ mutex \in Mutexes /\ a \in Holders /\ a # App /\ Held /\ app \in Apps
      /\ helper \in [Attempts -> Helpers]
  BY Types, AttemptsAre DEF Control
<1>2. /\ mutex'.handles = mutex.handles \ {a} /\ mutex'.owner = mutex.owner \ {a}
      /\ mutex'.abandoned <=> ~ mutex.handles \subseteq {a} /\ (mutex.abandoned \/ mutex.owner = {a})
  BY <1>1, Orphans DEF Held
<1>3. Held'
  BY <1>1, <1>2 DEF Held
<1>4. Task'
  BY <1>1, <1>2, HelperTask
<1>5. ASSUME NEW b \in Attempts, b # a
      PROVE Lock(b)' /\ Story(b)'
  <2>1. Lock(b)
    BY DEF Control
  <2>2. Keeps(b)
    <3>1. helper'[b] = helper[b]
      BY <1>5 DEF HelperOf
    <3>2. helper[b].pc \in {"owner", "replacing"} => mutex.owner = {b} /\ b \in mutex.handles /\ ~mutex.abandoned
      BY <2>1 DEF Lock, Inside
    <3>3. helper[b].pc \in {"owner", "replacing"} => mutex'.owner = mutex.owner /\ mutex'.abandoned = mutex.abandoned
      BY <1>1, <1>2, <1>5, <3>2 DEF Mutexes
    <3>4. QED
      BY <1>1, <1>2, <1>5, <3>1, <3>3 DEF Keeps, Apps
  <2>3. b \in mutex.handles /\ Stuck => b \in mutex'.handles /\ Stuck'
    <3>1. ASSUME b \in mutex.handles, Stuck
          PROVE b \in mutex'.handles /\ Stuck'
      <4>1. b \in mutex'.handles /\ ~ mutex.handles \subseteq {a} /\ app'.state = "gone"
        BY <1>2, <1>5, <3>1 DEF Stuck
      <4>2. CASE mutex.abandoned
        BY <1>2, <4>1, <4>2 DEF Stuck
      <4>3. CASE mutex.owner = {a}
        BY <1>2, <4>1, <4>3 DEF Stuck
      <4>4. ASSUME NEW c \in Attempts, c # a, mutex.owner = {c}, helper[c].pc = "message"
            PROVE Stuck'
        <5>1. mutex'.owner = {c} /\ helper'[c].pc = "message"
          BY <1>2, <4>4 DEF HelperOf
        <5>2. QED
          BY <4>1, <5>1 DEF Stuck
      <4>5. QED
        BY <3>1, <4>1, <4>2, <4>3, <4>4 DEF Stuck
    <3>2. QED
      BY <3>1
  <2>4. StaysFor(b)
    BY <1>5, <2>3 DEF StaysFor, ParentGone, HelperOf
  <2>5. QED
    BY <1>5, <2>2, <2>4, HelperSame, Elsewhere
<1>6. Lock(a)' /\ Story(a)'
  <2>1. Lock(a) /\ Story(a)
    BY DEF Control
  <2>2. Lock(a)'
    BY <1>1, <1>2, <2>1 DEF Lock, Inside, HelperOf
  <2>3. Began(a)' <=> Began(a)
    BY DEF Began
  <2>4. Past(a)' => Past(a)
    BY <2>3 DEF Past
  <2>5. Fresh(a)' /\ Revoked(a)' /\ Failed(a)' /\ Waits(a)'
    BY <2>1, <2>3 DEF Fresh, Revoked, Failed, Waits, Story, HelperOf
  <2>6. Sent(a)' /\ Plan(a)'
    BY <2>1, <2>3, <2>4 DEF Sent, Plan, Story, HelperOf
  <2>7. QED
    BY <2>2, <2>5, <2>6 DEF Story
<1>7. QED
  BY <1>3, <1>4, <1>5, <1>6 DEF Control

\* A helper that fails before its parent has left.
LEMMA FailsEarly ==
    ASSUME TypeOK, TypeOK', Control, NEW a \in Attempts, helper[a].pc # "none",
           HelperFails(a, mutex, FALSE), UNCHANGED <<app, installer, story, tx>>
    PROVE Control'
<1>1. /\ helper'[a].pc = "ended" /\ mutex' = Orphaned(mutex, a)
      /\ helper'[a].parent = helper[a].parent /\ helper'[a].expected = helper[a].expected
      /\ \A b \in Attempts : b # a => helper'[b] = helper[b] /\ stage'[b] = stage[b]
  BY Failing
<1>2. HelperOf(a)
  BY <1>1 DEF HelperOf
<1>3. QED
  BY <1>1, <1>2, EndsControl

\* A step to another place in the code, of a helper that keeps what it holds.
LEMMA GoesOn ==
    ASSUME TypeOK, TypeOK', Control, NEW a \in Attempts, HelperOf(a), UNCHANGED app,
           helper[a].pc # "none", helper'[a].pc # "none",
           mutex.owner = {App} => mutex'.owner = {App},
           Held', Lock(a)', Story(a)',
           \A b \in Attempts : b # a =>
               /\ b \in mutex'.handles <=> b \in mutex.handles
               /\ helper[b].pc \in {"owner", "replacing"} =>
                    mutex'.owner = mutex.owner /\ mutex'.abandoned = mutex.abandoned
               /\ b \in mutex'.owner => b \in mutex.owner
               /\ b \in mutex.handles /\ Stuck => Stuck'
    PROVE Control'
<1>1. app \in Apps
  BY Types
<1>2. ASSUME NEW b \in Attempts, b # a
      PROVE Lock(b)' /\ Story(b)'
  <2>1. Keeps(b)
    BY <1>1, <1>2 DEF Keeps, HelperOf, Apps
  <2>2. StaysFor(b)
    BY <1>2 DEF StaysFor, ParentGone, HelperOf
  <2>3. QED
    BY <1>2, <2>1, <2>2, HelperSame, Elsewhere
<1>3. Task'
  BY HelperTask
<1>4. QED
  BY <1>2, <1>3 DEF Control

LEMMA OpenMutexControl ==
    ASSUME TypeOK, TypeOK', Control, NEW a \in Attempts, OpenMutex(a)
    PROVE Control'
<1>1. /\ helper \in [Attempts -> Helpers] /\ mutex \in Mutexes /\ Held /\ Lock(a) /\ Story(a)
      /\ a # App /\ app \in Apps
  BY Types, AttemptsAre DEF Control
<1>2. helper[a].pc = "started" /\ UNCHANGED <<tx, app, installer, story>>
  BY DEF OpenMutex, txVars
<1>3. CASE ~ParentGone(a) /\ Exists
  <2>1. /\ helper' = [helper EXCEPT ![a].pc = "opened"]
        /\ mutex' = [mutex EXCEPT !.handles = @ \cup {a}] /\ UNCHANGED stage
    BY <1>3 DEF OpenMutex
  <2>2. /\ helper'[a].pc = "opened" /\ helper'[a].parent = helper[a].parent
        /\ helper'[a].expected = helper[a].expected
        /\ \A b \in Attempts : b # a => helper'[b] = helper[b]
    BY <1>1, <2>1 DEF Helpers
  <2>3. mutex'.handles = mutex.handles \cup {a} /\ mutex'.owner = mutex.owner
        /\ mutex'.abandoned = mutex.abandoned
    BY <1>1, <2>1 DEF Mutexes
  <2>4. HelperOf(a)
    BY <1>2, <2>1, <2>2 DEF HelperOf
  <2>5. Held'
    BY <1>1, <1>2, <2>3 DEF Held
  <2>6. app.state # "gone" /\ app.session = helper[a].parent
    BY <1>3 DEF ParentGone
  <2>7. Lock(a)'
    BY <1>1, <1>2, <2>2, <2>3, <2>6 DEF Lock, Inside, Apps
  <2>8. Waits(a)'
    BY <1>1, <1>2, <1>3, <2>6 DEF Waits, Story, Stuck
  <2>9. Past(a)' => Past(a)
    BY <1>2, <2>2 DEF Past, Began
  <2>10. Fresh(a)' /\ Revoked(a)' /\ Failed(a)'
    BY <1>1, <1>2, <2>1 DEF Fresh, Revoked, Failed, Story
  <2>11. Sent(a)' /\ Plan(a)'
    BY <1>1, <1>2, <2>2, <2>9 DEF Sent, Plan, Story, Began
  <2>12. ~Stuck
    BY <2>6 DEF Stuck
  <2>13. QED
    BY <1>2, <2>2, <2>3, <2>4, <2>5, <2>7, <2>8, <2>10, <2>11, <2>12, GoesOn DEF Story
<1>4. CASE HelperFails(a, mutex, FALSE)
  BY <1>2, <1>4, FailsEarly
<1>5. QED
  BY <1>3, <1>4 DEF OpenMutex

LEMMA GetReadyControl ==
    ASSUME TypeOK, TypeOK', Control, NEW a \in Attempts, GetReady(a)
    PROVE Control'
<1>1. /\ helper \in [Attempts -> Helpers] /\ stage \in [Attempts -> Stages]
      /\ Held /\ Lock(a) /\ Story(a) /\ app \in Apps
  BY Types DEF Control
<1>2. helper[a].pc = "opened" /\ UNCHANGED <<tx, app, installer, story>>
  BY DEF GetReady, txVars
<1>3. CASE /\ stage' = [stage EXCEPT ![a].notes = @ \cup {"ready"}]
           /\ helper' = [helper EXCEPT ![a].pc = "ready"]
           /\ UNCHANGED mutex
  <2>1. /\ helper'[a].pc = "ready" /\ helper'[a].parent = helper[a].parent
        /\ helper'[a].expected = helper[a].expected
        /\ \A b \in Attempts : b # a => helper'[b] = helper[b]
    BY <1>1, <1>3 DEF Helpers
  <2>2. /\ stage'[a].notes = stage[a].notes \cup {"ready"}
        /\ \A b \in Attempts : b # a => stage'[b] = stage[b]
    BY <1>1, <1>3 DEF Stages
  <2>3. HelperOf(a)
    BY <1>2, <2>1, <2>2 DEF HelperOf
  <2>4. Held' /\ Lock(a)'
    BY <1>1, <1>2, <1>3, <2>1 DEF Held, Lock, Inside
  <2>5. Stuck => Stuck'
    <3>1. ASSUME NEW b \in Attempts, helper[b].pc = "message"
          PROVE helper'[b].pc = "message"
      BY <1>2, <2>1, <3>1
    <3>2. QED
      BY <1>2, <1>3, <3>1 DEF Stuck
  <2>6. Waits(a)'
    BY <1>1, <1>2, <1>3, <2>5 DEF Waits, Story
  <2>7. Past(a)' => Past(a)
    BY <1>2, <2>1 DEF Past, Began
  <2>8. Fresh(a)' /\ Revoked(a)' /\ Failed(a)'
    BY <1>1, <1>2, <2>2 DEF Fresh, Revoked, Failed, Story
  <2>9. Sent(a)' /\ Plan(a)'
    BY <1>1, <1>2, <2>1, <2>7 DEF Sent, Plan, Story, Began
  <2>10. QED
    BY <1>2, <1>3, <2>1, <2>3, <2>4, <2>5, <2>6, <2>8, <2>9, GoesOn DEF Story
<1>4. CASE HelperFails(a, mutex, FALSE)
  BY <1>2, <1>4, FailsEarly
<1>5. QED
  BY <1>3, <1>4 DEF GetReady

LEMMA AwaitExitControl ==
    ASSUME TypeOK, TypeOK', Control, NEW a \in Attempts, AwaitExit(a)
    PROVE Control'
<1>1. /\ helper \in [Attempts -> Helpers] /\ Task /\ Held /\ Lock(a) /\ Story(a) /\ app \in Apps
  BY Types DEF Control
<1>2. helper[a].pc = "ready" /\ UNCHANGED <<tx, app, installer, story>>
  BY DEF AwaitExit, txVars
<1>3. CASE /\ ParentGone(a)
           /\ helper' = [helper EXCEPT ![a].pc = "left", ![a].left = TRUE]
           /\ UNCHANGED <<mutex, stage>>
  <2>1. /\ helper'[a].pc = "left" /\ helper'[a].parent = helper[a].parent
        /\ helper'[a].expected = helper[a].expected
        /\ \A b \in Attempts : b # a => helper'[b] = helper[b]
    BY <1>1, <1>3 DEF Helpers
  <2>2. HelperOf(a)
    BY <1>2, <1>3, <2>1 DEF HelperOf
  <2>3. a \in mutex.handles /\ app.state = "gone"
    BY <1>1, <1>2, <1>3 DEF Lock, Inside, ParentGone
  <2>4. Held' /\ Lock(a)'
    BY <1>1, <1>2, <1>3, <2>1, <2>3 DEF Held, Lock, Inside
  <2>5. Stuck => Stuck'
    <3>1. ASSUME NEW b \in Attempts, helper[b].pc = "message"
          PROVE helper'[b].pc = "message"
      BY <1>2, <2>1, <3>1
    <3>2. QED
      BY <1>2, <1>3, <3>1 DEF Stuck
  <2>6. Waits(a)'
    BY <1>1, <1>2, <1>3, <2>5 DEF Waits, Story
  <2>7. Past(a)' => Past(a)
    BY <1>2, <2>1 DEF Past, Began
  <2>8. ~installer.busy
    BY <1>1, <2>3 DEF Task
  <2>9. Fresh(a)' /\ Revoked(a)' /\ Failed(a)'
    BY <1>1, <1>2, <1>3 DEF Fresh, Revoked, Failed, Story
  <2>10. Sent(a)' /\ Plan(a)'
    BY <1>1, <1>2, <2>1, <2>7, <2>8 DEF Sent, Plan, Story, Began
  <2>11. QED
    BY <1>2, <1>3, <2>1, <2>2, <2>4, <2>5, <2>6, <2>9, <2>10, GoesOn DEF Story
<1>4. CASE HelperFails(a, mutex, FALSE)
  BY <1>2, <1>4, FailsEarly
<1>5. QED
  BY <1>3, <1>4 DEF AwaitExit

\* A helper that has seen its parent leave fails: a message is shown.
LEMMA FailsLate ==
    ASSUME TypeOK, TypeOK', Control, NEW a \in Attempts, NEW m \in Mutexes,
           helper[a].pc \notin {"none", "message", "ended"}, app.state = "gone" \/ m = mutex,
           HelperFails(a, m, TRUE), UNCHANGED <<app, installer, story>>,
           tx'[a].step = tx[a].step, tx'[a].old = tx[a].old,
           \A b \in Attempts : b # a => tx'[b] = tx[b],
           m.handles = mutex.handles, m.owner \in {mutex.owner, {}, {a}},
           m.owner # mutex.owner => a \in mutex.handles,
           \A b \in Attempts : b # a => /\ helper[b].pc \in {"owner", "replacing"} => m = mutex
                                        /\ Stuck /\ b \in mutex.handles =>
                                              m = mutex \/ m.owner = {a}
    PROVE Control'
<1>1. /\ helper'[a].pc = "message" /\ mutex' = m
      /\ helper'[a].parent = helper[a].parent /\ helper'[a].expected = helper[a].expected
      /\ stage'[a].notes = stage[a].notes \cup {"failed"}
      /\ \A b \in Attempts : b # a => helper'[b] = helper[b] /\ stage'[b] = stage[b]
  BY Failing
<1>2. HelperOf(a)
  BY <1>1 DEF HelperOf
<1>3. /\ Task /\ Held /\ Lock(a) /\ Story(a) /\ a # App /\ app \in Apps
  BY Types, AttemptsAre DEF Control
<1>4. Held'
  BY <1>1, <1>3 DEF Held
<1>5. Lock(a)'
  BY <1>1, <1>3 DEF Lock, Inside
<1>6. Past(a)' => Past(a)
  BY <1>1 DEF Past, Began
<1>7. Story(a)'
  <2>1. Fresh(a)' /\ Revoked(a)' /\ Failed(a)' /\ Waits(a)'
    BY <1>1, <1>3 DEF Fresh, Revoked, Failed, Waits, Story
  <2>2. Sent(a)' /\ Plan(a)'
    BY <1>1, <1>3, <1>6 DEF Sent, Plan, Story, Began
  <2>3. QED
    BY <2>1, <2>2 DEF Story
<1>8. mutex.owner = {App} => mutex'.owner = {App}
  <2>1. CASE m = mutex
    BY <1>1, <2>1
  <2>2. CASE app.state = "gone"
    <3>1. mutex.owner # {App}
      BY <1>3, <2>2 DEF Held
    <3>2. QED
      BY <3>1
  <2>3. QED
    BY <2>1, <2>2
<1>9. ASSUME NEW b \in Attempts, b # a, b \in mutex.handles, Stuck
      PROVE Stuck'
  <2>1. app'.state = "gone"
    BY <1>9 DEF Stuck
  <2>2. CASE m.owner = {a}
    BY <1>1, <2>1, <2>2 DEF Stuck
  <2>3. CASE m = mutex
    <3>1. ASSUME NEW c \in Attempts, helper[c].pc = "message"
          PROVE helper'[c].pc = "message"
      BY <1>1, <3>1
    <3>2. QED
      BY <1>1, <1>9, <2>1, <2>3, <3>1 DEF Stuck
  <2>4. QED
    BY <1>9, <2>2, <2>3
<1>10. QED
  BY <1>1, <1>2, <1>4, <1>5, <1>7, <1>8, <1>9, GoesOn

LEMMA AcquireControl ==
    ASSUME TypeOK, TypeOK', Control, NEW a \in Attempts, Acquire(a)
    PROVE Control'
<1>1. /\ helper \in [Attempts -> Helpers] /\ mutex \in Mutexes /\ Task /\ Held /\ Lock(a) /\ Story(a)
      /\ a # App /\ a \in Holders /\ app \in Apps
  BY Types, AttemptsAre DEF Control
<1>2. helper[a].pc = "left" /\ UNCHANGED <<tx, app, installer, story>>
  BY DEF Acquire, txVars
<1>3. app.state = "gone" /\ a \in mutex.handles /\ ~installer.busy
  BY <1>1, <1>2 DEF Lock, Inside, Task
<1>4. ASSUME NEW b \in Attempts, b # a, helper[b].pc \in {"owner", "replacing"}
      PROVE mutex.owner = {b} /\ ~mutex.abandoned /\ ~Free
  BY <1>4 DEF Control, Lock, Free
<1>5. CASE /\ "cancel" \notin stage[a].notes /\ Free
           /\ mutex' = [mutex EXCEPT !.owner = {a}, !.abandoned = FALSE]
           /\ helper' = [helper EXCEPT ![a].pc = "owner"]
           /\ UNCHANGED stage
  <2>1. /\ helper'[a].pc = "owner" /\ helper'[a].parent = helper[a].parent
        /\ helper'[a].expected = helper[a].expected
        /\ \A b \in Attempts : b # a => helper'[b] = helper[b]
    BY <1>1, <1>5 DEF Helpers
  <2>2. mutex'.owner = {a} /\ ~mutex'.abandoned /\ mutex'.handles = mutex.handles
    BY <1>1, <1>5 DEF Mutexes
  <2>3. HelperOf(a)
    BY <1>2, <1>5, <2>1 DEF HelperOf
  <2>4. Held' /\ Lock(a)'
    BY <1>1, <1>2, <1>3, <2>1, <2>2 DEF Held, Lock, Inside
  <2>5. ~Stuck
    BY <1>5 DEF Stuck, Free
  <2>6. /\ story[a].committed \/ story[a].unsaved
        /\ ~story[a].told \/ story[a].unsaved
    <3>1. story[a].committed \/ story[a].told
      BY <1>1, <1>2, <1>3, <2>5 DEF Story, Waits, Task
    <3>2. story[a].told => story[a].unsaved
      BY <1>1, <1>2, <1>5 DEF Story, Revoked
    <3>3. QED
      BY <3>1, <3>2
  <2>7. Fresh(a)' /\ Revoked(a)' /\ Failed(a)' /\ Waits(a)'
    <3>1. "failed" \notin stage[a].notes /\ ~ a > installer.attempt
      BY <1>1, <1>2 DEF Story, Failed, Fresh
    <3>2. QED
      BY <1>2, <1>5, <2>1, <2>6, <3>1 DEF Fresh, Revoked, Failed, Waits
  <2>8. Sent(a)'
    BY <1>2, <1>3, <2>6 DEF Sent
  <2>9. Plan(a)'
    BY <1>1, <1>2, <2>1 DEF Plan, Story, Began
  <2>10. mutex.owner # {App}
    BY <1>5 DEF Free
  <2>11. \A b \in Attempts : b # a =>
           /\ b \in mutex'.handles <=> b \in mutex.handles
           /\ helper[b].pc \in {"owner", "replacing"} =>
                mutex'.owner = mutex.owner /\ mutex'.abandoned = mutex.abandoned
           /\ b \in mutex'.owner => b \in mutex.owner
           /\ b \in mutex.handles /\ Stuck => Stuck'
    BY <1>4, <1>5, <2>2, <2>5
  <2>12. Story(a)'
    BY <2>7, <2>8, <2>9 DEF Story
  <2>13. helper'[a].pc # "none" /\ UNCHANGED app /\ helper[a].pc # "none"
    BY <1>2, <2>1
  <2>14. QED
    BY <2>3, <2>4, <2>10, <2>11, <2>12, <2>13, GoesOn
<1>6. CASE HelperFails(a, IF "cancel" \notin stage[a].notes /\ mutex.abandoned
                          THEN [mutex EXCEPT !.owner = {a}, !.abandoned = FALSE] ELSE mutex, TRUE)
  <2> DEFINE m == IF "cancel" \notin stage[a].notes /\ mutex.abandoned
                  THEN [mutex EXCEPT !.owner = {a}, !.abandoned = FALSE] ELSE mutex
  <2>1. /\ m \in Mutexes /\ m.handles = mutex.handles
        /\ m = mutex \/ (m.owner = {a} /\ mutex.abandoned)
    BY <1>1 DEF Mutexes
  <2>2. HelperFails(a, m, TRUE)
    BY <1>6
  <2> HIDE DEF m
  <2>3. \A b \in Attempts : b # a =>
           /\ helper[b].pc \in {"owner", "replacing"} => m = mutex
           /\ Stuck /\ b \in mutex.handles => m = mutex \/ m.owner = {a}
    BY <1>4, <2>1
  <2>4. m.owner \in {mutex.owner, {}, {a}}
    BY <2>1
  <2>5. /\ helper[a].pc \notin {"none", "message", "ended"}
        /\ UNCHANGED <<app, installer, story>>
        /\ tx'[a].step = tx[a].step /\ tx'[a].old = tx[a].old
        /\ \A b \in Attempts : b # a => tx'[b] = tx[b]
    BY <1>2
  <2>6. QED
    BY <1>3, <2>1, <2>2, <2>3, <2>4, <2>5, FailsLate
<1>7. QED
  BY <1>5, <1>6 DEF Acquire

\* One that owns the mutex is the only one to do so.
LEMMA OwnerAlone ==
    ASSUME Control, NEW a \in Attempts, helper[a].pc \in {"owner", "replacing"}
    PROVE /\ app.state = "gone" /\ a \in mutex.handles /\ mutex.owner = {a} /\ ~mutex.abandoned
          /\ ~Stuck /\ ~installer.busy
          /\ \A b \in Attempts : b # a => helper[b].pc \notin {"owner", "replacing"}
<1>1. \A b \in Attempts : Lock(b)
  BY DEF Control
<1>2. /\ app.state = "gone" /\ a \in mutex.handles /\ mutex.owner = {a} /\ ~mutex.abandoned
  BY <1>1 DEF Lock, Inside
<1>3. ~Stuck
  BY <1>2 DEF Stuck
<1>4. ~installer.busy
  BY <1>2 DEF Control, Task
<1>5. ASSUME NEW b \in Attempts, b # a
      PROVE helper[b].pc \notin {"owner", "replacing"}
  BY <1>1, <1>2, <1>5 DEF Lock
<1>6. QED
  BY <1>2, <1>3, <1>4, <1>5

\* One step of an owner, with what it holds.
LEMMA OwnerGoesOn ==
    ASSUME TypeOK, TypeOK', Control, NEW a \in Attempts, helper[a].pc \in {"owner", "replacing"},
           HelperOf(a), helper'[a].pc = "replacing", Began(a)',
           UNCHANGED <<app, mutex, stage>>
    PROVE Control'
<1>1. /\ app.state = "gone" /\ a \in mutex.handles /\ mutex.owner = {a} /\ ~mutex.abandoned
      /\ ~Stuck /\ ~installer.busy
      /\ \A b \in Attempts : b # a => helper[b].pc \notin {"owner", "replacing"}
  BY OwnerAlone
<1>2. Held /\ Lock(a) /\ Story(a) /\ a # App
  BY AttemptsAre DEF Control
<1>3. Held' /\ Lock(a)'
  BY <1>1, <1>2 DEF Held, Lock, Inside, HelperOf
<1>4. Past(a)
  BY DEF Past
<1>5. Fresh(a)' /\ Revoked(a)' /\ Failed(a)' /\ Waits(a)'
  <2>1. "failed" \notin stage[a].notes /\ ~ a > installer.attempt
    BY <1>2, <1>4 DEF Story, Failed, Fresh
  <2>2. QED
    BY <1>2, <1>4, <2>1 DEF Fresh, Revoked, Failed, Waits, Story, Sent, HelperOf
<1>6. Sent(a)' /\ Plan(a)'
  BY <1>1, <1>2, <1>4 DEF Sent, Plan, Story, HelperOf
<1>7. QED
  BY <1>1, <1>2, <1>3, <1>5, <1>6, GoesOn DEF Story

\* One that lets the directory go and fails.
LEMMA OwnerFails ==
    ASSUME TypeOK, TypeOK', Control, NEW a \in Attempts, helper[a].pc \in {"owner", "replacing"},
           HelperFails(a, [mutex EXCEPT !.owner = {}], TRUE),
           UNCHANGED <<app, installer, story, tx>>
    PROVE Control'
<1>1. /\ app.state = "gone" /\ a \in mutex.handles /\ ~Stuck
      /\ \A b \in Attempts : b # a => helper[b].pc \notin {"owner", "replacing"}
  BY OwnerAlone
<1>2. mutex \in Mutexes
  BY Types
<1> DEFINE m == [mutex EXCEPT !.owner = {}]
<1>3. m \in Mutexes /\ m.owner = {} /\ m.handles = mutex.handles
  BY <1>2 DEF Mutexes
<1>4. HelperFails(a, m, TRUE)
  OBVIOUS
<1> HIDE DEF m
<1>5. QED
  BY <1>1, <1>3, <1>4, FailsLate

LEMMA StartReplacingControl ==
    ASSUME TypeOK, TypeOK', Control, NEW a \in Attempts, StartReplacing(a)
    PROVE Control'
<1>1. helper \in [Attempts -> Helpers] /\ tx \in [Attempts -> Transactions]
  BY Types, TransactionTypes
<1>2. helper[a].pc = "owner" /\ UNCHANGED <<app, installer, story>>
  BY DEF StartReplacing
<1>3. CASE /\ Begin(a) /\ helper' = [helper EXCEPT ![a].pc = "replacing"]
           /\ UNCHANGED <<mutex, stage>>
  <2>1. /\ helper'[a].pc = "replacing" /\ helper'[a].parent = helper[a].parent
        /\ helper'[a].expected = helper[a].expected
        /\ \A b \in Attempts : b # a => helper'[b] = helper[b]
    BY <1>1, <1>3 DEF Helpers
  <2>2. /\ tx'[a].step \in {"backup", "refused"} /\ tx'[a].old = tx[a].old
        /\ \A b \in Attempts : b # a => tx'[b] = tx[b]
    BY <1>1, <1>3 DEF Begin, Transactions
  <2>3. HelperOf(a) /\ Began(a)'
    BY <1>2, <1>3, <2>1, <2>2 DEF HelperOf, Began
  <2>4. QED
    BY <1>2, <1>3, <2>1, <2>3, OwnerGoesOn
<1>4. CASE HelperFails(a, [mutex EXCEPT !.owner = {}], TRUE) /\ UNCHANGED tx
  BY <1>2, <1>4, OwnerFails
<1>5. QED
  BY <1>3, <1>4 DEF StartReplacing

\* A step of a transaction changes that one, and leaves what it was begun with.
LEMMA ReplaceIs ==
    ASSUME TxTypeOK, NEW a \in Attempts, Replace(a)
    PROVE /\ tx[a].step \in {"backup", "stage", "remove", "rename", "retire", "undo"}
          /\ tx'[a].step # "idle"
          /\ tx'[a].old = tx[a].old /\ tx'[a].before = tx[a].before
          /\ \A b \in Attempts : b # a => tx'[b] = tx[b]
<1>1. tx \in [Attempts -> Transactions]
  BY TransactionTypes
<1>2. CASE BackUp(a)
  BY <1>1, <1>2, SMTT(30) DEF BackUp, Transactions, Goes, Advances
<1>3. CASE Stage(a)
  BY <1>1, <1>3 DEF Stage, Transactions, Goes, Throw
<1>4. CASE Remove(a)
  BY <1>1, <1>4 DEF Remove, Transactions
<1>5. CASE Rename(a)
  BY <1>1, <1>5 DEF Rename, Transactions, Goes, Throw
<1>6. CASE Retire(a)
  BY <1>1, <1>6 DEF Retire, Transactions, Goes, Advances
<1>7. CASE Undo(a)
  BY <1>1, <1>7 DEF Undo, Transactions, Goes, Advances
<1>8. QED
  BY <1>2, <1>3, <1>4, <1>5, <1>6, <1>7 DEF Replace

LEMMA ReplaceStepControl ==
    ASSUME TypeOK, TypeOK', Control, NEW a \in Attempts, ReplaceStep(a)
    PROVE Control'
<1>1. helper[a].pc = "replacing" /\ Replace(a)
      /\ UNCHANGED <<app, installer, mutex, helper, stage, story>>
  BY DEF ReplaceStep
<1>2. TxTypeOK
  BY Types
<1>3. HelperOf(a) /\ Began(a)'
  BY <1>1, <1>2, ReplaceIs DEF HelperOf, Began
<1>4. QED
  BY <1>1, <1>3, OwnerGoesOn

LEMMA ReplacedControl ==
    ASSUME TypeOK, TypeOK', Control, NEW a \in Attempts, Replaced(a)
    PROVE Control'
<1>1. /\ helper \in [Attempts -> Helpers] /\ mutex \in Mutexes /\ Task /\ Held /\ Lock(a) /\ Story(a)
      /\ a # App /\ a \in Holders
  BY Types, AttemptsAre DEF Control
<1>2. helper[a].pc = "replacing" /\ UNCHANGED <<tx, app, installer, story>>
  BY DEF Replaced, txVars
<1>3. /\ app.state = "gone" /\ mutex.owner = {a} /\ ~Stuck /\ ~installer.busy
      /\ \A b \in Attempts : b # a => helper[b].pc \notin {"owner", "replacing"}
  BY <1>2, OwnerAlone
<1>4. CASE /\ helper' = [helper EXCEPT ![a].pc = "restart"]
           /\ mutex' = Released(mutex, a) /\ UNCHANGED stage
  <2>1. /\ helper'[a].pc = "restart" /\ helper'[a].parent = helper[a].parent
        /\ helper'[a].expected = helper[a].expected
        /\ \A b \in Attempts : b # a => helper'[b] = helper[b]
    BY <1>1, <1>4 DEF Helpers
  <2>2. mutex'.handles = mutex.handles \ {a} /\ mutex'.owner = {}
    BY <1>1, <1>3, <1>4, Releases DEF Held
  <2>3. HelperOf(a)
    BY <1>2, <1>4, <2>1 DEF HelperOf
  <2>4. Held' /\ Lock(a)'
    BY <1>1, <1>2, <2>1, <2>2 DEF Held, Lock, Inside
  <2>5. Past(a)
    BY <1>2 DEF Past
  <2>6. Fresh(a)' /\ Revoked(a)' /\ Failed(a)' /\ Waits(a)'
    <3>1. "failed" \notin stage[a].notes /\ ~ a > installer.attempt
      BY <1>1, <1>2, <2>5 DEF Story, Failed, Fresh
    <3>2. QED
      BY <1>1, <1>2, <1>4, <2>1, <2>5, <3>1 DEF Fresh, Revoked, Failed, Waits, Story, Sent
  <2>7. Sent(a)' /\ Plan(a)'
    BY <1>1, <1>2, <1>3, <2>1, <2>5 DEF Sent, Plan, Story, Began
  <2>8. mutex.owner # {App}
    BY <1>1, <1>3
  <2>9. QED
    BY <1>2, <1>3, <2>1, <2>2, <2>3, <2>4, <2>6, <2>7, <2>8, GoesOn DEF Story
<1>5. CASE HelperFails(a, [mutex EXCEPT !.owner = {}], TRUE)
  BY <1>2, <1>5, OwnerFails
<1>6. QED
  BY <1>4, <1>5 DEF Replaced

LEMMA RestartControl ==
    ASSUME TypeOK, TypeOK', Control, NEW a \in Attempts, Restart(a)
    PROVE Control'
<1>1. /\ helper \in [Attempts -> Helpers] /\ stage \in [Attempts -> Stages] /\ mutex \in Mutexes
      /\ Task /\ Held /\ Lock(a) /\ Story(a) /\ a # App /\ app \in Apps
  BY Types, AttemptsAre DEF Control
<1>2. helper[a].pc = "restart" /\ UNCHANGED <<tx, installer, story>> /\ a \notin mutex.handles
      /\ a \notin mutex.owner
  BY <1>1 DEF Restart, Lock, Inside, Held
<1>3. CASE /\ app' = Entered(mutex)
           /\ stage' = [stage EXCEPT ![a].notes = @ \cup {"complete"}]
           /\ helper' = [helper EXCEPT ![a].pc = "ended"]
           /\ UNCHANGED mutex
  <2>1. /\ helper'[a].pc = "ended" /\ helper'[a].parent = helper[a].parent
        /\ helper'[a].expected = helper[a].expected
        /\ \A b \in Attempts : b # a => helper'[b] = helper[b]
    BY <1>1, <1>3 DEF Helpers
  <2>2. /\ stage'[a].notes = stage[a].notes \cup {"complete"}
        /\ \A b \in Attempts : b # a => stage'[b] = stage[b]
    BY <1>1, <1>3 DEF Stages
  <2>3. HelperOf(a)
    BY <1>2, <2>1, <2>2 DEF HelperOf
  <2>4. \/ app' = app
        \/ /\ mutex.handles = {} /\ app.state = "gone"
           /\ app'.state = "running" /\ app'.session = app.session + 1
    BY <1>3 DEF Entered
  <2>5. Held'
    BY <1>1, <1>3, <2>4 DEF Held
  <2>6. Task'
    <3>1. CASE app' = app
      BY <1>2, <1>3, <2>1, <2>3, <3>1, HelperTask
    <3>2. CASE app.state = "gone"
      BY <1>1, <1>2, <3>2 DEF Task
    <3>3. QED
      BY <2>4, <3>1, <3>2
  <2>7. Lock(a)'
    <3>1. app.session <= app'.session /\ app.session \in Nat /\ app'.session \in Nat
          /\ helper[a].parent \in Nat
      BY <1>1, <2>4 DEF Apps, Helpers
    <3>2. QED
      BY <1>1, <1>2, <1>3, <2>1, <3>1 DEF Lock, Inside
  <2>8. Past(a)' => Past(a)
    BY <1>2 DEF Past
  <2>9. Fresh(a)' /\ Revoked(a)' /\ Failed(a)' /\ Waits(a)'
    <3>1. ~ a > installer.attempt
      BY <1>1, <1>2 DEF Story, Fresh
    <3>2. QED
      BY <1>2, <2>1, <3>1 DEF Fresh, Revoked, Failed, Waits
  <2>10. Sent(a)' /\ Plan(a)'
    BY <1>1, <1>2, <2>1, <2>8 DEF Sent, Plan, Story, Began
  <2>11. ASSUME NEW b \in Attempts, b # a
         PROVE Lock(b)' /\ Story(b)'
    <3>1. Same(b) /\ Left(b) /\ helper'[b] = helper[b]
      BY <2>1, <2>3, <2>11, HelperSame
    <3>2. CASE app' = app
      <4>1. Stuck => Stuck'
        <5>1. ASSUME NEW c \in Attempts, helper[c].pc = "message"
              PROVE helper'[c].pc = "message"
          BY <1>2, <2>1, <5>1
        <5>2. QED
          BY <1>3, <3>2, <5>1 DEF Stuck
      <4>2. StaysFor(b) /\ Keeps(b)
        BY <1>1, <1>2, <1>3, <2>11, <3>1, <3>2, <4>1 DEF StaysFor, Keeps, ParentGone, Apps
      <4>3. QED
        BY <3>1, <4>2, Elsewhere
    <3>3. CASE /\ mutex.handles = {} /\ app.state = "gone"
               /\ app'.state = "running" /\ app'.session = app.session + 1
      <4>1. StaysFor(b) /\ Keeps(b)
        BY <1>2, <1>3, <3>1, <3>3, Enters
      <4>2. QED
        BY <3>1, <4>1, Elsewhere
    <3>4. QED
      BY <2>4, <3>2, <3>3
  <2>12. QED
    BY <2>5, <2>6, <2>7, <2>9, <2>10, <2>11 DEF Control, Story
<1>4. CASE HelperFails(a, mutex, TRUE) /\ UNCHANGED app
  BY <1>1, <1>2, <1>4, FailsLate
<1>5. QED
  BY <1>3, <1>4 DEF Restart

LEMMA DismissControl ==
    ASSUME TypeOK, TypeOK', Control, NEW a \in Attempts, Dismiss(a)
    PROVE Control'
<1>1. helper \in [Attempts -> Helpers]
  BY Types
<1>2. /\ helper[a].pc = "message" /\ helper' = [helper EXCEPT ![a].pc = "ended"]
      /\ mutex' = Orphaned(mutex, a) /\ UNCHANGED <<tx, app, installer, stage, story>>
  BY DEF Dismiss, txVars
<1>3. HelperOf(a) /\ helper'[a].pc = "ended"
  BY <1>1, <1>2 DEF HelperOf, Helpers
<1>4. QED
  BY <1>2, <1>3, EndsControl

LEMMA HelperKilledControl ==
    ASSUME TypeOK, TypeOK', Control, NEW a \in Attempts, HelperKilled(a)
    PROVE Control'
<1>1. helper \in [Attempts -> Helpers]
  BY Types
<1>2. /\ helper[a].pc # "none" /\ helper' = [helper EXCEPT ![a].pc = "ended"]
      /\ mutex' = Orphaned(mutex, a) /\ UNCHANGED <<tx, app, installer, stage, story>>
  BY DEF HelperKilled
<1>3. HelperOf(a) /\ helper'[a].pc = "ended"
  BY <1>1, <1>2 DEF HelperOf, Helpers
<1>4. QED
  BY <1>2, <1>3, EndsControl

\* Steps that the invariant does not see.
LEMMA Unseen ==
    ASSUME TypeOK, TypeOK', Control, UNCHANGED <<tx, app, installer, mutex, helper, story>>,
           \A b \in Attempts : stage'[b].notes = stage[b].notes
    PROVE Control'
<1>1. Held' /\ Task' /\ app \in Apps
  BY Types DEF Control, Held, Task
<1>2. ASSUME NEW b \in Attempts
      PROVE Lock(b)' /\ Story(b)'
  <2>1. Same(b) /\ Left(b) /\ StaysFor(b) /\ Keeps(b)
    BY <1>1 DEF Same, Left, StaysFor, Keeps, Began, ParentGone, Stuck, Apps
  <2>2. QED
    BY <2>1, Elsewhere
<1>3. QED
  BY <1>1, <1>2 DEF Control

-----------------------------------------------------------------------------
(* The inductive invariant: a transaction *)

Listed(names) == {names[i] : i \in DOMAIN names}

\* A name is spelled in the package as it is in what is installed.
SpellingKept ==
    \A m \in Listed(OldFiles), n \in Listed(NewFiles) : Folded[m] = Folded[n] => m = n

Noted(a, n) == {Folded[tx[a].changed[j]] : j \in 1..n}

\* What holds of a transaction for ever, however it ends.
Idle(a) ==
    ~Began(a) => /\ tx[a].i = 1 /\ tx[a].changed = <<>> /\ tx[a].backedUp = {}
                 /\ ~tx[a].incomplete

Copied(a) ==
    tx[a].step # "refused" =>
        \A n \in tx[a].backedUp : tx[a].before[Folded[n]] = backup[a][Folded[n]]

AllCopied(a) ==
    tx[a].step \notin {"idle", "refused", "backup"} =>
        \A n \in Listed(tx[a].old) : tx[a].before[Folded[n]] = "none" \/ n \in tx[a].backedUp

NotOwned(a) ==
    tx[a].step \notin {"idle", "refused"} =>
        /\ \A k \in Keys \ FilesOf(tx[a].old) : tx[a].before[k] \in {"none", tree[k]}
        /\ \A k \in FilesOf(NewFiles) : tx[a].before[k] = "none" \/ k \in FilesOf(tx[a].old)

Named(a) ==
    \A j \in DOMAIN tx[a].changed :
        tx[a].changed[j] \in Listed(NewFiles) \cup Listed(tx[a].old)

Lasting(a) == Idle(a) /\ Copied(a) /\ AllCopied(a) /\ NotOwned(a) /\ Named(a)

\* What is installed does not become old again once there is an attempt to replace the
\* new.
Manifests(a) ==
    /\ Began(a) /\ helper[a].expected = "new" => tree[Manifest] # "old"
    /\ Active(a) =>
        /\ tx[a].before[Manifest] = helper[a].expected
        /\ helper[a].expected = "old" =>
             \A b \in Attempts : Began(b) => helper[b].expected = "old"

\* What holds at each step of a transaction while its helper runs.
Retired(a) == IF tx[a].old = NewFiles THEN 0 ELSE tx[a].i - 1

BackingUp(a) ==
    tx[a].step = "backup" =>
        /\ tree = tx[a].before /\ tx[a].changed = <<>>
        /\ tx[a].i <= Len(tx[a].old) + 1
        /\ \A j \in 1..(tx[a].i - 1) :
             tx[a].before[Folded[tx[a].old[j]]] = "none" \/ tx[a].old[j] \in tx[a].backedUp

Writing(a) ==
    tx[a].step \in {"stage", "remove", "rename"} =>
        /\ tx[a].i <= Len(NewFiles) + 1
        /\ tx[a].step # "stage" => tx[a].i <= Len(NewFiles) /\ temporary = "new"
        /\ Len(tx[a].changed) <= IF tx[a].step = "rename" THEN tx[a].i ELSE tx[a].i - 1
        /\ tx[a].step = "rename" =>
             Folded[NewFiles[tx[a].i]] \in Noted(a, Len(tx[a].changed))
        /\ \A j \in 1..(tx[a].i - 1) : tree[Folded[NewFiles[j]]] = "new"

Retiring(a) ==
    tx[a].step = "retire" =>
        /\ tx[a].i <= Len(tx[a].old) + 1
        /\ Len(tx[a].changed) <= Len(NewFiles) + Retired(a)
        /\ \A k \in FilesOf(NewFiles) : tree[k] = "new"
        /\ \A j \in 1..(tx[a].i - 1) :
             Folded[tx[a].old[j]] \in FilesOf(NewFiles) \/ tree[Folded[tx[a].old[j]]] = "none"

Changing(a) ==
    tx[a].step \in {"stage", "remove", "rename", "retire"} =>
        \A k \in Keys : tree[k] = tx[a].before[k] \/ k \in Noted(a, Len(tx[a].changed))

Undoing(a) ==
    tx[a].step = "undo" =>
        /\ Len(tx[a].changed) <= Len(NewFiles) + Len(OldFiles)
        /\ tx[a].i <= Len(tx[a].changed) + 1
        /\ SpellingKept /\ ~tx[a].incomplete =>
             \A k \in Keys : tree[k] = tx[a].before[k]
                             \/ k \in Noted(a, Len(tx[a].changed) + 1 - tx[a].i)

Running(a) ==
    Active(a) => BackingUp(a) /\ Writing(a) /\ Retiring(a) /\ Changing(a) /\ Undoing(a)

Replacement == \A a \in Attempts : Lasting(a) /\ Manifests(a) /\ Running(a)

PortableInv == TypeOK /\ Counted /\ Control /\ Replacement

-----------------------------------------------------------------------------
(* Names and files *)

Lists == {<<>>, OldFiles, NewFiles}

LEMMA ListsAre ==
    ASSUME NEW names \in Lists
    PROVE /\ names \in Seq(Names) /\ Len(names) \in Nat /\ DOMAIN names = 1..Len(names)
          /\ FilesOf(names) \subseteq Keys
          /\ \A i \in DOMAIN names : /\ names[i] \in Names /\ names[i] \in Listed(names)
                                     /\ Folded[names[i]] \in FilesOf(names)
          /\ \A n \in Listed(names) : n \in Names /\ Folded[n] \in FilesOf(names)
          /\ \A k \in FilesOf(names) : \E n \in Listed(names) : k = Folded[n]
<1>1. names \in Seq(Names) /\ Folded \in [Names -> Keys]
  <2>1. <<>> \in Seq(Names)
    OBVIOUS
  <2>2. OldFiles \in Seq(Names) /\ NewFiles \in Seq(Names) /\ Folded \in [Names -> Keys]
    BY TransactionAssumption
  <2>3. names = <<>> \/ names = OldFiles \/ names = NewFiles
    BY DEF Lists
  <2>4. QED
    BY <2>1, <2>2, <2>3
<1>2. Len(names) \in Nat /\ DOMAIN names = 1..Len(names)
      /\ \A i \in DOMAIN names : names[i] \in Names
  BY <1>1
<1>3. QED
  BY <1>1, <1>2 DEF FilesOf, Listed

LEMMA FoldedIs == Folded \in [Names -> Keys]
BY TransactionAssumption

\* The fields of a transaction.
LEMMA TransactionIs ==
    ASSUME TxTypeOK, NEW a \in Attempts
    PROVE /\ tx[a] \in Transactions
          /\ tx[a].old \in Lists /\ tx[a].step \in Steps
          /\ tx[a].i \in Nat /\ tx[a].i >= 1
          /\ tx[a].changed \in Seq(Names) /\ Len(tx[a].changed) \in Nat
          /\ DOMAIN tx[a].changed = 1..Len(tx[a].changed)
          /\ tx[a].backedUp \subseteq Names /\ tx[a].incomplete \in BOOLEAN
          /\ tx[a].before \in Trees
          /\ backup[a] \in [Keys -> Contents \cup {"partial"}]
<1>1. tx \in [Attempts -> Transactions] /\ backup \in Backups
  BY TransactionTypes
<1>2. tx[a] \in Transactions /\ backup[a] \in [Keys -> Contents \cup {"partial"}]
  BY <1>1 DEF Backups
<1>3. QED
  BY <1>2 DEF Transactions, Lists, Trees

LEMMA Adding ==
    ASSUME NEW q \in Seq(Names), NEW x \in Names
    PROVE /\ Append(q, x) \in Seq(Names) /\ Len(Append(q, x)) = Len(q) + 1
          /\ Append(q, x)[Len(q) + 1] = x
          /\ \A j \in 1..Len(q) : Append(q, x)[j] = q[j]
OBVIOUS

-----------------------------------------------------------------------------
(* Transactions that a step leaves alone *)

LEMMA LastingStill ==
    ASSUME NEW a \in Attempts, Lasting(a), tx'[a] = tx[a], backup'[a] = backup[a],
           \A k \in Keys \ FilesOf(tx[a].old) :
               tree'[k] = tree[k] \/ tx[a].before[k] = "none" \/ tx[a].step \in {"idle", "refused"}
    PROVE Lasting(a)'
<1>1. Idle(a)' /\ Copied(a)' /\ AllCopied(a)' /\ Named(a)'
  BY DEF Lasting, Idle, Copied, AllCopied, Named, Began
<1>2. NotOwned(a)'
  BY DEF Lasting, NotOwned
<1>3. QED
  BY <1>1, <1>2 DEF Lasting

LEMMA RunningStill ==
    ASSUME NEW a \in Attempts, Running(a), tx'[a] = tx[a], tree' = tree, temporary' = temporary,
           Active(a)' => Active(a)
    PROVE Running(a)'
<1>1. CASE ~Active(a)'
  BY <1>1 DEF Running
<1>2. CASE Active(a)
  <2>1. BackingUp(a)' /\ Writing(a)' /\ Retiring(a)'
    BY <1>2 DEF Running, BackingUp, Writing, Retiring, Retired, Noted
  <2>2. Changing(a)' /\ Undoing(a)'
    BY <1>2 DEF Running, Changing, Undoing, Noted
  <2>3. QED
    BY <2>1, <2>2 DEF Running
<1>3. QED
  BY <1>1, <1>2

\* Steps that replace nothing.
LEMMA ReplacementStill ==
    ASSUME Control, Replacement, UNCHANGED <<tree, backup>>,
           \A a \in Attempts : Active(a)' => Active(a) /\ temporary' = temporary,
           \A a \in Attempts : Began(a) => helper'[a].expected = helper[a].expected,
           \A a \in Attempts :
               tx'[a] = tx[a] \/ (~Began(a) /\ ~Began(a)' /\ Lasting(a)')
    PROVE Replacement'
<1>1. \A a \in Attempts : /\ Began(a)' <=> Began(a)
                          /\ Active(a)' => tx'[a] = tx[a] /\ Began(a)
                          /\ Began(a) => tx'[a] = tx[a]
  BY DEF Began, Control, Story, Plan, Active
<1>2. ASSUME NEW a \in Attempts
      PROVE Lasting(a)' /\ Manifests(a)' /\ Running(a)'
  <2>1. Lasting(a)'
    <3>1. CASE tx'[a] = tx[a]
      BY <3>1, LastingStill DEF Replacement
    <3>2. QED
      BY <3>1
  <2>2. Running(a)'
    <3>1. CASE ~Active(a)'
      BY <3>1 DEF Running
    <3>2. CASE Active(a)'
      BY <1>1, <3>2, RunningStill DEF Replacement
    <3>3. QED
      BY <3>1, <3>2
  <2>3. Manifests(a)'
    <3>1. Manifests(a)
      BY DEF Replacement
    <3>2. Began(a)' /\ helper'[a].expected = "new" => tree'[Manifest] # "old"
      BY <1>1, <3>1 DEF Manifests
    <3>3. ASSUME Active(a)', Began(a)
          PROVE /\ tx'[a].before[Manifest] = helper'[a].expected
                /\ helper'[a].expected = "old" =>
                     \A b \in Attempts : Began(b)' => helper'[b].expected = "old"
      BY <1>1, <3>1, <3>3 DEF Manifests
    <3>4. Active(a)' => Began(a)
      BY <1>1
    <3>5. QED
      BY <3>2, <3>3, <3>4 DEF Manifests
  <2>4. QED
    BY <2>1, <2>2, <2>3
<1>3. QED
  BY <1>2 DEF Replacement

-----------------------------------------------------------------------------
(* Steps of a transaction *)

\* What a step of the transaction of a does to the files.
Touches(a) ==
    \A k \in Keys :
        \/ tree'[k] = tree[k]
        \/ /\ k \in FilesOf(NewFiles) \cup FilesOf(tx[a].old)
           /\ tree'[k] \in {"none", "new", tx[a].before[k]}

\* What it keeps for ever.
LEMMA LastingStep ==
    ASSUME TxTypeOK, NEW a \in Attempts, Lasting(a), Began(a), tx'[a].step # "idle",
           tx'[a].old = tx[a].old, tx'[a].before = tx[a].before, Touches(a),
           tx[a].step = "refused" => tx'[a].step = "refused",
           tx'[a].backedUp = tx[a].backedUp /\ backup'[a] = backup[a],
           tx[a].step = "backup" => tx'[a].step # "undo",
           tx'[a].step \notin {"refused", "backup"} => AllCopied(a)',
           Named(a)'
    PROVE Lasting(a)'
<1>1. Idle(a)'
  BY DEF Idle, Began
<1>2. Copied(a)' /\ AllCopied(a)'
  BY DEF Lasting, Copied, AllCopied, Began
<1>3. NotOwned(a)'
  <2>1. CASE tx[a].step = "refused"
    BY <2>1 DEF NotOwned
  <2>2. CASE tx[a].step # "refused"
    <3>1. /\ \A k \in Keys \ FilesOf(tx[a].old) : tx[a].before[k] \in {"none", tree[k]}
          /\ \A k \in FilesOf(NewFiles) : tx[a].before[k] = "none" \/ k \in FilesOf(tx[a].old)
      BY <2>2 DEF Lasting, NotOwned, Began
    <3>2. \A k \in Keys \ FilesOf(tx[a].old) : tx[a].before[k] \in {"none", tree'[k]}
      BY <3>1 DEF Touches
    <3>3. QED
      BY <3>1, <3>2 DEF NotOwned
  <2>3. QED
    BY <2>1, <2>2
<1>4. QED
  BY <1>1, <1>2, <1>3 DEF Lasting

LEMMA TxTypes ==
    ASSUME TxTypeOK, NEW a \in Attempts, NEW t \in Transactions, tx' = [tx EXCEPT ![a] = t],
           tree' \in Trees, temporary' \in {"none", "partial", "new"}, backup' \in Backups,
           faults' \in 0..MaxFaults
    PROVE TxTypeOK'
<1>1. tx \in [Attempts -> Transactions]
  BY TransactionTypes
<1>2. tx' \in [Attempts -> Transactions]
  BY <1>1
<1>3. QED
  BY <1>2, TransactionTypesNext

LEMMA FieldsOf ==
    ASSUME NEW A, NEW B, NEW C, NEW D, NEW E, NEW F, NEW G,
           NEW t \in [step : A, i : B, old : C, backedUp : D, changed : E, incomplete : F,
                      before : G]
    PROVE /\ \A s \in A : [t EXCEPT !.step = s]
              \in [step : A, i : B, old : C, backedUp : D, changed : E, incomplete : F, before : G]
          /\ \A n \in B : [t EXCEPT !.i = n]
              \in [step : A, i : B, old : C, backedUp : D, changed : E, incomplete : F, before : G]
          /\ \A q \in E : [t EXCEPT !.changed = q]
              \in [step : A, i : B, old : C, backedUp : D, changed : E, incomplete : F, before : G]
          /\ \A b \in D : [t EXCEPT !.backedUp = b]
              \in [step : A, i : B, old : C, backedUp : D, changed : E, incomplete : F, before : G]
          /\ \A v \in F : [t EXCEPT !.incomplete = v]
              \in [step : A, i : B, old : C, backedUp : D, changed : E, incomplete : F, before : G]
OBVIOUS

Places == 1..(Len(OldFiles) + Len(NewFiles) + 1)

LEMMA Setting ==
    ASSUME NEW t \in Transactions
    PROVE /\ \A s \in Steps : [t EXCEPT !.step = s] \in Transactions
          /\ \A n \in Places : [t EXCEPT !.i = n] \in Transactions
          /\ \A q \in Seq(Names) : [t EXCEPT !.changed = q] \in Transactions
          /\ \A b \in SUBSET Names : [t EXCEPT !.backedUp = b] \in Transactions
          /\ \A v \in BOOLEAN : [t EXCEPT !.incomplete = v] \in Transactions
BY FieldsOf DEF Transactions, Places

LEMMA Settings ==
    ASSUME NEW t \in Transactions
    PROVE /\ \A n \in Places : [t EXCEPT !.i = n] \in Transactions
          /\ \A s \in Steps : [t EXCEPT !.step = s] \in Transactions
          /\ \A s \in Steps, n \in Places : [t EXCEPT !.step = s, !.i = n] \in Transactions
          /\ \A n \in Places, b \in SUBSET Names :
                [t EXCEPT !.i = n, !.backedUp = b] \in Transactions
          /\ \A s \in Steps, q \in Seq(Names) :
                [t EXCEPT !.step = s, !.changed = q] \in Transactions
          /\ \A n \in Places, q \in Seq(Names) :
                [t EXCEPT !.i = n, !.changed = q] \in Transactions
          /\ \A s \in Steps, n \in Places, q \in Seq(Names) :
                [t EXCEPT !.step = s, !.i = n, !.changed = q] \in Transactions
          /\ \A n \in Places, v \in BOOLEAN :
                [t EXCEPT !.i = n, !.incomplete = v] \in Transactions
<1>1. /\ \A s \in Steps : [t EXCEPT !.step = s] \in Transactions
      /\ \A n \in Places : [t EXCEPT !.i = n] \in Transactions
  BY Setting
<1>2. ASSUME NEW s \in Steps, NEW n \in Places, NEW q \in Seq(Names)
      PROVE [t EXCEPT !.step = s, !.i = n, !.changed = q] \in Transactions
  <2>1. [[t EXCEPT !.step = s] EXCEPT !.i = n] \in Transactions
    BY <1>1, Setting
  <2>2. [[[t EXCEPT !.step = s] EXCEPT !.i = n] EXCEPT !.changed = q] \in Transactions
    BY <2>1, Setting
  <2>3. QED
    BY <2>2
<1>3. ASSUME NEW s \in Steps, NEW n \in Places
      PROVE [t EXCEPT !.step = s, !.i = n] \in Transactions
  <2>1. [[t EXCEPT !.step = s] EXCEPT !.i = n] \in Transactions
    BY <1>1, Setting
  <2>2. QED
    BY <2>1
<1>4. ASSUME NEW n \in Places, NEW b \in SUBSET Names
      PROVE [t EXCEPT !.i = n, !.backedUp = b] \in Transactions
  <2>1. [[t EXCEPT !.i = n] EXCEPT !.backedUp = b] \in Transactions
    BY <1>1, Setting
  <2>2. QED
    BY <2>1
<1>5. ASSUME NEW n \in Places, NEW v \in BOOLEAN
      PROVE [t EXCEPT !.i = n, !.incomplete = v] \in Transactions
  <2>1. [[t EXCEPT !.i = n] EXCEPT !.incomplete = v] \in Transactions
    BY <1>1, Setting
  <2>2. QED
    BY <2>1
<1>6. ASSUME NEW s \in Steps, NEW q \in Seq(Names)
      PROVE [t EXCEPT !.step = s, !.changed = q] \in Transactions
  <2>1. [[t EXCEPT !.step = s] EXCEPT !.changed = q] \in Transactions
    BY <1>1, Setting
  <2>2. QED
    BY <2>1
<1>7. ASSUME NEW n \in Places, NEW q \in Seq(Names)
      PROVE [t EXCEPT !.i = n, !.changed = q] \in Transactions
  <2>1. [[t EXCEPT !.i = n] EXCEPT !.changed = q] \in Transactions
    BY <1>1, Setting
  <2>2. QED
    BY <2>1
<1>8. QED
  BY <1>1, <1>2, <1>3, <1>4, <1>5, <1>6, <1>7

LEMMA Faults ==
    ASSUME TxTypeOK, Fails \/ UNCHANGED faults
    PROVE faults' \in 0..MaxFaults
<1>1. faults \in 0..MaxFaults /\ MaxFaults \in Nat
  BY TransactionTypes, TransactionAssumption
<1>2. QED
  BY <1>1 DEF Fails

\* The next old file is copied.
LEMMA BackUpStep ==
    ASSUME TxTypeOK, NEW a \in Attempts, Lasting(a), Running(a), Active(a), BackUp(a),
           UNCHANGED helper
    PROVE TxTypeOK' /\ Lasting(a)' /\ Running(a)' /\ Touches(a)
<1> DEFINE t == tx[a]
           name == t.old[t.i]
           k == Folded[name]
<1>1. /\ tx \in [Attempts -> Transactions] /\ tree \in Trees /\ backup \in Backups
      /\ temporary \in {"none", "partial", "new"}
  BY TransactionTypes
<1>2. /\ t \in Transactions /\ t.old \in Lists /\ t.i \in Nat /\ t.i >= 1
      /\ t.backedUp \subseteq Names /\ t.before \in Trees /\ t.changed \in Seq(Names)
      /\ backup[a] \in [Keys -> Contents \cup {"partial"}]
  BY TransactionIs
<1>3. /\ t.step = "backup" /\ UNCHANGED <<tree, temporary>>
  BY DEF BackUp
<1>4. /\ tree = t.before /\ t.changed = <<>> /\ t.i <= Len(t.old) + 1
      /\ \A j \in 1..(t.i - 1) : t.before[Folded[t.old[j]]] = "none" \/ t.old[j] \in t.backedUp
  BY <1>3 DEF Running, BackingUp
<1>5. /\ Len(t.old) \in Nat /\ DOMAIN t.old = 1..Len(t.old)
      /\ Len(t.old) <= Len(OldFiles) + Len(NewFiles)
      /\ Len(OldFiles) \in Nat /\ Len(NewFiles) \in Nat
  <2>1. Len(OldFiles) \in Nat /\ Len(NewFiles) \in Nat /\ Len(<<>>) = 0
    BY ListsAre DEF Lists
  <2>2. t.old = <<>> \/ t.old = OldFiles \/ t.old = NewFiles
    BY <1>2 DEF Lists
  <2>3. QED
    BY <1>2, <2>1, <2>2, ListsAre
<1>6. Touches(a)
  BY <1>3 DEF Touches
<1>7. faults' \in 0..MaxFaults
  BY Faults DEF BackUp
<1>8. \A n \in t.backedUp : t.before[Folded[n]] = backup[a][Folded[n]]
  BY <1>3 DEF Lasting, Copied
<1>9. CASE t.i > Len(t.old) /\ Goes(a, "stage") /\ UNCHANGED backup
  <2>1. tx' = [tx EXCEPT ![a] = [t EXCEPT !.step = "stage", !.i = 1]]
    BY <1>1, <1>9 DEF Goes
  <2>2. [t EXCEPT !.step = "stage", !.i = 1] \in Transactions
    <3>1. "stage" \in Steps /\ 1 \in Places
      BY <1>5 DEF Steps, Places
    <3>2. QED
      BY <1>2, <3>1, Settings
  <2>3. /\ tx'[a].step = "stage" /\ tx'[a].i = 1 /\ tx'[a].old = t.old
        /\ tx'[a].before = t.before /\ tx'[a].changed = t.changed
        /\ tx'[a].backedUp = t.backedUp /\ tx'[a].incomplete = t.incomplete
    BY <1>1, <1>2, <2>1 DEF Transactions
  <2>4. TxTypeOK'
    BY <1>1, <1>3, <1>7, <1>9, <2>1, <2>2, TxTypes
  <2>5. AllCopied(a)'
    <3>1. ASSUME NEW n \in Listed(t.old)
          PROVE t.before[Folded[n]] = "none" \/ n \in t.backedUp
      <4>1. PICK j \in 1..Len(t.old) : n = t.old[j]
        BY <1>5 DEF Listed
      <4>2. j \in 1..(t.i - 1)
        BY <1>2, <1>5, <1>9
      <4>3. QED
        BY <1>4, <4>1, <4>2
    <3>2. QED
      BY <2>3, <3>1 DEF AllCopied
  <2>6. Named(a)'
    BY <2>3 DEF Lasting, Named
  <2>7. Lasting(a)'
    BY <1>3, <1>6, <1>9, <2>3, <2>5, <2>6, LastingStep DEF Began
  <2>8. Running(a)'
    <3>1. Writing(a)'
      BY <1>4, <1>5, <2>3 DEF Writing
    <3>2. Changing(a)'
      BY <1>3, <1>4, <2>3 DEF Changing
    <3>3. QED
      BY <2>3, <3>1, <3>2 DEF Running, BackingUp, Retiring, Undoing
  <2>9. QED
    BY <1>6, <2>4, <2>7, <2>8
<1>10. CASE t.i <= Len(t.old) /\ tree[k] = "none" /\ Advances(a) /\ UNCHANGED backup
  <2>1. tx' = [tx EXCEPT ![a] = [t EXCEPT !.i = @ + 1]]
    BY <1>1, <1>10 DEF Advances
  <2>2. [t EXCEPT !.i = @ + 1] \in Transactions
    <3>1. t.i + 1 \in Places
      BY <1>2, <1>5, <1>10 DEF Places
    <3>2. QED
      BY <1>2, <3>1, Settings
  <2>3. /\ tx'[a].step = "backup" /\ tx'[a].i = t.i + 1 /\ tx'[a].old = t.old
        /\ tx'[a].before = t.before /\ tx'[a].changed = t.changed
        /\ tx'[a].backedUp = t.backedUp /\ tx'[a].incomplete = t.incomplete
    BY <1>1, <1>2, <1>3, <2>1 DEF Transactions
  <2>4. TxTypeOK'
    BY <1>1, <1>3, <1>7, <1>10, <2>1, <2>2, TxTypes
  <2>5. Named(a)'
    BY <2>3 DEF Lasting, Named
  <2>6. Lasting(a)'
    BY <1>3, <1>6, <1>10, <2>3, <2>5, LastingStep DEF Began
  <2>7. BackingUp(a)'
    <3>1. ASSUME NEW j \in 1..t.i
          PROVE t.before[Folded[t.old[j]]] = "none" \/ t.old[j] \in t.backedUp
      <4>1. CASE j = t.i
        BY <1>4, <1>10, <4>1
      <4>2. CASE j # t.i
        BY <1>2, <1>4, <4>2
      <4>3. QED
        BY <4>1, <4>2
    <3>2. tx'[a].i - 1 = t.i /\ tx'[a].i <= Len(t.old) + 1
      BY <1>2, <1>5, <1>10, <2>3
    <3>3. QED
      BY <1>3, <1>4, <2>3, <3>1, <3>2 DEF BackingUp
  <2>8. Running(a)'
    BY <2>3, <2>7 DEF Running, Writing, Retiring, Changing, Undoing
  <2>9. QED
    BY <1>6, <2>4, <2>6, <2>8
<1>11. CASE /\ t.i <= Len(t.old) /\ tree[k] # "none"
            /\ backup' = [backup EXCEPT ![a][k] = tree[k]]
            /\ tx' = [tx EXCEPT ![a].i = @ + 1, ![a].backedUp = @ \cup {name}]
  <2>1. tx' = [tx EXCEPT ![a] = [t EXCEPT !.i = @ + 1, !.backedUp = @ \cup {name}]]
    BY <1>1, <1>11
  <2>2. name \in Names /\ k \in Keys
    BY <1>2, <1>5, <1>11, ListsAre
  <2>3. [t EXCEPT !.i = @ + 1, !.backedUp = @ \cup {name}] \in Transactions
    <3>1. t.i + 1 \in Places /\ t.backedUp \cup {name} \in SUBSET Names
      BY <1>2, <1>5, <1>11, <2>2 DEF Places
    <3>2. QED
      BY <1>2, <3>1, Settings
  <2>4. /\ tx'[a].step = "backup" /\ tx'[a].i = t.i + 1 /\ tx'[a].old = t.old
        /\ tx'[a].before = t.before /\ tx'[a].changed = t.changed
        /\ tx'[a].backedUp = t.backedUp \cup {name} /\ tx'[a].incomplete = t.incomplete
    BY <1>1, <1>2, <1>3, <2>1 DEF Transactions
  <2>5. /\ backup' \in Backups /\ backup'[a][k] = tree[k]
        /\ \A f \in Keys : f # k => backup'[a][f] = backup[a][f]
    BY <1>1, <1>11, <2>2 DEF Backups, Trees
  <2>6. TxTypeOK'
    BY <1>1, <1>3, <1>7, <2>1, <2>3, <2>5, TxTypes
  <2>7. Copied(a)'
    <3>1. ASSUME NEW n \in t.backedUp \cup {name}
          PROVE t.before[Folded[n]] = backup'[a][Folded[n]]
      <4>1. Folded[n] \in Keys
        BY <1>2, <2>2, FoldedIs
      <4>2. CASE Folded[n] = k
        BY <1>4, <2>5, <4>2
      <4>3. CASE Folded[n] # k
        BY <1>8, <2>5, <4>1, <4>3
      <4>4. QED
        BY <4>2, <4>3
    <3>2. QED
      BY <2>4, <3>1 DEF Copied
  <2>8. Lasting(a)'
    BY <1>3, <2>4, <2>7 DEF Lasting, Idle, AllCopied, NotOwned, Named, Began
  <2>9. BackingUp(a)'
    <3>1. ASSUME NEW j \in 1..t.i
          PROVE t.before[Folded[t.old[j]]] = "none" \/ t.old[j] \in t.backedUp \cup {name}
      <4>1. CASE j = t.i
        BY <4>1
      <4>2. CASE j # t.i
        BY <1>2, <1>4, <4>2
      <4>3. QED
        BY <4>1, <4>2
    <3>2. tx'[a].i - 1 = t.i /\ tx'[a].i <= Len(t.old) + 1
      BY <1>2, <1>5, <1>11, <2>4
    <3>3. QED
      BY <1>3, <1>4, <2>4, <3>1, <3>2 DEF BackingUp
  <2>10. Running(a)'
    BY <2>4, <2>9 DEF Running, Writing, Retiring, Changing, Undoing
  <2>11. QED
    BY <1>6, <2>6, <2>8, <2>10
<1>12. CASE /\ t.i <= Len(t.old) /\ backup' = [backup EXCEPT ![a][k] = "partial"]
            /\ Goes(a, "refused")
  <2>1. tx' = [tx EXCEPT ![a] = [t EXCEPT !.step = "refused", !.i = 1]]
    BY <1>1, <1>12 DEF Goes
  <2>2. [t EXCEPT !.step = "refused", !.i = 1] \in Transactions
    <3>1. "refused" \in Steps /\ 1 \in Places
      BY <1>5 DEF Steps, Places
    <3>2. QED
      BY <1>2, <3>1, Settings
  <2>3. /\ tx'[a].step = "refused" /\ tx'[a].old = t.old /\ tx'[a].changed = t.changed
    BY <1>1, <1>2, <2>1 DEF Transactions
  <2>4. backup' \in Backups
    BY <1>1, <1>12 DEF Backups
  <2>5. TxTypeOK'
    BY <1>1, <1>3, <1>7, <2>1, <2>2, <2>4, TxTypes
  <2>6. Lasting(a)'
    BY <2>3 DEF Lasting, Idle, Copied, AllCopied, NotOwned, Named, Began
  <2>7. Running(a)'
    BY <2>3 DEF Running, BackingUp, Writing, Retiring, Changing, Undoing
  <2>8. QED
    BY <1>6, <2>5, <2>6, <2>7
<1>13. QED
  BY <1>3, <1>9, <1>10, <1>11, <1>12 DEF BackUp

\* The lengths of the two lists.
LEMMA LengthsAre ==
    ASSUME TxTypeOK, NEW a \in Attempts
    PROVE /\ Len(OldFiles) \in Nat /\ Len(NewFiles) \in Nat /\ Len(tx[a].old) \in Nat
          /\ Len(tx[a].old) <= Len(OldFiles) + Len(NewFiles)
          /\ tx[a].old = NewFiles \/ Len(tx[a].old) <= Len(OldFiles)
          /\ DOMAIN tx[a].old = 1..Len(tx[a].old) /\ DOMAIN NewFiles = 1..Len(NewFiles)
          /\ Places = 1..(Len(OldFiles) + Len(NewFiles) + 1)
<1>1. /\ Len(OldFiles) \in Nat /\ Len(NewFiles) \in Nat /\ Len(<<>>) = 0
      /\ DOMAIN NewFiles = 1..Len(NewFiles)
  BY ListsAre DEF Lists
<1>2. tx[a].old \in Lists
  BY TransactionIs
<1>3. tx[a].old = <<>> \/ tx[a].old = OldFiles \/ tx[a].old = NewFiles
  BY <1>2 DEF Lists
<1>4. DOMAIN tx[a].old = 1..Len(tx[a].old) /\ Len(tx[a].old) \in Nat
  BY <1>2, ListsAre
<1>5. QED
  BY <1>1, <1>3, <1>4 DEF Places

\* A step that the list of changed files does not see, after the backups.
LEMMA LastingAfter ==
    ASSUME TxTypeOK, NEW a \in Attempts, Lasting(a), Touches(a),
           tx[a].step \notin {"idle", "backup", "refused"},
           tx'[a].step \notin {"idle", "backup", "refused"},
           tx'[a].old = tx[a].old, tx'[a].before = tx[a].before,
           tx'[a].backedUp = tx[a].backedUp, backup'[a] = backup[a],
           \/ tx'[a].changed = tx[a].changed
           \/ \E n \in Listed(NewFiles) \cup Listed(tx[a].old) :
                  n \in Names /\ tx'[a].changed = Append(tx[a].changed, n)
    PROVE Lasting(a)'
<1>1. tx[a].changed \in Seq(Names) /\ DOMAIN tx[a].changed = 1..Len(tx[a].changed)
      /\ Len(tx[a].changed) \in Nat
  BY TransactionIs
<1>2. AllCopied(a)'
  BY DEF Lasting, AllCopied
<1>3. Named(a)'
  <2>1. CASE tx'[a].changed = tx[a].changed
    BY <2>1 DEF Lasting, Named
  <2>2. ASSUME NEW n \in Listed(NewFiles) \cup Listed(tx[a].old), n \in Names,
               tx'[a].changed = Append(tx[a].changed, n)
        PROVE Named(a)'
    <3>1. /\ tx'[a].changed \in Seq(Names) /\ Len(tx'[a].changed) = Len(tx[a].changed) + 1
          /\ tx'[a].changed[Len(tx[a].changed) + 1] = n
          /\ \A j \in 1..Len(tx[a].changed) : tx'[a].changed[j] = tx[a].changed[j]
      BY <1>1, <2>2, Adding
    <3>2. DOMAIN tx'[a].changed = 1..(Len(tx[a].changed) + 1)
      BY <3>1
    <3>3. ASSUME NEW j \in 1..(Len(tx[a].changed) + 1)
          PROVE tx'[a].changed[j] \in Listed(NewFiles) \cup Listed(tx[a].old)
      <4>1. CASE j = Len(tx[a].changed) + 1
        BY <3>1, <4>1
      <4>2. CASE j # Len(tx[a].changed) + 1
        <5>1. j \in 1..Len(tx[a].changed)
          BY <1>1, <4>2
        <5>2. QED
          BY <1>1, <3>1, <5>1 DEF Lasting, Named
      <4>3. QED
        BY <4>1, <4>2
    <3>4. QED
      BY <3>2, <3>3 DEF Named
  <2>3. QED
    BY <2>1, <2>2
<1>4. QED
  BY <1>2, <1>3, LastingStep DEF Began

\* The files noted as changed, when one more is.
LEMMA NotedGrows ==
    ASSUME TxTypeOK, NEW a \in Attempts, NEW n \in Names, tx'[a].changed = Append(tx[a].changed, n)
    PROVE /\ Len(tx'[a].changed) = Len(tx[a].changed) + 1
          /\ Noted(a, Len(tx[a].changed)) \subseteq Noted(a, Len(tx[a].changed))'
          /\ Folded[n] \in Noted(a, Len(tx[a].changed))'
<1> DEFINE l == Len(tx[a].changed)
<1>1. tx[a].changed \in Seq(Names) /\ l \in Nat
  BY TransactionIs
<1>2. /\ Len(tx'[a].changed) = l + 1 /\ tx'[a].changed[l + 1] = n
      /\ \A j \in 1..l : tx'[a].changed[j] = tx[a].changed[j]
  BY <1>1, Adding
<1>3. QED
  BY <1>1, <1>2 DEF Noted

\* The rollback begins.
LEMMA UndoBegins ==
    ASSUME TxTypeOK, NEW a \in Attempts, Running(a), Active(a),
           tx[a].step \in {"stage", "remove", "rename", "retire"}, UNCHANGED <<tree, helper>>,
           tx'[a].step = "undo", tx'[a].i = 1, tx'[a].before = tx[a].before,
           \/ tx'[a].changed = tx[a].changed
           \/ \E n \in Names : tx'[a].changed = Append(tx[a].changed, n)
                               /\ Len(tx[a].changed) + 1 <= Len(NewFiles) + Len(OldFiles),
           Len(tx[a].changed) <= Len(NewFiles) + Len(OldFiles)
    PROVE Running(a)'
<1>1. Len(tx[a].changed) \in Nat
  BY TransactionIs
<1>2. /\ Len(tx'[a].changed) <= Len(NewFiles) + Len(OldFiles) /\ Len(tx'[a].changed) \in Nat
      /\ Noted(a, Len(tx[a].changed)) \subseteq Noted(a, Len(tx[a].changed))'
  <2>1. CASE tx'[a].changed = tx[a].changed
    BY <1>1, <2>1 DEF Noted
  <2>2. ASSUME NEW n \in Names, tx'[a].changed = Append(tx[a].changed, n),
               Len(tx[a].changed) + 1 <= Len(NewFiles) + Len(OldFiles)
        PROVE /\ Len(tx'[a].changed) <= Len(NewFiles) + Len(OldFiles) /\ Len(tx'[a].changed) \in Nat
              /\ Noted(a, Len(tx[a].changed)) \subseteq Noted(a, Len(tx[a].changed))'
    BY <1>1, <2>2, NotedGrows
  <2>3. QED
    BY <2>1, <2>2
<1>3. \A k \in Keys : tree[k] = tx[a].before[k] \/ k \in Noted(a, Len(tx[a].changed))
  BY DEF Running, Changing
<1>4. Len(tx'[a].changed) + 1 - tx'[a].i = Len(tx'[a].changed)
  BY <1>2
<1>5. \A k \in Keys : tree'[k] = tx'[a].before[k]
                      \/ k \in Noted(a, Len(tx[a].changed) + 1 - tx[a].i)'
  BY <1>2, <1>3, <1>4 DEF Noted
<1>6. Undoing(a)'
  BY <1>2, <1>5 DEF Undoing
<1>7. QED
  BY <1>6 DEF Running, BackingUp, Writing, Retiring, Changing

\* The number of the changed files, while files are written.
LEMMA FewChanged ==
    ASSUME TxTypeOK, NEW a \in Attempts, Running(a), Active(a),
           tx[a].step \in {"stage", "remove", "rename"}
    PROVE /\ Len(tx[a].changed) <= Len(NewFiles) + Len(OldFiles)
          /\ tx[a].step = "remove" => Len(tx[a].changed) + 1 <= Len(NewFiles) + Len(OldFiles)
          /\ tx[a].i \in Nat /\ tx[a].i >= 1 /\ tx[a].i \in Places
          /\ tx[a].step \in {"remove", "rename"} => tx[a].i + 1 \in Places /\ tx[a].i \in DOMAIN NewFiles
          /\ 1 \in Places
<1>1. tx[a].i \in Nat /\ tx[a].i >= 1 /\ Len(tx[a].changed) \in Nat
  BY TransactionIs
<1>2. /\ Len(OldFiles) \in Nat /\ Len(NewFiles) \in Nat /\ DOMAIN NewFiles = 1..Len(NewFiles)
      /\ Places = 1..(Len(OldFiles) + Len(NewFiles) + 1)
  BY LengthsAre
<1>3. Writing(a)
  BY DEF Running
<1>4. QED
  BY <1>1, <1>2, <1>3, SMTT(30) DEF Writing

\* The next new file is copied under the temporary name.
LEMMA StageStep ==
    ASSUME TxTypeOK, NEW a \in Attempts, Lasting(a), Running(a), Active(a), Stage(a),
           UNCHANGED helper
    PROVE TxTypeOK' /\ Lasting(a)' /\ Running(a)' /\ Touches(a)
<1> DEFINE t == tx[a]
<1>1. /\ tx \in [Attempts -> Transactions] /\ tree \in Trees /\ backup \in Backups
      /\ temporary \in {"none", "partial", "new"}
  BY TransactionTypes
<1>2. /\ t \in Transactions /\ t.i \in Nat /\ t.i >= 1 /\ Len(t.changed) \in Nat
  BY TransactionIs
<1>3. t.step = "stage" /\ UNCHANGED <<tree, backup>>
  BY DEF Stage
<1>4. Touches(a)
  BY <1>3 DEF Touches
<1>5. faults' \in 0..MaxFaults
  BY Faults DEF Stage
<1>6. /\ Len(t.changed) <= Len(NewFiles) + Len(OldFiles)
      /\ t.i \in Places /\ 1 \in Places
  BY <1>3, FewChanged
<1>7. /\ Len(OldFiles) \in Nat /\ Len(NewFiles) \in Nat /\ DOMAIN NewFiles = 1..Len(NewFiles)
      /\ Len(t.old) \in Nat
  BY LengthsAre
<1>8. /\ t.i <= Len(NewFiles) + 1 /\ Len(t.changed) <= t.i - 1
      /\ \A j \in 1..(t.i - 1) : tree[Folded[NewFiles[j]]] = "new"
  BY <1>3 DEF Running, Writing
<1>9. CASE t.i > Len(NewFiles) /\ Goes(a, "retire") /\ UNCHANGED temporary
  <2>1. tx' = [tx EXCEPT ![a] = [t EXCEPT !.step = "retire", !.i = 1]]
    BY <1>1, <1>9 DEF Goes
  <2>2. [t EXCEPT !.step = "retire", !.i = 1] \in Transactions
    BY <1>2, <1>6, Settings DEF Steps
  <2>3. /\ tx'[a].step = "retire" /\ tx'[a].i = 1 /\ tx'[a].old = t.old
        /\ tx'[a].before = t.before /\ tx'[a].changed = t.changed
        /\ tx'[a].backedUp = t.backedUp /\ tx'[a].incomplete = t.incomplete
    BY <1>1, <1>2, <2>1 DEF Transactions
  <2>4. TxTypeOK'
    BY <1>1, <1>3, <1>5, <1>9, <2>1, <2>2, TxTypes
  <2>5. Lasting(a)'
    BY <1>3, <1>4, <2>3, LastingAfter
  <2>6. Retiring(a)'
    <3>1. \A k \in FilesOf(NewFiles) : tree[k] = "new"
      BY <1>2, <1>7, <1>8, <1>9 DEF FilesOf
    <3>2. Len(t.changed) <= Len(NewFiles)
      BY <1>2, <1>7, <1>8
    <3>3. tx'[a].i - 1 = 0 /\ Retired(a)' = 0
      BY <2>3 DEF Retired
    <3>4. QED
      BY <1>3, <1>7, <2>3, <3>1, <3>2, <3>3 DEF Retiring
  <2>7. Changing(a)'
    BY <1>3, <2>3 DEF Running, Changing, Noted
  <2>8. Running(a)'
    BY <2>3, <2>6, <2>7 DEF Running, BackingUp, Writing, Undoing
  <2>9. QED
    BY <1>4, <2>4, <2>5, <2>8
<1>10. ASSUME NEW mine \in BOOLEAN, Throw(a, mine)
       PROVE TxTypeOK' /\ Lasting(a)' /\ Running(a)' /\ Touches(a)
  <2>1. tx' = [tx EXCEPT ![a] = [t EXCEPT !.step = "undo", !.i = 1]]
    BY <1>1, <1>10 DEF Throw, Goes
  <2>2. [t EXCEPT !.step = "undo", !.i = 1] \in Transactions
    BY <1>2, <1>6, Settings DEF Steps
  <2>3. /\ tx'[a].step = "undo" /\ tx'[a].i = 1 /\ tx'[a].old = t.old
        /\ tx'[a].before = t.before /\ tx'[a].changed = t.changed
        /\ tx'[a].backedUp = t.backedUp
    BY <1>1, <1>2, <2>1 DEF Transactions
  <2>4. temporary' \in {"none", "partial", "new"}
    BY <1>1, <1>10 DEF Throw
  <2>5. TxTypeOK'
    BY <1>1, <1>3, <1>5, <2>1, <2>2, <2>4, TxTypes
  <2>6. Lasting(a)'
    BY <1>3, <1>4, <2>3, LastingAfter
  <2>7. Running(a)'
    BY <1>3, <1>6, <2>3, UndoBegins
  <2>8. QED
    BY <1>4, <2>5, <2>6, <2>7
<1>11. CASE /\ t.i <= Len(NewFiles) /\ temporary' = "new"
            /\ tx' = [tx EXCEPT ![a].step = "remove"]
  <2>1. tx' = [tx EXCEPT ![a] = [t EXCEPT !.step = "remove"]]
    BY <1>1, <1>11
  <2>2. [t EXCEPT !.step = "remove"] \in Transactions
    BY <1>2, Settings DEF Steps
  <2>3. /\ tx'[a].step = "remove" /\ tx'[a].i = t.i /\ tx'[a].old = t.old
        /\ tx'[a].before = t.before /\ tx'[a].changed = t.changed
        /\ tx'[a].backedUp = t.backedUp /\ tx'[a].incomplete = t.incomplete
    BY <1>1, <1>2, <2>1 DEF Transactions
  <2>4. TxTypeOK'
    BY <1>1, <1>3, <1>5, <1>11, <2>1, <2>2, TxTypes
  <2>5. Lasting(a)'
    BY <1>3, <1>4, <2>3, LastingAfter
  <2>6. Writing(a)' /\ Changing(a)'
    BY <1>3, <1>8, <1>11, <2>3 DEF Running, Writing, Changing, Noted
  <2>7. Running(a)'
    BY <2>3, <2>6 DEF Running, BackingUp, Retiring, Undoing
  <2>8. QED
    BY <1>4, <2>4, <2>5, <2>7
<1>12. QED
  BY <1>9, <1>10, <1>11 DEF Stage

\* The file to be replaced is noted and removed.
LEMMA RemoveStep ==
    ASSUME TxTypeOK, NEW a \in Attempts, Lasting(a), Running(a), Active(a), Remove(a),
           UNCHANGED helper
    PROVE TxTypeOK' /\ Lasting(a)' /\ Running(a)' /\ Touches(a)
<1> DEFINE t == tx[a]
           name == NewFiles[t.i]
           k == Folded[name]
           changed == Append(t.changed, name)
<1>1. /\ tx \in [Attempts -> Transactions] /\ tree \in Trees /\ backup \in Backups
      /\ temporary \in {"none", "partial", "new"}
  BY TransactionTypes
<1>2. /\ t \in Transactions /\ t.i \in Nat /\ t.i >= 1 /\ Len(t.changed) \in Nat
      /\ t.changed \in Seq(Names)
  BY TransactionIs
<1>3. t.step = "remove" /\ UNCHANGED backup
  BY DEF Remove
<1>4. faults' \in 0..MaxFaults
  BY Faults DEF Remove
<1>5. /\ Len(t.changed) <= Len(NewFiles) + Len(OldFiles)
      /\ Len(t.changed) + 1 <= Len(NewFiles) + Len(OldFiles)
      /\ t.i \in Places /\ 1 \in Places /\ t.i \in DOMAIN NewFiles
  BY <1>3, FewChanged
<1>6. /\ name \in Names /\ k \in FilesOf(NewFiles) /\ k \in Keys /\ name \in Listed(NewFiles)
      /\ DOMAIN NewFiles = 1..Len(NewFiles) /\ Len(NewFiles) \in Nat
  BY <1>5, ListsAre DEF Lists
<1>7. changed \in Seq(Names)
  BY <1>2, <1>6, Adding
<1>8. /\ t.i <= Len(NewFiles) /\ Len(t.changed) <= t.i - 1 /\ temporary = "new"
      /\ \A j \in 1..(t.i - 1) : tree[Folded[NewFiles[j]]] = "new"
  BY <1>3 DEF Running, Writing
<1>9. CASE /\ tree' = [tree EXCEPT ![k] = "none"]
           /\ tx' = [tx EXCEPT ![a].step = "rename", ![a].changed = changed]
           /\ UNCHANGED temporary
  <2>1. tx' = [tx EXCEPT ![a] = [t EXCEPT !.step = "rename", !.changed = changed]]
    BY <1>1, <1>9
  <2>2. [t EXCEPT !.step = "rename", !.changed = changed] \in Transactions
    BY <1>2, <1>7, Settings DEF Steps
  <2>3. /\ tx'[a].step = "rename" /\ tx'[a].i = t.i /\ tx'[a].old = t.old
        /\ tx'[a].before = t.before /\ tx'[a].changed = changed
        /\ tx'[a].backedUp = t.backedUp /\ tx'[a].incomplete = t.incomplete
    BY <1>1, <1>2, <2>1 DEF Transactions
  <2>4. /\ tree' \in Trees /\ tree'[k] = "none"
        /\ \A f \in Keys : f # k => tree'[f] = tree[f]
    BY <1>1, <1>6, <1>9 DEF Trees, Contents
  <2>5. TxTypeOK'
    BY <1>1, <1>3, <1>4, <1>9, <2>1, <2>2, <2>4, TxTypes
  <2>6. Touches(a)
    BY <1>6, <2>4 DEF Touches
  <2>7. Lasting(a)'
    BY <1>3, <1>6, <2>3, <2>6, LastingAfter
  <2>8. /\ Len(tx'[a].changed) = Len(t.changed) + 1
        /\ Noted(a, Len(tx[a].changed)) \subseteq Noted(a, Len(tx[a].changed))'
        /\ k \in Noted(a, Len(tx[a].changed))'
    BY <1>6, <2>3, NotedGrows
  <2>9. Writing(a)'
    <3>1. ASSUME NEW j \in 1..(t.i - 1)
          PROVE tree'[Folded[NewFiles[j]]] = "new"
      <4>1. j \in DOMAIN NewFiles /\ j # t.i
        BY <1>2, <1>6, <1>8
      <4>2. Folded[NewFiles[j]] # k /\ Folded[NewFiles[j]] \in Keys
        BY <1>5, <4>1, ListsAssumption, ListsAre DEF Lists
      <4>3. QED
        BY <1>8, <2>4, <4>2
    <3>2. Len(tx'[a].changed) <= t.i /\ t.i <= Len(NewFiles) + 1
      BY <1>2, <1>6, <1>8, <2>8
    <3>3. QED
      BY <1>8, <1>9, <2>3, <2>8, <3>1, <3>2 DEF Writing
  <2>10. Changing(a)'
    BY <1>3, <2>3, <2>4, <2>8 DEF Running, Changing
  <2>11. Running(a)'
    BY <2>3, <2>9, <2>10 DEF Running, BackingUp, Retiring, Undoing
  <2>12. QED
    BY <2>5, <2>6, <2>7, <2>11
<1>10. CASE /\ tx' = [tx EXCEPT ![a].step = "undo", ![a].i = 1, ![a].changed = changed]
            /\ temporary' = "none" /\ UNCHANGED tree
  <2>1. tx' = [tx EXCEPT ![a] = [t EXCEPT !.step = "undo", !.i = 1, !.changed = changed]]
    BY <1>1, <1>10
  <2>2. [t EXCEPT !.step = "undo", !.i = 1, !.changed = changed] \in Transactions
    BY <1>2, <1>5, <1>7, Settings DEF Steps
  <2>3. /\ tx'[a].step = "undo" /\ tx'[a].i = 1 /\ tx'[a].old = t.old
        /\ tx'[a].before = t.before /\ tx'[a].changed = changed
        /\ tx'[a].backedUp = t.backedUp
    BY <1>1, <1>2, <2>1 DEF Transactions
  <2>4. TxTypeOK'
    BY <1>1, <1>3, <1>4, <1>10, <2>1, <2>2, TxTypes
  <2>5. Touches(a)
    BY <1>10 DEF Touches
  <2>6. Lasting(a)'
    BY <1>3, <1>6, <2>3, <2>5, LastingAfter
  <2>7. Running(a)'
    BY <1>3, <1>5, <1>6, <1>10, <2>3, UndoBegins
  <2>8. QED
    BY <2>4, <2>5, <2>6, <2>7
<1>11. QED
  BY <1>9, <1>10 DEF Remove

\* The temporary file takes the target's name.
LEMMA RenameStep ==
    ASSUME TxTypeOK, NEW a \in Attempts, Lasting(a), Running(a), Active(a), Rename(a),
           UNCHANGED helper
    PROVE TxTypeOK' /\ Lasting(a)' /\ Running(a)' /\ Touches(a)
<1> DEFINE t == tx[a]
           k == Folded[NewFiles[t.i]]
<1>1. /\ tx \in [Attempts -> Transactions] /\ tree \in Trees /\ backup \in Backups
      /\ temporary \in {"none", "partial", "new"}
  BY TransactionTypes
<1>2. /\ t \in Transactions /\ t.i \in Nat /\ t.i >= 1 /\ Len(t.changed) \in Nat
  BY TransactionIs
<1>3. t.step = "rename" /\ UNCHANGED backup
  BY DEF Rename
<1>4. faults' \in 0..MaxFaults
  BY Faults DEF Rename
<1>5. /\ Len(t.changed) <= Len(NewFiles) + Len(OldFiles)
      /\ 1 \in Places /\ t.i + 1 \in Places /\ t.i \in DOMAIN NewFiles
  BY <1>3, FewChanged
<1>6. /\ k \in FilesOf(NewFiles) /\ k \in Keys
      /\ DOMAIN NewFiles = 1..Len(NewFiles) /\ Len(NewFiles) \in Nat
  BY <1>5, ListsAre DEF Lists
<1>7. /\ t.i <= Len(NewFiles) /\ Len(t.changed) <= t.i /\ temporary = "new"
      /\ \A j \in 1..(t.i - 1) : tree[Folded[NewFiles[j]]] = "new"
      /\ k \in Noted(a, Len(tx[a].changed))
  BY <1>3 DEF Running, Writing
<1>8. CASE /\ tree' = [tree EXCEPT ![k] = temporary] /\ temporary' = "none"
           /\ tx' = [tx EXCEPT ![a].step = "stage", ![a].i = @ + 1]
  <2>1. tx' = [tx EXCEPT ![a] = [t EXCEPT !.step = "stage", !.i = t.i + 1]]
    BY <1>1, <1>8
  <2>2. [t EXCEPT !.step = "stage", !.i = t.i + 1] \in Transactions
    BY <1>2, <1>5, Settings DEF Steps
  <2>3. /\ tx'[a].step = "stage" /\ tx'[a].i = t.i + 1 /\ tx'[a].old = t.old
        /\ tx'[a].before = t.before /\ tx'[a].changed = t.changed
        /\ tx'[a].backedUp = t.backedUp /\ tx'[a].incomplete = t.incomplete
    BY <1>1, <1>2, <2>1 DEF Transactions
  <2>4. /\ tree' \in Trees /\ tree'[k] = "new"
        /\ \A f \in Keys : f # k => tree'[f] = tree[f]
    BY <1>1, <1>6, <1>7, <1>8 DEF Trees, Contents
  <2>5. TxTypeOK'
    BY <1>1, <1>3, <1>4, <1>8, <2>1, <2>2, <2>4, TxTypes
  <2>6. Touches(a)
    BY <1>6, <2>4 DEF Touches
  <2>7. Lasting(a)'
    BY <1>3, <2>3, <2>6, LastingAfter
  <2>8. Writing(a)'
    <3>1. ASSUME NEW j \in 1..t.i
          PROVE tree'[Folded[NewFiles[j]]] = "new"
      <4>1. CASE j = t.i
        BY <2>4, <4>1
      <4>2. CASE j # t.i
        <5>1. j \in DOMAIN NewFiles /\ j \in 1..(t.i - 1)
          BY <1>2, <1>6, <1>7, <4>2
        <5>2. Folded[NewFiles[j]] \in Keys
          BY <5>1, ListsAre DEF Lists
        <5>3. QED
          BY <1>7, <2>4, <5>1, <5>2
      <4>3. QED
        BY <4>1, <4>2
    <3>2. tx'[a].i - 1 = t.i /\ tx'[a].i <= Len(NewFiles) + 1
      BY <1>2, <1>6, <1>7, <2>3
    <3>3. QED
      BY <1>7, <2>3, <3>1, <3>2 DEF Writing
  <2>9. Changing(a)'
    <3>1. Noted(a, Len(tx[a].changed))' = Noted(a, Len(tx[a].changed))
      BY <2>3 DEF Noted
    <3>2. \A f \in Keys : tree[f] = t.before[f] \/ f \in Noted(a, Len(tx[a].changed))
      BY <1>3 DEF Running, Changing
    <3>3. QED
      BY <1>7, <2>3, <2>4, <3>1, <3>2 DEF Changing
  <2>10. Running(a)'
    BY <2>3, <2>8, <2>9 DEF Running, BackingUp, Retiring, Undoing
  <2>11. QED
    BY <2>5, <2>6, <2>7, <2>10
<1>9. CASE Throw(a, TRUE) /\ UNCHANGED tree
  <2>1. tx' = [tx EXCEPT ![a] = [t EXCEPT !.step = "undo", !.i = 1]]
    BY <1>1, <1>9 DEF Throw, Goes
  <2>2. [t EXCEPT !.step = "undo", !.i = 1] \in Transactions
    BY <1>2, <1>5, Settings DEF Steps
  <2>3. /\ tx'[a].step = "undo" /\ tx'[a].i = 1 /\ tx'[a].old = t.old
        /\ tx'[a].before = t.before /\ tx'[a].changed = t.changed
        /\ tx'[a].backedUp = t.backedUp
    BY <1>1, <1>2, <2>1 DEF Transactions
  <2>4. temporary' \in {"none", "partial", "new"}
    BY <1>9 DEF Throw
  <2>5. TxTypeOK'
    BY <1>1, <1>3, <1>4, <1>9, <2>1, <2>2, <2>4, TxTypes
  <2>6. Touches(a)
    BY <1>9 DEF Touches
  <2>7. Lasting(a)'
    BY <1>3, <2>3, <2>6, LastingAfter
  <2>8. Running(a)'
    BY <1>3, <1>5, <1>9, <2>3, UndoBegins
  <2>9. QED
    BY <2>5, <2>6, <2>7, <2>8
<1>10. QED
  BY <1>8, <1>9 DEF Rename

\* The next file that is not in the package goes.
LEMMA RetireStep ==
    ASSUME TxTypeOK, NEW a \in Attempts, Lasting(a), Running(a), Active(a), Retire(a),
           UNCHANGED helper
    PROVE TxTypeOK' /\ Lasting(a)' /\ Running(a)' /\ Touches(a)
<1> DEFINE t == tx[a]
           name == t.old[t.i]
           k == Folded[name]
           changed == Append(t.changed, name)
<1>1. /\ tx \in [Attempts -> Transactions] /\ tree \in Trees /\ backup \in Backups
      /\ temporary \in {"none", "partial", "new"}
  BY TransactionTypes
<1>2. /\ t \in Transactions /\ t.i \in Nat /\ t.i >= 1 /\ Len(t.changed) \in Nat
      /\ t.changed \in Seq(Names) /\ t.old \in Lists
  BY TransactionIs
<1>3. t.step = "retire" /\ UNCHANGED <<temporary, backup>>
  BY DEF Retire
<1>4. faults' \in 0..MaxFaults
  BY Faults DEF Retire
<1>5. /\ Len(OldFiles) \in Nat /\ Len(NewFiles) \in Nat /\ Len(t.old) \in Nat
      /\ Len(t.old) <= Len(OldFiles) + Len(NewFiles)
      /\ t.old = NewFiles \/ Len(t.old) <= Len(OldFiles)
      /\ DOMAIN t.old = 1..Len(t.old) /\ Places = 1..(Len(OldFiles) + Len(NewFiles) + 1)
  BY LengthsAre
<1>6. /\ t.i <= Len(t.old) + 1
      /\ Len(t.changed) <= Len(NewFiles) + Retired(a)
      /\ \A f \in FilesOf(NewFiles) : tree[f] = "new"
      /\ \A j \in 1..(t.i - 1) :
            Folded[t.old[j]] \in FilesOf(NewFiles) \/ tree[Folded[t.old[j]]] = "none"
  BY <1>3 DEF Running, Retiring
<1>7. Len(t.changed) <= Len(NewFiles) + Len(OldFiles) /\ 1 \in Places
  <2>1. CASE t.old = NewFiles
    BY <1>2, <1>5, <1>6, <2>1 DEF Retired
  <2>2. CASE t.old # NewFiles
    <3>1. Retired(a) = t.i - 1 /\ Len(t.old) <= Len(OldFiles)
      BY <1>5, <2>2 DEF Retired
    <3>2. QED
      BY <1>2, <1>5, <1>6, <3>1, SMTT(30)
  <2>3. QED
    BY <2>1, <2>2
<1>8. \A f \in Keys : tree[f] = t.before[f] \/ f \in Noted(a, Len(tx[a].changed))
  BY <1>3 DEF Running, Changing
<1>9. CASE t.i > Len(t.old) /\ Goes(a, "done") /\ UNCHANGED tree
  <2>1. tx' = [tx EXCEPT ![a] = [t EXCEPT !.step = "done", !.i = 1]]
    BY <1>1, <1>9 DEF Goes
  <2>2. [t EXCEPT !.step = "done", !.i = 1] \in Transactions
    BY <1>2, <1>7, Settings DEF Steps
  <2>3. /\ tx'[a].step = "done" /\ tx'[a].i = 1 /\ tx'[a].old = t.old
        /\ tx'[a].before = t.before /\ tx'[a].changed = t.changed
        /\ tx'[a].backedUp = t.backedUp /\ tx'[a].incomplete = t.incomplete
    BY <1>1, <1>2, <2>1 DEF Transactions
  <2>4. TxTypeOK'
    BY <1>1, <1>3, <1>4, <1>9, <2>1, <2>2, TxTypes
  <2>5. Touches(a)
    BY <1>9 DEF Touches
  <2>6. Lasting(a)'
    BY <1>3, <2>3, <2>5, LastingAfter
  <2>7. Running(a)'
    BY <2>3 DEF Running, BackingUp, Writing, Retiring, Changing, Undoing
  <2>8. QED
    BY <2>4, <2>5, <2>6, <2>7
<1>10. CASE /\ t.i <= Len(t.old) /\ k \in FilesOf(NewFiles) /\ Advances(a) /\ UNCHANGED tree
  <2>1. tx' = [tx EXCEPT ![a] = [t EXCEPT !.i = t.i + 1]]
    BY <1>1, <1>10 DEF Advances
  <2>2. [t EXCEPT !.i = t.i + 1] \in Transactions
    <3>1. t.i + 1 \in Places
      BY <1>2, <1>5, <1>10
    <3>2. QED
      BY <1>2, <3>1, Settings
  <2>3. /\ tx'[a].step = "retire" /\ tx'[a].i = t.i + 1 /\ tx'[a].old = t.old
        /\ tx'[a].before = t.before /\ tx'[a].changed = t.changed
        /\ tx'[a].backedUp = t.backedUp /\ tx'[a].incomplete = t.incomplete
    BY <1>1, <1>2, <1>3, <2>1 DEF Transactions
  <2>4. TxTypeOK'
    BY <1>1, <1>3, <1>4, <1>10, <2>1, <2>2, TxTypes
  <2>5. Touches(a)
    BY <1>10 DEF Touches
  <2>6. Lasting(a)'
    BY <1>3, <2>3, <2>5, LastingAfter
  <2>7. Retiring(a)'
    <3>1. \A j \in 1..t.i : Folded[t.old[j]] \in FilesOf(NewFiles) \/ tree[Folded[t.old[j]]] = "none"
      <4>1. \A j \in 1..t.i : j = t.i \/ j \in 1..(t.i - 1)
        BY <1>2
      <4>2. QED
        BY <1>6, <1>10, <4>1
    <3>2. \A m, n \in Nat : m <= n => m + 1 - 1 = m /\ m + 1 <= n + 1
      OBVIOUS
    <3>3. tx'[a].i - 1 = t.i /\ tx'[a].i <= Len(t.old) + 1
      BY <1>2, <1>5, <1>10, <2>3, <3>2
    <3>4. Retired(a) <= Retired(a)' /\ Retired(a) \in Int /\ Retired(a)' \in Int
      BY <1>2, <2>3, <3>3 DEF Retired
    <3>5. Len(t.changed) <= Len(NewFiles) + Retired(a)'
      BY <1>2, <1>5, <1>6, <3>4
    <3>6. QED
      BY <1>6, <1>10, <2>3, <3>1, <3>3, <3>5 DEF Retiring
  <2>8. Changing(a)'
    BY <1>8, <1>10, <2>3 DEF Changing, Noted
  <2>9. Running(a)'
    BY <2>3, <2>7, <2>8 DEF Running, BackingUp, Writing, Undoing
  <2>10. QED
    BY <2>4, <2>5, <2>6, <2>9
<1>11. ASSUME t.i <= Len(t.old), k \notin FilesOf(NewFiles)
       PROVE /\ name \in Names /\ name \in Listed(t.old) /\ k \in Keys /\ k \in FilesOf(t.old)
             /\ changed \in Seq(Names) /\ t.i + 1 \in Places /\ t.old # NewFiles
             /\ Len(t.changed) + 1 <= Len(NewFiles) + Len(OldFiles)
             /\ Len(t.changed) + 1 <= Len(NewFiles) + t.i
  <2>1. t.i \in DOMAIN t.old
    BY <1>2, <1>5, <1>11
  <2>2. name \in Names /\ name \in Listed(t.old) /\ k \in Keys /\ k \in FilesOf(t.old)
    BY <1>2, <2>1, ListsAre
  <2>3. t.old # NewFiles
    BY <1>11, <2>2
  <2>4. changed \in Seq(Names)
    BY <1>2, <2>2, Adding
  <2>5. Retired(a) = t.i - 1
    BY <2>3 DEF Retired
  <2>6. t.i \in Nat /\ Len(t.changed) \in Nat /\ Len(t.old) \in Nat /\ Len(OldFiles) \in Nat
        /\ Len(NewFiles) \in Nat /\ Len(t.old) <= Len(OldFiles) /\ t.i <= Len(t.old) /\ t.i >= 1
        /\ Len(t.changed) <= Len(NewFiles) + (t.i - 1)
    BY <1>2, <1>5, <1>6, <1>11, <2>3, <2>5
  <2>7. ASSUME NEW i \in Nat, NEW c \in Nat, NEW o \in Nat, NEW l \in Nat, NEW n \in Nat,
               o <= l, i <= o, i >= 1, c <= n + (i - 1)
        PROVE i + 1 \in 1..(l + n + 1) /\ c + 1 <= n + l /\ c + 1 <= n + i
    <3>1. i + 1 >= 1 /\ i + 1 <= l + n + 1
      BY <2>7
    <3>2. c + 1 <= n + l /\ c + 1 <= n + i
      BY <2>7
    <3>3. QED
      BY <3>1, <3>2
  <2>8. QED
    BY <1>5, <2>2, <2>3, <2>4, <2>6, <2>7
<1>12. CASE /\ t.i <= Len(t.old) /\ k \notin FilesOf(NewFiles)
            /\ tree' = [tree EXCEPT ![k] = "none"]
            /\ tx' = [tx EXCEPT ![a].i = @ + 1, ![a].changed = changed]
  <2>1. tx' = [tx EXCEPT ![a] = [t EXCEPT !.i = t.i + 1, !.changed = changed]]
    BY <1>1, <1>12
  <2>2. [t EXCEPT !.i = t.i + 1, !.changed = changed] \in Transactions
    BY <1>2, <1>11, <1>12, Settings
  <2>3. /\ tx'[a].step = "retire" /\ tx'[a].i = t.i + 1 /\ tx'[a].old = t.old
        /\ tx'[a].before = t.before /\ tx'[a].changed = changed
        /\ tx'[a].backedUp = t.backedUp /\ tx'[a].incomplete = t.incomplete
    BY <1>1, <1>2, <1>3, <2>1 DEF Transactions
  <2>4. /\ tree' \in Trees /\ tree'[k] = "none"
        /\ \A f \in Keys : f # k => tree'[f] = tree[f]
    BY <1>1, <1>11, <1>12 DEF Trees, Contents
  <2>5. TxTypeOK'
    BY <1>1, <1>3, <1>4, <2>1, <2>2, <2>4, TxTypes
  <2>6. Touches(a)
    BY <1>11, <1>12, <2>4 DEF Touches
  <2>7. Lasting(a)'
    BY <1>3, <1>11, <1>12, <2>3, <2>6, LastingAfter
  <2>8. /\ Len(tx'[a].changed) = Len(t.changed) + 1
        /\ Noted(a, Len(tx[a].changed)) \subseteq Noted(a, Len(tx[a].changed))'
        /\ k \in Noted(a, Len(tx[a].changed))'
    BY <1>11, <1>12, <2>3, NotedGrows
  <2>9. Retiring(a)'
    <3>1. ASSUME NEW j \in 1..t.i
          PROVE Folded[t.old[j]] \in FilesOf(NewFiles) \/ tree'[Folded[t.old[j]]] = "none"
      <4>1. CASE j = t.i
        BY <2>4, <4>1
      <4>2. CASE j # t.i
        <5>1. j \in 1..(t.i - 1) /\ j \in DOMAIN t.old
          BY <1>2, <1>5, <1>12, <4>2
        <5>2. Folded[t.old[j]] \in Keys
          BY <1>2, <5>1, ListsAre
        <5>3. QED
          BY <1>6, <2>4, <5>1, <5>2
      <4>3. QED
        BY <4>1, <4>2
    <3>2. /\ tx'[a].i - 1 = t.i /\ tx'[a].i <= Len(t.old) + 1
      BY <1>2, <1>5, <1>12, <2>3
    <3>3. Retired(a)' = t.i
      BY <1>11, <1>12, <2>3, <3>2 DEF Retired
    <3>4. Len(tx'[a].changed) <= Len(NewFiles) + Retired(a)'
      BY <1>11, <1>12, <2>8, <3>3
    <3>5. \A f \in FilesOf(NewFiles) : tree'[f] = "new"
      <4>1. FilesOf(NewFiles) \subseteq Keys
        BY ListsAre DEF Lists
      <4>2. QED
        BY <1>6, <1>12, <2>4, <4>1
    <3>6. QED
      BY <2>3, <3>1, <3>2, <3>4, <3>5 DEF Retiring
  <2>10. Changing(a)'
    BY <1>8, <2>3, <2>4, <2>8 DEF Changing
  <2>11. Running(a)'
    BY <2>3, <2>9, <2>10 DEF Running, BackingUp, Writing, Undoing
  <2>12. QED
    BY <2>5, <2>6, <2>7, <2>11
<1>13. CASE /\ t.i <= Len(t.old) /\ k \notin FilesOf(NewFiles) /\ UNCHANGED tree
            /\ tx' = [tx EXCEPT ![a].step = "undo", ![a].i = 1, ![a].changed = changed]
  <2>1. tx' = [tx EXCEPT ![a] = [t EXCEPT !.step = "undo", !.i = 1, !.changed = changed]]
    BY <1>1, <1>13
  <2>2. [t EXCEPT !.step = "undo", !.i = 1, !.changed = changed] \in Transactions
    BY <1>2, <1>7, <1>11, <1>13, Settings DEF Steps
  <2>3. /\ tx'[a].step = "undo" /\ tx'[a].i = 1 /\ tx'[a].old = t.old
        /\ tx'[a].before = t.before /\ tx'[a].changed = changed
        /\ tx'[a].backedUp = t.backedUp
    BY <1>1, <1>2, <2>1 DEF Transactions
  <2>4. TxTypeOK'
    BY <1>1, <1>3, <1>4, <1>13, <2>1, <2>2, TxTypes
  <2>5. Touches(a)
    BY <1>13 DEF Touches
  <2>6. Lasting(a)'
    BY <1>3, <1>11, <1>13, <2>3, <2>5, LastingAfter
  <2>7. Running(a)'
    BY <1>3, <1>7, <1>11, <1>13, <2>3, UndoBegins
  <2>8. QED
    BY <2>4, <2>5, <2>6, <2>7
<1>14. QED
  BY <1>9, <1>10, <1>12, <1>13 DEF Retire

\* A file is restored as it was, if its name is spelled as in what is installed.
LEMMA Restored ==
    ASSUME TxTypeOK, NEW a \in Attempts, Lasting(a), tx[a].step = "undo",
           NEW n \in Listed(NewFiles) \cup Listed(tx[a].old)
    PROVE /\ n \in Names /\ Folded[n] \in Keys
          /\ Folded[n] \in FilesOf(NewFiles) \cup FilesOf(tx[a].old)
          /\ n \in tx[a].backedUp => backup[a][Folded[n]] = tx[a].before[Folded[n]]
          /\ SpellingKept /\ n \notin tx[a].backedUp => tx[a].before[Folded[n]] = "none"
<1>1. tx[a].old \in Lists /\ NewFiles \in Lists
  BY TransactionIs DEF Lists
<1>2. /\ n \in Names /\ Folded[n] \in Keys
      /\ Folded[n] \in FilesOf(NewFiles) \cup FilesOf(tx[a].old)
  BY <1>1, ListsAre, FoldedIs
<1>3. n \in tx[a].backedUp => backup[a][Folded[n]] = tx[a].before[Folded[n]]
  BY DEF Lasting, Copied
<1>4. ASSUME SpellingKept, n \notin tx[a].backedUp
      PROVE tx[a].before[Folded[n]] = "none"
  <2>1. CASE n \in Listed(tx[a].old)
    BY <1>4, <2>1 DEF Lasting, AllCopied
  <2>2. CASE n \notin Listed(tx[a].old)
    <3>1. n \in Listed(NewFiles) /\ Folded[n] \in FilesOf(NewFiles)
      BY <1>1, <2>2, ListsAre
    <3>2. Folded[n] \notin FilesOf(tx[a].old)
      <4>1. tx[a].old # NewFiles
        BY <2>2, <3>1
      <4>2. CASE tx[a].old = <<>>
        <5>1. DOMAIN tx[a].old = {}
          BY <4>2
        <5>2. QED
          BY <5>1 DEF FilesOf
      <4>3. CASE tx[a].old = OldFiles
        <5>1. SUFFICES ASSUME Folded[n] \in FilesOf(OldFiles)
                       PROVE FALSE
          BY <4>3
        <5>2. PICK m \in Listed(OldFiles) : Folded[n] = Folded[m]
          BY <5>1, ListsAre DEF Lists
        <5>3. m = n
          BY <1>4, <3>1, <5>2 DEF SpellingKept
        <5>4. QED
          BY <2>2, <4>3, <5>3
      <4>4. QED
        BY <1>1, <4>1, <4>2, <4>3 DEF Lists
    <3>3. QED
      BY <3>1, <3>2 DEF Lasting, NotOwned
  <2>3. QED
    BY <2>1, <2>2
<1>5. QED
  BY <1>2, <1>3, <1>4

\* One file of the rollback.
LEMMA UndoStep ==
    ASSUME TxTypeOK, NEW a \in Attempts, Lasting(a), Running(a), Active(a), Undo(a),
           UNCHANGED helper
    PROVE TxTypeOK' /\ Lasting(a)' /\ Running(a)' /\ Touches(a)
<1> DEFINE t == tx[a]
           l == Len(t.changed)
           name == LastChanged(a)
           k == Folded[name]
           mine == name \in t.backedUp
<1>1. /\ tx \in [Attempts -> Transactions] /\ tree \in Trees /\ backup \in Backups
      /\ temporary \in {"none", "partial", "new"}
  BY TransactionTypes
<1>2. /\ t \in Transactions /\ t.i \in Nat /\ t.i >= 1 /\ l \in Nat
      /\ t.changed \in Seq(Names) /\ t.old \in Lists /\ DOMAIN t.changed = 1..l
      /\ t.incomplete \in BOOLEAN /\ t.before \in Trees
  BY TransactionIs
<1>3. t.step = "undo" /\ UNCHANGED <<temporary, backup>>
  BY DEF Undo
<1>4. faults' \in 0..MaxFaults
  BY Faults DEF Undo
<1>5. /\ l <= Len(NewFiles) + Len(OldFiles) /\ t.i <= l + 1
      /\ SpellingKept /\ ~t.incomplete =>
            \A f \in Keys : tree[f] = t.before[f] \/ f \in Noted(a, l + 1 - t.i)
  BY <1>3 DEF Running, Undoing
<1>6. Len(NewFiles) \in Nat /\ Len(OldFiles) \in Nat
      /\ Places = 1..(Len(OldFiles) + Len(NewFiles) + 1) /\ 1 \in Places
  BY LengthsAre
<1>7. CASE t.i > l /\ Goes(a, "undone") /\ UNCHANGED tree
  <2>1. tx' = [tx EXCEPT ![a] = [t EXCEPT !.step = "undone", !.i = 1]]
    BY <1>1, <1>7 DEF Goes
  <2>2. [t EXCEPT !.step = "undone", !.i = 1] \in Transactions
    BY <1>2, <1>6, Settings DEF Steps
  <2>3. /\ tx'[a].step = "undone" /\ tx'[a].old = t.old
        /\ tx'[a].before = t.before /\ tx'[a].changed = t.changed
        /\ tx'[a].backedUp = t.backedUp
    BY <1>1, <1>2, <2>1 DEF Transactions
  <2>4. TxTypeOK'
    BY <1>1, <1>3, <1>4, <1>7, <2>1, <2>2, TxTypes
  <2>5. Touches(a)
    BY <1>7 DEF Touches
  <2>6. Lasting(a)'
    BY <1>3, <2>3, <2>5, LastingAfter
  <2>7. Running(a)'
    BY <2>3 DEF Running, BackingUp, Writing, Retiring, Changing, Undoing
  <2>8. QED
    BY <2>4, <2>5, <2>6, <2>7
<1>8. ASSUME t.i <= l
      PROVE /\ l + 1 - t.i \in 1..l /\ name = t.changed[l + 1 - t.i]
            /\ name \in Listed(NewFiles) \cup Listed(t.old) /\ t.i + 1 \in Places
            /\ l + 1 - (t.i + 1) = (l + 1 - t.i) - 1
  <2>1. l + 1 - t.i \in 1..l /\ t.i + 1 \in Places /\ l + 1 - (t.i + 1) = (l + 1 - t.i) - 1
    <3>1. ASSUME NEW i \in Nat, NEW c \in Nat, NEW o \in Nat, NEW n \in Nat,
                 i >= 1, i <= c, c <= n + o
          PROVE /\ c + 1 - i \in 1..c /\ i + 1 \in 1..(o + n + 1)
                /\ c + 1 - (i + 1) = (c + 1 - i) - 1
      BY <3>1
    <3>2. QED
      BY <1>2, <1>5, <1>6, <1>8, <3>1
  <2>2. name = t.changed[l + 1 - t.i]
    BY DEF LastChanged
  <2>3. QED
    BY <1>2, <2>1, <2>2 DEF Lasting, Named
<1>9. ASSUME t.i <= l, NEW content \in {"none", tree[k], t.before[k]},
             tree' = [tree EXCEPT ![k] = content],
             NEW v \in BOOLEAN,
             tx' = [tx EXCEPT ![a] = [t EXCEPT !.i = t.i + 1, !.incomplete = v]],
             ~v => ~t.incomplete /\ content = IF mine THEN backup[a][k] ELSE "none"
      PROVE TxTypeOK' /\ Lasting(a)' /\ Running(a)' /\ Touches(a)
  <2>1. /\ k \in Keys /\ k \in FilesOf(NewFiles) \cup FilesOf(t.old)
        /\ mine => backup[a][k] = t.before[k]
        /\ SpellingKept /\ ~mine => t.before[k] = "none"
    BY <1>3, <1>8, <1>9, Restored
  <2>2. [t EXCEPT !.i = t.i + 1, !.incomplete = v] \in Transactions
    BY <1>2, <1>8, <1>9, Settings
  <2>3. /\ tx'[a].step = "undo" /\ tx'[a].i = t.i + 1 /\ tx'[a].old = t.old
        /\ tx'[a].before = t.before /\ tx'[a].changed = t.changed
        /\ tx'[a].backedUp = t.backedUp /\ tx'[a].incomplete = v
    BY <1>1, <1>2, <1>3, <1>9 DEF Transactions
  <2>4. /\ content \in Contents /\ tree' \in Trees /\ tree'[k] = content
        /\ \A f \in Keys : f # k => tree'[f] = tree[f]
    BY <1>1, <1>2, <1>9, <2>1 DEF Trees, Contents
  <2>5. TxTypeOK'
    BY <1>1, <1>3, <1>4, <1>9, <2>2, <2>4, TxTypes
  <2>6. Touches(a)
    BY <1>9, <2>1, <2>4 DEF Touches
  <2>7. Lasting(a)'
    BY <1>3, <2>3, <2>6, LastingAfter
  <2>8. ASSUME SpellingKept, ~v, NEW f \in Keys
        PROVE tree'[f] = t.before[f] \/ f \in Noted(a, (l + 1 - t.i) - 1)
    <3>1. CASE f = k
      BY <1>9, <2>1, <2>4, <2>8, <3>1
    <3>2. CASE f # k /\ tree[f] # t.before[f]
      <4>1. PICK j \in 1..(l + 1 - t.i) : f = Folded[t.changed[j]]
        BY <1>5, <1>9, <2>8, <3>2 DEF Noted
      <4>2. j # l + 1 - t.i
        BY <1>8, <1>9, <3>2, <4>1
      <4>3. j \in 1..((l + 1 - t.i) - 1)
        BY <1>2, <4>2
      <4>4. QED
        BY <4>1, <4>3 DEF Noted
    <3>3. QED
      BY <2>4, <3>1, <3>2
  <2>9. Undoing(a)'
    <3>1. \A m \in Int : Noted(a, m)' = Noted(a, m)
      BY <2>3 DEF Noted
    <3>2. t.i + 1 <= l + 1
      BY <1>2, <1>9
    <3>3. Len(tx'[a].changed) + 1 - tx'[a].i = (l + 1 - t.i) - 1
      BY <1>8, <1>9, <2>3
    <3>4. \A f \in Keys : SpellingKept /\ ~v =>
            tree'[f] = t.before[f] \/ f \in Noted(a, (l + 1 - t.i) - 1)
      BY <2>8
    <3>5. PICK m \in Int : m = (l + 1 - t.i) - 1
      BY <1>2
    <3>6. Noted(a, Len(tx[a].changed) + 1 - tx[a].i)' = Noted(a, m)
      BY <3>1, <3>3, <3>5
    <3>7. QED
      BY <1>5, <2>3, <3>2, <3>4, <3>5, <3>6 DEF Undoing
  <2>10. Running(a)'
    BY <2>3, <2>9 DEF Running, BackingUp, Writing, Retiring, Changing
  <2>11. QED
    BY <2>5, <2>6, <2>7, <2>10
<1>10. CASE /\ t.i <= l /\ Advances(a)
            /\ tree' = [tree EXCEPT ![k] = IF mine THEN backup[a][k] ELSE "none"]
  <2>1. tx' = [tx EXCEPT ![a] = [t EXCEPT !.i = t.i + 1]]
    BY <1>1, <1>10 DEF Advances
  <2>2. [t EXCEPT !.i = t.i + 1] = [t EXCEPT !.i = t.i + 1, !.incomplete = t.incomplete]
    BY <1>2 DEF Transactions
  <2>3. mine => backup[a][k] = t.before[k]
    BY <1>3, <1>8, <1>10, Restored
  <2>4. (IF mine THEN backup[a][k] ELSE "none") \in {"none", tree[k], t.before[k]}
    BY <2>3
  <2>5. CASE t.incomplete
    BY <1>2, <1>9, <1>10, <2>1, <2>2, <2>4, <2>5
  <2>6. CASE ~t.incomplete
    BY <1>2, <1>9, <1>10, <2>1, <2>2, <2>4, <2>6
  <2>7. QED
    BY <2>5, <2>6
<1>11. CASE /\ t.i <= l
            /\ \E content \in {tree[k]} \cup (IF mine THEN {"none"} ELSE {}) :
                    tree' = [tree EXCEPT ![k] = content]
            /\ tx' = [tx EXCEPT ![a].i = @ + 1, ![a].incomplete = TRUE]
  <2>1. tx' = [tx EXCEPT ![a] = [t EXCEPT !.i = t.i + 1, !.incomplete = TRUE]]
    BY <1>1, <1>11
  <2>2. PICK content \in {"none", tree[k], t.before[k]} : tree' = [tree EXCEPT ![k] = content]
    BY <1>11
  <2>3. QED
    BY <1>9, <1>11, <2>1, <2>2
<1>12. QED
  BY <1>7, <1>10, <1>11 DEF Undo

-----------------------------------------------------------------------------
(* The transaction of the one helper that replaces *)

LEMMA TransactionStep ==
    ASSUME TypeOK, Control, Replacement, NEW a \in Attempts, ReplaceStep(a)
    PROVE TxTypeOK' /\ Lasting(a)' /\ Running(a)' /\ Touches(a)
<1>1. /\ TxTypeOK /\ Active(a) /\ Replace(a) /\ UNCHANGED helper /\ Lasting(a) /\ Running(a)
  BY Types DEF ReplaceStep, Active, Replacement
<1>2. QED
  BY <1>1, BackUpStep, StageStep, RemoveStep, RenameStep, RetireStep, UndoStep DEF Replace

\* It is the only one.
LEMMA OneActive ==
    ASSUME TypeOK, Control, NEW a \in Attempts, Active(a)
    PROVE /\ Began(a) /\ mutex.owner = {a}
          /\ tx[a].old = IF helper[a].expected = "new" THEN NewFiles ELSE OldFiles
          /\ \A b \in Attempts : Active(b) => b = a
<1>1. \A b \in Attempts : Lock(b) /\ Story(b)
  BY DEF Control
<1>2. mutex.owner = {a} /\ \A b \in Attempts : Active(b) => mutex.owner = {b}
  BY <1>1 DEF Active, Lock
<1>3. QED
  BY <1>1, <1>2 DEF Active, Story, Plan

LEMMA ManifestIs == Manifest \in Keys
BY PortableAssumption, ListsAre DEF Lists

\* A step of the transaction changes no other backup.
LEMMA BackupsElsewhere ==
    ASSUME TxTypeOK, NEW a \in Attempts, Replace(a), NEW b \in Attempts, b # a
    PROVE backup'[b] = backup[b]
<1>1. backup \in Backups
  BY TransactionTypes
<1>2. CASE BackUp(a)
  BY <1>1, <1>2 DEF BackUp, Backups
<1>3. CASE ~BackUp(a)
  BY <1>3 DEF Replace, Stage, Remove, Rename, Retire, Undo
<1>4. QED
  BY <1>2, <1>3

\* The rollback does not bring back a manifest that was not there.
LEMMA ManifestStays ==
    ASSUME TypeOK, Control, Replacement, NEW a \in Attempts, Active(a), Touches(a),
           NEW b \in Attempts, Began(b), helper[b].expected = "new"
    PROVE tree'[Manifest] # "old"
<1>1. /\ helper[a].expected \in {"old", "new"}
      /\ tree[Manifest] # "old" /\ tx[a].before[Manifest] = helper[a].expected
      /\ helper[a].expected = "old" => helper[b].expected = "old"
  BY Types DEF Replacement, Manifests, Helpers
<1>2. helper[a].expected = "new"
  BY <1>1
<1>3. QED
  BY <1>1, <1>2, ManifestIs DEF Touches

\* Nor does it touch a file that another had found and does not own.
LEMMA FilesElsewhere ==
    ASSUME TypeOK, Control, Replacement, NEW a \in Attempts, Active(a), Touches(a),
           NEW b \in Attempts, tx[b].step \notin {"idle", "refused"},
           NEW k \in Keys \ FilesOf(tx[b].old), tx[b].before[k] # "none"
    PROVE tree'[k] = tree[k]
<1>1. k \notin FilesOf(NewFiles)
  BY DEF Replacement, Lasting, NotOwned
<1>2. Began(b)
  BY DEF Began
<1>3. CASE helper[a].expected = "new"
  BY <1>1, <1>3, OneActive DEF Touches
<1>4. CASE helper[a].expected # "new"
  <2>1. helper[a].expected = "old" /\ tx[a].old = OldFiles
    BY <1>4, Types, OneActive DEF Helpers
  <2>2. helper[b].expected = "old"
    BY <1>2, <2>1 DEF Replacement, Manifests
  <2>3. tx[b].old = OldFiles
    BY <1>2, <2>2 DEF Control, Story, Plan
  <2>4. QED
    BY <1>1, <2>1, <2>3 DEF Touches
<1>5. QED
  BY <1>3, <1>4

LEMMA ReplaceStepReplacement ==
    ASSUME TypeOK, Control, Replacement, NEW a \in Attempts, ReplaceStep(a)
    PROVE TxTypeOK' /\ Replacement'
<1>1. TxTypeOK' /\ Lasting(a)' /\ Running(a)' /\ Touches(a)
  BY TransactionStep
<1>2. /\ TxTypeOK /\ Replace(a) /\ Active(a) /\ UNCHANGED helper
  BY Types DEF ReplaceStep, Active
<1>3. /\ tx'[a].step # "idle" /\ tx'[a].before = tx[a].before
      /\ \A b \in Attempts : b # a => tx'[b] = tx[b]
  BY <1>2, ReplaceIs
<1>4. Began(a) /\ \A b \in Attempts : Active(b) => b = a
  BY <1>2, OneActive
<1>5. \A b \in Attempts : Began(b)' => Began(b)
  BY <1>3, <1>4 DEF Began
<1>6. ASSUME NEW b \in Attempts
      PROVE Manifests(b)'
  <2>1. Began(b)' /\ helper'[b].expected = "new" => tree'[Manifest] # "old"
    BY <1>1, <1>2, <1>5, ManifestStays
  <2>2. Active(b)' => /\ b = a
                      /\ tx'[b].before[Manifest] = helper'[b].expected
                      /\ helper'[b].expected = "old" =>
                            \A c \in Attempts : Began(c)' => helper'[c].expected = "old"
    BY <1>2, <1>3, <1>4, <1>5 DEF Active, Replacement, Manifests
  <2>3. QED
    BY <2>1, <2>2 DEF Manifests
<1>7. ASSUME NEW b \in Attempts, b # a
      PROVE Lasting(b)' /\ Running(b)'
  <2>1. tx'[b] = tx[b] /\ backup'[b] = backup[b] /\ Lasting(b)
    BY <1>2, <1>3, <1>7, BackupsElsewhere DEF Replacement
  <2>2. \A k \in Keys \ FilesOf(tx[b].old) :
            tree'[k] = tree[k] \/ tx[b].before[k] = "none" \/ tx[b].step \in {"idle", "refused"}
    BY <1>1, <1>2, FilesElsewhere
  <2>3. Lasting(b)'
    BY <2>1, <2>2, LastingStill
  <2>4. ~Active(b)'
    BY <1>2, <1>4, <1>7 DEF Active
  <2>5. QED
    BY <2>3, <2>4 DEF Running
<1>8. QED
  BY <1>1, <1>6, <1>7 DEF Replacement

-----------------------------------------------------------------------------
(* The beginning of a transaction *)

LEMMA BeginTypes ==
    ASSUME TxTypeOK, NEW a \in Attempts, Begin(a)
    PROVE /\ TxTypeOK' /\ tx'[a].step \in {"backup", "refused"}
          /\ tx'[a].step = "backup" <=> Valid(tx[a].old)
          /\ tx'[a].before = tree /\ tx'[a].i = tx[a].i /\ tx'[a].old = tx[a].old
          /\ tx'[a].changed = tx[a].changed /\ tx'[a].backedUp = tx[a].backedUp
          /\ \A b \in Attempts : b # a => tx'[b] = tx[b]
          /\ UNCHANGED <<tree, temporary, backup>>
<1> DEFINE step == IF Valid(tx[a].old) THEN "backup" ELSE "refused"
<1>1. /\ tx \in [Attempts -> Transactions] /\ tree \in Trees /\ backup \in Backups
      /\ temporary \in {"none", "partial", "new"} /\ faults \in 0..MaxFaults
  BY TransactionTypes
<1>2. /\ tx' = [tx EXCEPT ![a] = [tx[a] EXCEPT !.step = step, !.before = tree]]
      /\ UNCHANGED <<tree, temporary, backup, faults>>
  BY <1>1 DEF Begin
<1>3. step \in {"backup", "refused"} /\ step \in Steps /\ (step = "backup" <=> Valid(tx[a].old))
  BY DEF Steps
<1> HIDE DEF step
<1>4. /\ [tx[a] EXCEPT !.step = step] \in Transactions
  BY <1>1, <1>3, Setting
<1>5. [tx[a] EXCEPT !.step = step, !.before = tree] \in Transactions
  BY <1>1, <1>4 DEF Transactions, Trees
<1>6. TxTypeOK'
  BY <1>1, <1>2, <1>5, TxTypes
<1>7. /\ tx'[a].step = step /\ tx'[a].before = tree /\ tx'[a].i = tx[a].i
      /\ tx'[a].old = tx[a].old /\ tx'[a].changed = tx[a].changed
      /\ tx'[a].backedUp = tx[a].backedUp
      /\ \A b \in Attempts : b # a => tx'[b] = tx[b]
  BY <1>1, <1>2 DEF Transactions
<1>8. QED
  BY <1>2, <1>3, <1>6, <1>7

LEMMA BeginReplacement ==
    ASSUME TypeOK, Control, Replacement, NEW a \in Attempts, helper[a].pc = "owner", Begin(a),
           tree[Manifest] = helper[a].expected, helper' = [helper EXCEPT ![a].pc = "replacing"]
    PROVE Replacement'
<1>1. TxTypeOK /\ helper \in [Attempts -> Helpers]
  BY Types
<1>2. /\ helper'[a].expected = helper[a].expected
      /\ \A b \in Attempts : b # a => helper'[b] = helper[b]
  BY <1>1 DEF Helpers
<1>3. /\ tx'[a].step \in {"backup", "refused"}
      /\ tx'[a].step = "backup" <=> Valid(tx[a].old)
      /\ tx'[a].before = tree /\ tx'[a].i = tx[a].i /\ tx'[a].old = tx[a].old
      /\ tx'[a].changed = tx[a].changed /\ tx'[a].backedUp = tx[a].backedUp
      /\ \A b \in Attempts : b # a => tx'[b] = tx[b]
      /\ UNCHANGED <<tree, temporary, backup>>
  BY <1>1, BeginTypes
<1>4. /\ tx[a].i = 1 /\ tx[a].changed = <<>> /\ tx[a].backedUp = {}
  BY DEF Begin, Replacement, Lasting, Idle, Began
<1>5. \A b \in Attempts : ~Active(b)
  BY DEF Control, Lock, Active
<1>6. Lasting(a)'
  <2>1. Idle(a)' /\ Copied(a)' /\ AllCopied(a)'
    BY <1>3, <1>4 DEF Idle, Began, Copied, AllCopied
  <2>2. Named(a)'
    BY <1>3, <1>4 DEF Named
  <2>3. NotOwned(a)'
    <3>1. tx'[a].step = "backup" =>
            \A k \in FilesOf(NewFiles) : tree[k] = "none" \/ k \in FilesOf(tx[a].old)
      BY <1>3 DEF Valid
    <3>2. QED
      BY <1>3, <3>1 DEF NotOwned
  <2>4. QED
    BY <2>1, <2>2, <2>3 DEF Lasting
<1>7. Running(a)'
  <2>1. tx'[a].changed = <<>> /\ tx'[a].i = 1 /\ tx'[a].old = tx[a].old
    BY <1>3, <1>4
  <2>2. Len(tx[a].old) \in Nat
    BY <1>1, LengthsAre
  <2>3. BackingUp(a)'
    BY <1>3, <2>1, <2>2 DEF BackingUp
  <2>4. QED
    BY <1>3, <2>3 DEF Running, Writing, Retiring, Changing, Undoing
<1>8. ASSUME NEW b \in Attempts, b # a
      PROVE Lasting(b)' /\ Running(b)'
  <2>1. tx'[b] = tx[b] /\ backup'[b] = backup[b] /\ Lasting(b)
    BY <1>3, <1>8 DEF Replacement
  <2>2. Lasting(b)'
    BY <1>3, <2>1, LastingStill
  <2>3. ~Active(b)'
    BY <1>2, <1>5, <1>8 DEF Active
  <2>4. QED
    BY <2>2, <2>3 DEF Running
<1>9. ASSUME NEW b \in Attempts
      PROVE Manifests(b)'
  <2>1. ASSUME NEW c \in Attempts, Began(c)'
        PROVE helper'[c].expected = "new" => tree[Manifest] # "old"
    <3>1. CASE c = a
      BY <1>2, <3>1
    <3>2. CASE c # a
      BY <1>2, <1>3, <2>1, <3>2 DEF Replacement, Manifests, Began
    <3>3. QED
      BY <3>1, <3>2
  <2>2. \A c \in Attempts : helper'[c].expected \in {"old", "new"}
    BY <1>1, <1>2 DEF Helpers
  <2>3. ASSUME Active(b)'
        PROVE /\ tx'[b].before[Manifest] = helper'[b].expected
              /\ helper'[b].expected = "old" =>
                    \A c \in Attempts : Began(c)' => helper'[c].expected = "old"
    <3>1. b = a
      BY <1>2, <1>5, <2>3 DEF Active
    <3>2. QED
      BY <1>2, <1>3, <2>1, <2>2, <3>1
  <2>4. QED
    BY <1>3, <2>1, <2>3 DEF Manifests
<1>10. QED
  BY <1>6, <1>7, <1>8, <1>9 DEF Replacement

-----------------------------------------------------------------------------
(* Types and bounds *)

\* One helper may take a step, with which it replaces nothing.
Quiet(a) ==
    /\ helper' \in [Attempts -> Helpers]
    /\ helper'[a].expected = helper[a].expected
    /\ helper'[a].pc # "replacing"
    /\ helper[a].pc = "ended" => helper'[a].pc = "ended"
    /\ \A b \in Attempts : b # a => helper'[b] = helper[b]

Pcs == {"none", "started", "opened", "ready", "left", "owner", "replacing", "restart", "message",
        "ended"}

LEMMA HelperSets ==
    ASSUME helper \in [Attempts -> Helpers], NEW a \in Attempts
    PROVE /\ \A p \in Pcs : [helper[a] EXCEPT !.pc = p] \in Helpers
          /\ \A p \in Pcs, left \in BOOLEAN :
                [helper[a] EXCEPT !.pc = p, !.left = left] \in Helpers
          /\ \A p \in Pcs, s \in 0..(MaxSessions + MaxAttempts) :
                [helper[a] EXCEPT !.pc = p, !.parent = s] \in Helpers
<1>1. helper[a] \in Helpers
  OBVIOUS
<1>2. ASSUME NEW N, NEW P, NEW h \in [pc : P, parent : N, expected : {"old", "new"}, left : BOOLEAN]
      PROVE /\ \A p \in P : [h EXCEPT !.pc = p]
                  \in [pc : P, parent : N, expected : {"old", "new"}, left : BOOLEAN]
            /\ \A p \in P, left \in BOOLEAN : [h EXCEPT !.pc = p, !.left = left]
                  \in [pc : P, parent : N, expected : {"old", "new"}, left : BOOLEAN]
            /\ \A p \in P, s \in N : [h EXCEPT !.pc = p, !.parent = s]
                  \in [pc : P, parent : N, expected : {"old", "new"}, left : BOOLEAN]
  BY <1>2
<1>3. QED
  BY <1>1, <1>2 DEF Helpers, Pcs

LEMMA GoesQuietly ==
    ASSUME TypeOK, NEW a \in Attempts, NEW p \in Pcs, p # "replacing", NEW left \in BOOLEAN,
           helper[a].pc # "ended" \/ p = "ended",
           \/ helper' = [helper EXCEPT ![a].pc = p]
           \/ helper' = [helper EXCEPT ![a].pc = p, ![a].left = left]
    PROVE Quiet(a)
<1>1. helper \in [Attempts -> Helpers]
  BY Types
<1>2. /\ [helper[a] EXCEPT !.pc = p] \in Helpers
      /\ [helper[a] EXCEPT !.pc = p, !.left = left] \in Helpers
  BY <1>1, HelperSets
<1>3. \/ helper' = [helper EXCEPT ![a] = [helper[a] EXCEPT !.pc = p]]
      \/ helper' = [helper EXCEPT ![a] = [helper[a] EXCEPT !.pc = p, !.left = left]]
  BY <1>1
<1>4. helper' \in [Attempts -> Helpers]
  BY <1>1, <1>2, <1>3
<1>5. /\ helper'[a].expected = helper[a].expected /\ helper'[a].pc = p
      /\ \A b \in Attempts : b # a => helper'[b] = helper[b]
  BY <1>1, <1>3 DEF Helpers
<1>6. QED
  BY <1>4, <1>5 DEF Quiet

LEMMA FinishedFinite ==
    /\ IsFiniteSet(Attempts) /\ Cardinality(Attempts) = MaxAttempts
    /\ IsFiniteSet(Finished) /\ Cardinality(Finished) \in Nat
    /\ Cardinality(Finished) <= MaxAttempts
<1>1. MaxAttempts \in Nat
  BY TransactionAssumption
<1>2. IsFiniteSet(Attempts) /\ Cardinality(Attempts) = MaxAttempts
  <2>1. /\ IsFiniteSet(1..MaxAttempts)
        /\ Cardinality(1..MaxAttempts) = IF 1 > MaxAttempts THEN 0 ELSE MaxAttempts - 1 + 1
    BY <1>1, FS_Interval
  <2>2. QED
    BY <1>1, <2>1 DEF Attempts
<1>3. Finished \subseteq Attempts
  BY DEF Finished
<1>4. QED
  BY <1>1, <1>2, <1>3, FS_Subset, FS_CardinalityType

LEMMA FinishedGrows ==
    ASSUME \A b \in Attempts : helper[b].pc = "ended" => helper'[b].pc = "ended"
    PROVE /\ Cardinality(Finished) <= Cardinality(Finished')
          /\ Cardinality(Finished) \in Nat /\ Cardinality(Finished') \in Nat
<1>1. Finished \subseteq Finished' /\ Finished' \subseteq Attempts
  BY DEF Finished
<1>2. IsFiniteSet(Finished')
  BY <1>1, FinishedFinite, FS_Subset
<1>3. QED
  BY <1>1, <1>2, FS_Subset, FS_CardinalityType, FinishedFinite

LEMMA CountedStill ==
    ASSUME TypeOK, Counted, \A b \in Attempts : helper[b].pc = "ended" => helper'[b].pc = "ended",
           app'.session = app.session
    PROVE Counted'
<1>1. app.session \in Nat /\ MaxSessions \in Nat
  BY Types, PortableAssumption DEF Apps
<1>2. /\ Cardinality(Finished) <= Cardinality(Finished')
      /\ Cardinality(Finished) \in Nat /\ Cardinality(Finished') \in Nat
  BY FinishedGrows
<1>3. QED
  BY <1>1, <1>2 DEF Counted

\* What every step but those of the transaction keeps.
LEMMA QuietStep ==
    ASSUME PortableInv, UNCHANGED helper \/ \E a \in Attempts : Quiet(a),
           UNCHANGED <<tree, temporary, backup, tx>>,
           faults' \in 0..MaxFaults, app' \in Apps, app'.session = app.session,
           installer' \in Installers, mutex' \in Mutexes, stage' \in [Attempts -> Stages],
           story' \in [Attempts -> Tales], kills' \in 0..MaxKills
    PROVE TypeOK' /\ Counted' /\ Replacement'
<1>1. TypeOK /\ TxTypeOK /\ Counted /\ Control /\ Replacement
  BY Types DEF PortableInv
<1>2. TxTypeOK'
  BY <1>1, TransactionTypes, TransactionTypesNext
<1>3. /\ helper' \in [Attempts -> Helpers]
      /\ \A b \in Attempts : helper[b].pc = "ended" => helper'[b].pc = "ended"
  BY <1>1, Types DEF Quiet
<1>4. TypeOK' /\ Counted'
  BY <1>1, <1>2, <1>3, TypesNext, CountedStill
<1>5. Replacement'
  <2>1. \A b \in Attempts : /\ Active(b)' => Active(b)
                            /\ helper'[b].expected = helper[b].expected
    BY DEF Quiet, Active
  <2>2. QED
    BY <1>1, <2>1, ReplacementStill
<1>6. QED
  BY <1>4, <1>5

\* The types of what an action leaves alone.
LEMMA TypesAre ==
    ASSUME PortableInv
    PROVE /\ TypeOK /\ Control /\ Counted /\ Replacement /\ Held
          /\ app \in Apps /\ installer \in Installers /\ mutex \in Mutexes
          /\ helper \in [Attempts -> Helpers] /\ stage \in [Attempts -> Stages]
          /\ story \in [Attempts -> Tales] /\ kills \in 0..MaxKills /\ faults \in 0..MaxFaults
          /\ TxTypeOK
BY Types, TransactionTypes DEF PortableInv, Control

\* Notes and messages.
LEMMA StageSets ==
    ASSUME stage \in [Attempts -> Stages], NEW a \in Attempts
    PROVE /\ \A n \in {"cancel", "ready", "failed", "complete"} :
                [stage EXCEPT ![a].notes = @ \cup {n}] \in [Attempts -> Stages]
          /\ [stage EXCEPT ![a].intact = FALSE] \in [Attempts -> Stages]
BY DEF Stages

LEMMA StorySets ==
    ASSUME story \in [Attempts -> Tales], NEW a \in Attempts
    PROVE /\ \A s \in BOOLEAN : Told(a, s) => story' \in [Attempts -> Tales]
          /\ [story EXCEPT ![a].committed = TRUE] \in [Attempts -> Tales]
BY ZenonT(60) DEF Tales, Told

LEMMA SavesTypes ==
    ASSUME stage \in [Attempts -> Stages], NEW a \in Attempts, NEW s \in BOOLEAN, SavesCancel(a, s)
    PROVE stage' \in [Attempts -> Stages]
<1>1. [stage EXCEPT ![a].notes = @ \cup {"cancel"}] \in [Attempts -> Stages]
  BY StageSets
<1>2. QED
  BY <1>1 DEF SavesCancel

LEMMA GivenBackTypes ==
    ASSUME PortableInv, NativeInstallFailed
    PROVE /\ app' \in Apps /\ app'.session = app.session /\ mutex' \in Mutexes
<1>1. app \in Apps /\ mutex \in Mutexes /\ mutex.owner \subseteq mutex.handles /\ App \in Holders
  BY TypesAre DEF Held, Holders
<1>2. Released(mutex, App) \in Mutexes
  BY <1>1, Releases
<1>3. QED
  BY <1>1, <1>2 DEF NativeInstallFailed, Apps

\* A process that ends.
LEMMA OrphanedTypes ==
    ASSUME PortableInv, NEW h \in Holders
    PROVE Released(mutex, h) \in Mutexes /\ Orphaned(mutex, h) \in Mutexes
BY TypesAre, Releases, Orphans DEF Held

LEMMA FailureTypes ==
    ASSUME PortableInv, NEW a \in Attempts, NEW m \in Mutexes, NEW left \in BOOLEAN,
           left \/ m = mutex, HelperFails(a, m, left), helper[a].pc # "ended"
    PROVE Quiet(a) /\ mutex' \in Mutexes /\ stage' \in [Attempts -> Stages]
<1>1. TypeOK /\ stage \in [Attempts -> Stages] /\ a \in Holders
  BY TypesAre, AttemptsAre
<1> DEFINE p == IF left THEN "message" ELSE "ended"
<1>2. p \in Pcs /\ p # "replacing"
  BY DEF Pcs
<1>3. helper' = [helper EXCEPT ![a].pc = p, ![a].left = left]
  BY DEF HelperFails
<1> HIDE DEF p
<1>4. Quiet(a)
  BY <1>1, <1>2, <1>3, GoesQuietly
<1>5. mutex' \in Mutexes
  BY <1>1, OrphanedTypes DEF HelperFails
<1>6. [stage EXCEPT ![a].notes = @ \cup {"failed"}] \in [Attempts -> Stages]
  BY <1>1, StageSets
<1>7. QED
  BY <1>4, <1>5, <1>6 DEF HelperFails

-----------------------------------------------------------------------------
(* Every step keeps the invariant: the application *)

LEMMA InstallKeeps ==
    ASSUME PortableInv, NEW a \in Attempts, Install(a)
    PROVE PortableInv'
<1>1. /\ TypeOK /\ Control /\ app \in Apps /\ stage \in [Attempts -> Stages]
      /\ story \in [Attempts -> Tales] /\ kills \in 0..MaxKills /\ faults \in 0..MaxFaults
  BY TypesAre
<1>2. /\ UNCHANGED <<tree, temporary, backup, tx, faults, helper, stage, story, kills>>
      /\ app' = [app EXCEPT !.native = TRUE]
      /\ mutex' = [FreeMutex EXCEPT !.owner = {App}, !.handles = {App}]
      /\ installer' = [NewInstaller EXCEPT !.attempt = a, !.busy = TRUE, !.task = "running"]
  BY DEF Install, txVars
<1>3. app' \in Apps /\ app'.session = app.session
  BY <1>1, <1>2 DEF Apps
<1>4. mutex' \in Mutexes
  BY <1>2 DEF Mutexes, FreeMutex, Holders
<1>5. installer' \in Installers
  BY <1>2, AttemptsAre DEF Installers, NewInstaller
<1>6. TypeOK' /\ Counted' /\ Replacement'
  BY <1>1, <1>2, <1>3, <1>4, <1>5, QuietStep
<1>7. QED
  BY <1>1, <1>6, InstallControl DEF PortableInv

\* The package has been read and verified.
LEMMA PreparedTypes ==
    ASSUME TypeOK, NEW a \in Attempts, NEW old \in Lists, NEW e \in {"old", "new"},
           tx' = [tx EXCEPT ![a].old = old], helper' = [helper EXCEPT ![a].expected = e],
           UNCHANGED <<tree, temporary, backup, faults>>
    PROVE /\ TxTypeOK' /\ helper' \in [Attempts -> Helpers]
          /\ tx'[a].step = tx[a].step /\ tx'[a].i = tx[a].i /\ tx'[a].changed = tx[a].changed
          /\ tx'[a].backedUp = tx[a].backedUp /\ tx'[a].incomplete = tx[a].incomplete
          /\ \A b \in Attempts : /\ helper'[b].pc = helper[b].pc
                                 /\ b # a => helper'[b] = helper[b] /\ tx'[b] = tx[b]
<1>1. TxTypeOK /\ helper \in [Attempts -> Helpers]
  BY Types
<1>2. tx \in [Attempts -> Transactions] /\ tree \in Trees /\ temporary \in {"none", "partial", "new"}
      /\ backup \in Backups /\ faults \in 0..MaxFaults
  BY <1>1, TransactionTypes
<1>3. ASSUME NEW A, NEW B, NEW C, NEW D, NEW E, NEW F, NEW G, NEW o \in C,
             NEW t \in [step : A, i : B, old : C, backedUp : D, changed : E, incomplete : F,
                        before : G]
      PROVE [t EXCEPT !.old = o] \in [step : A, i : B, old : C, backedUp : D, changed : E,
                                      incomplete : F, before : G]
  BY <1>3
<1>4. [tx[a] EXCEPT !.old = old] \in Transactions
  <2>1. old \in {<<>>, OldFiles, NewFiles}
    BY DEF Lists
  <2>2. tx[a] \in Transactions
    BY <1>2
  <2>3. QED
    BY <1>3, <2>1, <2>2 DEF Transactions
<1>5. tx' = [tx EXCEPT ![a] = [tx[a] EXCEPT !.old = old]]
  BY <1>2
<1>6. TxTypeOK'
  BY <1>1, <1>2, <1>4, <1>5, TxTypes
<1>7. helper' \in [Attempts -> Helpers]
  <2>1. helper' = [helper EXCEPT ![a] = [helper[a] EXCEPT !.expected = e]]
    BY <1>1
  <2>2. [helper[a] EXCEPT !.expected = e] \in Helpers
    BY <1>1 DEF Helpers
  <2>3. QED
    BY <1>1, <2>1, <2>2
<1>8. /\ tx'[a].step = tx[a].step /\ tx'[a].i = tx[a].i /\ tx'[a].changed = tx[a].changed
      /\ tx'[a].backedUp = tx[a].backedUp /\ tx'[a].incomplete = tx[a].incomplete
  BY <1>2, <1>5 DEF Transactions
<1>9. \A b \in Attempts : /\ helper'[b].pc = helper[b].pc
                          /\ b # a => helper'[b] = helper[b] /\ tx'[b] = tx[b]
  BY <1>1, <1>2 DEF Helpers
<1>10. QED
  BY <1>6, <1>7, <1>8, <1>9

LEMMA PreparePackageKeeps ==
    ASSUME PortableInv, NEW a \in Attempts, PreparePackage(a)
    PROVE PortableInv'
<1>1. /\ TypeOK /\ Counted /\ Control /\ Replacement /\ app \in Apps /\ installer \in Installers
      /\ mutex \in Mutexes /\ stage \in [Attempts -> Stages] /\ TxTypeOK
      /\ story \in [Attempts -> Tales] /\ kills \in 0..MaxKills /\ faults \in 0..MaxFaults
  BY TypesAre
<1>2. /\ UNCHANGED <<tree, temporary, backup, app, mutex, stage, story, kills>>
      /\ a = installer.attempt /\ installer.task = "running"
  BY DEF PreparePackage
<1>3. CASE /\ tree[Manifest] \in {"old", "new"}
           /\ tx' = [tx EXCEPT ![a].old = IF tree[Manifest] = "new" THEN NewFiles ELSE OldFiles]
           /\ helper' = [helper EXCEPT ![a].expected = tree[Manifest]]
           /\ installer' = [installer EXCEPT !.task = "ready"]
           /\ UNCHANGED faults
  <2>1. PICK old \in Lists : old = IF tree[Manifest] = "new" THEN NewFiles ELSE OldFiles
    BY DEF Lists
  <2>2. PICK e \in {"old", "new"} : e = tree[Manifest]
    BY <1>3
  <2>3. /\ tx' = [tx EXCEPT ![a].old = old] /\ helper' = [helper EXCEPT ![a].expected = e]
        /\ UNCHANGED <<tree, temporary, backup, faults>>
    BY <1>2, <1>3, <2>1, <2>2
  <2>4. /\ TxTypeOK' /\ helper' \in [Attempts -> Helpers]
        /\ tx'[a].step = tx[a].step /\ tx'[a].i = tx[a].i /\ tx'[a].changed = tx[a].changed
        /\ tx'[a].backedUp = tx[a].backedUp /\ tx'[a].incomplete = tx[a].incomplete
        /\ \A b \in Attempts : /\ helper'[b].pc = helper[b].pc
                               /\ b # a => helper'[b] = helper[b] /\ tx'[b] = tx[b]
    BY <1>1, <2>3, PreparedTypes
  <2>5. installer' \in Installers
    BY <1>1, <1>3 DEF Installers
  <2>6. TypeOK' /\ Counted'
    BY <1>1, <1>2, <2>4, <2>5, TypesNext, CountedStill
  <2>7. ~Began(a) /\ ~Began(a)'
    BY <1>1, <1>2, <2>4 DEF Control, Task, Story, Plan, Began
  <2>8. Lasting(a)'
    <3>1. tx'[a].step = "idle" /\ tx'[a].changed = <<>> /\ tx'[a].backedUp = {} /\ tx'[a].i = 1
          /\ ~tx'[a].incomplete
      BY <1>1, <2>4, <2>7 DEF Replacement, Lasting, Idle, Began
    <3>2. QED
      BY <3>1 DEF Lasting, Idle, Copied, AllCopied, NotOwned, Named
  <2>9. Replacement'
    <3>1. /\ \A b \in Attempts : Active(b)' => Active(b)
          /\ \A b \in Attempts : Began(b) => helper'[b].expected = helper[b].expected
          /\ \A b \in Attempts :
                tx'[b] = tx[b] \/ (~Began(b) /\ ~Began(b)' /\ Lasting(b)')
      BY <2>4, <2>7, <2>8 DEF Active
    <3>2. QED
      BY <1>1, <1>2, <3>1, ReplacementStill
  <2>10. QED
    BY <1>1, <2>6, <2>9, PreparePackageControl DEF PortableInv
<1>4. CASE /\ installer' = [installer EXCEPT !.task = "error"]
           /\ UNCHANGED faults \/ Fails
           /\ UNCHANGED <<tx, helper>>
  <2>1. installer' \in Installers
    BY <1>1, <1>4 DEF Installers
  <2>2. faults' \in 0..MaxFaults
    BY <1>1, <1>4, Faults
  <2>3. TypeOK' /\ Counted' /\ Replacement'
    BY <1>1, <1>2, <1>4, <2>1, <2>2, QuietStep
  <2>4. QED
    BY <1>1, <2>3, PreparePackageControl DEF PortableInv
<1>5. QED
  BY <1>3, <1>4 DEF PreparePackage

\* Where a step of the application has been shown to keep the types.
LEMMA AppKeeps ==
    ASSUME PortableInv, UNCHANGED helper \/ \E a \in Attempts : Quiet(a),
           UNCHANGED <<tree, temporary, backup, tx>>,
           faults' \in 0..MaxFaults, app' \in Apps, app'.session = app.session,
           installer' \in Installers, mutex' \in Mutexes, stage' \in [Attempts -> Stages],
           story' \in [Attempts -> Tales], kills' \in 0..MaxKills,
           TypeOK' => Control'
    PROVE PortableInv'
BY QuietStep DEF PortableInv

LEMMA PreparationFailedKeeps ==
    ASSUME PortableInv, NEW a \in Attempts, PreparationFailed(a)
    PROVE PortableInv'
<1>1. /\ TypeOK /\ Control /\ installer \in Installers /\ stage \in [Attempts -> Stages]
      /\ story \in [Attempts -> Tales] /\ kills \in 0..MaxKills /\ TxTypeOK
  BY TypesAre
<1>2. /\ UNCHANGED <<tree, temporary, backup, tx, helper, stage, kills>>
      /\ installer' = [installer EXCEPT !.busy = FALSE, !.task = "none"]
      /\ Told(a, TRUE) /\ NativeInstallFailed /\ (UNCHANGED faults \/ Fails)
  BY DEF PreparationFailed
<1>3. installer' \in Installers
  BY <1>1, <1>2 DEF Installers
<1>4. story' \in [Attempts -> Tales]
  BY <1>1, <1>2, StorySets
<1>5. faults' \in 0..MaxFaults
  BY <1>1, <1>2, Faults
<1>6. QED
  BY <1>1, <1>2, <1>3, <1>4, <1>5, GivenBackTypes, PreparationFailedControl, AppKeeps

LEMMA StartHelperKeeps ==
    ASSUME PortableInv, NEW a \in Attempts, StartHelper(a)
    PROVE PortableInv'
<1>1. /\ TypeOK /\ Control /\ installer \in Installers /\ stage \in [Attempts -> Stages]
      /\ story \in [Attempts -> Tales] /\ kills \in 0..MaxKills /\ faults \in 0..MaxFaults
      /\ app \in Apps /\ mutex \in Mutexes /\ helper \in [Attempts -> Helpers]
  BY TypesAre
<1>2. /\ UNCHANGED <<tree, temporary, backup, tx, kills>>
      /\ a = installer.attempt /\ installer.task = "ready"
      /\ helper' = [helper EXCEPT ![a].pc = "started", ![a].parent = app.session]
  BY DEF StartHelper
<1>3. helper[a].pc = "none"
  BY <1>1, <1>2 DEF Control, Task
<1>4. Quiet(a)
  <2>1. app.session \in 0..(MaxSessions + MaxAttempts) /\ "started" \in Pcs
    BY <1>1, PortableAssumption, TransactionAssumption DEF Apps, Pcs
  <2>2. [helper[a] EXCEPT !.pc = "started", !.parent = app.session] \in Helpers
    BY <1>1, <2>1, HelperSets
  <2>3. helper' = [helper EXCEPT ![a] =
            [helper[a] EXCEPT !.pc = "started", !.parent = app.session]]
    BY <1>1, <1>2
  <2>4. helper' \in [Attempts -> Helpers]
    BY <1>1, <2>2, <2>3
  <2>5. /\ helper'[a].expected = helper[a].expected /\ helper'[a].pc = "started"
        /\ \A b \in Attempts : b # a => helper'[b] = helper[b]
    BY <1>1, <2>3 DEF Helpers
  <2>6. QED
    BY <1>3, <2>4, <2>5 DEF Quiet
<1>5. CASE /\ installer' = [installer EXCEPT !.task = "none", !.timer = TRUE]
           /\ UNCHANGED <<app, mutex, stage, story, faults>>
  <2>1. installer' \in Installers
    BY <1>1, <1>5 DEF Installers
  <2>2. story' \in [Attempts -> Tales]
    BY <1>5, TypesAre
  <2>3. QED
    BY <1>1, <1>2, <1>4, <1>5, <2>1, <2>2, StartHelperControl, AppKeeps
<1>6. ASSUME NEW saved \in BOOLEAN,
             faults + (IF saved THEN 1 ELSE 2) <= MaxFaults,
             faults' = faults + (IF saved THEN 1 ELSE 2),
             SavesCancel(a, saved), Told(a, saved), NativeInstallFailed,
             installer' = [installer EXCEPT !.busy = FALSE, !.task = "none"]
      PROVE PortableInv'
  <2>1. installer' \in Installers
    BY <1>1, <1>6 DEF Installers
  <2>2. stage' \in [Attempts -> Stages]
    BY <1>1, <1>6, SavesTypes
  <2>3. story' \in [Attempts -> Tales]
    BY <1>6, TypesAre, StorySets
  <2>4. faults' \in 0..MaxFaults
    BY <1>1, <1>6, TransactionAssumption
  <2>5. QED
    BY <1>1, <1>2, <1>4, <1>6, <2>1, <2>2, <2>3, <2>4, GivenBackTypes, StartHelperControl,
       AppKeeps
<1>7. QED
  BY <1>5, <1>6 DEF StartHelper

LEMMA HelperFailedKeeps ==
    ASSUME PortableInv, NEW a \in Attempts, HelperFailed(a)
    PROVE PortableInv'
<1>1. /\ TypeOK /\ Control /\ installer \in Installers /\ stage \in [Attempts -> Stages]
      /\ story \in [Attempts -> Tales] /\ kills \in 0..MaxKills /\ faults \in 0..MaxFaults
  BY TypesAre
<1>2. /\ UNCHANGED <<tree, temporary, backup, tx, faults, helper, stage, kills>>
      /\ installer' = [installer EXCEPT !.timer = FALSE, !.busy = FALSE]
      /\ Told(a, TRUE) /\ NativeInstallFailed
  BY DEF HelperFailed, txVars
<1>3. installer' \in Installers
  BY <1>1, <1>2 DEF Installers
<1>4. story' \in [Attempts -> Tales]
  BY <1>1, <1>2, StorySets
<1>5. QED
  BY <1>1, <1>2, <1>3, <1>4, GivenBackTypes, HelperFailedControl, AppKeeps

LEMMA HelperTooLateKeeps ==
    ASSUME PortableInv, NEW a \in Attempts, HelperTooLate(a)
    PROVE PortableInv'
<1>1. /\ TypeOK /\ Control /\ installer \in Installers /\ stage \in [Attempts -> Stages]
      /\ story \in [Attempts -> Tales] /\ kills \in 0..MaxKills /\ TxTypeOK /\ app \in Apps
      /\ mutex \in Mutexes /\ mutex.owner \subseteq mutex.handles
      /\ App \in Holders /\ a \in Holders
  BY TypesAre, AttemptsAre DEF Held
<1>2. /\ UNCHANGED <<tree, temporary, backup, tx, kills>>
      /\ installer' = [installer EXCEPT !.timer = FALSE, !.busy = FALSE]
      /\ helper' = [helper EXCEPT ![a].pc = "ended"]
      /\ Told(a, TRUE) /\ app' = [app EXCEPT !.native = FALSE]
      /\ mutex' = Orphaned(Released(mutex, App), a)
  BY DEF HelperTooLate
<1>3. PICK saved \in BOOLEAN : MayFail(saved) /\ SavesCancel(a, saved)
  BY DEF HelperTooLate
<1>4. installer' \in Installers /\ app' \in Apps /\ app'.session = app.session
  BY <1>1, <1>2 DEF Installers, Apps
<1>5. story' \in [Attempts -> Tales] /\ stage' \in [Attempts -> Stages]
  BY <1>1, <1>2, <1>3, StorySets, SavesTypes
<1>6. faults' \in 0..MaxFaults
  BY <1>1, <1>3, Faults DEF MayFail
<1>7. mutex' \in Mutexes
  <2>1. /\ Released(mutex, App) \in Mutexes
        /\ Released(mutex, App).owner \subseteq Released(mutex, App).handles
    BY <1>1, Releases
  <2>2. QED
    BY <1>1, <1>2, <2>1, Orphans
<1>8. Quiet(a)
  BY <1>1, <1>2, GoesQuietly DEF Pcs
<1>9. QED
  BY <1>1, <1>2, <1>4, <1>5, <1>6, <1>7, <1>8, HelperTooLateControl, AppKeeps

LEMMA HandOffKeeps ==
    ASSUME PortableInv, NEW a \in Attempts, HandOff(a)
    PROVE PortableInv'
<1>1. /\ TypeOK /\ Control /\ installer \in Installers /\ stage \in [Attempts -> Stages]
      /\ story \in [Attempts -> Tales] /\ kills \in 0..MaxKills /\ faults \in 0..MaxFaults
      /\ app \in Apps /\ mutex \in Mutexes
  BY TypesAre
<1>2. /\ UNCHANGED <<tree, temporary, backup, tx, faults, mutex, helper, stage, kills>>
      /\ installer' = [installer EXCEPT !.timer = FALSE, !.handedOff = TRUE]
      /\ app' = [app EXCEPT !.native = FALSE, !.state = "exiting"]
      /\ story' = [story EXCEPT ![a].committed = TRUE]
  BY DEF HandOff, txVars
<1>3. installer' \in Installers /\ app' \in Apps /\ app'.session = app.session
  BY <1>1, <1>2 DEF Installers, Apps
<1>4. story' \in [Attempts -> Tales]
  BY <1>1, <1>2, StorySets
<1>5. QED
  BY <1>1, <1>2, <1>3, <1>4, HandOffControl, AppKeeps

LEMMA CancelKeeps ==
    ASSUME PortableInv, NEW a \in Attempts, NEW handedOff \in BOOLEAN,
           a = installer.attempt, app.state = "running", handedOff => installer.timer,
           Cancel(a, handedOff), NativeInstallFailed,
           UNCHANGED <<tree, temporary, backup, tx, helper, kills>>
    PROVE PortableInv'
<1>1. /\ TypeOK /\ Control /\ installer \in Installers /\ stage \in [Attempts -> Stages]
      /\ story \in [Attempts -> Tales] /\ kills \in 0..MaxKills /\ TxTypeOK
  BY TypesAre
<1>2. PICK saved \in BOOLEAN : MayFail(saved) /\ SavesCancel(a, saved) /\ Told(a, saved)
  BY DEF Cancel
<1>3. installer' \in Installers
  <2>1. installer' = Cancelled([installer EXCEPT !.handedOff = handedOff])
    BY DEF Cancel
  <2>2. QED
    BY <1>1, <2>1 DEF Cancelled, Installers
<1>4. stage' \in [Attempts -> Stages] /\ story' \in [Attempts -> Tales]
  BY <1>1, <1>2, SavesTypes, StorySets
<1>5. faults' \in 0..MaxFaults
  BY <1>1, <1>2, Faults DEF MayFail
<1>6. TypeOK' => Control'
  BY <1>1, CancelControl
<1>7. app' \in Apps /\ app'.session = app.session /\ mutex' \in Mutexes
  BY GivenBackTypes
<1>8. QED
  BY <1>1, <1>3, <1>4, <1>5, <1>6, <1>7, AppKeeps

LEMMA VetoKeeps ==
    ASSUME PortableInv, NEW a \in Attempts, Veto(a)
    PROVE PortableInv'
BY CancelKeeps DEF Veto

LEMMA UserCancelsKeeps ==
    ASSUME PortableInv, NEW a \in Attempts, UserCancels(a)
    PROVE PortableInv'
BY CancelKeeps DEF UserCancels

LEMMA QuitKeeps ==
    ASSUME PortableInv, Quit
    PROVE PortableInv'
<1>1. /\ TypeOK /\ Control /\ installer \in Installers /\ stage \in [Attempts -> Stages]
      /\ story \in [Attempts -> Tales] /\ kills \in 0..MaxKills /\ faults \in 0..MaxFaults
      /\ app \in Apps /\ mutex \in Mutexes
  BY TypesAre
<1>2. /\ UNCHANGED <<tree, temporary, backup, tx, faults, installer, mutex, helper, stage, story,
                     kills>>
      /\ app' = [app EXCEPT !.state = "exiting"]
  BY DEF Quit, txVars
<1>3. app' \in Apps /\ app'.session = app.session
  BY <1>1, <1>2 DEF Apps
<1>4. QED
  BY <1>1, <1>2, <1>3, QuitControl, AppKeeps

LEMMA EmptyInstaller ==
    ASSUME installer \in Installers
    PROVE [NewInstaller EXCEPT !.attempt = installer.attempt] \in Installers
BY DEF Installers, NewInstaller

LEMMA AppEndsKeeps ==
    ASSUME PortableInv, AppEnds
    PROVE PortableInv'
<1>1. /\ TypeOK /\ Control /\ Task /\ installer \in Installers /\ stage \in [Attempts -> Stages]
      /\ story \in [Attempts -> Tales] /\ kills \in 0..MaxKills /\ TxTypeOK
      /\ faults \in 0..MaxFaults /\ app \in Apps /\ mutex \in Mutexes /\ App \in Holders
  BY TypesAre DEF Control, Holders
<1>2. /\ UNCHANGED <<tree, temporary, backup, tx, helper, kills>>
      /\ app' = [app EXCEPT !.state = "gone"] /\ mutex' = Released(mutex, App)
      /\ installer' = [NewInstaller EXCEPT !.attempt = installer.attempt]
  BY DEF AppEnds
<1>3. app' \in Apps /\ app'.session = app.session /\ mutex' \in Mutexes /\ installer' \in Installers
  BY <1>1, <1>2, OrphanedTypes, EmptyInstaller DEF Apps
<1>4. /\ stage' \in [Attempts -> Stages] /\ story' \in [Attempts -> Tales]
      /\ faults' \in 0..MaxFaults
  <2>1. CASE installer.busy /\ ~installer.handedOff
    <3>1. installer.attempt \in Attempts
      BY <1>1, <2>1 DEF Task
    <3>2. PICK saved \in BOOLEAN : /\ MayFail(saved) /\ SavesCancel(installer.attempt, saved)
                                   /\ Told(installer.attempt, saved)
      BY <2>1 DEF AppEnds
    <3>3. stage' \in [Attempts -> Stages] /\ story' \in [Attempts -> Tales]
      BY <1>1, <3>1, <3>2, SavesTypes, StorySets
    <3>4. faults' \in 0..MaxFaults
      BY <1>1, <3>2, Faults DEF MayFail
    <3>5. QED
      BY <3>3, <3>4
  <2>2. CASE ~(installer.busy /\ ~installer.handedOff)
    <3>1. UNCHANGED <<stage, story, faults>>
      BY <2>2 DEF AppEnds
    <3>2. QED
      BY <1>1, <3>1
  <2>3. QED
    BY <2>1, <2>2
<1>5. QED
  BY <1>1, <1>2, <1>3, <1>4, AppEndsControl, AppKeeps

LEMMA AppKilledKeeps ==
    ASSUME PortableInv, AppKilled
    PROVE PortableInv'
<1>1. /\ TypeOK /\ Control /\ installer \in Installers /\ stage \in [Attempts -> Stages]
      /\ story \in [Attempts -> Tales] /\ kills \in 0..MaxKills /\ faults \in 0..MaxFaults
      /\ app \in Apps /\ mutex \in Mutexes /\ App \in Holders
  BY TypesAre DEF Holders
<1>2. /\ UNCHANGED <<tree, temporary, backup, tx, faults, helper, stage, story>>
      /\ kills < MaxKills /\ kills' = kills + 1
      /\ app' = [app EXCEPT !.state = "gone", !.native = FALSE] /\ mutex' = Orphaned(mutex, App)
      /\ installer' = [NewInstaller EXCEPT !.attempt = installer.attempt]
  BY DEF AppKilled, txVars
<1>3. app' \in Apps /\ app'.session = app.session /\ mutex' \in Mutexes /\ installer' \in Installers
  BY <1>1, <1>2, OrphanedTypes, EmptyInstaller DEF Apps
<1>4. kills' \in 0..MaxKills
  BY <1>1, <1>2, PortableAssumption
<1>5. QED
  BY <1>1, <1>2, <1>3, <1>4, AppKilledControl, AppKeeps

\* Where a session enters.
LEMMA EnteredTypes ==
    ASSUME PortableInv, app' = Entered(mutex), app' # app, app.session < MaxSessions + MaxAttempts
    PROVE app' \in Apps /\ app'.session = app.session + 1
<1>1. app \in Apps
  BY TypesAre
<1>2. app' = [state |-> "running", session |-> app.session + 1, native |-> FALSE]
  BY DEF Entered
<1>3. app.session + 1 \in 1..(MaxSessions + MaxAttempts)
  BY <1>1, PortableAssumption, TransactionAssumption DEF Apps
<1>4. QED
  BY <1>2, <1>3 DEF Apps

LEMMA UserStartsKeeps ==
    ASSUME PortableInv, UserStarts
    PROVE PortableInv'
<1>1. /\ TypeOK /\ Control /\ Counted /\ Replacement /\ TxTypeOK
      /\ installer \in Installers /\ stage \in [Attempts -> Stages]
      /\ story \in [Attempts -> Tales] /\ kills \in 0..MaxKills /\ app \in Apps /\ mutex \in Mutexes
      /\ helper \in [Attempts -> Helpers]
  BY TypesAre
<1>2. /\ UNCHANGED <<tree, temporary, backup, tx, faults, installer, mutex, helper, stage, story,
                     kills>>
      /\ app' = Entered(mutex) /\ app.session < MaxSessions
  BY DEF UserStarts, txVars
<1>3. app.session \in Nat /\ MaxSessions \in Nat /\ MaxAttempts \in Nat
      /\ Cardinality(Finished) \in Nat
  BY <1>1, PortableAssumption, TransactionAssumption, FinishedFinite DEF Apps
<1>4. app' \in Apps /\ app'.session \in {app.session, app.session + 1}
  BY <1>1, <1>2, <1>3, EnteredTypes
<1>5. TxTypeOK'
  BY <1>1, <1>2, TransactionTypes, TransactionTypesNext
<1>6. TypeOK'
  BY <1>1, <1>2, <1>4, <1>5, TypesNext
<1>7. Counted'
  <2>1. Finished' = Finished
    BY <1>2 DEF Finished
  <2>2. QED
    BY <1>2, <1>3, <1>4, <2>1 DEF Counted
<1>8. Replacement'
  <2>1. \A b \in Attempts : Active(b)' => Active(b)
    BY <1>2 DEF Active
  <2>2. QED
    BY <1>1, <1>2, <2>1, ReplacementStill
<1>9. QED
  BY <1>1, <1>6, <1>7, <1>8, UserStartsControl DEF PortableInv

-----------------------------------------------------------------------------
(* Every step keeps the invariant: the helper *)

\* Steps that change only the helper, the mutex and the notes.
HelperChanges(a) ==
    /\ Quiet(a) /\ mutex' \in Mutexes /\ stage' \in [Attempts -> Stages]
    /\ UNCHANGED <<tree, temporary, backup, tx, app, installer, story, kills>>
    /\ UNCHANGED faults \/ Fails

LEMMA HelperKeeps ==
    ASSUME PortableInv, NEW a \in Attempts, HelperChanges(a), TypeOK' => Control'
    PROVE PortableInv'
<1>1. /\ TxTypeOK /\ installer \in Installers
      /\ story \in [Attempts -> Tales] /\ kills \in 0..MaxKills /\ app \in Apps
  BY TypesAre
<1>2. faults' \in 0..MaxFaults
  BY <1>1, Faults DEF HelperChanges
<1>3. QED
  BY <1>1, <1>2, AppKeeps DEF HelperChanges

LEMMA OpenMutexKeeps ==
    ASSUME PortableInv, NEW a \in Attempts, OpenMutex(a)
    PROVE PortableInv'
<1>1. /\ TypeOK /\ Control /\ mutex \in Mutexes /\ stage \in [Attempts -> Stages] /\ a \in Holders
  BY TypesAre, AttemptsAre
<1>2. /\ helper[a].pc = "started"
      /\ UNCHANGED <<tree, temporary, backup, tx, faults, app, installer, story, kills>>
  BY DEF OpenMutex, txVars
<1>3. CASE /\ helper' = [helper EXCEPT ![a].pc = "opened"]
           /\ mutex' = [mutex EXCEPT !.handles = @ \cup {a}] /\ UNCHANGED stage
  <2>1. Quiet(a)
    BY <1>1, <1>2, <1>3, GoesQuietly DEF Pcs
  <2>2. mutex' \in Mutexes
    BY <1>1, <1>3 DEF Mutexes
  <2>3. HelperChanges(a)
    BY <1>1, <1>2, <1>3, <2>1, <2>2 DEF HelperChanges
  <2>4. QED
    BY <1>1, <2>3, OpenMutexControl, HelperKeeps
<1>4. CASE HelperFails(a, mutex, FALSE)
  <2>1. HelperChanges(a)
    BY <1>1, <1>2, <1>4, FailureTypes DEF HelperChanges
  <2>2. QED
    BY <1>1, <2>1, OpenMutexControl, HelperKeeps
<1>5. QED
  BY <1>3, <1>4 DEF OpenMutex

LEMMA GetReadyKeeps ==
    ASSUME PortableInv, NEW a \in Attempts, GetReady(a)
    PROVE PortableInv'
<1>1. /\ TypeOK /\ Control /\ mutex \in Mutexes /\ stage \in [Attempts -> Stages]
  BY TypesAre
<1>2. /\ helper[a].pc = "opened"
      /\ UNCHANGED <<tree, temporary, backup, tx, faults, app, installer, story, kills>>
  BY DEF GetReady, txVars
<1>3. CASE /\ helper' = [helper EXCEPT ![a].pc = "ready"]
           /\ stage' = [stage EXCEPT ![a].notes = @ \cup {"ready"}] /\ UNCHANGED mutex
  <2>1. Quiet(a)
    BY <1>1, <1>2, <1>3, GoesQuietly DEF Pcs
  <2>2. stage' \in [Attempts -> Stages]
    BY <1>1, <1>3, StageSets
  <2>3. HelperChanges(a)
    BY <1>1, <1>2, <1>3, <2>1, <2>2 DEF HelperChanges
  <2>4. QED
    BY <1>1, <2>3, GetReadyControl, HelperKeeps
<1>4. CASE HelperFails(a, mutex, FALSE)
  <2>1. HelperChanges(a)
    BY <1>1, <1>2, <1>4, FailureTypes DEF HelperChanges
  <2>2. QED
    BY <1>1, <2>1, GetReadyControl, HelperKeeps
<1>5. QED
  BY <1>3, <1>4 DEF GetReady

LEMMA AwaitExitKeeps ==
    ASSUME PortableInv, NEW a \in Attempts, AwaitExit(a)
    PROVE PortableInv'
<1>1. /\ TypeOK /\ Control /\ mutex \in Mutexes /\ stage \in [Attempts -> Stages]
  BY TypesAre
<1>2. /\ helper[a].pc = "ready"
      /\ UNCHANGED <<tree, temporary, backup, tx, faults, app, installer, story, kills>>
  BY DEF AwaitExit, txVars
<1>3. CASE /\ helper' = [helper EXCEPT ![a].pc = "left", ![a].left = TRUE]
           /\ UNCHANGED <<mutex, stage>>
  <2>1. Quiet(a)
    BY <1>1, <1>2, <1>3, GoesQuietly DEF Pcs
  <2>2. HelperChanges(a)
    BY <1>1, <1>2, <1>3, <2>1 DEF HelperChanges
  <2>3. QED
    BY <1>1, <2>2, AwaitExitControl, HelperKeeps
<1>4. CASE HelperFails(a, mutex, FALSE)
  <2>1. HelperChanges(a)
    BY <1>1, <1>2, <1>4, FailureTypes DEF HelperChanges
  <2>2. QED
    BY <1>1, <2>1, AwaitExitControl, HelperKeeps
<1>5. QED
  BY <1>3, <1>4 DEF AwaitExit

LEMMA AcquireKeeps ==
    ASSUME PortableInv, NEW a \in Attempts, Acquire(a)
    PROVE PortableInv'
<1> DEFINE mine == [mutex EXCEPT !.owner = {a}, !.abandoned = FALSE]
<1>1. /\ TypeOK /\ Control /\ mutex \in Mutexes /\ stage \in [Attempts -> Stages] /\ a \in Holders
  BY TypesAre, AttemptsAre
<1>2. /\ helper[a].pc = "left"
      /\ UNCHANGED <<tree, temporary, backup, tx, faults, app, installer, story, kills>>
  BY DEF Acquire, txVars
<1>3. mine \in Mutexes
  BY <1>1 DEF Mutexes
<1>4. CASE /\ mutex' = mine /\ helper' = [helper EXCEPT ![a].pc = "owner"] /\ UNCHANGED stage
  <2>1. Quiet(a)
    BY <1>1, <1>2, <1>4, GoesQuietly DEF Pcs
  <2>2. HelperChanges(a)
    BY <1>1, <1>2, <1>3, <1>4, <2>1 DEF HelperChanges
  <2>3. QED
    BY <1>1, <2>2, AcquireControl, HelperKeeps
<1>5. ASSUME NEW m \in Mutexes, HelperFails(a, m, TRUE)
      PROVE PortableInv'
  <2>1. HelperChanges(a)
    BY <1>1, <1>2, <1>5, FailureTypes DEF HelperChanges
  <2>2. QED
    BY <1>1, <2>1, AcquireControl, HelperKeeps
<1>6. QED
  BY <1>1, <1>3, <1>4, <1>5 DEF Acquire

LEMMA StartReplacingKeeps ==
    ASSUME PortableInv, NEW a \in Attempts, StartReplacing(a)
    PROVE PortableInv'
<1>1. /\ TypeOK /\ Control /\ Counted /\ Replacement /\ TxTypeOK
      /\ mutex \in Mutexes /\ stage \in [Attempts -> Stages] /\ installer \in Installers
      /\ story \in [Attempts -> Tales] /\ kills \in 0..MaxKills /\ app \in Apps
      /\ helper \in [Attempts -> Helpers]
  BY TypesAre
<1>2. helper[a].pc = "owner" /\ UNCHANGED <<app, installer, story, kills>>
  BY DEF StartReplacing
<1>3. CASE /\ tree[Manifest] = helper[a].expected /\ Begin(a)
           /\ helper' = [helper EXCEPT ![a].pc = "replacing"] /\ UNCHANGED <<mutex, stage>>
  <2>1. TxTypeOK'
    BY <1>1, <1>3, BeginTypes
  <2>2. helper' \in [Attempts -> Helpers]
    <3>1. [helper[a] EXCEPT !.pc = "replacing"] \in Helpers
      BY <1>1, HelperSets DEF Pcs
    <3>2. helper' = [helper EXCEPT ![a] = [helper[a] EXCEPT !.pc = "replacing"]]
      BY <1>1, <1>3
    <3>3. QED
      BY <1>1, <3>1, <3>2
  <2>3. TypeOK'
    BY <1>1, <1>2, <1>3, <2>1, <2>2, TypesNext
  <2>4. \A b \in Attempts : helper[b].pc = "ended" => helper'[b].pc = "ended"
    BY <1>1, <1>2, <1>3
  <2>5. Counted'
    BY <1>1, <1>2, <2>4, CountedStill
  <2>6. Replacement'
    BY <1>1, <1>2, <1>3, BeginReplacement
  <2>7. QED
    BY <1>1, <2>3, <2>5, <2>6, StartReplacingControl DEF PortableInv
<1>4. CASE /\ HelperFails(a, [mutex EXCEPT !.owner = {}], TRUE)
           /\ UNCHANGED faults \/ Fails
           /\ UNCHANGED <<tree, temporary, backup, tx>>
  <2>1. [mutex EXCEPT !.owner = {}] \in Mutexes
    BY <1>1 DEF Mutexes
  <2>2. HelperChanges(a)
    BY <1>1, <1>2, <1>4, <2>1, FailureTypes DEF HelperChanges
  <2>3. QED
    BY <1>1, <2>2, StartReplacingControl, HelperKeeps
<1>5. QED
  BY <1>3, <1>4 DEF StartReplacing, Fails

LEMMA ReplaceStepKeeps ==
    ASSUME PortableInv, NEW a \in Attempts, ReplaceStep(a)
    PROVE PortableInv'
<1>1. /\ TypeOK /\ Control /\ Counted /\ Replacement
      /\ mutex \in Mutexes /\ stage \in [Attempts -> Stages] /\ installer \in Installers
      /\ story \in [Attempts -> Tales] /\ kills \in 0..MaxKills /\ app \in Apps
      /\ helper \in [Attempts -> Helpers]
  BY TypesAre
<1>2. UNCHANGED <<app, installer, mutex, helper, stage, story, kills>>
  BY DEF ReplaceStep
<1>3. TxTypeOK' /\ Replacement'
  BY <1>1, ReplaceStepReplacement
<1>4. TypeOK' /\ Counted'
  BY <1>1, <1>2, <1>3, TypesNext, CountedStill
<1>5. QED
  BY <1>1, <1>3, <1>4, ReplaceStepControl DEF PortableInv

LEMMA ReplacedKeeps ==
    ASSUME PortableInv, NEW a \in Attempts, Replaced(a)
    PROVE PortableInv'
<1>1. /\ TypeOK /\ Control /\ mutex \in Mutexes /\ stage \in [Attempts -> Stages] /\ a \in Holders
  BY TypesAre, AttemptsAre
<1>2. /\ helper[a].pc = "replacing"
      /\ UNCHANGED <<tree, temporary, backup, tx, faults, app, installer, story, kills>>
  BY DEF Replaced, txVars
<1>3. CASE /\ helper' = [helper EXCEPT ![a].pc = "restart"]
           /\ mutex' = Released(mutex, a) /\ UNCHANGED stage
  <2>1. Quiet(a)
    BY <1>1, <1>2, <1>3, GoesQuietly DEF Pcs
  <2>2. HelperChanges(a)
    BY <1>1, <1>2, <1>3, <2>1, OrphanedTypes DEF HelperChanges
  <2>3. QED
    BY <1>1, <2>2, ReplacedControl, HelperKeeps
<1>4. CASE HelperFails(a, [mutex EXCEPT !.owner = {}], TRUE)
  <2>1. [mutex EXCEPT !.owner = {}] \in Mutexes
    BY <1>1 DEF Mutexes
  <2>2. HelperChanges(a)
    BY <1>1, <1>2, <1>4, <2>1, FailureTypes DEF HelperChanges
  <2>3. QED
    BY <1>1, <2>2, ReplacedControl, HelperKeeps
<1>5. QED
  BY <1>3, <1>4 DEF Replaced

\* A session that a helper starts is the last of its own attempt.
LEMMA RestartKeeps ==
    ASSUME PortableInv, NEW a \in Attempts, Restart(a)
    PROVE PortableInv'
<1>1. /\ TypeOK /\ Control /\ Counted /\ Replacement /\ TxTypeOK
      /\ mutex \in Mutexes /\ stage \in [Attempts -> Stages] /\ installer \in Installers
      /\ story \in [Attempts -> Tales] /\ kills \in 0..MaxKills /\ app \in Apps
      /\ helper \in [Attempts -> Helpers] /\ faults \in 0..MaxFaults
  BY TypesAre
<1>2. /\ helper[a].pc = "restart"
      /\ UNCHANGED <<tree, temporary, backup, tx, installer, story, kills>>
  BY DEF Restart
<1>3. CASE /\ app' = Entered(mutex)
           /\ stage' = [stage EXCEPT ![a].notes = @ \cup {"complete"}]
           /\ helper' = [helper EXCEPT ![a].pc = "ended"] /\ UNCHANGED <<mutex, faults>>
  <2>1. Quiet(a)
    BY <1>1, <1>2, <1>3, GoesQuietly DEF Pcs
  <2>2. stage' \in [Attempts -> Stages]
    BY <1>1, <1>3, StageSets
  <2>3. /\ app.session \in Nat /\ MaxSessions \in Nat /\ MaxAttempts \in Nat
    BY <1>1, PortableAssumption, TransactionAssumption DEF Apps
  <2>4. /\ Finished' = Finished \cup {a} /\ a \notin Finished
        /\ Finished' \subseteq Attempts
    BY <1>1, <1>2, <1>3 DEF Finished, Helpers
  <2>5. /\ Cardinality(Finished') = Cardinality(Finished) + 1
        /\ Cardinality(Finished) \in Nat /\ Cardinality(Finished') <= MaxAttempts
    <3>1. Cardinality(Finished \cup {a}) = Cardinality(Finished) + 1
      BY <2>4, FinishedFinite, FS_AddElement
    <3>2. Cardinality(Finished') <= MaxAttempts
      BY <2>4, FinishedFinite, FS_Subset
    <3>3. QED
      BY <2>4, <3>1, <3>2, FinishedFinite
  <2>6. app.session < MaxSessions + MaxAttempts
    BY <1>1, <2>3, <2>5 DEF Counted
  <2>7. app' \in Apps /\ app'.session \in {app.session, app.session + 1}
    BY <1>1, <1>3, <2>6, EnteredTypes
  <2>8. TxTypeOK'
    BY <1>1, <1>2, <1>3, TransactionTypes, TransactionTypesNext
  <2>9. TypeOK'
    BY <1>1, <1>2, <1>3, <2>1, <2>2, <2>7, <2>8, TypesNext DEF Quiet
  <2>10. Counted'
    BY <1>1, <2>3, <2>5, <2>7 DEF Counted
  <2>11. Replacement'
    <3>1. \A b \in Attempts : /\ Active(b)' => Active(b)
                              /\ helper'[b].expected = helper[b].expected
      BY <2>1 DEF Quiet, Active
    <3>2. QED
      BY <1>1, <1>2, <3>1, ReplacementStill
  <2>12. QED
    BY <1>1, <2>9, <2>10, <2>11, RestartControl DEF PortableInv
<1>4. CASE Fails /\ HelperFails(a, mutex, TRUE) /\ UNCHANGED app
  <2>1. HelperChanges(a)
    BY <1>1, <1>2, <1>4, FailureTypes DEF HelperChanges
  <2>2. QED
    BY <1>1, <2>1, RestartControl, HelperKeeps
<1>5. QED
  BY <1>3, <1>4 DEF Restart

LEMMA DismissKeeps ==
    ASSUME PortableInv, NEW a \in Attempts, Dismiss(a)
    PROVE PortableInv'
<1>1. /\ TypeOK /\ Control /\ stage \in [Attempts -> Stages] /\ a \in Holders
  BY TypesAre, AttemptsAre
<1>2. /\ helper[a].pc = "message" /\ helper' = [helper EXCEPT ![a].pc = "ended"]
      /\ mutex' = Orphaned(mutex, a)
      /\ UNCHANGED <<tree, temporary, backup, tx, faults, app, installer, stage, story, kills>>
  BY DEF Dismiss, txVars
<1>3. Quiet(a)
  BY <1>1, <1>2, GoesQuietly DEF Pcs
<1>4. HelperChanges(a)
  BY <1>1, <1>2, <1>3, OrphanedTypes DEF HelperChanges
<1>5. QED
  BY <1>1, <1>4, DismissControl, HelperKeeps

\* Only what the killed one was copying is cut short.
LEMMA HelperKilledKeeps ==
    ASSUME PortableInv, NEW a \in Attempts, HelperKilled(a)
    PROVE PortableInv'
<1>1. /\ TypeOK /\ Control /\ Counted /\ Replacement /\ TxTypeOK
      /\ mutex \in Mutexes /\ stage \in [Attempts -> Stages] /\ installer \in Installers
      /\ story \in [Attempts -> Tales] /\ kills \in 0..MaxKills /\ app \in Apps
      /\ helper \in [Attempts -> Helpers] /\ a \in Holders
  BY TypesAre, AttemptsAre
<1>2. /\ helper' = [helper EXCEPT ![a].pc = "ended"] /\ mutex' = Orphaned(mutex, a)
      /\ kills < MaxKills /\ kills' = kills + 1
      /\ UNCHANGED <<tree, backup, tx, faults, app, installer, stage, story>>
      /\ temporary' \in {temporary, "partial"}
      /\ helper[a].pc # "replacing" => temporary' = temporary
  BY DEF HelperKilled
<1>3. Quiet(a)
  BY <1>1, <1>2, GoesQuietly DEF Pcs
<1>4. kills' \in 0..MaxKills /\ mutex' \in Mutexes
  BY <1>1, <1>2, PortableAssumption, OrphanedTypes
<1>5. TxTypeOK'
  BY <1>1, <1>2, TransactionTypes, TransactionTypesNext
<1>6. TypeOK' /\ Counted'
  <2>1. TypeOK'
    BY <1>1, <1>2, <1>3, <1>4, <1>5, TypesNext DEF Quiet
  <2>2. \A b \in Attempts : helper[b].pc = "ended" => helper'[b].pc = "ended"
    BY <1>3 DEF Quiet
  <2>3. QED
    BY <1>1, <1>2, <2>1, <2>2, CountedStill
<1>7. Replacement'
  <2>1. ASSUME NEW b \in Attempts, Active(b)'
        PROVE Active(b) /\ temporary' = temporary
    <3>1. b # a /\ Active(b)
      BY <1>3, <2>1 DEF Quiet, Active
    <3>2. ~Active(a)
      BY <1>1, <3>1, OneActive
    <3>3. QED
      BY <1>2, <3>1, <3>2 DEF Active
  <2>2. \A b \in Attempts : helper'[b].expected = helper[b].expected
    BY <1>3 DEF Quiet
  <2>3. QED
    BY <1>1, <1>2, <2>1, <2>2, ReplacementStill
<1>8. QED
  BY <1>1, <1>6, <1>7, HelperKilledControl DEF PortableInv

-----------------------------------------------------------------------------
(* Every step keeps the invariant: the user *)

LEMMA UserCreatesKeeps ==
    ASSUME PortableInv, NEW k \in UserFiles, UserCreates(k)
    PROVE PortableInv'
<1>1. /\ TypeOK /\ Control /\ Counted /\ Replacement /\ TxTypeOK
      /\ mutex \in Mutexes /\ stage \in [Attempts -> Stages] /\ installer \in Installers
      /\ story \in [Attempts -> Tales] /\ kills \in 0..MaxKills /\ app \in Apps
      /\ helper \in [Attempts -> Helpers]
  BY TypesAre
<1>2. /\ tree[k] = "none" /\ \A a \in Attempts : ~Active(a)
      /\ tree' = [tree EXCEPT ![k] = "foreign"] /\ k \in Keys
      /\ UNCHANGED <<temporary, backup, tx, faults, app, installer, mutex, helper, stage, story,
                     kills>>
  BY PortableAssumption DEF UserCreates, Active
<1>3. tree \in Trees /\ tree' \in Trees
  BY <1>1, <1>2, TransactionTypes DEF Trees, Contents
<1>4. /\ tree'[k] = "foreign"
      /\ \A f \in Keys : f # k => tree'[f] = tree[f]
  BY <1>2, <1>3 DEF Trees
<1>5. TxTypeOK'
  BY <1>1, <1>2, <1>3, TransactionTypes, TransactionTypesNext
<1>6. TypeOK' /\ Counted'
  BY <1>1, <1>2, <1>5, TypesNext, CountedStill
<1>7. ASSUME NEW a \in Attempts
      PROVE Lasting(a)' /\ Manifests(a)' /\ Running(a)'
  <2>1. tx'[a] = tx[a] /\ backup'[a] = backup[a] /\ Lasting(a)
    BY <1>1, <1>2 DEF Replacement
  <2>2. \A f \in Keys \ FilesOf(tx[a].old) :
            tree'[f] = tree[f] \/ tx[a].before[f] = "none" \/ tx[a].step \in {"idle", "refused"}
    BY <1>2, <1>4, <2>1 DEF Lasting, NotOwned
  <2>3. Lasting(a)'
    BY <2>1, <2>2, LastingStill
  <2>4. ~Active(a)'
    BY <1>2 DEF Active
  <2>5. Manifests(a)'
    <3>1. Began(a)' /\ helper'[a].expected = "new" => tree'[Manifest] # "old"
      BY <1>1, <1>2, <1>4, ManifestIs DEF Replacement, Manifests, Began
    <3>2. QED
      BY <2>4, <3>1 DEF Manifests
  <2>6. QED
    BY <2>3, <2>4, <2>5 DEF Running
<1>8. Control'
  BY <1>1, <1>2, <1>6, Unseen
<1>9. QED
  BY <1>6, <1>7, <1>8 DEF PortableInv, Replacement

LEMMA StageChangesKeeps ==
    ASSUME PortableInv, NEW a \in Attempts, StageChanges(a)
    PROVE PortableInv'
<1>1. /\ TypeOK /\ Control /\ mutex \in Mutexes /\ stage \in [Attempts -> Stages]
      /\ installer \in Installers /\ story \in [Attempts -> Tales] /\ kills \in 0..MaxKills
      /\ app \in Apps /\ faults \in 0..MaxFaults
  BY TypesAre
<1>2. /\ stage' = [stage EXCEPT ![a].intact = FALSE]
      /\ UNCHANGED <<tree, temporary, backup, tx, faults, app, installer, mutex, helper, story,
                     kills>>
  BY DEF StageChanges, txVars
<1>3. stage' \in [Attempts -> Stages] /\ \A b \in Attempts : stage'[b].notes = stage[b].notes
  <2>1. stage' \in [Attempts -> Stages]
    BY <1>1, <1>2, StageSets
  <2>2. \A b \in Attempts : stage'[b].notes = stage[b].notes
    BY <1>1, <1>2 DEF Stages
  <2>3. QED
    BY <2>1, <2>2
<1>4. QED
  BY <1>1, <1>2, <1>3, Unseen, AppKeeps

-----------------------------------------------------------------------------
(* The theorems *)

LEMMA PortableInit == Init => PortableInv
<1> SUFFICES ASSUME Init
             PROVE PortableInv
  OBVIOUS
<1>1. /\ MaxSessions \in Nat /\ MaxSessions >= 1 /\ MaxKills \in Nat /\ MaxAttempts \in Nat
      /\ MaxFaults \in Nat /\ 1 \in Places
  <2>1. Len(OldFiles) \in Nat /\ Len(NewFiles) \in Nat
    BY ListsAre DEF Lists
  <2>2. QED
    BY <2>1, PortableAssumption, TransactionAssumption DEF Places
<1>2. /\ tree \in Trees /\ temporary = "none" /\ faults = 0 /\ kills = 0
      /\ backup = [a \in Attempts |-> NoBackup] /\ tx = [a \in Attempts |-> NewTx]
      /\ app = [state |-> "running", session |-> 1, native |-> FALSE]
      /\ installer = NewInstaller /\ mutex = FreeMutex
      /\ stage = [a \in Attempts |-> [notes |-> {}, intact |-> TRUE]]
      /\ story = [a \in Attempts |-> [told |-> FALSE, unsaved |-> FALSE, committed |-> FALSE]]
      /\ helper = [a \in Attempts |->
                      [pc |-> "none", parent |-> 0, expected |-> "old", left |-> FALSE]]
  BY DEF Init, TxInit, Trees
<1>3. NewTx \in Transactions
  <2>1. /\ NewTx.before \in [Keys -> Contents]
        /\ NewTx.changed \in Seq(Names) /\ NewTx.backedUp \in SUBSET Names
    BY DEF NewTx, NoBackup, Contents
  <2>2. QED
    BY <1>1, <2>1 DEF NewTx, Transactions, Steps, Places
<1>4. TxTypeOK
  <2>1. backup \in Backups
    BY <1>2 DEF Backups, NoBackup, Contents
  <2>2. QED
    BY <1>1, <1>2, <1>3, <2>1, TransactionTypes
<1>5. TypeOK
  <2>1. app \in Apps
    BY <1>1, <1>2 DEF Apps
  <2>2. installer \in Installers /\ mutex \in Mutexes
    BY <1>1, <1>2 DEF Installers, NewInstaller, Mutexes, FreeMutex
  <2>3. /\ helper \in [Attempts -> Helpers] /\ stage \in [Attempts -> Stages]
        /\ story \in [Attempts -> Tales]
    BY <1>1, <1>2 DEF Helpers, Stages, Tales
  <2>4. QED
    BY <1>1, <1>2, <1>4, <2>1, <2>2, <2>3, Types
<1>6. Counted
  BY <1>1, <1>2, FinishedFinite DEF Counted
<1>7. ASSUME NEW a \in Attempts
      PROVE /\ ~Began(a) /\ helper[a].pc = "none" /\ helper[a].parent = 0 /\ ~Past(a)
            /\ ~story[a].told /\ stage[a].notes = {} /\ a # installer.attempt /\ ~Active(a)
            /\ tx[a] = NewTx
  BY <1>2, AttemptsAre DEF Began, Past, NewTx, NewInstaller, Active, App
<1>8. Control
  <2>1. Held
    BY <1>2 DEF Held, FreeMutex
  <2>2. Task
    BY <1>2 DEF Task, NewInstaller
  <2>3. ASSUME NEW a \in Attempts
        PROVE Lock(a) /\ Story(a)
    <3>1. Lock(a)
      BY <1>2, <1>7 DEF Lock, FreeMutex, Inside
    <3>2. Story(a)
      BY <1>7 DEF Story, Fresh, Revoked, Failed, Sent, Waits, Plan
    <3>3. QED
      BY <3>1, <3>2
  <2>4. QED
    BY <2>1, <2>2, <2>3 DEF Control
<1>9. Replacement
  <2>1. ASSUME NEW a \in Attempts
        PROVE Lasting(a) /\ Manifests(a) /\ Running(a)
    <3>1. /\ tx[a].step = "idle" /\ tx[a].i = 1 /\ tx[a].changed = <<>> /\ tx[a].backedUp = {}
          /\ ~tx[a].incomplete
      BY <1>7 DEF NewTx
    <3>2. Lasting(a)
      BY <3>1 DEF Lasting, Idle, Copied, AllCopied, NotOwned, Named
    <3>3. QED
      BY <1>7, <3>2 DEF Manifests, Running
  <2>2. QED
    BY <2>1 DEF Replacement
<1>10. QED
  BY <1>5, <1>6, <1>8, <1>9 DEF PortableInv

LEMMA PortableStep == PortableInv /\ [Next]_vars => PortableInv'
<1> SUFFICES ASSUME PortableInv, [Next]_vars
             PROVE PortableInv'
  OBVIOUS
<1>1. CASE UNCHANGED vars
  <2>1. /\ UNCHANGED <<tree, temporary, backup, tx, faults, app, installer, mutex, helper, stage,
                       story, kills>>
    BY <1>1 DEF vars, txVars
  <2>2. TypeOK' => Control'
    BY <2>1, TypesAre, Unseen
  <2>3. QED
    BY <2>1, <2>2, TypesAre, AppKeeps
<1>2. ASSUME NEW a \in Attempts, Install(a) \/ AppStep(a) \/ UserCancels(a)
      PROVE PortableInv'
  BY <1>2, InstallKeeps, PreparePackageKeeps, PreparationFailedKeeps, StartHelperKeeps,
     HelperFailedKeeps, HelperTooLateKeeps, HandOffKeeps, VetoKeeps, UserCancelsKeeps DEF AppStep
<1>3. ASSUME NEW a \in Attempts, HelperStep(a) \/ Dismiss(a) \/ HelperKilled(a) \/ StageChanges(a)
      PROVE PortableInv'
  BY <1>3, OpenMutexKeeps, GetReadyKeeps, AwaitExitKeeps, AcquireKeeps, StartReplacingKeeps,
     ReplaceStepKeeps, ReplacedKeeps, RestartKeeps, DismissKeeps, HelperKilledKeeps,
     StageChangesKeeps DEF HelperStep
<1>4. CASE Quit \/ AppEnds \/ AppKilled \/ UserStarts
  BY <1>4, QuitKeeps, AppEndsKeeps, AppKilledKeeps, UserStartsKeeps
<1>5. ASSUME NEW k \in UserFiles, UserCreates(k)
      PROVE PortableInv'
  BY <1>5, UserCreatesKeeps
<1>6. QED
  BY <1>1, <1>2, <1>3, <1>4, <1>5 DEF Next

\* The types of the application, of the helper and of the transaction, the
\* bound on the sessions and what the two know of each other hold always.
THEOREM PortableCorrect == Spec => []PortableInv
BY PortableInit, PortableStep, PTL DEF Spec

\* Files are replaced by one helper, which owns the mutex, when no session
\* runs, and after its own has committed its exit: performUpdate waits for
\* the parent, and the handshake is not taken back once it is done
\* (helper_win.cpp, portableupdateinstaller.cpp).
THEOREM OneReplaces == Spec => []ReplacesAlone
<1>1. ASSUME PortableInv
      PROVE ReplacesAlone
  <2>1. ASSUME NEW a \in Attempts, Active(a)
        PROVE /\ mutex.owner = {a} /\ app.state = "gone"
              /\ story[a].committed \/ story[a].unsaved
              /\ \A b \in Attempts : Active(b) => b = a
    <3>1. TypeOK /\ Control
      BY <1>1, TypesAre
    <3>2. Lock(a) /\ Sent(a) /\ Past(a)
      BY <2>1, <3>1 DEF Control, Story, Past, Active
    <3>3. QED
      BY <2>1, <3>1, <3>2, OneActive DEF Lock, Sent, Active
  <2>2. QED
    BY <2>1 DEF ReplacesAlone, Active
<1>2. QED
  BY <1>1, PortableCorrect, PTL

\* An attempt of which the user was told that it is off, and whose cancel was
\* saved, never begins a replacement and starts no session.
THEOREM RevokedForGood == Spec => []RevokedStays
<1>1. PortableInv => RevokedStays
  BY TypesAre DEF Control, Story, Sent, Past, Began, RevokedStays
<1>2. QED
  BY <1>1, PortableCorrect, PTL

\* Wherever replaceFiles is cut off, every file that was there before is
\* there, or in the backup; a file that nobody owns keeps its content.
THEOREM BackupSuffices == Spec => []Recoverable
<1>1. ASSUME PortableInv, NEW a \in Attempts, tx[a].step \notin {"idle", "refused", "backup"},
             NEW k \in Keys
      PROVE \/ tx[a].before[k] = "none"
            \/ tx[a].before[k] = tree[k]
            \/ tx[a].before[k] = backup[a][k] /\ k \in FilesOf(tx[a].old)
  <2>1. Lasting(a) /\ tx[a].old \in Lists
    BY <1>1, TypesAre, TransactionIs DEF Replacement
  <2>2. CASE k \notin FilesOf(tx[a].old)
    BY <1>1, <2>1, <2>2 DEF Lasting, NotOwned
  <2>3. CASE k \in FilesOf(tx[a].old)
    <3>1. PICK n \in Listed(tx[a].old) : k = Folded[n]
      BY <2>1, <2>3, ListsAre
    <3>2. QED
      BY <1>1, <2>1, <2>3, <3>1 DEF Lasting, AllCopied, Copied
  <2>4. QED
    BY <2>2, <2>3
<1>2. PortableInv => Recoverable
  BY <1>1 DEF Recoverable
<1>3. QED
  BY <1>2, PortableCorrect, PTL

-----------------------------------------------------------------------------
(* How a transaction ends *)

LEMMA EndingStep ==
    ASSUME PortableInv, NEW a \in Attempts, ReplaceStep(a), tx'[a].step # tx[a].step
    PROVE /\ tx'[a].step = "done" =>
                /\ \A k \in FilesOf(NewFiles) : tree'[k] = "new"
                /\ \A k \in FilesOf(tx[a].old) \ FilesOf(NewFiles) : tree'[k] = "none"
          /\ tx'[a].step = "refused" => tree' = tx'[a].before
          /\ SpellingKept /\ tx'[a].step = "undone" /\ ~tx'[a].incomplete => tree' = tx'[a].before
<1>1. /\ TxTypeOK /\ Replace(a) /\ Active(a) /\ Running(a)
      /\ tx'[a].before = tx[a].before /\ tx[a].before \in Trees /\ tree \in Trees
  BY TypesAre, ReplaceIs, TransactionIs, TransactionTypes DEF Replacement, ReplaceStep, Active
<1>2. /\ tx \in [Attempts -> Transactions] /\ tx[a].i \in Nat /\ tx[a].i >= 1
      /\ Len(tx[a].changed) \in Nat /\ Len(tx[a].old) \in Nat
      /\ DOMAIN tx[a].old = 1..Len(tx[a].old)
  BY <1>1, TransactionTypes, TransactionIs, LengthsAre
<1>3. CASE BackUp(a)
  <2>1. tx[a].step = "backup" /\ UNCHANGED tree
    BY <1>3 DEF BackUp
  <2>2. tree = tx[a].before
    BY <1>1, <2>1 DEF Running, BackingUp
  <2>3. tx'[a].step \notin {"done", "undone"}
    BY <1>2, <1>3, <2>1, SMTT(30) DEF BackUp, Goes, Advances, Transactions
  <2>4. QED
    BY <1>1, <2>1, <2>2, <2>3
<1>4. CASE Stage(a) \/ Remove(a) \/ Rename(a)
  <2>1. tx'[a].step \notin {"done", "undone", "refused"}
    BY <1>2, <1>4 DEF Stage, Remove, Rename, Throw, Goes, Transactions
  <2>2. QED
    BY <2>1
<1>5. CASE Retire(a)
  <2>1. tx[a].step = "retire"
    BY <1>5 DEF Retire
  <2>2. /\ tx[a].i <= Len(tx[a].old) + 1
        /\ \A k \in FilesOf(NewFiles) : tree[k] = "new"
        /\ \A j \in 1..(tx[a].i - 1) :
              Folded[tx[a].old[j]] \in FilesOf(NewFiles) \/ tree[Folded[tx[a].old[j]]] = "none"
    BY <1>1, <2>1 DEF Running, Retiring
  <2>3. tx'[a].step \notin {"undone", "refused"}
    BY <1>2, <1>5, <2>1 DEF Retire, Goes, Advances, Transactions
  <2>4. tx'[a].step = "done" => tx[a].i > Len(tx[a].old) /\ UNCHANGED tree
    BY <1>2, <1>5, <2>1 DEF Retire, Goes, Advances, Transactions
  <2>5. ASSUME tx[a].i > Len(tx[a].old), NEW k \in FilesOf(tx[a].old) \ FilesOf(NewFiles)
        PROVE tree[k] = "none"
    <3>1. PICK j \in 1..Len(tx[a].old) : k = Folded[tx[a].old[j]]
      BY <1>2 DEF FilesOf
    <3>2. j \in 1..(tx[a].i - 1)
      BY <1>2, <2>2, <2>5
    <3>3. QED
      BY <2>2, <2>5, <3>1, <3>2
  <2>6. QED
    BY <2>2, <2>3, <2>4, <2>5
<1>6. CASE Undo(a)
  <2>1. tx[a].step = "undo"
    BY <1>6 DEF Undo
  <2>2. tx'[a].step \notin {"done", "refused"}
    BY <1>2, <1>6, <2>1 DEF Undo, Goes, Advances, Transactions
  <2>3. tx'[a].step = "undone" => /\ tx[a].i > Len(tx[a].changed) /\ UNCHANGED tree
                                  /\ tx'[a].incomplete = tx[a].incomplete
    BY <1>2, <1>6, <2>1 DEF Undo, Goes, Advances, Transactions
  <2>4. ASSUME SpellingKept, tx'[a].step = "undone", ~tx'[a].incomplete
        PROVE tree' = tx'[a].before
    <3>1. /\ tx[a].i <= Len(tx[a].changed) + 1
          /\ \A k \in Keys : tree[k] = tx[a].before[k]
                             \/ k \in Noted(a, Len(tx[a].changed) + 1 - tx[a].i)
      BY <1>1, <2>1, <2>3, <2>4 DEF Running, Undoing
    <3>2. Len(tx[a].changed) + 1 - tx[a].i = 0
      BY <1>2, <2>3, <2>4, <3>1
    <3>3. Noted(a, 0) = {}
      BY DEF Noted
    <3>4. \A k \in Keys : tree[k] = tx[a].before[k]
      BY <3>1, <3>2, <3>3
    <3>5. tree = tx[a].before
      BY <1>1, <3>4 DEF Trees
    <3>6. QED
      BY <1>1, <2>3, <2>4, <3>5
  <2>5. QED
    BY <2>2, <2>4
<1>7. QED
  BY <1>1, <1>3, <1>4, <1>5, <1>6 DEF Replace

\* A step of a transaction is one of the helper.
LEMMA StepsAre ==
    ASSUME PortableInv, [Next]_vars, NEW a \in Attempts, tx'[a].step # tx[a].step
    PROVE (Begin(a) /\ tx'[a].step \in {"backup", "refused"}) \/ ReplaceStep(a)
<1>1. /\ TxTypeOK /\ tx \in [Attempts -> Transactions]
  BY TypesAre, TransactionTypes
<1>2. ~UNCHANGED tx
  OBVIOUS
<1>3. ASSUME NEW b \in Attempts, PreparePackage(b)
      PROVE tx'[a].step = tx[a].step
  <2>1. UNCHANGED tx \/ \E old : tx' = [tx EXCEPT ![b].old = old]
    BY <1>3 DEF PreparePackage
  <2>2. ASSUME NEW old, tx' = [tx EXCEPT ![b].old = old]
        PROVE tx'[a].step = tx[a].step
    <3>1. tx'[a] = IF a = b THEN [tx[b] EXCEPT !.old = old] ELSE tx[a]
      BY <1>1, <2>2
    <3>2. [tx[b] EXCEPT !.old = old].step = tx[b].step
      BY <1>1 DEF Transactions
    <3>3. QED
      BY <3>1, <3>2
  <2>3. QED
    BY <2>1, <2>2
<1>4. ASSUME NEW b \in Attempts, StartReplacing(b)
      PROVE Begin(a) /\ tx'[a].step \in {"backup", "refused"}
  <2>1. Begin(b)
    BY <1>2, <1>4 DEF StartReplacing
  <2>2. /\ tx'[b].step \in {"backup", "refused"}
        /\ \A c \in Attempts : c # b => tx'[c] = tx[c]
    BY <1>1, <2>1, BeginTypes
  <2>3. b = a
    BY <2>2
  <2>4. QED
    BY <2>1, <2>2, <2>3
<1>5. ASSUME NEW b \in Attempts, ReplaceStep(b)
      PROVE ReplaceStep(a)
  <2>1. \A c \in Attempts : c # b => tx'[c] = tx[c]
    BY <1>1, <1>5, ReplaceIs DEF ReplaceStep
  <2>2. b = a
    BY <2>1
  <2>3. QED
    BY <1>5, <2>2
<1>6. ASSUME NEW b \in Attempts, Install(b) \/ AppStep(b) \/ UserCancels(b)
      PROVE PreparePackage(b)
  BY <1>2, <1>6 DEF AppStep, Install, PreparationFailed, StartHelper, HelperFailed, HelperTooLate,
     HandOff, Veto, UserCancels, txVars
<1>7. ASSUME NEW b \in Attempts, HelperStep(b) \/ Dismiss(b) \/ HelperKilled(b) \/ StageChanges(b)
      PROVE StartReplacing(b) \/ ReplaceStep(b)
  BY <1>2, <1>7 DEF HelperStep, OpenMutex, GetReady, AwaitExit, Acquire, Replaced, Restart, Dismiss,
     HelperKilled, StageChanges, txVars
<1>8. ~(Quit \/ AppEnds \/ AppKilled \/ UserStarts) /\ \A k \in UserFiles : ~UserCreates(k)
  BY <1>2 DEF Quit, AppEnds, AppKilled, UserStarts, UserCreates, txVars
<1>9. ~UNCHANGED vars
  BY <1>2 DEF vars, txVars
<1>10. PICK b \in Attempts : \/ Install(b) \/ AppStep(b) \/ UserCancels(b)
                             \/ HelperStep(b) \/ Dismiss(b) \/ HelperKilled(b) \/ StageChanges(b)
  BY <1>8, <1>9 DEF Next
<1>11. PreparePackage(b) \/ StartReplacing(b) \/ ReplaceStep(b)
  BY <1>6, <1>7, <1>10
<1>12. QED
  BY <1>3, <1>4, <1>5, <1>11

\* A replacement that succeeds leaves the files of the package and none that
\* only the old manifest lists, a refused one changes nothing, and a rollback
\* that does not call itself incomplete leaves every file as it was, as long
\* as the two manifests spell a file they share alike: rollback looks the
\* spelling up among those backed up (transaction.cpp).
THEOREM EndsAsItSays == SpellingKept => (Spec => EndsWhole)
<1>1. ASSUME SpellingKept, PortableInv, [Next]_vars, NEW a \in Attempts,
             tx'[a].step # tx[a].step
      PROVE /\ tx'[a].step = "done" =>
                /\ \A k \in FilesOf(NewFiles) : tree'[k] = "new"
                /\ \A k \in FilesOf(tx[a].old) \ FilesOf(NewFiles) : tree'[k] = "none"
            /\ tx'[a].step \in {"refused", "undone"} /\ ~tx'[a].incomplete =>
                tree' = tx'[a].before
  <2>1. CASE Begin(a) /\ tx'[a].step \in {"backup", "refused"}
    <3>1. TxTypeOK
      BY <1>1, TypesAre
    <3>2. tx'[a].before = tree /\ UNCHANGED tree
      BY <2>1, <3>1, BeginTypes
    <3>3. QED
      BY <2>1, <3>2
  <2>2. CASE ReplaceStep(a)
    BY <1>1, <2>2, EndingStep
  <2>3. QED
    BY <1>1, <2>1, <2>2, StepsAre
<1>2. ASSUME SpellingKept
      PROVE Spec => EndsWhole
  <2>1. PortableInv /\ [Next]_vars =>
          [\A a \in Attempts : tx'[a].step # tx[a].step =>
            /\ tx'[a].step = "done" =>
                /\ \A k \in FilesOf(NewFiles) : tree'[k] = "new"
                /\ \A k \in FilesOf(tx[a].old) \ FilesOf(NewFiles) : tree'[k] = "none"
            /\ tx'[a].step \in {"refused", "undone"} /\ ~tx'[a].incomplete =>
                tree' = tx'[a].before]_vars
    BY <1>1, <1>2
  <2>2. QED
    BY <2>1, PortableCorrect, PTL DEF Spec, EndsWhole
<1>3. QED
  BY <1>2
=============================================================================
