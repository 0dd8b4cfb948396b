--------------------------- MODULE Updates_proofs ---------------------------
(***************************************************************************)
(* Proofs about Updates, for any number of instances and channels, any set *)
(* of signed manifests and any bounds: the accepted release of a channel   *)
(* only goes forward, and what an instance shows, downloads or installs is *)
(* known to the state file.                                                *)
(***************************************************************************)
EXTENDS Updates, TLAPS

-----------------------------------------------------------------------------
(* Types *)

\* The statuses of a check that say nothing of a release.
CheckStatuses ==
    {"Idle", "Checking", "StateInvalid", "StateBusy", "StateWriteFailed", "NetworkError",
     "VerificationFailed", "Cancelled"}

Records ==
    [accepted : {None} \cup [seq : Nat, digest : Nat], next : Nat, failures : 0..4,
     skipped : Nat]

Files == [Channels -> Records]

\* What an instance keeps of releases, when those that may be kept are known and the
\* packages that lie whole in the cache are whole.
Snapshots(known) ==
    [status : CheckStatuses, channel : Channels, release : {None}, present : BOOLEAN]
    \cup [status : {"Available", "UpToDate"}, channel : Channels, release : known,
          present : BOOLEAN]

Loads(known, whole) ==
    [status : {"Idle", "Failed", "Cancelled", "Unavailable"}, release : {None}]
    \cup [status : {"Downloading"}, release : known]
    \cup [status : {"Verified"}, release : {m \in known : m.package \in whole}]

Dialogs(known, whole) ==
    [open : BOOLEAN, check : Snapshots(known), load : Loads(known, whole),
     execution : BOOLEAN, handoff : {"Idle", "Preparing", "Failed"}]

OpsOf(kinds, manifests, thens) ==
    [kind : kinds, channel : Channels, manifest : manifests, then : thens,
     to : Channels, manual : BOOLEAN, skipped : BOOLEAN]

Ops ==
    {op \in OpsOf({"accept"}, Manifests, {"publish"}) : op.manifest.channel = op.channel}
    \cup OpsOf({"skip"}, Manifests, {"publish"})
    \cup OpsOf({"rejected", "failure"}, {None}, {"publish"})
    \cup OpsOf({"cancel"}, {None}, {"publish", "check", "setChannel", "quit"})

\* The records of an instance, by where its thread is and what it has of the state file.
Threads(pcs, ops, loadeds, busy, known, whole) ==
    [pc : pcs, op : ops, loaded : loadeds, wanted : Channels, channel : Channels,
     active : BOOLEAN, fetching : BOOLEAN, manual : BOOLEAN, snap : Snapshots(known),
     load : Loads(known, whole), got : Nat, good : BOOLEAN,
     dialog : Dialogs(known, whole), dismissed : BOOLEAN, busy : busy]

-----------------------------------------------------------------------------
(* The functions of the instance's record *)

LEMMA NoDialogType ==
    ASSUME NEW known, NEW whole
    PROVE /\ NoDialog \in Dialogs(known, whole)
          /\ \A c \in Channels : NoSnapshot(c) \in Snapshots(known)
          /\ \A s \in {"Idle", "Failed", "Cancelled", "Unavailable"} :
                NoLoad(s) \in Loads(known, whole)
<1>1. (CHOOSE c \in Channels : TRUE) \in Channels
  BY UpdatesAssumption
<1>2. \A c \in Channels : NoSnapshot(c) \in Snapshots(known)
  BY DEF NoSnapshot, Snapshots, CheckStatuses
<1>3. \A s \in {"Idle", "Failed", "Cancelled", "Unavailable"} :
         NoLoad(s) \in Loads(known, whole)
  BY DEF NoLoad, Loads
<1>4. QED
  BY <1>1, <1>2, <1>3 DEF NoDialog, Dialogs

\* A transfer's new snapshot, and what ends one.
LEMMA LoadTypes ==
    ASSUME NEW pcs, NEW ops, NEW loadeds, NEW busy \in SUBSET BOOLEAN, NEW known, NEW whole,
           NEW r \in Threads(pcs, ops, loadeds, busy, known, whole)
    PROVE /\ Capability(r) \in BOOLEAN
          /\ \A load \in Loads(known, whole) :
                WithLoad(r, load) \in Threads(pcs, ops, loadeds, busy, known, whole)
          /\ Abandon(r) \in Threads(pcs, ops, loadeds, busy, known, whole)
          /\ Invalidate(r) \in Threads(pcs, ops, loadeds, busy, known, whole)
          /\ CancelDownload(r) \in Threads(pcs, ops, loadeds, busy, known, whole)
          /\ LoadFailed(r) \in Threads(pcs, ops, loadeds, busy, known, whole)
<1> DEFINE T == Threads(pcs, ops, loadeds, busy, known, whole)
<1>1. \A s \in T : Capability(s) \in BOOLEAN
  BY DEF Capability, Threads
<1>2. ASSUME NEW s \in T, NEW load \in Loads(known, whole)
      PROVE WithLoad(s, load) \in T
  <2>1. [s EXCEPT !.load = load] \in T
    BY DEF Threads
  <2>2. ASSUME NEW t \in T, NEW e \in BOOLEAN
        PROVE [t EXCEPT !.dialog.load = load, !.dialog.execution = e] \in T
    BY DEF Threads, Dialogs
  <2>3. QED
    BY <1>1, <2>1, <2>2 DEF WithLoad
<1>3. \A s \in T : Abandon(s) \in T
  BY DEF Abandon, Threads
<1>4. QED
  BY <1>1, <1>2, <1>3, NoDialogType DEF Invalidate, CancelDownload, LoadFailed

LEMMA ShowTypes ==
    ASSUME NEW pcs, NEW ops, NEW loadeds, NEW busy \in SUBSET BOOLEAN, NEW known, NEW whole,
           NEW r \in Threads(pcs, ops, loadeds, busy, known, whole)
    PROVE /\ WithCheck(r) \in Threads(pcs, ops, loadeds, busy, known, whole)
          /\ Show(r) \in Threads(pcs, ops, loadeds, busy, known, whole)
          /\ Emit(r) \in Threads(pcs, ops, loadeds, busy, known, whole)
<1> DEFINE T == Threads(pcs, ops, loadeds, busy, known, whole)
<1>1. ASSUME NEW s \in T PROVE WithCheck(s) \in T
  <2>1. Capability(s) \in BOOLEAN /\ s.snap \in Snapshots(known)
    BY LoadTypes DEF Threads
  <2>2. ASSUME NEW c \in Snapshots(known), NEW e \in BOOLEAN
        PROVE [s EXCEPT !.dialog.check = c, !.dialog.execution = e] \in T
    BY DEF Threads, Dialogs
  <2>3. QED
    BY <2>1, <2>2 DEF WithCheck
<1>2. ASSUME NEW s \in T PROVE Show(s) \in T
  <2>1. Capability(s) \in BOOLEAN
    BY LoadTypes
  <2>2. QED
    BY <2>1 DEF Show, Threads, Dialogs
<1>3. [Invalidate(r) EXCEPT !.dismissed = FALSE] \in T
  <2>1. Invalidate(r) \in T
    BY LoadTypes
  <2>2. QED
    BY <2>1 DEF Threads
<1>4. Emit(r) \in T
  <2> DEFINE s == WithCheck(IF r.snap.status = "Checking"
                            THEN [Invalidate(r) EXCEPT !.dismissed = FALSE] ELSE r)
  <2>1. s \in T
    BY <1>1, <1>3
  <2> HIDE DEF s
  <2>2. Show(s) \in T
    BY <1>2, <2>1
  <2>3. Emit(r) = CASE r.busy -> r
             [] ~r.busy /\ s.snap.present /\ ~s.dismissed /\ s.snap.status # "Checking" /\ ~s.dialog.open
                -> Show(s)
             [] OTHER -> s
    BY DEF Emit, s
  <2>4. r.busy \in BOOLEAN
    BY DEF Threads
  <2>5. QED
    BY <2>1, <2>2, <2>3, <2>4
<1>5. QED
  BY <1>1, <1>2, <1>4

\* A loop, a thread about to take the lock, and one that has it.
Looping(busy, known, whole) == Threads({"loop"}, {None}, {None}, busy, known, whole)
Waiting(busy, known, whole) == Threads({"modify"}, Ops, {None}, busy, known, whole)
Saving(busy, known, whole) == Threads({"saving"}, Ops, {file}, busy, known, whole)
Stopped(known, whole) ==
    Threads({"gone", "updated"}, {None}, {None}, {FALSE}, known, whole)

LEMMA PublishTypes ==
    ASSUME NEW pcs, NEW ops, NEW loadeds, NEW busy \in SUBSET BOOLEAN, NEW known, NEW whole,
           NEW r \in Threads(pcs, ops, loadeds, busy, known, whole),
           NEW status \in CheckStatuses, NEW present \in BOOLEAN
    PROVE Publish(r, status, present) \in Threads(pcs, ops, loadeds, busy, known, whole)
<1>1. [NoSnapshot(r.channel) EXCEPT !.status = status, !.present = present]
         \in Snapshots(known)
  BY DEF NoSnapshot, Snapshots, Threads
<1>2. \A snap \in Snapshots(known) :
         [r EXCEPT !.snap = snap] \in Threads(pcs, ops, loadeds, busy, known, whole)
  BY DEF Threads
<1>3. QED
  BY <1>1, <1>2, ShowTypes DEF Publish

\* What the check service makes of a loop's record.
LEMMA CheckTypes ==
    ASSUME NEW busy \in SUBSET BOOLEAN, NEW known, NEW whole,
           NEW r \in Looping(busy, known, whole), NEW c \in Channels,
           NEW flag \in BOOLEAN, NEW manual \in BOOLEAN, NEW read \in BOOLEAN
    PROVE /\ Changed(r, c) \in Looping(busy, known, whole)
          /\ StartCheck(r, flag, manual, read) \in Looping(busy, known, whole)
          /\ \A op \in Ops : Modify(r, op) \in Waiting(busy, known, whole)
<1> DEFINE T == Looping(busy, known, whole)
<1>1. Changed(r, c) \in T
  <2>1. NoSnapshot(c) \in Snapshots(known)
    BY NoDialogType
  <2>2. QED
    BY <2>1 DEF Changed, Looping, Threads
<1>2. StartCheck(r, flag, manual, read) \in T
  <2> DEFINE s == [r EXCEPT !.active = FALSE, !.manual = manual]
             t == [s EXCEPT !.active = TRUE, !.fetching = TRUE]
             due == Due(file[s.channel])
  <2>1. s \in T /\ t \in T
    BY DEF Looping, Threads
  <2>2. StartCheck(r, flag, manual, read)
          = CASE ~read -> Publish(s, "StateInvalid", manual)
              [] read /\ ~manual /\ ~due -> IF flag THEN Emit(s) ELSE s
              [] OTHER -> Publish(t, "Checking", manual)
    BY DEF StartCheck
  <2> HIDE DEF s, t, due
  <2>3. Emit(s) \in T
    BY <2>1, ShowTypes DEF Looping
  <2>4. Publish(s, "StateInvalid", manual) \in T /\ Publish(t, "Checking", manual) \in T
    BY <2>1, PublishTypes DEF Looping, CheckStatuses
  <2>5. CASE ~read
    BY <2>2, <2>4, <2>5
  <2>6. CASE read /\ ~manual /\ ~due
    BY <2>1, <2>2, <2>3, <2>6
  <2>7. CASE read /\ ~(~manual /\ ~due)
    BY <2>2, <2>4, <2>7
  <2>8. QED
    BY <2>5, <2>6, <2>7
<1>3. \A op \in Ops : Modify(r, op) \in Waiting(busy, known, whole)
  BY DEF Modify, Looping, Waiting, Threads
<1>4. QED
  BY <1>1, <1>2, <1>3

\* A cancel of the check, with what follows it.
LEMMA CancelOp ==
    ASSUME NEW c \in Channels, NEW to \in Channels, NEW manual \in BOOLEAN
    PROVE /\ Op("cancel", c, None) \in Ops
          /\ [Op("cancel", c, None) EXCEPT !.then = "check", !.to = to, !.manual = manual] \in Ops
          /\ [Op("cancel", c, None) EXCEPT !.then = "setChannel", !.to = to] \in Ops
          /\ [Op("cancel", c, None) EXCEPT !.then = "quit"] \in Ops
          /\ Op("failure", c, None) \in Ops /\ Op("rejected", c, None) \in Ops
<1> DEFINE cancels == OpsOf({"cancel"}, {None}, {"publish", "check", "setChannel", "quit"})
           failures == OpsOf({"rejected", "failure"}, {None}, {"publish"})
<1>1. Op("cancel", c, None) \in cancels
  BY DEF Op, OpsOf
<1>2. [Op("cancel", c, None) EXCEPT !.then = "check", !.to = to, !.manual = manual] \in cancels
  BY <1>1 DEF OpsOf
<1>3. [Op("cancel", c, None) EXCEPT !.then = "setChannel", !.to = to] \in cancels
  BY <1>1 DEF OpsOf
<1>4. [Op("cancel", c, None) EXCEPT !.then = "quit"] \in cancels
  BY <1>1 DEF OpsOf
<1>5. Op("failure", c, None) \in failures /\ Op("rejected", c, None) \in failures
  BY DEF Op, OpsOf
<1>6. cancels \subseteq Ops /\ failures \subseteq Ops
  BY DEF Ops
<1>7. QED
  BY <1>1, <1>2, <1>3, <1>4, <1>5, <1>6

LEMMA RequestTypes ==
    ASSUME NEW busy \in SUBSET BOOLEAN, NEW known, NEW whole,
           NEW r \in Looping(busy, known, whole), NEW c \in Channels,
           NEW manual \in BOOLEAN, NEW read \in BOOLEAN
    PROVE /\ RequestCheck(r, c, manual, read)
                \in Looping(busy, known, whole) \cup Waiting(busy, known, whole)
          /\ SetChannel(r, c) \in Looping(busy, known, whole) \cup Waiting(busy, known, whole)
          /\ CancelCheck(r) \in Looping(busy, known, whole) \cup Waiting(busy, known, whole)
          /\ r.active => CancelCheck(r) = Modify(r, Op("cancel", r.channel, None))
<1> DEFINE T == Looping(busy, known, whole)
<1>1. r.channel \in Channels
  BY DEF Looping, Threads
<1>2. [r EXCEPT !.manual = TRUE, !.snap.present = TRUE] \in T
  BY DEF Looping, Threads, Snapshots
<1>3. Emit([r EXCEPT !.manual = TRUE, !.snap.present = TRUE]) \in T
  BY <1>2, ShowTypes DEF Looping
<1>4. Changed(r, c) \in T
  BY CheckTypes
<1>5. \A flag \in BOOLEAN : StartCheck(Changed(r, c), flag, manual, read) \in T
  BY <1>4, CheckTypes
<1>6. Publish(Changed(r, c), "Idle", FALSE) \in T
  BY <1>4, PublishTypes DEF Looping, CheckStatuses
<1>7. /\ RequestCheck(r, c, manual, read) \in T \cup Waiting(busy, known, whole)
      /\ SetChannel(r, c) \in T \cup Waiting(busy, known, whole)
      /\ CancelCheck(r) \in T \cup Waiting(busy, known, whole)
  <2>1. RequestCheck(r, c, manual, read) \in T \cup Waiting(busy, known, whole)
    <3>1. Modify(r, [Op("cancel", r.channel, None) EXCEPT !.then = "check", !.to = c,
                                                          !.manual = manual])
            \in Waiting(busy, known, whole)
      BY <1>1, CheckTypes, CancelOp
    <3>2. (c # r.channel) \in BOOLEAN
      OBVIOUS
    <3>3. r.active \in BOOLEAN
      BY DEF Looping, Threads
    <3>4. CASE r.active /\ c = r.channel
      BY <1>3, <3>4 DEF RequestCheck
    <3>5. CASE r.active /\ c # r.channel
      BY <3>1, <3>5 DEF RequestCheck
    <3>6. CASE ~r.active
      BY <1>5, <3>2, <3>6 DEF RequestCheck
    <3>7. QED
      BY <3>3, <3>4, <3>5, <3>6
  <2>2. SetChannel(r, c) \in T \cup Waiting(busy, known, whole)
    <3>1. Modify(r, [Op("cancel", r.channel, None) EXCEPT !.then = "setChannel", !.to = c])
            \in Waiting(busy, known, whole)
      BY <1>1, CheckTypes, CancelOp
    <3>2. QED
      BY <1>6, <3>1 DEF SetChannel
  <2>3. CancelCheck(r) \in T \cup Waiting(busy, known, whole)
    BY <1>1, CheckTypes, CancelOp DEF CancelCheck
  <2>4. QED
    BY <2>1, <2>2, <2>3
<1>8. QED
  BY <1>7 DEF CancelCheck

LEMMA InstanceTypes ==
    ASSUME NEW known, NEW whole
    PROVE /\ \A c \in Channels : NewInstance(c) \in Looping({FALSE}, known, whole)
          /\ \A r : r.wanted \in Channels =>
                /\ Gone(r) \in Stopped(known, whole)
                /\ [Gone(r) EXCEPT !.pc = "updated"] \in Stopped(known, whole)
<1>1. ASSUME NEW c \in Channels
      PROVE NewInstance(c) \in Looping({FALSE}, known, whole)
  BY NoDialogType DEF NewInstance, Looping, Threads
<1>2. ASSUME NEW r, r.wanted \in Channels
      PROVE /\ Gone(r) \in Stopped(known, whole)
            /\ [Gone(r) EXCEPT !.pc = "updated"] \in Stopped(known, whole)
  <2> DEFINE n == NewInstance(r.wanted)
  <2>1. n \in Looping({FALSE}, known, whole)
    BY <1>1, <1>2
  <2>2. Gone(r) = [n EXCEPT !.pc = "gone"]
    BY DEF Gone
  <2> HIDE DEF n
  <2>3. /\ [n EXCEPT !.pc = "gone"] \in Stopped(known, whole)
        /\ [[n EXCEPT !.pc = "gone"] EXCEPT !.pc = "updated"] \in Stopped(known, whole)
    BY <2>1 DEF Looping, Stopped, Threads
  <2>4. QED
    BY <2>2, <2>3
<1>3. QED
  BY <1>1, <1>2

Results == {"None", "StateBusy", "StateWriteFailed", "StateInvalid", "VerificationFailed"}

\* After its operation on the state file an instance is back in its loop, or has quit; it
\* has taken over the release it had accepted, if that was recorded.
LEMMA ContinueTypes ==
    ASSUME NEW busy \in SUBSET BOOLEAN, NEW known, NEW whole,
           NEW r \in Waiting(busy, known, whole) \cup Saving(busy, known, whole),
           NEW result \in Results,
           r.op.kind = "accept" /\ result = "None" => r.op.manifest \in known
    PROVE Continue(r, r.op, result, TRUE)
              \in Looping(busy, known, whole) \cup Stopped(known, whole)
<1> DEFINE T == Looping(busy, known, whole)
           op == r.op
           s == [r EXCEPT !.pc = "loop", !.op = None, !.loaded = None]
<1>1. /\ s \in T /\ s.wanted \in Channels /\ op \in Ops
      /\ r.channel \in Channels /\ r.manual \in BOOLEAN
  BY DEF Waiting, Saving, Looping, Threads
<1>2. /\ op.channel \in Channels /\ op.to \in Channels
      /\ op.manual \in BOOLEAN /\ op.skipped \in BOOLEAN
      /\ op.kind \in {"accept", "rejected", "failure", "cancel", "skip"}
      /\ op.then \in {"publish", "check", "setChannel", "quit"}
      /\ op.kind # "cancel" => op.then = "publish"
  BY <1>1 DEF Ops, OpsOf
<1> HIDE DEF op, s
<1>3. \A status \in CheckStatuses, present \in BOOLEAN : Publish(s, status, present) \in T
  BY <1>1, PublishTypes DEF Looping
<1>4. /\ Changed(s, op.to) \in T
      /\ StartCheck(Changed(s, op.to), TRUE, op.manual, TRUE) \in T
      /\ Publish(Changed(s, op.to), "Idle", FALSE) \in T
  <2>1. Changed(s, op.to) \in T
    BY <1>1, <1>2, CheckTypes
  <2>2. QED
    BY <2>1, <1>1, <1>2, CheckTypes, PublishTypes DEF Looping, CheckStatuses
<1>5. CASE op.then = "quit"
  <2>1. Continue(r, op, result, TRUE) = Gone(s)
    BY <1>2, <1>5 DEF Continue, s
  <2>2. QED
    BY <1>1, <2>1, InstanceTypes DEF op
<1>6. CASE op.then # "quit" /\ result # "None"
  <2>1. Continue(r, op, result, TRUE)
          = Publish(s, result, IF op.then \in {"check", "setChannel"} \/ op.kind = "skip"
                               THEN TRUE ELSE r.manual)
    BY <1>6 DEF Continue, s
  <2>2. result \in CheckStatuses
    BY <1>6 DEF Results, CheckStatuses
  <2>3. QED
    BY <1>1, <1>3, <2>1, <2>2 DEF op
<1>7. CASE op.then = "check" /\ result = "None"
  <2>1. Continue(r, op, result, TRUE) = StartCheck(Changed(s, op.to), TRUE, op.manual, TRUE)
    BY <1>2, <1>7 DEF Continue, s
  <2>2. QED
    BY <1>4, <2>1 DEF op
<1>8. CASE op.then = "setChannel" /\ result = "None"
  <2>1. Continue(r, op, result, TRUE) = Publish(Changed(s, op.to), "Idle", FALSE)
    BY <1>2, <1>8 DEF Continue, s
  <2>2. QED
    BY <1>4, <2>1 DEF op
<1>9. CASE op.then = "publish" /\ result = "None"
  <2>1. CASE op.kind = "accept"
    <3> DEFINE status == Decision(op.manifest)
               snap == [status |-> status, channel |-> r.channel, release |-> op.manifest,
                        present |-> r.manual \/ (~op.skipped /\ status = "Available")]
    <3>1. Continue(r, op, result, TRUE) = Emit([s EXCEPT !.snap = snap])
      BY <1>9, <2>1 DEF Continue, s
    <3>2. status \in {"Available", "UpToDate"}
      BY DEF Decision
    <3>3. op.manifest \in known
      BY <1>9, <2>1 DEF op
    <3> HIDE DEF status
    <3>4. snap \in Snapshots(known)
      BY <1>1, <1>2, <3>2, <3>3 DEF Snapshots
    <3> HIDE DEF snap
    <3>5. [s EXCEPT !.snap = snap] \in T
      BY <1>1, <3>4 DEF Looping, Threads
    <3>6. Emit([s EXCEPT !.snap = snap]) \in T
      BY <3>5, ShowTypes DEF Looping
    <3>7. QED
      BY <3>1, <3>6 DEF op
  <2>2. CASE op.kind \in {"failure", "rejected", "cancel"}
    <3>1. \E status \in {"NetworkError", "VerificationFailed", "Cancelled"} :
             Continue(r, op, result, TRUE) = Publish(s, status, r.manual)
      <4>1. CASE op.kind = "failure"
        BY <1>9, <4>1 DEF Continue, s
      <4>2. CASE op.kind = "rejected"
        BY <1>9, <4>2 DEF Continue, s
      <4>3. CASE op.kind = "cancel"
        BY <1>9, <4>3 DEF Continue, s
      <4>4. QED
        BY <2>2, <4>1, <4>2, <4>3
    <3>2. QED
      BY <1>1, <1>3, <3>1 DEF CheckStatuses, op
  <2>3. CASE op.kind = "skip"
    <3> DEFINE u == [s EXCEPT !.snap.present = FALSE]
               t == Emit(u)
               v == [t EXCEPT !.dialog = NoDialog, !.dismissed = @ \/ t.dialog.open]
    <3>1. Continue(r, op, result, TRUE) = v
      BY <1>9, <2>3 DEF Continue, s
    <3>2. u \in T
      BY <1>1 DEF Looping, Threads, Snapshots
    <3>3. t \in T
      BY <3>2, ShowTypes DEF Looping
    <3> HIDE DEF t
    <3>4. t.dismissed \in BOOLEAN /\ t.dialog.open \in BOOLEAN
      BY <3>3 DEF Looping, Threads, Dialogs
    <3>5. v \in T
      BY <3>3, <3>4, NoDialogType DEF Looping, Threads
    <3>6. QED
      BY <3>1, <3>5 DEF op
  <2>4. QED
    BY <1>2, <2>1, <2>2, <2>3
<1>10. QED
  BY <1>2, <1>5, <1>6, <1>7, <1>8, <1>9 DEF Results

-----------------------------------------------------------------------------
(* What the state file knows *)

\* A release is known when it, or a later one of its channel, was accepted.
KnownIn(f) ==
    {m \in Manifests : LET accepted == f[m.channel].accepted IN
        accepted # None /\ (accepted = Accepted(m) \/ accepted.seq > m.seq)}

WholeIn(cache) == {p \in Packages : cache[p] = "whole"}

Forward(f, g) ==
    \A c \in Channels :
        LET before == f[c].accepted
            after == g[c].accepted
        IN before # None => after = before \/ (after # None /\ after.seq > before.seq)

LEMMA KnownGrows ==
    ASSUME NEW f \in Files, NEW g \in Files, Forward(f, g)
    PROVE KnownIn(f) \subseteq KnownIn(g)
<1> SUFFICES ASSUME NEW m \in KnownIn(f) PROVE m \in KnownIn(g)
  OBVIOUS
<1> DEFINE before == f[m.channel].accepted
           after == g[m.channel].accepted
<1>1. /\ m \in Manifests /\ before # None
      /\ before = Accepted(m) \/ before.seq > m.seq
  BY DEF KnownIn
<1>2. m.channel \in Channels /\ m.seq \in Nat /\ m.digest \in Nat
  BY <1>1, UpdatesAssumption
<1>3. /\ before \in {None} \cup [seq : Nat, digest : Nat]
      /\ after \in {None} \cup [seq : Nat, digest : Nat]
  BY <1>2 DEF Files, Records
<1>4. after = before \/ (after # None /\ after.seq > before.seq)
  BY <1>1, <1>2 DEF Forward
<1>5. before.seq >= m.seq
  BY <1>1, <1>2, <1>3 DEF Accepted
<1>6. after # None /\ (after = Accepted(m) \/ after.seq > m.seq)
  BY <1>1, <1>2, <1>3, <1>4, <1>5
<1>7. QED
  BY <1>1, <1>6 DEF KnownIn

-----------------------------------------------------------------------------
(* The inductive invariant *)

Known == KnownIn(file)
Whole == WholeIn(cached)

Instance(busy) ==
    Looping(busy, Known, Whole) \cup Waiting(busy, Known, Whole)
    \cup Saving(busy, Known, Whole) \cup Stopped(Known, Whole)

\* The lock of the state file has one owner.
OneWriter ==
    \A i, j \in Instances : inst[i].pc = "saving" /\ inst[j].pc = "saving" => i = j

\* Whatever an instance shows, downloads or has downloaded is known to the state file,
\* what is verified lies whole in the cache, and who has the lock knows the file.
KnowsInv ==
    /\ file \in Files /\ clock \in Nat
    /\ cached \in [Packages -> {"none", "whole"}]
    /\ inst \in [Instances -> Instance(BOOLEAN)]
    /\ OneWriter

\* What an instance may say of an installation after a step that begins none.
Busy(i) == {inst[i].busy, FALSE}

LEMMA Wider ==
    ASSUME NEW pcs, NEW ops, NEW loadeds, NEW busy, NEW more, busy \subseteq more,
           NEW known, NEW known2, known \subseteq known2,
           NEW whole, NEW whole2, whole \subseteq whole2
    PROVE Threads(pcs, ops, loadeds, busy, known, whole)
             \subseteq Threads(pcs, ops, loadeds, more, known2, whole2)
<1>1. Snapshots(known) \subseteq Snapshots(known2)
  BY DEF Snapshots
<1>2. Loads(known, whole) \subseteq Loads(known2, whole2)
  BY DEF Loads
<1>3. Dialogs(known, whole) \subseteq Dialogs(known2, whole2)
  BY <1>1, <1>2 DEF Dialogs
<1>4. QED
  BY <1>1, <1>2, <1>3 DEF Threads

LEMMA Where ==
    ASSUME KnowsInv, NEW i \in Instances
    PROVE /\ inst[i] \in Instance(BOOLEAN)
          /\ Busy(i) \in SUBSET BOOLEAN
          /\ Loop(i) => inst[i] \in Looping(Busy(i), Known, Whole)
          /\ inst[i].pc = "modify" => inst[i] \in Waiting(Busy(i), Known, Whole)
          /\ inst[i].pc = "saving" => inst[i] \in Saving(Busy(i), Known, Whole)
          /\ inst[i].pc \in {"gone", "updated"} => inst[i] \in Stopped(Known, Whole)
          /\ inst[i].wanted \in Channels
<1>1. inst[i] \in Instance(BOOLEAN)
  BY DEF KnowsInv
<1>2. inst[i].pc \in {"loop", "modify", "saving", "gone", "updated"}
  BY <1>1 DEF Instance, Looping, Waiting, Saving, Stopped, Threads
<1>3. inst[i].busy \in BOOLEAN /\ inst[i].wanted \in Channels
  BY <1>1 DEF Instance, Looping, Waiting, Saving, Stopped, Threads
<1>4. Loop(i) => inst[i] \in Looping(Busy(i), Known, Whole)
  BY <1>1 DEF Loop, Busy, Instance, Looping, Waiting, Saving, Stopped, Threads
<1>5. inst[i].pc = "modify" => inst[i] \in Waiting(Busy(i), Known, Whole)
  BY <1>1 DEF Busy, Instance, Looping, Waiting, Saving, Stopped, Threads
<1>6. inst[i].pc = "saving" => inst[i] \in Saving(Busy(i), Known, Whole)
  BY <1>1 DEF Busy, Instance, Looping, Waiting, Saving, Stopped, Threads
<1>7. inst[i].pc \in {"gone", "updated"} => inst[i] \in Stopped(Known, Whole)
  BY <1>1 DEF Instance, Looping, Waiting, Saving, Stopped, Threads
<1>8. QED
  BY <1>1, <1>3, <1>4, <1>5, <1>6, <1>7 DEF Busy

\* A step of instance i that leaves it without the lock, while the file only goes forward
\* and the cache loses nothing.
Settles(i, busy) ==
    \E r \in Looping(busy, KnownIn(file'), WholeIn(cached'))
                \cup Waiting(busy, KnownIn(file'), WholeIn(cached'))
                \cup Stopped(KnownIn(file'), WholeIn(cached')) :
        Becomes(i, r)

LEMMA SettlesKeeps ==
    ASSUME KnowsInv, NEW i \in Instances, NEW busy \in SUBSET BOOLEAN, Settles(i, busy),
           clock' \in Nat, cached' \in [Packages -> {"none", "whole"}],
           Whole \subseteq WholeIn(cached'),
           file' \in Files, Forward(file, file'),
           file' = file \/ \A j \in Instances : inst[j].pc = "saving" => j = i
    PROVE /\ KnowsInv'
          /\ \A j \in Instances : ~inst[j].busy /\ inst'[j].busy => j = i /\ TRUE \in busy
<1> DEFINE known == KnownIn(file')
           whole == WholeIn(cached')
<1>1. PICK r \in Looping(busy, known, whole) \cup Waiting(busy, known, whole)
                   \cup Stopped(known, whole) : inst' = [inst EXCEPT ![i] = r]
  BY DEF Settles, Becomes
<1>2. Known \subseteq known
  BY KnownGrows DEF KnowsInv, Known
<1>3. ASSUME NEW j \in Instances, j # i PROVE inst[j] \in Instance(BOOLEAN)'
  <2>1. inst[j] \in Instance(BOOLEAN)
    BY DEF KnowsInv
  <2>2. /\ Looping(BOOLEAN, Known, Whole) \subseteq Looping(BOOLEAN, known, whole)
        /\ Waiting(BOOLEAN, Known, Whole) \subseteq Waiting(BOOLEAN, known, whole)
        /\ Stopped(Known, Whole) \subseteq Stopped(known, whole)
        /\ Threads({"saving"}, Ops, {file}, BOOLEAN, Known, Whole)
              \subseteq Threads({"saving"}, Ops, {file}, BOOLEAN, known, whole)
    BY <1>2, Wider DEF Looping, Waiting, Stopped
  <2>3. inst[j] \in Saving(BOOLEAN, Known, Whole) => file' = file
    BY <1>3 DEF Saving, Threads
  <2>4. QED
    BY <2>1, <2>2, <2>3 DEF Instance, Saving, Known, Whole, Looping, Waiting, Stopped
<1>4. r \in Instance(BOOLEAN)'
  <2>1. /\ Looping(busy, known, whole) \subseteq Looping(BOOLEAN, known, whole)
        /\ Waiting(busy, known, whole) \subseteq Waiting(BOOLEAN, known, whole)
    BY Wider DEF Looping, Waiting
  <2>2. QED
    BY <1>1, <2>1 DEF Instance, Known, Whole, Looping, Waiting, Stopped
<1>5. inst' \in [Instances -> Instance(BOOLEAN)']
  BY <1>1, <1>3, <1>4 DEF KnowsInv
<1>6. r.pc # "saving" /\ (r.busy \in busy \/ r.busy = FALSE)
  BY <1>1 DEF Looping, Waiting, Stopped, Threads
<1>7. OneWriter'
  BY <1>1, <1>6 DEF OneWriter, KnowsInv
<1>8. \A j \in Instances : ~inst[j].busy /\ inst'[j].busy => j = i /\ TRUE \in busy
  <2>1. inst \in [Instances -> Instance(BOOLEAN)]
    BY DEF KnowsInv
  <2>2. r.busy \in BOOLEAN
    BY <1>4 DEF Instance, Looping, Waiting, Saving, Stopped, Threads
  <2>3. r.busy => TRUE \in busy
    BY <1>6, <2>2
  <2>4. QED
    BY <1>1, <2>1, <2>3
<1>9. QED
  BY <1>5, <1>7, <1>8 DEF KnowsInv

\* Who begins to install has the last accepted release, and has it whole.
InstallsOnlyLatest ==
    \A i \in Instances : ~inst[i].busy /\ inst'[i].busy =>
        /\ file[inst[i].snap.channel].accepted = Accepted(inst[i].load.release)
        /\ cached[inst[i].load.release.package] = "whole"

StepIsGood == KnowsInv' /\ Forward(file, file') /\ InstallsOnlyLatest

LEMMA ForwardSame == \A f : Forward(f, f)
BY DEF Forward

\* Most steps change nothing but the record of one instance.
LEMMA QuietStep ==
    ASSUME KnowsInv, NEW i \in Instances, Settles(i, Busy(i)), UNCHANGED <<clock, file, cached>>
    PROVE StepIsGood
<1>1. Forward(file, file')
  BY ForwardSame
<1>2. TRUE \in Busy(i) => inst[i].busy
  BY DEF Busy
<1>3. Busy(i) \in SUBSET BOOLEAN
  BY Where
<1>4. /\ KnowsInv'
      /\ \A j \in Instances : ~inst[j].busy /\ inst'[j].busy => j = i /\ TRUE \in Busy(i)
  <2>1. /\ clock' \in Nat /\ cached' \in [Packages -> {"none", "whole"}] /\ file' \in Files
        /\ Whole \subseteq WholeIn(cached')
    BY DEF KnowsInv, Whole, WholeIn
  <2>2. QED
    BY <1>1, <1>3, <2>1, SettlesKeeps
<1>5. QED
  BY <1>1, <1>2, <1>4 DEF StepIsGood, InstallsOnlyLatest

\* It is enough to name the record.
LEMMA QuietRecord ==
    ASSUME KnowsInv, NEW i \in Instances,
           NEW r \in Looping(Busy(i), Known, Whole) \cup Waiting(Busy(i), Known, Whole)
                        \cup Stopped(Known, Whole),
           Becomes(i, r), UNCHANGED <<clock, file, cached>>
    PROVE StepIsGood
<1>1. Known = KnownIn(file') /\ Whole = WholeIn(cached')
  BY DEF Known, Whole
<1>2. Settles(i, Busy(i))
  BY <1>1 DEF Settles
<1>3. QED
  BY <1>2, QuietStep

LEMMA PollStep ==
    ASSUME KnowsInv, NEW i \in Instances, Poll(i)
    PROVE StepIsGood
<1>1. inst[i] \in Looping(Busy(i), Known, Whole) /\ Busy(i) \in SUBSET BOOLEAN
  BY Where DEF Poll
<1>2. inst[i].channel \in Channels
  BY <1>1 DEF Looping, Threads
<1>3. PICK read \in BOOLEAN : Becomes(i, RequestCheck(inst[i], inst[i].channel, FALSE, read))
  BY DEF Poll
<1>4. RequestCheck(inst[i], inst[i].channel, FALSE, read)
        \in Looping(Busy(i), Known, Whole) \cup Waiting(Busy(i), Known, Whole)
  BY <1>1, <1>2, RequestTypes
<1>5. QED
  BY <1>3, <1>4, QuietRecord DEF Poll

LEMMA ReceiveStep ==
    ASSUME KnowsInv, NEW i \in Instances, Receive(i)
    PROVE StepIsGood
<1> DEFINE T == Looping(Busy(i), Known, Whole)
           r == [inst[i] EXCEPT !.active = FALSE, !.fetching = FALSE]
           record == file[r.channel]
           op(m) == [Op("accept", r.channel, m) EXCEPT !.skipped = record.skipped = m.release]
<1>1. inst[i] \in T /\ Busy(i) \in SUBSET BOOLEAN
  BY Where DEF Receive
<1>2. r \in T
  BY <1>1 DEF Looping, Threads
<1>3. \/ Becomes(i, Publish(r, "StateInvalid", r.manual))
      \/ \E m \in Manifests : m.channel = r.channel /\ Becomes(i, Modify(r, op(m)))
      \/ Becomes(i, Modify(r, Op("rejected", r.channel, None)))
  BY DEF Receive, Verified
<1>4. UNCHANGED <<clock, file, cached>>
  BY DEF Receive
<1> HIDE DEF r
<1>5. r.channel \in Channels /\ r.manual \in BOOLEAN
  BY <1>2 DEF Looping, Threads
<1>6. CASE Becomes(i, Publish(r, "StateInvalid", r.manual))
  <2>1. Publish(r, "StateInvalid", r.manual) \in T
    BY <1>1, <1>2, <1>5, PublishTypes DEF Looping, CheckStatuses
  <2>2. QED
    BY <1>4, <1>6, <2>1, QuietRecord
<1>7. ASSUME NEW m \in Manifests, m.channel = r.channel, Becomes(i, Modify(r, op(m)))
      PROVE StepIsGood
  <2>1. op(m) \in {o \in OpsOf({"accept"}, Manifests, {"publish"}) : o.manifest.channel = o.channel}
    BY <1>5, <1>7 DEF Op, OpsOf
  <2>2. op(m) \in Ops
    BY <2>1 DEF Ops
  <2> HIDE DEF op
  <2>3. Modify(r, op(m)) \in Waiting(Busy(i), Known, Whole)
    BY <1>1, <1>2, <1>5, <2>2, CheckTypes
  <2>4. QED
    BY <1>4, <1>7, <2>3, QuietRecord
<1>8. CASE Becomes(i, Modify(r, Op("rejected", r.channel, None)))
  <2>1. Modify(r, Op("rejected", r.channel, None)) \in Waiting(Busy(i), Known, Whole)
    BY <1>1, <1>2, <1>5, CancelOp, CheckTypes
  <2>2. QED
    BY <1>4, <1>8, <2>1, QuietRecord
<1>9. QED
  BY <1>3, <1>6, <1>7, <1>8

LEMMA FetchFailsStep ==
    ASSUME KnowsInv, NEW i \in Instances, FetchFails(i)
    PROVE StepIsGood
<1>1. inst[i] \in Looping(Busy(i), Known, Whole) /\ Busy(i) \in SUBSET BOOLEAN
  BY Where DEF FetchFails
<1>2. inst[i].channel \in Channels
  BY <1>1 DEF Looping, Threads
<1>3. Modify(inst[i], Op("failure", inst[i].channel, None)) \in Waiting(Busy(i), Known, Whole)
  BY <1>1, <1>2, CancelOp, CheckTypes
<1>4. QED
  BY <1>3, QuietRecord DEF FetchFails

\* The lock is taken by one, and what it reads is the file.
LEMMA TryLockStep ==
    ASSUME KnowsInv, NEW i \in Instances, TryLock(i)
    PROVE StepIsGood
<1>1. inst[i] \in Waiting(Busy(i), Known, Whole) /\ Busy(i) \in SUBSET BOOLEAN
  BY Where DEF TryLock
<1>2. UNCHANGED <<clock, file, cached>>
  BY DEF TryLock
<1>3. CASE /\ \A j \in Instances : inst[j].pc # "saving"
           /\ Becomes(i, [inst[i] EXCEPT !.pc = "saving", !.loaded = file])
  <2> DEFINE r == [inst[i] EXCEPT !.pc = "saving", !.loaded = file]
  <2>1. r \in Saving(Busy(i), Known, Whole)
    BY <1>1 DEF Waiting, Saving, Threads
  <2>2. Saving(Busy(i), Known, Whole) \subseteq Saving(BOOLEAN, Known, Whole)
    BY <1>1, Wider DEF Saving
  <2>3. r \in Instance(BOOLEAN)
    BY <2>1, <2>2 DEF Instance
  <2>4. r.pc = "saving" /\ r.busy = inst[i].busy
    BY <1>1 DEF Waiting, Threads
  <2> HIDE DEF r
  <2>5. inst' = [inst EXCEPT ![i] = r]
    BY <1>3 DEF Becomes, r
  <2>6. inst \in [Instances -> Instance(BOOLEAN)]
    BY DEF KnowsInv
  <2>7. inst' \in [Instances -> Instance(BOOLEAN)]
    BY <2>3, <2>5, <2>6
  <2>8. Instance(BOOLEAN)' = Instance(BOOLEAN)
    BY <1>2 DEF Instance, Saving, Known, Whole, Looping, Waiting, Stopped
  <2>9. OneWriter'
    BY <1>3, <2>5, <2>6 DEF OneWriter
  <2>10. InstallsOnlyLatest
    BY <2>4, <2>5, <2>6 DEF InstallsOnlyLatest
  <2>11. QED
    BY <1>2, <2>7, <2>8, <2>9, <2>10, ForwardSame DEF StepIsGood, KnowsInv
<1>4. ASSUME NEW result \in {"StateBusy", "StateWriteFailed", "StateInvalid"},
             Becomes(i, Continue(inst[i], inst[i].op, result, TRUE))
      PROVE StepIsGood
  <2>1. Continue(inst[i], inst[i].op, result, TRUE)
          \in Looping(Busy(i), Known, Whole) \cup Stopped(Known, Whole)
    BY <1>1, ContinueTypes DEF Results
  <2>2. QED
    BY <1>2, <1>4, <2>1, QuietRecord
<1>5. QED
  BY <1>3, <1>4 DEF TryLock

\* What an operation makes of a channel's record: the accepted release stays, or gives way
\* to a later one, or to itself.
LEMMA OperationForward ==
    ASSUME NEW record \in Records, NEW op \in Ops, clock \in Nat, ~Refused(record, op)
    PROVE /\ AfterOp(record, op) \in Records
          /\ LET after == AfterOp(record, op).accepted IN
             /\ record.accepted # None =>
                   after = record.accepted \/ (after # None /\ after.seq > record.accepted.seq)
             /\ op.kind = "accept" => after = Accepted(op.manifest)
<1>1. op.kind \in {"accept", "rejected", "failure", "cancel", "skip"}
  BY DEF Ops, OpsOf
<1>2. Day \in Nat /\ CancelDelay \in Nat /\ \A n \in 1..4 : Delays[n] \in Nat
  BY UpdatesAssumption
<1>3. CASE op.kind = "accept"
  <2> DEFINE m == op.manifest
  <2>1. m \in Manifests
    BY <1>3 DEF Ops, OpsOf
  <2>2. m.seq \in Nat /\ m.digest \in Nat
    BY <2>1, UpdatesAssumption
  <2>3. AfterOp(record, op) = [record EXCEPT !.accepted = Accepted(m), !.next = clock + Day,
                                             !.failures = 0]
    BY <1>3 DEF AfterOp
  <2>4. record.accepted = None \/ (record.accepted.seq <= m.seq
                                    /\ (record.accepted.seq = m.seq => record.accepted.digest = m.digest))
    BY <1>3, <2>2 DEF Refused, Conflicts, Records
  <2> HIDE DEF m
  <2>5. Accepted(m) \in [seq : Nat, digest : Nat]
    BY <2>2 DEF Accepted
  <2>6. Accepted(m) # None
    BY <2>5, UpdatesAssumption
  <2> DEFINE next == clock + Day
             accepted == Accepted(m)
  <2>7. AfterOp(record, op) \in Records /\ AfterOp(record, op).accepted = Accepted(m)
    <3>1. next \in Nat /\ accepted \in [seq : Nat, digest : Nat]
      BY <1>2, <2>5
    <3>2. AfterOp(record, op)
            = [record EXCEPT !.accepted = accepted, !.next = next, !.failures = 0]
      BY <2>3
    <3>3. AfterOp(record, op).accepted = accepted
      BY <3>2 DEF Records
    <3> DEFINE payloads == {None} \cup [seq : Nat, digest : Nat]
    <3>4. Records = [accepted : payloads, next : Nat, failures : 0..4, skipped : Nat]
      BY DEF Records
    <3>5. accepted \in payloads /\ 0 \in 0..4
      BY <3>1
    <3> HIDE DEF next, accepted, payloads
    <3>6. AfterOp(record, op) \in Records
      BY <3>1, <3>2, <3>4, <3>5
    <3>7. QED
      BY <3>3, <3>6 DEF accepted
  <2>8. record.accepted # None =>
           Accepted(m) = record.accepted \/ Accepted(m).seq > record.accepted.seq
    BY <2>2, <2>4 DEF Accepted, Records
  <2>9. QED
    BY <2>6, <2>7, <2>8 DEF m
<1>4. CASE op.kind \in {"failure", "rejected"}
  <2> DEFINE n == IF record.failures < 4 THEN record.failures + 1 ELSE 4
  <2>1. n \in 1..4
    BY DEF Records
  <2>2. AfterOp(record, op) = [record EXCEPT !.failures = n, !.next = clock + Delays[n]]
    BY <1>4 DEF AfterOp
  <2> DEFINE next == clock + Delays[n]
  <2>3. next \in Nat /\ n \in 0..4
    BY <1>2, <2>1
  <2>4. AfterOp(record, op) = [record EXCEPT !.failures = n, !.next = next]
    BY <2>2
  <2> HIDE DEF n, next
  <2>5. AfterOp(record, op) \in Records /\ AfterOp(record, op).accepted = record.accepted
    BY <2>3, <2>4 DEF Records
  <2>6. QED
    BY <1>4, <2>5
<1>5. CASE op.kind = "cancel"
  <2>1. AfterOp(record, op) = [record EXCEPT !.next = clock + CancelDelay]
    BY <1>5 DEF AfterOp
  <2>2. QED
    BY <1>2, <1>5, <2>1 DEF Records
<1>6. CASE op.kind = "skip"
  <2>1. AfterOp(record, op) = [record EXCEPT !.skipped = op.manifest.release]
    BY <1>6 DEF AfterOp
  <2>2. op.manifest \in Manifests
    BY <1>6 DEF Ops, OpsOf
  <2>3. op.manifest.release \in Nat
    BY <2>2, UpdatesAssumption
  <2>4. QED
    BY <1>6, <2>1, <2>3 DEF Records
<1>7. QED
  BY <1>1, <1>3, <1>4, <1>5, <1>6

LEMMA CommitStep ==
    ASSUME KnowsInv, NEW i \in Instances, Commit(i)
    PROVE StepIsGood
<1> DEFINE op == inst[i].op
<1>1. inst[i] \in Saving(Busy(i), Known, Whole) /\ Busy(i) \in SUBSET BOOLEAN
  BY Where DEF Commit
<1>2. op \in Ops /\ inst[i].loaded = file /\ inst[i].pc = "saving"
  BY <1>1 DEF Saving, Threads
<1>3. UNCHANGED <<clock, cached>>
  BY DEF Commit
<1>4. op.channel \in Channels
  BY <1>2 DEF Ops, OpsOf
<1> HIDE DEF op
<1>5. ASSUME NEW result \in {"VerificationFailed", "StateWriteFailed"}, UNCHANGED file,
             Becomes(i, Continue(inst[i], op, result, TRUE))
      PROVE StepIsGood
  <2>1. Continue(inst[i], inst[i].op, result, TRUE)
          \in Looping(Busy(i), Known, Whole) \cup Stopped(Known, Whole)
    BY <1>1, ContinueTypes DEF Results
  <2>2. QED
    BY <1>3, <1>5, <2>1, QuietRecord DEF op
<1>6. ASSUME ~Refused(file[op.channel], op),
             file' = [file EXCEPT ![op.channel] = AfterOp(@, op)],
             Becomes(i, Continue(inst[i], op, "None", TRUE))
      PROVE StepIsGood
  <2> DEFINE c == op.channel
             known == KnownIn(file')
             after == AfterOp(file[c], op)
  <2>1. file \in Files /\ file[c] \in Records /\ clock \in Nat
    BY <1>4 DEF KnowsInv, Files
  <2>2. /\ after \in Records
        /\ file[c].accepted # None =>
              after.accepted = file[c].accepted
              \/ (after.accepted # None /\ after.accepted.seq > file[c].accepted.seq)
        /\ op.kind = "accept" => after.accepted = Accepted(op.manifest)
    BY <1>2, <1>6, <2>1, OperationForward
  <2>3. file' = [file EXCEPT ![c] = after]
    BY <1>6
  <2> HIDE DEF after
  <2>4. file' \in Files /\ Forward(file, file')
    BY <1>4, <2>1, <2>2, <2>3 DEF Files, Forward
  <2>5. Known \subseteq known
    BY <2>1, <2>4, KnownGrows DEF Known
  <2>6. op.kind = "accept" => op.manifest \in known
    <3>1. SUFFICES ASSUME op.kind = "accept" PROVE op.manifest \in known
      OBVIOUS
    <3>2. op.manifest \in Manifests /\ op.manifest.channel = c
      BY <1>2, <3>1 DEF Ops, OpsOf
    <3>3. file'[c].accepted = Accepted(op.manifest)
      BY <1>4, <2>1, <2>2, <2>3, <3>1 DEF Files
    <3>4. Accepted(op.manifest) # None
      BY <3>2, UpdatesAssumption DEF Accepted
    <3>5. QED
      BY <3>2, <3>3, <3>4 DEF KnownIn
  <2>7. inst[i] \in Saving(Busy(i), known, Whole)
    BY <1>1, <2>5, Wider DEF Saving
  <2>8. Continue(inst[i], inst[i].op, "None", TRUE)
          \in Looping(Busy(i), known, Whole) \cup Stopped(known, Whole)
    BY <1>1, <2>6, <2>7, ContinueTypes DEF Results, op
  <2>9. WholeIn(cached') = Whole
    BY <1>3 DEF Whole
  <2>10. Settles(i, Busy(i))
    BY <1>6, <2>8, <2>9 DEF Settles, op
  <2>11. \A j \in Instances : inst[j].pc = "saving" => j = i
    BY <1>2 DEF KnowsInv, OneWriter
  <2>12. /\ KnowsInv'
         /\ \A j \in Instances : ~inst[j].busy /\ inst'[j].busy => j = i /\ TRUE \in Busy(i)
    <3>1. clock' \in Nat /\ cached' \in [Packages -> {"none", "whole"}]
      BY <1>3 DEF KnowsInv
    <3>2. QED
      BY <1>1, <2>4, <2>9, <2>10, <2>11, <3>1, SettlesKeeps
  <2>13. TRUE \in Busy(i) => inst[i].busy
    BY DEF Busy
  <2>14. QED
    BY <2>4, <2>12, <2>13 DEF StepIsGood, InstallsOnlyLatest
<1>7. QED
  BY <1>2, <1>5, <1>6 DEF Commit, op

\* The package gets its name when it is whole.
LEMMA LoadEndsStep ==
    ASSUME KnowsInv, NEW i \in Instances, LoadEnds(i)
    PROVE StepIsGood
<1> DEFINE r == inst[i]
<1>1. r \in Looping(Busy(i), Known, Whole) /\ Busy(i) \in SUBSET BOOLEAN
  BY Where DEF LoadEnds
<1>2. UNCHANGED <<clock, file>>
  BY DEF LoadEnds
<1>3. CASE Becomes(i, LoadFailed(r)) /\ UNCHANGED cached
  <2>1. LoadFailed(r) \in Looping(Busy(i), Known, Whole)
    BY <1>1, LoadTypes DEF Looping
  <2>2. QED
    BY <1>2, <1>3, <2>1, QuietRecord
<1>4. CASE /\ cached' = [cached EXCEPT ![r.load.release.package] = "whole"]
           /\ Becomes(i, Loaded(r))
  <2> DEFINE m == r.load.release
             whole == WholeIn(cached')
  <2>1. r.load \in Loads(Known, Whole) /\ r.load.status = "Downloading"
    BY <1>1 DEF LoadEnds, Looping, Threads
  <2>2. m \in Known
    BY <2>1 DEF Loads
  <2>3. m \in Manifests
    BY <2>2 DEF Known, KnownIn
  <2>4. m.package \in Packages
    BY <2>3, UpdatesAssumption
  <2>5. /\ cached' \in [Packages -> {"none", "whole"}]
        /\ Whole \subseteq whole /\ m.package \in whole
    BY <1>4, <2>4 DEF KnowsInv, Whole, WholeIn
  <2> HIDE DEF m
  <2>6. r \in Looping(Busy(i), Known, whole)
    BY <1>1, <2>5, Wider DEF Looping
  <2>7. [r.load EXCEPT !.status = "Verified"] \in Loads(Known, whole)
    BY <2>1, <2>2, <2>5 DEF Loads, m
  <2>8. NoLoad("Unavailable") \in Loads(Known, whole)
    BY NoDialogType
  <2>9. Abandon(r) \in Looping(Busy(i), Known, whole)
    BY <1>1, <2>6, LoadTypes DEF Looping
  <2>10. Loaded(r) \in Looping(Busy(i), Known, whole)
    BY <1>1, <2>7, <2>8, <2>9, LoadTypes DEF Loaded, Looping
  <2>11. KnownIn(file') = Known
    BY <1>2 DEF Known
  <2>12. Settles(i, Busy(i))
    BY <1>4, <2>10, <2>11 DEF Settles
  <2>13. /\ KnowsInv'
         /\ \A j \in Instances : ~inst[j].busy /\ inst'[j].busy => j = i /\ TRUE \in Busy(i)
    <3>1. clock' \in Nat /\ file' \in Files /\ Forward(file, file')
      BY <1>2, ForwardSame DEF KnowsInv
    <3>2. QED
      BY <1>1, <1>2, <2>5, <2>12, <3>1, SettlesKeeps
  <2>14. TRUE \in Busy(i) => inst[i].busy
    BY DEF Busy
  <2>15. QED
    BY <1>2, <2>13, <2>14, ForwardSame DEF StepIsGood, InstallsOnlyLatest
<1>5. QED
  BY <1>3, <1>4 DEF LoadEnds

LEMMA ChunkStep ==
    ASSUME KnowsInv, NEW i \in Instances, Chunk(i)
    PROVE StepIsGood
<1> DEFINE r == inst[i]
<1>1. r \in Looping(Busy(i), Known, Whole) /\ Busy(i) \in SUBSET BOOLEAN
  BY Where DEF Chunk
<1>2. PICK good \in BOOLEAN :
         Becomes(i, IF r.got = PackageSize THEN LoadFailed(r)
                    ELSE [r EXCEPT !.got = @ + 1, !.good = @ /\ good])
  BY DEF Chunk
<1>3. LoadFailed(r) \in Looping(Busy(i), Known, Whole)
  BY <1>1, LoadTypes DEF Looping
<1>4. [r EXCEPT !.got = @ + 1, !.good = @ /\ good] \in Looping(Busy(i), Known, Whole)
  <2> DEFINE got == r.got + 1
             whole == r.good /\ good
  <2>1. got \in Nat /\ whole \in BOOLEAN
    BY <1>1 DEF Looping, Threads
  <2>2. [r EXCEPT !.got = @ + 1, !.good = @ /\ good] = [r EXCEPT !.got = got, !.good = whole]
    OBVIOUS
  <2> HIDE DEF got, whole
  <2>3. QED
    BY <1>1, <2>1, <2>2 DEF Looping, Threads
<1>5. QED
  BY <1>1, <1>2, <1>3, <1>4, QuietRecord DEF Chunk

-----------------------------------------------------------------------------
(* What the users do *)

\* An installation that fails, and a dialog that is left, begin no installation.
LEMMA LeaveTypes ==
    ASSUME NEW busy \in SUBSET BOOLEAN, FALSE \in busy, NEW known, NEW whole,
           NEW r \in Looping(busy, known, whole)
    PROVE /\ InstallFailed(r) \in Looping(busy, known, whole)
          /\ Leave(r) \in Looping(busy, known, whole) \cup Waiting(busy, known, whole)
<1> DEFINE T == Looping(busy, known, whole)
<1>1. InstallFailed(r) \in T
  <2> DEFINE s == [r EXCEPT !.busy = FALSE]
  <2>1. s \in T
    BY DEF Looping, Threads
  <2>2. Capability(s) \in BOOLEAN
    BY <2>1, LoadTypes DEF Looping
  <2>3. \A e \in BOOLEAN :
           [s EXCEPT !.dialog.handoff = "Failed", !.dialog.execution = e] \in T
    BY <2>1 DEF Looping, Threads, Dialogs
  <2>4. QED
    BY <2>1, <2>2, <2>3 DEF InstallFailed
<1>2. Leave(r) \in T \cup Waiting(busy, known, whole)
  <2> DEFINE s == [r EXCEPT !.dialog = NoDialog, !.dismissed = TRUE]
             loaded == IF r.dialog.load.status = "Downloading" THEN CancelDownload(s) ELSE s
  <2>1. s \in T
    BY NoDialogType DEF Looping, Threads
  <2>2. loaded \in T
    BY <2>1, LoadTypes DEF Looping
  <2>3. Leave(r) = IF r.dialog.check.status = "Checking" /\ r.dialog.check.present
                   THEN CancelCheck(loaded) ELSE loaded
    BY DEF Leave
  <2> HIDE DEF loaded
  <2>4. loaded.channel \in Channels
    BY <2>2 DEF Looping, Threads
  <2>5. CancelCheck(loaded) \in T \cup Waiting(busy, known, whole)
    BY <2>2, <2>4, RequestTypes
  <2>6. QED
    BY <2>2, <2>3, <2>5
<1>3. QED
  BY <1>1, <1>2

LEMMA InstallEndsStep ==
    ASSUME KnowsInv, NEW i \in Instances, InstallEnds(i)
    PROVE StepIsGood
<1>1. inst[i] \in Looping(Busy(i), Known, Whole) /\ Busy(i) \in SUBSET BOOLEAN
  BY Where DEF InstallEnds
<1>2. inst[i].wanted \in Channels /\ FALSE \in Busy(i)
  BY <1>1 DEF Looping, Threads, Busy
<1>3. /\ [Gone(inst[i]) EXCEPT !.pc = "updated"] \in Stopped(Known, Whole)
      /\ InstallFailed(inst[i]) \in Looping(Busy(i), Known, Whole)
  BY <1>1, <1>2, InstanceTypes, LeaveTypes
<1>4. QED
  BY <1>3, QuietRecord DEF InstallEnds

LEMMA ManualCheckStep ==
    ASSUME KnowsInv, NEW i \in Instances, ManualCheck(i)
    PROVE StepIsGood
<1> DEFINE T == Looping(Busy(i), Known, Whole)
           d == [Invalidate(inst[i]) EXCEPT !.dismissed = FALSE]
           r == Show(d)
<1>1. inst[i] \in T /\ Busy(i) \in SUBSET BOOLEAN
  BY Where DEF ManualCheck
<1>2. Invalidate(inst[i]) \in T
  BY <1>1, LoadTypes DEF Looping
<1>3. d \in T
  BY <1>2 DEF Looping, Threads
<1>4. r \in T
  BY <1>1, <1>3, ShowTypes DEF Looping
<1>5. PICK read \in BOOLEAN : Becomes(i, RequestCheck(r, r.wanted, TRUE, read))
  BY DEF ManualCheck
<1> HIDE DEF r
<1>6. r.wanted \in Channels
  BY <1>4 DEF Looping, Threads
<1>7. RequestCheck(r, r.wanted, TRUE, read) \in T \cup Waiting(Busy(i), Known, Whole)
  BY <1>1, <1>4, <1>6, RequestTypes
<1>8. QED
  BY <1>5, <1>7, QuietRecord DEF ManualCheck

\* What is downloaded is what the check service has found, and that is known.
LEMMA DownloadStep ==
    ASSUME KnowsInv, NEW i \in Instances, Download(i)
    PROVE StepIsGood
<1> DEFINE T == Looping(Busy(i), Known, Whole)
           r == inst[i]
           m == r.snap.release
<1>1. r \in T /\ Busy(i) \in SUBSET BOOLEAN
  BY Where DEF Download
<1>2. \A load \in Loads(Known, Whole) : WithLoad(r, load) \in T
  BY <1>1, LoadTypes DEF Looping
<1>3. NoLoad("Unavailable") \in Loads(Known, Whole)
  BY NoDialogType
<1>4. LoadFailed(r) \in T
  BY <1>1, LoadTypes DEF Looping
<1>5. r.snap.status = "Available" =>
         [status |-> "Downloading", release |-> m] \in Loads(Known, Whole)
  <2>1. r.snap \in Snapshots(Known)
    BY <1>1 DEF Looping, Threads
  <2>2. r.snap.status = "Available" => m \in Known
    BY <2>1 DEF Snapshots, CheckStatuses
  <2>3. QED
    BY <2>2 DEF Loads
<1>6. \/ Becomes(i, WithLoad(r, NoLoad("Unavailable")))
      \/ Becomes(i, LoadFailed(r))
      \/ /\ r.snap.status = "Available"
         /\ Becomes(i, WithLoad(r, [status |-> "Downloading", release |-> m]))
  BY DEF Download
<1>7. QED
  BY <1>2, <1>3, <1>4, <1>5, <1>6, QuietRecord DEF Download

\* The selection is judged again by the file: it is the last accepted one.
LEMMA InstallStep ==
    ASSUME KnowsInv, NEW i \in Instances, Install(i)
    PROVE StepIsGood
<1> DEFINE r == inst[i]
<1>1. r \in Looping(Busy(i), Known, Whole) /\ Busy(i) \in SUBSET BOOLEAN /\ FALSE \in Busy(i)
  BY Where DEF Install, Busy
<1>2. UNCHANGED <<clock, file, cached>>
  BY DEF Install
<1>3. CASE Becomes(i, InstallFailed(r))
  BY <1>1, <1>2, <1>3, LeaveTypes, QuietRecord
<1>4. CASE Valid(r) /\ Becomes(i, [r EXCEPT !.busy = TRUE, !.dialog.handoff = "Preparing"])
  <2> DEFINE t == [r EXCEPT !.busy = TRUE, !.dialog.handoff = "Preparing"]
             m == r.load.release
             c == r.snap.channel
             accepted == file[c].accepted
  <2>1. t \in Looping(BOOLEAN, Known, Whole)
    BY <1>1 DEF Looping, Threads, Dialogs
  <2>2. /\ r.load.status = "Verified" /\ accepted # None
        /\ m.channel = c /\ ~Conflicts(m, accepted)
    BY <1>4 DEF Valid, Verified
  <2>3. m \in Known /\ m.package \in Whole
    <3>1. r.load \in Loads(Known, Whole)
      BY <1>1 DEF Looping, Threads
    <3>2. QED
      BY <2>2, <3>1 DEF Loads
  <2>4. /\ m \in Manifests
        /\ accepted = Accepted(m) \/ accepted.seq > m.seq
    BY <2>2, <2>3 DEF Known, KnownIn
  <2>5. m.seq \in Nat /\ c \in Channels
    BY <2>2, <2>4, UpdatesAssumption
  <2>6. accepted \in {None} \cup [seq : Nat, digest : Nat]
    BY <2>5 DEF KnowsInv, Files, Records
  <2>7. accepted = Accepted(m)
    BY <2>2, <2>4, <2>5, <2>6 DEF Conflicts
  <2>8. cached[m.package] = "whole"
    BY <2>3 DEF Whole, WholeIn
  <2>9. KnownIn(file') = Known /\ WholeIn(cached') = Whole
    BY <1>2 DEF Known, Whole
  <2>10. Settles(i, BOOLEAN)
    BY <1>4, <2>1, <2>9 DEF Settles
  <2>11. /\ KnowsInv'
         /\ \A j \in Instances : ~inst[j].busy /\ inst'[j].busy => j = i
    <3>1. /\ clock' \in Nat /\ cached' \in [Packages -> {"none", "whole"}] /\ file' \in Files
          /\ Forward(file, file')
      BY <1>2, ForwardSame DEF KnowsInv
    <3>2. QED
      BY <1>2, <2>9, <2>10, <3>1, SettlesKeeps
  <2>12. QED
    BY <1>2, <2>7, <2>8, <2>11, ForwardSame DEF StepIsGood, InstallsOnlyLatest
<1>5. QED
  BY <1>3, <1>4 DEF Install

LEMMA LeaveSteps ==
    ASSUME KnowsInv, NEW i \in Instances, Reject(i) \/ ParentCloses(i) \/ Cancel(i)
    PROVE StepIsGood
<1> DEFINE T == Looping(Busy(i), Known, Whole)
           W == Waiting(Busy(i), Known, Whole)
           r == inst[i]
<1>1. r \in T /\ Busy(i) \in SUBSET BOOLEAN /\ FALSE \in Busy(i)
  BY Where DEF Reject, ParentCloses, Cancel, Busy
<1>2. UNCHANGED <<clock, file, cached>>
  BY DEF Reject, ParentCloses, Cancel
<1>3. InstallFailed(r) \in T
  BY <1>1, LeaveTypes
<1>4. Leave(r) \in T \cup W /\ Leave(InstallFailed(r)) \in T \cup W
  BY <1>1, <1>3, LeaveTypes
<1>5. CancelDownload(r) \in T
  BY <1>1, LoadTypes DEF Looping
<1>6. CancelCheck(r) \in T \cup W
  <2>1. r.channel \in Channels
    BY <1>1 DEF Looping, Threads
  <2>2. QED
    BY <1>1, <2>1, RequestTypes
<1>7. CASE Reject(i)
  BY <1>2, <1>3, <1>4, <1>7, QuietRecord DEF Reject
<1>8. CASE ParentCloses(i)
  BY <1>2, <1>4, <1>8, QuietRecord DEF ParentCloses
<1>9. CASE Cancel(i)
  <2>1. \/ Becomes(i, InstallFailed(r)) \/ Becomes(i, CancelDownload(r))
        \/ Becomes(i, CancelCheck(r))
    BY <1>9 DEF Cancel
  <2>2. QED
    BY <1>2, <1>3, <1>5, <1>6, <2>1, QuietRecord
<1>10. QED
  BY <1>7, <1>8, <1>9

LEMMA SkipStep ==
    ASSUME KnowsInv, NEW i \in Instances, Skip(i)
    PROVE StepIsGood
<1> DEFINE T == Looping(Busy(i), Known, Whole)
           W == Waiting(Busy(i), Known, Whole)
           r == inst[i]
           s == Invalidate(r)
           op == Op("skip", r.snap.channel, r.snap.release)
<1>1. r \in T /\ Busy(i) \in SUBSET BOOLEAN /\ FALSE \in Busy(i)
  BY Where DEF Skip, Busy
<1>2. s \in T
  BY <1>1, LoadTypes DEF Looping
<1>3. Leave(s) \in T \cup W
  BY <1>1, <1>2, LeaveTypes
<1>4. r.snap.release # None => [s EXCEPT !.pc = "modify", !.op = op] \in W
  <2>1. SUFFICES ASSUME r.snap.release # None
                 PROVE [s EXCEPT !.pc = "modify", !.op = op] \in W
    OBVIOUS
  <2>2. r.snap \in Snapshots(Known)
    BY <1>1 DEF Looping, Threads
  <2>3. r.snap.channel \in Channels /\ r.snap.release \in Manifests
    BY <2>1, <2>2 DEF Snapshots, Known, KnownIn
  <2>4. op \in OpsOf({"skip"}, Manifests, {"publish"})
    BY <2>3 DEF Op, OpsOf
  <2>5. op \in Ops
    BY <2>4 DEF Ops
  <2> HIDE DEF op, s
  <2>6. QED
    BY <1>2, <2>5 DEF Looping, Waiting, Threads
<1>5. \/ Becomes(i, s) \/ Becomes(i, Leave(s))
      \/ r.snap.release # None /\ Becomes(i, [s EXCEPT !.pc = "modify", !.op = op])
  BY DEF Skip
<1>6. UNCHANGED <<clock, file, cached>>
  BY DEF Skip
<1> HIDE DEF s, op
<1>7. QED
  BY <1>2, <1>3, <1>4, <1>5, <1>6, QuietRecord

LEMMA ChangeChannelStep ==
    ASSUME KnowsInv, NEW i \in Instances, ChangeChannel(i)
    PROVE StepIsGood
<1> DEFINE T == Looping(Busy(i), Known, Whole)
<1>1. inst[i] \in T /\ Busy(i) \in SUBSET BOOLEAN
  BY Where DEF ChangeChannel
<1>2. PICK c \in Channels :
         LET r == [inst[i] EXCEPT !.wanted = c] IN
         Becomes(i, SetChannel(IF r.snap.channel # c THEN Invalidate(r) ELSE r, c))
  BY DEF ChangeChannel
<1> DEFINE r == [inst[i] EXCEPT !.wanted = c]
           s == IF r.snap.channel # c THEN Invalidate(r) ELSE r
<1>3. r \in T
  BY <1>1 DEF Looping, Threads
<1>4. s \in T
  BY <1>3, LoadTypes, <1>1 DEF Looping
<1>5. Becomes(i, SetChannel(s, c))
  BY <1>2
<1> HIDE DEF s
<1>6. SetChannel(s, c) \in T \cup Waiting(Busy(i), Known, Whole)
  BY <1>1, <1>4, RequestTypes
<1>7. QED
  BY <1>5, <1>6, QuietRecord DEF ChangeChannel

LEMMA QuitStep ==
    ASSUME KnowsInv, NEW i \in Instances, Quit(i)
    PROVE StepIsGood
<1> DEFINE T == Looping(Busy(i), Known, Whole)
           r == CancelDownload([inst[i] EXCEPT !.dismissed = TRUE])
<1>1. inst[i] \in T /\ Busy(i) \in SUBSET BOOLEAN
  BY Where DEF Quit
<1>2. [inst[i] EXCEPT !.dismissed = TRUE] \in T
  BY <1>1 DEF Looping, Threads
<1>3. r \in T
  BY <1>1, <1>2, LoadTypes DEF Looping
<1>4. Becomes(i, IF r.active THEN [CancelCheck(r) EXCEPT !.op.then = "quit"] ELSE Gone(r))
  BY DEF Quit
<1>5. UNCHANGED <<clock, file, cached>>
  BY DEF Quit
<1> HIDE DEF r
<1>6. r.wanted \in Channels /\ r.channel \in Channels
  BY <1>3 DEF Looping, Threads
<1>7. Gone(r) \in Stopped(Known, Whole)
  BY <1>6, InstanceTypes
<1>8. r.active => [CancelCheck(r) EXCEPT !.op.then = "quit"] \in Waiting(Busy(i), Known, Whole)
  <2>1. SUFFICES ASSUME r.active
                 PROVE [CancelCheck(r) EXCEPT !.op.then = "quit"] \in Waiting(Busy(i), Known, Whole)
    OBVIOUS
  <2> DEFINE op == Op("cancel", r.channel, None)
             w == Modify(r, op)
             quit == [op EXCEPT !.then = "quit"]
  <2>2. CancelCheck(r) = w
    BY <2>1 DEF CancelCheck
  <2>3. op \in Ops /\ quit \in Ops
    BY <1>6, CancelOp
  <2>4. w \in Waiting(Busy(i), Known, Whole)
    BY <1>1, <1>3, <1>6, <2>3, CheckTypes
  <2>5. w.op = op
    BY <1>3 DEF Modify, Looping, Threads
  <2>6. [w EXCEPT !.op.then = "quit"] = [w EXCEPT !.op = quit]
    BY <2>5
  <2> HIDE DEF op, w, quit
  <2>7. [w EXCEPT !.op = quit] \in Waiting(Busy(i), Known, Whole)
    BY <2>3, <2>4 DEF Waiting, Threads
  <2>8. QED
    BY <2>2, <2>6, <2>7
<1>9. QED
  BY <1>4, <1>5, <1>7, <1>8, QuietRecord

LEMMA StartStep ==
    ASSUME KnowsInv, NEW i \in Instances, Start(i)
    PROVE StepIsGood
<1>1. inst[i].wanted \in Channels /\ {FALSE} \subseteq Busy(i)
  BY Where DEF Busy
<1>2. NewInstance(inst[i].wanted) \in Looping({FALSE}, Known, Whole)
  BY <1>1, InstanceTypes
<1>3. Looping({FALSE}, Known, Whole) \subseteq Looping(Busy(i), Known, Whole)
  BY <1>1, Wider DEF Looping
<1>4. QED
  BY <1>2, <1>3, QuietRecord DEF Start

LEMMA KillStep ==
    ASSUME KnowsInv, NEW i \in Instances, Kill(i)
    PROVE StepIsGood
<1>1. Gone(inst[i]) \in Stopped(Known, Whole)
  BY Where, InstanceTypes
<1>2. QED
  BY <1>1, QuietRecord DEF Kill

LEMMA TickStep ==
    ASSUME KnowsInv, Tick
    PROVE StepIsGood
<1>1. clock' \in Nat /\ UNCHANGED <<file, inst, cached>>
  BY DEF Tick, KnowsInv
<1>2. KnowsInv'
  BY <1>1 DEF KnowsInv, OneWriter, Instance, Looping, Waiting, Saving, Stopped, Known, Whole
<1>3. QED
  BY <1>1, <1>2, ForwardSame DEF StepIsGood, InstallsOnlyLatest

-----------------------------------------------------------------------------
(* The theorems *)

LEMMA KnowsInit ==
    ASSUME Init
    PROVE KnowsInv
<1>1. file \in Files
  BY DEF Init, NewRecord, Files, Records
<1>2. \A i \in Instances : inst[i] \in Looping({FALSE}, Known, Whole)
  BY UpdatesAssumption, InstanceTypes DEF Init
<1>3. Looping({FALSE}, Known, Whole) \subseteq Looping(BOOLEAN, Known, Whole)
  BY Wider DEF Looping
<1>4. inst \in [Instances -> Instance(BOOLEAN)]
  BY <1>2, <1>3 DEF Init, Instance
<1>5. OneWriter
  BY <1>2 DEF OneWriter, Looping, Threads
<1>6. clock \in Nat /\ cached \in [Packages -> {"none", "whole"}]
  BY DEF Init
<1>7. QED
  BY <1>1, <1>4, <1>5, <1>6 DEF KnowsInv

LEMMA StepGood ==
    ASSUME KnowsInv, [Next]_vars
    PROVE StepIsGood
<1>1. CASE UNCHANGED vars
  <2>1. KnowsInv'
    BY <1>1 DEF vars, KnowsInv, OneWriter, Instance, Looping, Waiting, Saving, Stopped, Known,
                Whole
  <2>2. QED
    BY <1>1, <2>1, ForwardSame DEF vars, StepIsGood, InstallsOnlyLatest
<1>2. ASSUME NEW i \in Instances,
             \/ Poll(i) \/ Receive(i) \/ FetchFails(i) \/ TryLock(i) \/ Commit(i)
             \/ Chunk(i) \/ LoadEnds(i) \/ InstallEnds(i) \/ Kill(i)
      PROVE StepIsGood
  BY <1>2, PollStep, ReceiveStep, FetchFailsStep, TryLockStep, CommitStep, ChunkStep,
     LoadEndsStep, InstallEndsStep, KillStep
<1>3. ASSUME NEW i \in Instances, UserAction(i)
      PROVE StepIsGood
  BY <1>3, ManualCheckStep, DownloadStep, InstallStep, LeaveSteps, SkipStep,
     ChangeChannelStep, QuitStep, StartStep DEF UserAction
<1>4. QED
  BY <1>1, <1>2, <1>3, TickStep DEF Next

\* In every behaviour the records are well formed, the lock of the state file has one
\* owner, that one knows the file as it is, and what an instance keeps is known to it.
THEOREM KnowsCorrect == Spec => []KnowsInv
<1>1. KnowsInv /\ [Next]_vars => KnowsInv'
  BY StepGood DEF StepIsGood
<1>2. QED
  BY <1>1, KnowsInit, PTL DEF Spec

\* No instance ever shows, downloads or has downloaded a release that the state file does
\* not know (UpdateStateStore::accept comes before UpdateService publishes).
THEOREM ShownAlwaysAccepted == Spec => []ShownIsAccepted
<1>1. ASSUME KnowsInv PROVE ShownIsAccepted
  <2>1. SUFFICES ASSUME NEW i \in Instances,
                        NEW m \in {inst[i].snap.release, inst[i].dialog.check.release,
                                   inst[i].load.release} \ {None}
                 PROVE m \in Known
    BY DEF ShownIsAccepted, Known, KnownIn
  <2>2. /\ inst[i].snap \in Snapshots(Known) /\ inst[i].dialog.check \in Snapshots(Known)
        /\ inst[i].load \in Loads(Known, Whole)
    <3>1. inst[i] \in Instance(BOOLEAN)
      BY <1>1, Where
    <3>2. inst[i].dialog \in Dialogs(Known, Whole)
      BY <3>1 DEF Instance, Looping, Waiting, Saving, Stopped, Threads
    <3>3. QED
      BY <3>1, <3>2 DEF Instance, Looping, Waiting, Saving, Stopped, Threads, Dialogs
  <2>3. /\ inst[i].snap.release \in Known \cup {None}
        /\ inst[i].dialog.check.release \in Known \cup {None}
        /\ inst[i].load.release \in Known \cup {None}
    BY <2>2 DEF Snapshots, Loads
  <2>4. QED
    BY <2>3
<1>2. QED
  BY <1>1, KnowsCorrect, PTL

\* What was accepted on a channel is never forgotten and gives way only to what is later:
\* the file is read and written under one lock, all of it.
THEOREM AcceptedGoesForward == Spec => AcceptedForward
<1>1. ASSUME KnowsInv, [Next]_vars
      PROVE [\A c \in Channels :
                LET before == file[c].accepted
                    after == file'[c].accepted
                IN before # None => after = before \/ (after # None /\ after.seq > before.seq)]_vars
  BY <1>1, StepGood DEF StepIsGood, Forward
<1>2. QED
  BY <1>1, KnowsCorrect, PTL DEF Spec, AcceptedForward

\* Who begins to install has the release that was accepted last on its channel, by whichever
\* instance, and the whole package of it (installationArtifact).
THEOREM OnlyLatestInstalled == Spec => InstallsLatest
<1>1. ASSUME KnowsInv, [Next]_vars
      PROVE [InstallsOnlyLatest]_vars
  BY <1>1, StepGood DEF StepIsGood
<1>2. QED
  BY <1>1, KnowsCorrect, PTL DEF Spec, InstallsLatest, InstallsOnlyLatest
=============================================================================
