------------------------------ MODULE Updates -------------------------------
(***************************************************************************)
(* Looking for updates, downloading and offering them: UpdateStateStore,   *)
(* UpdateService, UpdateDownloadService with its downloader and cache      *)
(* (src/src/updateqt/src), the dialog (src/src/ui/src/updatecheckdialog.cpp) *)
(* and what src/src/app/kloggapp.h does between them.                      *)
(*                                                                         *)
(* Instances of the application share the state file, under a lock file,   *)
(* and the cache of packages.  What a GUI thread does in one go is a       *)
(* function of the instance's record; only where it takes the lock of the  *)
(* state file can another instance step in.  The server may send any       *)
(* manifest that was ever signed, or none, and any bytes as a package.     *)
(* The trust environment and the keys are right, the build is a release.   *)
(***************************************************************************)
EXTENDS Naturals

CONSTANTS
    Instances,
    Primary,        \* the instances that look for updates by themselves
    Channels,
    Preferred,      \* the channel in the preferences at the beginning
    Manifests,      \* signed: [seq, digest, channel, release, package, expires]
    Installed,      \* the release that runs
    Packages,
    Day,            \* the time between two checks of a channel
    Delays,         \* the times after one failure, two failures, ...
    CancelDelay,    \* the time after a check that was cancelled
    PackageSize,    \* in chunks
    None,
    MaxClock,       \* bound on the time
    MaxCalls,       \* bound on what the users ask for
    MaxFaults       \* bound on the calls that fail and the instances killed

ASSUME UpdatesAssumption ==
    /\ Primary \subseteq Instances /\ Preferred \in Channels
    /\ Manifests \subseteq [seq : Nat \ {0}, digest : Nat, channel : Channels, release : Nat,
                            package : Packages, expires : Nat]
    /\ DOMAIN Delays = 1..4 /\ \A i \in 1..4 : Delays[i] \in Nat
    /\ {Installed, Day, CancelDelay, PackageSize, MaxClock, MaxCalls, MaxFaults} \subseteq Nat
    /\ None \notin Manifests /\ None \notin Instances
    /\ None \notin [seq : Nat, digest : Nat]

VARIABLES
    clock,
    file,       \* check-state-v1.json: channel -> its record
    inst,       \* instance -> the state of its GUI thread
    cached,     \* package -> what lies under its final name: "none", "whole", "bad"
    calls,      \* what the users have asked for
    faults      \* what has failed

vars == <<clock, file, inst, cached, calls, faults>>

NoSnapshot(channel) ==
    [status |-> "Idle", channel |-> channel, release |-> None, present |-> FALSE]

NoLoad(status) == [status |-> status, release |-> None]

NoDialog == [open |-> FALSE, check |-> NoSnapshot(CHOOSE c \in Channels : TRUE),
             load |-> NoLoad("Idle"), execution |-> FALSE, handoff |-> "Idle"]

\* pc is "modify" while the thread is about to take the lock of the state file
\* for op, and "saving" while it has it, with what it has read in loaded.
NewInstance(channel) ==
    [pc |-> "loop", op |-> None, loaded |-> None, wanted |-> channel, channel |-> channel,
     active |-> FALSE, fetching |-> FALSE, manual |-> FALSE, snap |-> NoSnapshot(channel),
     load |-> NoLoad("Idle"), got |-> 0, good |-> TRUE,
     dialog |-> NoDialog, dismissed |-> FALSE, busy |-> FALSE]

Gone(r) == [NewInstance(r.wanted) EXCEPT !.pc = "gone"]

NewRecord == [accepted |-> None, next |-> 0, failures |-> 0, skipped |-> 0]

Init ==
    /\ clock = 0
    /\ file = [c \in Channels |-> NewRecord]
    /\ inst = [i \in Instances |-> NewInstance(Preferred)]
    /\ cached = [p \in Packages |-> "none"]
    /\ calls = 0
    /\ faults = 0

Fails == faults < MaxFaults /\ faults' = faults + 1
Loop(i) == inst[i].pc = "loop"
Call == calls < MaxCalls /\ calls' = calls + 1

-----------------------------------------------------------------------------
\* verifyManifest, and selectUpdate for this installation.

\* The same payload: number and digest of a manifest.
Accepted(m) == [seq |-> m.seq, digest |-> m.digest]

\* A fault of Conflicts: only an older manifest is refused.
Conflicts_OlderOnly(m, accepted) == accepted # None /\ m.seq < accepted.seq

Conflicts(m, accepted) ==
    /\ accepted # None
    /\ m.seq < accepted.seq \/ (m.seq = accepted.seq /\ m.digest # accepted.digest)

Verified(m, channel, accepted) ==
    clock < m.expires /\ m.channel = channel /\ ~Conflicts(m, accepted)

Decision(m) == IF m.release > Installed THEN "Available" ELSE "UpToDate"

\* trustedNow
TrustedNow(m) == clock < m.expires /\ Decision(m) = "Available"

\* isCheckDue
Due(record) == clock >= record.next \/ record.next > clock + Day

-----------------------------------------------------------------------------
\* The dialog and the download service, as functions of the instance's record r.

\* pushUpdateExecutionCapability, for a portable installation.
Capability(r) == ~r.busy /\ r.load.status = "Verified"

\* The download service has a new snapshot, and the dialog, if there is one, too.
WithLoad(r, load) ==
    LET s == [r EXCEPT !.load = load] IN
    IF r.dialog.open
    THEN [s EXCEPT !.dialog.load = load, !.dialog.execution = Capability(s)]
    ELSE s

\* A transfer is abandoned: its lock and its bytes go.
Abandon(r) == [r EXCEPT !.got = 0, !.good = TRUE]

Invalidate(r) == WithLoad(Abandon(r), NoLoad("Idle"))

CancelDownload(r) ==
    IF r.load.status = "Downloading"
    THEN WithLoad(Abandon(r), NoLoad("Cancelled")) ELSE r

WithCheck(r) ==
    IF r.dialog.open
    THEN [r EXCEPT !.dialog.check = r.snap, !.dialog.execution = Capability(r)] ELSE r

\* showUpdateDialog
Show(r) ==
    [r EXCEPT !.dialog = [open |-> TRUE, check |-> r.snap, load |-> r.load,
                          execution |-> Capability(r),
                          handoff |-> IF r.dialog.open THEN r.dialog.handoff ELSE "Idle"]]

\* snapshotChanged of the check service.
Emit(r) ==
    LET s == WithCheck(IF r.snap.status = "Checking"
                       THEN [Invalidate(r) EXCEPT !.dismissed = FALSE] ELSE r) IN
    CASE r.busy -> r
      [] ~r.busy /\ s.snap.present /\ ~s.dismissed /\ s.snap.status # "Checking" /\ ~s.dialog.open
            -> Show(s)
      [] OTHER -> s

Publish(r, status, present) ==
    Emit([r EXCEPT !.snap = [NoSnapshot(r.channel) EXCEPT !.status = status, !.present = present]])

-----------------------------------------------------------------------------
\* The check service.

\* abandon, if it was active, or the fetcher's own end; and then an operation on
\* the state file.
Modify(r, op) ==
    [r EXCEPT !.pc = "modify", !.op = op, !.active = FALSE, !.fetching = FALSE]

Op(kind, channel, manifest) ==
    [kind |-> kind, channel |-> channel, manifest |-> manifest, then |-> "publish",
     to |-> channel, manual |-> FALSE, skipped |-> FALSE]

\* A fault of StartCheck: the check counts as active before its state is read.
StartCheck_ActiveFirst(r, changed, manual, read) ==
    LET s == [r EXCEPT !.active = TRUE, !.manual = manual] IN
    CASE ~read -> Publish(s, "StateInvalid", manual)
      [] read /\ ~manual /\ ~Due(file[s.channel]) ->
            IF changed THEN Emit([s EXCEPT !.active = FALSE]) ELSE [s EXCEPT !.active = FALSE]
      [] OTHER -> Publish([s EXCEPT !.fetching = TRUE], "Checking", manual)

\* requestCheck from where the channel is the wanted one; reading the state
\* file takes no lock, and may fail.
StartCheck(r, changed, manual, read) ==
    LET s == [r EXCEPT !.active = FALSE, !.manual = manual] IN
    CASE ~read -> Publish(s, "StateInvalid", manual)
      [] read /\ ~manual /\ ~Due(file[s.channel]) -> IF changed THEN Emit(s) ELSE s
      [] OTHER -> Publish([s EXCEPT !.active = TRUE, !.fetching = TRUE], "Checking", manual)

\* changeChannel when no check is under way, or its cancellation is recorded.
Changed(r, channel) ==
    IF r.channel = channel THEN r
    ELSE [r EXCEPT !.channel = channel, !.snap = NoSnapshot(channel)]

RequestCheck(r, channel, manual, read) ==
    CASE r.active /\ channel = r.channel ->
            IF manual /\ ~r.manual
            THEN Emit([r EXCEPT !.manual = TRUE, !.snap.present = TRUE]) ELSE r
      [] r.active /\ channel # r.channel ->
            Modify(r, [Op("cancel", r.channel, None) EXCEPT !.then = "check", !.to = channel,
                                                            !.manual = manual])
      [] OTHER -> StartCheck(Changed(r, channel), channel # r.channel, manual, read)

\* UpdateService::setChannel
SetChannel(r, channel) ==
    CASE channel = r.channel -> r
      [] channel # r.channel /\ r.active ->
            Modify(r, [Op("cancel", r.channel, None) EXCEPT !.then = "setChannel",
                                                            !.to = channel])
      [] OTHER -> Publish(Changed(r, channel), "Idle", FALSE)

\* UpdateService::cancel
CancelCheck(r) ==
    IF r.active THEN Modify(r, Op("cancel", r.channel, None)) ELSE r

\* accept, by the record as it is under the lock.
Refused(record, op) == op.kind = "accept" /\ Conflicts(op.manifest, record.accepted)

\* The state of a channel after the operation.
AfterOp(record, op) ==
    CASE op.kind = "accept" ->
            [record EXCEPT !.accepted = Accepted(op.manifest), !.next = clock + Day,
                           !.failures = 0]
      [] op.kind \in {"failure", "rejected"} ->
            LET n == IF record.failures < 4 THEN record.failures + 1 ELSE 4
            IN [record EXCEPT !.failures = n, !.next = clock + Delays[n]]
      [] op.kind = "cancel" -> [record EXCEPT !.next = clock + CancelDelay]
      [] op.kind = "skip" -> [record EXCEPT !.skipped = op.manifest.release]

\* What follows the operation on the state file, by its result.
Continue(r, op, result, read) ==
    LET s == [r EXCEPT !.pc = "loop", !.op = None, !.loaded = None] IN
    CASE op.then = "quit" -> Gone(s)
      [] op.then # "quit" /\ result # "None" ->
            Publish(s, result, IF op.then \in {"check", "setChannel"} \/ op.kind = "skip"
                               THEN TRUE ELSE r.manual)
      [] op.then = "check" /\ result = "None" ->
            StartCheck(Changed(s, op.to), TRUE, op.manual, read)
      [] op.then = "setChannel" /\ result = "None" ->
            Publish(Changed(s, op.to), "Idle", FALSE)
      [] op.kind = "accept" /\ op.then = "publish" /\ result = "None" ->
            LET status == Decision(op.manifest) IN
            Emit([s EXCEPT !.snap = [status |-> status, channel |-> r.channel,
                                     release |-> op.manifest,
                                     present |-> r.manual \/ (~op.skipped /\ status = "Available")]])
      [] op.kind = "failure" /\ result = "None" -> Publish(s, "NetworkError", r.manual)
      [] op.kind = "rejected" /\ result = "None" -> Publish(s, "VerificationFailed", r.manual)
      [] op.kind = "cancel" /\ op.then = "publish" /\ result = "None" ->
            Publish(s, "Cancelled", r.manual)
      [] op.kind = "skip" /\ result = "None" ->
            LET t == Emit([s EXCEPT !.snap.present = FALSE])
            IN [t EXCEPT !.dialog = NoDialog, !.dismissed = @ \/ t.dialog.open]

-----------------------------------------------------------------------------
\* The steps of an instance.

Becomes(i, r) == inst' = [inst EXCEPT ![i] = r]

\* Reading the state file succeeds, or the call fails.
Reads(read) == IF read THEN UNCHANGED faults ELSE Fails

\* The timer, every minute: nothing happens while the check is not due.
Poll(i) ==
    /\ Loop(i) /\ i \in Primary /\ ~inst[i].active
    /\ Due(file[inst[i].channel])
    /\ \E read \in BOOLEAN :
          /\ Reads(read)
          /\ Becomes(i, RequestCheck(inst[i], inst[i].channel, FALSE, read))
    /\ UNCHANGED <<clock, file, cached, calls>>

\* received: whatever the server sends is judged by the state as it is now.
Receive(i) ==
    /\ Loop(i) /\ inst[i].fetching
    /\ LET r == [inst[i] EXCEPT !.active = FALSE, !.fetching = FALSE]
           record == file[r.channel]
       IN
       \/ Fails /\ Becomes(i, Publish(r, "StateInvalid", r.manual))
       \/ \E m \in Manifests :
             /\ Verified(m, r.channel, record.accepted)
             /\ Becomes(i, Modify(r, [Op("accept", r.channel, m) EXCEPT
                                        !.skipped = record.skipped = m.release]))
             /\ UNCHANGED faults
       \/ /\ Becomes(i, Modify(r, Op("rejected", r.channel, None)))
          /\ UNCHANGED faults
    /\ UNCHANGED <<clock, file, cached, calls>>

\* failed
FetchFails(i) ==
    /\ Loop(i) /\ inst[i].fetching
    /\ Becomes(i, Modify(inst[i], Op("failure", inst[i].channel, None)))
    /\ UNCHANGED <<clock, file, cached, calls, faults>>

\* A fault of TryLock: nobody waits for anybody.
TryLock_Always(i) ==
    /\ inst[i].pc = "modify"
    /\ Becomes(i, [inst[i] EXCEPT !.pc = "saving", !.loaded = file])
    /\ UNCHANGED <<clock, file, cached, calls, faults>>

\* modify: the lock is there, or the operation is given up; then the file is read.
TryLock(i) ==
    /\ inst[i].pc = "modify"
    /\ \/ /\ \A j \in Instances : inst[j].pc # "saving"
          /\ Becomes(i, [inst[i] EXCEPT !.pc = "saving", !.loaded = file])
          /\ UNCHANGED faults
       \/ /\ \E j \in Instances : inst[j].pc = "saving"
          /\ Becomes(i, Continue(inst[i], inst[i].op, "StateBusy", TRUE))
          /\ UNCHANGED faults
       \/ /\ Fails
          /\ \E result \in {"StateWriteFailed", "StateInvalid"} :
                Becomes(i, Continue(inst[i], inst[i].op, result, TRUE))
    /\ UNCHANGED <<clock, file, cached, calls>>

\* modify: the mutation, and the file replaced as a whole, both channels of it.
Commit(i) ==
    LET op == inst[i].op
        loaded == inst[i].loaded
        refused == Refused(loaded[op.channel], op)
    IN
    /\ inst[i].pc = "saving"
    /\ \/ /\ refused
          /\ Becomes(i, Continue(inst[i], op, "VerificationFailed", TRUE))
          /\ UNCHANGED <<file, faults>>
       \/ /\ ~refused
          /\ file' = [loaded EXCEPT ![op.channel] = AfterOp(@, op)]
          /\ Becomes(i, Continue(inst[i], op, "None", TRUE))
          /\ UNCHANGED faults
       \/ /\ ~refused /\ Fails
          /\ Becomes(i, Continue(inst[i], op, "StateWriteFailed", TRUE))
          /\ UNCHANGED file
    /\ UNCHANGED <<clock, cached, calls>>

\* Another instance has the lock of the package.
Locked(i, package) ==
    \E j \in Instances \ {i} :
        inst[j].load.status = "Downloading" /\ inst[j].load.release.package = package

LoadFailed(r) == WithLoad(Abandon(r), NoLoad("Failed"))

\* The path is given out if the release is still trusted.
Loaded(r) ==
    WithLoad(Abandon(r), IF TrustedNow(r.load.release) THEN [r.load EXCEPT !.status = "Verified"]
                         ELSE NoLoad("Unavailable"))

\* The package arrives in chunks, of which the server may send too many.
Chunk(i) ==
    LET r == inst[i] IN
    /\ Loop(i) /\ r.load.status = "Downloading"
    /\ \E good \in BOOLEAN :
          Becomes(i, IF r.got = PackageSize
                     THEN LoadFailed(r)
                     ELSE [r EXCEPT !.got = @ + 1, !.good = @ /\ good])
    /\ UNCHANGED <<clock, file, cached, calls, faults>>

\* The network, or the cache: a package gets its name when it is whole.
LoadEnds(i) ==
    LET r == inst[i] IN
    /\ Loop(i) /\ r.load.status = "Downloading"
    /\ \/ Becomes(i, LoadFailed(r)) /\ UNCHANGED cached
       \/ /\ r.got = PackageSize /\ r.good
          /\ cached' = [cached EXCEPT ![r.load.release.package] = "whole"]
          /\ Becomes(i, Loaded(r))
    /\ UNCHANGED <<clock, file, calls, faults>>

-----------------------------------------------------------------------------
\* The user.

\* requestManualUpdate
ManualCheck(i) ==
    /\ Loop(i) /\ Call /\ ~inst[i].busy
    /\ LET r == Show([Invalidate(inst[i]) EXCEPT !.dismissed = FALSE]) IN
       \E read \in BOOLEAN :
          Reads(read) /\ Becomes(i, RequestCheck(r, r.wanted, TRUE, read))
    /\ UNCHANGED <<clock, file, cached>>

Preparing(r) == r.dialog.handoff = "Preparing"

\* requestDownload of what the service has, which the downloader starts.
Download(i) ==
    LET r == inst[i]
        m == r.snap.release
        allowed == r.snap.status = "Available" /\ TrustedNow(m) /\ r.load.release = None
    IN
    /\ Loop(i) /\ Call
    /\ r.dialog.open /\ r.dialog.check.status = "Available" /\ ~Preparing(r)
    /\ r.dialog.load.status \notin {"Downloading", "Verified", "Unavailable"}
    /\ \/ /\ ~allowed
          /\ Becomes(i, WithLoad(r, NoLoad("Unavailable")))
          /\ UNCHANGED faults
       \/ /\ allowed
          /\ Becomes(i, IF Locked(i, m.package) THEN LoadFailed(r)
                        ELSE WithLoad(r, [status |-> "Downloading", release |-> m]))
          /\ UNCHANGED faults
       \/ /\ allowed
          /\ Fails
          /\ Becomes(i, LoadFailed(r))
    /\ UNCHANGED <<clock, file, cached>>

\* nativeInstallFailed
InstallFailed(r) ==
    LET s == [r EXCEPT !.busy = FALSE] IN
    IF r.dialog.open
    THEN [s EXCEPT !.dialog.handoff = "Failed", !.dialog.execution = Capability(s)] ELSE s

\* UpdateCheckDialog::installAvailable
InstallAvailable(r) ==
    /\ r.dialog.open /\ ~Preparing(r)
    /\ r.dialog.execution
    /\ r.dialog.check.status = "Available"
    /\ r.dialog.load.status = "Verified"

\* A fault of Valid: what was accepted since does not count.
Valid_Forgets(r) == r.load.status = "Verified" /\ Verified(r.load.release, r.snap.channel, None)

\* installationArtifact: the selection is judged again, by the state as it is now.
Valid(r) ==
    /\ r.load.status = "Verified"
    /\ LET accepted == file[r.snap.channel].accepted IN
       /\ accepted # None
       /\ Verified(r.load.release, r.snap.channel, accepted)

\* performDownloadedUpdate
Install(i) ==
    LET r == inst[i] IN
    /\ Loop(i) /\ Call /\ InstallAvailable(r)
    /\ \/ Valid(r) /\ Becomes(i, [r EXCEPT !.busy = TRUE, !.dialog.handoff = "Preparing"])
       \/ Becomes(i, InstallFailed(r))
    /\ UNCHANGED <<clock, file, cached, faults>>

\* The installer is ready and the application exits, or it fails.
InstallEnds(i) ==
    /\ Loop(i) /\ inst[i].busy
    /\ Becomes(i, [Gone(inst[i]) EXCEPT !.pc = "updated"]) \/ Becomes(i, InstallFailed(inst[i]))
    /\ UNCHANGED <<clock, file, cached, calls, faults>>

\* The dialog is left: what it shows under way is cancelled.
Leave(r) ==
    LET s == [r EXCEPT !.dialog = NoDialog, !.dismissed = TRUE]
        loaded == IF r.dialog.load.status = "Downloading" THEN CancelDownload(s) ELSE s
    IN IF r.dialog.check.status = "Checking" /\ r.dialog.check.present
       THEN CancelCheck(loaded) ELSE loaded

\* "Later", or the dialog's frame.
Reject(i) ==
    LET r == inst[i] IN
    /\ Loop(i) /\ Call /\ r.dialog.open
    /\ Becomes(i, IF Preparing(r) THEN InstallFailed(r) ELSE Leave(r))
    /\ UNCHANGED <<clock, file, cached, faults>>

\* The dialog goes with the window it belongs to.
ParentCloses(i) ==
    LET r == inst[i] IN
    /\ Loop(i) /\ Call /\ r.dialog.open
    /\ Becomes(i, Leave(IF Preparing(r) THEN InstallFailed(r) ELSE r))
    /\ UNCHANGED <<clock, file, cached, faults>>

\* The button "Cancel".
Cancel(i) ==
    LET r == inst[i] IN
    /\ Loop(i) /\ Call /\ r.dialog.open
    /\ \/ Preparing(r) \/ r.dialog.load.status = "Downloading"
       \/ r.dialog.check.status = "Checking"
    /\ Becomes(i, CASE Preparing(r) -> InstallFailed(r)
                    [] ~Preparing(r) /\ r.dialog.load.status = "Downloading" -> CancelDownload(r)
                    [] OTHER -> CancelCheck(r))
    /\ UNCHANGED <<clock, file, cached, faults>>

\* "Skip this version": the release is the service's.
Skip(i) ==
    LET r == inst[i]
        s == Invalidate(r)
    IN
    /\ Loop(i) /\ Call /\ r.dialog.open /\ ~Preparing(r)
    /\ r.dialog.check.release # None /\ r.dialog.load.status # "Downloading"
    /\ Becomes(i, IF r.active \/ r.snap.release = None
                  THEN IF r.snap.present THEN s ELSE Leave(s)
                  ELSE [s EXCEPT !.pc = "modify", !.op = Op("skip", r.snap.channel, r.snap.release)])
    /\ UNCHANGED <<clock, file, cached, faults>>

\* The preference changes.
ChangeChannel(i) ==
    /\ Loop(i) /\ Call
    /\ \E c \in Channels :
          LET r == [inst[i] EXCEPT !.wanted = c] IN
          Becomes(i, SetChannel(IF r.snap.channel # c THEN Invalidate(r) ELSE r, c))
    /\ UNCHANGED <<clock, file, cached, faults>>

\* aboutToQuit
Quit(i) ==
    /\ Loop(i) /\ Call
    /\ LET r == CancelDownload([inst[i] EXCEPT !.dismissed = TRUE]) IN
       Becomes(i, IF r.active THEN [CancelCheck(r) EXCEPT !.op.then = "quit"]
                  ELSE Gone(r))
    /\ UNCHANGED <<clock, file, cached, faults>>

Start(i) ==
    /\ inst[i].pc = "gone" /\ Call
    /\ Becomes(i, NewInstance(inst[i].wanted))
    /\ UNCHANGED <<clock, file, cached, faults>>

Kill(i) ==
    /\ inst[i].pc \notin {"gone", "updated"} /\ Fails
    /\ Becomes(i, Gone(inst[i]))
    /\ UNCHANGED <<clock, file, cached, calls>>

\* A handler takes no time.
Tick ==
    /\ clock < MaxClock /\ clock' = clock + 1
    /\ \A i \in Instances : inst[i].pc \notin {"modify", "saving"}
    /\ UNCHANGED <<file, inst, cached, calls, faults>>

UserAction(i) ==
    \/ ManualCheck(i) \/ Download(i) \/ Install(i) \/ Reject(i) \/ ParentCloses(i)
    \/ Cancel(i) \/ Skip(i) \/ ChangeChannel(i) \/ Quit(i) \/ Start(i)

Next ==
    \/ \E i \in Instances :
        \/ Poll(i) \/ Receive(i) \/ FetchFails(i) \/ TryLock(i) \/ Commit(i)
        \/ Chunk(i) \/ LoadEnds(i) \/ InstallEnds(i) \/ UserAction(i) \/ Kill(i)
    \/ Tick

\* The event loops run, and both transfers have a total timeout.
Fairness ==
    \A i \in Instances :
        /\ WF_vars(Receive(i) \/ FetchFails(i)) /\ WF_vars(TryLock(i) \/ Commit(i))
        /\ WF_vars(LoadEnds(i))

Spec == Init /\ [][Next]_vars /\ Fairness

-----------------------------------------------------------------------------
Alive(i) == inst[i].pc \notin {"gone", "updated"}

\* What was accepted is never forgotten, never replaced by something older, nor by
\* another payload of the same number, whatever the instances do at once.
AcceptedForward ==
    [][\A c \in Channels :
          LET before == file[c].accepted
              after == file'[c].accepted
          IN before # None => after = before \/ (after # None /\ after.seq > before.seq)]_vars

\* No instance shows, downloads or has downloaded a release that the state file
\* does not know: after a restart nothing older is taken for new.
ShownIsAccepted ==
    \A i \in Instances : Alive(i) =>
        \A m \in {inst[i].snap.release, inst[i].dialog.check.release, inst[i].load.release} \ {None} :
            LET accepted == file[m.channel].accepted IN
            accepted # None /\ (accepted = Accepted(m) \/ accepted.seq > m.seq)

\* What is installed is the last that was accepted, by whichever instance, and
\* lies whole in the cache.
InstallsLatest ==
    [][\A i \in Instances : ~inst[i].busy /\ inst'[i].busy =>
          /\ file[inst[i].snap.channel].accepted = Accepted(inst[i].load.release)
          /\ cached[inst[i].load.release.package] = "whole"]_vars

\* Checks and downloads end.
Transfers(i) == Alive(i) /\ (inst[i].active \/ inst[i].load.status = "Downloading")

TransfersEnd == \A i \in Instances : Transfers(i) ~> ~Transfers(i)

-----------------------------------------------------------------------------
(* What the code does not keep *)

\* What the dialog offers to install is the release that it shows. It does not
\* hold: a check that begins while an installation is being prepared does not make
\* the download void (kloggapp.h:622), and its answer comes when that has failed.
OfferConsistent ==
    \A i \in Instances : Alive(i) /\ InstallAvailable(inst[i]) =>
        inst[i].load.release = inst[i].dialog.check.release
=============================================================================
