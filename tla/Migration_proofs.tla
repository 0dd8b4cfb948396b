-------------------------- MODULE Migration_proofs --------------------------
(***************************************************************************)
(* Proofs about Migration, for any roots, locations and files, with or     *)
(* without an old layout, with any number of faults.                       *)
(*                                                                         *)
(* For one process: wherever a start, a migration, a recovery or a cleanup *)
(* was killed or failed, the locators name a complete directory, and       *)
(* nothing in it is overwritten or removed (MigrationInv says where the    *)
(* directories are); and the settings that the next start of a window      *)
(* reads are those saved last, which is UserSettings (SettingsInv says     *)
(* what is in the directories).                                            *)
(*                                                                         *)
(* For two processes: they never both copy or commit at once (PairInv says *)
(* who may still commit a migration that an earlier commit left behind).   *)
(* Of two processes properties of one are false, and of three this one is  *)
(* false too: README.md says how.                                          *)
(***************************************************************************)
EXTENDS Migration, TLAPS

-----------------------------------------------------------------------------
(* Where the settings are *)

NoLocator == \A l \in Locators : locator[l] = None

Present(root) == \A f \in Settings : data[root][f] # NoFile

\* What a locator state is about: it names a directory in use or the old layout, and after
\* a migration both INIs are there.
Sound(s) ==
    /\ s.active = Legacy \/ Managed(s.active.root)
    /\ s.last # None /\ s.last.outcome = "committed" => Present(s.active.root)

\* A request starts from what the locator names, and never goes to the old layout's root.
GoodRequest(r) ==
    /\ r.source = Legacy \/ Managed(r.source.root)
    /\ r.legacy => r.source = Legacy
    /\ Legacy # None => r.target.root # Legacy.root

\* The target's locator as a commit leaves it.
Arrived(r) == State(r.target, None, FALSE, Last(r.tx, "committed"))

Named ==
    \A l \in Locators : locator[l] # None =>
        /\ Sound(locator[l])
        /\ locator[l].pending # None =>
              /\ locator[l].pending.source = locator[l].active
              /\ GoodRequest(locator[l].pending)

\* Of two locators the program's counts; if its migration is pending, the user's is what the
\* commit has written already.
Both ==
    locator["program"] # None /\ locator["user"] # None /\ locator["program"].pending # None =>
        LET r == locator["program"].pending IN
        /\ r.target.locator = "user" /\ locator["user"] = Arrived(r)
        /\ Complete(r.target.root)

\* Directories and manifests have no versions.
Marked == \A r \in Roots : \A f \in {"dirs", "manifest"} : data[r][f] \in {NoFile, Empty}

-----------------------------------------------------------------------------
(* Where the process is *)

OnlySource(r) ==
    \A l \in Locators : locator[l] # None => l = r.source.locator /\ locator[l].active = r.source

Reading(p) ==
    /\ At(p, "user") => locator["program"] = None
    /\ job[p].pc \in {"decide", "existing"} => job[p].seen = Resolved
    /\ job[p].pc \in {"program", "user", "decide", "lock", "pend"} => job[p].step = 1

Placing(p) ==
    /\ job[p].pc \in {"dirs", "manifest"} =>
          /\ job[p].at # None /\ job[p].why \in {"default", "override", "select"}
          /\ IF job[p].why = "select" THEN NoLocator /\ job[p].at \in Choices
             ELSE job[p].at.locator = None
    /\ At(p, "write") =>
          /\ job[p].at \in Locations /\ Managed(job[p].at.root)
          /\ job[p].why \in {"adopt", "select", "verify"}
          /\ IF job[p].why = "verify" THEN Resolved # None /\ Resolved.active = job[p].at
             ELSE NoLocator
    /\ At(p, "writeRemove") =>
          /\ job[p].at \in Locations /\ job[p].why = "verify" /\ job[p].at.locator = "program"
          /\ locator["program"] = State(job[p].at, None, TRUE, None)
          /\ job[p].prev # None /\ Sound(job[p].prev)
          /\ job[p].prev.active = job[p].at /\ job[p].prev.pending = None

Running(p) ==
    At(p, "running") =>
        /\ job[p].at # None
        /\ p \notin Greps /\ job[p].at.locator # None =>
              LET l == job[p].at.locator IN
              /\ locator[l] # None /\ locator[l].active = job[p].at
              /\ locator[Other(l)] = None

MigrationPcs ==
    {"lock", "judge", "pend", "copy", "commit", "commitRemove", "commitFailed",
     "rollback", "cleanup"}

Asked(p) ==
    job[p].pc \in MigrationPcs =>
        /\ job[p].req # None /\ GoodRequest(job[p].req)
        /\ job[p].why \in {"recover", "execute"}
        /\ job[p].made # {} => ~SameRoot(job[p].req)

Moves(p) ==
    LET r == job[p].req IN
    /\ job[p].pc \in {"lock", "judge"} /\ job[p].why = "recover" =>
          Resolved # None /\ Resolved.pending = r
    /\ (job[p].pc \in {"pend", "copy", "rollback", "cleanup"}
           \/ (At(p, "lock") /\ job[p].why = "execute")) => OnlySource(r)
    /\ job[p].pc \in {"copy", "commit", "commitRemove", "commitFailed"} => PendingIs(r)
    /\ At(p, "copy") =>
          /\ ~SameRoot(r)
          /\ \A i \in 1..(job[p].step - 1) :
                CopyOrder[i] # "logs" => data[r.target.root][CopyOrder[i]] # NoFile
    /\ job[p].pc \in {"commit", "commitRemove", "commitFailed"} =>
          /\ Complete(r.target.root)
          /\ LET other == locator[Other(r.source.locator)] IN
             other # None => r.target.locator # r.source.locator /\ other = Arrived(r)
    /\ At(p, "commitRemove") =>
          /\ r.target.locator # r.source.locator
          /\ locator[r.target.locator] = Arrived(r)
          /\ job[p].prev \in {None, Arrived(r)}
    /\ At(p, "judge") => job[p].why = "recover"
    /\ At(p, "pend") \/ At(p, "copy") \/ At(p, "cleanup") => job[p].why = "execute"

MigrationInv(p) ==
    /\ TypeOK /\ Marked /\ Named /\ Both
    /\ Reading(p) /\ Placing(p) /\ Running(p) /\ Asked(p) /\ Moves(p)

-----------------------------------------------------------------------------
(* Lemmas about the operators *)

LEMMA Others ==
    /\ Other("program") = "user" /\ Other("user") = "program"
    /\ \A l \in Locators : Other(l) \in Locators /\ Other(l) # l
    /\ \A l, m \in Locators : m = l \/ m = Other(l)
BY DEF Other, Locators

LEMMA SameFields ==
    ASSUME NEW r \in Requests, NEW s \in Requests, SameRequest(r, s)
    PROVE  /\ r.tx = s.tx /\ r.source = s.source /\ r.target = s.target /\ r.legacy = s.legacy
BY DEF Requests, SameRequest

LEMMA SameIsSame ==
    ASSUME NEW r \in Requests, NEW b \in BOOLEAN
    PROVE  /\ SameRequest(r, r) /\ SameRequest([r EXCEPT !.existed = b], r)
           /\ [r EXCEPT !.existed = b] \in Requests
           /\ [r EXCEPT !.existed = b].source = r.source
           /\ [r EXCEPT !.existed = b].target = r.target
           /\ [r EXCEPT !.existed = b].legacy = r.legacy
           /\ [r EXCEPT !.existed = b].tx = r.tx
           /\ [r EXCEPT !.existed = b].existed = b
BY DEF Requests, SameRequest

LEMMA StateFields ==
    ASSUME NEW a \in Locations, NEW q \in Requests \cup {None}, NEW v \in BOOLEAN,
           NEW z \in Outcomes \cup {None}
    PROVE  /\ State(a, q, v, z) \in States /\ State(a, q, v, z) # None
           /\ State(a, q, v, z).active = a /\ State(a, q, v, z).pending = q
           /\ State(a, q, v, z).verified = v /\ State(a, q, v, z).last = z
BY TypesAssumption DEF States, State

LEMMA LastFields ==
    ASSUME NEW t \in Transactions, NEW o \in {"committed", "rolledBack"}
    PROVE  Last(t, o) \in Outcomes /\ Last(t, o) # None /\ Last(t, o).tx = t
           /\ Last(t, o).outcome = o
BY TypesAssumption DEF Last, Outcomes

LEMMA IdleIsJob == Idle \in Jobs
BY DEF Idle, Jobs, Pcs, Whys, MaxTries

\* Locations have a root and a locator.
LEMMA LocationFields ==
    ASSUME NEW c \in Locations
    PROVE  c.root \in Roots /\ c.locator \in Locators /\ c # None
           /\ c \in [root : Roots, locator : Locators \cup {None}]
BY MigrationAssumption DEF Locators

Places == [root : Roots, locator : Locators \cup {None}]

LEMMA RequestFields ==
    ASSUME NEW t \in Transactions, NEW a \in Locations, NEW b \in Locations, NEW y \in BOOLEAN
    PROVE  /\ Request(t, a, b, y) \in Requests /\ Request(t, a, b, y) # None
           /\ Request(t, a, b, y).tx = t /\ Request(t, a, b, y).source = a
           /\ Request(t, a, b, y).target = b /\ Request(t, a, b, y).legacy = y
           /\ Request(t, a, b, y).existed = FALSE
<1>1. Request(t, a, b, y) \in Requests
  BY DEF Request, Requests
<1>2. Request(t, a, b, y) # None
  BY <1>1, TypesAssumption
<1> QED
  BY <1>1, <1>2 DEF Request

IsOld(r) == \E t \in Transactions : r = Request(t, Legacy, LegacyTarget, TRUE)

LEMMA OldRequest ==
    ASSUME Legacy \in Locations, LegacyTarget \in Locations, NEW r, IsOld(r)
    PROVE  r \in Requests /\ r # None /\ r.source = Legacy /\ r.target = LegacyTarget /\ r.legacy
<1>1. PICK t \in Transactions : r = Request(t, Legacy, LegacyTarget, TRUE)
  BY DEF IsOld
<1>2. r \in Requests
  BY <1>1 DEF Request, Requests
<1> QED
  BY <1>1, <1>2, TypesAssumption DEF Request

-----------------------------------------------------------------------------
(* What a step makes of the process's record *)

LEMMA GotoJob ==
    ASSUME job \in [Instances -> Jobs], NEW p \in Instances, NEW pc \in Pcs, Goto(p, pc)
    PROVE  /\ job' \in [Instances -> Jobs] /\ job'[p].pc = pc
           /\ job'[p].why = job[p].why /\ job'[p].seen = job[p].seen /\ job'[p].at = job[p].at
           /\ job'[p].req = job[p].req /\ job'[p].step = job[p].step
           /\ job'[p].made = job[p].made /\ job'[p].prev = job[p].prev
<1> DEFINE k == [job[p] EXCEPT !.pc = pc]
<1>1. k \in Jobs
  BY DEF Jobs
<1>2. job' = [job EXCEPT ![p] = k]
  BY DEF Goto
<1> QED
  BY <1>1, <1>2 DEF Jobs

LEMMA CallJob ==
    ASSUME job \in [Instances -> Jobs], NEW p \in Instances, NEW pc \in Pcs, NEW why \in Whys,
           Call(p, pc, why)
    PROVE  /\ job' \in [Instances -> Jobs] /\ job'[p].pc = pc /\ job'[p].why = why
           /\ job'[p].seen = job[p].seen /\ job'[p].at = job[p].at
<1> DEFINE k == [job[p] EXCEPT !.pc = pc, !.why = why]
<1>1. k \in Jobs
  BY DEF Jobs
<1>2. job' = [job EXCEPT ![p] = k]
  BY DEF Call
<1> QED
  BY <1>1, <1>2 DEF Jobs

Place(p, pc, why, a) == job' = [job EXCEPT ![p].pc = pc, ![p].why = why, ![p].at = a]

LEMMA PlacedJob ==
    ASSUME job \in [Instances -> Jobs], NEW p \in Instances, NEW pc \in Pcs, NEW why \in Whys,
           NEW a \in Places, Place(p, pc, why, a)
    PROVE  job' \in [Instances -> Jobs] /\ job'[p].pc = pc /\ job'[p].why = why /\ job'[p].at = a
<1> DEFINE k == [job[p] EXCEPT !.pc = pc, !.why = why, !.at = a]
<1>1. k \in Jobs
  BY DEF Jobs, Places
<1>2. job' = [job EXCEPT ![p] = k]
  BY DEF Place
<1> QED
  BY <1>1, <1>2 DEF Jobs

Ask(p, pc, why, r) == job' = [job EXCEPT ![p].pc = pc, ![p].why = why, ![p].req = r]

LEMMA AskedJob ==
    ASSUME job \in [Instances -> Jobs], NEW p \in Instances, NEW pc \in Pcs, NEW why \in Whys,
           NEW r \in Requests, Ask(p, pc, why, r)
    PROVE  /\ job' \in [Instances -> Jobs] /\ job'[p].pc = pc /\ job'[p].why = why
           /\ job'[p].req = r /\ job'[p].step = job[p].step
<1> DEFINE k == [job[p] EXCEPT !.pc = pc, !.why = why, !.req = r]
<1>1. k \in Jobs
  BY DEF Jobs
<1>2. job' = [job EXCEPT ![p] = k]
  BY DEF Ask
<1> QED
  BY <1>1, <1>2 DEF Jobs

LEMMA SeenJob ==
    ASSUME job \in [Instances -> Jobs], NEW p \in Instances, NEW pc \in Pcs,
           NEW s \in States \cup {None},
           job' = [job EXCEPT ![p].seen = s, ![p].pc = pc]
    PROVE  /\ job' \in [Instances -> Jobs] /\ job'[p].pc = pc /\ job'[p].seen = s
           /\ job'[p].step = job[p].step
<1> DEFINE k == [job[p] EXCEPT !.seen = s, !.pc = pc]
<1>1. k \in Jobs
  BY DEF Jobs
<1>2. job' = [job EXCEPT ![p] = k]
  OBVIOUS
<1> QED
  BY <1>1, <1>2 DEF Jobs

Remember(p, pc, s) == job' = [job EXCEPT ![p].pc = pc, ![p].prev = s]

LEMMA PrevJob ==
    ASSUME job \in [Instances -> Jobs], NEW p \in Instances, NEW pc \in Pcs,
           NEW s \in States \cup {None}, Remember(p, pc, s)
    PROVE  /\ job' \in [Instances -> Jobs] /\ job'[p].pc = pc /\ job'[p].prev = s
           /\ job'[p].why = job[p].why /\ job'[p].at = job[p].at /\ job'[p].req = job[p].req
           /\ job'[p].made = job[p].made
<1> DEFINE k == [job[p] EXCEPT !.pc = pc, !.prev = s]
<1>1. k \in Jobs
  BY DEF Jobs
<1>2. job' = [job EXCEPT ![p] = k]
  BY DEF Remember
<1> QED
  BY <1>1, <1>2 DEF Jobs

LEMMA MadeJob ==
    ASSUME job \in [Instances -> Jobs], NEW p \in Instances, NEW pc \in Pcs,
           NEW m \in SUBSET Files,
           job' = [job EXCEPT ![p].made = m, ![p].pc = pc]
    PROVE  /\ job' \in [Instances -> Jobs] /\ job'[p].pc = pc /\ job'[p].made = m
           /\ job'[p].why = job[p].why /\ job'[p].at = job[p].at
<1> DEFINE k == [job[p] EXCEPT !.made = m, !.pc = pc]
<1>1. k \in Jobs
  BY DEF Jobs
<1>2. job' = [job EXCEPT ![p] = k]
  OBVIOUS
<1> QED
  BY <1>1, <1>2 DEF Jobs

\* A record that starts anew.
LEMMA FreshJob ==
    ASSUME job \in [Instances -> Jobs], NEW p \in Instances, NEW k \in Jobs,
           job' = [job EXCEPT ![p] = k]
    PROVE  job' \in [Instances -> Jobs] /\ job'[p] = k
OBVIOUS

LEMMA FreshRead ==
    ASSUME NEW why \in Whys, NEW n \in 0..MaxTries, NEW k,
           k \in {[Idle EXCEPT !.pc = "program", !.why = why],
                  [Idle EXCEPT !.pc = "program", !.why = why, !.tries = n]}
    PROVE  k \in Jobs /\ k.pc = "program" /\ k.step = 1
<1>1. "program" \in Pcs /\ why \in Whys /\ n \in 0..MaxTries
  BY DEF Pcs
<1>2. k \in Jobs
  BY <1>1, IdleIsJob DEF Jobs
<1> QED
  BY <1>2 DEF Jobs, Idle

Asking(why, r, n) == [Idle EXCEPT !.pc = "lock", !.why = why, !.req = r, !.tries = n]

LEMMA FreshAsked ==
    ASSUME NEW why \in Whys, NEW r \in Requests, NEW n \in 0..MaxTries
    PROVE  /\ Asking(why, r, n) \in Jobs /\ Asking(why, r, n).pc = "lock"
           /\ Asking(why, r, n).why = why /\ Asking(why, r, n).req = r
           /\ Asking(why, r, n).made = {} /\ Asking(why, r, n).step = 1
<1>1. "lock" \in Pcs
  BY DEF Pcs
<1>2. Asking(why, r, n) \in Jobs
  BY <1>1, IdleIsJob DEF Jobs, Asking
<1> QED
  BY <1>2 DEF Jobs, Idle, Asking

-----------------------------------------------------------------------------
(* Transactions *)

\* There is always an id that is not in use: one process knows five at most.
Inexhaustible == \A a, b, c, d, e : \E t \in Transactions : t \notin {a, b, c, d, e}

LEMMA NewId ==
    ASSUME Inexhaustible, NEW p, Instances = {p}
    PROVE  NewTransaction \in Transactions
<1> DEFINE a == locator["program"].pending.tx
           b == locator["user"].pending.tx
           c == locator["program"].last.tx
           d == locator["user"].last.tx
           e == job[p].req.tx
<1>1. UsedTransactions \subseteq {a, b, c, d, e}
  BY DEF UsedTransactions, Locators
<1>2. \E t \in Transactions : t \notin {a, b, c, d, e}
  BY DEF Inexhaustible
<1>3. \E t \in Transactions : t \notin UsedTransactions
  BY <1>1, <1>2
<1> QED
  BY <1>3 DEF NewTransaction

-----------------------------------------------------------------------------
(* Steps that leave the locators and the data alone *)

Disk == Marked /\ Named /\ Both

LEMMA DiskStays ==
    ASSUME Disk, UNCHANGED <<locator, data>>
    PROVE  /\ Disk' /\ Resolved' = Resolved
           /\ \A r \in Roots : Managed(r)' = Managed(r) /\ Complete(r)' = Complete(r)
           /\ \A r \in Roots : Vacant(r)' = Vacant(r)
           /\ \A r \in Requests : PendingIs(r)' = PendingIs(r)
           /\ \A r \in Requests : GoodRequest(r)' = GoodRequest(r)
           /\ \A r \in Requests : OnlySource(r)' = OnlySource(r)
           /\ \A s \in States : Sound(s)' = Sound(s)
           /\ NoLocator' = NoLocator
BY DEF Disk, Marked, Named, Both, Resolved, Managed, Complete, Vacant, PendingIs, GoodRequest,
       OnlySource, Sound, Present, NoLocator

\* A process that has ended says nothing.
LEMMA Ended ==
    ASSUME NEW p, Instances = {p}, TypeOK', Disk', job'[p] = Idle
    PROVE  MigrationInv(p)'
BY DEF MigrationInv, Disk, Reading, Placing, Running, Asked, Moves, At, Idle, MigrationPcs

LEMMA EndTypes ==
    ASSUME NEW p, Instances = {p}, TypeOK, End(p)
    PROVE  /\ job' \in [Instances -> Jobs] /\ job'[p] = Idle
           /\ migLock' \in [Locators -> Instances \cup {None}]
           /\ mutex' \in Instances \cup {None}
  <1>1. job' \in [Instances -> Jobs] /\ job'[p] = Idle
    BY IdleIsJob, FreshJob DEF TypeOK, End
  <1> QED
    BY <1>1 DEF TypeOK, End

LEMMA FaultTypes ==
    ASSUME TypeOK, NEW kind, Faulty(kind) \/ UNCHANGED faults
    PROVE  faults' \in 0..MaxFaults
BY MigrationAssumption DEF TypeOK, Faulty

LEMMA EndsQuietly ==
    ASSUME NEW p, Instances = {p}, MigrationInv(p), End(p), UNCHANGED <<locator, data, version>>,
           faults' \in 0..MaxFaults
    PROVE  MigrationInv(p)'
  <1>1. TypeOK'
    BY EndTypes DEF MigrationInv, TypeOK
  <1>2. Disk'
    BY DiskStays DEF MigrationInv, Disk
  <1> QED
    BY <1>1, <1>2, Ended, EndTypes DEF MigrationInv

\* What is left to show of a step that only moves the process.
LEMMA MovesQuietly ==
    ASSUME NEW p, Instances = {p}, MigrationInv(p), job' \in [Instances -> Jobs],
           UNCHANGED <<locator, data, version>>,
           migLock' \in [Locators -> Instances \cup {None}], mutex' \in Instances \cup {None},
           faults' \in 0..MaxFaults
    PROVE  TypeOK' /\ Disk'
  <1>1. TypeOK'
    BY DEF MigrationInv, TypeOK
  <1> QED
    BY <1>1, DiskStays DEF MigrationInv, Disk

-----------------------------------------------------------------------------
(* bootstrapStorage *)

LEMMA InvLaunch ==
    ASSUME NEW p, Instances = {p}, MigrationInv(p), Launch(p)
    PROVE  MigrationInv(p)'
  <1>1. job' \in [Instances -> Jobs] /\ job'[p].pc = "program" /\ job'[p].step = 1
    <2>1. PICK k : k = [Idle EXCEPT !.pc = "program", !.why = "bootstrap"]
      OBVIOUS
    <2>2. "bootstrap" \in Whys /\ 0 \in 0..MaxTries
      BY DEF Whys, MaxTries
    <2>3. k \in Jobs /\ k.pc = "program" /\ k.step = 1
      BY <2>1, <2>2, FreshRead
    <2> QED
      BY <2>1, <2>3, FreshJob DEF Launch, MigrationInv, TypeOK
  <1>2. TypeOK' /\ Disk'
    BY <1>1, MovesQuietly DEF Launch, MigrationInv, TypeOK
  <1> QED
    BY <1>1, <1>2 DEF MigrationInv, Disk, Reading, Placing, Running, Asked, Moves, At, MigrationPcs

LEMMA InvLaunchAt ==
    ASSUME NEW p, Instances = {p}, MigrationInv(p), NEW r \in Overrides, LaunchAt(p, r)
    PROVE  MigrationInv(p)'
  <1> DEFINE a == [root |-> r, locator |-> None]
             k == [Idle EXCEPT !.pc = "dirs", !.why = "override", !.at = a]
  <1>1. a \in Places /\ a # None
    BY MigrationAssumption, TypesAssumption DEF Places
  <1>2. k \in Jobs /\ k.pc = "dirs" /\ k.why = "override" /\ k.at = a
    BY <1>1, IdleIsJob DEF Jobs, Pcs, Whys, Places
  <1>3. job' \in [Instances -> Jobs] /\ job'[p] = k
    BY <1>2, FreshJob DEF LaunchAt, MigrationInv, TypeOK
  <1>4. TypeOK' /\ Disk'
    BY <1>3, MovesQuietly DEF LaunchAt, MigrationInv, TypeOK
  <1> QED
    BY <1>1, <1>2, <1>3, <1>4
    DEF MigrationInv, Disk, Reading, Placing, Running, Asked, Moves, At, MigrationPcs

LEMMA InvRead ==
    ASSUME NEW p, Instances = {p}, MigrationInv(p), ReadProgramLocator(p) \/ ReadUserLocator(p)
    PROVE  MigrationInv(p)'
  <1>1. PICK l \in Locators, missing \in {"user", "decide"} :
           /\ ReadLocator(p, l, missing)
           /\ l = "program" => At(p, "program") /\ missing = "user"
           /\ l = "user" => At(p, "user") /\ missing = "decide"
    BY DEF ReadProgramLocator, ReadUserLocator, Locators
  <1> DEFINE pc == IF locator[l] = None /\ missing # "decide" THEN missing
                   ELSE IF job[p].why = "bootstrap" THEN "decide" ELSE "existing"
  <1>2. pc \in {"user", "decide", "existing"} /\ (pc = "user" => l = "program" /\ locator[l] = None)
    BY <1>1 DEF Locators
  <1>3. /\ job' \in [Instances -> Jobs] /\ job'[p].pc = pc /\ job'[p].seen = locator[l]
        /\ job'[p].step = job[p].step
    <2>1. job \in [Instances -> Jobs] /\ locator[l] \in States \cup {None} /\ pc \in Pcs
      BY <1>2 DEF MigrationInv, TypeOK, Pcs
    <2>2. job' = [job EXCEPT ![p].seen = locator[l], ![p].pc = pc]
      BY <1>1 DEF ReadLocator
    <2> HIDE DEF pc
    <2> QED
      BY <2>1, <2>2, SeenJob
  <1>4. TypeOK' /\ Disk'
    BY <1>1, <1>3, MovesQuietly DEF ReadLocator, MigrationInv, TypeOK
  <1>5. pc \in {"decide", "existing"} => locator[l] = Resolved
    BY <1>1 DEF MigrationInv, Reading, Resolved, Locators
  <1>6. UNCHANGED locator /\ Resolved' = Resolved
    BY <1>1, DiskStays DEF ReadLocator, MigrationInv, Disk
  <1>7. job[p].pc \in {"program", "user"}
    BY DEF ReadProgramLocator, ReadUserLocator, At
  <1> QED
    BY <1>2, <1>3, <1>4, <1>5, <1>6, <1>7
    DEF MigrationInv, Disk, Reading, Placing, Running, Asked, Moves, At, MigrationPcs

LEMMA InvDiscard ==
    ASSUME NEW p, Instances = {p}, MigrationInv(p), DiscardLegacyLocator(p)
    PROVE  MigrationInv(p)'
  <1>1. CASE End(p) /\ UNCHANGED locator
    <2>1. faults' \in 0..MaxFaults
      BY FaultTypes DEF MigrationInv, DiscardLegacyLocator, Fault, Faulty, TypeOK
    <2> QED
      BY <1>1, <2>1, EndsQuietly DEF DiscardLegacyLocator
  <1>2. CASE /\ Discardable(locator[Legacy.locator])
             /\ locator' = [locator EXCEPT ![Legacy.locator] = None]
             /\ Goto(p, "program")
             /\ UNCHANGED <<migLock, mutex, faults>>
    <2>1. job' \in [Instances -> Jobs] /\ job'[p].pc = "program" /\ job'[p].step = job[p].step
      BY <1>2, GotoJob DEF MigrationInv, TypeOK, Pcs
    <2>2. UNCHANGED <<data, version>>
      BY DEF DiscardLegacyLocator
    <2>3. /\ locator' \in [Locators -> States \cup {None}]
          /\ \A l \in Locators : locator'[l] # None => locator'[l] = locator[l]
      BY <1>2 DEF MigrationInv, TypeOK
    <2>4. TypeOK'
      BY <1>2, <2>1, <2>2, <2>3 DEF MigrationInv, TypeOK
    <2>5. Disk'
      BY <2>2, <2>3 DEF MigrationInv, Disk, Marked, Named, Both, Sound, Managed, Complete, Present,
             GoodRequest, Locators
    <2> QED
      BY <2>1, <2>4, <2>5
      DEF DiscardLegacyLocator, MigrationInv, Disk, Reading, Placing, Running, Asked, Moves, At,
          MigrationPcs
  <1> QED
    BY <1>1, <1>2 DEF DiscardLegacyLocator

LEMMA InvUseLocator ==
    ASSUME NEW p, Instances = {p}, MigrationInv(p), UseLocator(p)
    PROVE  MigrationInv(p)'
  <1>1. job' \in [Instances -> Jobs] /\ job'[p].pc = "existing" /\ job'[p].seen = job[p].seen
    BY CallJob DEF UseLocator, MigrationInv, TypeOK, Pcs, Whys
  <1>2. TypeOK' /\ Disk'
    BY <1>1, MovesQuietly DEF UseLocator, MigrationInv, TypeOK
  <1>3. job[p].seen = Resolved /\ Resolved' = Resolved
    BY DiskStays DEF UseLocator, MigrationInv, Disk, Reading, At
  <1> QED
    BY <1>1, <1>2, <1>3
    DEF MigrationInv, Disk, Reading, Placing, Running, Asked, Moves, At, MigrationPcs

LEMMA InvUseDefaultRoot ==
    ASSUME NEW p, Instances = {p}, MigrationInv(p), UseDefaultRoot(p)
    PROVE  MigrationInv(p)'
  <1> DEFINE a == [root |-> UserRoot, locator |-> None]
  <1>1. CASE End(p)
    BY <1>1, EndsQuietly DEF UseDefaultRoot, MigrationInv, TypeOK
  <1>2. CASE job' = [job EXCEPT ![p].pc = "dirs", ![p].why = "default", ![p].at = a]
             /\ UNCHANGED <<migLock, mutex>>
    <2>1. a \in Places /\ a # None /\ a.locator = None
      BY MigrationAssumption, TypesAssumption DEF Places
    <2> HIDE DEF a
    <2>2. "dirs" \in Pcs /\ "default" \in Whys
      BY DEF Pcs, Whys
    <2>3. job' \in [Instances -> Jobs] /\ job'[p].pc = "dirs" /\ job'[p].why = "default"
          /\ job'[p].at = a
      <3>1. job \in [Instances -> Jobs] /\ p \in Instances
        BY DEF MigrationInv, TypeOK
      <3>2. Place(p, "dirs", "default", a)
        BY <1>2 DEF Place
      <3> QED
        BY <2>1, <2>2, <3>1, <3>2, PlacedJob
    <2>4. TypeOK' /\ Disk'
      BY <1>2, <2>3, MovesQuietly DEF UseDefaultRoot, MigrationInv, TypeOK
    <2> QED
      BY <2>1, <2>3, <2>4
      DEF MigrationInv, Disk, Reading, Placing, Running, Asked, Moves, At, MigrationPcs
  <1> QED
    BY <1>1, <1>2 DEF UseDefaultRoot

\* A file of the data gets a content; nothing that was there goes.
LEMMA DataKept ==
    ASSUME TypeOK, Disk, NEW root \in Roots, NEW f \in Files, NEW c \in Nat \ {0},
           f \in {"dirs", "manifest"} => c = Empty,
           data' = [data EXCEPT ![root][f] = c]
    PROVE  /\ data' \in [Roots -> [Files -> Nat]]
           /\ data'[root][f] = c
           /\ \A r \in Roots, g \in Files : r # root \/ g # f => data'[r][g] = data[r][g]
           /\ \A r \in Roots, g \in Files : data[r][g] # NoFile => data'[r][g] # NoFile
           /\ Marked'
  <1>1. data \in [Roots -> [Files -> Nat]]
    BY DEF TypeOK
  <1>2. /\ data' \in [Roots -> [Files -> Nat]]
        /\ data'[root][f] = c
        /\ \A r \in Roots, g \in Files : r # root \/ g # f => data'[r][g] = data[r][g]
    BY <1>1
  <1>3. Marked'
    BY <1>2 DEF Disk, Marked, Files, Empty
  <1> QED
    BY <1>2, <1>3 DEF NoFile

\* Where nothing goes, what locators and requests say stays true.
LEMMA MoreData ==
    ASSUME TypeOK, Disk,
           \A r \in Roots, g \in Files : data[r][g] # NoFile => data'[r][g] # NoFile
    PROVE  /\ \A r \in Roots : Managed(r) => Managed(r)'
           /\ \A r \in Roots : Complete(r) => Complete(r)'
           /\ \A s \in States : Sound(s) => Sound(s)'
           /\ \A r \in Requests : GoodRequest(r) => GoodRequest(r)'
           /\ UNCHANGED locator => Named' /\ Both'
  <1>1. /\ \A r \in Roots : Managed(r) => Managed(r)'
        /\ \A r \in Roots : Complete(r) => Complete(r)'
        /\ \A r \in Roots : Present(r) => Present(r)'
    BY DEF Managed, Complete, Present, Files, Settings
  <1>2. \A s \in States : Sound(s) => Sound(s)'
    BY <1>1, LocationFields DEF Sound, States
  <1>3. \A r \in Requests : GoodRequest(r) => GoodRequest(r)'
    BY <1>1, LocationFields DEF GoodRequest, Requests
  <1>4. ASSUME UNCHANGED locator PROVE Named'
    <2>1. \A l \in Locators : locator[l] # None =>
             /\ locator[l] \in States
             /\ locator[l].pending # None => locator[l].pending \in Requests
      BY DEF TypeOK, States
    <2> QED
      BY <1>2, <1>3, <1>4, <2>1 DEF Disk, Named
  <1>5. ASSUME UNCHANGED locator PROVE Both'
    <2>1. locator["program"] # None /\ locator["program"].pending # None =>
             locator["program"].pending.target.root \in Roots
      BY LocationFields DEF TypeOK, States, Requests, Locators
    <2> QED
      BY <1>1, <1>5, <2>1 DEF Disk, Both, Arrived
  <1> QED
    BY <1>1, <1>2, <1>3, <1>4, <1>5

LEMMA InvAdoptTarget ==
    ASSUME NEW p, Instances = {p}, MigrationInv(p), AdoptTarget(p)
    PROVE  MigrationInv(p)'
  <1> DEFINE root == LegacyTarget.root
  <1>1. LegacyTarget \in Locations /\ root \in Roots /\ LegacyTarget \in Places
    BY MigrationAssumption, LocationFields DEF AdoptTarget, LegacyFound, Places
  <1>2. job' \in [Instances -> Jobs] /\ job'[p].pc = "write" /\ job'[p].why = "adopt"
        /\ job'[p].at = LegacyTarget
    <2>1. "write" \in Pcs /\ "adopt" \in Whys
      BY DEF Pcs, Whys
    <2>2. job \in [Instances -> Jobs] /\ p \in Instances
      BY DEF MigrationInv, TypeOK
    <2>3. Place(p, "write", "adopt", LegacyTarget)
      BY DEF AdoptTarget, Place
    <2> QED
      BY <1>1, <2>1, <2>2, <2>3, PlacedJob
  <1>3. /\ data' \in [Roots -> [Files -> Nat]] /\ Marked'
        /\ \A r \in Roots, g \in Files : data[r][g] # NoFile => data'[r][g] # NoFile
    <2>1. "dirs" \in Files /\ Empty \in Nat \ {0}
      BY DEF Files, Empty
    <2>2. data' = [data EXCEPT ![root]["dirs"] = Empty] /\ TypeOK /\ Disk
      BY DEF AdoptTarget, MigrationInv, Disk
    <2> QED
      BY <1>1, <2>1, <2>2, DataKept
  <1>4. TypeOK'
    BY <1>2, <1>3 DEF AdoptTarget, MigrationInv, TypeOK
  <1>5. Disk' /\ Managed(root)'
    BY <1>1, <1>3, MoreData DEF AdoptTarget, MigrationInv, Disk
  <1>6. NoLocator'
    BY DEF AdoptTarget, MigrationInv, Reading, Resolved, At, NoLocator, Locators
  <1> QED
    BY <1>1, <1>2, <1>4, <1>5, <1>6
    DEF MigrationInv, Disk, Reading, Placing, Running, Asked, Moves, At, MigrationPcs

LEMMA InvMigrateLegacy ==
    ASSUME Inexhaustible, NEW p, Instances = {p}, MigrationInv(p), MigrateLegacy(p)
    PROVE  MigrationInv(p)'
  <1>1. CASE End(p)
    BY <1>1, EndsQuietly DEF MigrateLegacy, MigrationInv, TypeOK
  <1>2. ASSUME NEW r, r = Request(NewTransaction, Legacy, LegacyTarget, TRUE),
               job' = [job EXCEPT ![p].pc = "lock", ![p].why = "execute", ![p].req = r],
               UNCHANGED <<migLock, mutex>>
        PROVE  MigrationInv(p)'
    <2>1. /\ r \in Requests /\ r # None /\ r.source = Legacy /\ r.target = LegacyTarget
          /\ r.legacy
      <3>1. NewTransaction \in Transactions /\ Legacy \in Locations /\ LegacyTarget \in Locations
        BY NewId, MigrationAssumption DEF MigrateLegacy, LegacyFound
      <3>2. IsOld(r)
        BY <1>2, <3>1 DEF IsOld
      <3> QED
        BY <3>1, <3>2, OldRequest
    <2>2. GoodRequest(r)
      BY <2>1, MigrationAssumption DEF GoodRequest
    <2>3. job' \in [Instances -> Jobs] /\ job'[p].pc = "lock" /\ job'[p].why = "execute"
          /\ job'[p].req = r /\ job'[p].step = job[p].step
      <3>1. "lock" \in Pcs /\ "execute" \in Whys
        BY DEF Pcs, Whys
      <3>2. /\ Ask(p, "lock", "execute", r)
            /\ job \in [Instances -> Jobs] /\ p \in Instances /\ r \in Requests
        BY <1>2, <2>1 DEF MigrationInv, TypeOK, Ask
      <3> QED
        BY <3>1, <3>2, AskedJob
    <2>4. TypeOK' /\ Disk'
      BY <1>2, <2>3, MovesQuietly DEF MigrateLegacy, MigrationInv, TypeOK
    <2>5. NoLocator /\ UNCHANGED <<locator, data>>
      BY DEF MigrateLegacy, MigrationInv, Reading, Resolved, At, NoLocator, Locators
    <2>6. ~SameRoot(r)
      BY <2>1, MigrationAssumption DEF MigrateLegacy, LegacyFound, SameRoot
    <2>7. GoodRequest(r)' /\ OnlySource(r)'
      BY <2>2, <2>5 DEF GoodRequest, Managed, OnlySource, NoLocator
    <2> QED
      BY <2>1, <2>3, <2>4, <2>6, <2>7
      DEF MigrateLegacy, MigrationInv, Disk, Reading, Placing, Running, Asked, Moves, At,
          MigrationPcs, SameRoot
  <1> QED
    BY <1>1, <1>2 DEF MigrateLegacy

LEMMA InvSelectRoot ==
    ASSUME NEW p, Instances = {p}, MigrationInv(p), NEW c \in Choices, SelectRoot(p, c)
    PROVE  MigrationInv(p)'
  <1>1. c \in Locations /\ c # None /\ c \in Places
    BY MigrationAssumption, LocationFields DEF Places
  <1>2. job' \in [Instances -> Jobs] /\ job'[p].pc = "dirs" /\ job'[p].why = "select"
        /\ job'[p].at = c
    <2>1. "dirs" \in Pcs /\ "select" \in Whys
      BY DEF Pcs, Whys
    <2>2. job \in [Instances -> Jobs] /\ p \in Instances
      BY DEF MigrationInv, TypeOK
    <2>3. Place(p, "dirs", "select", c)
      BY DEF SelectRoot, Place
    <2> QED
      BY <1>1, <2>1, <2>2, <2>3, PlacedJob
  <1>3. TypeOK' /\ Disk'
    BY <1>2, MovesQuietly DEF SelectRoot, MigrationInv, TypeOK
  <1>4. NoLocator'
    BY DEF SelectRoot, MigrationInv, Reading, Resolved, At, NoLocator, Locators
  <1> QED
    BY <1>1, <1>2, <1>3, <1>4
    DEF MigrationInv, Disk, Reading, Placing, Running, Asked, Moves, At, MigrationPcs

LEMMA InvCancelSelection ==
    ASSUME NEW p, Instances = {p}, MigrationInv(p), CancelSelection(p)
    PROVE  MigrationInv(p)'
BY EndsQuietly DEF CancelSelection, MigrationInv, TypeOK

-----------------------------------------------------------------------------
(* Placing what was selected, adopted or verified *)

\* The directories or the manifest of a root are made.
LEMMA Makes ==
    ASSUME NEW p, Instances = {p}, MigrationInv(p), NEW root \in Roots,
           NEW f \in {"dirs", "manifest"}, data' = [data EXCEPT ![root][f] = Empty],
           UNCHANGED <<locator, version>>, job' \in [Instances -> Jobs],
           migLock' \in [Locators -> Instances \cup {None}], mutex' \in Instances \cup {None},
           faults' \in 0..MaxFaults
    PROVE  /\ TypeOK' /\ Disk'
           /\ \A r \in Roots : Managed(r) => Managed(r)'
           /\ f = "manifest" => Managed(root)'
  <1>1. f \in Files /\ Empty \in Nat \ {0} /\ TypeOK /\ Disk
    BY DEF Files, Empty, MigrationInv, Disk
  <1>2. /\ data' \in [Roots -> [Files -> Nat]] /\ Marked'
        /\ data'[root][f] = Empty
        /\ \A r \in Roots, g \in Files : data[r][g] # NoFile => data'[r][g] # NoFile
    BY <1>1, DataKept
  <1>3. TypeOK'
    BY <1>2 DEF MigrationInv, TypeOK
  <1>4. Named' /\ Both' /\ \A r \in Roots : Managed(r) => Managed(r)'
    BY <1>1, <1>2, MoreData
  <1> QED
    BY <1>2, <1>3, <1>4 DEF Disk, Managed, NoFile, Empty

LEMMA InvMakeDirectories ==
    ASSUME NEW p, Instances = {p}, MigrationInv(p), MakeDirectories(p)
    PROVE  MigrationInv(p)'
  <1>1. CASE Fault /\ End(p) /\ UNCHANGED data
    BY <1>1, FaultTypes, EndsQuietly DEF MakeDirectories, MigrationInv, Fault
  <1>2. CASE /\ data' = [data EXCEPT ![job[p].at.root]["dirs"] = Empty]
             /\ Goto(p, "manifest")
             /\ UNCHANGED <<migLock, mutex, faults>>
    <2>1. /\ job' \in [Instances -> Jobs] /\ job'[p].pc = "manifest"
          /\ job'[p].why = job[p].why /\ job'[p].at = job[p].at
      BY <1>2, GotoJob DEF MigrationInv, TypeOK, Pcs
    <2>2. job[p].at.root \in Roots
      BY DEF MakeDirectories, MigrationInv, Placing, TypeOK, Jobs, At
    <2>3. TypeOK' /\ Disk'
      BY <1>2, <2>1, <2>2, Makes DEF MakeDirectories, MigrationInv, TypeOK
    <2>4. NoLocator => NoLocator'
      BY DEF MakeDirectories, NoLocator
    <2> QED
      BY <2>1, <2>3, <2>4
      DEF MakeDirectories, MigrationInv, Disk, Reading, Placing, Running, Asked, Moves, At,
          MigrationPcs
  <1> QED
    BY <1>1, <1>2 DEF MakeDirectories

LEMMA InvMakeManifest ==
    ASSUME NEW p, Instances = {p}, MigrationInv(p), MakeManifest(p)
    PROVE  MigrationInv(p)'
  <1>1. CASE Fault /\ End(p) /\ UNCHANGED data
    BY <1>1, FaultTypes, EndsQuietly DEF MakeManifest, MigrationInv, Fault
  <1> DEFINE m == IF Managed(job[p].at.root) THEN {} ELSE {"manifest"}
             pc == IF job[p].why = "select" THEN "write" ELSE "running"
  <1>2. CASE /\ data' = [data EXCEPT ![job[p].at.root]["manifest"] = Empty]
             /\ job' = [job EXCEPT ![p].made = m, ![p].pc = pc]
             /\ UNCHANGED <<migLock, mutex, faults>>
    <2>1. /\ job' \in [Instances -> Jobs] /\ job'[p].pc = pc
          /\ job'[p].why = job[p].why /\ job'[p].at = job[p].at
      <3>1. m \in SUBSET Files /\ pc \in Pcs
        BY DEF Files, Pcs
      <3> HIDE DEF m, pc
      <3> QED
        BY <1>2, <3>1, MadeJob DEF MigrationInv, TypeOK
    <2>2. job[p].at.root \in Roots
      BY DEF MakeManifest, MigrationInv, Placing, TypeOK, Jobs, At
    <2>3. TypeOK' /\ Disk' /\ Managed(job[p].at.root)'
      <3>1. UNCHANGED job[p].at.root
        BY <2>1
      <3>2. PICK root \in Roots : root = job[p].at.root
        BY <2>2
      <3>3. TypeOK' /\ Disk' /\ Managed(root)'
        BY <1>2, <2>1, <3>2, Makes DEF MakeManifest, MigrationInv, TypeOK
      <3> QED
        BY <3>1, <3>2, <3>3 DEF Managed
    <2>4. NoLocator => NoLocator'
      BY DEF MakeManifest, NoLocator
    <2>5. job[p].at \in Choices => job[p].at \in Locations
      BY MigrationAssumption
    <2> QED
      BY <2>1, <2>3, <2>4, <2>5
      DEF MakeManifest, MigrationInv, Disk, Reading, Placing, Running, Asked, Moves, At,
          MigrationPcs, Managed
  <1> QED
    BY <1>1, <1>2 DEF MakeManifest

\* A locator is written, or removed.
LEMMA LocatorSet ==
    ASSUME TypeOK, NEW l \in Locators, NEW s \in States, s.active.locator = l,
           s.pending = None \/ s.last = None, locator' = [locator EXCEPT ![l] = s]
    PROVE  /\ locator' \in [Locators -> States \cup {None}]
           /\ locator'[l] = s /\ s # None
           /\ \A m \in Locators : m # l => locator'[m] = locator[m]
           /\ \A m \in Locators : locator'[m] # None =>
                 /\ locator'[m].active.locator = m
                 /\ locator'[m].pending = None \/ locator'[m].last = None
<1>1. locator \in [Locators -> States \cup {None}] /\ s # None
  BY TypesAssumption DEF TypeOK
<1>2. /\ locator' \in [Locators -> States \cup {None}]
      /\ locator'[l] = s
      /\ \A m \in Locators : m # l => locator'[m] = locator[m]
  BY <1>1
<1> QED
  BY <1>1, <1>2 DEF TypeOK

LEMMA LocatorGone ==
    ASSUME TypeOK, NEW l \in Locators, locator' = [locator EXCEPT ![l] = None]
    PROVE  /\ locator' \in [Locators -> States \cup {None}]
           /\ locator'[l] = None
           /\ \A m \in Locators : m # l => locator'[m] = locator[m]
           /\ \A m \in Locators : locator'[m] # None =>
                 /\ locator'[m].active.locator = m
                 /\ locator'[m].pending = None \/ locator'[m].last = None
<1>1. locator \in [Locators -> States \cup {None}]
  BY DEF TypeOK
<1>2. /\ locator' \in [Locators -> States \cup {None}]
      /\ locator'[l] = None
      /\ \A m \in Locators : m # l => locator'[m] = locator[m]
  BY <1>1
<1> QED
  BY <1>1, <1>2 DEF TypeOK

\* Where the data stays, what is said of each locator stays true of those that stay.
LEMMA NamedSet ==
    ASSUME TypeOK, Named, UNCHANGED data, NEW l \in Locators, NEW s,
           locator'[l] = s,
           s # None => /\ Sound(s)
                       /\ s.pending # None => s.pending.source = s.active /\ GoodRequest(s.pending),
           \A m \in Locators : m # l => locator'[m] = locator[m]
    PROVE  Named'
BY DEF Named, Sound, GoodRequest, Present, Managed

LEMMA MarkedStays ==
    ASSUME Marked, UNCHANGED data
    PROVE  Marked'
BY DEF Marked

\* writeActive's state: the location it names is in use.
LEMMA VerifiedState ==
    ASSUME NEW a \in Locations, Managed(a.root)
    PROVE  /\ State(a, None, TRUE, None) \in States /\ State(a, None, TRUE, None) # None
           /\ State(a, None, TRUE, None).active = a
           /\ State(a, None, TRUE, None).pending = None /\ State(a, None, TRUE, None).last = None
           /\ Sound(State(a, None, TRUE, None))
<1>1. /\ State(a, None, TRUE, None) \in States /\ State(a, None, TRUE, None) # None
      /\ State(a, None, TRUE, None).active = a
      /\ State(a, None, TRUE, None).pending = None /\ State(a, None, TRUE, None).last = None
  <2>1. State(a, None, TRUE, None) \in States
    BY DEF State, States
  <2> QED
    BY <2>1, TypesAssumption DEF State
<1> QED
  BY <1>1 DEF Sound

LEMMA EndsWriting ==
    ASSUME NEW p, Instances = {p}, MigrationInv(p), End(p), TypeOK', Disk'
    PROVE  MigrationInv(p)'
BY Ended, EndTypes DEF MigrationInv

LEMMA InvWriteActive ==
    ASSUME NEW p, Instances = {p}, MigrationInv(p), WriteActive(p)
    PROVE  MigrationInv(p)'
<1> DEFINE a == job[p].at
           l == job[p].at.locator
<1>1. /\ a \in Locations /\ l \in Locators /\ a.root \in Roots /\ Managed(a.root)
      /\ job[p].why \in {"adopt", "select", "verify"} /\ TypeOK /\ Disk /\ p \in Instances
      /\ IF job[p].why = "verify" THEN Resolved # None /\ Resolved.active = a ELSE NoLocator
      /\ UNCHANGED version /\ job \in [Instances -> Jobs]
  BY LocationFields DEF WriteActive, MigrationInv, Disk, Placing, At, TypeOK
<1>2. CASE /\ MayWriteActive(a)
           /\ locator' = [locator EXCEPT ![l] = State(a, None, TRUE, None)]
           /\ IF locator[Other(l)] = None
              THEN Written(p) /\ UNCHANGED mutex
              ELSE /\ job' = [job EXCEPT ![p].pc = "writeRemove", ![p].prev = locator[l]]
                   /\ mutex' = p
           /\ UNCHANGED <<data, migLock, faults>>
  <2> DEFINE s == State(a, None, TRUE, None)
  <2>1. s \in States /\ s # None /\ s.active = a /\ s.pending = None /\ s.last = None /\ Sound(s)
    BY <1>1, VerifiedState
  <2> HIDE DEF s
  <2>2. /\ locator' \in [Locators -> States \cup {None}]
        /\ locator'[l] = s
        /\ \A m \in Locators : m # l => locator'[m] = locator[m]
        /\ \A m \in Locators : locator'[m] # None =>
              /\ locator'[m].active.locator = m
              /\ locator'[m].pending = None \/ locator'[m].last = None
    <3>1. locator' = [locator EXCEPT ![l] = s]
      BY <1>2 DEF s
    <3> HIDE DEF l
    <3> QED
      BY <1>1, <2>1, <3>1, LocatorSet DEF l
  <2>3. Named' /\ Marked'
    <3>1. UNCHANGED data /\ Named /\ Marked /\ TypeOK
      BY <1>1, <1>2 DEF Disk
    <3> HIDE DEF l
    <3> QED
      BY <1>1, <2>1, <2>2, <3>1, NamedSet, MarkedStays
  <2>4. Both'
    <3>1. Both
      BY <1>1 DEF Disk
    <3>2. locator'["program"] # None => locator'["program"].pending = None
      BY <1>1, <1>2, <2>1, <2>2 DEF MayWriteActive, Resolved, Locators, NoLocator
    <3> QED
      BY <3>2 DEF Both
  <2>5. CASE locator[Other(l)] # None
    <3>1. job[p].why = "verify" /\ l = "program" /\ Other(l) = "user"
      BY <1>1, <2>5, Others DEF NoLocator, Resolved, TypeOK, Locators
    <3>2. /\ locator["program"] # None /\ locator["program"] \in States
          /\ locator["program"].active = a /\ locator["program"].pending = None
          /\ Sound(locator["program"])
      BY <1>1, <1>2, <2>5, <3>1 DEF Resolved, MayWriteActive, Disk, Named, TypeOK, Locators
    <3>3. /\ job' \in [Instances -> Jobs] /\ job'[p].pc = "writeRemove"
          /\ job'[p].prev = locator["program"] /\ job'[p].why = "verify" /\ job'[p].at = a
      <4>1. job' = [job EXCEPT ![p].pc = "writeRemove", ![p].prev = locator["program"]]
        BY <1>2, <2>5, <3>1
      <4>2. "writeRemove" \in Pcs
        BY DEF Pcs
      <4>3. PICK s0 \in States : s0 = locator["program"]
        BY <3>2
      <4>4. /\ job' \in [Instances -> Jobs] /\ job'[p].pc = "writeRemove"
            /\ job'[p].prev = s0 /\ job'[p].why = job[p].why /\ job'[p].at = job[p].at
        <5>1. Remember(p, "writeRemove", s0) /\ job \in [Instances -> Jobs] /\ p \in Instances
          BY <1>1, <4>1, <4>3 DEF Remember
        <5> QED
          BY <4>2, <5>1, PrevJob
      <4> QED
        BY <3>1, <4>3, <4>4
    <3>4. TypeOK'
      BY <1>1, <1>2, <2>2, <2>5, <3>3 DEF TypeOK
    <3>5. Placing(p)'
      <4>1. Sound(job[p].prev)'
        BY <1>2, <3>2, <3>3 DEF Sound, Managed, Present
      <4> QED
        BY <1>1, <2>2, <3>1, <3>2, <3>3, <4>1 DEF Placing, At, s
    <3> QED
      BY <2>3, <2>4, <3>3, <3>4, <3>5
      DEF MigrationInv, Reading, Running, Asked, Moves, At, MigrationPcs
  <2>6. CASE locator[Other(l)] = None /\ job[p].why = "verify"
    <3>1. job' = [job EXCEPT ![p] = [Idle EXCEPT !.pc = "running", !.at = a]] /\ UNCHANGED mutex
      BY <1>2, <2>6 DEF Written
    <3>2. job' \in [Instances -> Jobs] /\ job'[p].pc = "running" /\ job'[p].at = a
      <4> DEFINE k == [Idle EXCEPT !.pc = "running", !.at = a]
      <4>1. a \in Places
        BY <1>1, LocationFields DEF Places
      <4> HIDE DEF a
      <4>2. k \in Jobs /\ k.pc = "running" /\ k.at = a
        BY <4>1, IdleIsJob DEF Jobs, Pcs, Places
      <4> QED
        BY <1>1, <3>1, <4>2, FreshJob
    <3>3. TypeOK'
      BY <1>1, <1>2, <2>2, <3>1, <3>2 DEF TypeOK
    <3>4. Running(p)'
      BY <1>1, <2>1, <2>2, <2>6, <3>2, Others, LocationFields DEF Running
    <3> QED
      BY <2>3, <2>4, <3>2, <3>3, <3>4
      DEF MigrationInv, Reading, Placing, Asked, Moves, At, MigrationPcs
  <2>7. CASE job[p].why = "adopt"
    <3>1. locator[Other(l)] = None
      BY <1>1, <2>7, Others DEF NoLocator
    <3>2. Call(p, "write", "verify") /\ UNCHANGED mutex
      BY <1>2, <2>7, <3>1 DEF Written
    <3>3. /\ job' \in [Instances -> Jobs] /\ job'[p].pc = "write" /\ job'[p].why = "verify"
          /\ job'[p].at = a
      BY <1>1, <3>2, CallJob DEF Pcs, Whys
    <3>4. TypeOK'
      BY <1>1, <1>2, <2>2, <3>2, <3>3 DEF TypeOK
    <3>5. Placing(p)'
      <4>1. Resolved' # None /\ (Resolved.active)' = a
        BY <1>1, <2>1, <2>2, <2>7 DEF Resolved, NoLocator, Locators
      <4>2. Managed(a.root)'
        BY <1>1, <1>2, <3>3 DEF Managed
      <4> QED
        BY <1>1, <3>3, <4>1, <4>2 DEF Placing, At, Managed
    <3> QED
      BY <2>3, <2>4, <3>3, <3>4, <3>5
      DEF MigrationInv, Reading, Running, Asked, Moves, At, MigrationPcs
  <2>8. CASE job[p].why = "select"
    <3>1. locator[Other(l)] = None
      BY <1>1, <2>8, Others DEF NoLocator
    <3>2. /\ job' = [job EXCEPT ![p] = [Idle EXCEPT !.pc = "program", !.why = "existing"]]
          /\ UNCHANGED mutex
      BY <1>2, <2>8, <3>1 DEF Written
    <3>3. job' \in [Instances -> Jobs] /\ job'[p].pc = "program" /\ job'[p].step = 1
      <4>1. PICK k : k = [Idle EXCEPT !.pc = "program", !.why = "existing"]
        OBVIOUS
      <4>2. "existing" \in Whys /\ 0 \in 0..MaxTries
        BY DEF Whys, MaxTries
      <4>3. k \in Jobs /\ k.pc = "program" /\ k.step = 1
        BY <4>1, <4>2, FreshRead
      <4> QED
        BY <1>1, <3>2, <4>1, <4>3, FreshJob
    <3>4. TypeOK'
      BY <1>1, <1>2, <2>2, <3>2, <3>3 DEF TypeOK
    <3> QED
      BY <2>3, <2>4, <3>3, <3>4
      DEF MigrationInv, Reading, Placing, Running, Asked, Moves, At, MigrationPcs
  <2> QED
    BY <1>1, <2>5, <2>6, <2>7, <2>8
<1>3. CASE NotWritten(p) /\ UNCHANGED locator
  <2>1. faults' \in 0..MaxFaults
    BY FaultTypes DEF WriteActive, Fault, MigrationInv, TypeOK
  <2>2. CASE UNCHANGED data
    BY <1>1, <1>3, <2>1, <2>2, EndsQuietly DEF NotWritten
  <2>3. CASE /\ job[p].why = "select"
             /\ data' = [data EXCEPT ![a.root]["manifest"] = NoFile]
    <3>1. data' \in [Roots -> [Files -> Nat]] /\ Marked'
      <4>1. data \in [Roots -> [Files -> Nat]] /\ "manifest" \in Files /\ a.root \in Roots
        BY <1>1 DEF TypeOK, Files
      <4>2. /\ data' \in [Roots -> [Files -> Nat]]
            /\ data'[a.root]["manifest"] = NoFile
            /\ \A r \in Roots, f \in Files :
                  r # a.root \/ f # "manifest" => data'[r][f] = data[r][f]
        BY <2>3, <4>1 DEF NoFile
      <4> QED
        BY <1>1, <4>2 DEF Disk, Marked, Files
    <3>2. NoLocator /\ UNCHANGED locator
      BY <1>1, <1>3, <2>3
    <3>3. Named' /\ Both'
      BY <3>2 DEF NoLocator, Named, Both, Locators
    <3>4. TypeOK'
      BY <1>1, <1>3, <2>1, <3>1, <3>2, EndTypes DEF TypeOK, NotWritten
    <3> QED
      BY <1>3, <3>1, <3>3, <3>4, EndsWriting DEF NotWritten, Disk
  <2> QED
    BY <1>3, <2>2, <2>3 DEF NotWritten
<1> QED
  BY <1>2, <1>3 DEF WriteActive

LEMMA InvRemoveConflicting ==
    ASSUME NEW p, Instances = {p}, MigrationInv(p), RemoveConflicting(p)
    PROVE  MigrationInv(p)'
<1> DEFINE a == job[p].at
<1>1. /\ a \in Locations /\ a.locator = "program" /\ a \in Places
      /\ job[p].why = "verify" /\ TypeOK /\ Disk /\ p \in Instances
      /\ locator["program"] = State(a, None, TRUE, None)
      /\ job[p].prev # None /\ job[p].prev \in States /\ Sound(job[p].prev)
      /\ job[p].prev.active = a /\ job[p].prev.pending = None
      /\ job \in [Instances -> Jobs] /\ UNCHANGED version
  <2>1. a \in Locations /\ job[p] \in Jobs
    BY DEF RemoveConflicting, MigrationInv, Placing, At, TypeOK
  <2> QED
    BY <2>1, LocationFields
    DEF RemoveConflicting, MigrationInv, Disk, Placing, At, TypeOK, Jobs, Places
<1>2. CASE /\ locator' = [locator EXCEPT ![Other("program")] = None]
           /\ Written(p) /\ mutex' = None
           /\ UNCHANGED <<data, migLock, faults>>
  <2>1. /\ locator' \in [Locators -> States \cup {None}]
        /\ locator'["user"] = None
        /\ \A m \in Locators : m # "user" => locator'[m] = locator[m]
        /\ \A m \in Locators : locator'[m] # None =>
              /\ locator'[m].active.locator = m
              /\ locator'[m].pending = None \/ locator'[m].last = None
    BY <1>1, <1>2, Others, LocatorGone DEF Locators
  <2>2. Disk'
    BY <1>1, <1>2, <2>1, NamedSet, MarkedStays DEF Disk, Both, Locators
  <2>3. job' = [job EXCEPT ![p] = [Idle EXCEPT !.pc = "running", !.at = a]]
    BY <1>1, <1>2 DEF Written
  <2>4. job' \in [Instances -> Jobs] /\ job'[p].pc = "running" /\ job'[p].at = a
    <3>1. PICK b \in Places : b = a
      BY <1>1
    <3> DEFINE k == [Idle EXCEPT !.pc = "running", !.at = b]
    <3>2. k \in Jobs /\ k.pc = "running" /\ k.at = b
      BY IdleIsJob DEF Jobs, Pcs, Places
    <3>3. job' = [job EXCEPT ![p] = k]
      BY <2>3, <3>1
    <3> QED
      BY <1>1, <3>1, <3>2, <3>3, FreshJob
  <2>5. TypeOK'
    BY <1>1, <1>2, <2>1, <2>4 DEF TypeOK
  <2>6. Running(p)'
    <3>1. /\ State(a, None, TRUE, None) # None /\ State(a, None, TRUE, None).active = a
      <4>1. State(a, None, TRUE, None) \in States
        BY <1>1 DEF State, States
      <4> QED
        BY <4>1, TypesAssumption DEF State
    <3> QED
      <4>1. job'[p].at.locator = "program" /\ Other("program") = "user"
        BY <1>1, <2>4, Others
      <4>2. locator'["program"] # None /\ locator'["program"].active = a
        BY <1>1, <2>1, <3>1 DEF Locators
      <4>3. locator'["user"] = None
        BY <2>1
      <4> QED
        BY <1>1, <2>4, <4>1, <4>2, <4>3, LocationFields DEF Running
  <2> QED
    BY <2>2, <2>4, <2>5, <2>6
    DEF MigrationInv, Disk, Reading, Placing, Asked, Moves, At, MigrationPcs
<1>3. CASE /\ Fault
           /\ locator' \in {locator, [locator EXCEPT !["program"] = job[p].prev]}
           /\ NotWritten(p)
  <2>1. UNCHANGED data /\ End(p) /\ faults' \in 0..MaxFaults
    BY <1>1, <1>3, FaultTypes DEF NotWritten, Fault
  <2>2. CASE UNCHANGED locator
    BY <1>1, <2>1, <2>2, EndsQuietly
  <2>3. CASE locator' = [locator EXCEPT !["program"] = job[p].prev]
    <3>1. PICK s \in States : s = job[p].prev
      BY <1>1
    <3>2. /\ locator' \in [Locators -> States \cup {None}]
          /\ locator'["program"] = s
          /\ \A m \in Locators : m # "program" => locator'[m] = locator[m]
          /\ \A m \in Locators : locator'[m] # None =>
                /\ locator'[m].active.locator = m
                /\ locator'[m].pending = None \/ locator'[m].last = None
      <4>1. locator' = [locator EXCEPT !["program"] = s] /\ "program" \in Locators
        BY <2>3, <3>1 DEF Locators
      <4>2. s.active.locator = "program" /\ s.pending = None
        BY <1>1, <3>1
      <4> QED
        BY <1>1, <4>1, <4>2, LocatorSet
    <3>3. Disk'
      BY <1>1, <2>1, <3>1, <3>2, NamedSet, MarkedStays DEF Disk, Both, Locators
    <3>4. TypeOK'
      BY <1>1, <2>1, <3>2, EndTypes DEF TypeOK
    <3> QED
      BY <2>1, <3>3, <3>4, EndsWriting
  <2> QED
    BY <1>3, <2>2, <2>3
<1> QED
  BY <1>1, <1>2, <1>3 DEF RemoveConflicting

-----------------------------------------------------------------------------
(* resolveExisting *)

LEMMA InvGiveUp ==
    ASSUME NEW p, Instances = {p}, MigrationInv(p), GiveUp(p)
    PROVE  MigrationInv(p)'
BY EndsQuietly DEF GiveUp, MigrationInv, TypeOK

LEMMA InvInstall ==
    ASSUME NEW p, Instances = {p}, MigrationInv(p), Install(p)
    PROVE  MigrationInv(p)'
<1>1. /\ job[p].seen = Resolved /\ Resolved # None /\ Managed(Resolved.active.root)
      /\ Resolved.active \in Locations
  BY DEF Install, MigrationInv, Reading, At, TypeOK, States, Resolved, Locators
<1>2. PICK a \in Locations : a = Resolved.active
  BY <1>1
<1>3. PICK pc, why : /\ pc = (IF p \in Greps THEN "running" ELSE "write")
                     /\ why = (IF p \in Greps THEN "none" ELSE "verify")
  OBVIOUS
<1>4. PICK k : k = [Idle EXCEPT !.at = a, !.pc = pc, !.why = why]
  OBVIOUS
<1>5. k \in Jobs /\ k.pc = pc /\ k.why = why /\ k.at = a
  <2>1. pc \in Pcs /\ why \in Whys
    BY <1>3 DEF Pcs, Whys
  <2>2. a \in Places
    BY LocationFields DEF Places
  <2> QED
    BY <1>4, <2>1, <2>2, IdleIsJob DEF Jobs, Places
<1>6. job' \in [Instances -> Jobs] /\ job'[p] = k
  <2>1. job' = [job EXCEPT ![p] = k]
    BY <1>1, <1>2, <1>3, <1>4 DEF Install
  <2> QED
    BY <1>5, <2>1, FreshJob DEF MigrationInv, TypeOK
<1>7. TypeOK' /\ Disk' /\ Managed(a.root)'
  <2>1. a.root \in Roots /\ Managed(a.root)
    BY <1>1, <1>2, LocationFields
  <2>2. data' = [data EXCEPT ![a.root]["dirs"] = Empty] /\ UNCHANGED <<locator, version>>
    BY <1>1, <1>2 DEF Install
  <2>3. /\ migLock' \in [Locators -> Instances \cup {None}] /\ mutex' \in Instances \cup {None}
        /\ faults' \in 0..MaxFaults
    BY DEF Install, MigrationInv, TypeOK
  <2> QED
    BY <1>6, <2>1, <2>2, <2>3, Makes
<1>8. Resolved' = Resolved
  BY DEF Install, Resolved
<1>9. a # None
  BY LocationFields
<1> QED
  BY <1>1, <1>2, <1>3, <1>5, <1>6, <1>7, <1>8, <1>9
  DEF MigrationInv, Disk, Reading, Placing, Running, Asked, Moves, At, MigrationPcs, Managed

\* What a locator has pending is a good request, from what it names.
LEMMA PendingFields ==
    ASSUME TypeOK, Named, NEW l \in Locators, locator[l] # None, locator[l].pending # None
    PROVE  LET r == locator[l].pending IN
           /\ r \in Requests /\ r.source = locator[l].active /\ r.source.locator = l
           /\ GoodRequest(r)
BY DEF TypeOK, Named, States

LEMMA InvRecoverFirst ==
    ASSUME NEW p, Instances = {p}, MigrationInv(p), RecoverFirst(p)
    PROVE  MigrationInv(p)'
<1>1. job[p].seen = Resolved /\ Resolved # None /\ Resolved.pending # None
  BY DEF RecoverFirst, MigrationInv, Reading, At
<1>2. PICK l \in Locators : Resolved = locator[l]
  BY DEF Resolved, Locators
<1>3. PICK r \in Requests : r = Resolved.pending /\ GoodRequest(r)
  BY <1>1, <1>2, PendingFields DEF MigrationInv
<1>4. PICK n \in 0..MaxTries : n = job[p].tries + 1
  BY DEF RecoverFirst, MigrationInv, TypeOK, Jobs, MaxTries
<1>5. PICK k : k = Asking("recover", r, n)
  OBVIOUS
<1>6. k \in Jobs /\ k.pc = "lock" /\ k.why = "recover" /\ k.req = r /\ k.made = {} /\ k.step = 1
  <2>1. "recover" \in Whys
    BY DEF Whys
  <2> QED
    BY <1>5, <2>1, FreshAsked
<1>7. job' \in [Instances -> Jobs] /\ job'[p] = k
  <2>1. job' = [job EXCEPT ![p] = k]
    BY <1>1, <1>3, <1>4, <1>5 DEF RecoverFirst, Asking
  <2> QED
    BY <1>6, <2>1, FreshJob DEF MigrationInv, TypeOK
<1>8. TypeOK' /\ Disk'
  BY <1>7, MovesQuietly DEF RecoverFirst, MigrationInv, TypeOK
<1>9. Resolved' = Resolved /\ GoodRequest(r)' /\ r # None
  BY <1>3, TypesAssumption DEF RecoverFirst, Resolved, GoodRequest, Managed
<1> QED
  BY <1>1, <1>3, <1>6, <1>7, <1>8, <1>9
  DEF MigrationInv, Disk, Reading, Placing, Running, Asked, Moves, At, MigrationPcs

-----------------------------------------------------------------------------
(* A migration *)

\* What is known of a migration wherever it is.
LEMMA AskedFields ==
    ASSUME NEW p, Instances = {p}, MigrationInv(p), job[p].pc \in MigrationPcs
    PROVE  LET r == job[p].req IN
           /\ r \in Requests /\ r # None /\ GoodRequest(r)
           /\ r.source \in Locations /\ r.target \in Locations /\ r.tx \in Transactions
           /\ r.source.locator \in Locators /\ r.target.locator \in Locators
           /\ r.source.root \in Roots /\ r.target.root \in Roots
           /\ job[p].why \in {"recover", "execute"}
           /\ job \in [Instances -> Jobs] /\ p \in Instances /\ TypeOK /\ Disk
  <1>1. job[p].req \in Requests /\ job[p].req # None
    BY DEF MigrationInv, Asked, TypeOK, Jobs
  <1>2. job[p].req.source \in Locations /\ job[p].req.target \in Locations
        /\ job[p].req.tx \in Transactions
    BY <1>1 DEF Requests
  <1> QED
    BY <1>1, <1>2, LocationFields DEF MigrationInv, Asked, TypeOK, Disk

LEMMA InvTakeLock ==
    ASSUME NEW p, Instances = {p}, MigrationInv(p), TakeLock(p)
    PROVE  MigrationInv(p)'
<1> DEFINE l == job[p].req.source.locator
           pc == IF job[p].why = "recover" THEN "judge" ELSE "pend"
<1>1. job[p].pc \in MigrationPcs
  BY DEF TakeLock, At, MigrationPcs
<1>2. CASE End(p)
  BY <1>2, EndsQuietly DEF TakeLock, MigrationInv, TypeOK
<1>3. CASE migLock' = [migLock EXCEPT ![l] = p] /\ Goto(p, pc) /\ UNCHANGED mutex
  <2>1. /\ job' \in [Instances -> Jobs] /\ job'[p].pc = pc /\ job'[p].why = job[p].why
        /\ job'[p].req = job[p].req /\ job'[p].made = job[p].made /\ job'[p].step = job[p].step
    <3>1. pc \in Pcs /\ job \in [Instances -> Jobs] /\ p \in Instances
      BY <1>1, AskedFields DEF Pcs
    <3> HIDE DEF pc
    <3> QED
      BY <1>3, <3>1, GotoJob
  <2>2. migLock' \in [Locators -> Instances \cup {None}]
    BY <1>3 DEF MigrationInv, TypeOK
  <2>3. TypeOK' /\ Disk'
    BY <1>3, <2>1, <2>2, MovesQuietly DEF TakeLock, MigrationInv, TypeOK
  <2>4. PICK r \in Requests : r = job[p].req /\ GoodRequest(r)
    BY <1>1, AskedFields
  <2>5. Resolved' = Resolved /\ (GoodRequest(r) => GoodRequest(r)')
        /\ (OnlySource(r) => OnlySource(r)')
    BY DEF TakeLock, Resolved, GoodRequest, Managed, OnlySource
  <2> QED
    BY <1>1, <2>1, <2>3, <2>4, <2>5
    DEF TakeLock, MigrationInv, Disk, Reading, Placing, Running, Asked, Moves, At, MigrationPcs,
        SameRoot
<1> QED
  BY <1>2, <1>3 DEF TakeLock

\* What a commit writes.
LEMMA ArrivedState ==
    ASSUME NEW r \in Requests
    PROVE  /\ Arrived(r) \in States /\ Arrived(r) # None /\ Arrived(r).active = r.target
           /\ Arrived(r).pending = None /\ ~Arrived(r).verified
           /\ Arrived(r).last = Last(r.tx, "committed") /\ Last(r.tx, "committed") # None
<1>1. Last(r.tx, "committed") \in Outcomes
  BY DEF Last, Outcomes, Requests
<1>2. Arrived(r) \in States
  BY <1>1 DEF Arrived, State, States, Requests
<1> QED
  BY <1>1, <1>2, TypesAssumption DEF Arrived, State

LEMMA ArrivedSound ==
    ASSUME NEW r \in Requests, Complete(r.target.root)
    PROVE  Sound(Arrived(r))
BY ArrivedState DEF Sound, Complete, Managed, Present

\* Requests that are the same arrive at the same.
LEMMA SamePending ==
    ASSUME TypeOK, Named, NEW r \in Requests, r.source.locator \in Locators, PendingIs(r)
    PROVE  LET s == locator[r.source.locator] IN
           /\ s # None /\ s.pending # None /\ s.active = r.source
           /\ s.pending \in Requests
           /\ s.pending.tx = r.tx /\ s.pending.source = r.source
           /\ s.pending.target = r.target /\ s.pending.legacy = r.legacy
           /\ Arrived(s.pending) = Arrived(r)
<1>1. /\ locator[r.source.locator] # None /\ locator[r.source.locator].pending # None
      /\ SameRequest(locator[r.source.locator].pending, r)
  BY DEF PendingIs
<1>2. PICK q \in Requests : q = locator[r.source.locator].pending
                            /\ q.source = locator[r.source.locator].active
  BY <1>1, PendingFields
<1>3. q.tx = r.tx /\ q.source = r.source /\ q.target = r.target /\ q.legacy = r.legacy
  BY <1>1, <1>2, SameFields
<1> QED
  BY <1>1, <1>2, <1>3 DEF Arrived

\* At a commit: the target is complete, and a second locator is what it wrote already.
LEMMA CommitFields ==
    ASSUME NEW p, Instances = {p}, MigrationInv(p),
           job[p].pc \in {"commit", "commitRemove", "commitFailed"}
    PROVE  LET r == job[p].req
               other == locator[Other(r.source.locator)] IN
           /\ PendingIs(r) /\ Complete(r.target.root)
           /\ other # None => r.target.locator # r.source.locator /\ other = Arrived(r)
BY DEF MigrationInv, Moves, At

Succeeded(p) == job'[p].pc = "program" /\ job'[p].step = 1

LEMMA SucceedFields ==
    ASSUME NEW p, Instances = {p}, MigrationInv(p), job[p].pc \in MigrationPcs, Succeed(p)
    PROVE  /\ job' \in [Instances -> Jobs] /\ Succeeded(p)
           /\ migLock' \in [Locators -> Instances \cup {None}]
<1>1. job \in [Instances -> Jobs] /\ p \in Instances /\ job[p].tries \in 0..MaxTries
  BY DEF MigrationInv, TypeOK, Jobs
<1>2. PICK n \in 0..MaxTries : n = job[p].tries
  BY <1>1
<1>3. PICK k : k = [Idle EXCEPT !.pc = "program", !.why = "existing", !.tries = n]
  OBVIOUS
<1>4. k \in Jobs /\ k.pc = "program" /\ k.step = 1
  BY <1>3, FreshRead DEF Whys
<1>5. job' \in [Instances -> Jobs] /\ job'[p] = k
  BY <1>1, <1>2, <1>3, <1>4, FreshJob DEF Succeed
<1> QED
  BY <1>4, <1>5 DEF Succeed, Succeeded, Unlocked, MigrationInv, TypeOK

\* A start that reads the locators again says nothing more.
LEMMA ReadsAgain ==
    ASSUME NEW p, Instances = {p}, TypeOK', Disk', Succeeded(p)
    PROVE  MigrationInv(p)'
BY DEF MigrationInv, Disk, Succeeded, Reading, Placing, Running, Asked, Moves, At, MigrationPcs

LEMMA InvCommitInPlace ==
    ASSUME NEW p, Instances = {p}, MigrationInv(p), CommitInPlace(p)
    PROVE  MigrationInv(p)'
<1>1. At(p, "commit") /\ job[p].pc \in MigrationPcs
  BY DEF CommitInPlace, At, MigrationPcs
<1>2. PICK r \in Requests : r = job[p].req
  BY <1>1, AskedFields
<1>3. /\ TypeOK /\ Disk /\ r.target.locator \in Locators /\ r.target \in Locations
      /\ r.target.locator = r.source.locator /\ r.target.root \in Roots
  BY <1>1, <1>2, AskedFields DEF CommitInPlace
<1>4. /\ Complete(r.target.root)
      /\ locator[Other(r.source.locator)] = None
  BY <1>1, <1>2, <1>3, CommitFields DEF At
<1>5. PICK s \in States : s = Arrived(r)
  BY ArrivedState
<1>6. /\ s.active = r.target /\ s.pending = None /\ Sound(s)
  BY <1>4, <1>5, ArrivedState, ArrivedSound
<1>7. /\ locator' = [locator EXCEPT ![r.target.locator] = s]
      /\ Succeed(p) /\ UNCHANGED <<data, version, mutex, faults>>
  BY <1>2, <1>5 DEF CommitInPlace, Arrived
<1>8. /\ locator' \in [Locators -> States \cup {None}]
      /\ locator'[r.target.locator] = s /\ s # None
      /\ \A m \in Locators : m # r.target.locator => locator'[m] = locator[m]
      /\ \A m \in Locators : locator'[m] # None =>
            /\ locator'[m].active.locator = m
            /\ locator'[m].pending = None \/ locator'[m].last = None
  BY <1>3, <1>6, <1>7, LocatorSet
<1>9. Disk'
  <2>1. Named' /\ Marked'
    BY <1>3, <1>6, <1>7, <1>8, NamedSet, MarkedStays DEF Disk
  <2>2. Both'
    BY <1>3, <1>4, <1>6, <1>8, Others DEF Both, Locators
  <2> QED
    BY <2>1, <2>2 DEF Disk
<1>10. job' \in [Instances -> Jobs] /\ Succeeded(p)
       /\ migLock' \in [Locators -> Instances \cup {None}]
  BY <1>1, <1>7, SucceedFields
<1>11. TypeOK'
  BY <1>3, <1>7, <1>8, <1>10 DEF TypeOK
<1> QED
  BY <1>9, <1>10, <1>11, ReadsAgain

LEMMA InvCommitTarget ==
    ASSUME NEW p, Instances = {p}, MigrationInv(p), CommitTarget(p)
    PROVE  MigrationInv(p)'
<1>1. At(p, "commit") /\ job[p].pc \in MigrationPcs
  BY DEF CommitTarget, At, MigrationPcs
<1>2. PICK r \in Requests : r = job[p].req /\ r # None /\ GoodRequest(r)
  BY <1>1, AskedFields
<1>3. /\ TypeOK /\ Disk /\ r.target.locator \in Locators /\ r.target \in Locations
      /\ r.source.locator \in Locators /\ p \in Instances /\ job \in [Instances -> Jobs]
      /\ r.target.locator # r.source.locator /\ r.target.root \in Roots
  BY <1>1, <1>2, AskedFields DEF CommitTarget
<1>4. /\ Complete(r.target.root) /\ PendingIs(r)
      /\ locator[r.target.locator] \in {None, Arrived(r)}
      /\ r.target.locator = Other(r.source.locator)
  BY <1>1, <1>2, <1>3, CommitFields, Others DEF At
<1>5. PICK s \in States : s = Arrived(r)
  BY ArrivedState
<1>6. /\ s.active = r.target /\ s.pending = None /\ Sound(s)
  BY <1>4, <1>5, ArrivedState, ArrivedSound
<1>7. /\ locator' = [locator EXCEPT ![r.target.locator] = s]
      /\ UNCHANGED <<data, version, migLock, faults>> /\ mutex' = p
  BY <1>2, <1>5 DEF CommitTarget, Arrived
<1>8. /\ locator' \in [Locators -> States \cup {None}]
      /\ locator'[r.target.locator] = s /\ s # None
      /\ \A m \in Locators : m # r.target.locator => locator'[m] = locator[m]
      /\ \A m \in Locators : locator'[m] # None =>
            /\ locator'[m].active.locator = m
            /\ locator'[m].pending = None \/ locator'[m].last = None
  BY <1>3, <1>6, <1>7, LocatorSet
<1>9. PendingIs(r)'
  BY <1>3, <1>4, <1>8 DEF PendingIs
<1>10. Disk'
  <2>1. Named' /\ Marked'
    BY <1>3, <1>6, <1>7, <1>8, NamedSet, MarkedStays DEF Disk
  <2>2. Both'
    <3>1. CASE r.target.locator = "program"
      BY <1>6, <1>8, <3>1 DEF Both
    <3>2. CASE r.target.locator = "user"
      <4>1. r.source.locator = "program"
        BY <1>3, <3>2 DEF Locators
      <4>2. /\ locator["program"].pending.target = r.target
            /\ Arrived(locator["program"].pending) = Arrived(r)
            /\ locator'["program"] = locator["program"]
        BY <1>3, <1>4, <1>8, <4>1, SamePending DEF Disk
      <4>3. Complete(r.target.root)'
        BY <1>4, <1>7 DEF Complete
      <4> QED
        BY <1>5, <1>8, <3>2, <4>1, <4>2, <4>3 DEF Both, Complete, Arrived
    <3> QED
      BY <1>3, <3>1, <3>2 DEF Locators
  <2> QED
    BY <2>1, <2>2 DEF Disk
<1>11. /\ job' \in [Instances -> Jobs] /\ job'[p].pc = "commitRemove"
       /\ job'[p].prev = locator[r.target.locator] /\ job'[p].req = r
       /\ job'[p].why = job[p].why /\ job'[p].made = job[p].made
  <2>1. PICK q \in States \cup {None} : q = locator[r.target.locator]
    BY <1>3 DEF TypeOK
  <2>2. Remember(p, "commitRemove", q) /\ "commitRemove" \in Pcs
    BY <1>2, <2>1 DEF CommitTarget, Pcs, Remember
  <2> QED
    BY <1>2, <1>3, <2>1, <2>2, PrevJob
<1>12. TypeOK'
  BY <1>3, <1>7, <1>8, <1>11 DEF TypeOK
<1>13. Asked(p)'
  <2>1. GoodRequest(r)'
    BY <1>2, <1>7 DEF GoodRequest, Managed
  <2> QED
    BY <1>1, <1>2, <1>11, <2>1 DEF MigrationInv, Asked, SameRoot
<1>14. Moves(p)'
  <2>1. Complete(r.target.root)'
    BY <1>4, <1>7 DEF Complete
  <2> QED
    BY <1>1, <1>2, <1>3, <1>4, <1>5, <1>8, <1>9, <1>11, <2>1
    DEF Moves, At, Complete, Arrived, PendingIs
<1> QED
  BY <1>10, <1>11, <1>12, <1>13, <1>14
  DEF MigrationInv, Disk, Reading, Placing, Running, At

LEMMA InvCommitRefused ==
    ASSUME NEW p, Instances = {p}, MigrationInv(p), CommitRefused(p)
    PROVE  MigrationInv(p)'
<1>1. At(p, "commit") /\ job[p].pc \in MigrationPcs
  BY DEF CommitRefused, At, MigrationPcs
<1>2. PICK r \in Requests : r = job[p].req /\ r # None /\ GoodRequest(r)
  BY <1>1, AskedFields
<1>3. /\ job' \in [Instances -> Jobs] /\ job'[p].pc = "commitFailed" /\ job'[p].why = job[p].why
      /\ job'[p].req = r /\ job'[p].made = job[p].made
  BY <1>1, <1>2, AskedFields, GotoJob DEF CommitRefused, Pcs
<1>4. TypeOK' /\ Disk'
  <2>1. faults' \in 0..MaxFaults
    BY FaultTypes DEF CommitRefused, Fault, MigrationInv, TypeOK
  <2> QED
    BY <1>3, <2>1, MovesQuietly DEF CommitRefused, MigrationInv, TypeOK
<1>5. UNCHANGED <<locator, data>>
  BY DEF CommitRefused
<1>6. GoodRequest(r)' /\ Complete(r.target.root)' /\ PendingIs(r)'
      /\ (locator[Other(r.source.locator)] # None =>
             r.target.locator # r.source.locator /\ locator[Other(r.source.locator)] = Arrived(r))
  BY <1>1, <1>2, <1>5, CommitFields DEF GoodRequest, Managed, Complete, PendingIs, At
<1> QED
  BY <1>1, <1>2, <1>3, <1>4, <1>5, <1>6
  DEF MigrationInv, Disk, Reading, Placing, Running, Asked, Moves, At, SameRoot, Complete,
      PendingIs,
      MigrationPcs

LEMMA InvCommitRemoveSource ==
    ASSUME NEW p, Instances = {p}, MigrationInv(p), CommitRemoveSource(p)
    PROVE  MigrationInv(p)'
<1>1. At(p, "commitRemove") /\ job[p].pc \in MigrationPcs
  BY DEF CommitRemoveSource, At, MigrationPcs
<1>2. PICK r \in Requests : r = job[p].req /\ r # None /\ GoodRequest(r)
  BY <1>1, AskedFields
<1>3. /\ TypeOK /\ Disk /\ r.target.locator \in Locators /\ r.source.locator \in Locators
      /\ r.target.root \in Roots /\ mutex' = None /\ UNCHANGED <<data, version>>
      /\ p \in Instances /\ job \in [Instances -> Jobs]
  BY <1>1, <1>2, AskedFields DEF CommitRemoveSource
<1>4. /\ Complete(r.target.root) /\ PendingIs(r)
      /\ locator[r.target.locator] = Arrived(r)
      /\ r.target.locator = Other(r.source.locator) /\ r.target.locator # r.source.locator
      /\ job[p].prev \in {None, Arrived(r)}
  <2>1. r.target.locator # r.source.locator /\ locator[r.target.locator] = Arrived(r)
        /\ job[p].prev \in {None, Arrived(r)}
    BY <1>1, <1>2 DEF MigrationInv, Moves, At
  <2> QED
    BY <1>1, <1>2, <1>3, <2>1, CommitFields, Others DEF At
<1>5. /\ Arrived(r) \in States /\ Arrived(r) # None /\ Arrived(r).pending = None
      /\ Arrived(r).active = r.target
  BY ArrivedState
<1>6. CASE /\ locator' = [locator EXCEPT ![r.source.locator] = None]
           /\ Succeed(p) /\ UNCHANGED faults
  <2>1. /\ locator' \in [Locators -> States \cup {None}]
        /\ locator'[r.source.locator] = None
        /\ \A m \in Locators : m # r.source.locator => locator'[m] = locator[m]
        /\ \A m \in Locators : locator'[m] # None =>
              /\ locator'[m].active.locator = m
              /\ locator'[m].pending = None \/ locator'[m].last = None
    BY <1>3, <1>6, LocatorGone
  <2>2. Disk'
    <3>1. Named' /\ Marked'
      BY <1>3, <2>1, NamedSet, MarkedStays DEF Disk
    <3>2. Both'
      BY <1>3, <2>1 DEF Both, Locators
    <3> QED
      BY <3>1, <3>2 DEF Disk
  <2>3. job' \in [Instances -> Jobs] /\ Succeeded(p)
        /\ migLock' \in [Locators -> Instances \cup {None}]
    BY <1>1, <1>6, SucceedFields
  <2>4. TypeOK'
    BY <1>3, <1>6, <2>1, <2>3 DEF TypeOK
  <2> QED
    BY <2>2, <2>3, <2>4, ReadsAgain
<1>7. CASE /\ Fault
           /\ locator' \in {locator, [locator EXCEPT ![r.target.locator] = job[p].prev]}
           /\ Goto(p, "commitFailed") /\ UNCHANGED migLock
  <2>1. /\ locator' \in [Locators -> States \cup {None}]
        /\ locator'[r.target.locator] \in {None, Arrived(r)}
        /\ \A m \in Locators : m # r.target.locator => locator'[m] = locator[m]
        /\ \A m \in Locators : locator'[m] # None =>
              /\ locator'[m].active.locator = m
              /\ locator'[m].pending = None \/ locator'[m].last = None
    <3>1. CASE locator' = [locator EXCEPT ![r.target.locator] = None]
      BY <1>3, <3>1, LocatorGone
    <3>2. CASE locator' = locator
      BY <1>3, <1>4, <3>2 DEF TypeOK
    <3>3. CASE locator' = [locator EXCEPT ![r.target.locator] = Arrived(r)]
      <4>1. locator' = locator
        BY <1>3, <1>4, <3>3 DEF TypeOK
      <4> QED
        BY <3>2, <4>1
    <3> QED
      BY <1>4, <1>7, <3>1, <3>2, <3>3
  <2>2. Disk'
    <3>1. Named'
      BY <1>3, <1>4, <1>5, <2>1, NamedSet, ArrivedSound DEF Disk
    <3>2. Marked'
      BY <1>3, MarkedStays DEF Disk
    <3>3. Both'
      <4>1. CASE r.target.locator = "program"
        BY <1>5, <2>1, <4>1 DEF Both
      <4>2. CASE r.target.locator = "user"
        <5>1. locator'["program"] = locator["program"]
          BY <1>3, <2>1, <4>2 DEF Locators
        <5>2. locator'["user"] # None => locator'["user"] = locator["user"]
          BY <1>4, <2>1, <4>2
        <5> QED
          BY <1>3, <5>1, <5>2 DEF Disk, Both, Complete
      <4> QED
        BY <1>3, <4>1, <4>2 DEF Locators
    <3> QED
      BY <3>1, <3>2, <3>3 DEF Disk
  <2>3. /\ job' \in [Instances -> Jobs] /\ job'[p].pc = "commitFailed"
        /\ job'[p].why = job[p].why /\ job'[p].req = r /\ job'[p].made = job[p].made
    BY <1>2, <1>3, <1>7, GotoJob DEF Pcs
  <2>4. TypeOK'
    <3>1. faults' \in 0..MaxFaults
      BY <1>3, <1>7, FaultTypes DEF Fault
    <3> QED
      BY <1>3, <1>7, <2>1, <2>3, <3>1 DEF TypeOK
  <2>5. Asked(p)'
    <3>1. GoodRequest(r)'
      BY <1>2, <1>3 DEF GoodRequest, Managed
    <3> QED
      BY <1>1, <1>2, <2>3, <3>1 DEF MigrationInv, Asked, SameRoot
  <2>6. Moves(p)'
    <3>1. Complete(r.target.root)' /\ PendingIs(r)'
      BY <1>3, <1>4, <2>1 DEF Complete, PendingIs
    <3> QED
      BY <1>3, <1>4, <2>1, <2>3, <3>1 DEF Moves, At, Complete, PendingIs
  <2> QED
    BY <2>2, <2>3, <2>4, <2>5, <2>6
    DEF MigrationInv, Disk, Reading, Placing, Running, At
<1> QED
  BY <1>2, <1>6, <1>7 DEF CommitRemoveSource

\* A migration that goes on where it stands.
LEMMA StaysAsked ==
    ASSUME NEW p, Instances = {p}, MigrationInv(p), NEW pc \in MigrationPcs,
           job[p].pc \in MigrationPcs, Goto(p, pc), UNCHANGED <<locator, data, version>>,
           migLock' \in [Locators -> Instances \cup {None}], mutex' \in Instances \cup {None},
           faults' \in 0..MaxFaults
    PROVE  /\ TypeOK' /\ Disk' /\ Asked(p)' /\ (pc \notin {"lock", "pend"} => Reading(p)')
           /\ Placing(p)' /\ Running(p)'
           /\ job'[p].pc = pc /\ job'[p].why = job[p].why /\ job'[p].req = job[p].req
           /\ job'[p].made = job[p].made /\ job'[p].step = job[p].step
<1>1. pc \in Pcs
  BY DEF MigrationPcs, Pcs
<1>2. /\ job' \in [Instances -> Jobs]
      /\ job'[p].pc = pc /\ job'[p].why = job[p].why /\ job'[p].req = job[p].req
      /\ job'[p].made = job[p].made /\ job'[p].step = job[p].step
  BY <1>1, AskedFields, GotoJob
<1>3. TypeOK' /\ Disk'
  BY <1>2, MovesQuietly
<1>4. Asked(p)'
  BY <1>2 DEF MigrationInv, Asked, GoodRequest, Managed, SameRoot
<1> QED
  BY <1>2, <1>3, <1>4 DEF Reading, Placing, Running, At, MigrationPcs

LEMMA InvCommitFailed ==
    ASSUME NEW p, Instances = {p}, MigrationInv(p), CommitFailed(p)
    PROVE  MigrationInv(p)'
<1>1. At(p, "commitFailed") /\ job[p].pc \in MigrationPcs
  BY DEF CommitFailed, At, MigrationPcs
<1>2. PICK r \in Requests : r = job[p].req
  BY <1>1, AskedFields
<1>3. TypeOK /\ Disk /\ r.target.locator \in Locators /\ r.source.locator \in Locators
  BY <1>1, <1>2, AskedFields
<1>4. CASE End(p)
  BY <1>4, EndsQuietly DEF CommitFailed, MigrationInv, TypeOK
<1>5. CASE /\ ~TargetRemainsCommitted(r)
           /\ Goto(p, "rollback") /\ UNCHANGED <<migLock, mutex>>
  <2>1. /\ TypeOK' /\ Disk' /\ Asked(p)' /\ Reading(p)' /\ Placing(p)' /\ Running(p)'
        /\ job'[p].pc = "rollback" /\ job'[p].req = r
    BY <1>1, <1>2, <1>5, StaysAsked DEF CommitFailed, MigrationInv, TypeOK, MigrationPcs
  <2>2. OnlySource(r)
    <3>1. /\ PendingIs(r)
          /\ locator[Other(r.source.locator)] # None =>
                /\ r.target.locator # r.source.locator
                /\ locator[Other(r.source.locator)] = Arrived(r)
      BY <1>1, <1>2, CommitFields DEF At
    <3>2. locator[Other(r.source.locator)] = None
      <4>1. Arrived(r) # None /\ Arrived(r).pending = None /\ ~Arrived(r).verified
            /\ Arrived(r).active = r.target /\ Arrived(r).last = Last(r.tx, "committed")
        BY ArrivedState
      <4> QED
        BY <1>3, <1>5, <3>1, <4>1, Others DEF TargetRemainsCommitted
    <3> QED
      BY <1>3, <3>1, <3>2, SamePending, Others DEF OnlySource, Disk
  <2>3. OnlySource(r)'
    BY <2>2 DEF CommitFailed, OnlySource
  <2> QED
    BY <2>1, <2>3 DEF MigrationInv, Disk, Moves, At
<1> QED
  BY <1>2, <1>4, <1>5 DEF CommitFailed

LEMMA InvRollbackPending ==
    ASSUME NEW p, Instances = {p}, MigrationInv(p), RollbackPending(p)
    PROVE  MigrationInv(p)'
<1>1. At(p, "rollback") /\ job[p].pc \in MigrationPcs
  BY DEF RollbackPending, At, MigrationPcs
<1>2. PICK r \in Requests : r = job[p].req /\ r # None /\ GoodRequest(r)
  BY <1>1, AskedFields
<1>3. /\ TypeOK /\ Disk /\ r.source.locator \in Locators /\ r.source \in Locations
      /\ r.source.root \in Roots /\ r.tx \in Transactions
      /\ p \in Instances /\ job \in [Instances -> Jobs]
      /\ UNCHANGED <<data, version, mutex, faults>>
  BY <1>1, <1>2, AskedFields DEF RollbackPending
<1>4. PendingIs(r) /\ OnlySource(r)
  BY <1>1, <1>2 DEF RollbackPending, MigrationInv, Moves, At
<1>5. PICK s \in States \cup {None} :
         /\ locator' = [locator EXCEPT ![r.source.locator] = s]
         /\ s # None => /\ s.active = r.source /\ s.pending = None
                        /\ s.last # None => s.last.outcome = "rolledBack"
  <2>1. PICK v \in BOOLEAN : v = locator[r.source.locator].verified
    BY <1>3, <1>4 DEF PendingIs, TypeOK, States
  <2>2. PICK b \in BOOLEAN : b = locator[r.source.locator].pending.existed
    <3>1. locator[r.source.locator].pending \in Requests
      BY <1>3, <1>4, SamePending DEF Disk
    <3> QED
      BY <3>1 DEF Requests
  <2>3. locator' = [locator EXCEPT ![r.source.locator] =
           IF b THEN State(r.source, None, v, Last(r.tx, "rolledBack")) ELSE None]
    BY <1>2, <2>1, <2>2 DEF RollbackPending
  <2>4. /\ Last(r.tx, "rolledBack") \in Outcomes
        /\ Last(r.tx, "rolledBack").outcome = "rolledBack"
    BY <1>3 DEF Last, Outcomes
  <2>5. State(r.source, None, v, Last(r.tx, "rolledBack")) \in States
    BY <1>3, <2>4 DEF State, States
  <2>6. PICK z : z = State(r.source, None, v, Last(r.tx, "rolledBack"))
    OBVIOUS
  <2>7. /\ z \in States /\ z.active = r.source /\ z.pending = None
        /\ z.last.outcome = "rolledBack"
    BY <2>4, <2>5, <2>6 DEF State
  <2>8. \/ locator' = [locator EXCEPT ![r.source.locator] = z]
        \/ locator' = [locator EXCEPT ![r.source.locator] = None]
    BY <2>3, <2>6
  <2> QED
    BY <2>7, <2>8
<1>6. /\ locator' \in [Locators -> States \cup {None}]
      /\ locator'[r.source.locator] = s
      /\ \A m \in Locators : m # r.source.locator => locator'[m] = locator[m]
      /\ \A m \in Locators : locator'[m] # None =>
            /\ locator'[m].active.locator = m
            /\ locator'[m].pending = None \/ locator'[m].last = None
  BY <1>3, <1>5, LocatorSet, LocatorGone
<1>7. OnlySource(r)'
  BY <1>4, <1>5, <1>6 DEF OnlySource
<1>8. Disk'
  <2>1. s # None => Sound(s)
    BY <1>2, <1>5 DEF Sound, GoodRequest
  <2>2. Named' /\ Marked'
    BY <1>3, <1>5, <1>6, <2>1, NamedSet, MarkedStays DEF Disk
  <2>3. Both'
    BY <1>7 DEF OnlySource, Both, Locators
  <2> QED
    BY <2>2, <2>3 DEF Disk
<1>9. GoodRequest(r)'
  BY <1>2, <1>3 DEF GoodRequest, Managed
<1>10. CASE job[p].why = "recover"
  <2>1. PICK n \in 0..MaxTries : n = job[p].tries
    BY <1>3 DEF Jobs
  <2>2. PICK k : k = Asking("execute", r, n)
    OBVIOUS
  <2>3. k \in Jobs /\ k.pc = "lock" /\ k.why = "execute" /\ k.req = r /\ k.made = {} /\ k.step = 1
    <3>1. "execute" \in Whys
      BY DEF Whys
    <3> QED
      BY <2>2, <3>1, FreshAsked
  <2>4. job' \in [Instances -> Jobs] /\ job'[p] = k
    <3>1. job' = [job EXCEPT ![p] = k]
      BY <1>2, <1>10, <2>1, <2>2 DEF RollbackPending, RolledBack, Asking
    <3> QED
      BY <1>3, <2>3, <3>1, FreshJob
  <2>5. TypeOK'
    <3>1. migLock' \in [Locators -> Instances \cup {None}]
      BY <1>3, <1>10 DEF TypeOK, RollbackPending, RolledBack, Unlocked
    <3> QED
      BY <1>3, <1>6, <2>4, <3>1 DEF TypeOK
  <2> QED
    BY <1>2, <1>7, <1>8, <1>9, <2>3, <2>4, <2>5
    DEF MigrationInv, Disk, Reading, Placing, Running, Asked, Moves, At, MigrationPcs
<1>11. CASE job[p].why = "execute"
  <2>1. Goto(p, "cleanup") /\ UNCHANGED migLock
    BY <1>11 DEF RollbackPending, RolledBack
  <2>2. /\ job' \in [Instances -> Jobs] /\ job'[p].pc = "cleanup"
        /\ job'[p].why = job[p].why /\ job'[p].req = r /\ job'[p].made = job[p].made
    BY <1>2, <1>3, <2>1, GotoJob DEF Pcs
  <2>3. TypeOK'
    BY <1>3, <1>6, <2>1, <2>2 DEF TypeOK
  <2> QED
    BY <1>1, <1>2, <1>7, <1>8, <1>9, <1>11, <2>2, <2>3
    DEF MigrationInv, Disk, Reading, Placing, Running, Asked, Moves, At, MigrationPcs, SameRoot
<1> QED
  BY <1>1, <1>10, <1>11, AskedFields

LEMMA InvRollbackRefused ==
    ASSUME NEW p, Instances = {p}, MigrationInv(p), RollbackRefused(p)
    PROVE  MigrationInv(p)'
<1>1. At(p, "rollback") /\ job[p].pc \in MigrationPcs
  BY DEF RollbackRefused, At, MigrationPcs
<1>2. faults' \in 0..MaxFaults
  BY FaultTypes DEF RollbackRefused, Fault, MigrationInv, TypeOK
<1>3. CASE job[p].why = "recover"
  BY <1>2, <1>3, EndsQuietly DEF RollbackRefused
<1>4. CASE job[p].why = "execute"
  <2>1. /\ TypeOK' /\ Disk' /\ Asked(p)' /\ Reading(p)' /\ Placing(p)' /\ Running(p)'
        /\ job'[p].pc = "cleanup" /\ job'[p].req = job[p].req /\ job'[p].why = "execute"
    BY <1>1, <1>2, <1>4, StaysAsked DEF RollbackRefused, MigrationInv, TypeOK, MigrationPcs
  <2>2. OnlySource(job[p].req)'
    BY <1>1, <2>1 DEF MigrationInv, Moves, At, RollbackRefused, OnlySource
  <2> QED
    BY <2>1, <2>2 DEF MigrationInv, Disk, Moves, At
<1> QED
  BY <1>1, <1>3, <1>4, AskedFields

-----------------------------------------------------------------------------
(* recoverPending *)

\* Where a recovery judges, the locators say what it read.
LEMMA JudgeFields ==
    ASSUME NEW p, Instances = {p}, MigrationInv(p), At(p, "judge"),
           NEW r \in Requests, r = job[p].req
    PROVE  /\ PendingIs(r)
           /\ locator[Other(r.source.locator)] # None =>
                 /\ Complete(r.target.root) /\ r.target.locator # r.source.locator
                 /\ locator[Other(r.source.locator)] = Arrived(r)
           /\ locator[r.source.locator].active = r.source
<1>1. Resolved # None /\ Resolved.pending = r /\ r # None /\ TypeOK /\ Disk
  BY DEF MigrationInv, Moves, Asked, At, MigrationPcs, Disk
<1>2. PICK l \in Locators : /\ Resolved = locator[l]
                            /\ l = "user" => locator["program"] = None
  BY DEF Resolved, Locators
<1>3. r.source.locator = l /\ r.source = locator[l].active
  BY <1>1, <1>2, PendingFields DEF Disk
<1>4. PendingIs(r)
  BY <1>1, <1>2, <1>3, SameIsSame DEF PendingIs
<1>5. CASE l = "program"
  BY <1>1, <1>2, <1>3, <1>4, <1>5, Others DEF Disk, Both
<1>6. CASE l = "user"
  BY <1>2, <1>3, <1>4, <1>6, Others
<1> QED
  BY <1>5, <1>6 DEF Locators

LEMMA InvJudgePending ==
    ASSUME NEW p, Instances = {p}, MigrationInv(p), JudgePending(p)
    PROVE  MigrationInv(p)'
<1>1. At(p, "judge") /\ job[p].pc \in MigrationPcs
  BY DEF JudgePending, At, MigrationPcs
<1>2. PICK r \in Requests : r = job[p].req
  BY <1>1, AskedFields
<1>3. /\ PendingIs(r) /\ r.source.locator \in Locators
      /\ locator[Other(r.source.locator)] # None =>
            /\ Complete(r.target.root) /\ r.target.locator # r.source.locator
            /\ locator[Other(r.source.locator)] = Arrived(r)
      /\ locator[r.source.locator].active = r.source
  BY <1>1, <1>2, AskedFields, JudgeFields
<1>4. PICK pc \in {"commit", "rollback"} : /\ Goto(p, pc)
                                           /\ pc = "commit" <=> Complete(r.target.root)
  BY <1>2 DEF JudgePending
<1>5. /\ TypeOK' /\ Disk' /\ Asked(p)' /\ Reading(p)' /\ Placing(p)' /\ Running(p)'
      /\ job'[p].pc = pc /\ job'[p].req = r
  BY <1>1, <1>2, <1>4, StaysAsked DEF JudgePending, MigrationInv, TypeOK, MigrationPcs
<1>6. pc = "rollback" => OnlySource(r)'
  BY <1>3, <1>4, Others DEF OnlySource, JudgePending
<1>7. pc = "commit" => Complete(r.target.root)' /\ PendingIs(r)'
  BY <1>3, <1>4 DEF Complete, PendingIs, JudgePending
<1>8. UNCHANGED locator
  BY DEF JudgePending
<1> QED
  BY <1>3, <1>4, <1>5, <1>6, <1>7, <1>8
  DEF MigrationInv, Disk, Moves, At, Complete, PendingIs, Arrived

\* One process never finds that another has decided its migration.
LEMMA InvJudgeOutcome ==
    ASSUME NEW p, Instances = {p}, MigrationInv(p), JudgeOutcome(p)
    PROVE  FALSE
<1>1. At(p, "judge") /\ job[p].pc \in MigrationPcs
  BY DEF JudgeOutcome, At, MigrationPcs
<1>2. PICK r \in Requests : r = job[p].req
  BY <1>1, AskedFields
<1> QED
  BY <1>1, <1>2, JudgeFields DEF JudgeOutcome

-----------------------------------------------------------------------------
(* execute *)

\* What is written as pending, by a start or by the options.
LEMMA PendingState ==
    ASSUME NEW r \in Requests, NEW b \in BOOLEAN, NEW v \in BOOLEAN, r.source \in Locations
    PROVE  LET q == [r EXCEPT !.existed = b]
               s == State(r.source, q, v, None) IN
           /\ s \in States /\ s # None /\ q # None /\ s.active = r.source
           /\ s.pending = q /\ s.last = None /\ q.source = r.source
           /\ q.target = r.target /\ q.legacy = r.legacy /\ SameRequest(q, r)
<1>1. [r EXCEPT !.existed = b] \in Requests
  BY SameIsSame
<1>2. State(r.source, [r EXCEPT !.existed = b], v, None) \in States
  BY <1>1 DEF State, States
<1> QED
  BY <1>1, <1>2, SameIsSame, TypesAssumption DEF State

LEMMA PendingIsWritten ==
    ASSUME NEW r \in Requests, r.source \in Locations, r.source.locator \in Locators,
           TypeOK, Disk, OnlySource(r), GoodRequest(r),
           locator' = PendingWritten(r), UNCHANGED data
    PROVE  /\ locator' \in [Locators -> States \cup {None}]
           /\ \A m \in Locators : locator'[m] # None =>
                 /\ locator'[m].active.locator = m
                 /\ locator'[m].pending = None \/ locator'[m].last = None
           /\ Disk' /\ PendingIs(r)' /\ OnlySource(r)'
<1> DEFINE l == r.source.locator
<1>1. CASE PendingIs(r)
  <2>1. UNCHANGED locator
    BY <1>1 DEF PendingWritten
  <2> QED
    BY <1>1, <2>1, DiskStays DEF PendingIs, OnlySource, TypeOK
<1>2. CASE ~PendingIs(r)
  <2>1. PICK b \in BOOLEAN : b = (locator[l] # None)
    OBVIOUS
  <2>2. PICK v \in BOOLEAN : v = (locator[l] # None /\ locator[l].verified)
    BY DEF TypeOK, States
  <2>3. PICK q \in Requests : q = [r EXCEPT !.existed = b]
    BY SameIsSame
  <2>4. PICK s \in States : s = State(r.source, q, v, None)
    BY <2>3, PendingState
  <2>5. /\ s # None /\ s.active = r.source /\ s.pending = q /\ s.last = None
        /\ q # None /\ q.source = r.source /\ q.target = r.target /\ q.legacy = r.legacy
        /\ SameRequest(q, r)
    BY <2>3, <2>4, PendingState
  <2>6. locator' = [locator EXCEPT ![l] = s]
    BY <1>2, <2>1, <2>2, <2>3, <2>4 DEF PendingWritten
  <2>7. /\ locator' \in [Locators -> States \cup {None}]
        /\ locator'[l] = s
        /\ \A m \in Locators : m # l => locator'[m] = locator[m]
        /\ \A m \in Locators : locator'[m] # None =>
              /\ locator'[m].active.locator = m
              /\ locator'[m].pending = None \/ locator'[m].last = None
    BY <2>5, <2>6, LocatorSet
  <2>8. OnlySource(r)'
    BY <2>5, <2>7 DEF OnlySource
  <2>9. PendingIs(r)'
    BY <2>5, <2>7 DEF PendingIs
  <2>10. Disk'
    <3>1. Sound(s) /\ GoodRequest(q)
      BY <2>5 DEF Sound, GoodRequest
    <3>2. Named' /\ Marked'
      BY <2>5, <2>7, <3>1, NamedSet, MarkedStays DEF Disk
    <3>3. Both'
      BY <2>8 DEF OnlySource, Both, Locators
    <3> QED
      BY <3>2, <3>3 DEF Disk
  <2> QED
    BY <2>7, <2>8, <2>9, <2>10
<1> QED
  BY <1>1, <1>2

LEMMA InvWritePending ==
    ASSUME NEW p, Instances = {p}, MigrationInv(p), WritePending(p)
    PROVE  MigrationInv(p)'
<1>1. At(p, "pend") /\ job[p].pc \in MigrationPcs
  BY DEF WritePending, At, MigrationPcs
<1>2. PICK r \in Requests : r = job[p].req /\ r # None /\ GoodRequest(r)
  BY <1>1, AskedFields
<1>3. /\ TypeOK /\ Disk /\ r.source.locator \in Locators /\ r.source \in Locations
      /\ p \in Instances /\ job \in [Instances -> Jobs] /\ UNCHANGED <<data, version>>
  BY <1>1, <1>2, AskedFields DEF WritePending
<1>4. OnlySource(r) /\ job[p].why = "execute" /\ job[p].step = 1
  BY <1>1, <1>2 DEF MigrationInv, Moves, Reading, At
<1>5. CASE End(p) /\ UNCHANGED locator
  <2>1. faults' \in 0..MaxFaults
    BY FaultTypes DEF WritePending, Fault, MigrationInv, TypeOK
  <2> QED
    BY <1>3, <1>5, <2>1, EndsQuietly
<1>6. CASE /\ locator' = PendingWritten(r)
           /\ Goto(p, IF ~SameRoot(r) THEN "copy"
                      ELSE IF Complete(r.target.root) THEN "commit" ELSE "rollback")
           /\ UNCHANGED <<migLock, mutex, faults>>
  <2>1. PICK pc \in {"copy", "commit", "rollback"} :
           /\ Goto(p, pc)
           /\ pc = "copy" => ~SameRoot(r)
           /\ pc = "commit" => Complete(r.target.root)
    BY <1>6
  <2>2. /\ job' \in [Instances -> Jobs] /\ job'[p].pc = pc /\ job'[p].why = "execute"
        /\ job'[p].req = r /\ job'[p].made = job[p].made /\ job'[p].step = 1
    BY <1>2, <1>3, <1>4, <2>1, GotoJob DEF Pcs
  <2>3. /\ locator' \in [Locators -> States \cup {None}]
        /\ \A m \in Locators : locator'[m] # None =>
              /\ locator'[m].active.locator = m
              /\ locator'[m].pending = None \/ locator'[m].last = None
        /\ Disk' /\ PendingIs(r)' /\ OnlySource(r)'
    BY <1>2, <1>3, <1>4, <1>6, PendingIsWritten
  <2>4. TypeOK'
    BY <1>3, <1>6, <2>2, <2>3 DEF TypeOK
  <2>5. Asked(p)'
    <3>1. GoodRequest(r)'
      BY <1>2, <1>3 DEF GoodRequest, Managed
    <3> QED
      BY <1>1, <1>2, <2>2, <3>1 DEF MigrationInv, Asked, SameRoot
  <2>6. Moves(p)'
    <3>1. pc = "commit" => Complete(r.target.root)'
      BY <1>3, <2>1 DEF Complete
    <3>2. locator'[Other(r.source.locator)] = None
      BY <1>3, <2>3, Others DEF OnlySource
    <3> QED
      BY <2>1, <2>2, <2>3, <3>1, <3>2 DEF Moves, At, Complete, PendingIs, OnlySource, SameRoot
  <2> QED
    BY <2>2, <2>3, <2>4, <2>5, <2>6 DEF MigrationInv, Disk, Reading, Placing, Running, At
<1> QED
  BY <1>2, <1>5, <1>6 DEF WritePending

\* What a copy makes of the record.
LEMMA CopiedJob ==
    ASSUME job \in [Instances -> Jobs], NEW p \in Instances, NEW pc \in Pcs,
           NEW n \in 1..5, NEW m \in SUBSET Files,
           job' = [job EXCEPT ![p].made = @ \cup m, ![p].step = n, ![p].pc = pc]
    PROVE  /\ job' \in [Instances -> Jobs] /\ job'[p].pc = pc /\ job'[p].step = n
           /\ job'[p].made = job[p].made \cup m
           /\ job'[p].why = job[p].why /\ job'[p].req = job[p].req
<1> DEFINE k == [job[p] EXCEPT !.made = job[p].made \cup m, !.step = n, !.pc = pc]
<1>1. k \in Jobs
  BY DEF Jobs
<1>2. job' = [job EXCEPT ![p] = k]
  OBVIOUS
<1> QED
  BY <1>1, <1>2 DEF Jobs

LEMMA Steps ==
    /\ CopyOrder[1] = "dirs" /\ CopyOrder[2] = "config" /\ CopyOrder[3] = "session"
    /\ CopyOrder[4] = "logs" /\ CopyOrder[5] = "manifest"
    /\ \A i \in 1..5 : CopyOrder[i] \in Files
    /\ \A i \in 1..5 : CopyOrder[i] = "manifest" <=> i = 5
    /\ \A i \in 1..5 : CopyOrder[i] # "manifest" => i + 1 \in 1..5
BY DEF CopyOrder, Files

\* A file that is to be made has a content; only the logs may not be.
LEMMA WantedContent ==
    ASSUME NEW r \in Requests, NEW f \in Files, r.source.root \in Roots, TypeOK
    PROVE  /\ Wanted(r, f) \in Nat
           /\ f # "logs" => Wanted(r, f) # NoFile
           /\ f \in {"dirs", "manifest"} => Wanted(r, f) = Empty
<1>1. data[r.source.root] \in [Files -> Nat]
  BY DEF TypeOK
<1>2. SourceContent(r, f) \in Nat
  BY <1>1 DEF SourceContent, Files, NoFile
<1> QED
  BY <1>2 DEF Wanted, Files, Settings, NoFile, Empty

LEMMA InvCopy ==
    ASSUME NEW p, Instances = {p}, MigrationInv(p), Copy(p)
    PROVE  MigrationInv(p)'
<1>1. At(p, "copy") /\ job[p].pc \in MigrationPcs
  BY DEF Copy, At, MigrationPcs
<1>2. PICK r \in Requests : r = job[p].req /\ r # None /\ GoodRequest(r)
  BY <1>1, AskedFields
<1>3. /\ TypeOK /\ Disk /\ r.source.locator \in Locators /\ r.target.root \in Roots
      /\ r.source.root \in Roots
      /\ p \in Instances /\ job \in [Instances -> Jobs]
      /\ UNCHANGED <<locator, version, migLock, mutex>>
  BY <1>1, <1>2, AskedFields DEF Copy
<1>4. /\ PendingIs(r) /\ OnlySource(r) /\ job[p].why = "execute" /\ ~SameRoot(r)
      /\ \A i \in 1..(job[p].step - 1) :
            CopyOrder[i] # "logs" => data[r.target.root][CopyOrder[i]] # NoFile
  BY <1>1, <1>2 DEF MigrationInv, Moves, At
<1>5. PICK n \in 1..5 : n = job[p].step
  BY <1>3 DEF Jobs
<1>6. PICK f \in Files : f = CopyOrder[n]
  BY Steps
<1>7. OnlySource(r)' /\ PendingIs(r)'
  BY <1>3, <1>4 DEF OnlySource, PendingIs
<1>8. CASE /\ Goto(p, "rollback") /\ UNCHANGED data
           /\ Fault \/ UNCHANGED faults
  <2>1. faults' \in 0..MaxFaults
    BY <1>3, <1>8, FaultTypes DEF Fault
  <2>2. /\ TypeOK' /\ Disk' /\ Asked(p)' /\ Reading(p)' /\ Placing(p)' /\ Running(p)'
        /\ job'[p].pc = "rollback" /\ job'[p].req = r
    BY <1>1, <1>2, <1>3, <1>8, <2>1, StaysAsked DEF MigrationPcs, TypeOK
  <2> QED
    BY <1>7, <2>2 DEF MigrationInv, Disk, Moves, At
<1> DEFINE there == data[r.target.root][f]
           m == IF there = NoFile /\ Wanted(r, f) # NoFile THEN {f} ELSE {}
<1>9. CASE /\ data' = IF m = {} THEN data
                      ELSE [data EXCEPT ![r.target.root][f] = Wanted(r, f)]
           /\ job' = [job EXCEPT
                 ![p].made = @ \cup m,
                 ![p].step = IF f = "manifest" THEN 1 ELSE @ + 1,
                 ![p].pc = IF f = "manifest" THEN "commit"
                           ELSE IF Conflicts(r, f) THEN "rollback" ELSE "copy"]
           /\ UNCHANGED faults
  <2>1. PICK pc \in {"commit", "rollback", "copy"}, next \in 1..5 :
           /\ f = "manifest" <=> pc = "commit"
           /\ f # "manifest" => next = n + 1
           /\ job' = [job EXCEPT ![p].made = @ \cup m, ![p].step = next, ![p].pc = pc]
    <3>1. PICK pc : pc = (IF f = "manifest" THEN "commit"
                          ELSE IF Conflicts(r, f) THEN "rollback" ELSE "copy")
      OBVIOUS
    <3>2. PICK next : next = (IF f = "manifest" THEN 1 ELSE n + 1)
      OBVIOUS
    <3>3. job' = [job EXCEPT ![p].made = @ \cup m, ![p].step = next, ![p].pc = pc]
      BY <1>5, <1>9, <3>1, <3>2
    <3>4. next \in 1..5 /\ (f # "manifest" => next = n + 1)
      BY <1>5, <1>6, <3>2, Steps
    <3>5. pc \in {"commit", "rollback", "copy"} /\ (f = "manifest" <=> pc = "commit")
      BY <3>1
    <3> QED
      BY <3>3, <3>4, <3>5
  <2>2. /\ job' \in [Instances -> Jobs] /\ job'[p].pc = pc /\ job'[p].step = next
        /\ job'[p].why = "execute" /\ job'[p].req = r
    <3>1. pc \in Pcs /\ m \in SUBSET Files
      BY DEF Pcs
    <3> HIDE DEF m
    <3>2. next \in 1..5 /\ job \in [Instances -> Jobs] /\ p \in Instances
          /\ job' = [job EXCEPT ![p].made = @ \cup m, ![p].step = next, ![p].pc = pc]
      BY <1>3, <2>1
    <3>3. /\ job' \in [Instances -> Jobs] /\ job'[p].pc = pc /\ job'[p].step = next
          /\ job'[p].why = job[p].why /\ job'[p].req = job[p].req
      BY <3>1, <3>2, CopiedJob
    <3> QED
      BY <1>2, <1>4, <3>3
  <2>3. /\ data' \in [Roots -> [Files -> Nat]] /\ Marked'
        /\ \A q \in Roots, g \in Files : data[q][g] # NoFile => data'[q][g] # NoFile
        /\ f # "logs" => data'[r.target.root][f] # NoFile
    <3>1. CASE UNCHANGED data /\ (there # NoFile \/ f = "logs")
      BY <1>3, <3>1 DEF TypeOK, Disk, Marked
    <3>2. CASE /\ data' = [data EXCEPT ![r.target.root][f] = Wanted(r, f)]
               /\ Wanted(r, f) # NoFile
      <4>1. PICK c \in Nat \ {0} : c = Wanted(r, f) /\ (f \in {"dirs", "manifest"} => c = Empty)
        BY <1>3, <3>2, WantedContent DEF NoFile
      <4>2. PICK root \in Roots : root = r.target.root
        BY <1>3
      <4>3. data' = [data EXCEPT ![root][f] = c]
        BY <3>2, <4>1, <4>2
      <4>4. /\ data' \in [Roots -> [Files -> Nat]] /\ Marked'
            /\ data'[root][f] = c
            /\ \A q \in Roots, g \in Files : data[q][g] # NoFile => data'[q][g] # NoFile
        BY <1>3, <4>1, <4>3, DataKept
      <4> QED
        BY <4>1, <4>2, <4>4 DEF NoFile
    <3>3. Wanted(r, f) = NoFile => f = "logs"
      BY <1>3, WantedContent
    <3>4. CASE there = NoFile /\ Wanted(r, f) # NoFile
      <4>1. m = {f}
        BY <3>4
      <4>2. data' = [data EXCEPT ![r.target.root][f] = Wanted(r, f)]
        BY <1>9, <4>1
      <4> QED
        BY <3>2, <3>4, <4>2
    <3>5. CASE ~(there = NoFile /\ Wanted(r, f) # NoFile)
      <4>1. m = {}
        BY <3>5
      <4>2. UNCHANGED data
        BY <1>9, <4>1
      <4> QED
        BY <3>1, <3>3, <3>5, <4>2
    <3> QED
      BY <3>4, <3>5
  <2>4. TypeOK'
    BY <1>3, <1>9, <2>2, <2>3 DEF TypeOK
  <2>5. Disk' /\ GoodRequest(r)'
    BY <1>2, <1>3, <2>3, MoreData DEF Disk
  <2>6. Asked(p)'
    BY <1>2, <1>4, <2>2, <2>5 DEF Asked, SameRoot
  <2>7. Moves(p)'
    <3>1. \A i \in 1..n : CopyOrder[i] # "logs" => data'[r.target.root][CopyOrder[i]] # NoFile
      <4> SUFFICES ASSUME NEW i \in 1..n, CopyOrder[i] # "logs"
                   PROVE  data'[r.target.root][CopyOrder[i]] # NoFile
        OBVIOUS
      <4>1. CASE i = n
        BY <1>6, <2>3, <4>1
      <4>2. CASE i # n
        <5>1. i \in 1..(job[p].step - 1) /\ i \in 1..5
          BY <1>5, <4>2
        <5>2. data[r.target.root][CopyOrder[i]] # NoFile /\ CopyOrder[i] \in Files
          BY <1>4, <5>1, Steps
        <5> QED
          BY <1>3, <2>3, <5>2
      <4> QED
        BY <4>1, <4>2
    <3>2. pc = "copy" => \A i \in 1..(next - 1) :
             CopyOrder[i] # "logs" => data'[r.target.root][CopyOrder[i]] # NoFile
      BY <2>1, <3>1
    <3>3. pc = "commit" => Complete(r.target.root)'
      BY <1>6, <2>1, <3>1, Steps DEF Complete, Settings
    <3>4. locator'[Other(r.source.locator)] = None
      BY <1>3, <1>7, Others DEF OnlySource
    <3> QED
      BY <1>4, <1>7, <2>1, <2>2, <3>2, <3>3, <3>4
      DEF Moves, At, Complete, PendingIs, OnlySource, SameRoot
  <2> QED
    BY <2>2, <2>4, <2>5, <2>6, <2>7 DEF MigrationInv, Disk, Reading, Placing, Running, At
<1> QED
  BY <1>2, <1>5, <1>6, <1>8, <1>9 DEF Copy

\* A cleanup leaves each file as it is, or removes it.
LEMMA CleanedFields ==
    ASSUME TypeOK, NEW root \in Roots, NEW files
    PROVE  /\ Cleaned(root, files) \in [Files -> Nat]
           /\ \A f \in Files : Cleaned(root, files)[f] \in {NoFile, data[root][f]}
           /\ files = {} => Cleaned(root, files) = data[root]
<1> DEFINE left == [f \in Files |-> IF f \in files \ {"dirs"} THEN NoFile ELSE data[root][f]]
<1>1. data[root] \in [Files -> Nat] /\ "dirs" \in Files
  BY DEF TypeOK, Files
<1>2. left \in [Files -> Nat] /\ \A f \in Files : left[f] \in {NoFile, data[root][f]}
  BY <1>1 DEF NoFile
<1>3. files = {} => left = data[root]
  BY <1>1
<1>4. Cleaned(root, files) = IF "dirs" \in files /\ \A f \in Files \ {"dirs"} : left[f] = NoFile
                             THEN [left EXCEPT !["dirs"] = NoFile] ELSE left
  BY DEF Cleaned
<1> HIDE DEF left
<1>5. CASE Cleaned(root, files) = left
  <2>1. files = {} => Cleaned(root, files) = data[root]
    BY <1>3, <1>5
  <2> QED
    BY <1>2, <1>5, <2>1
<1>6. CASE Cleaned(root, files) = [left EXCEPT !["dirs"] = NoFile] /\ "dirs" \in files
  BY <1>1, <1>2, <1>6 DEF NoFile
<1> QED
  BY <1>4, <1>5, <1>6

\* A cleanup, or the part of it that is done when a removal fails.
LEMMA CleanupFields ==
    ASSUME NEW p, Instances = {p}, MigrationInv(p), Cleanup(p)
    PROVE  LET r == job[p].req IN
           /\ OnlySource(r) /\ r.source \in Locations /\ r.target.root \in Roots
           /\ data' \in [Roots -> [Files -> Nat]]
           /\ \A q \in Roots, f \in Files : data'[q][f] \in {NoFile, data[q][f]}
           /\ \A q \in Roots : q # r.target.root \/ SameRoot(r) => data'[q] = data[q]
           /\ UNCHANGED <<locator, version>> /\ End(p) /\ faults' \in 0..MaxFaults
<1>1. At(p, "cleanup") /\ job[p].pc \in MigrationPcs
  BY DEF Cleanup, At, MigrationPcs
<1>2. PICK r \in Requests : r = job[p].req
  BY <1>1, AskedFields
<1>3. /\ TypeOK /\ r.source \in Locations /\ r.target.root \in Roots /\ OnlySource(r)
      /\ job[p].made # {} => ~SameRoot(r)
  BY <1>1, <1>2, AskedFields DEF MigrationInv, Moves, Asked, At
<1>4. PICK files : /\ files \subseteq job[p].made
                   /\ data' = [data EXCEPT ![r.target.root] = Cleaned(r.target.root, files)]
  BY <1>2 DEF Cleanup
<1>5. PICK root \in Roots : root = r.target.root
  BY <1>3
<1>6. PICK c \in [Files -> Nat] : /\ c = Cleaned(root, files)
                                  /\ \A f \in Files : c[f] \in {NoFile, data[root][f]}
                                  /\ files = {} => c = data[root]
  BY <1>3, CleanedFields
<1>7. data' = [data EXCEPT ![root] = c] /\ data \in [Roots -> [Files -> Nat]]
  BY <1>3, <1>4, <1>5, <1>6 DEF TypeOK
<1>8. SameRoot(r) => c = data[root]
  BY <1>3, <1>4, <1>6
<1>9. /\ data' \in [Roots -> [Files -> Nat]]
      /\ \A q \in Roots, f \in Files : data'[q][f] \in {NoFile, data[q][f]}
      /\ \A q \in Roots : q # root \/ SameRoot(r) => data'[q] = data[q]
  BY <1>6, <1>7, <1>8
<1>10. faults' \in 0..MaxFaults
  BY <1>3, FaultTypes DEF Cleanup, Fault, TypeOK
<1> QED
  BY <1>2, <1>3, <1>5, <1>9, <1>10 DEF Cleanup

LEMMA InvCleanup ==
    ASSUME NEW p, Instances = {p}, MigrationInv(p), Cleanup(p)
    PROVE  MigrationInv(p)'
<1>1. PICK r : r = job[p].req
  OBVIOUS
<1>2. /\ OnlySource(r) /\ r.source \in Locations /\ r.target.root \in Roots
      /\ data' \in [Roots -> [Files -> Nat]]
      /\ \A q \in Roots, f \in Files : data'[q][f] \in {NoFile, data[q][f]}
      /\ \A q \in Roots : q # r.target.root \/ SameRoot(r) => data'[q] = data[q]
      /\ UNCHANGED <<locator, version>> /\ End(p) /\ faults' \in 0..MaxFaults
  BY <1>1, CleanupFields
<1>3. r.source.root \in Roots /\ data'[r.source.root] = data[r.source.root]
  BY <1>2, LocationFields DEF SameRoot
<1>4. Marked'
  BY <1>2 DEF MigrationInv, Marked, Files, NoFile
<1>5. Named'
  <2> SUFFICES ASSUME NEW l \in Locators, locator[l] # None
               PROVE  /\ Sound(locator[l])'
                      /\ locator[l].pending # None =>
                            /\ locator[l].pending.source = locator[l].active
                            /\ GoodRequest(locator[l].pending)'
    BY <1>2 DEF Named
  <2>1. locator[l].active = r.source
    BY <1>2 DEF OnlySource
  <2>2. Sound(locator[l]) /\ (locator[l].pending # None =>
            locator[l].pending.source = locator[l].active /\ GoodRequest(locator[l].pending))
    BY DEF MigrationInv, Named
  <2> QED
    BY <1>2, <1>3, <2>1, <2>2 DEF Sound, GoodRequest, Managed, Present
<1>6. Both'
  BY <1>2 DEF OnlySource, Both, Locators
<1>7. TypeOK'
  BY <1>2, EndTypes DEF MigrationInv, TypeOK
<1> QED
  BY <1>2, <1>4, <1>5, <1>6, <1>7, EndsWriting DEF Disk

-----------------------------------------------------------------------------
(* A running instance *)

LEMMA InvSave ==
    ASSUME NEW p, Instances = {p}, MigrationInv(p), NEW f \in Settings, Save(p, f)
    PROVE  MigrationInv(p)'
<1>1. /\ TypeOK /\ Disk /\ version \in Nat /\ UNCHANGED <<locator, job, migLock, mutex, faults>>
      /\ f \in Files /\ f \notin {"dirs", "manifest"} /\ job[p].pc = "running"
  BY DEF MigrationInv, Disk, TypeOK, Save, Settings, Files, At
<1>2. PICK root \in Roots : root = job[p].at.root
  <2>1. job[p] \in Jobs /\ job[p].at # None
    BY <1>1 DEF MigrationInv, Running, At, TypeOK
  <2> QED
    BY <2>1 DEF Jobs
<1>3. PICK c \in Nat \ {0} : c = version + 1
  BY <1>1
<1>4. data' = [data EXCEPT ![root][f] = c] /\ version' = c
  BY <1>2, <1>3 DEF Save
<1>5. /\ data' \in [Roots -> [Files -> Nat]] /\ Marked'
      /\ \A q \in Roots, g \in Files : data[q][g] # NoFile => data'[q][g] # NoFile
  BY <1>1, <1>4, DataKept
<1>6. TypeOK'
  BY <1>1, <1>3, <1>4, <1>5 DEF TypeOK
<1>7. Disk'
  BY <1>1, <1>5, MoreData DEF Disk
<1> QED
  BY <1>1, <1>6, <1>7
  DEF MigrationInv, Disk, Reading, Placing, Running, Asked, Moves, At, MigrationPcs

LEMMA InvSchedule ==
    ASSUME Inexhaustible, NEW p, Instances = {p}, MigrationInv(p), NEW c \in Choices,
           Schedule(p, c)
    PROVE  MigrationInv(p)'
<1>1. /\ TypeOK /\ Disk /\ UNCHANGED <<data, version, job, migLock, mutex, faults>>
      /\ job[p].pc = "running" /\ p \notin Greps /\ job[p].at.locator # None
  BY DEF MigrationInv, Disk, Schedule, At
<1>2. PICK a : a = job[p].at
  OBVIOUS
<1>3. /\ a \in Locations /\ a.locator \in Locators /\ locator[a.locator] # None
      /\ locator[a.locator].active = a
      /\ \A m \in Locators : locator[m] # None => m = a.locator
  <2>1. /\ a.locator \in Locators /\ locator[a.locator] # None
        /\ locator[a.locator].active = a /\ locator[Other(a.locator)] = None
    BY <1>1, <1>2 DEF MigrationInv, Running, At, TypeOK, Jobs
  <2>2. locator[a.locator] \in States
    BY <1>1, <2>1 DEF TypeOK
  <2> QED
    BY <2>1, <2>2, Others DEF States
<1>4. PICK r \in Requests : /\ r = Request(NewTransaction, a, c, FALSE)
                            /\ r.source = a /\ r.target = c /\ r.legacy = FALSE
  <2>1. PICK t \in Transactions : t = NewTransaction
    BY NewId
  <2>2. c \in Locations /\ FALSE \in BOOLEAN
    BY MigrationAssumption
  <2>3. PICK r : r = Request(t, a, c, FALSE)
    OBVIOUS
  <2>4. r \in Requests /\ r.source = a /\ r.target = c /\ r.legacy = FALSE
    BY <1>3, <2>2, <2>3 DEF Request, Requests
  <2> QED
    BY <2>1, <2>3, <2>4
<1>5. GoodRequest(r)
  BY <1>1, <1>3, <1>4, MigrationAssumption DEF GoodRequest, Disk, Named, Sound
<1>6. OnlySource(r)
  BY <1>3, <1>4 DEF OnlySource
<1>7. locator' = PendingWritten(r)
  BY <1>2, <1>4 DEF Schedule
<1>8. /\ locator' \in [Locators -> States \cup {None}]
      /\ \A m \in Locators : locator'[m] # None =>
            /\ locator'[m].active.locator = m
            /\ locator'[m].pending = None \/ locator'[m].last = None
      /\ Disk' /\ PendingIs(r)' /\ OnlySource(r)'
  BY <1>1, <1>3, <1>4, <1>5, <1>6, <1>7, PendingIsWritten
<1>9. TypeOK'
  BY <1>1, <1>8 DEF TypeOK
<1>10. Running(p)'
  <2>1. locator'[a.locator] # None /\ locator'[a.locator].active = a
    BY <1>3, <1>4, <1>8 DEF PendingIs, OnlySource
  <2>2. locator'[Other(a.locator)] = None
    <3>1. \A m \in Locators : locator'[m] # None => m = a.locator
      BY <1>4, <1>8 DEF OnlySource
    <3>2. Other(a.locator) \in Locators /\ Other(a.locator) # a.locator
      BY <1>3, Others
    <3> QED
      BY <3>1, <3>2
  <2> QED
    BY <1>1, <1>2, <2>1, <2>2 DEF Running, MigrationInv, At
<1> QED
  BY <1>1, <1>8, <1>9, <1>10
  DEF MigrationInv, Disk, Reading, Placing, Asked, Moves, At, MigrationPcs

LEMMA InvEnds ==
    ASSUME NEW p, Instances = {p}, MigrationInv(p), Quit(p) \/ Kill(p)
    PROVE  MigrationInv(p)'
<1>1. faults' \in 0..MaxFaults
  BY FaultTypes DEF Quit, Kill, MigrationInv, TypeOK
<1> QED
  BY <1>1, EndsQuietly DEF Quit, Kill

-----------------------------------------------------------------------------
(* The theorems *)

\* What one process keeps.
LEMMA MigrationStep ==
    ASSUME Inexhaustible, NEW p, Instances = {p}, MigrationInv(p), [Next]_vars
    PROVE  MigrationInv(p)'
<1>1. CASE UNCHANGED vars
  <2>1. UNCHANGED <<locator, data, version, job, migLock, mutex, faults>>
    BY <1>1 DEF vars
  <2> QED
    <3>1. TypeOK' /\ Disk'
      BY <2>1, MovesQuietly DEF MigrationInv, TypeOK
    <3>2. Reading(p)' /\ Running(p)'
      BY <2>1 DEF MigrationInv, Reading, Running, Resolved, At
    <3>3. Placing(p)'
      BY <2>1 DEF MigrationInv, Placing, NoLocator, Managed, Resolved, Sound, Present, At
    <3>4. Asked(p)'
      BY <2>1 DEF MigrationInv, Asked, GoodRequest, Managed, SameRoot
    <3>5. Moves(p)'
      BY <2>1 DEF MigrationInv, Moves, Resolved, OnlySource, PendingIs, SameRoot, Complete, At
    <3> QED
      BY <3>1, <3>2, <3>3, <3>4, <3>5 DEF MigrationInv, Disk
<1>2. CASE Bootstrap(p)
  BY <1>2, InvRead, InvDiscard, InvUseLocator, InvUseDefaultRoot, InvAdoptTarget, InvMigrateLegacy,
     InvSelectRoot, InvCancelSelection, InvMakeDirectories, InvMakeManifest, InvWriteActive,
     InvRemoveConflicting, InvGiveUp, InvInstall, InvRecoverFirst
  DEF Bootstrap
<1>3. CASE Migrate(p)
  BY <1>3, InvTakeLock, InvCommitInPlace, InvCommitTarget, InvCommitRefused,
     InvCommitRemoveSource, InvCommitFailed, InvRollbackPending, InvRollbackRefused,
     InvJudgePending, InvJudgeOutcome, InvWritePending, InvCopy, InvCleanup
  DEF Migrate
<1>4. CASE Use(p) \/ Kill(p)
  BY <1>4, InvLaunch, InvLaunchAt, InvSave, InvSchedule, InvEnds DEF Use
<1> QED
  BY <1>1, <1>2, <1>3, <1>4 DEF Next

\* The files at the start are those of a ZzLogg at rest: a locator names itself and a
\* directory in use, or the old layout, nothing is pending, and a migration that was committed
\* left both INIs.
AtRest ==
    \A start \in InitLocators, files \in InitData :
        /\ \A r \in Roots, f \in {"dirs", "manifest"} : files[r][f] \in {NoFile, Empty}
        /\ \A l \in Locators : start[l] # None =>
              /\ start[l].active.locator = l /\ start[l].pending = None
              /\ \/ start[l].active = Legacy
                 \/ files[start[l].active.root]["manifest"] # NoFile
              /\ start[l].last # None /\ start[l].last.outcome = "committed" =>
                    \A f \in Settings : files[start[l].active.root][f] # NoFile

LEMMA MigrationStart ==
    ASSUME AtRest, NEW p, Instances = {p}, Init
    PROVE  MigrationInv(p)
<1>1. job \in [Instances -> Jobs] /\ job[p] = Idle
  BY IdleIsJob DEF Init
<1>2. locator \in [Locators -> States \cup {None}]
  BY TypesAssumption DEF Init
<1>3. data \in [Roots -> [Files -> Nat]]
  BY MigrationAssumption DEF Init
<1>4. /\ \A r \in Roots, f \in {"dirs", "manifest"} : data[r][f] \in {NoFile, Empty}
      /\ \A l \in Locators : locator[l] # None =>
            /\ locator[l].active.locator = l /\ locator[l].pending = None
            /\ locator[l].active = Legacy \/ data[locator[l].active.root]["manifest"] # NoFile
            /\ locator[l].last # None /\ locator[l].last.outcome = "committed" =>
                  \A f \in Settings : data[locator[l].active.root][f] # NoFile
  BY DEF Init, AtRest
<1>5. TypeOK
  BY <1>1, <1>2, <1>3, <1>4, MigrationAssumption DEF TypeOK, Init
<1>6. Marked /\ Named /\ Both
  BY <1>4 DEF Marked, Named, Both, Sound, Present, Managed, Locators
<1> QED
  BY <1>1, <1>5, <1>6
  DEF MigrationInv, Idle, Reading, Placing, Running, Asked, Moves, At, MigrationPcs

\* With one process, at any point of any start, migration, recovery or removal, killed or
\* failing anywhere: the locators and the roots agree with what that process is about to do.
THEOREM StorageCorrect ==
    ASSUME Inexhaustible, AtRest, NEW p, Instances = {p}
    PROVE  Spec => []MigrationInv(p)
<1>1. Init => MigrationInv(p)
  BY MigrationStart
<1>2. MigrationInv(p) /\ [Next]_vars => MigrationInv(p)'
  BY MigrationStep
<1> QED
  BY <1>1, <1>2, PTL DEF Spec

\* Every variable has its type.
THEOREM MigrationTypeCorrect ==
    ASSUME Inexhaustible, AtRest, NEW p, Instances = {p}
    PROVE  Spec => []TypeOK
<1>1. MigrationInv(p) => TypeOK
  BY DEF MigrationInv
<1> QED
  BY <1>1, StorageCorrect, PTL

\* A locator without a pending migration names a directory in use, and after a migration both
\* INIs are in it: wherever a migration, a recovery, a rollback or a cleanup was killed or failed
\* (StorageMigrator::execute, recoverPending; one process, any number of faults).
THEOREM ActiveAlwaysComplete ==
    ASSUME Inexhaustible, AtRest, NEW p, Instances = {p}
    PROVE  Spec => []ActiveIsComplete
<1>1. MigrationInv(p) => ActiveIsComplete
  BY DEF MigrationInv, Named, Sound, Present, ActiveIsComplete
<1> QED
  BY <1>1, StorageCorrect, PTL

\* A step keeps what is in the directory that the locators name.
KeepsActive ==
    \A f \in Files :
        Resolved # None =>
           LET root == Resolved.active.root IN
           data[root][f] # NoFile =>
              \/ data'[root][f] = data[root][f]
              \/ f \in Settings /\ version' # version

LEMMA MakingKeeps ==
    ASSUME TypeOK, Marked, NEW root \in Roots, NEW g \in {"dirs", "manifest"},
           data' = [data EXCEPT ![root][g] = Empty]
    PROVE  \A q \in Roots, f \in Files : data[q][f] # NoFile => data'[q][f] = data[q][f]
<1>1. data \in [Roots -> [Files -> Nat]] /\ g \in Files /\ data[root][g] \in {NoFile, Empty}
  BY DEF TypeOK, Marked, Files
<1> QED
  BY <1>1

\* The root that the locators name is one.
LEMMA ActiveRoot ==
    ASSUME TypeOK, Resolved # None
    PROVE  Resolved.active \in Locations /\ Resolved.active.root \in Roots
           /\ \E l \in Locators : locator[l] # None /\ Resolved = locator[l]
<1>1. PICK l \in Locators : locator[l] # None /\ Resolved = locator[l]
  BY DEF Resolved, Locators
<1>2. Resolved.active \in Locations
  BY <1>1 DEF TypeOK, States
<1> QED
  BY <1>1, <1>2, LocationFields

LEMMA StepKeepsActive ==
    ASSUME NEW p, Instances = {p}, MigrationInv(p), [Next]_vars
    PROVE  KeepsActive
<1> SUFFICES ASSUME Resolved # None
             PROVE  LET root == Resolved.active.root IN
                    \A f \in Files : data[root][f] # NoFile =>
                        \/ data'[root][f] = data[root][f]
                        \/ f \in Settings /\ version' # version
  BY DEF KeepsActive
<1>1. TypeOK /\ Marked /\ Resolved.active.root \in Roots
  BY ActiveRoot DEF MigrationInv
<1>2. PICK root \in Roots : root = Resolved.active.root
  BY <1>1
<1>3. CASE UNCHANGED data
  BY <1>2, <1>3
<1>4. CASE \E q \in Roots, g \in {"dirs", "manifest"} : data' = [data EXCEPT ![q][g] = Empty]
  BY <1>1, <1>2, <1>4, MakingKeeps
<1>5. CASE \E q \in Roots, g \in Files, c \in Nat :
              data[q][g] = NoFile /\ data' = [data EXCEPT ![q][g] = c]
  BY <1>1, <1>2, <1>5 DEF TypeOK
<1>6. CASE Bootstrap(p)
  <2>1. CASE MakeDirectories(p) \/ MakeManifest(p)
    <3>1. job[p].at.root \in Roots
      BY <2>1 DEF MakeDirectories, MakeManifest, MigrationInv, Placing, TypeOK, Jobs, At
    <3> QED
      BY <1>3, <1>4, <2>1, <3>1 DEF MakeDirectories, MakeManifest
  <2>2. CASE Install(p)
    <3>1. data' = [data EXCEPT ![root]["dirs"] = Empty]
      BY <1>2, <2>2 DEF Install, MigrationInv, Reading, At
    <3> QED
      BY <1>4, <3>1
  <2>3. CASE AdoptTarget(p)
    BY <2>3 DEF AdoptTarget, MigrationInv, Reading, At
  <2>4. CASE WriteActive(p)
    <3>1. job[p].why # "select"
      BY <2>4 DEF WriteActive, MigrationInv, Placing, At, NoLocator, Resolved, Locators
    <3> QED
      BY <1>3, <2>4, <3>1 DEF WriteActive, NotWritten
  <2>5. CASE RemoveConflicting(p)
    BY <1>3, <2>5 DEF RemoveConflicting, NotWritten, MigrationInv, Placing, At
  <2> QED
    BY <1>3, <1>6, <2>1, <2>2, <2>3, <2>4, <2>5
    DEF Bootstrap, ReadProgramLocator, ReadUserLocator, ReadLocator, DiscardLegacyLocator,
        UseLocator, UseDefaultRoot, MigrateLegacy, SelectRoot, CancelSelection, GiveUp, RecoverFirst
<1>7. CASE Migrate(p)
  <2>1. CASE Copy(p)
    <3>1. At(p, "copy") /\ job[p].pc \in MigrationPcs
      BY <2>1 DEF Copy, At, MigrationPcs
    <3>2. PICK r \in Requests : r = job[p].req /\ r.target.root \in Roots /\ r.source.root \in Roots
      BY <3>1, AskedFields
    <3>3. PICK f \in Files : f = CopyOrder[job[p].step]
      BY Steps DEF MigrationInv, TypeOK, Jobs
    <3>4. \/ UNCHANGED data
          \/ /\ data[r.target.root][f] = NoFile
             /\ data' = [data EXCEPT ![r.target.root][f] = Wanted(r, f)]
      BY <2>1, <3>2, <3>3 DEF Copy
    <3>5. Wanted(r, f) \in Nat
      BY <1>1, <3>2, WantedContent
    <3> QED
      BY <1>3, <1>5, <3>2, <3>4, <3>5
  <2>2. CASE Cleanup(p)
    <3>1. PICK r : r = job[p].req
      OBVIOUS
    <3>2. OnlySource(r) /\ \A q \in Roots : q # r.target.root \/ SameRoot(r) => data'[q] = data[q]
      BY <2>2, <3>1, CleanupFields
    <3>3. Resolved.active = r.source
      BY <1>1, <3>2, ActiveRoot DEF OnlySource
    <3> QED
      BY <1>2, <3>2, <3>3 DEF SameRoot
  <2> QED
    BY <1>3, <1>7, <2>1, <2>2
    DEF Migrate, TakeLock, CommitInPlace, CommitTarget, CommitRefused, CommitRemoveSource,
        CommitFailed, RollbackPending, RollbackRefused, JudgePending, JudgeOutcome, WritePending
<1>8. CASE Use(p)
  <2>1. ASSUME NEW f \in Settings, Save(p, f)
        PROVE  \A g \in Files : data[root][g] # NoFile =>
                  \/ data'[root][g] = data[root][g]
                  \/ g \in Settings /\ version' # version
    <3>1. data \in [Roots -> [Files -> Nat]] /\ version \in Nat
      BY <1>1 DEF TypeOK
    <3>2. PICK q : q = job[p].at.root
      OBVIOUS
    <3>3. data' = [data EXCEPT ![q][f] = version'] /\ version' = version + 1
      BY <2>1, <3>2 DEF Save
    <3>4. \A g \in Files : g # f => data'[root][g] = data[root][g]
      BY <3>1, <3>3
    <3> QED
      BY <2>1, <3>1, <3>3, <3>4
  <2> QED
    BY <1>2, <1>3, <1>8, <2>1 DEF Use, Launch, LaunchAt, Schedule, Quit
<1>9. CASE Kill(p)
  BY <1>3, <1>9 DEF Kill
<1> QED
  BY <1>3, <1>6, <1>7, <1>8, <1>9 DEF Next, vars

\* No migration, rollback, cleanup, adoption or selection overwrites or removes a file of the
\* directory that the locators name: only saving does (copyLegacyIni, cleanupCreatedTargets; one
\* process, killed or failing anywhere).
THEOREM ActiveAlwaysKept ==
    ASSUME Inexhaustible, AtRest, NEW p, Instances = {p}
    PROVE  Spec => ActiveIsKept
<1>1. MigrationInv(p) /\ [Next]_vars => [KeepsActive]_vars
  BY StepKeepsActive
<1>2. Spec => [][KeepsActive]_vars
  BY <1>1, StorageCorrect, PTL DEF Spec
<1> QED
  BY <1>2 DEF ActiveIsKept, KeepsActive

-----------------------------------------------------------------------------
(* The settings *)

\* What a migration finds in its target is what it wants there.
Fits(r) ==
    SameRoot(r) \/ \A f \in Settings : data[r.target.root][f] \in {NoFile, Wanted(r, f)}

\* Only the old layout is moved as such, and only to where it is to move.
Told(r) ==
    /\ r.legacy <=> r.source = Legacy
    /\ r.legacy => r.target = LegacyTarget /\ LegacyFound

\* A pending migration.  One of the old layout that has written the manifest is complete.
Promised(r) ==
    /\ Fits(r) /\ Told(r)
    /\ ~r.existed => r.legacy
    /\ r.legacy /\ Managed(r.target.root) => Complete(r.target.root)

\* A locator that names the old layout is the only one, and where it is to move is not in use.
Left(l) ==
    locator[l].active = Legacy => locator[Other(l)] = None /\ ~Managed(LegacyTarget.root)

Pended ==
    \A l \in Locators : locator[l] # None =>
        IF locator[l].pending # None THEN Promised(locator[l].pending) ELSE Left(l)

\* No version is newer than the newest saved.
Bounded ==
    /\ version >= Empty
    /\ \A r \in Roots : \A f \in Settings : data[r][f] <= version

Untouched == Legacy # None => ~Managed(Legacy.root)

Store == Bounded /\ Untouched /\ Pended

Locked(p) == mutex # None => job[p].pc \in {"commitRemove", "writeRemove"}

Selecting(p) ==
    /\ job[p].pc \in {"dirs", "manifest"} => job[p].why = "select"
    /\ job[p].pc \in {"dirs", "manifest", "write"} /\ job[p].why = "select" => ~LegacyFound
    /\ At(p, "write") /\ job[p].why = "adopt" => LegacyFound /\ job[p].at = LegacyTarget

\* The directory in use is not the old layout's, and a migration away from it finds no
\* settings where it goes.
UsedAlone(p) ==
    /\ job[p].pc \in {"write", "writeRemove", "running"} => job[p].at # Legacy
    /\ At(p, "running") =>
          /\ job[p].at.locator # None
          /\ \A l \in Locators : locator[l] # None /\ locator[l].pending # None =>
                LET r == locator[l].pending IN
                SameRoot(r) \/ \A f \in Settings : data[r.target.root][f] = NoFile

\* A migration that is to begin.
Beginning(p) == (At(p, "lock") /\ job[p].why = "execute") \/ At(p, "pend")

Executing(p) ==
    LET r == job[p].req IN
    /\ job[p].pc \in MigrationPcs => Told(r)
    /\ Beginning(p) => Fits(r)
    /\ Beginning(p) \/ job[p].pc \in {"rollback", "cleanup"} => (NoLocator => r.legacy)
    /\ Beginning(p) \/ job[p].pc \in {"copy", "rollback", "cleanup"} =>
          (r.legacy => ~Managed(r.target.root))
    /\ At(p, "commitFailed") => ~r.legacy

Doing(p) == Locked(p) /\ Selecting(p) /\ UsedAlone(p) /\ Executing(p)

SettingsInv(p) == MigrationInv(p) /\ Store /\ Doing(p)

-----------------------------------------------------------------------------
(* What the next start reads *)

\* A window of the application with a directory of its own choice; while an old layout is
\* there, it may be killed anywhere, but its calls do not fail.
Window(p) ==
    /\ p \notin Greps /\ Overrides = {}
    /\ Legacy = None \/ "effect" \notin Faults

Attached == Home # NoRoot

View == [f \in Settings |-> IF Home = NoRoot THEN Empty ELSE ReadFrom(Home, f)]

SameView == (Attached' <=> Attached) /\ View' = View /\ version' = version

\* The settings of the old layout, if there is one, are as they were.
OldStays == Legacy # None => \A f \in Settings : data'[Legacy.root][f] = data[Legacy.root][f]

LEMMA OldIsFound ==
    ASSUME OldStays
    PROVE  LegacyFound' <=> LegacyFound
BY DEF OldStays, LegacyFound, Settings

LEMMA SettingsAreFiles ==
    /\ Settings \subseteq Files /\ "config" \in Settings /\ "session" \in Settings
    /\ "dirs" \notin Settings /\ "manifest" \notin Settings
    /\ "dirs" \in Files /\ "manifest" \in Files
BY DEF Settings, Files

\* What is read from a root is told by its settings.
LEMMA ReadStays ==
    ASSUME NEW root, \A f \in Settings : data'[root][f] = data[root][f]
    PROVE  \A f \in Settings : ReadFrom(root, f)' = ReadFrom(root, f)
BY DEF ReadFrom, Settings

LEMMA ViewStays ==
    ASSUME Home' = Home, UNCHANGED version,
           Home # NoRoot => \A f \in Settings : data'[Home][f] = data[Home][f]
    PROVE  SameView
<1>1. PICK root : root = Home
  OBVIOUS
<1>2. Home' = root
  BY <1>1
<1>3. root # NoRoot => \A f \in Settings : ReadFrom(root, f)' = ReadFrom(root, f)
  BY <1>1, ReadStays
<1>4. Attached' <=> Attached
  BY <1>1, <1>2 DEF Attached
<1>5. View' = [f \in Settings |-> IF root = NoRoot THEN Empty ELSE ReadFrom(root, f)']
  BY <1>2 DEF View, ReadFrom
<1>6. View = [f \in Settings |-> IF root = NoRoot THEN Empty ELSE ReadFrom(root, f)]
  BY <1>1 DEF View
<1> QED
  BY <1>3, <1>4, <1>5, <1>6 DEF SameView

\* Where the data stays, what is said of it stays.
LEMMA SameData ==
    ASSUME UNCHANGED data
    PROVE  /\ OldStays /\ (LegacyFound' <=> LegacyFound)
           /\ \A r : Fits(r) => Fits(r)'
           /\ \A r : Told(r) => Told(r)'
           /\ \A r : Managed(r)' <=> Managed(r)
           /\ \A r : Complete(r)' <=> Complete(r)
           /\ \A r : Promised(r) => Promised(r)'
<1>1. OldStays /\ (LegacyFound' <=> LegacyFound)
  BY OldIsFound DEF OldStays
<1>2. \A r : Fits(r) => Fits(r)'
  <2>1. \A r, f : SourceContent(r, f)' = SourceContent(r, f)
    BY DEF SourceContent
  <2>2. \A r, f : Wanted(r, f)' = Wanted(r, f)
    BY <2>1 DEF Wanted
  <2> QED
    BY <2>2 DEF Fits, SameRoot
<1>3. \A r : Told(r) => Told(r)'
  BY <1>1 DEF Told
<1>4. \A r : (Managed(r)' <=> Managed(r)) /\ (Complete(r)' <=> Complete(r))
  BY DEF Managed, Complete
<1>5. \A r : Promised(r) => Promised(r)'
  BY <1>2, <1>3, <1>4 DEF Promised
<1> QED
  BY <1>1, <1>2, <1>3, <1>4, <1>5

LEMMA QuietStore ==
    ASSUME Store, UNCHANGED <<locator, data, version>>
    PROVE  Store' /\ SameView
<1>1. Bounded' /\ Untouched'
  BY DEF Store, Bounded, Untouched, Managed
<1>2. Pended'
  BY SameData DEF Store, Pended, Left
<1>3. Home' = Home
  BY DEF Home, Resolved, LegacyFound, Managed
<1> QED
  BY <1>1, <1>2, <1>3, ViewStays DEF Store

\* The process is where nothing is said of it.
LEMMA DoesNothing ==
    ASSUME NEW p, mutex' = None,
           job'[p].pc \in {"off", "program", "user", "decide", "existing"}
    PROVE  Doing(p)'
BY DEF Doing, Locked, Selecting, UsedAlone, Executing, Beginning, At, MigrationPcs

LEMMA EndsDoing ==
    ASSUME NEW p, Instances = {p}, TypeOK, End(p)
    PROVE  Doing(p)'
<1>1. mutex' = None
  BY DEF TypeOK, End
<1>2. job'[p].pc = "off"
  BY EndTypes DEF Idle
<1> QED
  BY <1>1, <1>2, DoesNothing

\* Outside of the removals the locator mutation lock is free.
LEMMA Unheld ==
    ASSUME NEW p, SettingsInv(p), job[p].pc \notin {"commitRemove", "writeRemove"}
    PROVE  mutex = None
BY DEF SettingsInv, Doing, Locked

\* A directory is selected, and taken as it is.
Attaching ==
    /\ ~Attached /\ Attached' /\ version' = version
    /\ \A f \in Settings : View'[f] \in {Empty} \cup 0..version

Saving ==
    /\ Attached /\ Attached' /\ version' = version + 1
    /\ \E f \in Settings : View' = [View EXCEPT ![f] = version + 1]

\* What is shown of each step.
Kept(p) == Store' /\ Doing(p)' /\ (SameView \/ Attaching \/ Saving)

LEMMA EndsKept ==
    ASSUME NEW p, Instances = {p}, SettingsInv(p), End(p), UNCHANGED <<locator, data, version>>
    PROVE  Kept(p)
BY QuietStore, EndsDoing DEF Kept, SettingsInv, MigrationInv

LEMMA OldFields ==
    /\ Legacy # None =>
          /\ Legacy \in Locations /\ Legacy.root \in Roots /\ Legacy.locator \in Locators
          /\ LegacyTarget \in Locations /\ LegacyTarget.root \in Roots
          /\ Legacy.root # LegacyTarget.root
    /\ LegacyFound => Legacy # None
BY MigrationAssumption, LocationFields DEF LegacyFound

LEMMA PromisedFields ==
    ASSUME NEW p, SettingsInv(p), NEW l \in Locators, locator[l] # None
    PROVE  /\ locator[l].active \in Locations /\ locator[l].active.root \in Roots
           /\ locator[l].active.locator = l
           /\ locator[l].active = Legacy \/ Managed(locator[l].active.root)
           /\ locator[l].pending # None =>
                 LET r == locator[l].pending IN
                 /\ r \in Requests /\ r.source = locator[l].active /\ GoodRequest(r)
                 /\ r.target.root \in Roots /\ r.source.root \in Roots
                 /\ Promised(r)
           /\ locator[l].pending = None => Left(l)
<1>1. TypeOK /\ Named /\ Pended
  BY DEF SettingsInv, MigrationInv, Store
<1>2. locator[l] \in States /\ locator[l].active \in Locations /\ locator[l].active.locator = l
  BY <1>1 DEF TypeOK, States
<1>3. locator[l].active = Legacy \/ Managed(locator[l].active.root)
  BY <1>1 DEF Named, Sound
<1>4. ASSUME locator[l].pending # None
      PROVE  LET r == locator[l].pending IN
             /\ r \in Requests /\ r.source = locator[l].active /\ GoodRequest(r)
             /\ r.target.root \in Roots /\ r.source.root \in Roots
  <2>1. PICK r \in Requests : /\ r = locator[l].pending /\ r.source = locator[l].active
                              /\ GoodRequest(r)
    BY <1>1, <1>4, PendingFields
  <2>2. r.source \in Locations /\ r.target \in Locations
    BY DEF Requests
  <2> QED
    BY <2>1, <2>2, LocationFields
<1> QED
  BY <1>1, <1>2, <1>3, <1>4, LocationFields DEF Pended

\* No settings are written.
SettingsStay == \A r \in Roots : \A f \in Settings : data'[r][f] = data[r][f]

LEMMA SettingsStaying ==
    ASSUME SettingsStay, UNCHANGED version, Bounded
    PROVE  /\ OldStays /\ (LegacyFound' <=> LegacyFound) /\ Bounded'
           /\ \A r \in Requests : Fits(r) => Fits(r)'
           /\ \A r \in Requests : Told(r) => Told(r)'
<1>1. OldStays
  BY OldFields DEF SettingsStay, OldStays
<1>2. LegacyFound' <=> LegacyFound
  BY <1>1, OldIsFound
<1>3. Bounded'
  BY DEF Bounded, SettingsStay
<1>4. ASSUME NEW r \in Requests, Fits(r) PROVE Fits(r)'
  <2>1. r.source.root \in Roots /\ r.target.root \in Roots
    BY LocationFields DEF Requests
  <2>2. \A f \in Settings : SourceContent(r, f)' = SourceContent(r, f)
    BY <2>1 DEF SourceContent, SettingsStay, Settings
  <2>3. \A f \in Settings : Wanted(r, f)' = Wanted(r, f)
    BY <2>2 DEF Wanted
  <2> QED
    BY <1>4, <2>1, <2>3 DEF Fits, SettingsStay, SameRoot
<1>5. ASSUME NEW r \in Requests, Told(r) PROVE Told(r)'
  BY <1>2, <1>5 DEF Told
<1> QED
  BY <1>1, <1>2, <1>3, <1>4, <1>5

\* Directories are made.
LEMMA DirsKept ==
    ASSUME NEW p, SettingsInv(p), SettingsStay, UNCHANGED <<locator, version>>,
           \A r \in Roots : Managed(r)' <=> Managed(r)
    PROVE  Store' /\ SameView
<1>1. Bounded /\ Untouched /\ TypeOK
  BY DEF SettingsInv, Store, MigrationInv
<1>2. Untouched'
  BY <1>1, OldFields DEF Untouched
<1>3. Pended'
  <2> SUFFICES ASSUME NEW l \in Locators, locator[l] # None
               PROVE  IF locator[l].pending # None THEN Promised(locator[l].pending)' ELSE Left(l)'
    BY DEF Pended
  <2>1. CASE locator[l].pending # None
    <3>1. PICK r \in Requests : /\ r = locator[l].pending /\ Promised(r)
                                /\ r.target.root \in Roots
      BY <2>1, PromisedFields
    <3>2. Fits(r)' /\ Told(r)'
      BY <1>1, <3>1, SettingsStaying DEF Promised
    <3>3. Complete(r.target.root) => Complete(r.target.root)'
      BY <3>1 DEF Complete, Managed, SettingsStay
    <3>4. Promised(r)'
      BY <3>1, <3>2, <3>3 DEF Promised
    <3>5. PICK new : new = locator'
      OBVIOUS
    <3>6. r = new[l].pending /\ locator[l].pending # None
      BY <2>1, <3>1, <3>5
    <3>7. Promised(locator[l].pending)'
      BY <3>4, <3>5, <3>6
      DEF Promised, Fits, Told, SameRoot, Wanted, SourceContent, Managed, Complete
    <3> QED
      BY <2>1, <3>7
  <2>2. CASE locator[l].pending = None
    BY <2>2, PromisedFields, OldFields, MigrationAssumption DEF Left
  <2> QED
    BY <2>1, <2>2
<1>4. SameView
  <2>1. Home' = Home
    <3>1. Resolved' = Resolved
      BY DEF Resolved
    <3>2. LegacyFound' <=> LegacyFound
      BY <1>1, SettingsStaying
    <3> QED
      BY <3>1, <3>2, OldFields DEF Home
  <2>2. Home # NoRoot => Home \in Roots
    BY <1>1, ActiveRoot, OldFields DEF Home
  <2> QED
    BY <2>1, <2>2, ViewStays DEF SettingsStay
<1> QED
  BY <1>1, <1>2, <1>3, <1>4, SettingsStaying DEF Store

\* The manifest of a selected directory is made, or removed.
LEMMA MarkKept ==
    ASSUME NEW p, SettingsInv(p), SettingsStay, UNCHANGED <<locator, version>>,
           NoLocator, ~LegacyFound,
           Legacy # None => (Managed(Legacy.root)' <=> Managed(Legacy.root))
    PROVE  Store' /\ SameView
<1>1. Bounded /\ Untouched /\ TypeOK
  BY DEF SettingsInv, Store, MigrationInv
<1>2. Untouched'
  BY <1>1 DEF Untouched
<1>3. Pended'
  BY DEF Pended, NoLocator
<1>4. Bounded' /\ (LegacyFound' <=> LegacyFound)
  BY <1>1, SettingsStaying
<1>5. SameView
  <2>1. Home = NoRoot /\ Home' = NoRoot
    BY <1>4 DEF Home, Resolved, NoLocator, Locators
  <2> QED
    BY <2>1, ViewStays
<1> QED
  BY <1>2, <1>3, <1>4, <1>5 DEF Store

-----------------------------------------------------------------------------
(* The steps of a start *)

LEMMA ReadsKept ==
    ASSUME NEW p, SettingsInv(p), UNCHANGED <<locator, data, version, mutex>>,
           job[p].pc \notin {"commitRemove", "writeRemove"},
           job'[p].pc \in {"program", "user", "decide", "existing"}
    PROVE  Kept(p)
BY QuietStore, Unheld, DoesNothing DEF Kept, SettingsInv

\* A step that only moves the process keeps what is said of the disk.
LEMMA MovesKept ==
    ASSUME NEW p, SettingsInv(p), UNCHANGED <<locator, data, version, mutex>>,
           job[p].pc \notin {"commitRemove", "writeRemove"},
           Selecting(p)', UsedAlone(p)', Executing(p)'
    PROVE  Kept(p)
<1>1. mutex' = None
  BY Unheld
<1> QED
  BY <1>1, QuietStore DEF Kept, SettingsInv, Doing, Locked

LEMMA KeptLaunch ==
    ASSUME NEW p, Instances = {p}, SettingsInv(p), Launch(p)
    PROVE  Kept(p)
<1>1. job \in [Instances -> Jobs]
  BY DEF SettingsInv, MigrationInv, TypeOK
<1>2. job'[p].pc = "program"
  BY <1>1 DEF Launch, Idle
<1> QED
  BY <1>2, ReadsKept DEF Launch, At

LEMMA KeptRead ==
    ASSUME NEW p, Instances = {p}, SettingsInv(p), ReadProgramLocator(p) \/ ReadUserLocator(p)
    PROVE  Kept(p)
<1>1. PICK l \in Locators, missing \in {"user", "decide"} : ReadLocator(p, l, missing)
  BY DEF ReadProgramLocator, ReadUserLocator, Locators
<1>2. PICK pc : pc = IF locator[l] = None /\ missing # "decide" THEN missing
                     ELSE IF job[p].why = "bootstrap" THEN "decide" ELSE "existing"
  OBVIOUS
<1>3. pc \in {"user", "decide", "existing"} /\ pc \in Pcs
  BY <1>1, <1>2 DEF Pcs
<1>4. job'[p].pc = pc
  <2>1. PICK s \in States \cup {None} : s = locator[l]
    BY DEF SettingsInv, MigrationInv, TypeOK
  <2>2. job' = [job EXCEPT ![p].seen = s, ![p].pc = pc]
    BY <1>1, <1>2, <2>1 DEF ReadLocator
  <2> QED
    BY <1>3, <2>2, SeenJob DEF SettingsInv, MigrationInv, TypeOK
<1> QED
  BY <1>1, <1>3, <1>4, ReadsKept DEF ReadLocator, ReadProgramLocator, ReadUserLocator, At

LEMMA KeptDiscard ==
    ASSUME NEW p, Instances = {p}, SettingsInv(p), DiscardLegacyLocator(p)
    PROVE  Kept(p)
<1>1. CASE End(p) /\ UNCHANGED locator
  BY <1>1, EndsKept DEF DiscardLegacyLocator
<1>2. CASE /\ Discardable(locator[Legacy.locator])
           /\ locator' = [locator EXCEPT ![Legacy.locator] = None]
           /\ Goto(p, "program")
           /\ UNCHANGED <<migLock, mutex, faults>>
  <2>1. LegacyFound /\ Legacy # None /\ Legacy.locator \in Locators /\ TypeOK
        /\ UNCHANGED <<data, version>> /\ job[p].pc = "decide"
    BY OldFields
    DEF DiscardLegacyLocator, LeftByRollback, LegacySeenBy, SettingsInv, MigrationInv, At
  <2>2. PICK l \in Locators : l = Legacy.locator
    BY <2>1
  <2>3. locator[l] # None /\ locator[l].active = Legacy /\ locator[l].pending = None
    BY <1>2, <2>2 DEF Discardable
  <2>4. locator[Other(l)] = None /\ ~Managed(LegacyTarget.root)
    BY <2>3, PromisedFields DEF Left
  <2>5. Resolved # None /\ Resolved.active = Legacy
    BY <2>3, <2>4, Others DEF Resolved, Locators
  <2>6. \A m \in Locators : locator'[m] = None
    BY <1>2, <2>1, <2>2, <2>4, Others DEF TypeOK
  <2>7. Home = Legacy.root
    BY <2>5 DEF Home
  <2>8. Home' = Legacy.root
    <3>1. Resolved' = None
      BY <2>6 DEF Resolved, Locators
    <3>2. LegacyFound' /\ ~Managed(LegacyTarget.root)'
      BY <2>1, <2>4, SameData DEF Managed
    <3> QED
      BY <3>1, <3>2 DEF Home
  <2>9. Store' /\ SameView
    <3>1. Bounded' /\ Untouched'
      BY <2>1 DEF SettingsInv, Store, Bounded, Untouched, Managed
    <3>2. Pended'
      BY <2>6 DEF Pended
    <3> QED
      BY <2>1, <2>7, <2>8, <3>1, <3>2, ViewStays DEF Store
  <2>10. Doing(p)'
    <3>1. job'[p].pc = "program"
      BY <1>2, GotoJob DEF SettingsInv, MigrationInv, TypeOK, Pcs
    <3>2. mutex' = None
      BY <1>2, <2>1, Unheld
    <3> QED
      BY <3>1, <3>2, DoesNothing
  <2> QED
    BY <2>9, <2>10 DEF Kept
<1> QED
  BY <1>1, <1>2 DEF DiscardLegacyLocator

LEMMA KeptUseLocator ==
    ASSUME NEW p, Instances = {p}, SettingsInv(p), UseLocator(p)
    PROVE  Kept(p)
<1>1. job'[p].pc = "existing"
  BY CallJob DEF UseLocator, SettingsInv, MigrationInv, TypeOK, Pcs, Whys
<1> QED
  BY <1>1, ReadsKept DEF UseLocator, At

LEMMA KeptAdoptTarget ==
    ASSUME NEW p, Instances = {p}, SettingsInv(p), AdoptTarget(p), MigrationInv(p)'
    PROVE  Kept(p)
<1>1. /\ LegacyTarget \in Locations /\ LegacyTarget.root \in Roots /\ LegacyTarget \in Places
      /\ LegacyFound /\ Legacy # None /\ LegacyTarget.root # Legacy.root
      /\ TypeOK /\ UNCHANGED <<locator, version, mutex>> /\ job[p].pc = "decide"
  BY OldFields, LocationFields DEF AdoptTarget, SettingsInv, MigrationInv, At, Places
<1>2. PICK root \in Roots : root = LegacyTarget.root
  BY <1>1
<1>3. data' = [data EXCEPT ![root]["dirs"] = Empty] /\ data \in [Roots -> [Files -> Nat]]
  BY <1>1, <1>2 DEF AdoptTarget, TypeOK
<1>4. SettingsStay /\ \A r \in Roots : Managed(r)' <=> Managed(r)
  BY <1>3, SettingsAreFiles DEF SettingsStay, Managed
<1>5. Store' /\ SameView
  BY <1>1, <1>4, DirsKept
<1>6. /\ job' \in [Instances -> Jobs] /\ job'[p].pc = "write" /\ job'[p].why = "adopt"
      /\ job'[p].at = LegacyTarget
  <2>1. "write" \in Pcs /\ "adopt" \in Whys
    BY DEF Pcs, Whys
  <2>2. job \in [Instances -> Jobs] /\ LegacyTarget \in Places /\ p \in Instances
    BY <1>1 DEF TypeOK
  <2>3. Place(p, "write", "adopt", LegacyTarget)
    BY DEF AdoptTarget, Place
  <2> QED
    BY <2>1, <2>2, <2>3, PlacedJob
<1>7. mutex' = None
  BY <1>1, Unheld
<1>8. LegacyFound'
  BY <1>1, <1>4, SettingsStaying DEF SettingsInv, Store
<1> QED
  BY <1>1, <1>5, <1>6, <1>7, <1>8
  DEF Kept, Doing, Locked, Selecting, UsedAlone, Executing, Beginning, At, MigrationPcs

LEMMA KeptMigrateLegacy ==
    ASSUME Inexhaustible, NEW p, Instances = {p}, SettingsInv(p), MigrateLegacy(p)
    PROVE  Kept(p)
<1>1. CASE End(p)
  BY <1>1, EndsKept DEF MigrateLegacy
<1>2. ASSUME NEW r, r = Request(NewTransaction, Legacy, LegacyTarget, TRUE),
             job' = [job EXCEPT ![p].pc = "lock", ![p].why = "execute", ![p].req = r],
             UNCHANGED <<migLock, mutex>>, Vacant(LegacyTarget.root)
      PROVE  Kept(p)
  <2>1. /\ r \in Requests /\ r.source = Legacy /\ r.target = LegacyTarget /\ r.legacy
        /\ LegacyFound
    <3>1. NewTransaction \in Transactions /\ Legacy \in Locations /\ LegacyTarget \in Locations
          /\ LegacyFound
      BY NewId, MigrationAssumption DEF MigrateLegacy, LegacyFound
    <3>2. IsOld(r)
      BY <1>2, <3>1 DEF IsOld
    <3> QED
      BY <3>1, <3>2, OldRequest
  <2>2. job'[p].pc = "lock" /\ job'[p].why = "execute" /\ job'[p].req = r
    <3>1. "lock" \in Pcs /\ "execute" \in Whys
      BY DEF Pcs, Whys
    <3>2. Ask(p, "lock", "execute", r) /\ job \in [Instances -> Jobs] /\ p \in Instances
      BY <1>2 DEF SettingsInv, MigrationInv, TypeOK, Ask
    <3> QED
      BY <2>1, <3>1, <3>2, AskedJob
  <2>3. UNCHANGED <<locator, data, version, mutex>> /\ job[p].pc = "decide"
    BY <1>2 DEF MigrateLegacy, At
  <2>4. Fits(r) /\ Told(r) /\ ~Managed(r.target.root)
    BY <1>2, <2>1, SettingsAreFiles DEF Fits, Told, Vacant, Managed
  <2>5. Fits(r)' /\ Told(r)' /\ ~Managed(r.target.root)'
    BY <2>3, <2>4, SameData DEF Managed
  <2>6. Executing(p)'
    <3>1. PICK q : q = job'[p].req
      OBVIOUS
    <3>2. Fits(q)' /\ Told(q)' /\ ~Managed(q.target.root)'
      BY <2>2, <2>5, <3>1
    <3>3. Told(job[p].req)' /\ Fits(job[p].req)' /\ ~Managed(job[p].req.target.root)'
      BY <3>1, <3>2 DEF Fits, Told, SameRoot, Wanted, SourceContent, Managed
    <3>4. job'[p].req.legacy
      BY <2>1, <2>2
    <3> QED
      BY <2>2, <3>3, <3>4 DEF Executing, Beginning, At
  <2> QED
    BY <2>2, <2>3, <2>6, MovesKept DEF Selecting, UsedAlone, At
<1> QED
  BY <1>1, <1>2 DEF MigrateLegacy

LEMMA KeptSelectRoot ==
    ASSUME NEW p, Instances = {p}, SettingsInv(p), NEW c \in Choices, SelectRoot(p, c)
    PROVE  Kept(p)
<1>1. c \in Places
  BY MigrationAssumption, LocationFields DEF Places
<1>2. /\ job' \in [Instances -> Jobs] /\ job'[p].pc = "dirs" /\ job'[p].why = "select"
      /\ job'[p].at = c
  <2>1. "dirs" \in Pcs /\ "select" \in Whys
    BY DEF Pcs, Whys
  <2>2. job \in [Instances -> Jobs] /\ p \in Instances
    BY DEF SettingsInv, MigrationInv, TypeOK
  <2>3. Place(p, "dirs", "select", c)
    BY DEF SelectRoot, Place
  <2> QED
    BY <1>1, <2>1, <2>2, <2>3, PlacedJob
<1>3. ~LegacyFound' /\ UNCHANGED <<locator, data, version, mutex>> /\ job[p].pc = "decide"
  BY SameData DEF SelectRoot, At
<1> QED
  BY <1>2, <1>3, MovesKept DEF Selecting, UsedAlone, Executing, Beginning, At, MigrationPcs

LEMMA KeptCancelSelection ==
    ASSUME NEW p, Instances = {p}, SettingsInv(p), CancelSelection(p)
    PROVE  Kept(p)
BY EndsKept DEF CancelSelection

\* What a user can ask for is not the old layout.
LEMMA ChoiceFields ==
    ASSUME NEW c \in Choices
    PROVE  /\ c \in Locations /\ c.root \in Roots /\ c # Legacy
           /\ Legacy # None => c.root # Legacy.root
BY MigrationAssumption, LocationFields

LEMMA SelectingFields ==
    ASSUME NEW p, SettingsInv(p), job[p].pc \in {"dirs", "manifest"}
    PROVE  /\ job[p].why = "select" /\ ~LegacyFound /\ NoLocator /\ job[p].at \in Choices
           /\ TypeOK /\ mutex = None
BY DEF SettingsInv, MigrationInv, Doing, Locked, Selecting, Placing

LEMMA KeptMakeDirectories ==
    ASSUME NEW p, Instances = {p}, SettingsInv(p), MakeDirectories(p)
    PROVE  Kept(p)
<1>1. CASE Fault /\ End(p) /\ UNCHANGED data
  BY <1>1, EndsKept DEF MakeDirectories
<1>2. CASE /\ data' = [data EXCEPT ![job[p].at.root]["dirs"] = Empty]
           /\ Goto(p, "manifest")
           /\ UNCHANGED <<migLock, mutex, faults>>
  <2>1. /\ job[p].why = "select" /\ ~LegacyFound /\ job[p].at \in Choices /\ TypeOK /\ mutex = None
        /\ UNCHANGED <<locator, version>>
    BY SelectingFields DEF MakeDirectories, At
  <2>2. PICK root \in Roots : root = job[p].at.root
    BY <2>1, ChoiceFields
  <2>3. data' = [data EXCEPT ![root]["dirs"] = Empty] /\ data \in [Roots -> [Files -> Nat]]
    BY <1>2, <2>1, <2>2 DEF TypeOK
  <2>4. SettingsStay /\ \A r \in Roots : Managed(r)' <=> Managed(r)
    BY <2>3, SettingsAreFiles DEF SettingsStay, Managed
  <2>5. Store' /\ SameView
    BY <2>1, <2>4, DirsKept
  <2>6. job'[p].pc = "manifest" /\ job'[p].why = "select"
    BY <1>2, <2>1, GotoJob DEF TypeOK, Pcs
  <2>7. ~LegacyFound'
    BY <2>1, <2>4, SettingsStaying DEF SettingsInv, Store
  <2> QED
    BY <1>2, <2>1, <2>5, <2>6, <2>7
    DEF Kept, Doing, Locked, Selecting, UsedAlone, Executing, Beginning, At, MigrationPcs
<1> QED
  BY <1>1, <1>2 DEF MakeDirectories

LEMMA KeptMakeManifest ==
    ASSUME NEW p, Instances = {p}, SettingsInv(p), MakeManifest(p)
    PROVE  Kept(p)
<1>1. CASE Fault /\ End(p) /\ UNCHANGED data
  BY <1>1, EndsKept DEF MakeManifest
<1> DEFINE m == IF Managed(job[p].at.root) THEN {} ELSE {"manifest"}
<1>2. CASE /\ data' = [data EXCEPT ![job[p].at.root]["manifest"] = Empty]
           /\ job' = [job EXCEPT ![p].made = m,
                                 ![p].pc = IF job[p].why = "select" THEN "write" ELSE "running"]
           /\ UNCHANGED <<migLock, mutex, faults>>
  <2>1. /\ job[p].why = "select" /\ ~LegacyFound /\ job[p].at \in Choices /\ TypeOK /\ mutex = None
        /\ NoLocator /\ UNCHANGED <<locator, version>>
    BY SelectingFields DEF MakeManifest, At
  <2>2. PICK root \in Roots : root = job[p].at.root /\ (Legacy # None => root # Legacy.root)
    BY <2>1, ChoiceFields
  <2>3. data' = [data EXCEPT ![root]["manifest"] = Empty] /\ data \in [Roots -> [Files -> Nat]]
    BY <1>2, <2>1, <2>2 DEF TypeOK
  <2>4. SettingsStay /\ (Legacy # None => (Managed(Legacy.root)' <=> Managed(Legacy.root)))
    BY <2>2, <2>3, SettingsAreFiles, OldFields DEF SettingsStay, Managed
  <2>5. Store' /\ SameView
    BY <2>1, <2>4, MarkKept
  <2>6. job'[p].pc = "write" /\ job'[p].why = "select" /\ job'[p].at = job[p].at
    <3>1. m \in SUBSET Files /\ "write" \in Pcs
      BY DEF Files, Pcs
    <3>2. job' = [job EXCEPT ![p].made = m, ![p].pc = "write"]
      BY <1>2, <2>1
    <3> HIDE DEF m
    <3> QED
      BY <2>1, <3>1, <3>2, MadeJob DEF TypeOK
  <2>7. ~LegacyFound'
    BY <2>1, <2>4, SettingsStaying DEF SettingsInv, Store
  <2>8. job[p].at # Legacy
    BY <2>1, ChoiceFields
  <2> QED
    BY <1>2, <2>1, <2>5, <2>6, <2>7, <2>8
    DEF Kept, Doing, Locked, Selecting, UsedAlone, Executing, Beginning, At, MigrationPcs
<1> QED
  BY <1>1, <1>2 DEF MakeManifest

LEMMA KeptGiveUp ==
    ASSUME NEW p, Instances = {p}, SettingsInv(p), GiveUp(p)
    PROVE  Kept(p)
BY EndsKept DEF GiveUp

\* A directory in use is not the old layout's.
LEMMA UsedIsNew ==
    ASSUME NEW p, SettingsInv(p), NEW a \in Locations, Managed(a.root)
    PROVE  a # Legacy /\ (Legacy # None => a.root # Legacy.root)
BY MigrationAssumption DEF SettingsInv, Store, Untouched

LEMMA KeptInstall ==
    ASSUME NEW p, Window(p), Instances = {p}, SettingsInv(p), Install(p)
    PROVE  Kept(p)
<1>1. /\ job[p].seen = Resolved /\ Resolved # None /\ Managed(Resolved.active.root) /\ TypeOK
      /\ UNCHANGED <<locator, version, mutex>> /\ job[p].pc = "existing"
  BY DEF Install, SettingsInv, MigrationInv, Reading, At
<1>2. PICK a \in Locations : a = Resolved.active
  BY <1>1, ActiveRoot
<1>3. PICK root \in Roots : root = a.root
  BY LocationFields
<1>4. data' = [data EXCEPT ![root]["dirs"] = Empty] /\ data \in [Roots -> [Files -> Nat]]
  BY <1>1, <1>2, <1>3 DEF Install, TypeOK
<1>5. SettingsStay /\ \A r \in Roots : Managed(r)' <=> Managed(r)
  BY <1>4, SettingsAreFiles DEF SettingsStay, Managed
<1>6. Store' /\ SameView
  BY <1>1, <1>5, DirsKept
<1>7. job'[p].pc = "write" /\ job'[p].why = "verify" /\ job'[p].at = a
  <2>1. job' = [job EXCEPT ![p] = [Idle EXCEPT !.at = a, !.pc = "write", !.why = "verify"]]
    BY <1>1, <1>2 DEF Install, Window
  <2> QED
    BY <1>1, <2>1 DEF TypeOK, Idle
<1>8. a # Legacy
  BY <1>1, <1>2, UsedIsNew
<1>9. mutex' = None
  BY <1>1, Unheld
<1> QED
  BY <1>6, <1>7, <1>8, <1>9
  DEF Kept, Doing, Locked, Selecting, UsedAlone, Executing, Beginning, At, MigrationPcs

LEMMA KeptRecoverFirst ==
    ASSUME NEW p, Instances = {p}, SettingsInv(p), RecoverFirst(p)
    PROVE  Kept(p)
<1>1. /\ job[p].seen = Resolved /\ Resolved # None /\ Resolved.pending # None /\ TypeOK
      /\ UNCHANGED <<locator, data, version, mutex>> /\ job[p].pc = "existing"
  BY DEF RecoverFirst, SettingsInv, MigrationInv, Reading, At
<1>2. PICK l \in Locators : Resolved = locator[l]
  BY DEF Resolved, Locators
<1>3. PICK r \in Requests : r = Resolved.pending /\ Told(r)
  BY <1>1, <1>2, PromisedFields DEF Promised
<1>4. job'[p].pc = "lock" /\ job'[p].why = "recover" /\ job'[p].req = r
  <2>1. job'[p] = [Idle EXCEPT !.pc = "lock", !.why = "recover", !.req = r,
                               !.tries = job[p].tries + 1]
    BY <1>1, <1>3 DEF RecoverFirst, TypeOK
  <2> QED
    BY <2>1 DEF Idle
<1>5. Told(r)'
  BY <1>1, <1>3, SameData
<1>6. Executing(p)'
  BY <1>4, <1>5 DEF Executing, Beginning, At, Told
<1> QED
  BY <1>1, <1>4, <1>6, MovesKept DEF Selecting, UsedAlone, At

\* A locator is written or removed: what has to be shown of those that are there then.
LEMMA StoreSet ==
    ASSUME Store, UNCHANGED <<data, version>>, NEW new, locator' = new,
           \A m \in Locators : new[m] # None =>
              IF new[m].pending # None THEN Promised(new[m].pending)
              ELSE new[m].active = Legacy =>
                      new[Other(m)] = None /\ ~Managed(LegacyTarget.root)
    PROVE  Store'
<1>1. Bounded' /\ Untouched'
  BY DEF Store, Bounded, Untouched, Managed
<1>2. \A m \in Locators : new[m] # None /\ new[m].pending # None => Promised(new[m].pending)'
  BY SameData
<1>3. ~Managed(LegacyTarget.root) => ~Managed(LegacyTarget.root)'
  BY DEF Managed
<1>4. Pended'
  <2> SUFFICES ASSUME NEW m \in Locators, (locator[m] # None)'
               PROVE  (IF locator[m].pending # None THEN Promised(locator[m].pending) ELSE Left(m))'
    BY DEF Pended
  <2>1. CASE new[m].pending # None
    <3>1. PICK r : r = new[m].pending
      OBVIOUS
    <3>2. Promised(r)'
      BY <1>2, <2>1, <3>1
    <3>3. Promised(locator[m].pending)'
      BY <3>1, <3>2 DEF Promised, Fits, Told, SameRoot, Wanted, SourceContent, Managed, Complete
    <3> QED
      BY <2>1, <3>3
  <2>2. CASE new[m].pending = None
    BY <1>3, <2>2 DEF Left
  <2> QED
    BY <2>1, <2>2
<1> QED
  BY <1>1, <1>4 DEF Store

LEMMA KeptWriteActive ==
    ASSUME NEW p, Instances = {p}, SettingsInv(p), WriteActive(p), MigrationInv(p)'
    PROVE  Kept(p)
<1> DEFINE l == job[p].at.locator
<1>1. /\ job[p].at \in Locations /\ Managed(job[p].at.root) /\ UNCHANGED version
      /\ job[p].why \in {"adopt", "select", "verify"} /\ TypeOK
      /\ IF job[p].why = "verify" THEN Resolved # None /\ Resolved.active = job[p].at ELSE NoLocator
      /\ job[p].pc = "write" /\ mutex = None /\ job \in [Instances -> Jobs] /\ p \in Instances
  BY Unheld DEF WriteActive, SettingsInv, MigrationInv, Placing, At, TypeOK
<1>2. PICK a \in Locations : /\ a = job[p].at /\ a.root \in Roots /\ a.locator \in Locators
                             /\ a # Legacy /\ (Legacy # None => a.root # Legacy.root)
  BY <1>1, UsedIsNew, LocationFields
<1>3. /\ job[p].why = "select" => ~LegacyFound
      /\ job[p].why = "adopt" => LegacyFound /\ a = LegacyTarget
  BY <1>1, <1>2 DEF SettingsInv, Doing, Selecting, At
<1>4. CASE /\ MayWriteActive(a)
           /\ locator' = [locator EXCEPT ![l] = State(a, None, TRUE, None)]
           /\ IF locator[Other(l)] = None
              THEN Written(p) /\ UNCHANGED mutex
              ELSE /\ job' = [job EXCEPT ![p].pc = "writeRemove", ![p].prev = locator[l]]
                   /\ mutex' = p
           /\ UNCHANGED <<data, migLock, faults>>
  <2>1. PICK s \in States : /\ s = State(a, None, TRUE, None)
                            /\ s # None /\ s.active = a /\ s.pending = None
    BY <1>1, <1>2, VerifiedState
  <2>2. /\ locator'[a.locator] = s
        /\ \A m \in Locators : m # a.locator => locator'[m] = locator[m]
    BY <1>1, <1>2, <1>4, <2>1 DEF TypeOK
  <2>3. job[p].why = "verify" =>
           /\ locator[a.locator] # None /\ Resolved = locator[a.locator]
           /\ Resolved' # None /\ (Resolved.active)' = a
    <3>1. ASSUME job[p].why = "verify"
          PROVE  locator[a.locator] # None /\ Resolved = locator[a.locator]
      BY <1>1, <1>2, <3>1, ActiveRoot DEF TypeOK
    <3>2. ASSUME job[p].why = "verify", a.locator = "program"
          PROVE  Resolved' # None /\ (Resolved.active)' = a
      BY <2>1, <2>2, <3>2 DEF Resolved, Locators
    <3>3. ASSUME job[p].why = "verify", a.locator = "user"
          PROVE  Resolved' # None /\ (Resolved.active)' = a
      <4>1. locator["program"] = None
        BY <1>1, <3>1, <3>3 DEF Resolved, TypeOK, Locators
      <4> QED
        BY <2>1, <2>2, <3>3, <4>1 DEF Resolved, Locators
    <3> QED
      BY <1>2, <3>1, <3>2, <3>3 DEF Locators
  <2>4. Store'
    <3>1. PICK new : new = locator'
      OBVIOUS
    <3>2. ASSUME NEW m \in Locators, new[m] # None
          PROVE  IF new[m].pending # None THEN Promised(new[m].pending)
                 ELSE new[m].active = Legacy => new[Other(m)] = None /\ ~Managed(LegacyTarget.root)
      <4>1. CASE m = a.locator
        BY <1>2, <2>1, <2>2, <3>1, <4>1
      <4>2. CASE m # a.locator
        <5>1. new[m] = locator[m] /\ locator[m] # None /\ job[p].why = "verify"
          BY <1>1, <2>2, <3>1, <3>2, <4>2 DEF NoLocator
        <5>2. locator[Other(m)] # None
          BY <1>2, <2>3, <4>2, <5>1, Others
        <5> QED
          BY <5>1, <5>2, PromisedFields DEF Left
      <4> QED
        BY <4>1, <4>2
    <3>3. Store /\ UNCHANGED <<data, version>> /\ locator' = new
      BY <1>1, <1>4, <3>1 DEF SettingsInv
    <3> QED
      BY <3>2, <3>3, StoreSet
  <2>5. SameView \/ Attaching
    <3>1. ASSUME job[p].why # "verify"
          PROVE  /\ Resolved = None /\ Resolved' # None /\ (Resolved.active)' = a
      <4>1. NoLocator
        BY <1>1, <3>1
      <4>2. locator'[Other(a.locator)] = None
        BY <1>2, <2>2, <4>1, Others DEF NoLocator
      <4>3. Resolved = None
        BY <4>1 DEF Resolved, NoLocator, Locators
      <4>4. Resolved' = s
        <5>1. CASE a.locator = "program"
          BY <2>1, <2>2, <5>1 DEF Resolved
        <5>2. CASE a.locator = "user"
          BY <2>1, <2>2, <4>2, <5>2, Others DEF Resolved
        <5> QED
          BY <1>2, <5>1, <5>2 DEF Locators
      <4> QED
        BY <2>1, <4>3, <4>4
    <3>2. CASE job[p].why = "verify"
      <4>1. Home' = Home
        BY <1>1, <1>2, <2>3, <3>2 DEF Home
      <4> QED
        BY <1>1, <1>4, <4>1, ViewStays
    <3>3. CASE job[p].why = "adopt"
      <4>1. Home' = Home
        BY <1>1, <1>2, <1>3, <3>1, <3>3 DEF Home
      <4> QED
        BY <1>1, <1>4, <4>1, ViewStays
    <3>4. CASE job[p].why = "select"
      <4>1. Home = NoRoot /\ Home' = a.root /\ a.root # NoRoot
        BY <1>2, <1>3, <3>1, <3>4, NoRootAssumption DEF Home
      <4>2. View' = [f \in Settings |-> ReadFrom(a.root, f)']
        BY <4>1 DEF View, ReadFrom
      <4>3. \A f \in Settings : ReadFrom(a.root, f) \in {Empty} \cup 0..version
        <5>1. \A f \in Settings : data[a.root][f] \in Nat /\ data[a.root][f] <= version
          BY <1>1, <1>2, SettingsAreFiles DEF SettingsInv, Store, Bounded, TypeOK
        <5>2. version \in Nat
          BY <1>1 DEF TypeOK
        <5> QED
          BY <1>2, <5>1, <5>2 DEF ReadFrom
      <4>4. \A f \in Settings : ReadFrom(a.root, f)' = ReadFrom(a.root, f)
        BY <1>4, ReadStays
      <4> QED
        BY <1>1, <4>1, <4>2, <4>3, <4>4 DEF Attaching, Attached
    <3> QED
      BY <1>1, <3>2, <3>3, <3>4
  <2>6. Doing(p)'
    <3>1. CASE locator[Other(l)] # None
      <4>1. PICK s0 \in States \cup {None} : s0 = locator[l]
        BY <1>1, <1>2 DEF TypeOK
      <4>2. Remember(p, "writeRemove", s0) /\ "writeRemove" \in Pcs
        BY <1>4, <3>1, <4>1 DEF Remember, Pcs
      <4>3. job'[p].pc = "writeRemove" /\ job'[p].at = a
        BY <1>1, <1>2, <4>2, PrevJob
      <4> QED
        BY <1>2, <4>3
        DEF Doing, Locked, Selecting, UsedAlone, Executing, Beginning, At, MigrationPcs
    <3>2. CASE locator[Other(l)] = None /\ job[p].why = "verify"
      <4>1. job'[p] = [Idle EXCEPT !.pc = "running", !.at = a] /\ mutex' = None
        BY <1>1, <1>2, <1>4, <3>2 DEF Written
      <4>2. job'[p].pc = "running" /\ job'[p].at = a
        BY <4>1 DEF Idle
      <4>3. \A m \in Locators : locator'[m] # None => locator'[m].pending = None
        BY <1>2, <2>1, <2>2, <3>2, Others
      <4>4. a.locator # None
        BY <1>2, MigrationAssumption
      <4> QED
        BY <1>2, <4>1, <4>2, <4>3, <4>4
        DEF Doing, Locked, Selecting, UsedAlone, Executing, Beginning, At, MigrationPcs
    <3>3. CASE locator[Other(l)] = None /\ job[p].why = "adopt"
      <4>1. Call(p, "write", "verify") /\ mutex' = None
        BY <1>1, <1>4, <3>3 DEF Written
      <4>2. job'[p].pc = "write" /\ job'[p].why = "verify" /\ job'[p].at = a
        BY <1>1, <1>2, <4>1, CallJob DEF Pcs, Whys
      <4> QED
        BY <1>2, <4>1, <4>2
        DEF Doing, Locked, Selecting, UsedAlone, Executing, Beginning, At, MigrationPcs
    <3>4. CASE locator[Other(l)] = None /\ job[p].why = "select"
      <4>1. job'[p] = [Idle EXCEPT !.pc = "program", !.why = "existing"] /\ mutex' = None
        BY <1>1, <1>4, <3>4 DEF Written
      <4>2. job'[p].pc = "program"
        BY <4>1 DEF Idle
      <4> QED
        BY <4>1, <4>2, DoesNothing
    <3> QED
      BY <1>1, <3>1, <3>2, <3>3, <3>4
  <2> QED
    BY <2>4, <2>5, <2>6 DEF Kept
<1>5. CASE NotWritten(p) /\ UNCHANGED locator
  <2>1. CASE UNCHANGED data
    BY <1>1, <1>5, <2>1, EndsKept DEF NotWritten
  <2>2. CASE job[p].why = "select" /\ data' = [data EXCEPT ![a.root]["manifest"] = NoFile]
    <3>1. data \in [Roots -> [Files -> Nat]]
      BY <1>1 DEF TypeOK
    <3>2. SettingsStay /\ (Legacy # None => (Managed(Legacy.root)' <=> Managed(Legacy.root)))
      BY <1>2, <2>2, <3>1, SettingsAreFiles, OldFields DEF SettingsStay, Managed
    <3>3. Store' /\ SameView
      BY <1>1, <1>3, <1>5, <2>2, <3>2, MarkKept
    <3>4. Doing(p)'
      BY <1>1, <1>5, EndsDoing DEF NotWritten
    <3> QED
      BY <3>3, <3>4 DEF Kept
  <2> QED
    BY <1>2, <1>5, <2>1, <2>2 DEF NotWritten
<1> QED
  BY <1>2, <1>4, <1>5 DEF WriteActive

LEMMA KeptRemoveConflicting ==
    ASSUME NEW p, Instances = {p}, SettingsInv(p), RemoveConflicting(p), MigrationInv(p)'
    PROVE  Kept(p)
<1>1. /\ job[p].at \in Locations /\ job[p].at.locator = "program" /\ job[p].why = "verify"
      /\ locator["program"] = State(job[p].at, None, TRUE, None)
      /\ job[p].prev # None /\ job[p].prev.active = job[p].at /\ job[p].prev.pending = None
      /\ job[p].at # Legacy /\ TypeOK /\ job \in [Instances -> Jobs] /\ UNCHANGED version
  BY DEF RemoveConflicting, SettingsInv, MigrationInv, Placing, At, TypeOK, Doing, UsedAlone
<1>2. PICK a \in Locations : /\ a = job[p].at /\ a.locator = "program" /\ a # Legacy
                             /\ locator["program"] # None /\ locator["program"].active = a
                             /\ locator["program"].pending = None
  <2>1. PICK a \in Locations : a = job[p].at
    BY <1>1
  <2>2. State(a, None, TRUE, None) \in States
    BY DEF State, States
  <2>3. PICK s \in States : s = State(a, None, TRUE, None)
    BY <2>2
  <2>4. s # None /\ s.active = a /\ s.pending = None
    BY <2>3, TypesAssumption DEF State
  <2> QED
    BY <1>1, <2>1, <2>3, <2>4
<1>3. PICK new : new = locator'
  OBVIOUS
\* Whatever is written, the program's locator names the directory, and the user's names no
\* old layout or goes.
<1>4. ASSUME UNCHANGED data, new["program"] # None, new["program"].active = a,
             new["program"].pending = None, new["user"] \in {None, locator["user"]}
      PROVE  Store' /\ SameView
  <2>1. ASSUME NEW m \in Locators, new[m] # None
        PROVE  IF new[m].pending # None THEN Promised(new[m].pending)
               ELSE new[m].active = Legacy => new[Other(m)] = None /\ ~Managed(LegacyTarget.root)
    <3>1. CASE m = "program"
      BY <1>2, <1>4, <3>1
    <3>2. CASE m = "user"
      BY <1>2, <1>4, <2>1, <3>2, PromisedFields, Others DEF Left
    <3> QED
      BY <3>1, <3>2 DEF Locators
  <2>2. Store'
    <3>1. Store /\ UNCHANGED <<data, version>> /\ locator' = new
      BY <1>1, <1>3, <1>4 DEF SettingsInv
    <3> QED
      BY <2>1, <3>1, StoreSet
  <2>3. Home' = Home
    BY <1>2, <1>3, <1>4 DEF Home, Resolved
  <2> QED
    BY <1>1, <1>4, <2>2, <2>3, ViewStays
<1>5. CASE /\ locator' = [locator EXCEPT ![Other("program")] = None]
           /\ Written(p) /\ mutex' = None
           /\ UNCHANGED <<data, migLock, faults>>
  <2>1. /\ locator'["user"] = None /\ locator'["program"] = locator["program"]
    BY <1>1, <1>5, Others DEF TypeOK, Locators
  <2>2. job'[p] = [Idle EXCEPT !.pc = "running", !.at = a]
    BY <1>1, <1>2, <1>5 DEF Written
  <2>3. job'[p].pc = "running" /\ job'[p].at = a
    BY <2>2 DEF Idle
  <2>4. \A m \in Locators : locator'[m] # None => locator'[m].pending = None
    BY <1>2, <2>1 DEF Locators
  <2>5. a.locator # None
    BY <1>2, MigrationAssumption DEF Locators
  <2>6. Doing(p)'
    BY <1>2, <1>5, <2>3, <2>4, <2>5
    DEF Doing, Locked, Selecting, UsedAlone, Executing, Beginning, At, MigrationPcs
  <2> QED
    BY <1>2, <1>3, <1>4, <1>5, <2>1, <2>6 DEF Kept
<1>6. CASE /\ locator' \in {locator, [locator EXCEPT !["program"] = job[p].prev]}
           /\ NotWritten(p)
  <2>1. UNCHANGED data /\ End(p)
    BY <1>1, <1>6 DEF NotWritten
  <2>2. Doing(p)'
    BY <1>1, <2>1, EndsDoing
  <2>3. /\ new["program"] # None /\ new["program"].active = a
        /\ new["program"].pending = None /\ new["user"] = locator["user"]
    BY <1>1, <1>2, <1>3, <1>6 DEF TypeOK, Locators
  <2> QED
    BY <1>4, <2>1, <2>2, <2>3 DEF Kept
<1> QED
  BY <1>1, <1>5, <1>6 DEF RemoveConflicting

-----------------------------------------------------------------------------
(* The steps of a migration *)

\* What is known of a migration wherever it is.
LEMMA ToldFields ==
    ASSUME NEW p, Instances = {p}, SettingsInv(p), job[p].pc \in MigrationPcs
    PROVE  LET r == job[p].req IN
           /\ r \in Requests /\ r # None /\ GoodRequest(r) /\ Told(r)
           /\ r.source \in Locations /\ r.target \in Locations
           /\ r.source.locator \in Locators /\ r.target.locator \in Locators
           /\ r.source.root \in Roots /\ r.target.root \in Roots
           /\ r.source # Legacy =>
                 /\ Managed(r.source.root) /\ ~r.legacy
                 /\ Legacy # None => r.source.root # Legacy.root
           /\ job[p].why \in {"recover", "execute"}
           /\ job \in [Instances -> Jobs] /\ p \in Instances /\ TypeOK
<1>1. PICK r \in Requests : r = job[p].req /\ r # None /\ GoodRequest(r)
  BY AskedFields DEF SettingsInv
<1>2. /\ r.source \in Locations /\ r.target \in Locations
      /\ r.source.locator \in Locators /\ r.target.locator \in Locators
      /\ r.source.root \in Roots /\ r.target.root \in Roots
  BY LocationFields DEF Requests
<1>3. Told(r)
  BY <1>1 DEF SettingsInv, Doing, Executing
<1>4. r.source # Legacy => /\ Managed(r.source.root) /\ ~r.legacy
                           /\ Legacy # None => r.source.root # Legacy.root
  BY <1>1, <1>2, <1>3, UsedIsNew DEF GoodRequest, Told
<1> QED
  BY <1>1, <1>2, <1>3, <1>4, AskedFields DEF SettingsInv

\* While an old layout moves, no call fails.
LEMMA LegacyIsQuiet ==
    ASSUME NEW p, Window(p), NEW r, Told(r), Fault
    PROVE  ~r.legacy
BY OldFields DEF Window, Told, Fault, Faulty

\* What is left to show of a step that leaves the process in a migration.
LEMMA ExecutingIs ==
    ASSUME NEW p, NEW r, NEW pc, job'[p].req = r, job'[p].pc = pc, Told(r)',
           (pc = "lock" /\ job'[p].why = "execute") \/ pc = "pend" =>
              Fits(r)' /\ (NoLocator' => r.legacy) /\ (r.legacy => ~Managed(r.target.root)'),
           pc \in {"rollback", "cleanup"} => (NoLocator' => r.legacy),
           pc \in {"copy", "rollback", "cleanup"} => (r.legacy => ~Managed(r.target.root)'),
           pc = "commitFailed" => ~r.legacy
    PROVE  Executing(p)'
<1>1. Told(job[p].req)'
  BY DEF Told
<1>2. Fits(r)' => Fits(job[p].req)'
  BY DEF Fits, SameRoot, Wanted, SourceContent
<1>3. Managed(job[p].req.target.root)' <=> Managed(r.target.root)'
  BY DEF Managed
<1>4. Beginning(p)' => (pc = "lock" /\ job'[p].why = "execute") \/ pc = "pend"
  BY DEF Beginning, At
<1> QED
  BY <1>1, <1>2, <1>3, <1>4 DEF Executing, At

\* A migration that moves on, whose request stays.
LEMMA GoesOn ==
    ASSUME NEW p, Instances = {p}, SettingsInv(p), job[p].pc \in MigrationPcs \ {"commitRemove"},
           NEW pc \in MigrationPcs \ {"lock"}, Goto(p, pc),
           UNCHANGED <<locator, data, version, mutex>>,
           pc = "commitFailed" => ~job[p].req.legacy,
           pc = "pend" => At(p, "lock") /\ job[p].why = "execute",
           pc \in {"copy", "rollback"} => (job[p].req.legacy => ~Managed(job[p].req.target.root)),
           pc = "rollback" => (NoLocator => job[p].req.legacy),
           pc = "cleanup" => At(p, "rollback")
    PROVE  Kept(p)
<1>1. PICK r \in Requests : r = job[p].req /\ Told(r)
  BY ToldFields
<1>2. job'[p].pc = pc /\ job'[p].why = job[p].why /\ job'[p].req = r
  <2>1. pc \in Pcs /\ job \in [Instances -> Jobs] /\ p \in Instances
    BY ToldFields DEF Pcs, MigrationPcs
  <2> QED
    BY <1>1, <2>1, GotoJob
<1>3. /\ Told(r)' /\ (Fits(r) => Fits(r)') /\ (Managed(r.target.root)' <=> Managed(r.target.root))
      /\ (NoLocator' <=> NoLocator)
  BY <1>1, SameData DEF NoLocator
<1>4. /\ pc = "pend" => Fits(r) /\ (NoLocator => r.legacy) /\ (r.legacy => ~Managed(r.target.root))
      /\ pc = "cleanup" => (NoLocator => r.legacy) /\ (r.legacy => ~Managed(r.target.root))
  BY <1>1 DEF SettingsInv, Doing, Executing, Beginning, At
<1>5. Executing(p)'
  BY <1>1, <1>2, <1>3, <1>4, ExecutingIs
<1>6. Selecting(p)' /\ UsedAlone(p)'
  BY <1>2 DEF Selecting, UsedAlone, At, MigrationPcs
<1> QED
  BY <1>5, <1>6, MovesKept DEF MigrationPcs

LEMMA KeptTakeLock ==
    ASSUME NEW p, Instances = {p}, SettingsInv(p), TakeLock(p)
    PROVE  Kept(p)
<1>1. CASE End(p)
  BY <1>1, EndsKept DEF TakeLock
<1>2. CASE Goto(p, IF job[p].why = "recover" THEN "judge" ELSE "pend") /\ UNCHANGED mutex
  <2>1. job[p].pc \in MigrationPcs \ {"commitRemove"} /\ job[p].pc = "lock"
    BY DEF TakeLock, At, MigrationPcs
  <2>2. PICK pc \in {"judge", "pend"} : Goto(p, pc) /\ (pc = "pend" => job[p].why = "execute")
    BY <1>2, <2>1, ToldFields
  <2>3. UNCHANGED <<locator, data, version, mutex>>
    BY <1>2 DEF TakeLock
  <2> QED
    BY <2>1, <2>2, <2>3, GoesOn DEF At, MigrationPcs
<1> QED
  BY <1>1, <1>2 DEF TakeLock

LEMMA KeptCommitRefused ==
    ASSUME NEW p, Window(p), Instances = {p}, SettingsInv(p), CommitRefused(p)
    PROVE  Kept(p)
<1>1. job[p].pc \in MigrationPcs \ {"commitRemove"} /\ job[p].pc = "commit"
  BY DEF CommitRefused, At, MigrationPcs
<1>2. ~job[p].req.legacy
  <2>1. mutex = None /\ PendingIs(job[p].req) /\ Told(job[p].req)
    BY <1>1, Unheld, CommitFields, ToldFields DEF SettingsInv
  <2>2. PICK r : r = job[p].req /\ Told(r)
    BY <2>1
  <2>3. Fault
    BY <2>1 DEF CommitRefused
  <2> QED
    BY <2>2, <2>3, LegacyIsQuiet
<1>3. UNCHANGED <<locator, data, version, mutex>> /\ Goto(p, "commitFailed")
  BY DEF CommitRefused
<1> QED
  BY <1>1, <1>2, <1>3, GoesOn DEF MigrationPcs

LEMMA PendingIsThere ==
    ASSUME NEW r, r.source.locator \in Locators, PendingIs(r)
    PROVE  ~NoLocator
BY DEF PendingIs, NoLocator

LEMMA KeptCommitFailed ==
    ASSUME NEW p, Instances = {p}, SettingsInv(p), CommitFailed(p)
    PROVE  Kept(p)
<1>1. CASE End(p)
  BY <1>1, EndsKept DEF CommitFailed
<1>2. CASE Goto(p, "rollback") /\ UNCHANGED <<migLock, mutex>>
  <2>1. job[p].pc \in MigrationPcs \ {"commitRemove"} /\ job[p].pc = "commitFailed"
    BY DEF CommitFailed, At, MigrationPcs
  <2>2. ~job[p].req.legacy
    BY <2>1 DEF SettingsInv, Doing, Executing, At
  <2>3. PendingIs(job[p].req) /\ job[p].req.source.locator \in Locators
    BY <2>1, CommitFields, ToldFields DEF SettingsInv
  <2>4. ~NoLocator
    BY <2>3, PendingIsThere
  <2>5. UNCHANGED <<locator, data, version, mutex>>
    BY <1>2 DEF CommitFailed
  <2> QED
    BY <1>2, <2>1, <2>2, <2>4, <2>5, GoesOn DEF MigrationPcs
<1> QED
  BY <1>1, <1>2 DEF CommitFailed

LEMMA KeptRollbackRefused ==
    ASSUME NEW p, Instances = {p}, SettingsInv(p), RollbackRefused(p)
    PROVE  Kept(p)
<1>1. CASE End(p)
  BY <1>1, EndsKept DEF RollbackRefused
<1>2. CASE Goto(p, "cleanup") /\ UNCHANGED <<migLock, mutex>>
  <2>1. job[p].pc \in MigrationPcs \ {"commitRemove"} /\ At(p, "rollback")
    BY DEF RollbackRefused, At, MigrationPcs
  <2>2. UNCHANGED <<locator, data, version, mutex>>
    BY <1>2 DEF RollbackRefused
  <2> QED
    BY <1>2, <2>1, <2>2, GoesOn DEF MigrationPcs
<1> QED
  BY <1>1, <1>2 DEF RollbackRefused

LEMMA KeptJudgePending ==
    ASSUME NEW p, Instances = {p}, SettingsInv(p), JudgePending(p)
    PROVE  Kept(p)
<1>1. job[p].pc \in MigrationPcs \ {"commitRemove"} /\ At(p, "judge")
  BY DEF JudgePending, At, MigrationPcs
<1>2. PICK r \in Requests : r = job[p].req /\ r.source.locator \in Locators
  BY <1>1, ToldFields
<1>3. PICK pc \in {"commit", "rollback"} : /\ Goto(p, pc)
                                           /\ pc = "commit" <=> Complete(r.target.root)
  BY <1>2 DEF JudgePending
<1>4. ~NoLocator
  BY <1>2, PendingIsThere DEF JudgePending
<1>5. Promised(r)
  <2>1. Resolved # None /\ Resolved.pending = r /\ r # None
    BY <1>1, <1>2, ToldFields DEF SettingsInv, MigrationInv, Moves, At
  <2>2. PICK l \in Locators : Resolved = locator[l]
    BY DEF Resolved, Locators
  <2> QED
    BY <2>1, <2>2, PromisedFields
<1>6. UNCHANGED <<locator, data, version, mutex>>
  BY DEF JudgePending
<1> QED
  BY <1>1, <1>2, <1>3, <1>4, <1>5, <1>6, GoesOn DEF Promised, MigrationPcs

\* A migration is written as pending, by a start or by the options.
LEMMA PendingKept ==
    ASSUME NEW p, SettingsInv(p), NEW r \in Requests, OnlySource(r), GoodRequest(r),
           Fits(r), Told(r), NoLocator => r.legacy, r.legacy => ~Managed(r.target.root),
           locator' = PendingWritten(r), UNCHANGED <<data, version>>
    PROVE  /\ Store' /\ SameView
           /\ \A m \in Locators : locator'[m] # None /\ locator'[m].pending # None =>
                 locator'[m].pending.source = r.source /\ locator'[m].pending.target = r.target
<1>1. /\ r.source \in Locations /\ r.target \in Locations /\ r.source.locator \in Locators
      /\ TypeOK /\ Disk
  BY LocationFields DEF Requests, SettingsInv, MigrationInv, Disk
<1>2. CASE PendingIs(r)
  <2>1. UNCHANGED locator
    BY <1>2 DEF PendingWritten
  <2>2. \A m \in Locators : locator[m] # None => m = r.source.locator
    BY DEF OnlySource
  <2> QED
    BY <1>1, <1>2, <2>1, <2>2, QuietStore, SamePending DEF SettingsInv, Disk
<1>3. CASE ~PendingIs(r)
  <2> DEFINE l == r.source.locator
  <2>1. PICK b \in BOOLEAN : b = (locator[l] # None)
    OBVIOUS
  <2>2. PICK v \in BOOLEAN : v = (locator[l] # None /\ locator[l].verified)
    BY <1>1 DEF TypeOK, States
  <2>3. PICK q \in Requests : q = [r EXCEPT !.existed = b] /\ q.existed = b
    BY SameIsSame
  <2>4. PICK s \in States : s = State(r.source, q, v, None)
    BY <1>1, <2>3, PendingState
  <2>5. /\ s # None /\ s.active = r.source /\ s.pending = q
        /\ q # None /\ q.source = r.source /\ q.target = r.target /\ q.legacy = r.legacy
    BY <1>1, <2>3, <2>4, PendingState
  <2>6. locator' = [locator EXCEPT ![l] = s]
    BY <1>3, <2>1, <2>2, <2>3, <2>4 DEF PendingWritten
  <2>7. locator'[l] = s /\ \A m \in Locators : m # l => locator'[m] = locator[m]
    BY <1>1, <2>6 DEF TypeOK
  <2>8. \A m \in Locators : m # l => locator'[m] = None
    BY <2>7 DEF OnlySource
  <2>9. Promised(q)
    <3>1. Fits(q) /\ Told(q)
      <4>1. \A f : Wanted(q, f) = Wanted(r, f)
        BY <2>5 DEF Wanted, SourceContent
      <4> QED
        BY <2>5, <4>1 DEF Fits, Told, SameRoot
    <3>2. ~q.existed => q.legacy
      <4>1. locator[l] = None => NoLocator
        BY DEF OnlySource, NoLocator
      <4> QED
        BY <2>1, <2>3, <2>5, <4>1
    <3> QED
      BY <2>5, <3>1, <3>2 DEF Promised
  <2>10. PICK new : new = locator'
    OBVIOUS
  <2>11. Store'
    <3>1. \A m \in Locators : new[m] # None =>
             IF new[m].pending # None THEN Promised(new[m].pending)
             ELSE new[m].active = Legacy => new[Other(m)] = None /\ ~Managed(LegacyTarget.root)
      BY <2>5, <2>7, <2>8, <2>9, <2>10
    <3>2. Store /\ locator' = new
      BY <2>10 DEF SettingsInv
    <3> QED
      BY <3>1, <3>2, StoreSet
  <2>12. Home' = Home
    <3>1. Resolved' = s
      BY <1>1, <2>5, <2>7, <2>8 DEF Resolved, Locators
    <3>2. CASE locator[l] # None
      <4>1. Resolved # None /\ Resolved.active = r.source
        BY <1>1, <3>2 DEF Resolved, OnlySource, Locators
      <4> QED
        BY <2>5, <3>1, <4>1 DEF Home
    <3>3. CASE locator[l] = None
      <4>1. NoLocator
        BY <3>3 DEF OnlySource, NoLocator
      <4>2. Resolved = None
        BY <4>1 DEF NoLocator, Resolved, Locators
      <4>3. Home = Legacy.root /\ r.source = Legacy
        BY <4>1, <4>2 DEF Home, Told
      <4> QED
        BY <2>5, <3>1, <4>3 DEF Home
    <3> QED
      BY <3>2, <3>3
  <2> QED
    BY <2>5, <2>7, <2>8, <2>11, <2>12, ViewStays
<1> QED
  BY <1>2, <1>3

LEMMA KeptWritePending ==
    ASSUME NEW p, Instances = {p}, SettingsInv(p), WritePending(p)
    PROVE  Kept(p)
<1>1. At(p, "pend") /\ job[p].pc \in MigrationPcs /\ mutex = None
  BY Unheld DEF WritePending, At, MigrationPcs
<1>2. PICK r \in Requests : /\ r = job[p].req /\ GoodRequest(r) /\ Told(r)
                            /\ r.source \in Locations /\ r.source.locator \in Locators
                            /\ TypeOK /\ job \in [Instances -> Jobs] /\ p \in Instances
  BY <1>1, ToldFields
<1>3. OnlySource(r) /\ Disk
  BY <1>1, <1>2 DEF SettingsInv, MigrationInv, Moves, Disk, At
<1>4. Fits(r) /\ (NoLocator => r.legacy) /\ (r.legacy => ~Managed(r.target.root))
  BY <1>1, <1>2 DEF SettingsInv, Doing, Executing, Beginning
<1>5. CASE End(p) /\ UNCHANGED locator
  BY <1>5, EndsKept DEF WritePending
<1>6. CASE /\ locator' = PendingWritten(r)
           /\ Goto(p, IF ~SameRoot(r) THEN "copy"
                      ELSE IF Complete(r.target.root) THEN "commit" ELSE "rollback")
           /\ UNCHANGED <<migLock, mutex, faults>>
  <2>1. UNCHANGED <<data, version>>
    BY DEF WritePending
  <2>2. Store' /\ SameView
    BY <1>2, <1>3, <1>4, <1>6, <2>1, PendingKept
  <2>3. PICK pc \in {"copy", "commit", "rollback"} : Goto(p, pc)
    BY <1>6
  <2>4. job'[p].pc = pc /\ job'[p].req = r
    BY <1>2, <2>3, GotoJob DEF Pcs
  <2>5. ~NoLocator'
    <3>1. PendingIs(r)'
      BY <1>2, <1>3, <1>6, <2>1, PendingIsWritten
    <3> QED
      BY <1>2, <3>1 DEF PendingIs, NoLocator
  <2>6. Told(r)' /\ (r.legacy => ~Managed(r.target.root)')
    BY <1>2, <1>4, <2>1, SameData
  <2>7. Executing(p)'
    BY <2>4, <2>5, <2>6, ExecutingIs
  <2> QED
    BY <1>1, <1>6, <2>2, <2>4, <2>7 DEF Kept, Doing, Locked, Selecting, UsedAlone, At
<1> QED
  BY <1>2, <1>5, <1>6 DEF WritePending

-----------------------------------------------------------------------------
(* The commit *)

\* A complete target holds the settings of the source.
LEMMA SameSettings ==
    ASSUME NEW p, SettingsInv(p), NEW r \in Requests, GoodRequest(r), Told(r), Fits(r),
           Complete(r.target.root)
    PROVE  \A f \in Settings : ReadFrom(r.target.root, f) = ReadFrom(r.source.root, f)
<1>1. CASE SameRoot(r)
  BY <1>1 DEF SameRoot
<1>2. CASE ~SameRoot(r)
  <2> SUFFICES ASSUME NEW f \in Settings
               PROVE  ReadFrom(r.target.root, f) = ReadFrom(r.source.root, f)
    OBVIOUS
  <2>1. data[r.target.root][f] = Wanted(r, f) /\ data[r.target.root][f] # NoFile
    BY <1>2 DEF Fits, Complete
  <2>2. ReadFrom(r.target.root, f) = Wanted(r, f)
    BY <2>1 DEF ReadFrom, GoodRequest
  <2>3. Wanted(r, f) = IF SourceContent(r, f) = NoFile THEN Empty ELSE SourceContent(r, f)
    BY DEF Wanted, Settings
  <2>4. CASE r.legacy
    <3>1. Legacy # None /\ r.source = Legacy
      BY <2>4, OldFields DEF Told
    <3> QED
      BY <2>2, <2>3, <2>4, <3>1 DEF ReadFrom, SourceContent, Settings
  <2>5. CASE ~r.legacy
    <3>1. Legacy # None => r.source.root # Legacy.root
      <4>1. r.source # Legacy /\ Managed(r.source.root) /\ r.source \in Locations
        BY <2>5 DEF Told, GoodRequest, Requests
      <4> QED
        BY <4>1, UsedIsNew
    <3> QED
      BY <2>2, <2>3, <2>5, <3>1 DEF ReadFrom, SourceContent
  <2> QED
    BY <2>4, <2>5
<1> QED
  BY <1>1, <1>2

\* A commit leaves the source's locator as it is, or the target's as it arrives.
LEMMA CommitKept ==
    ASSUME NEW p, Instances = {p}, SettingsInv(p),
           job[p].pc \in {"commit", "commitRemove"}, NEW r, r = job[p].req,
           UNCHANGED <<data, version>>, NEW new, locator' = new,
           \A m \in Locators : new[m] # None =>
              (m = r.source.locator /\ new[m] = locator[m]) \/ new[m] = Arrived(r),
           \E m \in Locators : new[m] # None
    PROVE  Store' /\ SameView
<1>1. /\ r \in Requests /\ GoodRequest(r) /\ Told(r) /\ r.target # Legacy
      /\ r.source.locator \in Locators /\ r.source.root \in Roots /\ r.target.root \in Roots
      /\ TypeOK /\ Disk
  <2>1. job[p].pc \in MigrationPcs
    BY DEF MigrationPcs
  <2>2. r.target # Legacy
    BY <2>1, ToldFields, MigrationAssumption, LocationFields DEF GoodRequest
  <2> QED
    BY <2>1, <2>2, ToldFields DEF SettingsInv, MigrationInv, Disk
<1>2. /\ PendingIs(r) /\ Complete(r.target.root)
      /\ locator[Other(r.source.locator)] # None => locator[Other(r.source.locator)] = Arrived(r)
  BY CommitFields DEF SettingsInv
<1>3. /\ locator[r.source.locator] # None /\ locator[r.source.locator].active = r.source
      /\ locator[r.source.locator].pending # None
  BY <1>1, <1>2, SamePending DEF Disk
<1>4. Fits(r)
  <2>1. PICK q \in Requests : /\ q = locator[r.source.locator].pending /\ Promised(q)
                              /\ q.source = r.source /\ q.target = r.target /\ q.legacy = r.legacy
    BY <1>1, <1>2, <1>3, SamePending, PromisedFields DEF Disk
  <2>2. Fits(q)
    BY <2>1 DEF Promised
  <2>3. \A f \in Settings : SourceContent(q, f) = SourceContent(r, f)
    BY <2>1 DEF SourceContent
  <2>4. \A f \in Settings : Wanted(q, f) = Wanted(r, f)
    BY <2>3 DEF Wanted
  <2> QED
    BY <2>1, <2>2, <2>4 DEF Fits, SameRoot
<1>5. Arrived(r) # None /\ Arrived(r).active = r.target /\ Arrived(r).pending = None
  BY <1>1, ArrivedState
<1>6. Store'
  <2>1. ASSUME NEW m \in Locators, new[m] # None
        PROVE  IF new[m].pending # None THEN Promised(new[m].pending)
               ELSE new[m].active = Legacy => new[Other(m)] = None /\ ~Managed(LegacyTarget.root)
    <3>1. CASE new[m] = Arrived(r)
      BY <1>1, <1>5, <3>1
    <3>2. CASE m = r.source.locator /\ new[m] = locator[m]
      BY <1>1, <1>3, <3>2, PromisedFields
    <3> QED
      BY <2>1, <3>1, <3>2
  <2> QED
    BY <2>1, StoreSet DEF SettingsInv
<1>7. Resolved # None /\ Resolved.active \in {r.source, r.target}
  BY <1>1, <1>2, <1>3, <1>5, Others DEF Resolved, Locators
<1>8. Resolved' # None /\ (Resolved.active)' \in {r.source, r.target}
  BY <1>1, <1>3, <1>5 DEF Resolved, Locators
<1>9. PICK a \in {r.source.root, r.target.root} : Home = a
  BY <1>7 DEF Home
<1>10. PICK b \in {r.source.root, r.target.root} : Home' = b
  BY <1>8 DEF Home
<1>11. a # NoRoot /\ b # NoRoot
  BY <1>1, NoRootAssumption
<1>12. \A f \in Settings : ReadFrom(a, f) = ReadFrom(b, f)
  <2>1. \A f \in Settings : ReadFrom(r.target.root, f) = ReadFrom(r.source.root, f)
    BY <1>1, <1>2, <1>4, SameSettings
  <2> QED
    BY <2>1
<1>13. \A f \in Settings : ReadFrom(b, f)' = ReadFrom(b, f)
  BY ReadStays
<1>14. View' = [f \in Settings |-> ReadFrom(b, f)'] /\ View = [f \in Settings |-> ReadFrom(a, f)]
  BY <1>9, <1>10, <1>11 DEF View, ReadFrom
<1> QED
  BY <1>6, <1>9, <1>10, <1>11, <1>12, <1>13, <1>14 DEF SameView, Attached

\* A commit that is done: the process reads the locators again.
LEMMA SucceedsKept ==
    ASSUME NEW p, Instances = {p}, SettingsInv(p), job[p].pc \in MigrationPcs, Succeed(p),
           mutex' = None, Store', SameView
    PROVE  Kept(p)
<1>1. job'[p].pc = "program"
  BY SucceedFields DEF SettingsInv, Succeeded
<1> QED
  BY <1>1, DoesNothing DEF Kept

LEMMA KeptCommitInPlace ==
    ASSUME NEW p, Instances = {p}, SettingsInv(p), CommitInPlace(p)
    PROVE  Kept(p)
<1>1. job[p].pc = "commit" /\ job[p].pc \in MigrationPcs /\ mutex = None
  BY Unheld DEF CommitInPlace, At, MigrationPcs
<1>2. PICK r \in Requests : r = job[p].req /\ r.target.locator \in Locators
  BY <1>1, ToldFields
<1>3. /\ locator \in [Locators -> States \cup {None}] /\ r.source.locator = r.target.locator
      /\ locator[Other(r.source.locator)] = None
  BY <1>1, <1>2, CommitFields DEF CommitInPlace, SettingsInv, MigrationInv, TypeOK
<1>4. PICK new : new = locator'
  OBVIOUS
<1>5. /\ new[r.target.locator] = Arrived(r) /\ new[Other(r.target.locator)] = None
  BY <1>2, <1>3, <1>4, Others DEF CommitInPlace, Arrived
<1>6. /\ \A m \in Locators : new[m] # None => new[m] = Arrived(r)
      /\ \E m \in Locators : new[m] # None
  BY <1>2, <1>5, Others, ArrivedState
<1>7. UNCHANGED <<data, version, mutex>> /\ Succeed(p)
  BY DEF CommitInPlace
<1>8. Store' /\ SameView
  BY <1>1, <1>2, <1>4, <1>6, <1>7, CommitKept
<1> QED
  BY <1>1, <1>7, <1>8, SucceedsKept

LEMMA KeptCommitTarget ==
    ASSUME NEW p, Instances = {p}, SettingsInv(p), CommitTarget(p)
    PROVE  Kept(p)
<1>1. job[p].pc = "commit" /\ job[p].pc \in MigrationPcs
  BY DEF CommitTarget, At, MigrationPcs
<1>2. PICK r \in Requests : /\ r = job[p].req /\ r.target.locator \in Locators /\ Told(r)
                            /\ r.source.locator \in Locators
                            /\ job \in [Instances -> Jobs] /\ p \in Instances
  BY <1>1, ToldFields
<1>3. /\ locator \in [Locators -> States \cup {None}] /\ r.source.locator # r.target.locator
      /\ UNCHANGED <<data, version>> /\ mutex' = p
  BY <1>2 DEF CommitTarget, SettingsInv, MigrationInv, TypeOK
<1>4. PICK new : new = locator'
  OBVIOUS
<1>5. /\ new[r.target.locator] = Arrived(r)
      /\ \A m \in Locators : m # r.target.locator => m = r.source.locator /\ new[m] = locator[m]
  BY <1>2, <1>3, <1>4, Others DEF CommitTarget, Arrived
<1>6. /\ \A m \in Locators : new[m] # None =>
            (m = r.source.locator /\ new[m] = locator[m]) \/ new[m] = Arrived(r)
      /\ \E m \in Locators : new[m] # None
  BY <1>2, <1>5, ArrivedState
<1>7. Store' /\ SameView
  BY <1>1, <1>2, <1>3, <1>4, <1>6, CommitKept
<1>8. Told(r)'
  BY <1>2, <1>3, SameData
<1>9. job'[p].pc = "commitRemove" /\ job'[p].req = r
  <2>1. PICK s0 \in States \cup {None} : s0 = locator[r.target.locator]
    BY <1>2, <1>3
  <2>2. Remember(p, "commitRemove", s0) /\ "commitRemove" \in Pcs
    BY <1>2, <2>1 DEF CommitTarget, Remember, Pcs
  <2> QED
    BY <1>2, <2>2, PrevJob
<1>10. Executing(p)'
  BY <1>8, <1>9, ExecutingIs
<1> QED
  BY <1>7, <1>9, <1>10 DEF Kept, Doing, Locked, Selecting, UsedAlone, At

LEMMA KeptCommitRemoveSource ==
    ASSUME NEW p, Window(p), Instances = {p}, SettingsInv(p), CommitRemoveSource(p)
    PROVE  Kept(p)
<1>1. job[p].pc = "commitRemove" /\ job[p].pc \in MigrationPcs
  BY DEF CommitRemoveSource, At, MigrationPcs
<1>2. PICK r \in Requests : /\ r = job[p].req /\ r.target.locator \in Locators /\ Told(r)
                            /\ r.source.locator \in Locators
                            /\ job \in [Instances -> Jobs] /\ p \in Instances
  BY <1>1, ToldFields
<1>3. /\ locator \in [Locators -> States \cup {None}] /\ r.target.locator # r.source.locator
      /\ locator[r.target.locator] = Arrived(r) /\ job[p].prev \in {None, Arrived(r)}
      /\ UNCHANGED <<data, version>> /\ mutex' = None
  BY <1>1, <1>2 DEF CommitRemoveSource, SettingsInv, MigrationInv, Moves, TypeOK, At
<1>4. PICK new : new = locator'
  OBVIOUS
<1>5. locator[r.source.locator] # None
  BY <1>1, <1>2, CommitFields DEF PendingIs, SettingsInv
<1>6. ASSUME NEW a \in {None, Arrived(r)}, new[r.target.locator] = a,
             new[r.source.locator] \in {None, locator[r.source.locator]},
             new[r.source.locator] # None \/ a # None
      PROVE  Store' /\ SameView
  <2>1. /\ \A m \in Locators : new[m] # None =>
              (m = r.source.locator /\ new[m] = locator[m]) \/ new[m] = Arrived(r)
        /\ \E m \in Locators : new[m] # None
    BY <1>2, <1>3, <1>6, Others
  <2> QED
    BY <1>1, <1>2, <1>3, <1>4, <2>1, CommitKept
<1>7. CASE locator' = [locator EXCEPT ![r.source.locator] = None] /\ Succeed(p)
  <2>1. new[r.target.locator] = Arrived(r) /\ new[r.source.locator] = None
    BY <1>2, <1>3, <1>4, <1>7
  <2>2. Store' /\ SameView
    BY <1>2, <1>6, <2>1, ArrivedState
  <2> QED
    BY <1>1, <1>3, <1>7, <2>2, SucceedsKept
<1>8. CASE /\ Fault /\ Goto(p, "commitFailed")
           /\ locator' \in {locator, [locator EXCEPT ![r.target.locator] = job[p].prev]}
  <2>1. /\ new[r.target.locator] \in {None, Arrived(r)}
        /\ new[r.source.locator] = locator[r.source.locator]
    BY <1>2, <1>3, <1>4, <1>8
  <2>2. Store' /\ SameView
    BY <1>5, <1>6, <2>1
  <2>3. job'[p].pc = "commitFailed" /\ job'[p].req = r
    BY <1>2, <1>8, GotoJob DEF Pcs
  <2>4. Told(r)'
    BY <1>2, <1>3, SameData
  <2>5. ~r.legacy
    BY <1>2, <1>8, LegacyIsQuiet
  <2>6. Executing(p)'
    BY <2>3, <2>4, <2>5, ExecutingIs
  <2> QED
    BY <1>3, <2>2, <2>3, <2>6 DEF Kept, Doing, Locked, Selecting, UsedAlone, At
<1> QED
  BY <1>2, <1>7, <1>8 DEF CommitRemoveSource

-----------------------------------------------------------------------------
(* The rollback, the copy and the cleanup *)

LEMMA FitsAlike ==
    ASSUME NEW q, NEW r, Fits(q), q.source = r.source, q.target = r.target, q.legacy = r.legacy
    PROVE  Fits(r)
<1>1. \A f \in Settings : SourceContent(q, f) = SourceContent(r, f)
  BY DEF SourceContent
<1>2. \A f \in Settings : Wanted(q, f) = Wanted(r, f)
  BY <1>1 DEF Wanted
<1> QED
  BY <1>2 DEF Fits, SameRoot

LEMMA KeptRollbackPending ==
    ASSUME NEW p, Instances = {p}, SettingsInv(p), RollbackPending(p)
    PROVE  Kept(p)
<1>1. job[p].pc = "rollback" /\ job[p].pc \in MigrationPcs /\ mutex = None
  BY Unheld DEF RollbackPending, At, MigrationPcs
<1>2. PICK r \in Requests : /\ r = job[p].req /\ GoodRequest(r) /\ Told(r)
                            /\ r.source \in Locations /\ r.source.locator \in Locators
                            /\ r.tx \in Transactions
                            /\ TypeOK /\ job \in [Instances -> Jobs] /\ p \in Instances
  BY <1>1, ToldFields DEF Requests
<1>3. /\ OnlySource(r) /\ PendingIs(r) /\ Disk /\ (r.legacy => ~Managed(r.target.root))
      /\ UNCHANGED <<data, version, mutex>>
  BY <1>1, <1>2 DEF SettingsInv, MigrationInv, Moves, Disk, At, Doing, Executing, RollbackPending
<1>4. PICK q \in Requests : /\ q = locator[r.source.locator].pending /\ Promised(q)
                            /\ q.source = r.source /\ q.target = r.target /\ q.legacy = r.legacy
                            /\ locator[r.source.locator] # None
  BY <1>2, <1>3, SamePending, PromisedFields DEF Disk
<1>5. Fits(r) /\ (~q.existed => r.legacy)
  BY <1>4, FitsAlike DEF Promised
<1>6. PICK new : new = locator'
  OBVIOUS
<1>7. /\ \A m \in Locators : m # r.source.locator => new[m] = None
      /\ \/ new[r.source.locator] = None /\ ~q.existed
         \/ /\ new[r.source.locator] # None /\ new[r.source.locator].active = r.source
            /\ new[r.source.locator].pending = None
  <2>1. PICK v \in BOOLEAN : v = locator[r.source.locator].verified
    BY <1>2, <1>4 DEF TypeOK, States
  <2>2. PICK z \in Outcomes : z = Last(r.tx, "rolledBack")
    BY <1>2, LastFields
  <2>3. new = [locator EXCEPT ![r.source.locator] =
                  IF q.existed THEN State(r.source, None, v, z) ELSE None]
    BY <1>2, <1>4, <1>6, <2>1, <2>2 DEF RollbackPending
  <2>4. \A m \in Locators : m # r.source.locator => locator[m] = None
    BY <1>3 DEF OnlySource
  <2>5. locator \in [Locators -> States \cup {None}]
    BY <1>2 DEF TypeOK
  <2> QED
    BY <1>2, <2>3, <2>4, <2>5, StateFields
<1>8. Store'
  <2>1. r.source = Legacy => ~Managed(LegacyTarget.root)
    BY <1>2, <1>3 DEF Told
  <2>2. \A m \in Locators : new[m] # None =>
           IF new[m].pending # None THEN Promised(new[m].pending)
           ELSE new[m].active = Legacy => new[Other(m)] = None /\ ~Managed(LegacyTarget.root)
    BY <1>2, <1>7, <2>1, Others
  <2> QED
    BY <1>3, <1>6, <2>2, StoreSet DEF SettingsInv
<1>9. Home' = Home
  <2>1. Resolved = locator[r.source.locator] /\ Resolved # None /\ Resolved.active = r.source
    BY <1>2, <1>3, <1>4 DEF OnlySource, Resolved, Locators
  <2>2. Home = r.source.root
    BY <2>1 DEF Home
  <2>3. CASE new[r.source.locator] # None
    <3>1. Resolved' = new[r.source.locator]
      BY <1>2, <1>6, <1>7, <2>3 DEF Resolved, Locators
    <3> QED
      BY <1>7, <2>2, <2>3, <3>1 DEF Home
  <2>4. CASE new[r.source.locator] = None
    <3>1. Resolved' = None
      BY <1>2, <1>6, <1>7, <2>4 DEF Resolved, Locators
    <3>2. r.legacy /\ r.source = Legacy /\ LegacyFound /\ ~Managed(LegacyTarget.root)
      BY <1>2, <1>3, <1>5, <1>7, <2>4 DEF Told
    <3>3. LegacyFound' /\ ~Managed(LegacyTarget.root)'
      BY <1>3, <3>2, SameData
    <3> QED
      BY <2>2, <3>1, <3>2, <3>3 DEF Home
  <2> QED
    BY <2>3, <2>4
<1>10. SameView
  BY <1>3, <1>9, ViewStays
<1>11. /\ Told(r)' /\ Fits(r)' /\ (r.legacy => ~Managed(r.target.root)')
       /\ NoLocator' => r.legacy
  <2>1. NoLocator' => r.legacy
    BY <1>2, <1>5, <1>6, <1>7 DEF NoLocator
  <2> QED
    BY <1>2, <1>3, <1>5, <2>1, SameData
<1>12. PICK pc \in {"lock", "cleanup"} :
          /\ job'[p].req = r /\ job'[p].pc = pc
          /\ pc = "lock" => job'[p].why = "execute"
  <2>1. CASE job[p].why = "recover"
    <3>1. PICK n \in 0..MaxTries : n = job[p].tries
      BY <1>2 DEF Jobs
    <3>2. PICK k : k = Asking("execute", r, n)
      OBVIOUS
    <3>3. k \in Jobs /\ k.pc = "lock" /\ k.why = "execute" /\ k.req = r
      BY <1>2, <3>2, FreshAsked DEF Whys
    <3>4. job' = [job EXCEPT ![p] = k]
      BY <1>2, <2>1, <3>1, <3>2 DEF RollbackPending, RolledBack, Asking
    <3>5. job'[p] = k
      BY <1>2, <3>4
    <3> QED
      BY <3>3, <3>5
  <2>2. CASE job[p].why # "recover"
    <3>1. Goto(p, "cleanup") /\ "cleanup" \in Pcs
      BY <2>2 DEF RollbackPending, RolledBack, Pcs
    <3>2. job'[p].pc = "cleanup" /\ job'[p].req = r
      BY <1>2, <3>1, GotoJob
    <3> QED
      BY <3>2
  <2> QED
    BY <2>1, <2>2
<1>13. Executing(p)'
  BY <1>11, <1>12, ExecutingIs
<1> QED
  BY <1>1, <1>3, <1>8, <1>10, <1>12, <1>13 DEF Kept, Doing, Locked, Selecting, UsedAlone, At

\* What a migration wants in its target is not newer than what was saved.
LEMMA WantedIsOld ==
    ASSUME Bounded, NEW r \in Requests, r.source.root \in Roots, NEW f \in Settings
    PROVE  Wanted(r, f) <= version
<1>1. /\ data[r.source.root][f] <= version /\ data[r.source.root]["config"] <= version
      /\ Empty <= version
  BY SettingsAreFiles DEF Bounded
<1>2. SourceContent(r, f) <= version
  BY <1>1, SettingsAreFiles DEF SourceContent, Settings
<1> QED
  BY <1>1, <1>2 DEF Wanted, Settings

\* A migration writes to its target, or cleans it up.
LEMMA TargetKept ==
    ASSUME NEW p, SettingsInv(p), NEW r \in Requests, GoodRequest(r), Told(r), OnlySource(r),
           ~SameRoot(r), UNCHANGED <<locator, version>>,
           NoLocator => r.legacy, r.legacy => ~Managed(r.target.root),
           \A root \in Roots : root # r.target.root => data'[root] = data[root],
           \A f \in Settings :
              \/ data'[r.target.root][f] \in {NoFile, data[r.target.root][f]}
              \/ PendingIs(r) /\ data'[r.target.root][f] = Wanted(r, f),
           r.legacy => ~Managed(r.target.root)' \/ (PendingIs(r) /\ Complete(r.target.root)')
    PROVE  Store' /\ SameView /\ Told(r)'
<1>1. /\ r.source \in Locations /\ r.source.locator \in Locators
      /\ r.source.root \in Roots /\ r.target.root \in Roots /\ r.source.root # r.target.root
      /\ TypeOK /\ Disk /\ Bounded /\ Untouched
  BY LocationFields DEF Requests, SameRoot, SettingsInv, MigrationInv, Disk, Store
<1>2. /\ data'[r.source.root] = data[r.source.root]
      /\ Legacy # None => data'[Legacy.root] = data[Legacy.root]
  BY <1>1, OldFields DEF GoodRequest
<1>3. OldStays /\ (LegacyFound' <=> LegacyFound) /\ Untouched'
  <2>1. OldStays
    BY <1>2 DEF OldStays
  <2> QED
    BY <1>1, <1>2, <2>1, OldIsFound DEF Untouched, Managed
<1>4. Told(r)'
  BY <1>3 DEF Told
<1>5. Bounded'
  <2>1. version >= NoFile
    BY <1>1 DEF Bounded, TypeOK, NoFile
  <2>2. \A f \in Settings : data'[r.target.root][f] <= version
    BY <1>1, <2>1, WantedIsOld DEF Bounded
  <2> QED
    BY <1>1, <2>2 DEF Bounded
<1>6. ASSUME NEW q \in Requests, q.source = r.source
      PROVE  \A f \in Settings : Wanted(q, f)' = Wanted(q, f)
  <2>1. \A f \in Settings : SourceContent(q, f)' = SourceContent(q, f)
    BY <1>2, <1>6 DEF SourceContent
  <2> QED
    BY <2>1 DEF Wanted
<1>7. ASSUME NEW q \in Requests, Promised(q), q.source = r.source, q.target.root \in Roots,
             PendingIs(r) => q.target = r.target /\ q.legacy = r.legacy
      PROVE  Promised(q)'
  <2>1. Fits(q) /\ Told(q) /\ (~q.existed => q.legacy)
    BY <1>7 DEF Promised
  <2>2. Told(q)'
    BY <1>3, <2>1 DEF Told
  <2>3. Fits(q)'
    <3> SUFFICES ASSUME ~SameRoot(q), NEW f \in Settings
                 PROVE  data'[q.target.root][f] \in {NoFile, Wanted(q, f)'}
      BY DEF Fits, SameRoot
    <3>1. data[q.target.root][f] \in {NoFile, Wanted(q, f)} /\ Wanted(q, f)' = Wanted(q, f)
      BY <1>6, <1>7, <2>1 DEF Fits
    <3>2. CASE q.target.root # r.target.root
      BY <1>7, <3>1, <3>2
    <3>3. CASE /\ q.target.root = r.target.root
               /\ data'[r.target.root][f] \in {NoFile, data[r.target.root][f]}
      BY <3>1, <3>3
    <3>4. CASE PendingIs(r) /\ data'[r.target.root][f] = Wanted(r, f)
      <4>1. q.target = r.target /\ q.legacy = r.legacy
        BY <1>7, <3>4
      <4>2. SourceContent(q, f) = SourceContent(r, f)
        BY <1>7, <4>1 DEF SourceContent
      <4>3. Wanted(q, f) = Wanted(r, f)
        BY <4>2 DEF Wanted
      <4> QED
        BY <3>1, <3>4, <4>1, <4>3
    <3> QED
      BY <3>2, <3>3, <3>4
  <2>4. q.legacy /\ Managed(q.target.root)' => Complete(q.target.root)'
    <3>1. q.legacy => r.legacy /\ q.target = r.target
      BY <1>7, <2>1 DEF Told
    <3>2. PICK root : root = r.target.root
      OBVIOUS
    <3>3. r.legacy => ~Managed(root)' \/ Complete(root)'
      BY <3>2 DEF Managed, Complete
    <3> QED
      BY <3>1, <3>2, <3>3 DEF Managed, Complete
  <2> QED
    BY <2>1, <2>2, <2>3, <2>4 DEF Promised
<1>8. Pended'
  <2> SUFFICES ASSUME NEW l \in Locators, locator[l] # None
               PROVE  IF locator[l].pending # None THEN Promised(locator[l].pending)' ELSE Left(l)'
    BY DEF Pended
  <2>1. l = r.source.locator /\ locator[l].active = r.source /\ locator[Other(l)] = None
    BY Others DEF OnlySource
  <2>2. CASE locator[l].pending # None
    <3>1. PICK q \in Requests : /\ q = locator[l].pending /\ Promised(q) /\ q.source = r.source
                                /\ q.target.root \in Roots
      BY <2>1, <2>2, PromisedFields
    <3>2. PendingIs(r) => q.target = r.target /\ q.legacy = r.legacy
      BY <1>1, <2>1, <3>1, SamePending DEF Disk
    <3>3. Promised(q)'
      BY <1>7, <3>1, <3>2
    <3>4. locator'[l].pending = q
      BY <3>1
    <3>5. Promised(locator[l].pending)'
      BY ONLY <3>3, <3>4
      DEF Promised, Fits, Told, SameRoot, Wanted, SourceContent, Managed, Complete
    <3> QED
      BY <2>2, <3>5
  <2>3. CASE locator[l].pending = None
    <3>1. ~PendingIs(r)
      BY <2>1, <2>3 DEF PendingIs
    <3>2. locator[l].active = Legacy => r.legacy /\ r.target = LegacyTarget
      BY <2>1 DEF Told
    <3>3. r.legacy => ~Managed(r.target.root)'
      BY <3>1
    <3> QED
      BY <2>1, <2>3, <3>2, <3>3 DEF Left, Managed
  <2> QED
    BY <2>2, <2>3
<1>9. Home = r.source.root /\ Home' = r.source.root
  <2>1. CASE NoLocator
    <3>1. Resolved = None /\ Resolved' = None /\ ~PendingIs(r)
      BY <1>1, <2>1 DEF NoLocator, Resolved, Locators, PendingIs
    <3>2. /\ r.source = Legacy /\ r.target = LegacyTarget /\ LegacyFound
          /\ ~Managed(LegacyTarget.root)
      BY <2>1 DEF Told
    <3>3. LegacyFound' /\ ~Managed(LegacyTarget.root)'
      BY <1>3, <2>1, <3>1, <3>2 DEF Managed
    <3> QED
      BY <3>1, <3>2, <3>3 DEF Home
  <2>2. CASE ~NoLocator
    <3>1. Resolved # None /\ Resolved.active = r.source
      BY <2>2 DEF NoLocator, OnlySource, Resolved, Locators
    <3>2. Resolved' = Resolved
      BY DEF Resolved
    <3> QED
      BY <3>1, <3>2 DEF Home
  <2> QED
    BY <2>1, <2>2
<1>10. SameView
  BY <1>2, <1>9, ViewStays
<1> QED
  BY <1>3, <1>4, <1>5, <1>8, <1>10 DEF Store

LEMMA KeptCopy ==
    ASSUME NEW p, Instances = {p}, SettingsInv(p), Copy(p), MigrationInv(p)'
    PROVE  Kept(p)
<1>1. job[p].pc = "copy" /\ job[p].pc \in MigrationPcs \ {"commitRemove"} /\ mutex = None
  BY Unheld DEF Copy, At, MigrationPcs
<1>2. PICK r \in Requests : /\ r = job[p].req /\ GoodRequest(r) /\ Told(r)
                            /\ r.source.locator \in Locators
                            /\ r.source.root \in Roots /\ r.target.root \in Roots
                            /\ TypeOK /\ job \in [Instances -> Jobs] /\ p \in Instances
  BY <1>1, ToldFields
<1>3. /\ OnlySource(r) /\ PendingIs(r) /\ ~SameRoot(r) /\ (r.legacy => ~Managed(r.target.root))
      /\ UNCHANGED <<locator, version, mutex>>
  BY <1>1, <1>2 DEF SettingsInv, MigrationInv, Moves, At, Doing, Executing, Copy
<1>4. ~NoLocator /\ ~NoLocator'
  BY <1>2, <1>3, PendingIsThere DEF NoLocator
<1>5. PICK n \in 1..5 : n = job[p].step
  BY <1>2 DEF Jobs
<1>6. PICK f \in Files : f = CopyOrder[n]
  BY Steps
<1>7. CASE Goto(p, "rollback") /\ UNCHANGED data
  BY <1>1, <1>2, <1>3, <1>4, <1>7, GoesOn DEF MigrationPcs
<1> DEFINE there == data[r.target.root][f]
           m == IF there = NoFile /\ Wanted(r, f) # NoFile THEN {f} ELSE {}
<1>8. CASE /\ data' = IF m = {} THEN data
                      ELSE [data EXCEPT ![r.target.root][f] = Wanted(r, f)]
           /\ job' = [job EXCEPT
                 ![p].made = @ \cup m,
                 ![p].step = IF f = "manifest" THEN 1 ELSE @ + 1,
                 ![p].pc = IF f = "manifest" THEN "commit"
                           ELSE IF Conflicts(r, f) THEN "rollback" ELSE "copy"]
           /\ UNCHANGED faults
  <2>1. PICK pc \in {"commit", "rollback", "copy"}, next \in 1..5 :
           /\ f = "manifest" <=> pc = "commit"
           /\ job' = [job EXCEPT ![p].made = @ \cup m, ![p].step = next, ![p].pc = pc]
    <3>1. PICK pc : pc = (IF f = "manifest" THEN "commit"
                          ELSE IF Conflicts(r, f) THEN "rollback" ELSE "copy")
      OBVIOUS
    <3>2. PICK next : next = (IF f = "manifest" THEN 1 ELSE n + 1)
      OBVIOUS
    <3>3. job' = [job EXCEPT ![p].made = @ \cup m, ![p].step = next, ![p].pc = pc]
      BY <1>5, <1>8, <3>1, <3>2
    <3>4. next \in 1..5
      BY <1>6, <3>2, Steps
    <3>5. pc \in {"commit", "rollback", "copy"} /\ (f = "manifest" <=> pc = "commit")
      BY <3>1
    <3> QED
      BY <3>3, <3>4, <3>5
  <2>2. job'[p].pc = pc /\ job'[p].req = r
    <3>1. pc \in Pcs /\ m \in SUBSET Files
      BY DEF Pcs
    <3> HIDE DEF m
    <3> QED
      BY <1>2, <2>1, <3>1, CopiedJob
  <2>3. /\ \A root \in Roots : root # r.target.root => data'[root] = data[root]
        /\ \A g \in Files : \/ data'[r.target.root][g] = data[r.target.root][g]
                            \/ g = f /\ data'[r.target.root][g] = Wanted(r, g)
    <3>1. data \in [Roots -> [Files -> Nat]]
      BY <1>2 DEF TypeOK
    <3>2. UNCHANGED data \/ data' = [data EXCEPT ![r.target.root][f] = Wanted(r, f)]
      BY <1>8
    <3> HIDE DEF m
    <3> QED
      BY <1>2, <3>1, <3>2
  <2>4. f # "manifest" => (r.legacy => ~Managed(r.target.root)')
    BY <1>3, <2>3, SettingsAreFiles DEF Managed
  <2>5. f = "manifest" => Complete(r.target.root)'
    BY <1>1, <2>1, <2>2 DEF MigrationInv, Moves, At, Complete
  <2>6. Store' /\ SameView /\ Told(r)'
    <3>1. \A g \in Settings :
             \/ data'[r.target.root][g] \in {NoFile, data[r.target.root][g]}
             \/ PendingIs(r) /\ data'[r.target.root][g] = Wanted(r, g)
      BY <1>3, <2>3, SettingsAreFiles
    <3>2. r.legacy => ~Managed(r.target.root)' \/ (PendingIs(r) /\ Complete(r.target.root)')
      BY <1>3, <2>4, <2>5
    <3> HIDE DEF m, there
    <3> QED
      BY <1>2, <1>3, <1>4, <2>3, <3>1, <3>2, TargetKept
  <2>7. Executing(p)'
    BY <1>4, <2>1, <2>2, <2>4, <2>6, ExecutingIs
  <2> QED
    BY <1>1, <1>3, <2>2, <2>6, <2>7 DEF Kept, Doing, Locked, Selecting, UsedAlone, At
<1> QED
  BY <1>2, <1>5, <1>6, <1>7, <1>8 DEF Copy

LEMMA KeptCleanup ==
    ASSUME NEW p, Instances = {p}, SettingsInv(p), Cleanup(p)
    PROVE  Kept(p)
<1>1. job[p].pc = "cleanup" /\ job[p].pc \in MigrationPcs
  BY DEF Cleanup, At, MigrationPcs
<1>2. PICK r \in Requests : /\ r = job[p].req /\ GoodRequest(r) /\ Told(r)
                            /\ r.target.root \in Roots /\ TypeOK
  BY <1>1, ToldFields
<1>3. /\ OnlySource(r) /\ data' \in [Roots -> [Files -> Nat]]
      /\ \A q \in Roots, f \in Files : data'[q][f] \in {NoFile, data[q][f]}
      /\ \A q \in Roots : q # r.target.root \/ SameRoot(r) => data'[q] = data[q]
      /\ UNCHANGED <<locator, version>> /\ End(p)
  BY <1>2, CleanupFields DEF SettingsInv
<1>4. (NoLocator => r.legacy) /\ (r.legacy => ~Managed(r.target.root))
  BY <1>1, <1>2 DEF SettingsInv, Doing, Executing, At
<1>5. CASE SameRoot(r)
  <2>1. UNCHANGED data
    BY <1>2, <1>3, <1>5 DEF TypeOK
  <2> QED
    BY <1>3, <2>1, EndsKept
<1>6. CASE ~SameRoot(r)
  <2>1. r.legacy => ~Managed(r.target.root)'
    BY <1>2, <1>3, <1>4, SettingsAreFiles DEF Managed
  <2>2. \A f \in Settings : data'[r.target.root][f] \in {NoFile, data[r.target.root][f]}
    BY <1>2, <1>3, SettingsAreFiles
  <2>3. Store' /\ SameView
    BY <1>2, <1>3, <1>4, <1>6, <2>1, <2>2, TargetKept
  <2>4. Doing(p)'
    BY <1>2, <1>3, EndsDoing
  <2> QED
    BY <2>3, <2>4 DEF Kept
<1> QED
  BY <1>5, <1>6

-----------------------------------------------------------------------------
(* The settings are saved, and where they are to go is named *)

\* Where a process runs: its directory is the one that the locators name, and not the old
\* layout's.
LEMMA RunningFields ==
    ASSUME NEW p, Window(p), Instances = {p}, SettingsInv(p), At(p, "running")
    PROVE  LET a == job[p].at IN
           /\ a \in Locations /\ a.root \in Roots /\ a.locator \in Locators /\ a # Legacy
           /\ locator[a.locator] # None /\ locator[a.locator].active = a
           /\ \A m \in Locators : locator[m] # None => m = a.locator
           /\ Managed(a.root) /\ (Legacy # None => a.root # Legacy.root)
           /\ TypeOK
<1>1. PICK a : a = job[p].at
  OBVIOUS
<1>2. /\ a # Legacy /\ a.locator # None /\ TypeOK /\ p \notin Greps
      /\ a # None /\ job[p] \in Jobs
  BY <1>1 DEF SettingsInv, Doing, UsedAlone, MigrationInv, Running, At, TypeOK, Window
<1>3. a.locator \in Locators
  BY <1>1, <1>2 DEF Jobs
<1>4. locator[a.locator] # None /\ locator[a.locator].active = a /\ locator[Other(a.locator)] = None
  BY <1>1, <1>2 DEF SettingsInv, MigrationInv, Running, At
<1>5. a \in Locations /\ a.root \in Roots /\ (a = Legacy \/ Managed(a.root))
  BY <1>3, <1>4, PromisedFields
<1>6. \A m \in Locators : locator[m] # None => m = a.locator
  BY <1>3, <1>4, Others
<1> QED
  BY <1>1, <1>2, <1>3, <1>4, <1>5, <1>6, UsedIsNew

LEMMA KeptSave ==
    ASSUME NEW p, Window(p), Instances = {p}, SettingsInv(p), NEW f \in Settings, Save(p, f)
    PROVE  Kept(p)
<1>1. PICK a \in Locations :
         /\ a = job[p].at /\ a.root \in Roots /\ a.locator \in Locators /\ a # Legacy
         /\ locator[a.locator] # None /\ locator[a.locator].active = a
         /\ \A m \in Locators : locator[m] # None => m = a.locator
         /\ Managed(a.root) /\ (Legacy # None => a.root # Legacy.root)
         /\ TypeOK
  BY RunningFields DEF Save
<1>2. /\ data \in [Roots -> [Files -> Nat]] /\ version \in Nat /\ version' = version + 1
      /\ data' = [data EXCEPT ![a.root][f] = version + 1]
      /\ UNCHANGED <<locator, job, mutex>> /\ job[p].pc = "running"
  BY <1>1 DEF Save, TypeOK, At
<1>3. f \in Files /\ f # "manifest"
  BY SettingsAreFiles
<1>4. /\ data'[a.root][f] = version + 1
      /\ \A g \in Files : g # f => data'[a.root][g] = data[a.root][g]
      /\ \A root \in Roots : root # a.root => data'[root] = data[root]
  BY <1>1, <1>2, <1>3
<1>5. OldStays /\ (LegacyFound' <=> LegacyFound) /\ Untouched'
  <2>1. Legacy # None => data'[Legacy.root] = data[Legacy.root]
    BY <1>1, <1>4, OldFields
  <2>2. OldStays
    BY <2>1 DEF OldStays
  <2> QED
    BY <2>1, <2>2, OldIsFound DEF SettingsInv, Store, Untouched, Managed
<1>6. Bounded'
  <2>1. version >= Empty /\ \A root \in Roots : \A g \in Settings : data[root][g] <= version
    BY DEF SettingsInv, Store, Bounded
  <2>2. version' >= Empty
    BY <1>2, <2>1 DEF Empty
  <2>3. ASSUME NEW root \in Roots, NEW g \in Settings PROVE data'[root][g] <= version'
    <3>1. data[root][g] <= version /\ data[root][g] \in Nat
      BY <1>2, <2>1, SettingsAreFiles
    <3>2. data'[root][g] = data[root][g] \/ data'[root][g] = version + 1
      BY <1>4, SettingsAreFiles
    <3> QED
      BY <1>2, <3>1, <3>2
  <2> QED
    BY <2>2, <2>3 DEF Bounded
\* A migration that is pending finds no settings in its target.
<1>7. ASSUME NEW q \in Requests, q = locator[a.locator].pending, q # None
      PROVE  /\ Promised(q)'
             /\ SameRoot(q) \/ \A g \in Settings : data'[q.target.root][g] = NoFile
  <2>1. /\ Promised(q) /\ q.source = a /\ q.target.root \in Roots /\ ~q.legacy /\ Told(q)
    BY <1>1, <1>7, PromisedFields DEF Promised, Told
  <2>2. SameRoot(q) \/ \A g \in Settings : data[q.target.root][g] = NoFile
    BY <1>1, <1>2, <1>7 DEF SettingsInv, Doing, UsedAlone, At
  <2>3. SameRoot(q) \/ \A g \in Settings : data'[q.target.root][g] = NoFile
    BY <1>4, <2>1, <2>2 DEF SameRoot
  <2>4. Fits(q)'
    BY <2>3 DEF Fits, SameRoot
  <2>5. Told(q)'
    BY <1>5, <2>1 DEF Told
  <2> QED
    BY <2>1, <2>3, <2>4, <2>5 DEF Promised
<1>8. Pended'
  <2> SUFFICES ASSUME NEW l \in Locators, locator[l] # None
               PROVE  IF locator[l].pending # None THEN Promised(locator[l].pending)' ELSE Left(l)'
    BY <1>2 DEF Pended
  <2>1. l = a.locator /\ locator[l].active = a
    BY <1>1
  <2>2. CASE locator[l].pending # None
    <3>1. PICK q \in Requests : q = locator[l].pending
      BY <2>2, PromisedFields
    <3>2. Promised(q)' /\ locator'[l].pending = q
      BY <1>2, <1>7, <2>1, <2>2, <3>1
    <3>3. Promised(locator[l].pending)'
      BY ONLY <3>2 DEF Promised, Fits, Told, SameRoot, Wanted, SourceContent, Managed, Complete
    <3> QED
      BY <2>2, <3>3
  <2>3. CASE locator[l].pending = None
    BY <1>1, <1>2, <2>1, <2>3 DEF Left
  <2> QED
    BY <2>2, <2>3
<1>9. Home = a.root /\ Home' = a.root /\ a.root # NoRoot
  <2>1. Resolved # None /\ Resolved.active = a
    BY <1>1 DEF Resolved, Locators
  <2>2. Resolved' = Resolved
    BY <1>2 DEF Resolved
  <2> QED
    BY <1>1, <2>1, <2>2, NoRootAssumption DEF Home
<1>10. Saving
  <2>1. ~(Legacy # None /\ a.root = Legacy.root)
    BY <1>1
  <2>2. \A g \in Settings :
           /\ ReadFrom(a.root, g) =
                 IF data[a.root][g] = NoFile THEN Empty ELSE data[a.root][g]
           /\ ReadFrom(a.root, g)' =
                 IF data'[a.root][g] = NoFile THEN Empty ELSE data'[a.root][g]
    BY <2>1 DEF ReadFrom
  <2>3. /\ ReadFrom(a.root, f)' = version + 1
        /\ \A g \in Settings : g # f => ReadFrom(a.root, g)' = ReadFrom(a.root, g)
    <3>1. version + 1 # NoFile
      BY <1>2 DEF NoFile
    <3>2. \A g \in Settings : g # f => data'[a.root][g] = data[a.root][g]
      BY <1>4, SettingsAreFiles
    <3> QED
      BY <1>4, <2>2, <3>1, <3>2
  <2>4. View = [g \in Settings |-> ReadFrom(a.root, g)]
    BY <1>9 DEF View
  <2>5. View' = [g \in Settings |-> ReadFrom(a.root, g)']
    BY <1>9 DEF View, ReadFrom
  <2>6. View' = [View EXCEPT ![f] = version + 1]
    BY <2>3, <2>4, <2>5
  <2>7. Attached /\ Attached'
    BY <1>9 DEF Attached
  <2> QED
    BY <1>2, <2>6, <2>7 DEF Saving
<1>11. Doing(p)'
  <2>1. mutex = None
    BY <1>2, Unheld
  <2>2. job'[p].pc = "running" /\ job'[p].at = a /\ mutex' = None
    BY <1>1, <1>2, <2>1
  <2>3. a.locator # None
    BY <1>1, MigrationAssumption
  <2>4. ASSUME NEW l \in Locators, locator'[l] # None, locator'[l].pending # None
        PROVE  \/ SameRoot(locator'[l].pending)
               \/ \A g \in Settings : data'[locator'[l].pending.target.root][g] = NoFile
    <3>1. l = a.locator /\ locator[l] # None /\ locator[l].pending # None
      BY <1>1, <1>2, <2>4
    <3>2. PICK q \in Requests : q = locator[l].pending
      BY <3>1, PromisedFields
    <3> QED
      BY <1>2, <1>7, <3>1, <3>2
  <2> QED
    BY <1>1, <2>2, <2>3, <2>4
    DEF Doing, Locked, Selecting, UsedAlone, Executing, Beginning, At, MigrationPcs, SameRoot
<1> QED
  BY <1>5, <1>6, <1>8, <1>10, <1>11 DEF Kept, Store

LEMMA KeptSchedule ==
    ASSUME Inexhaustible, NEW p, Window(p), Instances = {p}, SettingsInv(p), NEW c \in Choices,
           Schedule(p, c)
    PROVE  Kept(p)
<1>1. PICK a \in Locations :
         /\ a = job[p].at /\ a.root \in Roots /\ a.locator \in Locators /\ a # Legacy
         /\ locator[a.locator] # None /\ locator[a.locator].active = a
         /\ \A m \in Locators : locator[m] # None => m = a.locator
         /\ Managed(a.root) /\ (Legacy # None => a.root # Legacy.root)
         /\ TypeOK
  BY RunningFields DEF Schedule
<1>2. /\ UNCHANGED <<data, version, job, mutex>> /\ job[p].pc = "running"
      /\ c.root = a.root \/ Vacant(c.root)
  BY <1>1 DEF Schedule, At
<1>3. PICK r \in Requests : /\ r = Request(NewTransaction, a, c, FALSE)
                            /\ r.source = a /\ r.target = c /\ r.legacy = FALSE
  <2>1. PICK t \in Transactions : t = NewTransaction
    BY NewId
  <2>2. c \in Locations /\ FALSE \in BOOLEAN
    BY MigrationAssumption
  <2>3. PICK r : r = Request(t, a, c, FALSE)
    OBVIOUS
  <2>4. r \in Requests /\ r.source = a /\ r.target = c /\ r.legacy = FALSE
    BY <1>1, <2>2, <2>3 DEF Request, Requests
  <2> QED
    BY <2>1, <2>3, <2>4
<1>4. GoodRequest(r) /\ OnlySource(r) /\ Told(r) /\ ~NoLocator
  BY <1>1, <1>3, MigrationAssumption DEF GoodRequest, OnlySource, Told, NoLocator
<1>5. SameRoot(r) \/ \A f \in Settings : data[r.target.root][f] = NoFile
  BY <1>2, <1>3, SettingsAreFiles DEF SameRoot, Vacant
<1>6. Fits(r)
  BY <1>5 DEF Fits
<1>7. locator' = PendingWritten(r)
  BY <1>1, <1>3 DEF Schedule
<1>8. /\ Store' /\ SameView
      /\ \A m \in Locators : locator'[m] # None /\ locator'[m].pending # None =>
            locator'[m].pending.source = r.source /\ locator'[m].pending.target = r.target
  BY <1>2, <1>3, <1>4, <1>6, <1>7, PendingKept
<1>9. Doing(p)'
  <2>1. mutex = None
    BY <1>2, Unheld
  <2>2. job'[p].pc = "running" /\ job'[p].at = a /\ mutex' = None
    BY <1>1, <1>2, <2>1
  <2>3. a.locator # None
    BY <1>1, MigrationAssumption
  <2>4. ASSUME NEW l \in Locators, locator'[l] # None, locator'[l].pending # None
        PROVE  \/ SameRoot(locator'[l].pending)
               \/ \A g \in Settings : data'[locator'[l].pending.target.root][g] = NoFile
    BY <1>2, <1>5, <1>8, <2>4 DEF SameRoot
  <2> QED
    BY <1>1, <2>2, <2>3, <2>4
    DEF Doing, Locked, Selecting, UsedAlone, Executing, Beginning, At, MigrationPcs, SameRoot
<1> QED
  BY <1>8, <1>9 DEF Kept

LEMMA KeptEnds ==
    ASSUME NEW p, Instances = {p}, SettingsInv(p), Quit(p) \/ Kill(p)
    PROVE  Kept(p)
BY EndsKept DEF Quit, Kill

-----------------------------------------------------------------------------
(* The settings survive *)

\* Every step of the process keeps what the next start reads, attaches to a directory, or saves.
LEMMA StepKept ==
    ASSUME Inexhaustible, NEW p, Window(p), Instances = {p}, SettingsInv(p), [Next]_vars
    PROVE  Kept(p)
<1>1. MigrationInv(p) /\ MigrationInv(p)'
  BY MigrationStep DEF SettingsInv
<1>2. CASE UNCHANGED vars
  <2>1. UNCHANGED <<locator, data, version, job, mutex>>
    BY <1>2 DEF vars
  <2>2. Store' /\ SameView
    BY <2>1, QuietStore DEF SettingsInv
  <2>3. PICK k : k = job[p] /\ k = job'[p]
    BY <2>1
  <2>4. Locked(p)' /\ Selecting(p)'
    <3>1. LegacyFound' <=> LegacyFound
      BY <2>1, SameData
    <3> QED
      BY <2>1, <3>1 DEF SettingsInv, Doing, Locked, Selecting, At
  <2>5. UsedAlone(p)'
    BY <2>1 DEF SettingsInv, Doing, UsedAlone, At, SameRoot
  <2>6. Executing(p)'
    <3>1. LegacyFound' <=> LegacyFound
      BY <2>1, SameData
    <3> QED
      BY <2>1, <3>1
      DEF SettingsInv, Doing, Executing, Told, Beginning, At, NoLocator, Managed, Fits,
          SameRoot, Wanted, SourceContent
  <2> QED
    BY <2>2, <2>4, <2>5, <2>6 DEF Kept, Doing
<1>3. CASE Bootstrap(p)
  <2>1. ~UseDefaultRoot(p)
    BY DEF UseDefaultRoot, Window
  <2> QED
    BY <1>1, <1>3, <2>1, KeptRead, KeptDiscard, KeptUseLocator, KeptAdoptTarget, KeptMigrateLegacy,
       KeptSelectRoot, KeptCancelSelection, KeptMakeDirectories, KeptMakeManifest, KeptWriteActive,
       KeptRemoveConflicting, KeptGiveUp, KeptInstall, KeptRecoverFirst
    DEF Bootstrap
<1>4. CASE Migrate(p)
  <2>1. ~JudgeOutcome(p)
    BY <1>1, InvJudgeOutcome
  <2> QED
    BY <1>1, <1>4, <2>1, KeptTakeLock, KeptCommitInPlace, KeptCommitTarget, KeptCommitRefused,
       KeptCommitRemoveSource, KeptCommitFailed, KeptRollbackPending, KeptRollbackRefused,
       KeptJudgePending, KeptWritePending, KeptCopy, KeptCleanup
    DEF Migrate
<1>5. CASE Use(p) \/ Kill(p)
  <2>1. Overrides = {}
    BY DEF Window
  <2> QED
    BY <1>5, <2>1, KeptLaunch, KeptSave, KeptSchedule, KeptEnds DEF Use
<1> QED
  BY <1>2, <1>3, <1>4, <1>5 DEF Next

\* The files at the start: the old layout has no manifest, and a locator that names it is the
\* only one, and where it is to move is not in use.
OldAtRest ==
    Legacy # None =>
        \A start \in InitLocators, files \in InitData :
            /\ files[Legacy.root]["manifest"] = NoFile
            /\ \A l \in Locators : start[l] # None /\ start[l].active = Legacy =>
                  start[Other(l)] = None /\ files[LegacyTarget.root]["manifest"] = NoFile

LEMMA SettingsStart ==
    ASSUME AtRest, OldAtRest, NEW p, Instances = {p}, Init
    PROVE  SettingsInv(p)
<1>1. MigrationInv(p) /\ TypeOK
  BY MigrationStart DEF MigrationInv
<1>2. Bounded
  <2>1. data \in [Roots -> [Files -> 0..FirstVersion]] /\ version = FirstVersion
    BY MigrationAssumption DEF Init
  <2> QED
    BY <2>1, MigrationAssumption, SettingsAreFiles DEF Bounded
<1>3. Untouched
  BY DEF Init, OldAtRest, Untouched, Managed
<1>4. Pended
  <2> SUFFICES ASSUME NEW l \in Locators, locator[l] # None
               PROVE  locator[l].pending = None /\ Left(l)
    BY DEF Pended
  <2>1. locator[l].pending = None /\ locator[l].active \in Locations
    BY <1>1 DEF Init, AtRest, TypeOK, States
  <2>2. locator[l].active = Legacy => Legacy # None
    BY <2>1, MigrationAssumption
  <2> QED
    BY <2>1, <2>2 DEF Init, OldAtRest, Left, Managed
<1>5. job[p].pc = "off" /\ mutex = None
  BY DEF Init, Idle
<1>6. Doing(p)
  BY <1>5 DEF Doing, Locked, Selecting, UsedAlone, Executing, Beginning, At, MigrationPcs
<1> QED
  BY <1>1, <1>2, <1>3, <1>4, <1>6 DEF SettingsInv, Store

\* What is read at the start is not newer than what was saved.
LEMMA ViewStart ==
    ASSUME NEW p, SettingsInv(p), Init
    PROVE  Promise!Init
<1>1. TypeOK /\ Bounded /\ version = FirstVersion
  BY DEF SettingsInv, MigrationInv, Store, Init
<1>2. Home # NoRoot => Home \in Roots
  BY <1>1, ActiveRoot, OldFields DEF Home
<1>3. \A root \in Roots : \A f \in Settings :
         data[root][f] \in Nat /\ data[root][f] <= FirstVersion
  BY <1>1, SettingsAreFiles DEF TypeOK, Bounded
<1>4. ASSUME NEW root \in Roots, NEW f \in Settings
      PROVE  ReadFrom(root, f) \in {Empty} \cup 0..FirstVersion
  <2>1. /\ data[root][f] \in 0..FirstVersion /\ data[root]["config"] \in 0..FirstVersion
    BY <1>3, MigrationAssumption, SettingsAreFiles
  <2> QED
    BY <2>1 DEF ReadFrom
<1>5. View \in [Settings -> {Empty} \cup 0..FirstVersion]
  BY <1>2, <1>4 DEF View
<1> QED
  BY <1>1, <1>5 DEF Promise!Init, View

\* The abstract step of each kind of step.
LEMMA StepPromised ==
    ASSUME NEW p, Kept(p)
    PROVE  [Promise!Next]_<<(Home # NoRoot),
                            [f \in Settings |-> IF Home = NoRoot THEN Empty ELSE ReadFrom(Home, f)],
                            version>>
<1>1. CASE SameView
  BY <1>1 DEF SameView, View, Attached
<1>2. CASE Attaching
  <2>1. Promise!Attach
    BY <1>2 DEF Attaching, View, Attached, Promise!Attach
  <2> QED
    BY <2>1 DEF Promise!Next
<1>3. CASE Saving
  <2>1. PICK f \in Settings : View' = [View EXCEPT ![f] = version']
    BY <1>3 DEF Saving
  <2>2. Promise!Save(f)
    BY <1>3, <2>1 DEF Saving, View, Attached, Promise!Save
  <2> QED
    BY <2>2 DEF Promise!Next
<1> QED
  BY <1>1, <1>2, <1>3 DEF Kept

\* Whatever is selected, adopted, scheduled, migrated, rolled back, cleaned up, killed or
\* started again, the settings the next start reads are those saved last
\* (StorageMigrator::execute and recoverPending, bootstrapStorage; one window).
THEOREM SettingsAlwaysSurvive ==
    ASSUME Inexhaustible, AtRest, OldAtRest, NEW p, Window(p), Instances = {p}
    PROVE  Spec => SettingsSurvive
<1>1. Init => SettingsInv(p)
  BY SettingsStart
<1>2. SettingsInv(p) /\ [Next]_vars => SettingsInv(p)'
  BY StepKept, MigrationStep DEF Kept, SettingsInv
<1>3. Init => Promise!Init
  BY <1>1, ViewStart
<1>4. SettingsInv(p) /\ [Next]_vars =>
         [Promise!Next]_<<(Home # NoRoot),
                          [f \in Settings |-> IF Home = NoRoot THEN Empty ELSE ReadFrom(Home, f)],
                          version>>
  BY StepKept, StepPromised
<1> QED
  BY <1>1, <1>2, <1>3, <1>4, PTL DEF Spec, SettingsSurvive, Promise!Spec

-----------------------------------------------------------------------------
(* Two processes *)

Pends(files, l) == files[l] # None /\ files[l].pending # None

\* What stands in a locator file is about that locator.
Filed(s, l) ==
    s # None =>
        /\ s.active.locator = l
        /\ s.pending = None \/ s.last = None
        /\ s.pending # None => s.pending.source.locator = l

Aim(j) == j.req.source.locator

\* What a process knows, whatever the others do.
Knows(j) ==
    /\ j.pc \in {"dirs", "manifest"} =>
          /\ j.at # None
          /\ j.why = "select" => j.at \in Locations
          /\ j.why # "select" => j.at.locator = None
    /\ j.pc \in {"write", "writeRemove"} =>
          j.at \in Locations /\ j.why \in {"adopt", "select", "verify"}
    /\ j.pc \in {"decide", "existing"} /\ j.seen # None => Filed(j.seen, j.seen.active.locator)
    /\ j.pc \in MigrationPcs => j.req # None
    /\ j.pc = "judge" => j.why = "recover"
    /\ j.pc = "running" => j.at # None

\* The locks are held from where they are taken.
Holds(i, j, locks, m) ==
    /\ j.pc \in MigrationPcs \ {"lock"} => locks[Aim(j)] = i
    /\ j.pc \in {"commitRemove", "writeRemove"} => m = i

\* Between the two writes of a commit, or of a verification, both locators stand.
Removes(j, files) ==
    /\ j.pc = "writeRemove" =>
          /\ j.at.locator = "program"
          /\ files["program"] # None /\ ~Pends(files, "program")
          /\ j.prev # None /\ j.prev.pending = None /\ Filed(j.prev, "program")
    /\ j.pc = "commitRemove" =>
          LET l == j.req.target.locator IN
          /\ Aim(j) # l /\ Pends(files, Aim(j))
          /\ files[l] # None /\ ~Pends(files, l)
          /\ Filed(j.prev, l)
          /\ l = "program" /\ j.prev # None => j.prev.pending = None

\* What copies has its migration pending, and reads what the locators name.
Copies(j, files) ==
    j.pc = "copy" =>
        /\ Pends(files, Aim(j))
        /\ Aim(j) = "user" => files["program"] = None

\* A commit failed and left the user's locator, with its migration pending, beside the
\* program's; a commit that is going on may bring that one back.
Brings(j) ==
    /\ j.pc = "commitRemove" /\ j.req.target.locator = "user"
    /\ j.prev # None /\ j.prev.pending # None

Remains ==
    \/ locator["program"] # None /\ Pends(locator, "user")
    \/ \E i \in Instances : Brings(job[i])

\* It may still commit what the user's locator has pending: it has read it, or is about to.
Stale(j) ==
    \/ j.pc = "user"
    \/ /\ j.pc \in {"decide", "existing"} /\ j.seen # None
       /\ j.seen.pending # None /\ j.seen.active.locator = "user"
    \/ /\ j.pc \in {"judge", "commit"} \/ (j.pc = "lock" /\ j.why = "recover")
       /\ Aim(j) = "user"

\* It may make a migration of the program's locator pending, or works on one.
Starts(i, j) ==
    \/ j.pc = "running" /\ i \notin Greps /\ j.at.locator = "program"
    \/ j.pc = "decide" /\ j.seen = None
    \/ /\ j.pc \in {"decide", "existing"} /\ j.seen # None
       /\ j.seen.pending # None /\ j.seen.active.locator = "program"
    \/ j.pc \in MigrationPcs /\ Aim(j) = "program"

\* The one has read the locators before the commit that failed, and so has the other; of two
\* processes one has made that commit.
Apart ==
    Remains => \A i, k \in Instances : i # k => ~(Stale(job[i]) /\ Starts(k, job[k]))

Calm == Remains /\ Pends(locator, "program") => \A i \in Instances : ~Stale(job[i])

PairInv ==
    /\ TypeOK
    /\ \A l \in Locators : Filed(locator[l], l)
    /\ \A i \in Instances :
          /\ Knows(job[i]) /\ Holds(i, job[i], migLock, mutex)
          /\ Removes(job[i], locator) /\ Copies(job[i], locator)
    /\ Apart /\ Calm

\* What a step of p leaves to the others.
Leaves(p) ==
    /\ TypeOK'
    /\ \A i \in Instances : i # p => job'[i] = job[i]
    /\ \A i \in Instances, l \in Locators : i # p /\ migLock[l] = i => migLock'[l] = i
    /\ \A i \in Instances : i # p /\ mutex = i => mutex' = i

LEMMA HeldByOthers ==
    ASSUME PairInv, NEW p \in Instances, Leaves(p), NEW i \in Instances, i # p
    PROVE  Holds(i, job'[i], migLock', mutex') /\ Knows(job'[i]) /\ job'[i] = job[i]
<1>1. /\ Holds(i, job[i], migLock, mutex) /\ Knows(job[i]) /\ job'[i] = job[i]
      /\ job[i] \in Jobs
  BY DEF PairInv, Leaves, TypeOK
<1>2. job[i].pc \in MigrationPcs \ {"lock"} => Aim(job[i]) \in Locators
  <2>1. job[i].pc \in MigrationPcs \ {"lock"} => job[i].req \in Requests
    BY <1>1 DEF Knows, Jobs
  <2>2. \A r \in Requests : r.source.locator \in Locators
    BY LocationFields DEF Requests
  <2> QED
    BY <2>1, <2>2 DEF Aim
<1>3. job[i].pc \in MigrationPcs \ {"lock"} => migLock'[Aim(job[i])] = i
  BY <1>1, <1>2 DEF Holds, Leaves
<1>4. job[i].pc \in {"commitRemove", "writeRemove"} => mutex' = i
  BY <1>1 DEF Holds, Leaves
<1> QED
  BY <1>1, <1>3, <1>4 DEF Holds

\* A step of p that changes no locator.
LEMMA QuietPair ==
    ASSUME PairInv, NEW p \in Instances, Leaves(p), UNCHANGED locator,
           Knows(job'[p]), Holds(p, job'[p], migLock', mutex'),
           job'[p].pc \notin {"commitRemove", "writeRemove"},
           job'[p].pc = "copy" => Copies(job'[p], locator),
           Remains => (Stale(job'[p]) => Stale(job[p])),
           Remains /\ Starts(p, job'[p]) => Starts(p, job[p]) \/ Pends(locator, "program")
    PROVE  PairInv'
<1>1. \A l \in Locators : Filed(locator[l], l)'
  BY DEF PairInv
<1>2. ASSUME NEW i \in Instances
      PROVE  /\ Knows(job'[i]) /\ Holds(i, job'[i], migLock', mutex')
             /\ Removes(job'[i], locator') /\ Copies(job'[i], locator')
  <2>1. CASE i = p
    BY <2>1 DEF Removes, Copies
  <2>2. CASE i # p
    BY <2>2, HeldByOthers DEF PairInv
  <2> QED
    BY <2>1, <2>2
<1>3. Remains' => Remains
  <2>1. ASSUME NEW i \in Instances, Brings(job'[i]) PROVE Brings(job[i])
    <3>1. i # p
      BY <2>1 DEF Brings
    <3> QED
      BY <2>1, <3>1 DEF Leaves
  <2> QED
    BY <2>1 DEF Remains
<1>4. Remains => \A i \in Instances : Stale(job'[i]) => Stale(job[i])
  BY DEF Leaves
<1>5. Remains /\ Pends(locator, "program") => \A i \in Instances : ~Stale(job'[i])
  BY <1>4 DEF PairInv, Calm
<1>6. Apart'
  <2> SUFFICES ASSUME Remains', NEW i \in Instances, NEW k \in Instances, i # k,
                      Stale(job'[i]), Starts(k, job'[k])
               PROVE  FALSE
    BY DEF Apart
  <2>1. Stale(job[i]) /\ Remains /\ ~Pends(locator, "program")
    BY <1>3, <1>4, <1>5
  <2>2. Starts(k, job[k])
    BY <2>1 DEF Leaves
  <2> QED
    BY <2>1, <2>2 DEF PairInv, Apart
<1>7. Calm'
  BY <1>3, <1>5 DEF Calm
<1> QED
  BY <1>1, <1>2, <1>6, <1>7 DEF PairInv, Leaves

LEMMA MoveLeaves ==
    ASSUME TypeOK, NEW p \in Instances, job' \in [Instances -> Jobs],
           \A i \in Instances : i # p => job'[i] = job[i],
           UNCHANGED <<locator, version, migLock, mutex>>,
           data' \in [Roots -> [Files -> Nat]], faults' \in 0..MaxFaults
    PROVE  Leaves(p)
BY DEF TypeOK, Leaves

LEMMA EndLeaves ==
    ASSUME TypeOK, NEW p \in Instances, End(p)
    PROVE  /\ job' \in [Instances -> Jobs] /\ job'[p] = Idle
           /\ \A i \in Instances : i # p => job'[i] = job[i]
           /\ migLock' \in [Locators -> Instances \cup {None}] /\ mutex' \in Instances \cup {None}
           /\ \A i \in Instances, l \in Locators : i # p /\ migLock[l] = i => migLock'[l] = i
           /\ \A i \in Instances : i # p /\ mutex = i => mutex' = i
<1>1. job \in [Instances -> Jobs] /\ job' = [job EXCEPT ![p] = Idle]
  BY DEF TypeOK, End
<1>2. job' \in [Instances -> Jobs] /\ job'[p] = Idle
  BY <1>1, IdleIsJob
<1>3. \A i \in Instances : i # p => job'[i] = job[i]
  BY <1>1
<1>4. migLock' \in [Locators -> Instances \cup {None}] /\ mutex' \in Instances \cup {None}
  BY DEF TypeOK, End
<1>5. \A i \in Instances, l \in Locators : i # p /\ migLock[l] = i => migLock'[l] = i
  BY DEF TypeOK, End
<1>6. \A i \in Instances : i # p /\ mutex = i => mutex' = i
  BY DEF End
<1> QED
  BY <1>2, <1>3, <1>4, <1>5, <1>6

LEMMA IdleKnows ==
    ASSUME NEW i
    PROVE  /\ Knows(Idle) /\ Holds(i, Idle, migLock', mutex') /\ Idle.pc = "off"
           /\ ~Stale(Idle) /\ ~Starts(i, Idle) /\ ~Brings(Idle)
           /\ Removes(Idle, locator') /\ Copies(Idle, locator')
BY DEF Idle, Knows, Holds, Stale, Starts, Brings, Removes, Copies, MigrationPcs

\* A process ends and leaves the locators.
LEMMA EndsPair ==
    ASSUME PairInv, NEW p \in Instances, End(p), UNCHANGED <<locator, version>>,
           data' \in [Roots -> [Files -> Nat]], faults' \in 0..MaxFaults
    PROVE  PairInv'
<1>1. TypeOK
  BY DEF PairInv
<1>2. Leaves(p) /\ job'[p] = Idle
  BY <1>1, EndLeaves DEF Leaves, TypeOK
<1> QED
  BY <1>2, IdleKnows, QuietPair

\* Where a process is, and what it knows there.
LEMMA PairFields ==
    ASSUME PairInv, NEW p \in Instances
    PROVE  /\ TypeOK /\ job \in [Instances -> Jobs] /\ job[p] \in Jobs
           /\ Knows(job[p]) /\ Holds(p, job[p], migLock, mutex)
           /\ Removes(job[p], locator) /\ Copies(job[p], locator)
           /\ locator \in [Locators -> States \cup {None}]
           /\ data \in [Roots -> [Files -> Nat]]
           /\ faults \in 0..MaxFaults
BY DEF PairInv, TypeOK

LEMMA AimFields ==
    ASSUME NEW j \in Jobs, Knows(j), j.pc \in MigrationPcs
    PROVE  /\ j.req \in Requests /\ j.req # None
           /\ j.req.source \in Locations /\ j.req.target \in Locations
           /\ Aim(j) \in Locators /\ j.req.target.locator \in Locators
           /\ j.req.tx \in Transactions
<1>1. j.req \in Requests /\ j.req # None
  BY DEF Knows, Jobs
<1>2. j.req.source \in Locations /\ j.req.target \in Locations /\ j.req.tx \in Transactions
  BY <1>1 DEF Requests
<1> QED
  BY <1>1, <1>2, LocationFields DEF Aim

\* In both cases the program's locator stands.
LEMMA ProgramStands ==
    ASSUME PairInv, Remains
    PROVE  /\ locator["program"] # None
           /\ Pends(locator, "user") \/ Pends(locator, "program")
<1>1. CASE locator["program"] # None /\ Pends(locator, "user")
  BY <1>1
<1>2. ASSUME NEW i \in Instances, Brings(job[i])
      PROVE  Pends(locator, "program")
  <2>1. Aim(job[i]) \in Locators /\ Aim(job[i]) # "user" /\ Pends(locator, Aim(job[i]))
    BY <1>2, PairFields, AimFields DEF Brings, Removes, MigrationPcs
  <2> QED
    BY <2>1 DEF Locators
<1> QED
  BY <1>1, <1>2 DEF Remains, Pends

LEMMA PairLaunch ==
    ASSUME PairInv, NEW p \in Instances, Launch(p)
    PROVE  PairInv'
<1> DEFINE k == [Idle EXCEPT !.pc = "program", !.why = "bootstrap"]
<1>1. k \in Jobs /\ k.pc = "program"
  <2>1. "bootstrap" \in Whys /\ 0 \in 0..MaxTries
    BY DEF Whys, MaxTries
  <2> QED
    BY <2>1, FreshRead
<1>2. job' = [job EXCEPT ![p] = k]
  BY DEF Launch
<1> HIDE DEF k
<1>3. /\ job' \in [Instances -> Jobs] /\ job'[p] = k
      /\ \A i \in Instances : i # p => job'[i] = job[i]
  BY <1>1, <1>2, PairFields
<1>4. Leaves(p) /\ UNCHANGED locator
  BY <1>3, PairFields, MoveLeaves DEF Launch
<1> QED
  BY <1>1, <1>3, <1>4, QuietPair DEF Knows, Holds, Stale, Starts, MigrationPcs

LEMMA PairLaunchAt ==
    ASSUME PairInv, NEW p \in Instances, NEW r \in Overrides, LaunchAt(p, r)
    PROVE  PairInv'
<1> DEFINE k == [Idle EXCEPT !.pc = "dirs", !.why = "override",
                             !.at = [root |-> r, locator |-> None]]
<1>1. k \in Jobs /\ k.pc = "dirs" /\ k.why = "override" /\ k.at # None /\ k.at.locator = None
  <2>1. "dirs" \in Pcs /\ "override" \in Whys /\ r \in Roots
    BY MigrationAssumption DEF Pcs, Whys
  <2>2. [root |-> r, locator |-> None] \in Places /\ [root |-> r, locator |-> None] # None
    BY <2>1, TypesAssumption DEF Places
  <2>3. k \in Jobs
    BY <2>1, <2>2, IdleIsJob DEF Jobs, Places
  <2> QED
    BY <2>2, <2>3 DEF Idle
<1>2. job' = [job EXCEPT ![p] = k]
  BY DEF LaunchAt
<1> HIDE DEF k
<1>3. /\ job' \in [Instances -> Jobs] /\ job'[p] = k
      /\ \A i \in Instances : i # p => job'[i] = job[i]
  BY <1>1, <1>2, PairFields
<1>4. Leaves(p) /\ UNCHANGED locator
  BY <1>3, PairFields, MoveLeaves DEF LaunchAt
<1> QED
  BY <1>1, <1>3, <1>4, QuietPair DEF Knows, Holds, Stale, Starts, MigrationPcs

LEMMA PairRead ==
    ASSUME PairInv, NEW p \in Instances, ReadProgramLocator(p) \/ ReadUserLocator(p)
    PROVE  PairInv'
<1>1. PICK l \in Locators, missing \in {"user", "decide"} :
         /\ ReadLocator(p, l, missing)
         /\ l = "program" => missing = "user"
         /\ l = "user" => missing = "decide" /\ job[p].pc = "user"
  BY DEF ReadProgramLocator, ReadUserLocator, Locators, At
<1>2. PICK s \in States \cup {None} : s = locator[l] /\ Filed(s, l)
  BY PairFields DEF PairInv
<1>3. PICK pc \in {"user", "decide", "existing"} :
         /\ pc = IF s = None /\ missing # "decide" THEN missing
                 ELSE IF job[p].why = "bootstrap" THEN "decide" ELSE "existing"
  OBVIOUS
<1>4. pc \in Pcs /\ job' = [job EXCEPT ![p].seen = s, ![p].pc = pc]
  BY <1>1, <1>2, <1>3 DEF ReadLocator, Pcs
<1>5. job' \in [Instances -> Jobs] /\ job'[p].pc = pc /\ job'[p].seen = s
  BY <1>4, PairFields, SeenJob
<1>6. \A i \in Instances : i # p => job'[i] = job[i]
  BY <1>4, PairFields
<1>7. Leaves(p) /\ UNCHANGED locator
  BY <1>1, <1>5, <1>6, PairFields, MoveLeaves DEF ReadLocator
<1>8. Knows(job'[p]) /\ Holds(p, job'[p], migLock', mutex')
  BY <1>2, <1>5 DEF Knows, Holds, MigrationPcs, Filed
<1>9. pc = "user" => locator["program"] = None
  BY <1>1, <1>2, <1>3 DEF Locators
<1>10. Remains => locator["program"] # None
  BY ProgramStands
<1>11. Remains => (Stale(job'[p]) => Stale(job[p]))
  BY <1>1, <1>2, <1>3, <1>5, <1>9, <1>10 DEF Stale, Filed, Locators, MigrationPcs
<1>12. Remains /\ Starts(p, job'[p]) => Pends(locator, "program")
  <2> SUFFICES ASSUME Remains, Starts(p, job'[p]) PROVE Pends(locator, "program")
    OBVIOUS
  <2>1. pc \in {"decide", "existing"} /\ (pc = "decide" => s = None \/ s.active.locator = "program")
    BY <1>3, <1>5, <1>9, <1>10 DEF Starts, MigrationPcs
  <2>2. s # None
    <3>1. CASE l = "program"
      BY <1>2, <1>10, <3>1
    <3>2. CASE l = "user"
      BY <1>1, <1>2, <3>2, ProgramStands DEF PairInv, Calm, Stale, Pends
    <3> QED
      BY <3>1, <3>2 DEF Locators
  <2>3. s.pending # None /\ s.active.locator = "program"
    BY <1>5, <2>1, <2>2 DEF Starts, MigrationPcs
  <2> QED
    BY <1>2, <2>2, <2>3 DEF Filed, Pends
<1> QED
  BY <1>3, <1>5, <1>7, <1>8, <1>11, <1>12, QuietPair

LEMMA DataSet ==
    ASSUME data \in [Roots -> [Files -> Nat]], NEW r \in Roots, NEW f \in Files, NEW n \in Nat,
           data' = [data EXCEPT ![r][f] = n]
    PROVE  data' \in [Roots -> [Files -> Nat]]
OBVIOUS

LEMMA Contents ==
    Empty \in Nat /\ NoFile \in Nat /\ {"dirs", "manifest"} \subseteq Files
BY DEF Empty, NoFile, Files

LEMMA PairUseLocator ==
    ASSUME PairInv, NEW p \in Instances, UseLocator(p)
    PROVE  PairInv'
<1>1. "existing" \in Pcs /\ "existing" \in Whys
  BY DEF Pcs, Whys
<1>2. /\ job' \in [Instances -> Jobs] /\ job'[p].pc = "existing"
      /\ job'[p].seen = job[p].seen /\ job[p].pc = "decide" /\ job[p].seen # None
  BY <1>1, PairFields, CallJob DEF UseLocator, At
<1>3. \A i \in Instances : i # p => job'[i] = job[i]
  BY PairFields DEF UseLocator, Call
<1>4. Leaves(p) /\ UNCHANGED locator
  BY <1>2, <1>3, PairFields, MoveLeaves DEF UseLocator
<1> QED
  BY <1>2, <1>4, PairFields, QuietPair DEF Knows, Holds, Stale, Starts, MigrationPcs

\* A process goes to a place.
LEMMA PlacePair ==
    ASSUME PairInv, NEW p \in Instances, NEW pc \in {"dirs", "write"}, NEW why \in Whys,
           NEW a \in Places, a # None, Place(p, pc, why, a),
           pc = "write" => a \in Locations /\ why \in {"adopt", "select", "verify"},
           why = "select" => a \in Locations,
           pc = "dirs" /\ why # "select" => a.locator = None,
           UNCHANGED <<locator, version, migLock, mutex>>,
           data' \in [Roots -> [Files -> Nat]], faults' \in 0..MaxFaults
    PROVE  PairInv'
<1>1. pc \in Pcs
  BY DEF Pcs
<1>2. job' \in [Instances -> Jobs] /\ job'[p].pc = pc /\ job'[p].why = why /\ job'[p].at = a
  BY <1>1, PairFields, PlacedJob
<1>3. \A i \in Instances : i # p => job'[i] = job[i]
  BY PairFields DEF Place
<1>4. Leaves(p)
  BY <1>2, <1>3, PairFields, MoveLeaves
<1> QED
  BY <1>2, <1>4, QuietPair DEF Knows, Holds, Stale, Starts, MigrationPcs

LEMMA PairUseDefaultRoot ==
    ASSUME PairInv, NEW p \in Instances, UseDefaultRoot(p)
    PROVE  PairInv'
<1> DEFINE a == [root |-> UserRoot, locator |-> None]
<1>1. CASE End(p)
  BY <1>1, PairFields, EndsPair DEF UseDefaultRoot
<1>2. CASE /\ job' = [job EXCEPT ![p].pc = "dirs", ![p].why = "default", ![p].at = a]
           /\ UNCHANGED <<migLock, mutex>>
  <2>1. a \in Places /\ a # None /\ a.locator = None /\ "default" \in Whys
    BY MigrationAssumption, TypesAssumption DEF Places, Whys
  <2>2. Place(p, "dirs", "default", a)
    BY <1>2 DEF Place
  <2>3. UNCHANGED <<locator, data, version, migLock, mutex, faults>>
    BY <1>2 DEF UseDefaultRoot
  <2> HIDE DEF a
  <2> QED
    BY <2>1, <2>2, <2>3, PairFields, PlacePair
<1> QED
  BY <1>1, <1>2 DEF UseDefaultRoot

LEMMA PairAdoptTarget ==
    ASSUME PairInv, NEW p \in Instances, AdoptTarget(p)
    PROVE  PairInv'
<1>1. /\ LegacyTarget \in Locations /\ LegacyTarget \in Places /\ LegacyTarget # None
      /\ LegacyTarget.root \in Roots
  BY MigrationAssumption, LocationFields DEF AdoptTarget, LegacyFound, Places
<1>2. Place(p, "write", "adopt", LegacyTarget) /\ "adopt" \in Whys
  BY DEF AdoptTarget, Place, Whys
<1>3. /\ data' = [data EXCEPT ![LegacyTarget.root]["dirs"] = Empty]
      /\ UNCHANGED <<locator, version, migLock, mutex, faults>>
  BY DEF AdoptTarget
<1>4. data' \in [Roots -> [Files -> Nat]]
  BY <1>1, <1>3, PairFields, DataSet, Contents
<1> QED
  BY <1>1, <1>2, <1>3, <1>4, PairFields, PlacePair

LEMMA PairSelectRoot ==
    ASSUME PairInv, NEW p \in Instances, NEW c \in Choices, SelectRoot(p, c)
    PROVE  PairInv'
<1>1. c \in Locations /\ c \in Places /\ c # None
  BY MigrationAssumption, LocationFields DEF Places
<1>2. Place(p, "dirs", "select", c) /\ "select" \in Whys
  BY DEF SelectRoot, Place, Whys
<1>3. UNCHANGED <<locator, data, version, migLock, mutex, faults>>
  BY DEF SelectRoot
<1> QED
  BY <1>1, <1>2, <1>3, PairFields, PlacePair

\* There is always an id that is not in use: two processes know six at most.
Plenty == \A a, b, c, d, e, f : \E t \in Transactions : t \notin {a, b, c, d, e, f}

LEMMA NewIdOfTwo ==
    ASSUME Plenty, NEW p, NEW q, Instances = {p, q}
    PROVE  NewTransaction \in Transactions
<1> DEFINE a == locator["program"].pending.tx
           b == locator["user"].pending.tx
           c == locator["program"].last.tx
           d == locator["user"].last.tx
           e == job[p].req.tx
           f == job[q].req.tx
<1>1. UsedTransactions \subseteq {a, b, c, d, e, f}
  BY DEF UsedTransactions, Locators
<1>2. \E t \in Transactions : t \notin {a, b, c, d, e, f}
  BY DEF Plenty
<1>3. \E t \in Transactions : t \notin UsedTransactions
  BY <1>1, <1>2
<1> QED
  BY <1>3 DEF NewTransaction

LEMMA PairMigrateLegacy ==
    ASSUME PairInv, NewTransaction \in Transactions, NEW p \in Instances, MigrateLegacy(p)
    PROVE  PairInv'
<1>1. CASE End(p)
  BY <1>1, PairFields, EndsPair DEF MigrateLegacy
<1>2. ASSUME NEW r, r = Request(NewTransaction, Legacy, LegacyTarget, TRUE),
             job' = [job EXCEPT ![p].pc = "lock", ![p].why = "execute", ![p].req = r],
             UNCHANGED <<migLock, mutex>>
      PROVE  PairInv'
  <2>1. r \in Requests /\ r # None
    <3>1. Legacy \in Locations /\ LegacyTarget \in Locations
      BY MigrationAssumption DEF MigrateLegacy, LegacyFound
    <3>2. IsOld(r)
      BY <1>2 DEF IsOld
    <3> QED
      BY <3>1, <3>2, OldRequest
  <2>2. "lock" \in Pcs /\ "execute" \in Whys
    BY DEF Pcs, Whys
  <2>3. Ask(p, "lock", "execute", r)
    BY <1>2 DEF Ask
  <2>4. /\ job' \in [Instances -> Jobs] /\ job'[p].pc = "lock" /\ job'[p].why = "execute"
        /\ job'[p].req = r
    BY <2>1, <2>2, <2>3, PairFields, AskedJob
  <2>5. \A i \in Instances : i # p => job'[i] = job[i]
    BY <2>3, PairFields DEF Ask
  <2>6. UNCHANGED <<locator, data, version, faults>> /\ job[p].pc = "decide" /\ job[p].seen = None
    BY DEF MigrateLegacy, At
  <2>7. Leaves(p)
    BY <1>2, <2>4, <2>5, <2>6, PairFields, MoveLeaves
  <2> QED
    BY <2>1, <2>4, <2>6, <2>7, QuietPair DEF Knows, Holds, Stale, Starts, MigrationPcs
<1> QED
  BY <1>1, <1>2 DEF MigrateLegacy

LEMMA PairCancelSelection ==
    ASSUME PairInv, NEW p \in Instances, CancelSelection(p)
    PROVE  PairInv'
BY PairFields, EndsPair DEF CancelSelection

LEMMA GotoLeaves ==
    ASSUME PairInv, NEW p \in Instances, NEW pc \in Pcs, Goto(p, pc),
           UNCHANGED <<locator, version, migLock, mutex>>,
           data' \in [Roots -> [Files -> Nat]], faults' \in 0..MaxFaults
    PROVE  /\ Leaves(p) /\ job'[p].pc = pc /\ job'[p].why = job[p].why
           /\ job'[p].seen = job[p].seen /\ job'[p].at = job[p].at
           /\ job'[p].req = job[p].req /\ job'[p].prev = job[p].prev
<1>1. /\ job' \in [Instances -> Jobs] /\ job'[p].pc = pc /\ job'[p].why = job[p].why
      /\ job'[p].seen = job[p].seen /\ job'[p].at = job[p].at
      /\ job'[p].req = job[p].req /\ job'[p].prev = job[p].prev
  BY PairFields, GotoJob
<1>2. \A i \in Instances : i # p => job'[i] = job[i]
  BY PairFields DEF Goto
<1> QED
  BY <1>1, <1>2, PairFields, MoveLeaves

LEMMA PairMakeDirectories ==
    ASSUME PairInv, NEW p \in Instances, MakeDirectories(p)
    PROVE  PairInv'
<1>1. job[p].pc = "dirs" /\ job[p].at # None /\ job[p].at.root \in Roots
  BY PairFields DEF MakeDirectories, At, Knows, Jobs
<1>2. CASE /\ data' = [data EXCEPT ![job[p].at.root]["dirs"] = Empty]
           /\ Goto(p, "manifest")
           /\ UNCHANGED <<migLock, mutex, faults>>
  <2>1. data' \in [Roots -> [Files -> Nat]]
    BY <1>1, <1>2, PairFields, DataSet, Contents
  <2>2. "manifest" \in Pcs /\ UNCHANGED <<locator, version>>
    BY DEF Pcs, MakeDirectories
  <2>3. /\ Leaves(p) /\ job'[p].pc = "manifest" /\ job'[p].why = job[p].why
        /\ job'[p].at = job[p].at
    BY <1>2, <2>1, <2>2, PairFields, GotoLeaves
  <2> QED
    BY <1>1, <2>2, <2>3, PairFields, QuietPair DEF Knows, Holds, Stale, Starts, MigrationPcs
<1>3. CASE Fault /\ End(p) /\ UNCHANGED data
  <2>1. faults' \in 0..MaxFaults /\ UNCHANGED <<locator, version, data>>
    BY <1>3, PairFields, FaultTypes DEF Fault, MakeDirectories
  <2> QED
    BY <1>3, <2>1, PairFields, EndsPair
<1> QED
  BY <1>2, <1>3 DEF MakeDirectories

LEMMA PairMakeManifest ==
    ASSUME PairInv, NEW p \in Instances, MakeManifest(p)
    PROVE  PairInv'
<1>1. /\ job[p].pc = "manifest" /\ job[p].at # None /\ job[p].at.root \in Roots
      /\ job[p].why = "select" => job[p].at \in Locations
      /\ job[p].why # "select" => job[p].at.locator = None
  BY PairFields DEF MakeManifest, At, Knows, Jobs
<1>2. CASE /\ data' = [data EXCEPT ![job[p].at.root]["manifest"] = Empty]
           /\ job' = [job EXCEPT
                ![p].made = IF Managed(job[p].at.root) THEN {} ELSE {"manifest"},
                ![p].pc = IF job[p].why = "select" THEN "write" ELSE "running"]
           /\ UNCHANGED <<migLock, mutex, faults>>
  <2>1. data' \in [Roots -> [Files -> Nat]]
    BY <1>1, <1>2, PairFields, DataSet, Contents
  <2>2. PICK m \in SUBSET Files : m = IF Managed(job[p].at.root) THEN {} ELSE {"manifest"}
    BY DEF Files
  <2>3. PICK pc \in Pcs : pc = IF job[p].why = "select" THEN "write" ELSE "running"
    BY DEF Pcs
  <2>4. job' = [job EXCEPT ![p].made = m, ![p].pc = pc]
    BY <1>2, <2>2, <2>3
  <2>5. /\ job' \in [Instances -> Jobs] /\ job'[p].pc = pc /\ job'[p].why = job[p].why
        /\ job'[p].at = job[p].at
    BY <2>4, PairFields, MadeJob
  <2>6. \A i \in Instances : i # p => job'[i] = job[i]
    BY <2>4, PairFields
  <2>7. Leaves(p) /\ UNCHANGED locator
    BY <1>2, <2>1, <2>5, <2>6, PairFields, MoveLeaves DEF MakeManifest
  <2>8. ~Starts(p, job'[p])
    <3>1. None # "program"
      BY MigrationAssumption DEF Locators
    <3> QED
      BY <1>1, <2>3, <2>5, <3>1 DEF Starts, MigrationPcs
  <2> QED
    BY <1>1, <2>3, <2>5, <2>7, <2>8, QuietPair DEF Knows, Holds, Stale, MigrationPcs
<1>3. CASE Fault /\ End(p) /\ UNCHANGED data
  <2>1. faults' \in 0..MaxFaults /\ UNCHANGED <<locator, version, data>>
    BY <1>3, PairFields, FaultTypes DEF Fault, MakeManifest
  <2> QED
    BY <1>3, <2>1, PairFields, EndsPair
<1> QED
  BY <1>2, <1>3 DEF MakeManifest

LEMMA PairGiveUp ==
    ASSUME PairInv, NEW p \in Instances, GiveUp(p)
    PROVE  PairInv'
BY PairFields, EndsPair DEF GiveUp

LEMMA PairInstall ==
    ASSUME PairInv, NEW p \in Instances, Install(p)
    PROVE  PairInv'
<1>1. PICK s \in States : s = job[p].seen
  BY PairFields DEF Install, Jobs
<1>2. s.active \in Locations /\ s.active.root \in Roots /\ s.active # None
  BY <1>1, LocationFields DEF States
<1>3. data' \in [Roots -> [Files -> Nat]]
  BY <1>1, <1>2, PairFields, DataSet, Contents DEF Install
<1> DEFINE k == [Idle EXCEPT !.at = s.active, !.pc = IF p \in Greps THEN "running" ELSE "write",
                             !.why = IF p \in Greps THEN "none" ELSE "verify"]
<1>4. /\ k \in Jobs /\ k.at = s.active
      /\ p \in Greps => k.pc = "running"
      /\ p \notin Greps => k.pc = "write" /\ k.why = "verify"
  <2>1. s.active \in Places
    BY <1>2, LocationFields DEF Places
  <2>2. {"running", "write"} \subseteq Pcs /\ {"none", "verify"} \subseteq Whys
    BY DEF Pcs, Whys
  <2>3. k \in Jobs
    BY <2>1, <2>2, IdleIsJob DEF Jobs, Places
  <2> QED
    BY <2>3 DEF Idle
<1>5. job' = [job EXCEPT ![p] = k]
  BY <1>1 DEF Install
<1> HIDE DEF k
<1>6. /\ job' \in [Instances -> Jobs] /\ job'[p] = k
      /\ \A i \in Instances : i # p => job'[i] = job[i]
  BY <1>4, <1>5, PairFields
<1>7. Leaves(p) /\ UNCHANGED locator
  BY <1>3, <1>6, PairFields, MoveLeaves DEF Install
<1> QED
  BY <1>2, <1>4, <1>6, <1>7, QuietPair DEF Knows, Holds, Stale, Starts, MigrationPcs

LEMMA PairRecoverFirst ==
    ASSUME PairInv, NEW p \in Instances, RecoverFirst(p)
    PROVE  PairInv'
<1>1. /\ job[p].pc = "existing" /\ job[p].tries < MaxTries
      /\ job[p].seen # None /\ job[p].seen.pending # None
      /\ Filed(job[p].seen, job[p].seen.active.locator)
  BY PairFields DEF RecoverFirst, At, Knows
<1>2. PICK s \in States, r \in Requests :
         /\ s = job[p].seen /\ r = s.pending /\ s # None /\ r # None
         /\ r.source.locator = s.active.locator
  BY <1>1, PairFields DEF Jobs, States, Filed
<1>3. PICK n \in 0..MaxTries : n = job[p].tries + 1
  BY <1>1, PairFields DEF Jobs, MaxTries
<1> DEFINE k == Asking("recover", r, n)
<1>4. k \in Jobs /\ k.pc = "lock" /\ k.why = "recover" /\ k.req = r
  BY FreshAsked DEF Whys
<1>5. job' = [job EXCEPT ![p] = k]
  BY <1>2, <1>3 DEF RecoverFirst, Asking
<1> HIDE DEF k
<1>6. /\ job' \in [Instances -> Jobs] /\ job'[p] = k
      /\ \A i \in Instances : i # p => job'[i] = job[i]
  BY <1>4, <1>5, PairFields
<1>7. Leaves(p) /\ UNCHANGED locator
  BY <1>6, PairFields, MoveLeaves DEF RecoverFirst
<1>8. Stale(k) => Stale(job[p])
  BY <1>1, <1>2, <1>4 DEF Stale, Aim
<1>9. Starts(p, k) => Starts(p, job[p])
  BY <1>1, <1>2, <1>4 DEF Starts, Aim
<1> QED
  BY <1>2, <1>4, <1>6, <1>7, <1>8, <1>9, QuietPair DEF Knows, Holds, MigrationPcs

\* A migration goes on with its lock.
LEMMA GoesOnPair ==
    ASSUME PairInv, NEW p \in Instances, job[p].pc \in MigrationPcs \ {"lock"},
           NEW pc \in {"commit", "commitFailed", "rollback", "cleanup"}, Goto(p, pc),
           pc = "commit" => job[p].pc = "judge",
           UNCHANGED <<locator, version, migLock, mutex>>,
           data' \in [Roots -> [Files -> Nat]], faults' \in 0..MaxFaults
    PROVE  PairInv'
<1>1. pc \in Pcs
  BY DEF Pcs
<1>2. Leaves(p) /\ job'[p].pc = pc /\ job'[p].req = job[p].req
  BY <1>1, GotoLeaves
<1>3. Aim(job'[p]) = Aim(job[p])
  BY <1>2 DEF Aim
<1>4. Knows(job'[p]) /\ Holds(p, job'[p], migLock', mutex')
  BY <1>2, <1>3, PairFields DEF Knows, Holds, MigrationPcs
<1>5. Stale(job'[p]) => Stale(job[p])
  BY <1>2, <1>3 DEF Stale
<1>6. Starts(p, job'[p]) => Starts(p, job[p])
  BY <1>2, <1>3 DEF Starts, MigrationPcs
<1> QED
  BY <1>2, <1>4, <1>5, <1>6, QuietPair

LEMMA PairTakeLock ==
    ASSUME PairInv, NEW p \in Instances, TakeLock(p)
    PROVE  PairInv'
<1> DEFINE l == Aim(job[p])
<1>1. /\ job[p].pc = "lock" /\ l \in Locators /\ job[p].req # None
      /\ UNCHANGED <<locator, data, version, faults>>
  BY PairFields, AimFields DEF TakeLock, At, MigrationPcs
<1>2. CASE /\ migLock[l] = None
           /\ migLock' = [migLock EXCEPT ![l] = p]
           /\ Goto(p, IF job[p].why = "recover" THEN "judge" ELSE "pend")
           /\ UNCHANGED mutex
  <2>1. PICK pc \in Pcs : /\ pc = IF job[p].why = "recover" THEN "judge" ELSE "pend"
                          /\ Goto(p, pc)
    BY <1>2 DEF Pcs
  <2>2. /\ job' \in [Instances -> Jobs] /\ job'[p].pc = pc /\ job'[p].why = job[p].why
        /\ job'[p].req = job[p].req
    BY <2>1, PairFields, GotoJob
  <2>3. \A i \in Instances : i # p => job'[i] = job[i]
    BY <2>1, PairFields DEF Goto
  <2>4. /\ migLock' \in [Locators -> Instances \cup {None}] /\ migLock'[l] = p
        /\ \A i \in Instances, m \in Locators : migLock[m] = i => migLock'[m] = i
    BY <1>1, <1>2, PairFields, MigrationAssumption DEF TypeOK
  <2>5. Leaves(p)
    BY <1>1, <1>2, <2>2, <2>3, <2>4, PairFields DEF Leaves, TypeOK
  <2>6. Aim(job'[p]) = l
    BY <2>2 DEF Aim
  <2>7. Knows(job'[p]) /\ Holds(p, job'[p], migLock', mutex')
    BY <1>1, <2>1, <2>2, <2>4, <2>6 DEF Knows, Holds, MigrationPcs
  <2>8. /\ Stale(job'[p]) => Stale(job[p])
        /\ Starts(p, job'[p]) => Starts(p, job[p])
    BY <1>1, <2>1, <2>2, <2>6 DEF Stale, Starts, MigrationPcs
  <2> QED
    BY <1>1, <2>1, <2>2, <2>5, <2>7, <2>8, QuietPair
<1>3. CASE End(p)
  BY <1>1, <1>3, PairFields, EndsPair
<1> QED
  BY <1>2, <1>3 DEF TakeLock, Aim

LEMMA PairCommitRefused ==
    ASSUME PairInv, NEW p \in Instances, CommitRefused(p)
    PROVE  PairInv'
<1>1. faults' \in 0..MaxFaults
  BY PairFields, FaultTypes DEF CommitRefused, Fault
<1>2. /\ job[p].pc \in MigrationPcs \ {"lock"} /\ Goto(p, "commitFailed")
      /\ UNCHANGED <<locator, data, version, migLock, mutex>>
  BY DEF CommitRefused, At, MigrationPcs
<1> QED
  BY <1>1, <1>2, PairFields, GoesOnPair

LEMMA PairCommitFailed ==
    ASSUME PairInv, NEW p \in Instances, CommitFailed(p)
    PROVE  PairInv'
<1>1. job[p].pc \in MigrationPcs \ {"lock"} /\ UNCHANGED <<locator, data, version, faults>>
  BY DEF CommitFailed, At, MigrationPcs
<1>2. CASE End(p)
  BY <1>1, <1>2, PairFields, EndsPair
<1>3. CASE Goto(p, "rollback") /\ UNCHANGED <<migLock, mutex>>
  BY <1>1, <1>3, PairFields, GoesOnPair
<1> QED
  BY <1>2, <1>3 DEF CommitFailed

LEMMA PairRollbackRefused ==
    ASSUME PairInv, NEW p \in Instances, RollbackRefused(p)
    PROVE  PairInv'
<1>1. faults' \in 0..MaxFaults
  BY PairFields, FaultTypes DEF RollbackRefused, Fault
<1>2. job[p].pc \in MigrationPcs \ {"lock"} /\ UNCHANGED <<locator, data, version>>
  BY DEF RollbackRefused, At, MigrationPcs
<1>3. CASE End(p)
  BY <1>1, <1>2, <1>3, PairFields, EndsPair
<1>4. CASE Goto(p, "cleanup") /\ UNCHANGED <<migLock, mutex>>
  BY <1>1, <1>2, <1>4, PairFields, GoesOnPair
<1> QED
  BY <1>3, <1>4 DEF RollbackRefused

LEMMA PairJudgePending ==
    ASSUME PairInv, NEW p \in Instances, JudgePending(p)
    PROVE  PairInv'
<1>1. /\ job[p].pc = "judge" /\ job[p].pc \in MigrationPcs \ {"lock"}
      /\ UNCHANGED <<locator, data, version, migLock, mutex, faults>>
  BY DEF JudgePending, At, MigrationPcs
<1>2. PICK pc \in {"commit", "rollback"} : Goto(p, pc)
  BY DEF JudgePending
<1> QED
  BY <1>1, <1>2, PairFields, GoesOnPair

\* The call is over, or begins again with the same request: the lock is free.
LEMMA UnlockedTypes ==
    ASSUME PairInv, NEW p \in Instances, job[p].pc \in MigrationPcs \ {"lock"},
           migLock' = Unlocked(p)
    PROVE  /\ migLock' \in [Locators -> Instances \cup {None}]
           /\ \A i \in Instances, l \in Locators : i # p /\ migLock[l] = i => migLock'[l] = i
<1>1. migLock \in [Locators -> Instances \cup {None}]
  BY PairFields DEF TypeOK
<1>2. migLock' = [migLock EXCEPT ![Aim(job[p])] = None] /\ migLock[Aim(job[p])] = p
  BY PairFields DEF Unlocked, Aim, Holds
<1> QED
  BY <1>1, <1>2

LEMMA SucceedIs ==
    ASSUME PairInv, NEW p \in Instances, job[p].pc \in MigrationPcs \ {"lock"}, Succeed(p)
    PROVE  /\ job' \in [Instances -> Jobs] /\ job'[p].pc = "program"
           /\ \A i \in Instances : i # p => job'[i] = job[i]
           /\ migLock' \in [Locators -> Instances \cup {None}]
           /\ \A i \in Instances, l \in Locators : i # p /\ migLock[l] = i => migLock'[l] = i
<1>1. PICK n \in 0..MaxTries : n = job[p].tries
  BY PairFields DEF Jobs
<1> DEFINE k == [Idle EXCEPT !.pc = "program", !.why = "existing", !.tries = n]
<1>2. k \in Jobs /\ k.pc = "program"
  BY FreshRead DEF Whys
<1>3. job' = [job EXCEPT ![p] = k]
  BY <1>1 DEF Succeed
<1> HIDE DEF k
<1>4. /\ job' \in [Instances -> Jobs] /\ job'[p] = k
      /\ \A i \in Instances : i # p => job'[i] = job[i]
  BY <1>2, <1>3, PairFields
<1> QED
  BY <1>2, <1>4, UnlockedTypes DEF Succeed

LEMMA RolledBackIs ==
    ASSUME PairInv, NEW p \in Instances, job[p].pc \in MigrationPcs \ {"lock"},
           job[p].why = "recover", RolledBack(p)
    PROVE  /\ job' \in [Instances -> Jobs] /\ job'[p].pc = "lock" /\ job'[p].why = "execute"
           /\ job'[p].req = job[p].req
           /\ \A i \in Instances : i # p => job'[i] = job[i]
           /\ migLock' \in [Locators -> Instances \cup {None}]
           /\ \A i \in Instances, l \in Locators : i # p /\ migLock[l] = i => migLock'[l] = i
<1>1. PICK n \in 0..MaxTries, r \in Requests : n = job[p].tries /\ r = job[p].req
  BY PairFields, AimFields DEF Jobs
<1> DEFINE k == Asking("execute", r, n)
<1>2. k \in Jobs /\ k.pc = "lock" /\ k.why = "execute" /\ k.req = r
  BY FreshAsked DEF Whys
<1>3. job' = [job EXCEPT ![p] = k]
  BY <1>1 DEF RolledBack, Asking
<1> HIDE DEF k
<1>4. /\ job' \in [Instances -> Jobs] /\ job'[p] = k
      /\ \A i \in Instances : i # p => job'[i] = job[i]
  BY <1>2, <1>3, PairFields
<1>5. migLock' = Unlocked(p)
  BY DEF RolledBack
<1> QED
  BY <1>1, <1>2, <1>4, <1>5, UnlockedTypes

LEMMA PairJudgeOutcome ==
    ASSUME PairInv, NEW p \in Instances, JudgeOutcome(p)
    PROVE  PairInv'
<1>1. /\ job[p].pc = "judge" /\ job[p].pc \in MigrationPcs \ {"lock"} /\ job[p].why = "recover"
      /\ job[p].req # None /\ UNCHANGED <<locator, data, version, faults>>
  BY PairFields DEF JudgeOutcome, At, MigrationPcs, Knows
<1>2. CASE Succeed(p) /\ UNCHANGED mutex
  <2>1. Leaves(p) /\ job'[p].pc = "program"
    BY <1>1, <1>2, SucceedIs, PairFields DEF Leaves, TypeOK
  <2> QED
    BY <1>1, <2>1, QuietPair DEF Knows, Holds, Stale, Starts, MigrationPcs
<1>3. CASE RolledBack(p) /\ UNCHANGED mutex
  <2>1. /\ Leaves(p) /\ job'[p].pc = "lock" /\ job'[p].why = "execute"
        /\ job'[p].req = job[p].req
    BY <1>1, <1>3, RolledBackIs, PairFields DEF Leaves, TypeOK
  <2>2. Aim(job'[p]) = Aim(job[p])
    BY <2>1 DEF Aim
  <2> QED
    BY <1>1, <2>1, <2>2, QuietPair DEF Knows, Holds, Stale, Starts, MigrationPcs
<1>4. CASE End(p)
  BY <1>1, <1>4, PairFields, EndsPair
<1> QED
  BY <1>2, <1>3, <1>4 DEF JudgeOutcome


LEMMA PairCopy ==
    ASSUME PairInv, NEW p \in Instances, Copy(p)
    PROVE  PairInv'
<1>1. /\ job[p].pc = "copy" /\ job[p].pc \in MigrationPcs \ {"lock"}
      /\ UNCHANGED <<locator, version, migLock, mutex>>
  BY DEF Copy, At, MigrationPcs
<1>2. PICK r \in Requests : /\ r = job[p].req /\ r # None /\ r.target.root \in Roots
                            /\ r.source.root \in Roots
  BY <1>1, PairFields, AimFields, LocationFields
<1>3. PICK n \in 1..5, f \in Files : n = job[p].step /\ f = CopyOrder[n]
  BY PairFields, Steps DEF Jobs
<1>4. CASE /\ Goto(p, "rollback") /\ UNCHANGED data
           /\ Fault \/ UNCHANGED faults
  <2>1. faults' \in 0..MaxFaults
    BY <1>4, PairFields, FaultTypes DEF Fault
  <2> QED
    BY <1>1, <1>4, <2>1, PairFields, GoesOnPair
<1> DEFINE there == data[r.target.root][f]
           m == IF there = NoFile /\ Wanted(r, f) # NoFile THEN {f} ELSE {}
<1>5. CASE /\ data' = IF m = {} THEN data
                      ELSE [data EXCEPT ![r.target.root][f] = Wanted(r, f)]
           /\ job' = [job EXCEPT
                 ![p].made = @ \cup m,
                 ![p].step = IF f = "manifest" THEN 1 ELSE @ + 1,
                 ![p].pc = IF f = "manifest" THEN "commit"
                           ELSE IF Conflicts(r, f) THEN "rollback" ELSE "copy"]
           /\ UNCHANGED faults
  <2>1. PICK pc \in {"commit", "rollback", "copy"} :
           pc = (IF f = "manifest" THEN "commit"
                 ELSE IF Conflicts(r, f) THEN "rollback" ELSE "copy")
    OBVIOUS
  <2>2. PICK next \in 1..5 : next = (IF f = "manifest" THEN 1 ELSE n + 1)
    BY <1>3, Steps
  <2>3. job' = [job EXCEPT ![p].made = @ \cup m, ![p].step = next, ![p].pc = pc]
    BY <1>3, <1>5, <2>1, <2>2
  <2>4. data' \in [Roots -> [Files -> Nat]]
    <3>1. Wanted(r, f) \in Nat
      BY <1>2, PairFields, WantedContent
    <3>2. data' = data \/ data' = [data EXCEPT ![r.target.root][f] = Wanted(r, f)]
      BY <1>5
    <3> QED
      BY <1>2, <3>1, <3>2, PairFields, DataSet
  <2>5. pc \in Pcs /\ m \in SUBSET Files
    BY DEF Pcs
  <2> HIDE DEF m
  <2>6. job' \in [Instances -> Jobs] /\ job'[p].pc = pc /\ job'[p].req = job[p].req
    BY <2>2, <2>3, <2>5, PairFields, CopiedJob
  <2>7. \A i \in Instances : i # p => job'[i] = job[i]
    BY <2>3, PairFields
  <2>8. Leaves(p)
    BY <1>1, <1>5, <2>4, <2>6, <2>7, PairFields, MoveLeaves
  <2>9. Aim(job'[p]) = Aim(job[p])
    BY <2>6 DEF Aim
  <2>10. Knows(job'[p]) /\ Holds(p, job'[p], migLock', mutex')
    BY <1>1, <1>2, <2>6, <2>9, PairFields DEF Knows, Holds, MigrationPcs
  <2>11. pc = "copy" => Copies(job'[p], locator)
    BY <1>1, <2>9, PairFields DEF Copies
  <2>12. Remains => ~Stale(job'[p])
    BY <1>1, <2>6, <2>9, PairFields, ProgramStands DEF Stale, Copies
  <2>13. Starts(p, job'[p]) => Starts(p, job[p])
    BY <1>1, <2>6, <2>9 DEF Starts
  <2> QED
    BY <1>1, <2>6, <2>8, <2>10, <2>11, <2>12, <2>13, QuietPair
<1> QED
  BY <1>2, <1>3, <1>4, <1>5 DEF Copy

LEMMA PairCleanup ==
    ASSUME PairInv, NEW p \in Instances, Cleanup(p)
    PROVE  PairInv'
<1>1. PICK root \in Roots : root = job[p].req.target.root
  BY PairFields, AimFields, LocationFields DEF Cleanup, At, MigrationPcs
<1>2. PICK files : data' = [data EXCEPT ![root] = Cleaned(root, files)]
  BY <1>1 DEF Cleanup
<1>3. data' \in [Roots -> [Files -> Nat]]
  BY <1>1, <1>2, PairFields, CleanedFields
<1>4. faults' \in 0..MaxFaults
  BY PairFields, FaultTypes DEF Cleanup, Fault
<1>5. End(p) /\ UNCHANGED <<locator, version>>
  BY DEF Cleanup
<1> QED
  BY <1>3, <1>4, <1>5, EndsPair

LEMMA PairSave ==
    ASSUME PairInv, NEW p \in Instances, NEW f \in Settings, Save(p, f)
    PROVE  PairInv'
<1>1. /\ job[p].pc = "running" /\ f \in Files
      /\ UNCHANGED <<locator, job, migLock, mutex, faults>>
  BY DEF Save, At, Settings, Files
<1>2. job[p].at # None /\ job[p].at.root \in Roots
  BY <1>1, PairFields DEF Knows, Jobs
<1>3. version' \in Nat /\ data' = [data EXCEPT ![job[p].at.root][f] = version']
  BY PairFields DEF Save, TypeOK
<1>4. data' \in [Roots -> [Files -> Nat]]
  <2>1. PICK c \in Nat : c = version'
    BY <1>3
  <2> QED
    BY <1>1, <1>2, <1>3, <2>1, PairFields, DataSet
<1>5. Leaves(p)
  BY <1>1, <1>3, <1>4, PairFields DEF Leaves, TypeOK
<1> QED
  BY <1>1, <1>5, PairFields, QuietPair

LEMMA PairEnds ==
    ASSUME PairInv, NEW p \in Instances, Quit(p) \/ Kill(p)
    PROVE  PairInv'
<1>1. faults' \in 0..MaxFaults
  BY PairFields, FaultTypes DEF Quit, Kill
<1>2. End(p) /\ UNCHANGED <<locator, data, version>>
  BY DEF Quit, Kill
<1> QED
  BY <1>1, <1>2, PairFields, EndsPair

-----------------------------------------------------------------------------
(* Steps that change a locator *)

LEMMA PairFrom ==
    ASSUME PairInv, NEW p \in Instances, Leaves(p),
           \A l \in Locators : Filed(locator'[l], l),
           Knows(job'[p]), Holds(p, job'[p], migLock', mutex'),
           Removes(job'[p], locator'), Copies(job'[p], locator'),
           \A i \in Instances : i # p => Removes(job[i], locator') /\ Copies(job[i], locator'),
           Apart', Calm'
    PROVE  PairInv'
<1>1. ASSUME NEW i \in Instances
      PROVE  /\ Knows(job'[i]) /\ Holds(i, job'[i], migLock', mutex')
             /\ Removes(job'[i], locator') /\ Copies(job'[i], locator')
  <2>1. CASE i # p
    BY <2>1, HeldByOthers
  <2>2. CASE i = p
    BY <2>2
  <2> QED
    BY <2>1, <2>2
<1>2. \A l \in Locators : Filed(locator[l], l)'
  OBVIOUS
<1> QED
  BY <1>1, <1>2 DEF PairInv, Leaves

\* Nobody is between the two writes while the mutation lock is free, or another's.
LEMMA NobodyRemoves ==
    ASSUME PairInv, NEW i \in Instances, mutex # i
    PROVE  /\ job[i].pc \notin {"commitRemove", "writeRemove"}
           /\ ~Brings(job[i]) /\ Removes(job[i], locator')
<1>1. job[i].pc \notin {"commitRemove", "writeRemove"}
  BY PairFields DEF Holds
<1> QED
  BY <1>1 DEF Brings, Removes

LEMMA NoneIsNobody ==
    ASSUME mutex = None, NEW i \in Instances
    PROVE  mutex # i
BY MigrationAssumption

LEMMA CopyFields ==
    ASSUME PairInv, NEW i \in Instances, job[i].pc = "copy"
    PROVE  /\ Aim(job[i]) \in Locators /\ Pends(locator, Aim(job[i]))
           /\ Aim(job[i]) = "user" => locator["program"] = None
           /\ migLock[Aim(job[i])] = i
BY PairFields, AimFields DEF Copies, Holds, MigrationPcs

\* The locator that another migration does not work on.
LEMMA AimsDiffer ==
    ASSUME PairInv, NEW p \in Instances, NEW i \in Instances, i # p, job[i].pc = "copy",
           job[p].pc \in MigrationPcs \ {"lock"}
    PROVE  Aim(job[i]) # Aim(job[p])
BY CopyFields, PairFields DEF Holds

LEMMA PairDiscard ==
    ASSUME PairInv, NEW p \in Instances, DiscardLegacyLocator(p)
    PROVE  PairInv'
<1>1. CASE End(p) /\ UNCHANGED locator
  <2>1. faults' \in 0..MaxFaults /\ UNCHANGED <<locator, version, data>>
    BY <1>1, PairFields, FaultTypes DEF DiscardLegacyLocator, Fault
  <2> QED
    BY <1>1, <2>1, PairFields, EndsPair
<1>2. CASE /\ mutex = None /\ Discardable(locator[Legacy.locator])
           /\ locator' = [locator EXCEPT ![Legacy.locator] = None]
           /\ Goto(p, "program")
           /\ UNCHANGED <<migLock, mutex, faults>>
  <2>1. PICK l \in Locators : l = Legacy.locator
    BY MigrationAssumption, LocationFields
    DEF DiscardLegacyLocator, LeftByRollback, LegacySeenBy, LegacyFound
  <2>2. locator[l].pending = None
    BY <1>2, <2>1 DEF Discardable
  <2>3. /\ locator' \in [Locators -> States \cup {None}]
        /\ locator'[l] = None
        /\ \A m \in Locators : m # l => locator'[m] = locator[m]
        /\ \A m \in Locators : locator'[m] # None =>
              /\ locator'[m].active.locator = m
              /\ locator'[m].pending = None \/ locator'[m].last = None
    BY <1>2, <2>1, PairFields, LocatorGone
  <2>4. /\ job' \in [Instances -> Jobs] /\ job'[p].pc = "program"
        /\ \A i \in Instances : i # p => job'[i] = job[i]
    <3>1. "program" \in Pcs
      BY DEF Pcs
    <3>2. job' \in [Instances -> Jobs] /\ job'[p].pc = "program"
      BY <1>2, <3>1, PairFields, GotoJob
    <3> QED
      BY <1>2, <3>2, PairFields DEF Goto
  <2>5. Leaves(p)
    BY <1>2, <2>3, <2>4, PairFields DEF Leaves, TypeOK, DiscardLegacyLocator
  <2>6. \A m \in Locators : Filed(locator'[m], m)
    BY <2>3, PairFields DEF PairInv, Filed
  <2>7. \A i \in Instances : Removes(job[i], locator') /\ Copies(job[i], locator')
    <3> SUFFICES ASSUME NEW i \in Instances
                 PROVE  Removes(job[i], locator') /\ Copies(job[i], locator')
      OBVIOUS
    <3>1. Removes(job[i], locator')
      BY <1>2, NoneIsNobody, NobodyRemoves
    <3>2. Copies(job[i], locator')
      BY <2>2, <2>3, CopyFields DEF Copies, Pends, Locators
    <3> QED
      BY <3>1, <3>2
  <2>8. ~Remains'
    <3>1. ~(locator'["program"] # None /\ Pends(locator', "user"))
      BY <2>3 DEF Pends, Locators
    <3>2. \A i \in Instances : ~Brings(job'[i])
      BY <1>2, <2>4, NoneIsNobody, NobodyRemoves DEF Brings
    <3> QED
      BY <3>1, <3>2 DEF Remains
  <2>9. /\ Knows(job'[p]) /\ Holds(p, job'[p], migLock', mutex')
        /\ Removes(job'[p], locator') /\ Copies(job'[p], locator')
    BY <2>4 DEF Knows, Holds, Removes, Copies, MigrationPcs
  <2> QED
    BY <2>5, <2>6, <2>7, <2>8, <2>9, PairFrom DEF Apart, Calm
<1> QED
  BY <1>1, <1>2 DEF DiscardLegacyLocator

LEMMA WrittenIs ==
    ASSUME PairInv, NEW p \in Instances, job[p].pc \in {"write", "writeRemove"}, Written(p)
    PROVE  /\ job' \in [Instances -> Jobs] /\ \A i \in Instances : i # p => job'[i] = job[i]
           /\ Knows(job'[p]) /\ job'[p].pc \in {"write", "program", "running"}
<1>1. /\ job[p].at \in Locations /\ job[p].at # None
      /\ job[p].why \in {"adopt", "select", "verify"}
  BY PairFields, LocationFields DEF Knows
<1>2. CASE job[p].why = "adopt" /\ Call(p, "write", "verify")
  <2>1. "write" \in Pcs /\ "verify" \in Whys
    BY DEF Pcs, Whys
  <2>2. /\ job' \in [Instances -> Jobs] /\ job'[p].pc = "write" /\ job'[p].why = "verify"
        /\ job'[p].at = job[p].at
    BY <1>2, <2>1, PairFields, CallJob
  <2>3. \A i \in Instances : i # p => job'[i] = job[i]
    BY <1>2, PairFields DEF Call
  <2> QED
    BY <1>1, <2>2, <2>3 DEF Knows, MigrationPcs
<1> DEFINE k == [Idle EXCEPT !.pc = "program", !.why = "existing"]
           n == [Idle EXCEPT !.pc = "running", !.at = job[p].at]
<1>3. CASE job[p].why = "select" /\ job' = [job EXCEPT ![p] = k]
  <2>1. "existing" \in Whys /\ 0 \in 0..MaxTries
    BY DEF Whys, MaxTries
  <2>2. k \in Jobs /\ k.pc = "program"
    BY <2>1, FreshRead
  <2> HIDE DEF k
  <2>3. /\ job' \in [Instances -> Jobs] /\ job'[p] = k
        /\ \A i \in Instances : i # p => job'[i] = job[i]
    BY <1>3, <2>2, PairFields
  <2> QED
    BY <2>2, <2>3 DEF Knows, MigrationPcs
<1>4. CASE job' = [job EXCEPT ![p] = n]
  <2>1. n \in Jobs /\ n.pc = "running" /\ n.at = job[p].at
    <3>1. "running" \in Pcs /\ job[p].at \in Places
      BY <1>1, LocationFields DEF Pcs, Places
    <3>2. n \in Jobs
      BY <3>1, IdleIsJob DEF Jobs, Places
    <3> QED
      BY <3>2 DEF Idle
  <2> HIDE DEF n
  <2>2. /\ job' \in [Instances -> Jobs] /\ job'[p] = n
        /\ \A i \in Instances : i # p => job'[i] = job[i]
    BY <1>4, <2>1, PairFields
  <2> QED
    BY <1>1, <2>1, <2>2 DEF Knows, MigrationPcs
<1> QED
  BY <1>1, <1>2, <1>3, <1>4 DEF Written

LEMMA NotWrittenData ==
    ASSUME PairInv, NEW p \in Instances, job[p].pc \in {"write", "writeRemove"}, NotWritten(p)
    PROVE  data' \in [Roots -> [Files -> Nat]] /\ End(p)
<1>1. PICK root \in Roots : root = job[p].at.root
  BY PairFields, LocationFields DEF Knows
<1>2. data' = data \/ data' = [data EXCEPT ![root]["manifest"] = NoFile]
  BY <1>1 DEF NotWritten
<1> QED
  BY <1>1, <1>2, PairFields, DataSet, Contents DEF NotWritten

LEMMA PairWriteActive ==
    ASSUME PairInv, NEW p \in Instances, WriteActive(p)
    PROVE  PairInv'
<1>1. job[p].pc = "write" /\ UNCHANGED version
  BY DEF WriteActive, At
<1>2. PICK a \in Locations, l \in Locators :
         /\ a = job[p].at /\ l = a.locator /\ a # None
         /\ job[p].why \in {"adopt", "select", "verify"}
  BY <1>1, PairFields, LocationFields DEF Knows
<1>3. CASE NotWritten(p) /\ UNCHANGED locator
  <2>1. data' \in [Roots -> [Files -> Nat]] /\ End(p)
    BY <1>1, <1>3, NotWrittenData
  <2>2. faults' \in 0..MaxFaults
    BY PairFields, FaultTypes DEF WriteActive, Fault
  <2> QED
    BY <1>1, <1>3, <2>1, <2>2, EndsPair
<1> DEFINE s == State(a, None, TRUE, None)
<1>4. ASSUME MayWriteActive(a), locator' = [locator EXCEPT ![l] = s],
             \/ locator[Other(l)] = None /\ Written(p) /\ UNCHANGED mutex
             \/ /\ locator[Other(l)] # None
                /\ job' = [job EXCEPT ![p].pc = "writeRemove", ![p].prev = locator[l]]
                /\ mutex' = p,
             UNCHANGED <<data, migLock, faults>>
      PROVE  PairInv'
  <2>1. /\ mutex = None
        /\ Resolved # None => Resolved.pending = None /\ Resolved.active = a
    BY <1>4 DEF MayWriteActive
  <2>2. s \in States /\ s # None /\ s.active = a /\ s.pending = None /\ s.last = None
    <3>1. s \in States
      BY DEF State, States
    <3> QED
      BY <3>1, TypesAssumption DEF State
  <2> HIDE DEF s
  <2>3. /\ locator' \in [Locators -> States \cup {None}]
        /\ locator'[l] = s
        /\ \A m \in Locators : m # l => locator'[m] = locator[m]
        /\ \A m \in Locators : locator'[m] # None =>
              /\ locator'[m].active.locator = m
              /\ locator'[m].pending = None \/ locator'[m].last = None
    BY <1>2, <1>4, <2>2, PairFields, LocatorSet
  <2>4. \A m \in Locators : Filed(locator'[m], m)
    BY <1>2, <2>2, <2>3, PairFields DEF PairInv, Filed
  <2>5. \A i \in Instances : ~Brings(job[i]) /\ Removes(job[i], locator')
    BY <2>1, NoneIsNobody, NobodyRemoves
  <2>6. ASSUME NEW m \in Locators, Pends(locator, m)
        PROVE  m = "user" /\ locator["program"] # None
    BY <2>1, <2>6, PairFields DEF Resolved, Pends, Locators
  <2>7. \A i \in Instances : Copies(job[i], locator')
    BY <2>6, CopyFields DEF Copies
  <2>8. CASE locator[Other(l)] = None /\ Written(p) /\ UNCHANGED mutex
    <3>1. /\ job' \in [Instances -> Jobs] /\ \A i \in Instances : i # p => job'[i] = job[i]
          /\ Knows(job'[p]) /\ job'[p].pc \in {"write", "program", "running"}
      BY <1>1, <2>8, WrittenIs
    <3>2. Leaves(p)
      BY <1>1, <1>4, <2>3, <2>8, <3>1, PairFields DEF Leaves, TypeOK
    <3>3. ~Remains'
      <4>1. locator'["user"] = None \/ locator'["program"] = None \/ ~Pends(locator', "user")
        BY <2>2, <2>3, <2>8, Others DEF Pends, Locators
      <4>2. \A i \in Instances : ~Brings(job'[i])
        BY <2>5, <3>1 DEF Brings
      <4> QED
        BY <4>1, <4>2 DEF Remains, Pends
    <3>4. /\ Holds(p, job'[p], migLock', mutex')
          /\ Removes(job'[p], locator') /\ Copies(job'[p], locator')
      BY <3>1 DEF Holds, Removes, Copies, MigrationPcs
    <3> QED
      BY <2>4, <2>5, <2>7, <3>1, <3>2, <3>3, <3>4, PairFrom DEF Apart, Calm
  <2>9. CASE /\ locator[Other(l)] # None /\ mutex' = p
             /\ job' = [job EXCEPT ![p].pc = "writeRemove", ![p].prev = locator[l]]
    <3>1. /\ l = "program" /\ locator["program"] # None
          /\ locator["program"].pending = None
      <4>1. Resolved # None
        BY <1>2, <2>9, Others DEF Resolved, Locators
      <4>2. Resolved.active.locator = l
        BY <1>2, <2>1, <4>1
      <4>3. CASE locator["program"] = None
        BY <1>2, <2>9, <4>1, <4>2, <4>3, PairFields, Others DEF Resolved, Locators, TypeOK
      <4>4. CASE locator["program"] # None
        BY <2>1, <4>1, <4>2, <4>4, PairFields DEF Resolved, Locators, TypeOK
      <4> QED
        BY <4>3, <4>4
    <3>2. PICK b \in States : b = locator["program"] /\ b.pending = None /\ b # None
                              /\ Filed(b, "program")
      BY <3>1, PairFields DEF PairInv, Locators
    <3>3. Remember(p, "writeRemove", b)
      BY <2>9, <3>1, <3>2 DEF Remember
    <3>4. /\ job' \in [Instances -> Jobs] /\ job'[p].pc = "writeRemove" /\ job'[p].prev = b
          /\ job'[p].why = job[p].why /\ job'[p].at = a
      BY <1>2, <3>3, PairFields, PrevJob DEF Pcs
    <3>5. \A i \in Instances : i # p => job'[i] = job[i]
      BY <2>9, PairFields
    <3>6. Leaves(p)
      BY <1>1, <1>4, <2>1, <2>3, <2>9, <3>4, <3>5, PairFields, NoneIsNobody DEF Leaves, TypeOK
    <3>7. ~Pends(locator', "program") /\ locator'["user"] = locator["user"]
      BY <2>2, <2>3, <3>1 DEF Pends, Locators
    <3>8. /\ ~Stale(job'[p]) /\ ~Starts(p, job'[p]) /\ ~Brings(job'[p])
          /\ Holds(p, job'[p], migLock', mutex') /\ Copies(job'[p], locator')
      BY <2>9, <3>4 DEF Stale, Starts, Brings, Holds, Copies, MigrationPcs
    <3>9. Removes(job'[p], locator') /\ Knows(job'[p])
      BY <1>2, <2>2, <2>3, <3>1, <3>2, <3>4, <3>7 DEF Removes, Knows, MigrationPcs
    <3>10. Remains' => Remains
      BY <2>5, <3>1, <3>5, <3>7, <3>8 DEF Remains, Pends
    <3>11. Apart' /\ Calm'
      BY <3>5, <3>7, <3>8, <3>10 DEF PairInv, Apart, Calm
    <3> QED
      BY <2>4, <2>5, <2>7, <3>6, <3>8, <3>9, <3>11, PairFrom
  <2> QED
    BY <1>4, <2>8, <2>9
<1> QED
  BY <1>2, <1>3, <1>4 DEF WriteActive

LEMMA PairRemoveConflicting ==
    ASSUME PairInv, NEW p \in Instances, RemoveConflicting(p)
    PROVE  PairInv'
<1>1. job[p].pc = "writeRemove" /\ UNCHANGED version /\ mutex = p
  BY PairFields DEF RemoveConflicting, At, Holds
<1>2. /\ job[p].at.locator = "program"
      /\ locator["program"] # None /\ ~Pends(locator, "program")
      /\ job[p].prev # None /\ job[p].prev.pending = None /\ Filed(job[p].prev, "program")
      /\ job[p].prev \in States
  BY <1>1, PairFields DEF Removes, Jobs
<1>3. \A i \in Instances : i # p => ~Brings(job[i]) /\ Removes(job[i], locator')
  BY <1>1, NobodyRemoves
<1>4. \A i \in Instances : Copies(job[i], locator')
  BY <1>2, CopyFields DEF Copies, Locators
<1>5. CASE /\ locator' = [locator EXCEPT !["user"] = None]
           /\ Written(p) /\ mutex' = None
           /\ UNCHANGED <<data, migLock, faults>>
  <2>1. /\ job' \in [Instances -> Jobs] /\ \A i \in Instances : i # p => job'[i] = job[i]
        /\ Knows(job'[p]) /\ job'[p].pc \in {"write", "program", "running"}
    BY <1>1, <1>5, WrittenIs
  <2>2. "user" \in Locators
    BY DEF Locators
  <2>3. /\ locator' \in [Locators -> States \cup {None}]
        /\ locator'["user"] = None
        /\ \A m \in Locators : m # "user" => locator'[m] = locator[m]
        /\ \A m \in Locators : locator'[m] # None =>
              /\ locator'[m].active.locator = m
              /\ locator'[m].pending = None \/ locator'[m].last = None
    BY <1>5, <2>2, PairFields, LocatorGone
  <2>4. \A m \in Locators : Filed(locator'[m], m)
    BY <2>3, PairFields DEF PairInv, Filed
  <2>5. Leaves(p)
    BY <1>1, <1>5, <2>1, <2>3, PairFields DEF Leaves, TypeOK
  <2>6. ~Remains'
    BY <1>3, <2>1, <2>3 DEF Remains, Brings, Pends
  <2>7. /\ Holds(p, job'[p], migLock', mutex')
        /\ Removes(job'[p], locator') /\ Copies(job'[p], locator')
    BY <2>1 DEF Holds, Removes, Copies, MigrationPcs
  <2> QED
    BY <1>3, <1>4, <2>1, <2>4, <2>5, <2>6, <2>7, PairFrom DEF Apart, Calm
<1>6. CASE /\ Fault /\ NotWritten(p)
           /\ locator' \in {locator, [locator EXCEPT !["program"] = job[p].prev]}
  <2>1. /\ locator' \in [Locators -> States \cup {None}]
        /\ locator'["user"] = locator["user"] /\ ~Pends(locator', "program")
        /\ \A m \in Locators : Filed(locator'[m], m)
    <3>1. CASE UNCHANGED locator
      BY <1>2, <3>1, PairFields DEF PairInv
    <3>2. CASE locator' = [locator EXCEPT !["program"] = job[p].prev]
      BY <1>2, <3>2, PairFields DEF PairInv, Locators, Pends
    <3> QED
      BY <1>6, <3>1, <3>2
  <2>2. data' \in [Roots -> [Files -> Nat]] /\ End(p)
    BY <1>1, <1>6, NotWrittenData
  <2>3. faults' \in 0..MaxFaults
    BY <1>6, PairFields, FaultTypes DEF Fault
  <2>4. Leaves(p) /\ job'[p] = Idle
    BY <1>1, <2>1, <2>2, <2>3, PairFields, EndLeaves DEF Leaves, TypeOK, Filed
  <2>5. /\ Knows(job'[p]) /\ Holds(p, job'[p], migLock', mutex')
        /\ ~Stale(job'[p]) /\ ~Starts(p, job'[p]) /\ ~Brings(job'[p])
        /\ Removes(job'[p], locator') /\ Copies(job'[p], locator')
    BY <2>4, IdleKnows
  <2>6. Remains' => Remains
    BY <1>2, <1>3, <2>1, <2>4, <2>5 DEF Remains, Pends, Leaves
  <2>7. Apart' /\ Calm'
    BY <2>1, <2>4, <2>5, <2>6 DEF PairInv, Apart, Calm, Leaves
  <2> QED
    BY <1>3, <1>4, <2>1, <2>4, <2>5, <2>7, PairFrom
<1> QED
  BY <1>2, <1>5, <1>6, Others DEF RemoveConflicting

\* What a commit leaves in the target's locator.
LEMMA ArrivedIs ==
    ASSUME PairInv, NEW p \in Instances, job[p].pc \in MigrationPcs
    PROVE  LET r == job[p].req
               s == State(r.target, None, FALSE, Last(r.tx, "committed")) IN
           s \in States /\ s # None /\ s.active = r.target /\ s.pending = None
<1>1. PICK a \in Locations, t \in Transactions : a = job[p].req.target /\ t = job[p].req.tx
  BY PairFields, AimFields
<1>2. PICK z \in Outcomes : z = Last(t, "committed")
  BY LastFields
<1>3. State(a, None, FALSE, z) \in States
  BY DEF State, States
<1> QED
  BY <1>1, <1>2, <1>3, TypesAssumption DEF State

LEMMA PairCommitInPlace ==
    ASSUME PairInv, NEW p \in Instances, CommitInPlace(p)
    PROVE  PairInv'
<1>1. /\ job[p].pc = "commit" /\ job[p].pc \in MigrationPcs \ {"lock"}
      /\ mutex = None /\ PendingIs(job[p].req) /\ Succeed(p)
      /\ UNCHANGED <<data, version, mutex, faults>>
  BY DEF CommitInPlace, At, MigrationPcs
<1>2. PICK l \in Locators : /\ l = Aim(job[p]) /\ job[p].req.target.locator = l
                            /\ Pends(locator, l)
  BY <1>1, PairFields, AimFields DEF CommitInPlace, Aim, PendingIs, Pends
<1>3. PICK s \in States : /\ s # None /\ s.active.locator = l /\ s.pending = None
                          /\ locator' = [locator EXCEPT ![l] = s]
  BY <1>1, <1>2, ArrivedIs DEF CommitInPlace
<1>4. /\ locator' \in [Locators -> States \cup {None}]
      /\ locator'[l] = s
      /\ \A m \in Locators : m # l => locator'[m] = locator[m]
      /\ \A m \in Locators : locator'[m] # None =>
            /\ locator'[m].active.locator = m
            /\ locator'[m].pending = None \/ locator'[m].last = None
  BY <1>3, PairFields, LocatorSet
<1>5. \A m \in Locators : Filed(locator'[m], m)
  BY <1>3, <1>4, PairFields DEF PairInv, Filed
<1>6. \A i \in Instances : ~Brings(job[i]) /\ Removes(job[i], locator')
  BY <1>1, NoneIsNobody, NobodyRemoves
<1>7. ASSUME NEW i \in Instances, i # p PROVE Copies(job[i], locator')
  <2> SUFFICES ASSUME job[i].pc = "copy" PROVE Copies(job[i], locator')
    BY DEF Copies
  <2>1. /\ Aim(job[i]) \in Locators /\ Aim(job[i]) # l /\ Pends(locator, Aim(job[i]))
        /\ Aim(job[i]) = "user" => locator["program"] = None
    BY <1>1, <1>2, <1>7, CopyFields, AimsDiffer
  <2> QED
    BY <1>2, <1>4, <2>1 DEF Copies, Pends, Locators
<1>8. /\ job' \in [Instances -> Jobs] /\ job'[p].pc = "program"
      /\ \A i \in Instances : i # p => job'[i] = job[i]
      /\ migLock' \in [Locators -> Instances \cup {None}]
      /\ \A i \in Instances, m \in Locators : i # p /\ migLock[m] = i => migLock'[m] = i
  BY <1>1, SucceedIs
<1>9. Leaves(p)
  BY <1>1, <1>4, <1>8, PairFields DEF Leaves, TypeOK
<1>10. /\ Knows(job'[p]) /\ Holds(p, job'[p], migLock', mutex')
       /\ Removes(job'[p], locator') /\ Copies(job'[p], locator') /\ ~Stale(job'[p])
  BY <1>8 DEF Knows, Holds, Removes, Copies, Stale, MigrationPcs
<1>11. ASSUME Remains' PROVE ~Pends(locator', "program") /\ \A i \in Instances : ~Stale(job'[i])
  <2>1. locator'["program"] # None /\ Pends(locator', "user")
    BY <1>6, <1>8, <1>11 DEF Remains, Brings
  <2>2. l = "program"
    BY <1>3, <1>4, <2>1 DEF Pends, Locators
  <2>3. Remains /\ Pends(locator, "program")
    BY <1>2, <1>4, <2>1, <2>2 DEF Remains, Pends, Locators
  <2>4. \A i \in Instances : ~Stale(job[i])
    BY <2>3 DEF PairInv, Calm
  <2> QED
    BY <1>3, <1>4, <1>8, <1>10, <2>2, <2>4 DEF Pends
<1> QED
  BY <1>5, <1>6, <1>7, <1>9, <1>10, <1>11, PairFrom DEF Apart, Calm

LEMMA PairCommitTarget ==
    ASSUME PairInv, NEW p \in Instances, NEW q \in Instances, Instances = {p, q}, CommitTarget(p)
    PROVE  PairInv'
<1>1. /\ job[p].pc = "commit" /\ job[p].pc \in MigrationPcs \ {"lock"}
      /\ mutex = None /\ PendingIs(job[p].req) /\ mutex' = p
      /\ UNCHANGED <<data, version, migLock, faults>>
  BY DEF CommitTarget, At, MigrationPcs
<1>2. PICK c \in Locators, l \in Locators :
         /\ c = Aim(job[p]) /\ l = job[p].req.target.locator /\ c # l /\ Pends(locator, c)
  BY <1>1, PairFields, AimFields DEF CommitTarget, Aim, PendingIs, Pends
<1>3. PICK s \in States : /\ s # None /\ s.active.locator = l /\ s.pending = None
                          /\ locator' = [locator EXCEPT ![l] = s]
  BY <1>1, <1>2, ArrivedIs DEF CommitTarget
<1>4. /\ locator' \in [Locators -> States \cup {None}]
      /\ locator'[l] = s
      /\ \A m \in Locators : m # l => locator'[m] = locator[m]
      /\ \A m \in Locators : locator'[m] # None =>
            /\ locator'[m].active.locator = m
            /\ locator'[m].pending = None \/ locator'[m].last = None
  BY <1>3, PairFields, LocatorSet
<1>5. \A m \in Locators : Filed(locator'[m], m)
  BY <1>3, <1>4, PairFields DEF PairInv, Filed
<1>6. \A i \in Instances : ~Brings(job[i]) /\ Removes(job[i], locator')
  BY <1>1, NoneIsNobody, NobodyRemoves
\* A commit of what the user's locator has pending overwrites no pending migration.
<1>7. l = "program" => ~Pends(locator, "program")
  <2> SUFFICES ASSUME l = "program", Pends(locator, "program") PROVE FALSE
    OBVIOUS
  <2>1. c = "user"
    BY <1>2 DEF Locators
  <2>2. Remains /\ Stale(job[p])
    BY <1>1, <1>2, <2>1 DEF Remains, Pends, Stale
  <2> QED
    BY <2>2 DEF PairInv, Calm
<1>8. ASSUME NEW i \in Instances, i # p PROVE job[i].pc # "copy"
  <2> SUFFICES ASSUME job[i].pc = "copy" PROVE FALSE
    OBVIOUS
  <2>1. /\ Aim(job[i]) = l /\ Pends(locator, l)
        /\ l = "user" => locator["program"] = None
    BY <1>1, <1>2, <1>8, CopyFields, AimsDiffer DEF Locators
  <2> QED
    BY <1>2, <1>7, <2>1 DEF Pends, Locators
<1>9. PICK b \in States \cup {None} : b = locator[l] /\ Filed(b, l)
  BY PairFields DEF PairInv
<1>10. /\ job' \in [Instances -> Jobs] /\ job'[p].pc = "commitRemove" /\ job'[p].prev = b
       /\ job'[p].req = job[p].req
       /\ \A i \in Instances : i # p => job'[i] = job[i]
  <2>1. Remember(p, "commitRemove", b) /\ "commitRemove" \in Pcs
    BY <1>2, <1>9 DEF CommitTarget, Remember, Pcs
  <2>2. /\ job' \in [Instances -> Jobs] /\ job'[p].pc = "commitRemove" /\ job'[p].prev = b
        /\ job'[p].req = job[p].req
    BY <2>1, PairFields, PrevJob
  <2> QED
    BY <2>1, <2>2, PairFields DEF Remember
<1>11. Leaves(p)
  BY <1>1, <1>4, <1>10, PairFields, NoneIsNobody DEF Leaves, TypeOK
<1>12. Aim(job'[p]) = c /\ job'[p].req # None
  BY <1>1, <1>2, <1>10, PairFields DEF Aim, Knows
<1>13. Knows(job'[p]) /\ Holds(p, job'[p], migLock', mutex') /\ Copies(job'[p], locator')
  BY <1>1, <1>2, <1>10, <1>12, PairFields DEF Knows, Holds, Copies, MigrationPcs
<1>14. Pends(locator', c) /\ ~Pends(locator', l) /\ locator'[l] # None
  BY <1>2, <1>3, <1>4 DEF Pends
<1>15. Removes(job'[p], locator')
  BY <1>2, <1>7, <1>9, <1>10, <1>12, <1>14 DEF Removes, Pends
<1>16. ~Stale(job'[p])
  BY <1>10 DEF Stale
<1>17. CASE l = "program"
  <2>1. ~Starts(p, job'[p]) /\ ~Pends(locator', "program")
    BY <1>2, <1>10, <1>12, <1>14, <1>17 DEF Starts, MigrationPcs
  <2>2. Apart' /\ Calm'
    BY <1>16, <2>1 DEF Apart, Calm
  <2> QED
    BY <1>5, <1>6, <1>8, <1>11, <1>13, <1>15, <2>2, PairFrom DEF Copies
<1>18. CASE l = "user"
  <2>1. ASSUME Remains' PROVE \A i \in Instances : ~Stale(job'[i])
    <3>1. Brings(job'[p])
      BY <1>6, <1>10, <1>14, <1>18, <2>1 DEF Remains
    <3>2. Pends(locator, "user")
      BY <1>9, <1>10, <1>18, <3>1 DEF Brings, Pends
    <3>3. Pends(locator, "program")
      BY <1>2, <1>18 DEF Locators
    <3>4. \A i \in Instances : ~Stale(job[i])
      BY <3>2, <3>3 DEF PairInv, Calm, Remains, Pends
    <3> QED
      BY <1>10, <1>16, <3>4
  <2> QED
    BY <1>5, <1>6, <1>8, <1>11, <1>13, <1>15, <2>1, PairFrom DEF Copies, Apart, Calm
<1> QED
  BY <1>17, <1>18 DEF Locators

LEMMA PairCommitRemoveSource ==
    ASSUME PairInv, NEW p \in Instances, CommitRemoveSource(p)
    PROVE  PairInv'
<1>1. /\ job[p].pc = "commitRemove" /\ job[p].pc \in MigrationPcs \ {"lock"}
      /\ mutex = p /\ mutex' = None
      /\ UNCHANGED <<data, version>>
  BY PairFields DEF CommitRemoveSource, At, MigrationPcs, Holds
<1>2. PICK c \in Locators, l \in Locators :
         /\ c = Aim(job[p]) /\ l = job[p].req.target.locator /\ c # l
         /\ Pends(locator, c) /\ ~Pends(locator, l) /\ locator[l] # None
  BY <1>1, PairFields, AimFields DEF Removes
<1>3. PICK b \in States \cup {None} :
         /\ b = job[p].prev /\ Filed(b, l)
         /\ l = "program" /\ b # None => b.pending = None
  BY <1>1, <1>2, PairFields DEF Removes, Jobs
<1>4. \A i \in Instances : i # p => ~Brings(job[i]) /\ Removes(job[i], locator')
  BY <1>1, NobodyRemoves
<1>5. ASSUME NEW i \in Instances PROVE job[i].pc # "copy"
  <2> SUFFICES ASSUME job[i].pc = "copy" PROVE FALSE
    OBVIOUS
  <2>1. i # p
    BY <1>1
  <2>2. Aim(job[i]) \in Locators /\ Aim(job[i]) # c /\ Pends(locator, Aim(job[i]))
    BY <1>1, <1>2, <2>1, CopyFields, AimsDiffer
  <2> QED
    BY <1>2, <2>2 DEF Locators
<1>6. CASE /\ locator' = [locator EXCEPT ![c] = None]
           /\ Succeed(p) /\ UNCHANGED faults
  <2>1. /\ locator' \in [Locators -> States \cup {None}]
        /\ locator'[c] = None
        /\ \A m \in Locators : m # c => locator'[m] = locator[m]
        /\ \A m \in Locators : locator'[m] # None =>
              /\ locator'[m].active.locator = m
              /\ locator'[m].pending = None \/ locator'[m].last = None
    BY <1>6, PairFields, LocatorGone
  <2>2. \A m \in Locators : Filed(locator'[m], m)
    BY <2>1, PairFields DEF PairInv, Filed
  <2>3. /\ job' \in [Instances -> Jobs] /\ job'[p].pc = "program"
        /\ \A i \in Instances : i # p => job'[i] = job[i]
        /\ migLock' \in [Locators -> Instances \cup {None}]
        /\ \A i \in Instances, m \in Locators : i # p /\ migLock[m] = i => migLock'[m] = i
    BY <1>1, <1>6, SucceedIs
  <2>4. Leaves(p)
    BY <1>1, <1>6, <2>1, <2>3, PairFields DEF Leaves, TypeOK
  <2>5. /\ Knows(job'[p]) /\ Holds(p, job'[p], migLock', mutex')
        /\ Removes(job'[p], locator') /\ Copies(job'[p], locator')
    BY <2>3 DEF Knows, Holds, Removes, Copies, MigrationPcs
  <2>6. ~Remains'
    <3>1. ~(locator'["program"] # None /\ Pends(locator', "user"))
      BY <1>2, <2>1 DEF Pends, Locators
    <3>2. \A i \in Instances : ~Brings(job'[i])
      BY <1>4, <2>3 DEF Brings
    <3> QED
      BY <3>1, <3>2 DEF Remains
  <2> QED
    BY <1>4, <1>5, <2>2, <2>4, <2>5, <2>6, PairFrom DEF Copies, Apart, Calm
<1>7. CASE /\ locator' = locator \/ locator' = [locator EXCEPT ![l] = b]
           /\ Fault /\ Goto(p, "commitFailed") /\ UNCHANGED migLock
  <2>1. faults' \in 0..MaxFaults
    BY <1>7, PairFields, FaultTypes DEF Fault
  <2>2. /\ locator' \in [Locators -> States \cup {None}]
        /\ locator'[c] = locator[c] /\ locator'[l] \in {locator[l], b}
        /\ \A m \in Locators : Filed(locator'[m], m)
    BY <1>2, <1>3, <1>7, PairFields DEF PairInv
  <2>3. /\ job' \in [Instances -> Jobs] /\ job'[p].pc = "commitFailed"
        /\ job'[p].req = job[p].req
        /\ \A i \in Instances : i # p => job'[i] = job[i]
    <3>1. "commitFailed" \in Pcs
      BY DEF Pcs
    <3>2. job' \in [Instances -> Jobs] /\ job'[p].pc = "commitFailed"
          /\ job'[p].req = job[p].req
      BY <1>7, <3>1, PairFields, GotoJob
    <3> QED
      BY <1>7, <3>2, PairFields DEF Goto
  <2>4. Leaves(p)
    BY <1>1, <1>7, <2>1, <2>2, <2>3, PairFields DEF Leaves, TypeOK, Filed
  <2>5. Aim(job'[p]) = c /\ job'[p].req # None
    BY <1>1, <1>2, <2>3, PairFields DEF Aim, Knows
  <2>6. /\ Knows(job'[p]) /\ Holds(p, job'[p], migLock', mutex')
        /\ Removes(job'[p], locator') /\ Copies(job'[p], locator')
        /\ ~Stale(job'[p]) /\ ~Brings(job'[p])
    BY <1>1, <1>2, <1>7, <2>3, <2>5, PairFields
    DEF Knows, Holds, Removes, Copies, Stale, Brings, MigrationPcs
  <2>7. \A i \in Instances : ~Brings(job'[i])
    BY <1>4, <2>3, <2>6
  <2>8. CASE l = "program"
    <3>1. ~Pends(locator', "program")
      BY <1>2, <1>3, <2>2, <2>8 DEF Pends
    <3>2. ~Starts(p, job'[p])
      BY <1>2, <2>3, <2>5, <2>8 DEF Starts, MigrationPcs
    <3>3. Remains
      BY <1>2, <2>8 DEF Remains, Locators
    <3>4. Apart'
      BY <2>3, <2>6, <3>2, <3>3 DEF PairInv, Apart
    <3> QED
      BY <1>4, <1>5, <2>2, <2>4, <2>6, <3>1, <3>4, PairFrom DEF Copies, Calm
  <2>9. CASE l = "user"
    <3>1. ASSUME Remains' PROVE \A i \in Instances : ~Stale(job'[i])
      <4>1. Pends(locator', "user")
        BY <2>7, <3>1 DEF Remains
      <4>2. Brings(job[p])
        BY <1>1, <1>2, <1>3, <2>2, <2>9, <4>1 DEF Brings, Pends
      <4>3. Remains /\ Pends(locator, "program")
        BY <1>2, <2>9, <4>2 DEF Remains, Locators
      <4>4. \A i \in Instances : ~Stale(job[i])
        BY <4>3 DEF PairInv, Calm
      <4> QED
        BY <2>3, <2>6, <4>4
    <3> QED
      BY <1>4, <1>5, <2>2, <2>4, <2>6, <3>1, PairFrom DEF Copies, Apart, Calm
  <2> QED
    BY <2>8, <2>9 DEF Locators
<1> QED
  BY <1>2, <1>3, <1>6, <1>7 DEF CommitRemoveSource, Aim

LEMMA PairRollbackPending ==
    ASSUME PairInv, NEW p \in Instances, RollbackPending(p)
    PROVE  PairInv'
<1>1. /\ job[p].pc = "rollback" /\ job[p].pc \in MigrationPcs \ {"lock"}
      /\ mutex = None /\ PendingIs(job[p].req) /\ RolledBack(p)
      /\ UNCHANGED <<data, version, mutex, faults>>
  BY DEF RollbackPending, At, MigrationPcs
<1>2. PICK r \in Requests, c \in Locators :
         /\ r = job[p].req /\ c = Aim(job[p]) /\ c = r.source.locator
         /\ r.source \in Locations /\ r.tx \in Transactions
         /\ Pends(locator, c)
  BY <1>1, PairFields, AimFields DEF Aim, PendingIs, Pends
<1>3. PICK s \in States \cup {None} :
         /\ s # None => s.active.locator = c /\ s.pending = None
         /\ locator' = [locator EXCEPT ![c] = s]
  <2>1. PICK v \in BOOLEAN : v = locator[c].verified
    BY <1>2, PairFields DEF Pends, States
  <2>2. PICK z \in Outcomes : z = Last(r.tx, "rolledBack")
    BY <1>2, LastFields
  <2>3. PICK b \in States : b = State(r.source, None, v, z)
    BY <1>2 DEF State, States
  <2>4. b.active = r.source /\ b.pending = None
    BY <2>3 DEF State
  <2>5. locator' = [locator EXCEPT ![c] = b] \/ locator' = [locator EXCEPT ![c] = None]
    BY <1>2, <2>1, <2>2, <2>3 DEF RollbackPending
  <2> QED
    BY <1>2, <2>4, <2>5
<1>4. /\ locator' \in [Locators -> States \cup {None}]
      /\ locator'[c] = s
      /\ \A m \in Locators : m # c => locator'[m] = locator[m]
  BY <1>3, PairFields
<1>5. \A m \in Locators : Filed(locator'[m], m)
  BY <1>3, <1>4, PairFields DEF PairInv, Filed
<1>6. \A i \in Instances : ~Brings(job[i]) /\ Removes(job[i], locator')
  BY <1>1, NoneIsNobody, NobodyRemoves
<1>7. ASSUME NEW i \in Instances, i # p PROVE Copies(job[i], locator')
  <2> SUFFICES ASSUME job[i].pc = "copy" PROVE Copies(job[i], locator')
    BY DEF Copies
  <2>1. /\ Aim(job[i]) \in Locators /\ Aim(job[i]) # c /\ Pends(locator, Aim(job[i]))
        /\ Aim(job[i]) = "user" => locator["program"] = None
    BY <1>1, <1>2, <1>7, CopyFields, AimsDiffer
  <2> QED
    BY <1>2, <1>4, <2>1 DEF Copies, Pends, Locators
<1>8. /\ job' \in [Instances -> Jobs] /\ job'[p].req = r
      /\ job'[p].pc = "cleanup" \/ (job'[p].pc = "lock" /\ job'[p].why = "execute")
      /\ job'[p].pc = "cleanup" => migLock' = migLock
      /\ \A i \in Instances : i # p => job'[i] = job[i]
      /\ migLock' \in [Locators -> Instances \cup {None}]
      /\ \A i \in Instances, m \in Locators : i # p /\ migLock[m] = i => migLock'[m] = i
  <2>1. CASE job[p].why = "recover"
    BY <1>1, <1>2, <2>1, RolledBackIs
  <2>2. CASE job[p].why # "recover"
    <3>1. Goto(p, "cleanup") /\ UNCHANGED migLock /\ "cleanup" \in Pcs
      BY <1>1, <2>2 DEF RolledBack, Pcs
    <3>2. job' \in [Instances -> Jobs] /\ job'[p].pc = "cleanup" /\ job'[p].req = r
      BY <1>2, <3>1, PairFields, GotoJob
    <3>3. \A i \in Instances : i # p => job'[i] = job[i]
      BY <3>1, PairFields DEF Goto
    <3>4. migLock' \in [Locators -> Instances \cup {None}]
      BY <3>1, PairFields DEF TypeOK
    <3> QED
      BY <3>1, <3>2, <3>3, <3>4
  <2> QED
    BY <2>1, <2>2
<1>9. Leaves(p)
  BY <1>1, <1>4, <1>5, <1>8, PairFields DEF Leaves, TypeOK, Filed
<1>10. /\ Knows(job'[p]) /\ Removes(job'[p], locator') /\ Copies(job'[p], locator')
       /\ ~Stale(job'[p])
  BY <1>1, <1>2, <1>8, PairFields DEF Knows, Removes, Copies, Stale, MigrationPcs
<1>11. Holds(p, job'[p], migLock', mutex')
  <2>1. Aim(job'[p]) = c /\ migLock[c] = p
    BY <1>1, <1>2, <1>8, PairFields DEF Aim, Holds
  <2> QED
    BY <1>8, <2>1 DEF Holds
<1>12. ASSUME Remains' PROVE \A i \in Instances : ~Stale(job'[i])
  <2>1. locator'["program"] # None /\ Pends(locator', "user")
    BY <1>6, <1>8, <1>12 DEF Remains, Brings
  <2>2. c = "program"
    BY <1>3, <1>4, <2>1 DEF Pends, Locators
  <2>3. Remains /\ Pends(locator, "program")
    BY <1>2, <1>4, <2>1, <2>2 DEF Remains, Pends, Locators
  <2>4. \A i \in Instances : ~Stale(job[i])
    BY <2>3 DEF PairInv, Calm
  <2> QED
    BY <1>8, <1>10, <2>4
<1> QED
  BY <1>5, <1>6, <1>7, <1>9, <1>10, <1>11, <1>12, PairFrom DEF Apart, Calm

\* A migration becomes pending: the locator it starts from is the one that counts.
LEMMA PairPended ==
    ASSUME PairInv, NEW r \in Requests, NEW c \in Locators, c = r.source.locator,
           r.source \in Locations, MayWritePending(r), ~PendingIs(r),
           locator' = PendingWritten(r)
    PROVE  /\ locator' \in [Locators -> States \cup {None}]
           /\ Pends(locator', c)
           /\ \A m \in Locators : m # c => locator'[m] = locator[m]
           /\ \A m \in Locators : Filed(locator'[m], m)
           /\ ~Pends(locator, c)
           /\ c = "user" => locator'["program"] = None
           /\ c = "program" /\ Pends(locator, "user") => locator["program"] # None
           /\ \A i \in Instances :
                 job[i].pc # "copy" /\ Removes(job[i], locator') /\ ~Brings(job[i])
<1>1. mutex = None /\ (Resolved # None => Resolved.active = r.source)
  BY DEF MayWritePending
<1>2. ~Pends(locator, c) /\ (locator[c] = None => Resolved = None)
  BY DEF MayWritePending, PendingIs, Pends
<1>3. PICK b \in BOOLEAN : b = (locator[c] # None)
  OBVIOUS
<1>4. PICK v \in BOOLEAN : v = (locator[c] # None /\ locator[c].verified)
  OBVIOUS
<1>5. PICK q \in Requests : q = [r EXCEPT !.existed = b]
  BY SameIsSame
<1>6. PICK s \in States : s = State(r.source, q, v, None)
  BY <1>5, PendingState
<1>7. /\ s # None /\ s.active = r.source /\ s.pending = q /\ s.last = None
      /\ q # None /\ q.source = r.source
  BY <1>5, <1>6, PendingState
<1>8. locator' = [locator EXCEPT ![c] = s]
  BY <1>3, <1>4, <1>5, <1>6 DEF PendingWritten
<1>9. /\ locator' \in [Locators -> States \cup {None}]
      /\ locator'[c] = s
      /\ \A m \in Locators : m # c => locator'[m] = locator[m]
  BY <1>7, <1>8, LocatorSet DEF PairInv
<1>10. \A m \in Locators : Filed(locator'[m], m)
  BY <1>7, <1>9 DEF PairInv, Filed
<1>11. c = "user" => locator["program"] = None
  <2> SUFFICES ASSUME c = "user", locator["program"] # None PROVE FALSE
    OBVIOUS
  <2>1. Resolved # None /\ Resolved.active.locator = "program"
    BY DEF PairInv, Filed, Resolved, Locators
  <2> QED
    BY <1>1, <2>1
<1>12. c = "program" /\ Pends(locator, "user") => locator["program"] # None
  BY <1>2 DEF Resolved, Pends
<1>13. ASSUME NEW i \in Instances
       PROVE  job[i].pc # "copy" /\ Removes(job[i], locator') /\ ~Brings(job[i])
  <2>1. job[i].pc # "copy"
    BY <1>2, <1>11, <1>12, CopyFields DEF Pends, Locators
  <2> QED
    BY <1>1, <2>1, NoneIsNobody, NobodyRemoves
<1> QED
  BY <1>2, <1>7, <1>9, <1>10, <1>11, <1>12, <1>13 DEF Pends, Locators

\* Then nobody may commit what the user's locator has pending.
LEMMA PendedCalm ==
    ASSUME PairInv, NEW p \in Instances, NEW c \in Locators,
           \A m \in Locators : m # c => locator'[m] = locator[m],
           c = "user" => locator'["program"] = None,
           c = "program" /\ Pends(locator, "user") => locator["program"] # None,
           \A i \in Instances : ~Brings(job'[i]),
           \A i \in Instances : i # p => job'[i] = job[i],
           c = "program" => Starts(p, job[p]) /\ ~Stale(job'[p])
    PROVE  Apart' /\ Calm'
<1>1. ASSUME Remains' PROVE \A i \in Instances : ~Stale(job'[i])
  <2>1. locator'["program"] # None /\ Pends(locator', "user")
    BY <1>1 DEF Remains
  <2>2. c = "program"
    BY <2>1 DEF Locators
  <2>3. Remains
    BY <2>1, <2>2 DEF Remains, Pends, Locators
  <2> QED
    BY <2>2, <2>3 DEF PairInv, Apart
<1> QED
  BY <1>1 DEF Apart, Calm

LEMMA PairWritePending ==
    ASSUME PairInv, NEW p \in Instances, WritePending(p)
    PROVE  PairInv'
<1>1. /\ job[p].pc = "pend" /\ job[p].pc \in MigrationPcs \ {"lock"}
      /\ UNCHANGED <<data, version>>
  BY DEF WritePending, At, MigrationPcs
<1>2. PICK r \in Requests, c \in Locators :
         /\ r = job[p].req /\ r # None /\ c = Aim(job[p]) /\ c = r.source.locator
         /\ r.source \in Locations
  BY <1>1, PairFields, AimFields DEF Aim
<1>3. CASE End(p) /\ UNCHANGED locator
  <2>1. faults' \in 0..MaxFaults
    BY PairFields, FaultTypes DEF WritePending, Fault
  <2> QED
    BY <1>1, <1>3, <2>1, PairFields, EndsPair
<1>4. CASE /\ MayWritePending(r) /\ locator' = PendingWritten(r)
           /\ Goto(p, IF ~SameRoot(r) THEN "copy"
                      ELSE IF Complete(r.target.root) THEN "commit" ELSE "rollback")
           /\ UNCHANGED <<migLock, mutex, faults>>
  <2>1. PICK pc \in {"copy", "commit", "rollback"} : Goto(p, pc) /\ pc \in Pcs
    BY <1>4 DEF Pcs
  <2>2. /\ job' \in [Instances -> Jobs] /\ job'[p].pc = pc /\ job'[p].req = r
        /\ \A i \in Instances : i # p => job'[i] = job[i]
    <3>1. job' \in [Instances -> Jobs] /\ job'[p].pc = pc /\ job'[p].req = r
      BY <1>2, <2>1, PairFields, GotoJob
    <3> QED
      BY <2>1, <3>1, PairFields DEF Goto
  <2>3. Aim(job'[p]) = c
    BY <1>2, <2>2 DEF Aim
  <2>4. Knows(job'[p]) /\ Holds(p, job'[p], migLock', mutex')
    BY <1>1, <1>2, <1>4, <2>2, <2>3, PairFields DEF Knows, Holds, MigrationPcs
  <2>5. Starts(p, job'[p]) => Starts(p, job[p])
    BY <1>1, <1>2, <2>2, <2>3 DEF Starts, MigrationPcs
  <2>6. CASE PendingIs(r)
    <3>1. UNCHANGED locator /\ Pends(locator, c)
      BY <1>2, <1>4, <2>6 DEF PendingWritten, PendingIs, Pends
    <3>2. c = "user" => locator["program"] = None
      <4> SUFFICES ASSUME c = "user", locator["program"] # None PROVE FALSE
        OBVIOUS
      <4>1. Resolved # None /\ Resolved.active.locator = "program"
        BY PairFields DEF PairInv, Filed, Resolved, Locators
      <4> QED
        BY <1>2, <1>4, <4>1 DEF MayWritePending
    <3>3. Leaves(p)
      BY <1>1, <1>4, <2>2, <3>1, PairFields, MoveLeaves
    <3>4. Copies(job'[p], locator)
      BY <2>3, <3>1, <3>2 DEF Copies
    <3>5. Remains => ~Stale(job'[p])
      BY <2>2, <2>3, <3>2, ProgramStands DEF Stale
    <3> QED
      BY <2>2, <2>4, <2>5, <3>1, <3>3, <3>4, <3>5, QuietPair
  <2>7. CASE ~PendingIs(r)
    <3>1. /\ locator' \in [Locators -> States \cup {None}]
          /\ Pends(locator', c)
          /\ \A m \in Locators : m # c => locator'[m] = locator[m]
          /\ \A m \in Locators : Filed(locator'[m], m)
          /\ c = "user" => locator'["program"] = None
          /\ c = "program" /\ Pends(locator, "user") => locator["program"] # None
          /\ \A i \in Instances :
                job[i].pc # "copy" /\ Removes(job[i], locator') /\ ~Brings(job[i])
      BY <1>2, <1>4, <2>7, PairPended
    <3>2. Leaves(p)
      BY <1>1, <1>4, <2>2, <3>1, PairFields DEF Leaves, TypeOK, Filed
    <3>3. Removes(job'[p], locator') /\ Copies(job'[p], locator') /\ ~Brings(job'[p])
      BY <2>2, <2>3, <3>1 DEF Removes, Copies, Brings
    <3>4. \A i \in Instances : ~Brings(job'[i])
      BY <2>2, <3>1, <3>3
    <3>5. c = "program" => Starts(p, job[p]) /\ ~Stale(job'[p])
      BY <1>1, <1>2, <2>2, <2>3 DEF Starts, Stale
    <3>6. Apart' /\ Calm'
      BY <2>2, <3>1, <3>4, <3>5, PendedCalm
    <3> QED
      BY <2>4, <3>1, <3>2, <3>3, <3>6, PairFrom DEF Copies
  <2> QED
    BY <2>6, <2>7
<1> QED
  BY <1>2, <1>3, <1>4 DEF WritePending

LEMMA PairSchedule ==
    ASSUME PairInv, NewTransaction \in Transactions, NEW p \in Instances, NEW d \in Choices,
           Schedule(p, d)
    PROVE  PairInv'
<1>1. /\ job[p].pc = "running" /\ p \notin Greps
      /\ UNCHANGED <<data, version, job, migLock, mutex, faults>>
      /\ Resolved # None /\ Resolved.active = job[p].at /\ Resolved.pending = None
  BY DEF Schedule, At
<1>2. PICK c \in Locators : /\ c = job[p].at.locator /\ job[p].at \in Locations
                            /\ locator[c] = Resolved
  <2>1. PICK l \in Locators : Resolved = locator[l]
    BY DEF Resolved, Locators
  <2>2. /\ Resolved \in States /\ Resolved.active.locator = l
    BY <1>1, <2>1, PairFields DEF PairInv, Filed
  <2>3. Resolved.active \in Locations
    BY <2>2 DEF States
  <2> QED
    BY <1>1, <2>1, <2>2, <2>3
<1>3. PICK r \in Requests : /\ r = Request(NewTransaction, job[p].at, d, FALSE)
                            /\ r.source = job[p].at
  <2>1. PICK t \in Transactions : t = NewTransaction
    OBVIOUS
  <2>2. d \in Locations /\ FALSE \in BOOLEAN
    BY MigrationAssumption
  <2>3. PICK a \in Locations : a = job[p].at
    BY <1>2
  <2>4. Request(t, a, d, FALSE) \in Requests /\ Request(t, a, d, FALSE).source = a
    BY <2>2, RequestFields
  <2> QED
    BY <2>1, <2>3, <2>4
<1>4. MayWritePending(r) /\ locator' = PendingWritten(r)
  BY <1>3 DEF Schedule
<1>5. ~PendingIs(r)
  BY <1>1, <1>2, <1>3 DEF PendingIs
<1>6. /\ locator' \in [Locators -> States \cup {None}]
      /\ \A m \in Locators : m # c => locator'[m] = locator[m]
      /\ \A m \in Locators : Filed(locator'[m], m)
      /\ c = "user" => locator'["program"] = None
      /\ c = "program" /\ Pends(locator, "user") => locator["program"] # None
      /\ \A i \in Instances :
            job[i].pc # "copy" /\ Removes(job[i], locator') /\ ~Brings(job[i])
  BY <1>2, <1>3, <1>4, <1>5, PairPended
<1>7. Leaves(p)
  BY <1>1, <1>6, PairFields DEF Leaves, TypeOK, Filed
<1>8. c = "program" => Starts(p, job[p]) /\ ~Stale(job[p])
  BY <1>1, <1>2 DEF Starts, Stale
<1>9. Apart' /\ Calm'
  BY <1>1, <1>6, <1>8, PendedCalm
<1> QED
  BY <1>1, <1>6, <1>7, <1>9, PairFields, PairFrom DEF Copies

-----------------------------------------------------------------------------
(* What two processes keep *)

LEMMA PairStart ==
    ASSUME AtRest, Init
    PROVE  PairInv
<1>1. \A i \in Instances : job[i] = Idle
  BY DEF Init
<1>2. job \in [Instances -> Jobs]
  BY IdleIsJob DEF Init
<1>3. locator \in [Locators -> States \cup {None}]
  BY TypesAssumption DEF Init
<1>4. data \in [Roots -> [Files -> Nat]]
  BY MigrationAssumption DEF Init
<1>5. \A l \in Locators : locator[l] # None =>
         locator[l].active.locator = l /\ locator[l].pending = None
  BY DEF Init, AtRest
<1>6. TypeOK
  BY <1>2, <1>3, <1>4, <1>5, MigrationAssumption DEF TypeOK, Init
<1>7. \A l \in Locators : Filed(locator[l], l)
  BY <1>5 DEF Filed
<1>8. \A i \in Instances :
         /\ Knows(job[i]) /\ Holds(i, job[i], migLock, mutex)
         /\ Removes(job[i], locator) /\ Copies(job[i], locator) /\ ~Brings(job[i])
  <2> SUFFICES ASSUME NEW i \in Instances
               PROVE  /\ Knows(job[i]) /\ Holds(i, job[i], migLock, mutex)
                      /\ Removes(job[i], locator) /\ Copies(job[i], locator) /\ ~Brings(job[i])
    OBVIOUS
  <2>1. job[i] = Idle /\ Idle.pc = "off"
    BY <1>1 DEF Idle
  <2> QED
    BY <2>1 DEF Knows, Holds, Removes, Copies, Brings, MigrationPcs
<1>9. ~Remains
  BY <1>5, <1>8 DEF Remains, Pends, Locators
<1> QED
  BY <1>6, <1>7, <1>8, <1>9 DEF PairInv, Apart, Calm

LEMMA PairStep ==
    ASSUME Plenty, NEW p, NEW q, Instances = {p, q}, PairInv, [Next]_vars
    PROVE  PairInv'
<1>1. CASE UNCHANGED vars
  <2>1. UNCHANGED <<locator, data, version, job, migLock, mutex, faults>>
    BY <1>1 DEF vars
  <2>2. p \in Instances
    OBVIOUS
  <2>3. Leaves(p)
    BY <2>1, <2>2, PairFields DEF Leaves, TypeOK
  <2>4. Removes(job'[p], locator') /\ Copies(job'[p], locator')
    BY <2>1, <2>2, PairFields
  <2> QED
    <3>1. \A i \in Instances : Knows(job'[i]) /\ Holds(i, job'[i], migLock', mutex')
      BY <2>1 DEF PairInv
    <3>2. \A i \in Instances : Removes(job'[i], locator') /\ Copies(job'[i], locator')
      BY <2>1 DEF PairInv
    <3>3. (Remains' <=> Remains) /\ TypeOK'
      BY <2>1, <2>3 DEF Remains, Leaves
    <3>4. Apart' /\ Calm'
      BY <2>1, <3>3 DEF PairInv, Apart, Calm
    <3>5. \A l \in Locators : Filed(locator[l], l)'
      BY <2>1 DEF PairInv
    <3> QED
      BY <3>1, <3>2, <3>3, <3>4, <3>5 DEF PairInv
<1>2. NewTransaction \in Transactions
  BY NewIdOfTwo
<1>3. SUFFICES ASSUME NEW i \in Instances, Bootstrap(i) \/ Migrate(i) \/ Use(i) \/ Kill(i)
               PROVE  PairInv'
  BY <1>1 DEF Next
<1>4. CASE Bootstrap(i)
  BY <1>2, <1>4, PairRead, PairDiscard, PairUseLocator, PairUseDefaultRoot, PairAdoptTarget,
     PairMigrateLegacy, PairSelectRoot, PairCancelSelection, PairMakeDirectories,
     PairMakeManifest, PairWriteActive, PairRemoveConflicting, PairGiveUp, PairInstall,
     PairRecoverFirst
  DEF Bootstrap
<1>5. CASE Migrate(i)
  <2>1. PICK k \in Instances : Instances = {i, k}
    OBVIOUS
  <2> QED
    BY <1>5, <2>1, PairTakeLock, PairCommitInPlace, PairCommitTarget, PairCommitRefused,
       PairCommitRemoveSource, PairCommitFailed, PairRollbackPending, PairRollbackRefused,
       PairJudgePending, PairJudgeOutcome, PairWritePending, PairCopy, PairCleanup
    DEF Migrate
<1>6. CASE Use(i) \/ Kill(i)
  BY <1>2, <1>6, PairLaunch, PairLaunchAt, PairSave, PairSchedule, PairEnds DEF Use
<1> QED
  BY <1>3, <1>4, <1>5, <1>6

\* While one process copies or commits, the other does not.
LEMMA PairMoves ==
    ASSUME PairInv
    PROVE  OneMigration
<1> SUFFICES ASSUME NEW i \in Instances, NEW k \in Instances, Moving(i), Moving(k), i # k
             PROVE  FALSE
  BY DEF OneMigration
<1>1. ASSUME NEW a \in Instances, NEW b \in Instances, a # b,
             job[a].pc = "copy", job[b].pc = "copy", Aim(job[a]) = "user"
      PROVE  FALSE
  BY <1>1, CopyFields DEF Locators, Pends
<1>2. ASSUME NEW a \in Instances, NEW b \in Instances, a # b,
             job[a].pc = "copy", job[b].pc = "commitRemove"
      PROVE  FALSE
  <2>1. /\ Aim(job[a]) \in Locators /\ Aim(job[a]) # Aim(job[b]) /\ Pends(locator, Aim(job[a]))
    BY <1>2, CopyFields, AimsDiffer DEF MigrationPcs
  <2>2. /\ Aim(job[b]) \in Locators /\ job[b].req.target.locator \in Locators
        /\ job[b].req.target.locator # Aim(job[b])
        /\ ~Pends(locator, job[b].req.target.locator)
    BY <1>2, PairFields, AimFields DEF Removes, MigrationPcs
  <2> QED
    BY <2>1, <2>2 DEF Locators
<1>3. CASE job[i].pc = "copy" /\ job[k].pc = "copy"
  <2>1. Aim(job[i]) # Aim(job[k]) /\ Aim(job[i]) \in Locators /\ Aim(job[k]) \in Locators
    BY <1>3, CopyFields, AimsDiffer DEF MigrationPcs
  <2> QED
    BY <1>1, <1>3, <2>1 DEF Locators
<1>4. CASE job[i].pc = "commitRemove" /\ job[k].pc = "commitRemove"
  BY <1>4, PairFields DEF Holds
<1> QED
  BY <1>2, <1>3, <1>4 DEF Moving

\* Of two processes, however their starts, recoveries, migrations and changes of the options
\* interleave, and whatever is killed or fails, never both copy or commit at once, though each
\* takes only the lock beside the locator it starts from (StorageMigrator::execute,
\* recoverPending, storagemigrator.cpp:1028).
THEOREM OnlyOneMigration ==
    ASSUME Plenty, AtRest, NEW p, NEW q, Instances = {p, q}
    PROVE  Spec => []OneMigration
<1>1. Init => PairInv
  BY PairStart
<1>2. PairInv /\ [Next]_vars => PairInv'
  BY PairStep
<1>3. PairInv => OneMigration
  BY PairMoves
<1> QED
  BY <1>1, <1>2, <1>3, PTL DEF Spec

\* Every variable has its type, with two processes too.
THEOREM PairTypeCorrect ==
    ASSUME Plenty, AtRest, NEW p, NEW q, Instances = {p, q}
    PROVE  Spec => []TypeOK
<1>1. Init => PairInv
  BY PairStart
<1>2. PairInv /\ [Next]_vars => PairInv'
  BY PairStep
<1>3. PairInv => TypeOK
  BY DEF PairInv
<1> QED
  BY <1>1, <1>2, <1>3, PTL DEF Spec
=============================================================================
