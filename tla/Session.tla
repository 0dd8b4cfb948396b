------------------------------ MODULE Session -------------------------------
(* The windows of the application, their documents and the stored session:   *)
(* what opens and closes a file, how the exit is prepared, given up or       *)
(* committed, how the last window takes the process with it, and what the    *)
(* next start finds (kloggapp.h, session.cpp, sessioninfo.cpp, the document  *)
(* side of mainwindow.cpp and documentworkspace.cpp).                        *)
(*                                                                           *)
(* All of it runs on the GUI thread.  A handler is one step; it is split     *)
(* where a kill in its middle leaves other files (the saving of one window   *)
(* after the other, the start) and where it waits in a modal dialog, whose   *)
(* own event loop goes on delivering messages and timers.                    *)
EXTENDS Naturals, Sequences, FiniteSets, SequencesExt

CONSTANTS
    Windows,        \* the ids that a window can have (generateIdFromUuid)
    Files,
    None,
    MaxStarts,      \* starts of the process
    MaxForwards,    \* files that another start of the program sends here
    MaxLoads        \* files opened by the user

VARIABLES
    phase,          \* "down", "clearing" (in the start), "run", "quitting"
    args,           \* the files on the command line
    order,          \* mainWindows_: the windows, oldest first
    dying,          \* closed windows whose deleteLater has not run
    win,            \* the documents of each window
    active,         \* activeWindows_: the window activated last is the first
    modal,          \* open modal dialogs, the innermost first
    exit,           \* exitPreparationState_: "idle", "preparing", "prepared"
    purpose,        \* who prepares: "exit", "restart" or "update"
    toPrepare,      \* participants that are not prepared yet
    exitRequested,  \* Session::exitRequested_
    syncFailed,     \* the session file could once not be written
    stored,         \* SessionInfo::windows_, as the session file has them
    again,          \* the process that ends starts the next one
    left,           \* history: what was open when the process was told to end
    starts, forwards, loads

program == <<order, dying, win, active, modal, exit, purpose, toPrepare,
             exitRequested, syncFailed>>
counts == <<starts, forwards, loads>>
vars == <<phase, args, program, stored, again, left, counts>>

Empty == [docs |-> {}, current |-> None, loading |-> {}, frozen |-> FALSE]

Live == ToSet(order)
Running == phase \in {"run", "quitting"}

\* Nothing but a kill comes between the steps of the preparation.
EventLoop == Running /\ exit # "preparing"

Input == EventLoop /\ modal = <<>>

TypeOK ==
    /\ phase \in {"down", "clearing", "run", "quitting"}
    /\ args \subseteq Files
    /\ order \in Seq(Windows) /\ dying \subseteq Windows /\ active \in Seq(Windows)
    /\ win \in [Windows -> [docs : SUBSET Files, current : Files \cup {None},
                            loading : SUBSET Files, frozen : BOOLEAN]]
    /\ modal \in Seq([kind : {"open", "alert"}, window : Windows, about : Files \cup {None}])
    /\ exit \in {"idle", "preparing", "prepared"}
    /\ purpose \in {"exit", "restart", "update"}
    /\ toPrepare \in Seq(Windows)
    /\ exitRequested \in BOOLEAN /\ syncFailed \in BOOLEAN /\ again \in BOOLEAN
    /\ stored \in Seq([id : Windows, docs : SUBSET Files])
    /\ left \subseteq [id : Windows, docs : SUBSET Files]

-----------------------------------------------------------------------------
(* SessionInfo: the stored windows *)

StoredIds == {s.id : s \in ToSet(stored)}

\* SessionInfo::add
Added(id) == IF id \in StoredIds THEN stored ELSE Append(stored, [id |-> id, docs |-> {}])

\* A fault of Removable: the last window is removed like any other.
Removable_Always(id) == id \in StoredIds

\* SessionInfo::remove never removes the last.
Removable(id) == Len(stored) > 1

Removed(id) == RemoveFirstMatch(stored, LAMBDA s : s.id = id)

\* WindowSession::save
Saved(id, docs) ==
    [i \in DOMAIN stored |-> IF stored[i].id = id THEN [stored[i] EXCEPT !.docs = docs]
                             ELSE stored[i]]

-----------------------------------------------------------------------------
(* The documents of a window *)

\* Session::openFiles_ knows the views of every window that is not deleted.
Viewing(f) == {w \in Live \cup dying : f \in win[w].docs}

ToTop(w) == <<w>> \o RemoveFirst(active, w)

Opened(w, f) ==
    [win EXCEPT ![w].docs = @ \cup {f}, ![w].current = f, ![w].loading = @ \cup {f}]

\* MainWindow::loadFile in window w: a view that is open anywhere is shown.
LoadFile(w, f) ==
    IF win[w].frozen THEN UNCHANGED <<win, active>>
    ELSE \/ /\ Viewing(f) = {}
            /\ win' = Opened(w, f)
            /\ UNCHANGED active
         \/ \E v \in Viewing(f) :
                /\ win' = [win EXCEPT ![v].current = f]
                /\ active' = ToTop(v)

\* A fault of CloseTab: a prepared window closes documents, too.
CloseTab_Frozen(w, f) ==
    IF f \notin win[w].docs THEN UNCHANGED win
    ELSE LET docs == win[w].docs \ {f} IN
         \E c \in IF win[w].current # f THEN {win[w].current}
                  ELSE IF docs = {} THEN {None} ELSE docs :
             win' = [win EXCEPT ![w].docs = docs, ![w].current = c, ![w].loading = @ \ {f}]

\* MainWindow::closeTab: which document is current after that is Qt's choice.
CloseTab(w, f) ==
    IF win[w].frozen \/ f \notin win[w].docs THEN UNCHANGED win
    ELSE LET docs == win[w].docs \ {f} IN
         \E c \in IF win[w].current # f THEN {win[w].current}
                  ELSE IF docs = {} THEN {None} ELSE docs :
             win' = [win EXCEPT ![w].docs = docs, ![w].current = c, ![w].loading = @ \ {f}]

-----------------------------------------------------------------------------
(* The start of the process *)

Fresh == Windows \ (Live \cup dying \cup StoredIds)

Begin ==
    /\ phase = "down" /\ starts < MaxStarts
    /\ starts' = starts + 1
    /\ \/ again /\ UNCHANGED args
       \/ ~again /\ args' \in SUBSET Files
    /\ again' = FALSE
    /\ dying' = {} /\ modal' = <<>> /\ exit' = "idle" /\ toPrepare' = <<>>
    /\ exitRequested' = FALSE /\ syncFailed' = FALSE /\ left' = {}
    /\ UNCHANGED <<purpose, forwards, loads>>

\* KloggApp::reloadSession: without files the stored windows are opened again;
\* Session::openAlways does not look for a view that is open.
StartLoadSession ==
    /\ Begin
    /\ args' = {}
    /\ \E currents \in [Windows -> Files \cup {None}] :
         IF stored = <<>> THEN
             \E id \in Fresh :
                /\ stored' = Added(id)
                /\ order' = <<id>>
                /\ win' = [win EXCEPT ![id] = Empty]
         ELSE
             /\ UNCHANGED stored
             /\ order' = [i \in DOMAIN stored |-> stored[i].id]
             /\ \A s \in ToSet(stored) :
                    currents[s.id] \in IF s.docs = {} THEN {None} ELSE s.docs
             /\ win' = [w \in Windows |->
                    IF w \notin StoredIds THEN Empty
                    ELSE LET docs == (CHOOSE s \in ToSet(stored) : s.id = w).docs IN
                         [Empty EXCEPT !.docs = docs, !.loading = docs, !.current = currents[w]]]
    /\ active' = Reverse(order')
    /\ phase' = "run"

\* With files a new window is opened for them beside the stored ones.
StartNewSession ==
    /\ Begin
    /\ args' # {}
    /\ \E id \in Fresh, c \in args' :
         /\ stored' = Added(id)
         /\ order' = <<id>>
         /\ active' = <<id>>
         /\ win' = [w \in Windows |->
                IF w # id THEN Empty
                ELSE [Empty EXCEPT !.docs = args', !.loading = args', !.current = c]]
    /\ phase' = "clearing"

\* KloggApp::clearInactiveSessions: the stored windows that are not open are closed one
\* after the other, and the file is written each time.
ClearInactive ==
    /\ phase = "clearing"
    /\ \/ /\ StoredIds \subseteq Live
          /\ phase' = "run"
          /\ UNCHANGED stored
       \/ /\ ~(StoredIds \subseteq Live)
          /\ stored' = RemoveFirstMatch(stored, LAMBDA s : s.id \notin Live)
          /\ UNCHANGED phase
    /\ UNCHANGED <<args, program, again, left, counts>>

-----------------------------------------------------------------------------
(* What opens windows and documents *)

\* KloggApp::newWindow, when no exit is being prepared
NewWindow(id) ==
    /\ id \in Fresh
    /\ order' = Append(order, id)
    /\ active' = <<id>> \o active
    /\ stored' = Added(id)

UserNewWindow ==
    /\ Input /\ exit = "idle" /\ phase = "run"
    /\ \E id \in Windows : NewWindow(id) /\ win' = [win EXCEPT ![id] = Empty]
    /\ UNCHANGED <<phase, args, dying, modal, exit, purpose, toPrepare, exitRequested,
                   syncFailed, again, left, counts>>

\* A file dialog, the extraction of an archive, a download: loadFile comes when
\* the dialog has returned, and other events in between.
UserOpens(w) ==
    /\ Input /\ w \in Live /\ ~win[w].frozen
    /\ loads < MaxLoads
    /\ loads' = loads + 1
    /\ modal' = <<[kind |-> "open", window |-> w, about |-> None]>> \o modal
    /\ UNCHANGED <<phase, args, order, dying, win, active, exit, purpose, toPrepare,
                   exitRequested, syncFailed, stored, again, left, starts, forwards>>

FileChosen ==
    /\ EventLoop /\ modal # <<>>
    /\ LET d == Head(modal) IN
         /\ d.kind = "open" /\ d.window \in Live
         /\ \E f \in Files : LoadFile(d.window, f)
    /\ modal' = Tail(modal)
    /\ UNCHANGED <<phase, args, order, dying, exit, purpose, toPrepare, exitRequested,
                   syncFailed, stored, again, left, counts>>

\* KloggApp::loadFileNonInteractive: the window that was activated last, also if
\* it is closed and not yet deleted.
Forwarded(f) ==
    /\ EventLoop
    /\ forwards < MaxForwards
    /\ forwards' = forwards + 1
    /\ \/ exit # "idle" /\ UNCHANGED <<order, win, active, stored>>
       \/ /\ exit = "idle" /\ active # <<>>
          /\ LoadFile(Head(active), f)
          /\ UNCHANGED <<order, stored>>
       \/ /\ exit = "idle" /\ active = <<>>
          /\ \E id \in Windows : NewWindow(id) /\ win' = Opened(id, f)
    /\ UNCHANGED <<phase, args, dying, modal, exit, purpose, toPrepare, exitRequested,
                   syncFailed, again, left, starts, loads>>

\* The user shows another document, or activates another window.
Switch(w, f) ==
    /\ Input /\ w \in Live /\ ~win[w].frozen
    /\ f \in win[w].docs \cup (IF win[w].docs = {} THEN {None} ELSE {})
    /\ win' = [win EXCEPT ![w].current = f]
    /\ active' = ToTop(w)
    /\ UNCHANGED <<phase, args, order, dying, modal, exit, purpose, toPrepare, exitRequested,
                   syncFailed, stored, again, left, counts>>

-----------------------------------------------------------------------------
(* What closes them *)

UserClosesTab(w, f) ==
    /\ Input /\ w \in Live /\ f \in win[w].docs
    /\ CloseTab(w, f)
    /\ UNCHANGED <<phase, args, order, dying, active, modal, exit, purpose, toPrepare,
                   exitRequested, syncFailed, stored, again, left, counts>>

\* A load ends.  Only the signals of the current document reach the window
\* (SignalMux); an interrupted load closes it, one without memory says so first.
LoadEnds(w, f) ==
    /\ EventLoop /\ w \in Live \cup dying /\ f \in win[w].loading
    /\ LET loaded == [win EXCEPT ![w].loading = @ \ {f}] IN
       \/ /\ win' = loaded
          /\ UNCHANGED modal
       \/ /\ f = win[w].current
          /\ CloseTab(w, f)
          /\ UNCHANGED modal
       \/ /\ f = win[w].current
          /\ win' = loaded
          /\ modal' = <<[kind |-> "alert", window |-> w, about |-> f]>> \o modal
    /\ UNCHANGED <<phase, args, order, dying, active, exit, purpose, toPrepare, exitRequested,
                   syncFailed, stored, again, left, counts>>

\* The alert is dismissed: the document that is current by now is closed.
AlertDismissed ==
    /\ EventLoop /\ modal # <<>>
    /\ LET d == Head(modal) IN
         /\ d.kind = "alert"
         /\ CloseTab(d.window, win[d.window].current)
    /\ modal' = Tail(modal)
    /\ UNCHANGED <<phase, args, order, dying, active, exit, purpose, toPrepare, exitRequested,
                   syncFailed, stored, again, left, counts>>

\* MainWindow::closeEvent of w and KloggApp::onWindowClosed, except that the
\* stored session becomes s.
Closed(w, s) ==
    /\ stored' = s
    /\ win' = [win EXCEPT ![w] = Empty]
    /\ order' = RemoveFirst(order, w)
    /\ dying' = dying \cup {w}

\* A fault of AfterClose: every closed window is saved, none is forgotten.
AfterClose_Keeps(w) == Saved(w, win[w].docs)

\* WindowSession::close and what closeEvent saves after it: the window is
\* forgotten unless it is the last, or the application exits.
AfterClose(w) ==
    IF ~exitRequested /\ Removable(w) THEN Removed(w) ELSE Saved(w, win[w].docs)

\* The last window takes the application with it (Qt's quitOnLastWindowClosed).
UserClosesWindow(w) ==
    /\ Input /\ w \in Live /\ ~win[w].frozen
    /\ Closed(w, AfterClose(w))
    /\ IF Live = {w} /\ phase = "run"
       THEN phase' = "quitting" /\ left' = {[id |-> w, docs |-> win[w].docs]}
       ELSE UNCHANGED <<phase, left>>
    /\ UNCHANGED <<args, active, modal, exit, purpose, toPrepare, exitRequested,
                   syncFailed, again, counts>>

\* The deferred deletion: ~DocumentWorkspace takes what was opened meanwhile.
Deleted(w) ==
    /\ EventLoop /\ w \in dying
    /\ \A i \in DOMAIN modal : modal[i].window # w
    /\ dying' = dying \ {w}
    /\ win' = [win EXCEPT ![w] = Empty]
    /\ active' = RemoveFirst(active, w)
    /\ UNCHANGED <<phase, args, order, modal, exit, purpose, toPrepare, exitRequested,
                   syncFailed, stored, again, left, counts>>

-----------------------------------------------------------------------------
(* The exit: prepared, then committed or given up *)

\* exitApplication and restartApplication are commands of a window; the updater
\* prepares when its own work is done.
Prepare(why) ==
    /\ EventLoop /\ phase = "run" /\ exit = "idle"
    /\ why = "update" \/ (modal = <<>> /\ order # <<>>)
    /\ exit' = "preparing"
    /\ purpose' = why
    /\ toPrepare' = Reverse(order)
    /\ UNCHANGED <<phase, args, order, dying, win, active, modal, exitRequested, syncFailed,
                   stored, again, left, counts>>

\* MainWindow::prepareForApplicationExit: no input, and the documents are saved.
PrepareWindow ==
    /\ Running /\ exit = "preparing" /\ toPrepare # <<>>
    /\ LET w == Head(toPrepare) IN
         /\ win' = [win EXCEPT ![w].frozen = TRUE]
         /\ stored' = Saved(w, win[w].docs)
    /\ toPrepare' = Tail(toPrepare)
    /\ UNCHANGED <<phase, args, order, dying, active, modal, exit, purpose, exitRequested,
                   syncFailed, again, left, counts>>

Unfrozen == [w \in Windows |-> [win[w] EXCEPT !.frozen = FALSE]]

\* commitApplicationExit: every window closes, in one handler.  The session was
\* saved by the preparation and is not written again.
Commit ==
    /\ left' = {[id |-> w, docs |-> win[w].docs] : w \in Live}
    /\ exitRequested' = TRUE
    /\ order' = <<>>
    /\ dying' = dying \cup Live
    /\ win' = [w \in Windows |-> IF w \in Live THEN Empty ELSE win[w]]
    /\ exit' = "idle"
    /\ phase' = "quitting"
    /\ again' = (purpose = "restart")

\* The session file is synced; QSettings keeps its first error for good.
PrepareEnds ==
    /\ Running /\ exit = "preparing" /\ toPrepare = <<>>
    /\ \/ /\ syncFailed' = TRUE
          /\ exit' = "idle"
          /\ win' = Unfrozen
          /\ UNCHANGED <<phase, order, dying, exitRequested, again, left>>
       \/ /\ ~syncFailed
          /\ purpose = "update"
          /\ exit' = "prepared"
          /\ UNCHANGED <<phase, order, dying, win, exitRequested, syncFailed, again, left>>
       \/ /\ ~syncFailed
          /\ purpose # "update"
          /\ Commit
          /\ UNCHANGED syncFailed
    /\ UNCHANGED <<args, active, modal, purpose, toPrepare, stored, starts, forwards, loads>>

UpdateCommits ==
    /\ EventLoop /\ exit = "prepared"
    /\ Commit
    /\ UNCHANGED <<args, active, modal, purpose, toPrepare, syncFailed, stored, counts>>

\* cancelApplicationExitPreparation
UpdateCancels ==
    /\ EventLoop /\ exit = "prepared"
    /\ exit' = "idle"
    /\ win' = Unfrozen
    /\ UNCHANGED <<phase, args, order, dying, active, modal, purpose, toPrepare,
                   exitRequested, syncFailed, stored, again, left, counts>>

-----------------------------------------------------------------------------
(* The end of the process *)

Gone ==
    /\ phase' = "down"
    /\ order' = <<>> /\ dying' = {} /\ active' = <<>> /\ modal' = <<>>
    /\ win' = [w \in Windows |-> Empty]
    /\ exit' = "idle" /\ toPrepare' = <<>>
    /\ UNCHANGED <<args, purpose, exitRequested, syncFailed, counts>>

\* The quit event closes the windows that were opened since, one after the other.
QuitCloses(w) ==
    /\ EventLoop /\ phase = "quitting" /\ w \in Live /\ ~win[w].frozen
    /\ Closed(w, AfterClose(w))
    /\ UNCHANGED <<phase, args, active, modal, exit, purpose, toPrepare, exitRequested,
                   syncFailed, again, left, counts>>

Quit ==
    /\ EventLoop /\ phase = "quitting" /\ order = <<>>
    /\ Gone
    /\ UNCHANGED <<stored, again, left>>

\* The process is killed; what it had saved stays.
Kill ==
    /\ phase # "down"
    /\ Gone
    /\ again' = FALSE
    /\ IF phase = "quitting" THEN UNCHANGED left ELSE left' = {}
    /\ UNCHANGED stored

-----------------------------------------------------------------------------
Init ==
    /\ phase = "down" /\ args = {}
    /\ order = <<>> /\ dying = {} /\ active = <<>> /\ modal = <<>>
    /\ win = [w \in Windows |-> Empty]
    /\ exit = "idle" /\ purpose = "exit" /\ toPrepare = <<>>
    /\ exitRequested = FALSE /\ syncFailed = FALSE
    /\ stored = <<>> /\ again = FALSE /\ left = {}
    /\ starts = 0 /\ forwards = 0 /\ loads = 0

Next ==
    \/ StartLoadSession \/ StartNewSession \/ ClearInactive
    \/ UserNewWindow \/ FileChosen \/ AlertDismissed
    \/ \E f \in Files : Forwarded(f)
    \/ \E w \in Windows :
          \/ UserOpens(w) \/ UserClosesWindow(w) \/ Deleted(w) \/ QuitCloses(w)
          \/ \E f \in Files : UserClosesTab(w, f) \/ LoadEnds(w, f) \/ Switch(w, f)
    \/ \E why \in {"exit", "restart", "update"} : Prepare(why)
    \/ PrepareWindow \/ PrepareEnds \/ UpdateCommits \/ UpdateCancels
    \/ Quit \/ Kill

Spec == Init /\ [][Next]_vars

-----------------------------------------------------------------------------
(* Properties *)

\* While the application runs, the session file knows the windows that are open
\* and no other: only then does WindowSession::close tell which is the last.
StoredAreOpen == phase = "run" /\ exit = "idle" => StoredIds = Live

\* What the preparation has saved is what is open, until it is given up or
\* committed, and nothing stays without input after that.
SnapshotHolds ==
    /\ exit = "prepared" =>
          /\ \A w \in Live : win[w].frozen
          /\ {[id |-> w, docs |-> win[w].docs] : w \in Live} = ToSet(stored)
    /\ exit = "idle" => \A w \in Windows : ~win[w].frozen

\* What was open when the application was told to end, or in its last window, is
\* in the session file when it has ended, whatever is forwarded meanwhile.
SessionKept == phase \in {"quitting", "down"} => left \subseteq ToSet(stored)

-----------------------------------------------------------------------------
(* What the code does not keep *)

\* A restart brings back what was open (BUILD.md:165).  A program that was started
\* with files starts with them again and forgets the session (applicationrunner.cpp:654).
RestartRestores ==
    [][phase = "down" /\ again /\ phase' # "down" =>
          \A l \in left : \E w \in ToSet(order') : l.docs \subseteq win'[w].docs]_vars

\* A file that another start of the program sends is open in a window.
ForwardedOpens ==
    [][forwards' # forwards /\ exit = "idle" =>
          \E f \in Files : \E w \in ToSet(order') : f \in win'[w].docs /\ win'[w].current = f]_vars

\* The document that is closed when the alert is dismissed is the one without memory.
ClosesWhatFailed ==
    [][modal # <<>> /\ modal' = Tail(modal) /\ Head(modal).kind = "alert" /\ phase' # "down" =>
          win[Head(modal).window].docs \ {Head(modal).about}
              \subseteq win'[Head(modal).window].docs]_vars

\* No file is stored in two windows.
StoredOnce == \A i, j \in DOMAIN stored : i # j => stored[i].docs \cap stored[j].docs = {}
=============================================================================
