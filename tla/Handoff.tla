------------------------------- MODULE Handoff -------------------------------
(***************************************************************************)
(* How the application leaves so that it can be updated, and how it comes  *)
(* back (src/src/app/applicationupdatehandoff.cpp, src/src/updater/        *)
(* relay.cpp, coordinator.cpp, handoffprotocol.cpp, txengine_main.cpp and  *)
(* installationactivity_win.cpp).                                          *)
(*                                                                         *)
(* Three processes take part in an update: the application, with its GUI   *)
(* thread and one worker thread; the relay, an unprivileged copy of the    *)
(* updater; and the engine, which the elevated installer starts and which  *)
(* alone writes into the installation.  A pipe joins the application to    *)
(* the relay and another the relay to the engine.  A named mutex, which    *)
(* exists while anybody has a handle on it, keeps other instances out.     *)
(*                                                                         *)
(* A session is one attempt to update.  Every wait of the code has a       *)
(* deadline, so every receive can fail; a message carries its kind only,   *)
(* the transaction and the token being those of its session.               *)
(***************************************************************************)
EXTENDS Naturals, Sequences

CONSTANTS
    MaxSessions,  \* bound on the attempts to update
    Deaths        \* which processes may be killed: "app", "relay", "engine"

ASSUME HandoffAssumption == MaxSessions \in Nat /\ Deaths \subseteq {"app", "relay", "engine"}

Sessions == 1 .. MaxSessions

VARIABLES
    \* the application process
    app,            \* "running", "closing" (committed), "gone", "starting", "probed"
    startedBy,      \* who started the process that is starting: "user", "restart", "relaunch"
    prepared,       \* ExitPreparationState::Prepared: windows saved and frozen
    state,          \* ApplicationUpdateHandoff::State
    current,        \* the session the handoff owns, 0 for none
    generation,
    commitPending,
    reservationHeld,
    tasks,          \* what the worker thread has still to do, in order
    events,         \* what it has posted to the GUI thread
    \* the sessions
    begun,          \* how many there have been
    exited,         \* those whose application process has ended
    committed,      \* those for which the application committed its exit
    guiPeer,        \* HandoffSession of the application's coordinator
    relayPeer,      \* HandoffSession of the relay's coordinator
    relay, engine,  \* where these processes are
    code,           \* the engine's exit code is 0
    open,           \* the ends of the pipes that are open
    wire,           \* the messages each end has still to read
    \* the installation directory
    holders,        \* who has a handle on the mutex
    other           \* another instance: "out", "probed", "in"

guiVars == <<prepared, state, current, generation, commitPending, reservationHeld,
             tasks, events>>
appVars == <<app, startedBy, guiVars, begun, exited, committed>>
pipeVars == <<open, wire>>
relayVars == <<relay, relayPeer>>
engineVars == <<engine, code>>
vars == <<appVars, guiPeer, relayVars, engineVars, pipeVars, holders, other>>

Aborted == "Aborted"
HandoffStates == {"Connecting", "Ready", "AwaitingAppExit", "ExitCommitted",
                  "ExitConfirmed", "Complete", Aborted}

\* HandoffSession::accept: the one message each state lets through.
Accept(peer, kind) ==
    CASE peer = "Connecting" /\ kind = "Hello" -> "Ready"
      [] peer = "Ready" /\ kind = "AwaitingAppExit" -> "AwaitingAppExit"
      [] peer = "AwaitingAppExit" /\ kind = "CommitExit" -> "ExitCommitted"
      [] peer = "ExitCommitted" /\ kind = "Proceed" -> "ExitConfirmed"
      [] peer = "ExitConfirmed" /\ kind = "Complete" -> "Complete"
      [] OTHER -> Aborted

CanExit(peer) == peer \in {"AwaitingAppExit", "ExitCommitted"}

Alive(process) == process \notin {"none", "gone"}

-----------------------------------------------------------------------------
(* Pipes *)

Ends == {"gui", "up", "down", "engine"}
Peer(end) == CASE end = "gui" -> "up" [] end = "up" -> "gui"
               [] end = "down" -> "engine" [] end = "engine" -> "down"

Connected(s, end) == {end, Peer(end)} \subseteq open[s]
Put(s, end, kind) == [wire EXCEPT ![s][Peer(end)] = Append(@, kind)]

Send(s, end, kind) == Connected(s, end) /\ wire' = Put(s, end, kind)

\* The wire after a message sent on the way out, if anybody can still read it.
Sent(s, end, kind) == IF Connected(s, end) THEN Put(s, end, kind) ELSE wire

Arrived(s, end, kind) == wire[s][end] # <<>> /\ Head(wire[s][end]) = kind
Take(s, end) == [wire EXCEPT ![s][end] = Tail(@)]

\* A process lets go of its ends, after `w' was sent; what it has not read is lost.
Close(s, ends, w) ==
    /\ open' = [open EXCEPT ![s] = @ \ ends]
    /\ wire' = [w EXCEPT ![s] = [e \in Ends |-> IF e \in ends THEN <<>> ELSE w[s][e]]]

-----------------------------------------------------------------------------
(* The mutex of the installation directory *)

GateClosed == holders # {}
Application == <<"application", 0>> \* who reserved the directory
Boot(s) == <<"bootstrap", s>>       \* the observer of the relay's bootstrap
Observer(s) == <<"coordinator", s>> \* the observer of the relay's coordinator

Init ==
    /\ app = "running" /\ startedBy = "user" /\ prepared = FALSE
    /\ state = "Idle" /\ current = 0 /\ generation = 0
    /\ commitPending = FALSE /\ reservationHeld = FALSE
    /\ tasks = <<>> /\ events = <<>>
    /\ begun = 0 /\ exited = {} /\ committed = {}
    /\ guiPeer = [s \in Sessions |-> "Connecting"]
    /\ relayPeer = [s \in Sessions |-> "Connecting"]
    /\ relay = [s \in Sessions |-> "none"]
    /\ engine = [s \in Sessions |-> "none"]
    /\ code = [s \in Sessions |-> FALSE]
    /\ open = [s \in Sessions |-> {}]
    /\ wire = [s \in Sessions |-> [e \in Ends |-> <<>>]]
    /\ holders = {} /\ other = "out"

-----------------------------------------------------------------------------
(* The GUI thread *)

\* A fault of Discarded: the task keeps the generation the cancellation ended.
Discarded_OldGeneration(kind) == IF current = 0 THEN tasks
                                 ELSE Append(tasks, [task |-> kind, session |-> current,
                                                     generation |-> generation])

\* The session is cancelled by the worker, behind whatever it is doing.
Discarded(kind) == IF current = 0 THEN tasks
                   ELSE Append(tasks, [task |-> kind, session |-> current,
                                       generation |-> generation'])

\* failFromWaiting: the mutex is let go at once.
Fail ==
    /\ current' = 0 /\ tasks' = Discarded("discard")
    /\ state' = "Failed" /\ prepared' = FALSE
    /\ reservationHeld' = FALSE /\ holders' = holders \ {Application}

BeginAllowed ==
    /\ app = "running" /\ state \notin {"Preparing", "Waiting"}
    /\ ~ reservationHeld /\ ~ prepared

\* prepareApplicationExit, reserveUpdate or the factory fails.
BeginFails ==
    /\ BeginAllowed
    /\ state' = "Failed"
    /\ UNCHANGED <<app, startedBy, prepared, current, generation, commitPending,
                   reservationHeld, tasks, events, begun, exited, committed, guiPeer,
                   relayVars, engineVars, pipeVars, holders, other>>

\* reserveUpdate needs a new mutex and, under it, that nobody else has a lease.
Begin ==
    /\ BeginAllowed /\ ~ GateClosed /\ other # "in" /\ begun < MaxSessions
    /\ begun' = begun + 1 /\ current' = begun' /\ generation' = generation + 1
    /\ prepared' = TRUE /\ reservationHeld' = TRUE
    /\ holders' = holders \cup {Application}
    /\ state' = "Preparing"
    /\ tasks' = Append(tasks, [task |-> "start", session |-> begun', generation |-> generation'])
    /\ UNCHANGED <<app, startedBy, commitPending, events, exited, committed, guiPeer,
                   relayVars, engineVars, pipeVars, other>>

\* Fault of Cancel: the windows stay frozen.
Cancel_Frozen ==
    /\ app = "running" /\ state \in {"Preparing", "Waiting"}
    /\ generation' = generation + 1 /\ commitPending' = FALSE
    /\ current' = 0 /\ tasks' = Discarded("cancel")
    /\ state' = "Cancelled"
    /\ UNCHANGED <<app, startedBy, prepared, reservationHeld, events, begun, exited,
                   committed, guiPeer, relayVars, engineVars, pipeVars, holders, other>>

Cancel ==
    /\ app = "running" /\ state \in {"Preparing", "Waiting"}
    /\ generation' = generation + 1 /\ commitPending' = FALSE
    /\ prepared' = FALSE
    /\ current' = 0 /\ tasks' = Discarded("cancel")
    /\ state' = "Cancelled"
    /\ UNCHANGED <<app, startedBy, reservationHeld, events, begun, exited, committed,
                   guiPeer, relayVars, engineVars, pipeVars, holders, other>>

\* A prepared window is destroyed: onPreparationLost.
PreparationLost ==
    /\ app = "running" /\ prepared /\ state \in {"Preparing", "Waiting"}
    /\ generation' = generation + 1 /\ commitPending' = FALSE
    /\ Fail
    /\ UNCHANGED <<app, startedBy, events, begun, exited, committed, guiPeer, relayVars,
                   engineVars, pipeVars, other>>

CanCommitExit(peer, process) == CanExit(peer) /\ Alive(process)

\* Fault of Stale: any handoff under way is taken for the one that posted `e'.
Stale_AnyHandoff(e, awaited) == state \notin {"Preparing", "Waiting"}

\* A completion the application no longer waits for.
Stale(e, awaited) == e.generation # generation \/ state # awaited

\* onStartFinished, and commitExit, which the owner calls on Waiting.
OnStartFinished(e) ==
    IF Stale(e, "Preparing")
    THEN UNCHANGED <<prepared, state, current, generation, commitPending, reservationHeld,
                     tasks, holders>>
    ELSE /\ UNCHANGED generation
         /\ IF e.ok /\ CanCommitExit(guiPeer[e.session], relay[e.session])
            THEN /\ state' = "Waiting" /\ commitPending' = TRUE
                 /\ tasks' = Append(tasks, [task |-> "commit", session |-> current,
                                            generation |-> generation])
                 /\ UNCHANGED <<prepared, current, reservationHeld, holders>>
            ELSE Fail /\ UNCHANGED commitPending

\* onCommitFinished: a window may still refuse, and undo the preparation.
OnCommitFinished(e) ==
    /\ commitPending' = FALSE /\ UNCHANGED <<generation>>
    /\ IF Stale(e, "Waiting")
       THEN UNCHANGED <<prepared, state, current, reservationHeld, tasks, holders, app, committed>>
       ELSE \/ /\ e.ok /\ prepared
               /\ app' = "closing" /\ state' = "ExitCommitted" /\ prepared' = FALSE
               /\ committed' = committed \cup {current}
               /\ UNCHANGED <<current, reservationHeld, tasks, holders>>
            \/ Fail /\ UNCHANGED <<app, committed>>

\* The lambda of cancel: the peer has been cancelled, the mutex can go.
OnCancelled(e) ==
    /\ IF e.generation = generation
       THEN reservationHeld' = FALSE /\ holders' = holders \ {Application}
       ELSE UNCHANGED <<reservationHeld, holders>>
    /\ UNCHANGED <<prepared, state, current, generation, commitPending, tasks>>

GuiEvent ==
    /\ app = "running" /\ events # <<>>
    /\ events' = Tail(events)
    /\ LET e == Head(events)
       IN  \/ e.event = "started" /\ OnStartFinished(e) /\ UNCHANGED <<app, committed>>
           \/ e.event = "committed" /\ OnCommitFinished(e)
           \/ e.event = "cancelled" /\ OnCancelled(e) /\ UNCHANGED <<app, committed>>
    /\ UNCHANGED <<startedBy, begun, exited, guiPeer, relayVars, engineVars, pipeVars, other>>

\* The process ends: its queues, its ends of the pipes and its mutex handle go.
EndProcess ==
    /\ app' = "gone"
    /\ prepared' = FALSE /\ state' = "Idle" /\ current' = 0 /\ generation' = 0
    /\ commitPending' = FALSE /\ reservationHeld' = FALSE
    /\ tasks' = <<>> /\ events' = <<>>
    /\ exited' = 1 .. begun
    /\ open' = [s \in Sessions |-> open[s] \ {"gui"}]
    /\ wire' = [s \in Sessions |-> [wire[s] EXCEPT !.gui = <<>>]]
    /\ guiPeer' = [s \in Sessions |-> IF s \in exited' THEN Aborted ELSE guiPeer[s]]
    /\ holders' = holders \ {Application}
    /\ UNCHANGED <<startedBy, begun, committed, relayVars, engineVars, other>>

\* While it is prepared the application cannot be quit.
Quit == app = "running" /\ ~ prepared /\ EndProcess
Exit == app = "closing" /\ EndProcess
KillApp == "app" \in Deaths /\ app \in {"running", "closing"} /\ EndProcess

-----------------------------------------------------------------------------
(* The worker thread: CoordinatorSession *)

Working(kind, s) == tasks # <<>> /\ Head(tasks).task = kind /\ Head(tasks).session = s

\* The head of the queue is done and its completion posted.
Post(event, ok) ==
    /\ events' = Append(events, [event |-> event, session |-> Head(tasks).session,
                                 generation |-> Head(tasks).generation, ok |-> ok])
    /\ tasks' = Tail(tasks)

\* Coordinator::abort
Abort(s, w) == guiPeer' = [guiPeer EXCEPT ![s] = Aborted] /\ Close(s, {"gui"}, w)

WorkerUnchanged == UNCHANGED <<app, startedBy, prepared, state, current, generation,
    commitPending, reservationHeld, begun, exited, committed, relayPeer, engineVars, holders, other>>

StartRelay(s) ==
    /\ Working("start", s) /\ relay[s] = "none" /\ guiPeer[s] = "Connecting"
    /\ WorkerUnchanged
    /\ \/ /\ relay' = [relay EXCEPT ![s] = "boot"]
          /\ open' = [open EXCEPT ![s] = @ \cup {"gui"}]
          /\ UNCHANGED <<tasks, events, guiPeer, wire>>
       \/ Abort(s, wire) /\ Post("started", FALSE) /\ UNCHANGED relay

Authenticate(s) ==
    /\ Working("start", s) /\ relay[s] # "none" /\ guiPeer[s] = "Connecting"
    /\ WorkerUnchanged /\ UNCHANGED relay
    /\ \/ /\ Arrived(s, "gui", "Hello") /\ Connected(s, "gui")
          /\ guiPeer' = [guiPeer EXCEPT ![s] = Accept(@, "Hello")]
          /\ wire' = [Take(s, "gui") EXCEPT ![s].up = Append(@, "Ready")]
          /\ UNCHANGED <<tasks, events, open>>
       \/ Abort(s, wire) /\ Post("started", FALSE)

AwaitAppExit(s) ==
    /\ Working("start", s) /\ guiPeer[s] = "Ready"
    /\ WorkerUnchanged /\ UNCHANGED relay
    /\ \/ /\ Arrived(s, "gui", "AwaitingAppExit") /\ Alive(relay[s])
          /\ guiPeer' = [guiPeer EXCEPT ![s] = Accept(@, "AwaitingAppExit")]
          /\ wire' = Take(s, "gui") /\ Post("started", TRUE) /\ UNCHANGED open
       \/ Abort(s, wire) /\ Post("started", FALSE)

CommitExit(s) ==
    /\ Working("commit", s)
    /\ WorkerUnchanged /\ UNCHANGED relay
    /\ \/ /\ CanCommitExit(guiPeer[s], relay[s])
          /\ guiPeer' = [guiPeer EXCEPT ![s] = Accept(@, "CommitExit")]
          /\ Send(s, "gui", "CommitExit") /\ Post("committed", TRUE) /\ UNCHANGED open
       \/ Abort(s, wire) /\ Post("committed", FALSE)

\* Coordinator::cancel: tell the peer, if the session has not failed, and abort.
CancelSession(s) ==
    /\ Working("cancel", s) \/ Working("discard", s)
    /\ WorkerUnchanged /\ UNCHANGED relay
    /\ Abort(s, IF guiPeer[s] = Aborted THEN wire ELSE Sent(s, "gui", "Cancel"))
    /\ IF Head(tasks).task = "cancel" THEN Post("cancelled", TRUE)
       ELSE tasks' = Tail(tasks) /\ UNCHANGED events

Worker == \E s \in Sessions :
    StartRelay(s) \/ Authenticate(s) \/ AwaitAppExit(s) \/ CommitExit(s) \/ CancelSession(s)

-----------------------------------------------------------------------------
(* The relay: runInstallRelay and its Coordinator *)

RelayUnchanged == UNCHANGED <<guiVars, begun, exited, committed, guiPeer, code, other>>
To(s, pc) == relay' = [relay EXCEPT ![s] = pc]

\* The process ends and all its handles close.  The Coordinator goes with it.
RelayEnds(s, w) ==
    /\ To(s, "gone")
    /\ relayPeer' = [relayPeer EXCEPT ![s] = Aborted]
    /\ Close(s, {"up", "down"}, w)
    /\ holders' = holders \ {Boot(s), Observer(s)}

\* fail: the application is told, and nobody is started again.
RelayFails(s) ==
    RelayEnds(s, Sent(s, "up", "Failed")) /\ UNCHANGED <<app, startedBy, engine>>

\* ChildBootstrap::open: the mutex must still exist, and gets another handle.
Bootstrap(s) ==
    /\ relay[s] = "boot" /\ RelayUnchanged
    /\ UNCHANGED <<app, startedBy, engine>>
    /\ \/ /\ GateClosed /\ s \notin exited
          /\ holders' = holders \cup {Boot(s)}
          /\ To(s, "hello") /\ UNCHANGED <<relayPeer, pipeVars>>
       \/ RelayEnds(s, wire)

Greet(s) ==
    /\ relay[s] = "hello" /\ RelayUnchanged
    /\ UNCHANGED <<app, startedBy, engine>>
    /\ \/ /\ "gui" \in open[s]
          /\ open' = [open EXCEPT ![s] = @ \cup {"up"}]
          /\ wire' = Put(s, "up", "Hello")
          /\ To(s, "ready") /\ UNCHANGED <<relayPeer, holders>>
       \/ RelayEnds(s, wire)

Welcomed(s) ==
    /\ relay[s] = "ready" /\ RelayUnchanged
    /\ UNCHANGED <<app, startedBy, engine>>
    /\ \/ /\ Arrived(s, "up", "Ready") /\ s \notin exited
          /\ wire' = Take(s, "up")
          /\ To(s, "launch") /\ UNCHANGED <<relayPeer, open, holders>>
       \/ RelayEnds(s, wire)

\* The package is checked; startInstaller opens a second observer, creates the pipe
\* and asks for elevation.
StartInstaller(s) ==
    /\ relay[s] = "launch" /\ RelayUnchanged
    /\ \/ /\ holders' = holders \cup {Observer(s)}
          /\ open' = [open EXCEPT ![s] = @ \cup {"down"}]
          /\ engine' = [engine EXCEPT ![s] = "hello"]
          /\ To(s, "authenticate") /\ UNCHANGED <<app, startedBy, relayPeer, wire>>
       \/ RelayFails(s)

\* One receive of the relay: go on with `kind', or fail.
Await(s, from, end, kind, then) ==
    /\ relay[s] = from /\ RelayUnchanged
    /\ \/ /\ Arrived(s, end, kind) /\ Alive(engine[s])
          /\ then
          /\ UNCHANGED <<app, startedBy, engine, open, holders>>
       \/ RelayFails(s)

Admit(s, kind) == relayPeer' = [relayPeer EXCEPT ![s] = Accept(@, kind)]

AuthenticateEngine(s) == Await(s, "authenticate", "down", "Hello",
    /\ Connected(s, "down") /\ Admit(s, "Hello")
    /\ wire' = [Take(s, "down") EXCEPT ![s].engine = Append(@, "Ready")]
    /\ To(s, "await"))

EngineWaits(s) == Await(s, "await", "down", "AwaitingAppExit",
    Admit(s, "AwaitingAppExit") /\ wire' = Take(s, "down") /\ To(s, "tell"))

\* Only now may the application be told to commit its exit.
TellApplication(s) ==
    /\ relay[s] = "tell" /\ RelayUnchanged
    /\ \/ /\ Send(s, "up", "AwaitingAppExit") /\ To(s, "commit")
          /\ UNCHANGED <<app, startedBy, engine, open, relayPeer, holders>>
       \/ RelayFails(s)

\* The receive does not look at the engine.
ReceiveCommit(s) ==
    /\ relay[s] = "commit" /\ RelayUnchanged
    /\ \/ /\ Arrived(s, "up", "CommitExit") /\ wire' = Take(s, "up") /\ To(s, "forward")
          /\ UNCHANGED <<app, startedBy, engine, open, relayPeer, holders>>
       \/ RelayFails(s)

ForwardCommit(s) ==
    /\ relay[s] = "forward" /\ RelayUnchanged
    /\ \/ /\ CanCommitExit(relayPeer[s], engine[s]) /\ Send(s, "down", "CommitExit")
          /\ Admit(s, "CommitExit") /\ To(s, "poll")
          /\ UNCHANGED <<app, startedBy, engine, open, holders>>
       \/ RelayFails(s)

\* Faults of Proceed: the commit is taken for the exit; the observers are released
\* once the engine has been told to go on.
Proceed_OnCommit(s) ==
    /\ relay[s] = "poll" /\ RelayUnchanged
    /\ Send(s, "down", "Proceed") /\ Admit(s, "Proceed") /\ To(s, "finish")
    /\ UNCHANGED <<app, startedBy, engine, open, holders>>
Proceed_Releases(s) ==
    /\ relay[s] = "poll" /\ RelayUnchanged
    /\ \/ /\ s \in exited
          /\ Send(s, "down", "Proceed") /\ Admit(s, "Proceed") /\ To(s, "finish")
          /\ holders' = holders \ {Boot(s), Observer(s)}
          /\ UNCHANGED <<app, startedBy, engine, open>>
       \/ RelayFails(s)

\* proceedIfExited, polled until the deadline: it looks at the process, not at messages.
Proceed(s) ==
    /\ relay[s] = "poll" /\ RelayUnchanged
    /\ \/ /\ s \in exited
          /\ Send(s, "down", "Proceed") /\ Admit(s, "Proceed") /\ To(s, "finish")
          /\ UNCHANGED <<app, startedBy, engine, open, holders>>
       \/ RelayFails(s)

\* finish: the message, and then the end of the process and its code.  The engine
\* may still be at work when the deadline passes.
FinishMessage(s) ==
    /\ relay[s] = "finish" /\ RelayUnchanged
    /\ UNCHANGED <<app, startedBy, engine, holders>>
    /\ \/ /\ Arrived(s, "down", "Complete")
          /\ Admit(s, "Complete") /\ wire' = Take(s, "down")
          /\ To(s, "exitcode") /\ UNCHANGED open
       \/ /\ ~ Arrived(s, "down", "Complete")
          /\ relayPeer' = [relayPeer EXCEPT ![s] = Aborted]
          /\ Close(s, {"down"}, wire) /\ To(s, "relaunch")

\* An elevated relay leaves the restart to the user.
FinishCode(s) ==
    /\ relay[s] = "exitcode" /\ RelayUnchanged
    /\ UNCHANGED <<app, startedBy, engine>>
    /\ IF engine[s] = "gone" /\ code[s]
       THEN \/ To(s, "release") /\ UNCHANGED <<relayPeer, pipeVars, holders>>
            \/ RelayEnds(s, wire)
       ELSE /\ To(s, "relaunch") /\ UNCHANGED <<relayPeer, pipeVars, holders>>

\* A process is created unless one runs already: that one is only activated.
Start(by) ==
    IF app = "gone" THEN app' = "starting" /\ startedBy' = by
    ELSE UNCHANGED <<app, startedBy>>

\* relaunchAfterFailedTransaction
Relaunch(s) ==
    /\ relay[s] = "relaunch" /\ RelayUnchanged
    /\ Start("relaunch") /\ To(s, "leave")
    /\ UNCHANGED <<relayPeer, engine, open, wire, holders>>

\* Fault of ReleaseObserver: only the Coordinator's handle is thought of.
ReleaseObserver_Not(s) ==
    /\ relay[s] = "release" /\ RelayUnchanged
    /\ To(s, "restart")
    /\ UNCHANGED <<app, startedBy, relayPeer, engine, open, wire, holders>>

\* ChildBootstrap::releaseDirectoryObserver
ReleaseObserver(s) ==
    /\ relay[s] = "release" /\ RelayUnchanged
    /\ holders' = holders \ {Boot(s)} /\ To(s, "restart")
    /\ UNCHANGED <<app, startedBy, relayPeer, engine, open, wire>>

\* Coordinator::restart: the installation may fail its check.
Restart(s) ==
    /\ relay[s] = "restart" /\ RelayUnchanged
    /\ UNCHANGED engine
    /\ \/ /\ holders' = holders \ {Observer(s)}
          /\ Start("restart") /\ To(s, "leave") /\ UNCHANGED <<relayPeer, pipeVars>>
       \/ RelayEnds(s, wire) /\ UNCHANGED <<app, startedBy>>

\* The startup is confirmed, or not, and the relay ends.
Leave(s) ==
    /\ relay[s] = "leave" /\ RelayUnchanged /\ RelayEnds(s, wire)
    /\ UNCHANGED <<app, startedBy, engine>>

Relay(s) ==
    \/ Bootstrap(s) \/ Greet(s) \/ Welcomed(s) \/ StartInstaller(s)
    \/ AuthenticateEngine(s) \/ EngineWaits(s) \/ TellApplication(s)
    \/ ReceiveCommit(s) \/ ForwardCommit(s) \/ Proceed(s)
    \/ FinishMessage(s) \/ FinishCode(s) \/ Relaunch(s)
    \/ ReleaseObserver(s) \/ Restart(s) \/ Leave(s)

KillRelay(s) ==
    /\ "relay" \in Deaths /\ Alive(relay[s])
    /\ RelayEnds(s, wire) /\ RelayUnchanged /\ UNCHANGED <<app, startedBy, engine>>

-----------------------------------------------------------------------------
(* The engine: main and TxEngine *)

EngineUnchanged == UNCHANGED <<appVars, guiPeer, relayVars, holders, other>>
At(s, pc) == engine' = [engine EXCEPT ![s] = pc]

EngineEnds(s, ok, w) ==
    /\ At(s, "gone") /\ code' = [code EXCEPT ![s] = ok] /\ Close(s, {"engine"}, w)

\* The credential names the relay, which must live; the pipe is its own.
EngineHello(s) ==
    /\ engine[s] = "hello" /\ EngineUnchanged
    /\ \/ /\ "down" \in open[s]
          /\ open' = [open EXCEPT ![s] = @ \cup {"engine"}]
          /\ wire' = Put(s, "engine", "Hello")
          /\ At(s, "ready") /\ UNCHANGED code
       \/ EngineEnds(s, FALSE, wire)

EngineReady(s) ==
    /\ engine[s] = "ready" /\ EngineUnchanged
    /\ \/ /\ Arrived(s, "engine", "Ready") /\ Alive(relay[s])
          /\ wire' = Take(s, "engine") /\ At(s, "prepare") /\ UNCHANGED <<code, open>>
       \/ EngineEnds(s, FALSE, wire)

\* prepare reads and decides; nothing is written into the installation.
Prepare(s) ==
    /\ engine[s] = "prepare" /\ EngineUnchanged
    /\ \/ Send(s, "engine", "AwaitingAppExit") /\ At(s, "commit") /\ UNCHANGED <<code, open>>
       \/ EngineEnds(s, FALSE, Sent(s, "engine", "Failed"))

\* The gate: CommitExit and then Proceed, each within its time.
EngineGate(s, from, kind, then) ==
    /\ engine[s] = from /\ EngineUnchanged
    /\ \/ /\ Arrived(s, "engine", kind)
          /\ wire' = Take(s, "engine") /\ At(s, then) /\ UNCHANGED <<code, open>>
       \/ EngineEnds(s, FALSE, Sent(s, "engine", "Failed"))

AwaitCommit(s) == EngineGate(s, "commit", "CommitExit", "proceed")
AwaitProceed(s) == EngineGate(s, "proceed", "Proceed", "execute")

Execute(s) ==
    /\ engine[s] = "execute" /\ EngineUnchanged
    /\ \E applied \in BOOLEAN :
          /\ code' = [code EXCEPT ![s] = applied]
          /\ wire' = Sent(s, "engine", IF applied THEN "Complete" ELSE "Failed")
    /\ At(s, "leave") /\ UNCHANGED open

EngineLeaves(s) ==
    engine[s] = "leave" /\ EngineEnds(s, code[s], wire) /\ EngineUnchanged

Engine(s) ==
    \/ EngineHello(s) \/ EngineReady(s) \/ Prepare(s) \/ AwaitCommit(s)
    \/ AwaitProceed(s) \/ Execute(s) \/ EngineLeaves(s)

KillEngine(s) ==
    /\ "engine" \in Deaths /\ Alive(engine[s]) /\ EngineEnds(s, FALSE, wire)
    /\ EngineUnchanged

-----------------------------------------------------------------------------
(* Starting the application: InstallationActivity::enter *)

StartUnchanged == UNCHANGED <<guiVars, begun, exited, committed, guiPeer, relayVars,
                              engineVars, pipeVars, holders>>

UserStarts ==
    app = "gone" /\ Start("user") /\ StartUnchanged /\ UNCHANGED other

\* probeEntry: with the mutex there the process reports it and ends.
Probe ==
    /\ app = "starting" /\ startedBy' = "user"
    /\ app' = IF GateClosed THEN "gone" ELSE "probed"
    /\ StartUnchanged /\ UNCHANGED other

\* The lease is taken after the probe, and the mutex not looked at again.
Enter ==
    app = "probed" /\ app' = "running" /\ StartUnchanged /\ UNCHANGED <<startedBy, other>>

\* Another instance, or the command line tool.
OtherProbes == other = "out" /\ ~ GateClosed /\ other' = "probed"
OtherEnters == other = "probed" /\ other' = "in"
OtherLeaves == other = "in" /\ other' = "out"
Other == (OtherProbes \/ OtherEnters \/ OtherLeaves)
         /\ StartUnchanged /\ UNCHANGED <<app, startedBy>>

-----------------------------------------------------------------------------
User == BeginFails \/ Begin \/ Cancel \/ PreparationLost \/ Quit \/ UserStarts \/ Other
Death == KillApp \/ \E s \in Sessions : KillRelay(s) \/ KillEngine(s)
System == GuiEvent \/ Worker \/ Exit \/ Probe \/ Enter
          \/ \E s \in Sessions : Relay(s) \/ Engine(s)

Next == User \/ Death \/ System

Spec == Init /\ [][Next]_vars

\* Threads and processes that are not killed go on; users need not do anything.
Fairness == /\ WF_vars(GuiEvent) /\ WF_vars(Worker) /\ WF_vars(Exit)
            /\ WF_vars(Probe) /\ WF_vars(Enter)
            /\ \A s \in Sessions : WF_vars(Relay(s)) /\ WF_vars(Engine(s))
FairSpec == Spec /\ Fairness

-----------------------------------------------------------------------------
(* Properties *)

Messages == {"Hello", "Ready", "AwaitingAppExit", "CommitExit", "Proceed", "Complete",
             "Failed", "Cancel"}

\* The types of the variables.
TypeOK ==
    /\ app \in {"running", "closing", "gone", "starting", "probed"}
    /\ startedBy \in {"user", "restart", "relaunch"}
    /\ prepared \in BOOLEAN
    /\ state \in {"Idle", "Preparing", "Waiting", "ExitCommitted", "Cancelled", "Failed"}
    /\ current \in {0} \cup Sessions /\ generation \in Nat
    /\ commitPending \in BOOLEAN /\ reservationHeld \in BOOLEAN
    /\ tasks \in Seq([task : {"start", "commit", "cancel", "discard"}, session : Sessions,
                       generation : Nat])
    /\ events \in Seq([event : {"started", "committed", "cancelled"}, session : Sessions,
                        generation : Nat, ok : BOOLEAN])
    /\ begun \in {0} \cup Sessions
    /\ exited \in SUBSET Sessions /\ committed \in SUBSET Sessions
    /\ guiPeer \in [Sessions -> HandoffStates] /\ relayPeer \in [Sessions -> HandoffStates]
    /\ relay \in [Sessions -> {"none", "boot", "hello", "ready", "launch", "authenticate",
                               "await", "tell", "commit", "forward", "poll", "finish",
                               "exitcode", "relaunch", "release", "restart", "leave", "gone"}]
    /\ engine \in [Sessions -> {"none", "hello", "ready", "prepare", "commit", "proceed",
                                "execute", "leave", "gone"}]
    /\ code \in [Sessions -> BOOLEAN]
    /\ open \in [Sessions -> SUBSET Ends]
    /\ wire \in [Sessions -> [Ends -> Seq(Messages)]]
    /\ holders \subseteq {Application} \cup {Boot(s) : s \in Sessions}
                        \cup {Observer(s) : s \in Sessions}
    /\ other \in {"out", "probed", "in"}

\* While the engine replaces files, and the relay that waits for it lives, no process
\* of the application that updates runs, neither the one that left nor one started
\* since, and no second engine with a living relay does.
Watched(s) == engine[s] = "execute" /\ Alive(relay[s])
NoAppWhileExecuting ==
    \A s \in Sessions : Watched(s) =>
        /\ app \in {"gone", "starting"}
        /\ \A r \in Sessions : Watched(r) => r = s

\* The reservation outlives the application: while the engine replaces files, and the
\* relay lives, some handle keeps the mutex in existence.
GateHeld == \A s \in Sessions : Watched(s) => GateClosed

\* The application that Coordinator::restart starts is not turned away by a handle
\* of the relay that restarts it.
RestartEnters ==
    \A s \in Sessions : app = "starting" /\ startedBy = "restart" /\ relay[s] = "leave" =>
        {Boot(s), Observer(s)} \cap holders = {}

\* The application stays frozen only as long as a handoff is under way.
FrozenOnlyInHandoff ==
    app = "running" /\ prepared => state \in {"Preparing", "Waiting"} /\ current # 0

\* The application leaves for an update only if the relay of the session it is in
\* has been sent CommitExit; no completion of an earlier session makes it leave.
LeavesForItsOwnSession ==
    [][app = "running" /\ app' = "closing" => guiPeer[current] = "ExitCommitted"]_vars

\* However a handoff ends, the directory can be entered and reserved again.
GateReopens == []<> ~ GateClosed

-----------------------------------------------------------------------------
(* What the code does not keep *)

\* The engine replaces files only for an application that committed its exit.
UpdatesOnlyIfCommitted ==
    \A s \in Sessions : engine[s] = "execute" => s \in committed

\* The application that is brought back after a failed transaction is not turned away.
\* It does not hold (relay.cpp:89): the README has the steps.
RelaunchEnters ==
    [][app = "starting" /\ startedBy = "relaunch" /\ app' # "starting" => app' = "probed"]_vars

\* No other instance has a lease on the directory while the engine replaces files.
\* It does not hold (installationactivity_win.cpp:63): the README has the steps.
NoOtherWhileExecuting ==
    \A s \in Sessions : engine[s] = "execute" => other # "in"

=============================================================================
