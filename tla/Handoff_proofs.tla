--------------------------- MODULE Handoff_proofs ---------------------------
(***************************************************************************)
(* Proofs about Handoff, for any number of sessions and any deaths: while  *)
(* the engine replaces files for a relay that lives, the application is    *)
(* out, the directory stays reserved, and there is one such engine.        *)
(***************************************************************************)
EXTENDS Handoff, SequencesExt, TLAPS

-----------------------------------------------------------------------------
(* The inductive invariant *)

Holds(s) == Boot(s) \in holders \/ Observer(s) \in holders

\* The relay has told the application that the engine waits; has been told that the
\* application leaves; has told the engine to proceed.
Early == {"none", "boot", "hello", "ready", "launch"}
Past == {"finish", "exitcode", "relaunch", "release", "restart", "leave"}
Beyond == Past \cup {"forward", "poll", "gone"}
Late == Beyond \cup {"commit"}

\* The sessions that the worker has been asked to commit.
Commits == {tasks[i].session : i \in {j \in DOMAIN tasks : tasks[j].task = "commit"}}

\* The GUI thread owns the last session or none.
Turns ==
    /\ current \in {0, begun}
    /\ state \in {"Preparing", "Waiting"} => current # 0
    /\ prepared => state \in {"Preparing", "Waiting"}
    /\ exited \subseteq 1 .. begun
    /\ \A s \in Sessions : s > begun => guiPeer[s] = "Connecting"

\* A task or a completion belongs to the present generation exactly if it belongs to
\* the present session, ...
Numbered(x) ==
    /\ x.session <= begun /\ x.generation <= generation
    /\ current # 0 => (x.session = current <=> x.generation = generation)

\* ... which has one at a time, and which only the last of them has committed.
Own(x) == current # 0 /\ x.session = current
Queues ==
    /\ \A i \in DOMAIN tasks : Numbered(tasks[i])
    /\ \A i \in DOMAIN events : Numbered(events[i])
    /\ \A i, j \in DOMAIN tasks : Own(tasks[i]) /\ Own(tasks[j]) => i = j
    /\ \A i, j \in DOMAIN events : Own(events[i]) /\ Own(events[j]) => i = j
    /\ \A i \in DOMAIN tasks, j \in DOMAIN events : ~ (Own(tasks[i]) /\ Own(events[j]))
    /\ \A i \in DOMAIN tasks : Own(tasks[i]) => guiPeer[current] # "ExitCommitted"
    /\ \A i \in DOMAIN events : Own(events[i]) =>
          IF events[i].event = "committed"
          THEN events[i].ok => guiPeer[current] = "ExitCommitted"
          ELSE guiPeer[current] # "ExitCommitted"

\* Where the relay has its handles on the mutex.
Handles(s) ==
    /\ Boot(s) \in holders => relay[s] \notin {"none", "boot", "restart", "gone"}
    /\ Observer(s) \in holders => relay[s] \notin Early \cup {"gone"}
    /\ relay[s] \notin {"none", "boot", "restart", "leave", "gone"} => Boot(s) \in holders
    /\ relay[s] \notin Early \cup {"leave", "gone"} => Observer(s) \in holders
    /\ relay[s] = "leave" => Boot(s) \in holders \/ (engine[s] = "gone" /\ ~ Holds(s))

\* What the application has learnt and the relay has been told comes after ...
Told(s) ==
    \/ "AwaitingAppExit" \in ToSet(wire[s]["gui"])
    \/ CanExit(guiPeer[s])
    \/ "CommitExit" \in ToSet(wire[s]["up"])
    \/ s \in Commits
    => relay[s] \in Late

\* ... and a relay that may go on to the update has handles in the last session only.
Sole(s) ==
    /\ s \in Commits \/ "CommitExit" \in ToSet(wire[s]["up"]) \/ relay[s] \in Beyond
    /\ Holds(s)
    => s = begun

\* The engine executes after the application's process has ended, and is done when the
\* relay has its answer.
Proceeds(s) == "Proceed" \in ToSet(wire[s]["engine"]) \/ engine[s] = "execute"
Engines(s) ==
    /\ relay[s] \in Past \/ Proceeds(s) => s \in exited
    /\ Proceeds(s) => relay[s] \in Past \cup {"gone"}
    /\ relay[s] \in Early => engine[s] = "none"
    /\ "Complete" \in ToSet(wire[s]["down"]) \/ relay[s] = "exitcode" =>
          engine[s] \in {"leave", "gone"}
    /\ relay[s] \in {"release", "restart"} => engine[s] = "gone"

Part(s) == Handles(s) /\ Told(s) /\ Sole(s) /\ Engines(s)
Parts == \A s \in Sessions : Part(s)

\* A relay of a session whose application has ended keeps the next one out, ...
Away == \A s \in exited : Boot(s) \in holders => app \in {"gone", "starting"}

\* ... unless it has started it itself and let go.
Restarted ==
    app = "starting" /\ startedBy = "restart" =>
        begun # 0 /\ relay[begun] \in {"leave", "gone"} /\ ~ Holds(begun)

HandoffInv == TypeOK /\ Turns /\ Queues /\ Parts /\ Away /\ Restarted

-----------------------------------------------------------------------------
(* Sessions, holders and queues *)

LEMMA SessionsAre ==
    /\ MaxSessions \in Nat
    /\ \A s \in Sessions : s \in Nat /\ s # 0 /\ s <= MaxSessions
    /\ \A n \in {0} \cup Sessions : n \in Nat /\ 1 .. n \subseteq Sessions
    /\ \A n \in {0} \cup Sessions : n < MaxSessions => n + 1 \in Sessions
<1>1. MaxSessions \in Nat
  BY HandoffAssumption
<1>2. QED
  BY <1>1 DEF Sessions

LEMMA HandlesDiffer ==
    \A r, s \in Sessions :
        /\ Boot(r) # Application /\ Observer(r) # Application /\ Boot(r) # Observer(s)
        /\ (Boot(r) = Boot(s) => r = s) /\ (Observer(r) = Observer(s) => r = s)
<1>1. "bootstrap" # "application" /\ "coordinator" # "application" /\ "bootstrap" # "coordinator"
  OBVIOUS
<1>2. QED
  BY <1>1 DEF Boot, Observer, Application

LEMMA Queue ==
    ASSUME NEW S, NEW q \in Seq(S)
    PROVE /\ \A x \in S :
             /\ Append(q, x) \in Seq(S)
             /\ DOMAIN Append(q, x) = DOMAIN q \cup {Len(q) + 1} /\ Len(q) + 1 \notin DOMAIN q
             /\ Append(q, x)[Len(q) + 1] = x
             /\ \A i \in DOMAIN q : Append(q, x)[i] = q[i]
             /\ ToSet(Append(q, x)) = ToSet(q) \cup {x}
          /\ q # <<>> =>
             /\ Tail(q) \in Seq(S) /\ Head(q) \in S /\ 1 \in DOMAIN q /\ Head(q) = q[1]
             /\ \A i \in DOMAIN Tail(q) :
                   i + 1 \in DOMAIN q /\ i + 1 # 1 /\ i \in Nat /\ Tail(q)[i] = q[i + 1]
             /\ ToSet(Tail(q)) \subseteq ToSet(q) /\ Head(q) \in ToSet(q)
          /\ ToSet(<<>>) = {} /\ DOMAIN <<>> = {}
<1>1. ASSUME NEW x \in S
      PROVE /\ Append(q, x) \in Seq(S)
            /\ DOMAIN Append(q, x) = DOMAIN q \cup {Len(q) + 1} /\ Len(q) + 1 \notin DOMAIN q
            /\ Append(q, x)[Len(q) + 1] = x
            /\ \A i \in DOMAIN q : Append(q, x)[i] = q[i]
  OBVIOUS
<1>2. ASSUME NEW x \in S
      PROVE ToSet(Append(q, x)) = ToSet(q) \cup {x}
  <2> DEFINE a == Append(q, x)
  <2>1. DOMAIN a = DOMAIN q \cup {Len(q) + 1} /\ a[Len(q) + 1] = x
        /\ \A i \in DOMAIN q : a[i] = q[i]
    BY <1>1
  <2>2. QED
    BY <2>1 DEF ToSet
<1>3. ASSUME q # <<>>
      PROVE /\ Tail(q) \in Seq(S) /\ Head(q) \in S /\ 1 \in DOMAIN q /\ Head(q) = q[1]
            /\ \A i \in DOMAIN Tail(q) :
                  i + 1 \in DOMAIN q /\ i + 1 # 1 /\ i \in Nat /\ Tail(q)[i] = q[i + 1]
  BY <1>3
<1>4. ASSUME q # <<>>
      PROVE ToSet(Tail(q)) \subseteq ToSet(q) /\ Head(q) \in ToSet(q)
  <2> DEFINE t == Tail(q)
  <2>1. \A i \in DOMAIN t : i + 1 \in DOMAIN q /\ t[i] = q[i + 1]
    BY <1>3, <1>4
  <2>2. 1 \in DOMAIN q /\ Head(q) = q[1]
    BY <1>3, <1>4
  <2>3. QED
    BY <2>1, <2>2 DEF ToSet
<1>5. ToSet(<<>>) = {} /\ DOMAIN <<>> = {}
  BY DEF ToSet
<1>6. QED
  BY <1>1, <1>2, <1>3, <1>4, <1>5

-----------------------------------------------------------------------------
(* Pipes *)

Wires == [Sessions -> [Ends -> Seq(Messages)]]
Opens == [Sessions -> SUBSET Ends]

LEMMA EndsAre ==
    /\ {"gui", "up", "down", "engine"} \subseteq Ends
    /\ Peer("gui") = "up" /\ Peer("up") = "gui" /\ Peer("down") = "engine" /\ Peer("engine") = "down"
BY DEF Ends, Peer

\* One message more at one end.
Added(w, s, end, kind) == [w EXCEPT ![s][end] = Append(@, kind)]

LEMMA AddsMessage ==
    ASSUME NEW w \in Wires, NEW s \in Sessions, NEW end \in Ends, NEW kind \in Messages
    PROVE Added(w, s, end, kind) \in Wires
<1>1. w[s][end] \in Seq(Messages)
  BY DEF Wires
<1>2. Append(w[s][end], kind) \in Seq(Messages)
  BY <1>1, Queue
<1>3. QED
  BY <1>2 DEF Wires, Added

LEMMA Adds ==
    ASSUME NEW w \in Wires, NEW s \in Sessions, NEW end \in Ends, NEW kind \in Messages,
           NEW r \in Sessions, NEW e \in Ends, NEW m \in ToSet(Added(w, s, end, kind)[r][e])
    PROVE m \in ToSet(w[r][e]) \/ (r = s /\ e = end /\ m = kind)
<1> DEFINE q == w[s][end]
<1>1. q \in Seq(Messages)
  BY DEF Wires
<1>2. ToSet(Append(q, kind)) = ToSet(q) \cup {kind}
  BY <1>1, Queue
<1>3. CASE r = s /\ e = end
  <2>1. Added(w, s, end, kind)[r][e] = Append(q, kind)
    BY <1>3 DEF Wires, Added
  <2>2. QED
    BY <1>2, <1>3, <2>1
<1>4. CASE ~ (r = s /\ e = end)
  <2>1. Added(w, s, end, kind)[r][e] = w[r][e]
    BY <1>4 DEF Wires, Added
  <2>2. QED
    BY <2>1
<1>5. QED
  BY <1>3, <1>4

\* Messages are sent to the peer, ...
LEMMA SendsMessage ==
    ASSUME wire \in Wires, NEW s \in Sessions, NEW end \in Ends, NEW kind \in Messages
    PROVE Put(s, end, kind) \in Wires /\ Sent(s, end, kind) \in Wires
<1>1. Peer(end) \in Ends /\ Put(s, end, kind) = Added(wire, s, Peer(end), kind)
  BY DEF Ends, Peer, Put, Added
<1>2. Put(s, end, kind) \in Wires
  BY <1>1, AddsMessage
<1>3. QED
  BY <1>2 DEF Sent

LEMMA Sends ==
    ASSUME wire \in Wires, NEW s \in Sessions, NEW end \in Ends, NEW kind \in Messages,
           NEW w \in {Put(s, end, kind), Sent(s, end, kind)},
           NEW r \in Sessions, NEW e \in Ends, NEW m \in ToSet(w[r][e])
    PROVE m \in ToSet(wire[r][e]) \/ (r = s /\ e = Peer(end) /\ m = kind)
<1>1. Peer(end) \in Ends /\ Put(s, end, kind) = Added(wire, s, Peer(end), kind)
  BY DEF Ends, Peer, Put, Added
<1>2. w = wire \/ w = Added(wire, s, Peer(end), kind)
  BY <1>1 DEF Sent
<1>3. CASE w = wire
  BY <1>3
<1>4. CASE w = Added(wire, s, Peer(end), kind)
  BY <1>1, <1>4, Adds
<1>5. QED
  BY <1>2, <1>3, <1>4

LEMMA Sending ==
    ASSUME wire \in Wires, NEW s \in Sessions, NEW end \in Ends, NEW kind \in Messages,
           wire' \in {Put(s, end, kind), Sent(s, end, kind)}
    PROVE \A r \in Sessions, e \in Ends : \A m \in ToSet(wire'[r][e]) :
             m \in ToSet(wire[r][e]) \/ (r = s /\ e = Peer(end) /\ m = kind)
<1> DEFINE w == wire'
<1>1. w \in {Put(s, end, kind), Sent(s, end, kind)}
  OBVIOUS
<1> HIDE DEF w
<1>2. ASSUME NEW r \in Sessions, NEW e \in Ends, NEW m \in ToSet(w[r][e])
      PROVE m \in ToSet(wire[r][e]) \/ (r = s /\ e = Peer(end) /\ m = kind)
  BY <1>1, <1>2, Sends
<1>3. QED
  BY <1>2 DEF w

\* ... taken from the front ...
LEMMA Takes ==
    ASSUME wire \in Wires, NEW s \in Sessions, NEW end \in Ends, NEW kind, Arrived(s, end, kind)
    PROVE /\ Take(s, end) \in Wires
          /\ \A r \in Sessions, e \in Ends : ToSet(Take(s, end)[r][e]) \subseteq ToSet(wire[r][e])
          /\ kind \in ToSet(wire[s][end])
<1> DEFINE q == wire[s][end]
<1>1. q \in Seq(Messages) /\ q # <<>> /\ Head(q) = kind
  BY DEF Wires, Arrived
<1>2. Tail(q) \in Seq(Messages) /\ ToSet(Tail(q)) \subseteq ToSet(q) /\ kind \in ToSet(q)
  BY <1>1, Queue
<1>3. Take(s, end) = [r \in Sessions |-> [e \in Ends |-> IF r = s /\ e = end THEN Tail(q) ELSE wire[r][e]]]
  BY DEF Wires, Take
<1>4. Take(s, end) \in Wires
  BY <1>2, <1>3 DEF Wires
<1>5. ASSUME NEW r \in Sessions, NEW e \in Ends
      PROVE ToSet(Take(s, end)[r][e]) \subseteq ToSet(wire[r][e])
  <2>1. CASE r = s /\ e = end
    <3>1. Take(s, end)[r][e] = Tail(q) /\ wire[r][e] = q
      BY <1>3, <2>1
    <3>2. QED
      BY <1>2, <3>1
  <2>2. CASE ~ (r = s /\ e = end)
    <3>1. Take(s, end)[r][e] = wire[r][e]
      BY <1>3, <2>2
    <3>2. QED
      BY <3>1
  <2>3. QED
    BY <2>1, <2>2
<1>6. QED
  BY <1>2, <1>4, <1>5

\* ... and lost with the end that closes.
LEMMA Closes ==
    ASSUME open \in Opens, NEW s \in Sessions, NEW ends \in SUBSET Ends, NEW w \in Wires,
           Close(s, ends, w)
    PROVE /\ open' \in Opens /\ wire' \in Wires
          /\ \A r \in Sessions, e \in Ends : ToSet(wire'[r][e]) \subseteq ToSet(w[r][e])
          /\ \A e \in ends : ToSet(wire'[s][e]) = {}
<1>1. open' \in Opens
  BY DEF Opens, Close
<1>2. wire' = [r \in Sessions |-> [e \in Ends |-> IF r = s /\ e \in ends THEN <<>> ELSE w[r][e]]]
  BY DEF Close, Wires
<1>3. <<>> \in Seq(Messages) /\ ToSet(<<>>) = {}
  BY DEF ToSet
<1>4. wire' \in Wires
  BY <1>2, <1>3 DEF Wires
<1>5. \A r \in Sessions, e \in Ends : wire'[r][e] = IF r = s /\ e \in ends THEN <<>> ELSE w[r][e]
  BY <1>2
<1>6. QED
  BY <1>1, <1>3, <1>4, <1>5

-----------------------------------------------------------------------------
(* Sessions that a step leaves alone *)

RelayStates == {"none", "boot", "hello", "ready", "launch", "authenticate", "await", "tell",
                "commit", "forward", "poll", "finish", "exitcode", "relaunch", "release",
                "restart", "leave", "gone"}
EngineStates == {"none", "hello", "ready", "prepare", "commit", "proceed", "execute", "leave",
                 "gone"}
Holders == {Application} \cup {Boot(s) : s \in Sessions} \cup {Observer(s) : s \in Sessions}
Tasks == [task : {"start", "commit", "cancel", "discard"}, session : Sessions, generation : Nat]
Events == [event : {"started", "committed", "cancelled"}, session : Sessions,
           generation : Nat, ok : BOOLEAN]

\* The types, as the proofs use them.
LEMMA Types ==
    TypeOK <=>
        /\ app \in {"running", "closing", "gone", "starting", "probed"}
        /\ startedBy \in {"user", "restart", "relaunch"}
        /\ prepared \in BOOLEAN
        /\ state \in {"Idle", "Preparing", "Waiting", "ExitCommitted", "Cancelled", "Failed"}
        /\ current \in {0} \cup Sessions /\ generation \in Nat
        /\ commitPending \in BOOLEAN /\ reservationHeld \in BOOLEAN
        /\ tasks \in Seq(Tasks) /\ events \in Seq(Events)
        /\ begun \in {0} \cup Sessions
        /\ exited \in SUBSET Sessions /\ committed \in SUBSET Sessions
        /\ guiPeer \in [Sessions -> HandoffStates] /\ relayPeer \in [Sessions -> HandoffStates]
        /\ relay \in [Sessions -> RelayStates] /\ engine \in [Sessions -> EngineStates]
        /\ code \in [Sessions -> BOOLEAN]
        /\ open \in Opens /\ wire \in Wires
        /\ holders \subseteq Holders
        /\ other \in {"out", "probed", "in"}
BY DEF TypeOK, RelayStates, EngineStates, Holders, Tasks, Events, Opens, Wires

LEMMA TypesNext ==
    TypeOK' <=>
        /\ app' \in {"running", "closing", "gone", "starting", "probed"}
        /\ startedBy' \in {"user", "restart", "relaunch"}
        /\ prepared' \in BOOLEAN
        /\ state' \in {"Idle", "Preparing", "Waiting", "ExitCommitted", "Cancelled", "Failed"}
        /\ current' \in {0} \cup Sessions /\ generation' \in Nat
        /\ commitPending' \in BOOLEAN /\ reservationHeld' \in BOOLEAN
        /\ tasks' \in Seq(Tasks) /\ events' \in Seq(Events)
        /\ begun' \in {0} \cup Sessions
        /\ exited' \in SUBSET Sessions /\ committed' \in SUBSET Sessions
        /\ guiPeer' \in [Sessions -> HandoffStates] /\ relayPeer' \in [Sessions -> HandoffStates]
        /\ relay' \in [Sessions -> RelayStates] /\ engine' \in [Sessions -> EngineStates]
        /\ code' \in [Sessions -> BOOLEAN]
        /\ open' \in Opens /\ wire' \in Wires
        /\ holders' \subseteq Holders
        /\ other' \in {"out", "probed", "in"}
BY DEF TypeOK, RelayStates, EngineStates, Holders, Tasks, Events, Opens, Wires

\* None of the messages that the invariant speaks of is added.
NoNews(s) ==
    /\ "AwaitingAppExit" \in ToSet(wire'[s]["gui"]) => "AwaitingAppExit" \in ToSet(wire[s]["gui"])
    /\ "CommitExit" \in ToSet(wire'[s]["up"]) => "CommitExit" \in ToSet(wire[s]["up"])
    /\ "Proceed" \in ToSet(wire'[s]["engine"]) => "Proceed" \in ToSet(wire[s]["engine"])
    /\ "Complete" \in ToSet(wire'[s]["down"]) => "Complete" \in ToSet(wire[s]["down"])

\* A step that leaves r where it is.
Still(r) ==
    /\ relay'[r] = relay[r] /\ engine'[r] = engine[r] /\ NoNews(r)
    /\ guiPeer'[r] \in {guiPeer[r], Aborted}
    /\ Boot(r) \in holders' <=> Boot(r) \in holders
    /\ Observer(r) \in holders' <=> Observer(r) \in holders
    /\ r \in Commits' => r \in Commits
    /\ exited \subseteq exited' /\ begun' = begun

LEMMA StillPart ==
    ASSUME NEW r \in Sessions, Part(r), Still(r)
    PROVE Part(r)'
<1>1. /\ "AwaitingAppExit" \in ToSet(wire'[r]["gui"]) => "AwaitingAppExit" \in ToSet(wire[r]["gui"])
      /\ "CommitExit" \in ToSet(wire'[r]["up"]) => "CommitExit" \in ToSet(wire[r]["up"])
      /\ "Proceed" \in ToSet(wire'[r]["engine"]) => "Proceed" \in ToSet(wire[r]["engine"])
      /\ "Complete" \in ToSet(wire'[r]["down"]) => "Complete" \in ToSet(wire[r]["down"])
  BY DEF Still, NoNews
<1>2. Holds(r)' <=> Holds(r)
  BY DEF Holds, Still
<1>3. Handles(r)'
  BY <1>2 DEF Handles, Part, Still
<1>4. CanExit(guiPeer'[r]) => CanExit(guiPeer[r])
  BY DEF CanExit, Still, Aborted
<1>5. Told(r)'
  <2>1. CanExit(guiPeer[r])' = CanExit(guiPeer'[r])
    BY DEF CanExit
  <2>2. QED
    BY <1>1, <1>4, <2>1 DEF Told, Part, Still
<1>6. Sole(r)'
  BY <1>1, <1>2 DEF Sole, Part, Still
<1>7. Engines(r)'
  BY <1>1 DEF Engines, Proceeds, Part, Still
<1>8. QED
  BY <1>3, <1>5, <1>6, <1>7 DEF Part

\* A step of the relay or the engine of s disturbs only what concerns s.
LEMMA SessionStep ==
    ASSUME HandoffInv, NEW s \in Sessions,
           UNCHANGED <<guiVars, begun, exited, guiPeer>>,
           TypeOK', Part(s)', \A r \in Sessions \ {s} : Still(r),
           UNCHANGED <<app, startedBy>>,
           \/ relay[s] \notin {"leave", "gone"}
           \/ relay'[s] \in {relay[s], "gone"} /\ (Holds(s)' => Holds(s)),
           Boot(s) \in holders' => Boot(s) \in holders \/ s \notin exited
    PROVE HandoffInv'
<1>1. Turns' /\ Queues'
  BY DEF HandoffInv, Turns, Queues, Numbered, Own, guiVars
<1>2. Parts'
  <2>1. \A r \in Sessions \ {s} : Part(r)'
    BY StillPart DEF HandoffInv, Parts
  <2>2. QED
    BY <2>1 DEF Parts
<1>3. Away'
  <2>1. exited \subseteq Sessions
    BY Types DEF HandoffInv
  <2>2. \A r \in exited : Boot(r) \in holders' => Boot(r) \in holders
    BY <2>1 DEF Still
  <2>3. QED
    BY <2>2 DEF HandoffInv, Away
<1>4. Restarted'
  <2>1. SUFFICES ASSUME app = "starting", startedBy = "restart"
                 PROVE (begun # 0 /\ relay[begun] \in {"leave", "gone"} /\ ~ Holds(begun))'
    BY DEF Restarted
  <2>2. begun # 0 /\ relay[begun] \in {"leave", "gone"} /\ ~ Holds(begun) /\ begun' = begun
    BY <2>1 DEF HandoffInv, Restarted
  <2>3. begun \in Sessions
    BY <2>2, Types DEF HandoffInv
  <2>4. CASE Still(begun)
    BY <2>2, <2>4 DEF Still, Holds
  <2>5. CASE relay'[begun] \in {relay[begun], "gone"} /\ (Holds(begun)' => Holds(begun))
    BY <2>2, <2>5
  <2>6. QED
    BY <2>2, <2>3, <2>4, <2>5
<1>5. QED
  BY <1>1, <1>2, <1>3, <1>4 DEF HandoffInv

-----------------------------------------------------------------------------
(* The relay *)

\* The parts of the state a step of the relay may change, and their types.
LEMMA RelayTypes ==
    ASSUME TypeOK, RelayUnchanged,
           app' \in {app, "starting"}, startedBy' \in {startedBy, "restart", "relaunch"},
           relay' \in [Sessions -> RelayStates], relayPeer' \in [Sessions -> HandoffStates],
           engine' \in [Sessions -> EngineStates],
           open' \in Opens, wire' \in Wires, holders' \subseteq Holders
    PROVE TypeOK'
<1>1. UNCHANGED <<prepared, state, current, generation, commitPending, reservationHeld,
                  tasks, events, begun, exited, committed, guiPeer, code, other>>
  BY DEF RelayUnchanged, guiVars
<1>2. /\ app' \in {"running", "closing", "gone", "starting", "probed"}
      /\ startedBy' \in {"user", "restart", "relaunch"}
  BY Types
<1>3. QED
  BY <1>1, <1>2, Types, TypesNext

\* The process ends, after `w' was sent.
LEMMA RelayEndsKeeps ==
    ASSUME HandoffInv, NEW s \in Sessions, NEW w \in {wire, Sent(s, "up", "Failed")},
           RelayEnds(s, w), RelayUnchanged, UNCHANGED <<app, startedBy, engine>>
    PROVE HandoffInv'
<1>1. TypeOK
  BY DEF HandoffInv
<1>2. wire \in Wires /\ open \in Opens
  BY <1>1, Types
<1>3. w \in Wires
  BY <1>2, SendsMessage, EndsAre DEF Messages
<1>4. \A r \in Sessions, e \in Ends : \A m \in ToSet(w[r][e]) :
         m \in ToSet(wire[r][e]) \/ (r = s /\ m = "Failed")
  BY <1>2, Sends, EndsAre DEF Messages
<1>5. Close(s, {"up", "down"}, w) /\ {"up", "down"} \subseteq Ends
  BY EndsAre DEF RelayEnds
<1>6. /\ open' \in Opens /\ wire' \in Wires
      /\ \A r \in Sessions, e \in Ends : ToSet(wire'[r][e]) \subseteq ToSet(w[r][e])
  BY <1>2, <1>3, <1>5, Closes
<1>7. ToSet(wire'[s]["up"]) = {} /\ ToSet(wire'[s]["down"]) = {}
  BY <1>2, <1>3, <1>5, Closes
<1>8. /\ relay' = [relay EXCEPT ![s] = "gone"] /\ relayPeer' = [relayPeer EXCEPT ![s] = Aborted]
      /\ holders' = holders \ {Boot(s), Observer(s)}
  BY DEF RelayEnds, To
<1>9. /\ relay'[s] = "gone" /\ \A r \in Sessions \ {s} : relay'[r] = relay[r]
      /\ relay' \in [Sessions -> RelayStates] /\ relayPeer' \in [Sessions -> HandoffStates]
  BY <1>1, <1>8, Types DEF RelayStates, HandoffStates
<1>10. TypeOK'
  <2>1. holders' \subseteq Holders /\ engine' \in [Sessions -> EngineStates]
    BY <1>1, <1>8, Types
  <2>2. QED
    BY <1>1, <1>6, <1>9, <2>1, RelayTypes
<1>11. ASSUME NEW r \in Sessions \ {s}
       PROVE Still(r)
  <2>1. NoNews(r)
    BY <1>4, <1>6, EndsAre DEF NoNews
  <2>2. Boot(r) \in holders' <=> Boot(r) \in holders
    BY <1>8, HandlesDiffer
  <2>3. Observer(r) \in holders' <=> Observer(r) \in holders
    BY <1>8, HandlesDiffer
  <2>4. QED
    BY <1>9, <2>1, <2>2, <2>3 DEF Still, RelayUnchanged, guiVars, Commits
<1>12. ~ Holds(s)'
  BY <1>8 DEF Holds
<1>13. Part(s)'
  <2>1. "Proceed" \in ToSet(wire'[s]["engine"]) => "Proceed" \in ToSet(wire[s]["engine"])
    BY <1>4, <1>6, EndsAre
  <2>2. Handles(s)'
    BY <1>9, <1>12 DEF Handles, Holds, Early
  <2>3. Told(s)' /\ Sole(s)'
    BY <1>9, <1>12 DEF Told, Sole, Late, Beyond
  <2>4. Engines(s)
    BY DEF HandoffInv, Parts, Part
  <2>5. Engines(s)'
    BY <1>7, <1>9, <2>1, <2>4 DEF Engines, Proceeds, RelayUnchanged, Past, Early
  <2>6. QED
    BY <2>2, <2>3, <2>5 DEF Part
<1>14. QED
  <2>1. UNCHANGED <<guiVars, begun, exited, guiPeer>>
    BY DEF RelayUnchanged
  <2>2. Boot(s) \in holders' => Boot(s) \in holders
    BY <1>8
  <2>3. QED
    BY <1>9, <1>10, <1>11, <1>12, <1>13, <2>1, <2>2, SessionStep

\* Any other step of the relay: one process moves, one handle at most comes or goes.
LEMMA RelayMoves ==
    ASSUME HandoffInv, NEW s \in Sessions, NEW pc \in RelayStates, To(s, pc),
           relay[s] \notin {"leave", "gone"},
           RelayUnchanged, UNCHANGED <<app, startedBy>>,
           relayPeer' \in [Sessions -> HandoffStates],
           engine' \in [Sessions -> EngineStates], \A r \in Sessions \ {s} : engine'[r] = engine[r],
           open' \in Opens, wire' \in Wires,
           \A r \in Sessions \ {s} : \A e \in Ends : ToSet(wire'[r][e]) \subseteq ToSet(wire[r][e]),
           holders' \in {holders, holders \cup {Boot(s)}, holders \cup {Observer(s)},
                         holders \ {Boot(s)}},
           Boot(s) \in holders' => Boot(s) \in holders \/ s \notin exited,
           Part(s)'
    PROVE HandoffInv'
<1>1. TypeOK
  BY DEF HandoffInv
<1>2. relay' \in [Sessions -> RelayStates] /\ \A r \in Sessions \ {s} : relay'[r] = relay[r]
  BY <1>1, Types DEF To
<1>3. holders' \subseteq Holders
  BY <1>1, Types DEF Holders
<1>4. TypeOK'
  BY <1>1, <1>2, <1>3, RelayTypes
<1>5. ASSUME NEW r \in Sessions \ {s}
      PROVE Still(r)
  <2>1. Boot(r) \in holders' <=> Boot(r) \in holders
    BY HandlesDiffer
  <2>2. Observer(r) \in holders' <=> Observer(r) \in holders
    BY HandlesDiffer
  <2>3. QED
    BY <1>2, <2>1, <2>2, EndsAre DEF Still, NoNews, RelayUnchanged, guiVars, Commits
<1>6. UNCHANGED <<guiVars, begun, exited, guiPeer>>
  BY DEF RelayUnchanged
<1>7. QED
  BY <1>4, <1>5, <1>6, SessionStep

\* What a relay that moves from one place to another has to show of its own session.
LEMMA MovedPart ==
    ASSUME HandoffInv, NEW s \in Sessions, NEW from, NEW pc,
           relay[s] = from, relay'[s] = pc, engine'[s] = engine[s], RelayUnchanged, NoNews(s),
           \/ <<from, pc>> \in
                 {<<"hello", "ready">>, <<"ready", "launch">>, <<"authenticate", "await">>,
                  <<"await", "tell">>, <<"forward", "poll">>, <<"finish", "relaunch">>,
                  <<"exitcode", "relaunch">>}
              /\ holders' = holders
           \/ <<from, pc>> = <<"commit", "forward">> /\ holders' = holders
              /\ "CommitExit" \in ToSet(wire[s]["up"])
           \/ <<from, pc>> = <<"finish", "exitcode">> /\ holders' = holders
              /\ "Complete" \in ToSet(wire[s]["down"])
           \/ <<from, pc>> = <<"exitcode", "release">> /\ holders' = holders /\ engine[s] = "gone"
           \/ <<from, pc>> = <<"release", "restart">> /\ holders' = holders \ {Boot(s)}
           \/ <<from, pc>> = <<"boot", "hello">> /\ holders' = holders \cup {Boot(s)}
    PROVE Part(s)'
<1>1. Handles(s) /\ Told(s) /\ Sole(s) /\ Engines(s)
  BY DEF HandoffInv, Parts, Part
<1>2. UNCHANGED <<guiPeer, tasks, exited, begun>> /\ Commits' = Commits
  BY DEF RelayUnchanged, guiVars, Commits
<1>3. Boot(s) # Observer(s)
  BY HandlesDiffer
<1>4. Handles(s)'
  BY <1>1, <1>3 DEF Handles, Holds, Early
<1>5. Told(s)'
  BY <1>1, <1>2 DEF Told, CanExit, Late, Beyond, Past, NoNews
<1>6. Sole(s)'
  BY <1>1, <1>2, <1>3 DEF Sole, Told, Holds, Late, Beyond, Past, NoNews
<1>7. Engines(s)'
  BY <1>1, <1>2 DEF Engines, Proceeds, Past, Early, NoNews
<1>8. QED
  BY <1>4, <1>5, <1>6, <1>7 DEF Part

LEMMA Accepts == \A peer, kind : Accept(peer, kind) \in HandoffStates
BY DEF Accept, HandoffStates

LEMMA Admits ==
    ASSUME TypeOK, NEW s \in Sessions, NEW kind, Admit(s, kind)
    PROVE relayPeer' \in [Sessions -> HandoffStates]
<1>1. relayPeer \in [Sessions -> HandoffStates]
  BY Types
<1>2. QED
  BY <1>1, Accepts DEF Admit

LEMMA RelayFailsKeeps ==
    ASSUME HandoffInv, NEW s \in Sessions, RelayFails(s), RelayUnchanged
    PROVE HandoffInv'
BY RelayEndsKeeps DEF RelayFails

\* What every step below starts from.
LEMMA StartsFrom ==
    ASSUME HandoffInv
    PROVE /\ TypeOK /\ wire \in Wires /\ open \in Opens
          /\ relay \in [Sessions -> RelayStates] /\ relayPeer \in [Sessions -> HandoffStates]
          /\ engine \in [Sessions -> EngineStates]
          /\ \A s \in Sessions : Handles(s) /\ Told(s) /\ Sole(s) /\ Engines(s)
BY Types DEF HandoffInv, Parts, Part

LEMMA BootstrapKeeps ==
    ASSUME HandoffInv, NEW s \in Sessions, Bootstrap(s)
    PROVE HandoffInv'
<1>1. CASE RelayEnds(s, wire)
  BY <1>1, RelayEndsKeeps DEF Bootstrap
<1>2. CASE /\ s \notin exited /\ holders' = holders \cup {Boot(s)} /\ To(s, "hello")
           /\ UNCHANGED <<relayPeer, pipeVars>>
  <2>1. relay[s] = "boot" /\ relay'[s] = "hello" /\ NoNews(s)
    BY <1>2, StartsFrom DEF Bootstrap, To, NoNews, pipeVars
  <2>2. Part(s)'
    BY <1>2, <2>1, MovedPart DEF Bootstrap
  <2>3. QED
    BY <1>2, <2>1, <2>2, StartsFrom, RelayMoves DEF Bootstrap, pipeVars, RelayStates
<1>3. QED
  BY <1>1, <1>2 DEF Bootstrap

LEMMA GreetKeeps ==
    ASSUME HandoffInv, NEW s \in Sessions, Greet(s)
    PROVE HandoffInv'
<1>1. CASE RelayEnds(s, wire)
  BY <1>1, RelayEndsKeeps DEF Greet
<1>2. CASE /\ open' = [open EXCEPT ![s] = @ \cup {"up"}] /\ wire' = Put(s, "up", "Hello")
           /\ To(s, "ready") /\ UNCHANGED <<relayPeer, holders>>
  <2>1. relay[s] = "hello" /\ relay'[s] = "ready"
    BY <1>2, StartsFrom DEF Greet, To
  <2>2. wire' \in Wires
    BY <1>2, StartsFrom, SendsMessage, EndsAre DEF Messages
  <2>3. \A r \in Sessions, e \in Ends : \A m \in ToSet(wire'[r][e]) :
           m \in ToSet(wire[r][e]) \/ (r = s /\ m = "Hello")
    <3>1. /\ wire \in Wires /\ "up" \in Ends /\ "Hello" \in Messages
          /\ wire' \in {Put(s, "up", "Hello"), Sent(s, "up", "Hello")}
      BY <1>2, StartsFrom, EndsAre DEF Messages
    <3>2. QED
      BY <3>1, Sending
  <2>4. NoNews(s)
    BY <2>3, EndsAre DEF NoNews
  <2>5. Part(s)'
    BY <1>2, <2>1, <2>4, MovedPart DEF Greet
  <2>6. open' \in Opens
    BY <1>2, StartsFrom, EndsAre DEF Opens
  <2>7. \A r \in Sessions \ {s} : \A e \in Ends : ToSet(wire'[r][e]) \subseteq ToSet(wire[r][e])
    BY <2>3
  <2>8. QED
    BY <1>2, <2>1, <2>2, <2>5, <2>6, <2>7, StartsFrom, RelayMoves DEF Greet, RelayStates
<1>3. QED
  BY <1>1, <1>2 DEF Greet

LEMMA WelcomedKeeps ==
    ASSUME HandoffInv, NEW s \in Sessions, Welcomed(s)
    PROVE HandoffInv'
<1>1. CASE RelayEnds(s, wire)
  BY <1>1, RelayEndsKeeps DEF Welcomed
<1>2. CASE /\ Arrived(s, "up", "Ready") /\ wire' = Take(s, "up")
           /\ To(s, "launch") /\ UNCHANGED <<relayPeer, open, holders>>
  <2>1. relay[s] = "ready" /\ relay'[s] = "launch"
    BY <1>2, StartsFrom DEF Welcomed, To
  <2>2. /\ wire' \in Wires
        /\ \A r \in Sessions, e \in Ends : ToSet(wire'[r][e]) \subseteq ToSet(wire[r][e])
    BY <1>2, StartsFrom, Takes, EndsAre
  <2>3. NoNews(s)
    BY <2>2, EndsAre DEF NoNews
  <2>4. Part(s)'
    BY <1>2, <2>1, <2>3, MovedPart DEF Welcomed
  <2>5. QED
    BY <1>2, <2>1, <2>2, <2>4, StartsFrom, RelayMoves DEF Welcomed, RelayStates
<1>3. QED
  BY <1>1, <1>2 DEF Welcomed

LEMMA StartInstallerKeeps ==
    ASSUME HandoffInv, NEW s \in Sessions, StartInstaller(s)
    PROVE HandoffInv'
<1>1. CASE RelayFails(s)
  BY <1>1, RelayFailsKeeps DEF StartInstaller
<1>2. CASE /\ holders' = holders \cup {Observer(s)}
           /\ open' = [open EXCEPT ![s] = @ \cup {"down"}]
           /\ engine' = [engine EXCEPT ![s] = "hello"]
           /\ To(s, "authenticate") /\ UNCHANGED <<app, startedBy, relayPeer, wire>>
  <2>1. relay[s] = "launch" /\ relay'[s] = "authenticate" /\ engine'[s] = "hello"
    BY <1>2, StartsFrom DEF StartInstaller, To
  <2>2. /\ engine' \in [Sessions -> EngineStates]
        /\ \A r \in Sessions \ {s} : engine'[r] = engine[r]
    BY <1>2, StartsFrom DEF EngineStates
  <2>3. UNCHANGED <<guiPeer, tasks, exited, begun, wire>> /\ Commits' = Commits
    BY <1>2 DEF StartInstaller, RelayUnchanged, guiVars, Commits
  <2>4. Handles(s) /\ Told(s) /\ Sole(s) /\ Engines(s)
    BY StartsFrom
  <2>5. Boot(s) # Observer(s)
    BY HandlesDiffer
  <2>6. Part(s)'
    <3>1. Handles(s)'
      BY <1>2, <2>1, <2>4, <2>5 DEF Handles, Holds, Early
    <3>2. Told(s)'
      BY <2>1, <2>3, <2>4 DEF Told, CanExit, Late, Beyond, Past
    <3>3. Sole(s)'
      BY <2>1, <2>3, <2>4 DEF Sole, Told, Holds, Late, Beyond, Past
    <3>4. Engines(s)'
      BY <2>1, <2>3, <2>4 DEF Engines, Proceeds, Past, Early
    <3>5. QED
      BY <3>1, <3>2, <3>3, <3>4 DEF Part
  <2>7. open' \in Opens
    BY <1>2, StartsFrom, EndsAre DEF Opens
  <2>8. Boot(s) \in holders' => Boot(s) \in holders
    BY <1>2, <2>5
  <2>9. QED
    BY <1>2, <2>1, <2>2, <2>3, <2>6, <2>7, <2>8, StartsFrom, RelayMoves
       DEF StartInstaller, RelayStates
<1>3. QED
  BY <1>1, <1>2 DEF StartInstaller

LEMMA AuthenticateEngineKeeps ==
    ASSUME HandoffInv, NEW s \in Sessions, AuthenticateEngine(s)
    PROVE HandoffInv'
<1>1. RelayUnchanged /\ relay[s] = "authenticate"
  BY DEF AuthenticateEngine, Await
<1>2. CASE RelayFails(s)
  BY <1>1, <1>2, RelayFailsKeeps
<1>3. CASE /\ Arrived(s, "down", "Hello") /\ Admit(s, "Hello")
           /\ wire' = [Take(s, "down") EXCEPT ![s].engine = Append(@, "Ready")]
           /\ To(s, "await") /\ UNCHANGED <<app, startedBy, engine, open, holders>>
  <2>1. relay'[s] = "await" /\ relayPeer' \in [Sessions -> HandoffStates]
    BY <1>3, StartsFrom, Admits DEF To
  <2> DEFINE w == Take(s, "down")
  <2>2. /\ w \in Wires
        /\ \A r \in Sessions, e \in Ends : ToSet(w[r][e]) \subseteq ToSet(wire[r][e])
    BY <1>3, StartsFrom, Takes, EndsAre
  <2>3. wire' = Added(w, s, "engine", "Ready")
    BY <1>3 DEF Added
  <2> HIDE DEF w
  <2>4. wire' \in Wires
    BY <2>2, <2>3, AddsMessage, EndsAre DEF Messages
  <2>5. \A r \in Sessions, e \in Ends : \A m \in ToSet(wire'[r][e]) :
           m \in ToSet(w[r][e]) \/ (r = s /\ m = "Ready")
    BY <2>2, <2>3, Adds, EndsAre DEF Messages
  <2>6. NoNews(s)
    BY <2>2, <2>5, EndsAre DEF NoNews
  <2>7. \A r \in Sessions \ {s} : \A e \in Ends : ToSet(wire'[r][e]) \subseteq ToSet(wire[r][e])
    BY <2>2, <2>5
  <2>8. Part(s)'
    BY <1>1, <1>3, <2>1, <2>6, MovedPart
  <2>9. QED
    BY <1>1, <1>3, <2>1, <2>4, <2>7, <2>8, StartsFrom, RelayMoves DEF RelayStates
<1>4. QED
  BY <1>2, <1>3 DEF AuthenticateEngine, Await

\* The three steps that take a message of the engine or the application.
LEMMA TakingKeeps ==
    ASSUME HandoffInv, NEW s \in Sessions,
           EngineWaits(s) \/ ReceiveCommit(s) \/ FinishMessage(s)
    PROVE HandoffInv'
<1>1. RelayUnchanged
  BY DEF EngineWaits, Await, ReceiveCommit, FinishMessage
<1>2. CASE RelayFails(s)
  BY <1>1, <1>2, RelayFailsKeeps
<1> DEFINE Taken(from, end, kind, pc) ==
              /\ relay[s] = from /\ Arrived(s, end, kind) /\ wire' = Take(s, end) /\ To(s, pc)
              /\ (relayPeer' = relayPeer \/ Admit(s, kind))
              /\ UNCHANGED <<app, startedBy, engine, open, holders>>
<1>3. ASSUME NEW from, NEW end \in Ends, NEW kind, NEW pc, Taken(from, end, kind, pc),
             <<from, end, kind, pc>> \in
                {<<"await", "down", "AwaitingAppExit", "tell">>,
                 <<"commit", "up", "CommitExit", "forward">>,
                 <<"finish", "down", "Complete", "exitcode">>}
      PROVE HandoffInv'
  <2>1. relay'[s] = pc /\ pc \in RelayStates /\ relay[s] \notin {"leave", "gone"}
    BY <1>3, StartsFrom DEF To, RelayStates
  <2>2. relayPeer' \in [Sessions -> HandoffStates]
    BY <1>3, StartsFrom, Admits
  <2>3. /\ wire' \in Wires
        /\ \A r \in Sessions, e \in Ends : ToSet(wire'[r][e]) \subseteq ToSet(wire[r][e])
        /\ kind \in ToSet(wire[s][end])
    BY <1>3, StartsFrom, Takes
  <2>4. NoNews(s)
    BY <2>3, EndsAre DEF NoNews
  <2>5. Part(s)'
    BY <1>1, <1>3, <2>1, <2>3, <2>4, MovedPart
  <2>6. QED
    BY <1>1, <1>3, <2>1, <2>2, <2>3, <2>5, StartsFrom, RelayMoves
<1>4. CASE EngineWaits(s)
  <2>1. RelayFails(s) \/ Taken("await", "down", "AwaitingAppExit", "tell")
    BY <1>4 DEF EngineWaits, Await
  <2> HIDE DEF Taken
  <2>2. QED
    BY <1>2, <1>3, <2>1, EndsAre
<1>5. CASE ReceiveCommit(s)
  <2>1. RelayFails(s) \/ Taken("commit", "up", "CommitExit", "forward")
    BY <1>5 DEF ReceiveCommit
  <2> HIDE DEF Taken
  <2>2. QED
    BY <1>2, <1>3, <2>1, EndsAre
<1>6. CASE FinishMessage(s)
  <2>1. CASE Taken("finish", "down", "Complete", "exitcode")
    BY <1>3, <2>1, EndsAre
  <2>2. CASE /\ relayPeer' = [relayPeer EXCEPT ![s] = Aborted]
             /\ Close(s, {"down"}, wire) /\ To(s, "relaunch")
    <3>1. relay'[s] = "relaunch" /\ relay[s] = "finish"
      BY <1>6, <2>2, StartsFrom DEF To, FinishMessage
    <3>2. relayPeer' \in [Sessions -> HandoffStates]
      BY <2>2, StartsFrom DEF HandoffStates
    <3>3. /\ wire' \in Wires /\ open' \in Opens
          /\ \A r \in Sessions, e \in Ends : ToSet(wire'[r][e]) \subseteq ToSet(wire[r][e])
      <4>1. wire \in Wires /\ open \in Opens /\ {"down"} \in SUBSET Ends
        BY StartsFrom, EndsAre
      <4>2. QED
        BY <2>2, <4>1, Closes
    <3>4. NoNews(s)
      BY <3>3, EndsAre DEF NoNews
    <3>5. Part(s)'
      BY <1>1, <1>6, <3>1, <3>4, MovedPart DEF FinishMessage
    <3>6. QED
      BY <1>1, <1>6, <2>2, <3>1, <3>2, <3>3, <3>5, StartsFrom, RelayMoves
         DEF FinishMessage, RelayStates
  <2>3. QED
    BY <1>6, <2>1, <2>2 DEF FinishMessage
<1>7. QED
  BY <1>4, <1>5, <1>6

LEMMA TellApplicationKeeps ==
    ASSUME HandoffInv, NEW s \in Sessions, TellApplication(s)
    PROVE HandoffInv'
<1>1. CASE RelayFails(s)
  BY <1>1, RelayFailsKeeps DEF TellApplication
<1>2. CASE /\ Send(s, "up", "AwaitingAppExit") /\ To(s, "commit")
           /\ UNCHANGED <<app, startedBy, engine, open, relayPeer, holders>>
  <2>1. relay[s] = "tell" /\ relay'[s] = "commit" /\ RelayUnchanged
    BY <1>2, StartsFrom DEF TellApplication, To
  <2>2. /\ wire \in Wires /\ "up" \in Ends /\ "AwaitingAppExit" \in Messages
        /\ wire' = Put(s, "up", "AwaitingAppExit")
    BY <1>2, StartsFrom, EndsAre DEF Messages, Send
  <2>3. wire' \in Wires
    BY <2>2, SendsMessage
  <2>4. \A r \in Sessions, e \in Ends : \A m \in ToSet(wire'[r][e]) :
           m \in ToSet(wire[r][e]) \/ (r = s /\ e = Peer("up") /\ m = "AwaitingAppExit")
    BY <2>2, Sending
  <2>5. /\ "CommitExit" \in ToSet(wire'[s]["up"]) => "CommitExit" \in ToSet(wire[s]["up"])
        /\ "Proceed" \in ToSet(wire'[s]["engine"]) => "Proceed" \in ToSet(wire[s]["engine"])
        /\ "Complete" \in ToSet(wire'[s]["down"]) => "Complete" \in ToSet(wire[s]["down"])
    BY <2>4, EndsAre
  <2>6. Handles(s) /\ Told(s) /\ Sole(s) /\ Engines(s)
    BY StartsFrom
  <2>7. UNCHANGED <<guiPeer, tasks, exited, begun>> /\ Commits' = Commits
    BY <2>1 DEF RelayUnchanged, guiVars, Commits
  <2>8. Part(s)'
    <3>1. Handles(s)'
      BY <1>2, <2>1, <2>6 DEF Handles, Holds, Early
    <3>2. Told(s)'
      BY <2>1 DEF Told, Late
    <3>3. Sole(s)'
      BY <1>2, <2>1, <2>5, <2>6, <2>7 DEF Sole, Holds, Late, Beyond, Past
    <3>4. Engines(s)'
      BY <1>2, <2>1, <2>5, <2>6, <2>7 DEF Engines, Proceeds, Past, Early
    <3>5. QED
      BY <3>1, <3>2, <3>3, <3>4 DEF Part
  <2>9. \A r \in Sessions \ {s} : \A e \in Ends : ToSet(wire'[r][e]) \subseteq ToSet(wire[r][e])
    BY <2>4
  <2>10. QED
    BY <1>2, <2>1, <2>3, <2>8, <2>9, StartsFrom, RelayMoves DEF RelayStates
<1>3. QED
  BY <1>1, <1>2 DEF TellApplication

LEMMA ForwardCommitKeeps ==
    ASSUME HandoffInv, NEW s \in Sessions, ForwardCommit(s)
    PROVE HandoffInv'
<1>1. CASE RelayFails(s)
  BY <1>1, RelayFailsKeeps DEF ForwardCommit
<1>2. CASE /\ Send(s, "down", "CommitExit") /\ Admit(s, "CommitExit") /\ To(s, "poll")
           /\ UNCHANGED <<app, startedBy, engine, open, holders>>
  <2>1. relay[s] = "forward" /\ relay'[s] = "poll" /\ RelayUnchanged
    BY <1>2, StartsFrom DEF ForwardCommit, To
  <2>2. /\ wire \in Wires /\ "down" \in Ends /\ "CommitExit" \in Messages
        /\ wire' = Put(s, "down", "CommitExit")
    BY <1>2, StartsFrom, EndsAre DEF Messages, Send
  <2>3. wire' \in Wires
    BY <2>2, SendsMessage
  <2>4. \A r \in Sessions, e \in Ends : \A m \in ToSet(wire'[r][e]) :
           m \in ToSet(wire[r][e]) \/ (r = s /\ e = Peer("down") /\ m = "CommitExit")
    BY <2>2, Sending
  <2>5. NoNews(s)
    BY <2>4, EndsAre DEF NoNews
  <2>6. Part(s)'
    BY <1>2, <2>1, <2>5, MovedPart
  <2>7. \A r \in Sessions \ {s} : \A e \in Ends : ToSet(wire'[r][e]) \subseteq ToSet(wire[r][e])
    BY <2>4
  <2>8. relayPeer' \in [Sessions -> HandoffStates]
    BY <1>2, StartsFrom, Admits
  <2>9. QED
    BY <1>2, <2>1, <2>3, <2>6, <2>7, <2>8, StartsFrom, RelayMoves DEF RelayStates
<1>3. QED
  BY <1>1, <1>2 DEF ForwardCommit

LEMMA ProceedKeeps ==
    ASSUME HandoffInv, NEW s \in Sessions, Proceed(s)
    PROVE HandoffInv'
<1>1. CASE RelayFails(s)
  BY <1>1, RelayFailsKeeps DEF Proceed
<1>2. CASE /\ s \in exited
           /\ Send(s, "down", "Proceed") /\ Admit(s, "Proceed") /\ To(s, "finish")
           /\ UNCHANGED <<app, startedBy, engine, open, holders>>
  <2>1. relay[s] = "poll" /\ relay'[s] = "finish" /\ RelayUnchanged
    BY <1>2, StartsFrom DEF Proceed, To
  <2>2. /\ wire \in Wires /\ "down" \in Ends /\ "Proceed" \in Messages
        /\ wire' = Put(s, "down", "Proceed")
    BY <1>2, StartsFrom, EndsAre DEF Messages, Send
  <2>3. wire' \in Wires
    BY <2>2, SendsMessage
  <2>4. \A r \in Sessions, e \in Ends : \A m \in ToSet(wire'[r][e]) :
           m \in ToSet(wire[r][e]) \/ (r = s /\ e = Peer("down") /\ m = "Proceed")
    BY <2>2, Sending
  <2>5. /\ "CommitExit" \in ToSet(wire'[s]["up"]) => "CommitExit" \in ToSet(wire[s]["up"])
        /\ "Complete" \in ToSet(wire'[s]["down"]) => "Complete" \in ToSet(wire[s]["down"])
    BY <2>4, EndsAre
  <2>6. Handles(s) /\ Told(s) /\ Sole(s) /\ Engines(s)
    BY StartsFrom
  <2>7. UNCHANGED <<guiPeer, tasks, exited, begun>> /\ Commits' = Commits
    BY <2>1 DEF RelayUnchanged, guiVars, Commits
  <2>8. Part(s)'
    <3>1. Handles(s)'
      BY <1>2, <2>1, <2>6 DEF Handles, Holds, Early
    <3>2. Told(s)'
      BY <2>1 DEF Told, Late, Beyond, Past
    <3>3. Sole(s)'
      BY <1>2, <2>1, <2>5, <2>6, <2>7 DEF Sole, Holds, Late, Beyond, Past
    <3>4. Engines(s)'
      BY <1>2, <2>1, <2>5, <2>6, <2>7 DEF Engines, Proceeds, Past, Early
    <3>5. QED
      BY <3>1, <3>2, <3>3, <3>4 DEF Part
  <2>9. \A r \in Sessions \ {s} : \A e \in Ends : ToSet(wire'[r][e]) \subseteq ToSet(wire[r][e])
    BY <2>4
  <2>10. relayPeer' \in [Sessions -> HandoffStates]
    BY <1>2, StartsFrom, Admits
  <2>11. QED
    BY <1>2, <2>1, <2>3, <2>8, <2>9, <2>10, StartsFrom, RelayMoves DEF RelayStates
<1>3. QED
  BY <1>1, <1>2 DEF Proceed

LEMMA FinishCodeKeeps ==
    ASSUME HandoffInv, NEW s \in Sessions, FinishCode(s)
    PROVE HandoffInv'
<1>1. CASE RelayEnds(s, wire)
  BY <1>1, RelayEndsKeeps DEF FinishCode
<1>2. ASSUME NEW pc, To(s, pc), UNCHANGED <<relayPeer, pipeVars, holders>>,
             pc = "relaunch" \/ (pc = "release" /\ engine[s] = "gone")
      PROVE HandoffInv'
  <2>1. relay[s] = "exitcode" /\ relay'[s] = pc /\ NoNews(s)
    BY <1>2, StartsFrom DEF FinishCode, To, NoNews, pipeVars
  <2>2. Part(s)'
    BY <1>2, <2>1, MovedPart DEF FinishCode
  <2>3. QED
    BY <1>2, <2>1, <2>2, StartsFrom, RelayMoves DEF FinishCode, pipeVars, RelayStates
<1>3. QED
  BY <1>1, <1>2 DEF FinishCode

LEMMA ReleaseObserverKeeps ==
    ASSUME HandoffInv, NEW s \in Sessions, ReleaseObserver(s)
    PROVE HandoffInv'
<1>1. relay[s] = "release" /\ relay'[s] = "restart" /\ NoNews(s)
  BY StartsFrom DEF ReleaseObserver, To, NoNews
<1>2. Part(s)'
  BY <1>1, MovedPart DEF ReleaseObserver
<1>3. QED
  BY <1>1, <1>2, StartsFrom, RelayMoves DEF ReleaseObserver, RelayStates

\* The relay that starts the application.
LEMMA StartingStep ==
    ASSUME HandoffInv, NEW s \in Sessions, NEW by \in {"restart", "relaunch"},
           relay[s] \notin {"leave", "gone"}, To(s, "leave"), Start(by), RelayUnchanged,
           UNCHANGED <<engine, relayPeer, pipeVars>>,
           holders' \in {holders, holders \ {Observer(s)}},
           by = "restart" => s = begun /\ ~ Holds(s)',
           Part(s)'
    PROVE HandoffInv'
<1>1. relay'[s] = "leave" /\ \A r \in Sessions \ {s} : relay'[r] = relay[r]
  BY StartsFrom DEF To
<1>2. TypeOK'
  <2>1. app' \in {app, "starting"} /\ startedBy' \in {startedBy, "restart", "relaunch"}
    BY DEF Start
  <2>2. relay' \in [Sessions -> RelayStates] /\ UNCHANGED <<open, wire>>
    BY StartsFrom DEF To, RelayStates, pipeVars
  <2>3. holders' \subseteq Holders
    BY StartsFrom, Types
  <2>4. QED
    BY <2>1, <2>2, <2>3, StartsFrom, RelayTypes
<1>3. UNCHANGED <<guiVars, begun, exited, guiPeer, wire>>
  BY DEF RelayUnchanged, pipeVars
<1>4. ASSUME NEW r \in Sessions \ {s}
      PROVE Still(r)
  <2>1. Boot(r) \in holders' <=> Boot(r) \in holders
    BY HandlesDiffer
  <2>2. Observer(r) \in holders' <=> Observer(r) \in holders
    BY HandlesDiffer
  <2>3. QED
    BY <1>1, <1>3, <2>1, <2>2 DEF Still, NoNews, guiVars, Commits
<1>5. Turns' /\ Queues'
  BY <1>3 DEF HandoffInv, Turns, Queues, Numbered, Own, guiVars
<1>6. Parts'
  <2>1. \A r \in Sessions \ {s} : Part(r)'
    BY <1>4, StillPart DEF HandoffInv, Parts
  <2>2. QED
    BY <2>1 DEF Parts
<1>7. Away'
  BY <1>3 DEF HandoffInv, Away, Start
<1>8. Restarted'
  <2>1. CASE app = "gone"
    BY <1>1, <1>3, <2>1, SessionsAre DEF Start, Restarted
  <2>2. CASE app # "gone"
    <3>1. SUFFICES ASSUME app = "starting", startedBy = "restart"
                   PROVE (begun # 0 /\ relay[begun] \in {"leave", "gone"} /\ ~ Holds(begun))'
      BY <2>2 DEF Restarted, Start
    <3>2. begun # 0 /\ relay[begun] \in {"leave", "gone"} /\ ~ Holds(begun) /\ begun' = begun
      BY <1>3, <3>1 DEF HandoffInv, Restarted
    <3>3. begun \in Sessions \ {s}
      BY <3>2, StartsFrom, Types
    <3>4. QED
      BY <1>4, <3>2, <3>3 DEF Still, Holds
  <2>3. QED
    BY <2>1, <2>2
<1>9. QED
  BY <1>2, <1>5, <1>6, <1>7, <1>8 DEF HandoffInv

LEMMA RelaunchKeeps ==
    ASSUME HandoffInv, NEW s \in Sessions, Relaunch(s)
    PROVE HandoffInv'
<1>1. relay[s] = "relaunch" /\ relay'[s] = "leave"
  BY StartsFrom DEF Relaunch, To
<1>2. Handles(s) /\ Told(s) /\ Sole(s) /\ Engines(s)
  BY StartsFrom
<1>3. UNCHANGED <<guiPeer, tasks, exited, begun, wire, engine, holders>> /\ Commits' = Commits
  BY DEF Relaunch, RelayUnchanged, guiVars, Commits
<1>4. Part(s)'
  <2>1. Handles(s)'
    BY <1>1, <1>2, <1>3 DEF Handles, Holds, Early
  <2>2. Told(s)' /\ Sole(s)'
    BY <1>1, <1>2, <1>3 DEF Told, Sole, Holds, Late, Beyond, Past
  <2>3. Engines(s)'
    BY <1>1, <1>2, <1>3 DEF Engines, Proceeds, Past, Early
  <2>4. QED
    BY <2>1, <2>2, <2>3 DEF Part
<1>5. QED
  BY <1>1, <1>3, <1>4, StartingStep DEF Relaunch, pipeVars

LEMMA RestartKeeps ==
    ASSUME HandoffInv, NEW s \in Sessions, Restart(s)
    PROVE HandoffInv'
<1>1. CASE RelayEnds(s, wire) /\ UNCHANGED <<app, startedBy>>
  BY <1>1, RelayEndsKeeps DEF Restart
<1>2. CASE /\ holders' = holders \ {Observer(s)} /\ Start("restart") /\ To(s, "leave")
           /\ UNCHANGED <<relayPeer, pipeVars>>
  <2>1. relay[s] = "restart" /\ relay'[s] = "leave"
    BY <1>2, StartsFrom DEF Restart, To
  <2>2. Handles(s) /\ Told(s) /\ Sole(s) /\ Engines(s)
    BY StartsFrom
  <2>3. UNCHANGED <<guiPeer, tasks, exited, begun, wire, engine>> /\ Commits' = Commits
    BY <1>2 DEF Restart, RelayUnchanged, guiVars, Commits, pipeVars
  <2>4. ~ Holds(s)' /\ s = begun
    BY <1>2, <2>1, <2>2 DEF Handles, Sole, Holds, Beyond, Past, Early
  <2>5. Part(s)'
    <3>1. Handles(s)'
      BY <2>1, <2>2, <2>3, <2>4 DEF Handles, Holds, Early, Engines
    <3>2. Told(s)' /\ Sole(s)'
      BY <2>1, <2>4 DEF Told, Sole, Late, Beyond, Past
    <3>3. Engines(s)'
      BY <2>1, <2>2, <2>3 DEF Engines, Proceeds, Past, Early
    <3>4. QED
      BY <3>1, <3>2, <3>3 DEF Part
  <2>6. QED
    BY <1>2, <2>1, <2>3, <2>4, <2>5, StartingStep DEF Restart
<1>3. QED
  BY <1>1, <1>2 DEF Restart

LEMMA RelayKeeps ==
    ASSUME HandoffInv, NEW s \in Sessions, Relay(s) \/ KillRelay(s)
    PROVE HandoffInv'
<1>1. CASE Leave(s)
  BY <1>1, RelayEndsKeeps DEF Leave
<1>2. CASE KillRelay(s)
  BY <1>2, RelayEndsKeeps DEF KillRelay
<1>3. QED
  BY <1>1, <1>2, BootstrapKeeps, GreetKeeps, WelcomedKeeps, StartInstallerKeeps,
     AuthenticateEngineKeeps, TakingKeeps, TellApplicationKeeps, ForwardCommitKeeps,
     ProceedKeeps, FinishCodeKeeps, RelaunchKeeps, ReleaseObserverKeeps, RestartKeeps
     DEF Relay

-----------------------------------------------------------------------------
(* The engine *)

LEMMA EngineMoves ==
    ASSUME HandoffInv, NEW s \in Sessions, NEW pc \in EngineStates, At(s, pc), EngineUnchanged,
           engine[s] \notin {"none", "gone"}, pc # "none",
           engine[s] = "leave" => pc = "gone",
           pc = "execute" => "Proceed" \in ToSet(wire[s]["engine"]),
           code' \in [Sessions -> BOOLEAN], open' \in Opens, wire' \in Wires,
           \A r \in Sessions \ {s} : \A e \in Ends : ToSet(wire'[r][e]) \subseteq ToSet(wire[r][e]),
           NoNews(s) \/ (/\ pc = "leave"
                         /\ \A e \in Ends : \A m \in ToSet(wire'[s][e]) :
                               m \in ToSet(wire[s][e]) \/ (e = "down" /\ m \in {"Complete", "Failed"}))
    PROVE HandoffInv'
<1>1. UNCHANGED <<app, startedBy, guiVars, begun, exited, committed, guiPeer, relay, relayPeer,
                  holders, other>>
  BY DEF EngineUnchanged, appVars, relayVars
<1>2. /\ engine'[s] = pc /\ \A r \in Sessions \ {s} : engine'[r] = engine[r]
      /\ engine' \in [Sessions -> EngineStates]
  BY StartsFrom DEF At
<1>3. TypeOK'
  BY <1>1, <1>2, TypesNext, StartsFrom, Types DEF guiVars
<1>4. Commits' = Commits /\ (Holds(s)' <=> Holds(s))
  BY <1>1 DEF Commits, guiVars, Holds
<1>5. ASSUME NEW r \in Sessions \ {s}
      PROVE Still(r)
  BY <1>1, <1>2, <1>4, EndsAre DEF Still, NoNews
<1>6. Handles(s) /\ Told(s) /\ Sole(s) /\ Engines(s)
  BY StartsFrom
<1>7. /\ "AwaitingAppExit" \in ToSet(wire'[s]["gui"]) => "AwaitingAppExit" \in ToSet(wire[s]["gui"])
      /\ "CommitExit" \in ToSet(wire'[s]["up"]) => "CommitExit" \in ToSet(wire[s]["up"])
      /\ "Proceed" \in ToSet(wire'[s]["engine"]) => "Proceed" \in ToSet(wire[s]["engine"])
      /\ "Complete" \in ToSet(wire'[s]["down"]) =>
            "Complete" \in ToSet(wire[s]["down"]) \/ pc = "leave"
  BY EndsAre DEF NoNews
<1>8. Part(s)'
  <2>1. Handles(s)'
    BY <1>1, <1>2, <1>4, <1>6 DEF Handles
  <2>2. Told(s)'
    BY <1>1, <1>4, <1>6, <1>7 DEF Told, CanExit
  <2>3. Sole(s)'
    BY <1>1, <1>4, <1>6, <1>7 DEF Sole
  <2>4. Engines(s)'
    BY <1>1, <1>2, <1>6, <1>7 DEF Engines, Proceeds, Past, Early
  <2>5. QED
    BY <2>1, <2>2, <2>3, <2>4 DEF Part
<1>9. QED
  BY <1>1, <1>3, <1>4, <1>5, <1>8, SessionStep

LEMMA EngineEndsKeeps ==
    ASSUME HandoffInv, NEW s \in Sessions, NEW ok \in BOOLEAN,
           NEW w \in {wire, Sent(s, "engine", "Failed")},
           EngineEnds(s, ok, w), EngineUnchanged, engine[s] \notin {"none", "gone"}
    PROVE HandoffInv'
<1>1. wire \in Wires /\ open \in Opens /\ "engine" \in Ends /\ {"engine"} \in SUBSET Ends
      /\ "Failed" \in Messages
  BY StartsFrom, EndsAre DEF Messages
<1>2. w \in Wires
  BY <1>1, SendsMessage
<1>3. ASSUME NEW r \in Sessions, NEW e \in Ends, NEW m \in ToSet(w[r][e])
      PROVE m \in ToSet(wire[r][e]) \/ (r = s /\ e = Peer("engine") /\ m = "Failed")
  <2>1. CASE w = wire
    BY <1>3, <2>1
  <2>2. CASE w = Sent(s, "engine", "Failed")
    BY <1>1, <1>3, <2>2, Sends
  <2>3. QED
    BY <2>1, <2>2
<1>4. Close(s, {"engine"}, w) /\ At(s, "gone")
  BY DEF EngineEnds
<1>5. /\ open' \in Opens /\ wire' \in Wires
      /\ \A r \in Sessions, e \in Ends : ToSet(wire'[r][e]) \subseteq ToSet(w[r][e])
  BY <1>1, <1>2, <1>4, Closes
<1>6. NoNews(s)
  BY <1>3, <1>5, EndsAre DEF NoNews
<1>7. \A r \in Sessions \ {s} : \A e \in Ends : ToSet(wire'[r][e]) \subseteq ToSet(wire[r][e])
  BY <1>3, <1>5
<1>8. code' \in [Sessions -> BOOLEAN]
  BY StartsFrom, Types DEF EngineEnds
<1>9. QED
  BY <1>4, <1>5, <1>6, <1>7, <1>8, EngineMoves DEF EngineStates

\* A message of the engine.
LEMMA EngineSends ==
    ASSUME HandoffInv, NEW s \in Sessions, NEW pc \in EngineStates, At(s, pc), EngineUnchanged,
           engine[s] \notin {"none", "gone", "leave"}, pc \notin {"none", "execute"},
           code' \in [Sessions -> BOOLEAN], open' \in Opens,
           NEW kind \in {"Hello", "AwaitingAppExit", "Complete", "Failed"},
           kind \in {"Complete", "Failed"} => pc = "leave",
           wire' \in {Put(s, "engine", kind), Sent(s, "engine", kind)}
    PROVE HandoffInv'
<1>1. wire \in Wires /\ "engine" \in Ends /\ kind \in Messages
  BY StartsFrom, EndsAre DEF Messages
<1>2. wire' \in Wires
  BY <1>1, SendsMessage
<1>3. \A r \in Sessions, e \in Ends : \A m \in ToSet(wire'[r][e]) :
         m \in ToSet(wire[r][e]) \/ (r = s /\ e = Peer("engine") /\ m = kind)
  BY <1>1, Sending
<1>4. \A r \in Sessions \ {s} : \A e \in Ends : ToSet(wire'[r][e]) \subseteq ToSet(wire[r][e])
  BY <1>3
<1>5. CASE kind \in {"Complete", "Failed"}
  <2>1. \A e \in Ends : \A m \in ToSet(wire'[s][e]) :
           m \in ToSet(wire[s][e]) \/ (e = "down" /\ m \in {"Complete", "Failed"})
    BY <1>3, <1>5, EndsAre
  <2>2. QED
    BY <1>2, <1>4, <1>5, <2>1, EngineMoves
<1>6. CASE kind \in {"Hello", "AwaitingAppExit"}
  <2>1. NoNews(s)
    BY <1>3, <1>6, EndsAre DEF NoNews
  <2>2. QED
    BY <1>2, <1>4, <2>1, EngineMoves
<1>7. QED
  BY <1>5, <1>6

\* A message for the engine.
LEMMA EngineTakes ==
    ASSUME HandoffInv, NEW s \in Sessions, NEW pc \in EngineStates, NEW kind,
           Arrived(s, "engine", kind), wire' = Take(s, "engine"),
           At(s, pc), EngineUnchanged, UNCHANGED <<code, open>>,
           engine[s] \notin {"none", "gone", "leave"}, pc # "none",
           pc = "execute" => kind = "Proceed"
    PROVE HandoffInv'
<1>1. wire \in Wires /\ "engine" \in Ends
  BY StartsFrom, EndsAre
<1>2. /\ wire' \in Wires
      /\ \A r \in Sessions, e \in Ends : ToSet(wire'[r][e]) \subseteq ToSet(wire[r][e])
      /\ kind \in ToSet(wire[s]["engine"])
  BY <1>1, Takes
<1>3. NoNews(s)
  BY <1>2, EndsAre DEF NoNews
<1>4. code' \in [Sessions -> BOOLEAN] /\ open' \in Opens
  BY StartsFrom, Types
<1>5. QED
  BY <1>2, <1>3, <1>4, EngineMoves

LEMMA EngineKeeps ==
    ASSUME HandoffInv, NEW s \in Sessions, Engine(s) \/ KillEngine(s)
    PROVE HandoffInv'
<1>1. wire \in Wires /\ open \in Opens /\ code \in [Sessions -> BOOLEAN]
  BY StartsFrom, Types
<1>2. CASE EngineHello(s)
  <2>1. CASE EngineEnds(s, FALSE, wire)
    BY <1>2, <2>1, EngineEndsKeeps DEF EngineHello
  <2>2. CASE /\ open' = [open EXCEPT ![s] = @ \cup {"engine"}]
             /\ wire' = Put(s, "engine", "Hello") /\ At(s, "ready") /\ UNCHANGED code
    <3>1. open' \in Opens
      BY <1>1, <2>2, EndsAre DEF Opens
    <3>2. QED
      BY <1>1, <1>2, <2>2, <3>1, EngineSends DEF EngineHello, EngineStates
  <2>3. QED
    BY <1>2, <2>1, <2>2 DEF EngineHello
<1>3. CASE EngineReady(s)
  <2>1. CASE EngineEnds(s, FALSE, wire)
    BY <1>3, <2>1, EngineEndsKeeps DEF EngineReady
  <2>2. QED
    BY <1>3, <2>1, EngineTakes DEF EngineReady, EngineStates
<1>4. CASE Prepare(s)
  <2>1. CASE EngineEnds(s, FALSE, Sent(s, "engine", "Failed"))
    BY <1>4, <2>1, EngineEndsKeeps DEF Prepare
  <2>2. CASE Send(s, "engine", "AwaitingAppExit") /\ At(s, "commit") /\ UNCHANGED <<code, open>>
    BY <1>1, <1>4, <2>2, EngineSends DEF Prepare, EngineStates, Send
  <2>3. QED
    BY <1>4, <2>1, <2>2 DEF Prepare
<1>5. CASE AwaitCommit(s)
  <2>1. CASE EngineEnds(s, FALSE, Sent(s, "engine", "Failed"))
    BY <1>5, <2>1, EngineEndsKeeps DEF AwaitCommit, EngineGate
  <2>2. QED
    BY <1>5, <2>1, EngineTakes DEF AwaitCommit, EngineGate, EngineStates
<1>6. CASE AwaitProceed(s)
  <2>1. CASE EngineEnds(s, FALSE, Sent(s, "engine", "Failed"))
    BY <1>6, <2>1, EngineEndsKeeps DEF AwaitProceed, EngineGate
  <2>2. QED
    BY <1>6, <2>1, EngineTakes DEF AwaitProceed, EngineGate, EngineStates
<1>7. CASE Execute(s)
  <2>1. PICK applied \in BOOLEAN :
           /\ code' = [code EXCEPT ![s] = applied]
           /\ wire' = Sent(s, "engine", IF applied THEN "Complete" ELSE "Failed")
    BY <1>7 DEF Execute
  <2>2. PICK kind \in {"Complete", "Failed"} : wire' = Sent(s, "engine", kind)
    BY <2>1
  <2>3. code' \in [Sessions -> BOOLEAN] /\ open' \in Opens
    BY <1>1, <1>7, <2>1 DEF Execute
  <2>4. QED
    BY <1>7, <2>2, <2>3, EngineSends DEF Execute, EngineStates
<1>8. CASE EngineLeaves(s)
  BY <1>1, <1>8, EngineEndsKeeps DEF EngineLeaves
<1>9. CASE KillEngine(s)
  BY <1>9, EngineEndsKeeps DEF KillEngine, Alive
<1>10. QED
  BY <1>2, <1>3, <1>4, <1>5, <1>6, <1>7, <1>8, <1>9 DEF Engine

-----------------------------------------------------------------------------
(* The worker thread *)

\* The three ways a task leaves the queues: not at all, with a completion, without.
LEMMA WorkedQueues ==
    ASSUME HandoffInv, tasks # <<>>, UNCHANGED <<current, generation, begun>>,
           NEW s \in Sessions, s = Head(tasks).session,
           \A r \in Sessions \ {s} : guiPeer'[r] = guiPeer[r],
           \/ /\ UNCHANGED <<tasks, events>>
              /\ s = current => guiPeer'[s] # "ExitCommitted"
           \/ /\ tasks' = Tail(tasks) /\ UNCHANGED events
           \/ /\ \E event \in {"started", "committed", "cancelled"}, ok \in BOOLEAN :
                    /\ Post(event, ok)
                    /\ s = current => IF event = "committed"
                                      THEN ok => guiPeer'[s] = "ExitCommitted"
                                      ELSE guiPeer'[s] # "ExitCommitted"
    PROVE /\ Queues' /\ tasks' \in Seq(Tasks) /\ events' \in Seq(Events)
          /\ \A r \in Sessions : r \in Commits' => r \in Commits
          /\ s <= begun
<1>1. tasks \in Seq(Tasks) /\ events \in Seq(Events) /\ Queues
      /\ current \in {0} \cup Sessions
  BY Types DEF HandoffInv
<1>2. /\ Tail(tasks) \in Seq(Tasks) /\ Head(tasks) \in Tasks
      /\ 1 \in DOMAIN tasks /\ Head(tasks) = tasks[1]
      /\ \A i \in DOMAIN Tail(tasks) :
            i + 1 \in DOMAIN tasks /\ i + 1 # 1 /\ i \in Nat /\ Tail(tasks)[i] = tasks[i + 1]
  BY <1>1, Queue
<1>3. s <= begun /\ Numbered(tasks[1])
  BY <1>1, <1>2 DEF Queues, Numbered
<1>4. \A x : (Own(x)' <=> Own(x)) /\ (Numbered(x)' <=> Numbered(x))
  BY DEF Own, Numbered
<1>5. Own(tasks[1]) <=> s = current
  BY <1>2, SessionsAre DEF Own
<1>6. current # 0 /\ current # s => guiPeer'[current] = guiPeer[current]
  BY <1>1
<1>7. /\ \A i \in DOMAIN tasks : Numbered(tasks[i])
      /\ \A i \in DOMAIN events : Numbered(events[i])
      /\ \A i, j \in DOMAIN tasks : Own(tasks[i]) /\ Own(tasks[j]) => i = j
      /\ \A i, j \in DOMAIN events : Own(events[i]) /\ Own(events[j]) => i = j
      /\ \A i \in DOMAIN tasks, j \in DOMAIN events : ~ (Own(tasks[i]) /\ Own(events[j]))
      /\ \A i \in DOMAIN tasks : Own(tasks[i]) => guiPeer[current] # "ExitCommitted"
      /\ \A i \in DOMAIN events : Own(events[i]) =>
            IF events[i].event = "committed"
            THEN events[i].ok => guiPeer[current] = "ExitCommitted"
            ELSE guiPeer[current] # "ExitCommitted"
  BY <1>1 DEF Queues
<1>8. \A x : Own(x) => current # 0
  BY DEF Own
\* A completion that is still to be taken belongs to another session than the head.
<1>9. \A j \in DOMAIN events : Own(events[j]) => guiPeer'[current] = guiPeer[current]
  BY <1>2, <1>5, <1>6, <1>7, <1>8
<1>10. \A i \in DOMAIN tasks : i # 1 /\ Own(tasks[i]) => guiPeer'[current] = guiPeer[current]
  BY <1>2, <1>5, <1>6, <1>7, <1>8
<1>11. CASE UNCHANGED <<tasks, events>> /\ (s = current => guiPeer'[s] # "ExitCommitted")
  <2>1. \A i \in DOMAIN tasks : Own(tasks[i]) => guiPeer'[current] # "ExitCommitted"
    BY <1>5, <1>6, <1>7, <1>8, <1>10, <1>11
  <2>2. Queues'
    BY <1>4, <1>7, <1>9, <1>11, <2>1 DEF Queues
  <2>3. QED
    BY <1>1, <1>3, <1>11, <2>2 DEF Commits
<1>12. ASSUME tasks' = Tail(tasks)
       PROVE /\ tasks' \in Seq(Tasks)
             /\ \A r \in Sessions : r \in Commits' => r \in Commits
             /\ \A i \in DOMAIN tasks' : Numbered(tasks'[i])
             /\ \A i, j \in DOMAIN tasks' : Own(tasks'[i]) /\ Own(tasks'[j]) => i = j
             /\ \A i \in DOMAIN tasks' : Own(tasks'[i]) =>
                   /\ guiPeer'[current] # "ExitCommitted" /\ ~ Own(tasks[1])
                   /\ \A j \in DOMAIN events : ~ Own(events[j])
  <2> DEFINE t == Tail(tasks)
  <2>1. \A i \in DOMAIN t : i + 1 \in DOMAIN tasks /\ i + 1 # 1 /\ i \in Nat /\ t[i] = tasks[i + 1]
    BY <1>2
  <2> HIDE DEF t
  <2>2. \A i \in DOMAIN t : Numbered(t[i])
    BY <1>7, <2>1
  <2>3. \A i, j \in DOMAIN t : Own(t[i]) /\ Own(t[j]) => i = j
    <3>1. \A i, j \in DOMAIN t : Own(t[i]) /\ Own(t[j]) => i + 1 = j + 1
      BY <1>7, <2>1
    <3>2. QED
      BY <2>1, <3>1
  <2>4. \A i \in DOMAIN t : Own(t[i]) =>
           /\ guiPeer'[current] # "ExitCommitted" /\ ~ Own(tasks[1])
           /\ \A j \in DOMAIN events : ~ Own(events[j])
    BY <1>2, <1>7, <1>10, <2>1
  <2>5. \A r \in Sessions : r \in Commits' => r \in Commits
    <3>1. tasks' = t
      BY <1>12 DEF t
    <3>2. QED
      BY <2>1, <3>1 DEF Commits
  <2>6. QED
    BY <1>2, <1>12, <2>2, <2>3, <2>4, <2>5 DEF t
<1>13. CASE tasks' = Tail(tasks) /\ UNCHANGED events
  <2>1. \A j \in DOMAIN events : Own(events[j]) =>
           IF events[j].event = "committed"
           THEN events[j].ok => guiPeer'[current] = "ExitCommitted"
           ELSE guiPeer'[current] # "ExitCommitted"
    BY <1>7, <1>9
  <2>2. Queues'
    BY <1>4, <1>7, <1>12, <1>13, <2>1 DEF Queues
  <2>3. QED
    BY <1>1, <1>3, <1>12, <1>13, <2>2
<1>14. ASSUME NEW event \in {"started", "committed", "cancelled"}, NEW ok \in BOOLEAN,
              Post(event, ok),
              s = current => IF event = "committed"
                             THEN ok => guiPeer'[s] = "ExitCommitted"
                             ELSE guiPeer'[s] # "ExitCommitted"
       PROVE Queues' /\ events' \in Seq(Events)
  <2> DEFINE x == [event |-> event, session |-> Head(tasks).session,
                   generation |-> Head(tasks).generation, ok |-> ok]
             n == Len(events) + 1
  <2>1. x \in Events /\ x.event = event /\ x.ok = ok
        /\ x.session = tasks[1].session /\ x.generation = tasks[1].generation
    BY <1>2 DEF Events, Tasks
  <2>2. events' = Append(events, x) /\ tasks' = Tail(tasks)
    BY <1>14 DEF Post
  <2> HIDE DEF x, n
  <2>3. /\ events' \in Seq(Events) /\ DOMAIN events' = DOMAIN events \cup {n}
        /\ n \notin DOMAIN events /\ events'[n] = x
        /\ \A i \in DOMAIN events : events'[i] = events[i]
    BY <1>1, <2>1, <2>2, Queue DEF n
  <2>4. Numbered(x) /\ (Own(x) <=> Own(tasks[1]))
    BY <1>3, <2>1 DEF Numbered, Own
  <2>5. \A i \in DOMAIN events' : Numbered(events'[i])
    BY <1>7, <2>3, <2>4
  <2>6. \A i, j \in DOMAIN events' : Own(events'[i]) /\ Own(events'[j]) => i = j
    BY <1>2, <1>7, <2>3, <2>4
  <2>7. \A i \in DOMAIN tasks', j \in DOMAIN events' : ~ (Own(tasks'[i]) /\ Own(events'[j]))
    BY <1>12, <2>2, <2>3, <2>4
  <2>8. \A j \in DOMAIN events' : Own(events'[j]) =>
           IF events'[j].event = "committed"
           THEN events'[j].ok => guiPeer'[current] = "ExitCommitted"
           ELSE guiPeer'[current] # "ExitCommitted"
    <3>1. \A j \in DOMAIN events : Own(events[j]) =>
             IF events[j].event = "committed"
             THEN events[j].ok => guiPeer'[current] = "ExitCommitted"
             ELSE guiPeer'[current] # "ExitCommitted"
      BY <1>7, <1>9
    <3>2. Own(x) => IF x.event = "committed" THEN x.ok => guiPeer'[current] = "ExitCommitted"
                    ELSE guiPeer'[current] # "ExitCommitted"
      BY <1>5, <1>14, <2>1, <2>4
    <3>3. QED
      BY <2>3, <3>1, <3>2
  <2>9. Queues'
    BY <1>4, <1>12, <2>2, <2>5, <2>6, <2>7, <2>8 DEF Queues
  <2>10. QED
    BY <2>3, <2>9
<1>15. CASE \E event \in {"started", "committed", "cancelled"}, ok \in BOOLEAN :
               /\ Post(event, ok)
               /\ s = current => IF event = "committed"
                                 THEN ok => guiPeer'[s] = "ExitCommitted"
                                 ELSE guiPeer'[s] # "ExitCommitted"
  BY <1>3, <1>12, <1>14, <1>15 DEF Post
<1>16. QED
  BY <1>11, <1>13, <1>15

\* A step of the worker changes the queues, one peer and one pipe, and may create the relay.
LEMMA WorkerStep ==
    ASSUME HandoffInv, NEW s \in Sessions, WorkerUnchanged,
           tasks' \in Seq(Tasks), events' \in Seq(Events), Queues',
           \A r \in Sessions : r \in Commits' => r \in Commits, s <= begun,
           guiPeer' \in [Sessions -> HandoffStates], open' \in Opens, wire' \in Wires,
           relay' \in [Sessions -> RelayStates], relay'[s] = relay[s] \/ relay[s] = "none",
           \A r \in Sessions \ {s} :
              NoNews(r) /\ guiPeer'[r] = guiPeer[r] /\ relay'[r] = relay[r],
           Part(s)'
    PROVE HandoffInv'
<1>1. UNCHANGED <<app, startedBy, prepared, state, current, generation, commitPending,
                  reservationHeld, begun, exited, committed, relayPeer, engine, code, holders, other>>
  BY DEF WorkerUnchanged, engineVars
<1>2. TypeOK'
  BY <1>1, TypesNext, StartsFrom, Types
<1>3. Turns'
  <2>1. \A r \in Sessions : r > begun => r # s
    BY StartsFrom, Types, SessionsAre
  <2>2. QED
    BY <1>1, <2>1 DEF HandoffInv, Turns
<1>4. Parts'
  <2>1. \A r \in Sessions \ {s} : Still(r)
    BY <1>1 DEF Still
  <2>2. \A r \in Sessions \ {s} : Part(r)'
    BY <2>1, StillPart DEF HandoffInv, Parts
  <2>3. QED
    BY <2>2 DEF Parts
<1>5. Away'
  BY <1>1 DEF HandoffInv, Away
<1>6. Restarted'
  <2>1. begun \in {0} \cup Sessions
    BY StartsFrom, Types
  <2>2. begun # 0 /\ relay[begun] \in {"leave", "gone"} => relay'[begun] = relay[begun]
    BY <2>1
  <2>3. QED
    BY <1>1, <2>2 DEF HandoffInv, Restarted, Holds
<1>7. QED
  BY <1>2, <1>3, <1>4, <1>5, <1>6 DEF HandoffInv

\* The session of the head of the queue.
LEMMA AtWork ==
    ASSUME HandoffInv, NEW s \in Sessions, NEW kind, Working(kind, s)
    PROVE /\ tasks # <<>> /\ s = Head(tasks).session
          /\ guiPeer \in [Sessions -> HandoffStates]
          /\ s = current => guiPeer[s] # "ExitCommitted"
          /\ kind = "commit" => s \in Commits
<1>1. tasks \in Seq(Tasks) /\ tasks # <<>> /\ s = Head(tasks).session /\ Head(tasks).task = kind
  BY StartsFrom, Types DEF Working
<1>2. 1 \in DOMAIN tasks /\ Head(tasks) = tasks[1]
  BY <1>1, Queue
<1>3. s = current => guiPeer[s] # "ExitCommitted"
  BY <1>1, <1>2, SessionsAre DEF HandoffInv, Queues, Own
<1>4. QED
  BY <1>1, <1>2, <1>3, StartsFrom, Types DEF Commits

\* Coordinator::abort, with or without a last message.
LEMMA AbortKeeps ==
    ASSUME HandoffInv, NEW s \in Sessions, NEW kind, Working(kind, s), WorkerUnchanged,
           UNCHANGED relay, NEW w \in {wire, Sent(s, "gui", "Cancel")}, Abort(s, w),
           \/ Post("started", FALSE) \/ Post("committed", FALSE) \/ Post("cancelled", TRUE)
           \/ tasks' = Tail(tasks) /\ UNCHANGED events
    PROVE HandoffInv'
<1>1. wire \in Wires /\ open \in Opens /\ "gui" \in Ends /\ {"gui"} \in SUBSET Ends
      /\ "Cancel" \in Messages
  BY StartsFrom, EndsAre DEF Messages
<1>2. w \in Wires
  BY <1>1, SendsMessage
<1>3. ASSUME NEW r \in Sessions, NEW e \in Ends, NEW m \in ToSet(w[r][e])
      PROVE m \in ToSet(wire[r][e]) \/ m = "Cancel"
  <2>1. CASE w = wire
    BY <1>3, <2>1
  <2>2. CASE w = Sent(s, "gui", "Cancel")
    BY <1>1, <1>3, <2>2, Sends
  <2>3. QED
    BY <2>1, <2>2
<1>4. /\ open' \in Opens /\ wire' \in Wires
      /\ \A r \in Sessions, e \in Ends : ToSet(wire'[r][e]) \subseteq ToSet(w[r][e])
  <2>1. Close(s, {"gui"}, w)
    BY DEF Abort
  <2>2. QED
    BY <1>1, <1>2, <2>1, Closes
<1>5. \A r \in Sessions : NoNews(r)
  BY <1>3, <1>4, EndsAre DEF NoNews
<1>6. /\ guiPeer' \in [Sessions -> HandoffStates] /\ guiPeer'[s] = Aborted
      /\ \A r \in Sessions \ {s} : guiPeer'[r] = guiPeer[r]
  BY AtWork DEF Abort, HandoffStates
<1>7. UNCHANGED <<current, generation, begun, exited, engine, holders>>
  BY DEF WorkerUnchanged, engineVars
<1>8. /\ Queues' /\ tasks' \in Seq(Tasks) /\ events' \in Seq(Events)
      /\ \A r \in Sessions : r \in Commits' => r \in Commits
      /\ s <= begun
  <2>1. guiPeer'[s] # "ExitCommitted"
    BY <1>6 DEF Aborted
  <2>2. tasks # <<>> /\ s = Head(tasks).session
    BY AtWork
  <2>3. \/ tasks' = Tail(tasks) /\ UNCHANGED events
        \/ \E event \in {"started", "committed", "cancelled"}, ok \in BOOLEAN :
              /\ Post(event, ok)
              /\ s = current => IF event = "committed"
                                THEN ok => guiPeer'[s] = "ExitCommitted"
                                ELSE guiPeer'[s] # "ExitCommitted"
    BY <2>1
  <2>4. QED
    BY <1>6, <1>7, <2>2, <2>3, WorkedQueues
<1>9. Part(s)'
  <2>1. Still(s)
    BY <1>5, <1>6, <1>7, <1>8 DEF Still
  <2>2. QED
    BY <2>1, StillPart DEF HandoffInv, Parts
<1>10. QED
  BY <1>4, <1>5, <1>6, <1>8, <1>9, StartsFrom, WorkerStep

LEMMA StartRelayKeeps ==
    ASSUME HandoffInv, NEW s \in Sessions, StartRelay(s)
    PROVE HandoffInv'
<1>1. Working("start", s) /\ WorkerUnchanged /\ relay[s] = "none" /\ guiPeer[s] = "Connecting"
  BY DEF StartRelay
<1>2. CASE Abort(s, wire) /\ Post("started", FALSE) /\ UNCHANGED relay
  BY <1>1, <1>2, AbortKeeps
<1>3. CASE /\ relay' = [relay EXCEPT ![s] = "boot"] /\ open' = [open EXCEPT ![s] = @ \cup {"gui"}]
           /\ UNCHANGED <<tasks, events, guiPeer, wire>>
  <2>1. /\ relay'[s] = "boot" /\ relay' \in [Sessions -> RelayStates]
        /\ \A r \in Sessions \ {s} : relay'[r] = relay[r]
    BY <1>3, StartsFrom DEF RelayStates
  <2>2. open' \in Opens
    BY <1>3, StartsFrom, EndsAre DEF Opens
  <2>3. UNCHANGED <<current, generation, begun, exited, engine, holders>>
    BY <1>1 DEF WorkerUnchanged, engineVars
  <2>4. /\ Queues' /\ tasks' \in Seq(Tasks) /\ events' \in Seq(Events)
        /\ \A r \in Sessions : r \in Commits' => r \in Commits
        /\ s <= begun
    <3>1. tasks # <<>> /\ s = Head(tasks).session
      BY <1>1, AtWork
    <3>2. QED
      BY <1>1, <1>3, <2>3, <3>1, WorkedQueues
  <2>5. Handles(s) /\ Told(s) /\ Sole(s) /\ Engines(s)
    BY StartsFrom
  <2>6. Part(s)'
    <3>1. Handles(s)'
      BY <1>1, <2>1, <2>3, <2>5 DEF Handles, Early
    <3>2. Told(s)' /\ Sole(s)'
      BY <1>1, <1>3, <2>1, <2>3, <2>4, <2>5 DEF Told, Sole, Holds, CanExit, Late, Beyond, Past
    <3>3. Engines(s)'
      BY <1>1, <1>3, <2>1, <2>3, <2>5 DEF Engines, Proceeds, Past, Early
    <3>4. QED
      BY <3>1, <3>2, <3>3 DEF Part
  <2>7. QED
    BY <1>1, <1>3, <2>1, <2>2, <2>4, <2>6, StartsFrom, AtWork, WorkerStep DEF NoNews
<1>4. QED
  BY <1>2, <1>3 DEF StartRelay

LEMMA AuthenticateKeeps ==
    ASSUME HandoffInv, NEW s \in Sessions, Authenticate(s)
    PROVE HandoffInv'
<1>1. Working("start", s) /\ WorkerUnchanged /\ UNCHANGED relay /\ guiPeer[s] = "Connecting"
  BY DEF Authenticate
<1>2. CASE Abort(s, wire) /\ Post("started", FALSE)
  BY <1>1, <1>2, AbortKeeps
<1>3. CASE /\ Arrived(s, "gui", "Hello")
           /\ guiPeer' = [guiPeer EXCEPT ![s] = Accept(@, "Hello")]
           /\ wire' = [Take(s, "gui") EXCEPT ![s].up = Append(@, "Ready")]
           /\ UNCHANGED <<tasks, events, open>>
  <2> DEFINE w == Take(s, "gui")
  <2>1. /\ w \in Wires
        /\ \A r \in Sessions, e \in Ends : ToSet(w[r][e]) \subseteq ToSet(wire[r][e])
    BY <1>3, StartsFrom, Takes, EndsAre
  <2>2. wire' = Added(w, s, "up", "Ready")
    BY <1>3 DEF Added
  <2> HIDE DEF w
  <2>3. wire' \in Wires
    BY <2>1, <2>2, AddsMessage, EndsAre DEF Messages
  <2>4. \A r \in Sessions, e \in Ends : \A m \in ToSet(wire'[r][e]) :
           m \in ToSet(w[r][e]) \/ (r = s /\ m = "Ready")
    BY <2>1, <2>2, Adds, EndsAre DEF Messages
  <2>5. \A r \in Sessions : NoNews(r)
    BY <2>1, <2>4, EndsAre DEF NoNews
  <2>6. /\ guiPeer' \in [Sessions -> HandoffStates] /\ guiPeer'[s] = "Ready"
        /\ \A r \in Sessions \ {s} : guiPeer'[r] = guiPeer[r]
    BY <1>1, <1>3, AtWork, Accepts DEF Accept, HandoffStates
  <2>7. UNCHANGED <<current, generation, begun, exited, engine, holders>>
    BY <1>1 DEF WorkerUnchanged, engineVars
  <2>8. /\ Queues' /\ tasks' \in Seq(Tasks) /\ events' \in Seq(Events)
        /\ \A r \in Sessions : r \in Commits' => r \in Commits
        /\ s <= begun
    <3>1. tasks # <<>> /\ s = Head(tasks).session
      BY <1>1, AtWork
    <3>2. QED
      BY <1>3, <2>6, <2>7, <3>1, WorkedQueues
  <2>9. Part(s)'
    <3>1. Handles(s) /\ Told(s) /\ Sole(s) /\ Engines(s)
      BY StartsFrom
    <3>2. NoNews(s)
      BY <2>5
    <3>3. Handles(s)'
      BY <1>1, <2>7, <3>1 DEF Handles, Holds
    <3>4. Told(s)' /\ Sole(s)'
      BY <1>1, <2>6, <2>7, <2>8, <3>1, <3>2 DEF Told, Sole, Holds, CanExit, NoNews
    <3>5. Engines(s)'
      BY <1>1, <2>7, <3>1, <3>2 DEF Engines, Proceeds, NoNews
    <3>6. QED
      BY <3>3, <3>4, <3>5 DEF Part
  <2>10. QED
    BY <1>1, <1>3, <2>3, <2>5, <2>6, <2>8, <2>9, StartsFrom, WorkerStep
<1>4. QED
  BY <1>2, <1>3 DEF Authenticate

LEMMA AwaitAppExitKeeps ==
    ASSUME HandoffInv, NEW s \in Sessions, AwaitAppExit(s)
    PROVE HandoffInv'
<1>1. Working("start", s) /\ WorkerUnchanged /\ UNCHANGED relay /\ guiPeer[s] = "Ready"
  BY DEF AwaitAppExit
<1>2. CASE Abort(s, wire) /\ Post("started", FALSE)
  BY <1>1, <1>2, AbortKeeps
<1>3. CASE /\ Arrived(s, "gui", "AwaitingAppExit")
           /\ guiPeer' = [guiPeer EXCEPT ![s] = Accept(@, "AwaitingAppExit")]
           /\ wire' = Take(s, "gui") /\ Post("started", TRUE) /\ UNCHANGED open
  <2>1. /\ wire' \in Wires
        /\ \A r \in Sessions, e \in Ends : ToSet(wire'[r][e]) \subseteq ToSet(wire[r][e])
        /\ "AwaitingAppExit" \in ToSet(wire[s]["gui"])
    BY <1>3, StartsFrom, Takes, EndsAre
  <2>2. \A r \in Sessions : NoNews(r)
    BY <2>1, EndsAre DEF NoNews
  <2>3. /\ guiPeer' \in [Sessions -> HandoffStates] /\ guiPeer'[s] = "AwaitingAppExit"
        /\ \A r \in Sessions \ {s} : guiPeer'[r] = guiPeer[r]
    BY <1>1, <1>3, AtWork, Accepts DEF Accept, HandoffStates
  <2>4. UNCHANGED <<current, generation, begun, exited, engine, holders>>
    BY <1>1 DEF WorkerUnchanged, engineVars
  <2>5. /\ Queues' /\ tasks' \in Seq(Tasks) /\ events' \in Seq(Events)
        /\ \A r \in Sessions : r \in Commits' => r \in Commits
        /\ s <= begun
    <3>1. tasks # <<>> /\ s = Head(tasks).session
      BY <1>1, AtWork
    <3>2. guiPeer'[s] # "ExitCommitted"
      BY <2>3
    <3>3. \E event \in {"started", "committed", "cancelled"}, ok \in BOOLEAN :
             /\ Post(event, ok)
             /\ s = current => IF event = "committed"
                               THEN ok => guiPeer'[s] = "ExitCommitted"
                               ELSE guiPeer'[s] # "ExitCommitted"
      BY <1>3, <3>2
    <3>4. QED
      BY <2>3, <2>4, <3>1, <3>3, WorkedQueues
  <2>6. Part(s)'
    <3>1. Handles(s) /\ Told(s) /\ Sole(s) /\ Engines(s)
      BY StartsFrom
    <3>2. NoNews(s)
      BY <2>2
    <3>3. Handles(s)'
      BY <1>1, <2>4, <3>1 DEF Handles, Holds
    <3>4. Told(s)'
      BY <1>1, <2>1, <3>1 DEF Told
    <3>5. Sole(s)'
      BY <1>1, <2>4, <2>5, <3>1, <3>2 DEF Sole, Holds, NoNews
    <3>6. Engines(s)'
      BY <1>1, <2>4, <3>1, <3>2 DEF Engines, Proceeds, NoNews
    <3>7. QED
      BY <3>3, <3>4, <3>5, <3>6 DEF Part
  <2>7. QED
    BY <1>1, <1>3, <2>1, <2>2, <2>3, <2>5, <2>6, StartsFrom, WorkerStep
<1>4. QED
  BY <1>2, <1>3 DEF AwaitAppExit

LEMMA CommitExitKeeps ==
    ASSUME HandoffInv, NEW s \in Sessions, CommitExit(s)
    PROVE HandoffInv'
<1>1. Working("commit", s) /\ WorkerUnchanged /\ UNCHANGED relay
  BY DEF CommitExit
<1>2. CASE Abort(s, wire) /\ Post("committed", FALSE)
  BY <1>1, <1>2, AbortKeeps
<1>3. CASE /\ CanCommitExit(guiPeer[s], relay[s])
           /\ guiPeer' = [guiPeer EXCEPT ![s] = Accept(@, "CommitExit")]
           /\ Send(s, "gui", "CommitExit") /\ Post("committed", TRUE) /\ UNCHANGED open
  <2>1. /\ wire \in Wires /\ "gui" \in Ends /\ "CommitExit" \in Messages
        /\ wire' = Put(s, "gui", "CommitExit")
    BY <1>3, StartsFrom, EndsAre DEF Messages, Send
  <2>2. wire' \in Wires
    BY <2>1, SendsMessage
  <2>3. \A r \in Sessions, e \in Ends : \A m \in ToSet(wire'[r][e]) :
           m \in ToSet(wire[r][e]) \/ (r = s /\ e = Peer("gui") /\ m = "CommitExit")
    BY <2>1, Sending
  <2>4. \A r \in Sessions \ {s} : NoNews(r)
    BY <2>3, EndsAre DEF NoNews
  <2>5. /\ "Proceed" \in ToSet(wire'[s]["engine"]) => "Proceed" \in ToSet(wire[s]["engine"])
        /\ "Complete" \in ToSet(wire'[s]["down"]) => "Complete" \in ToSet(wire[s]["down"])
    BY <2>3, EndsAre
  <2>6. /\ guiPeer' \in [Sessions -> HandoffStates]
        /\ s = current => guiPeer'[s] = "ExitCommitted"
        /\ \A r \in Sessions \ {s} : guiPeer'[r] = guiPeer[r]
    <3>1. s = current => guiPeer[s] = "AwaitingAppExit"
      BY <1>1, <1>3, AtWork DEF CanCommitExit, CanExit
    <3>2. QED
      BY <1>1, <1>3, <3>1, AtWork, Accepts DEF Accept
  <2>7. UNCHANGED <<current, generation, begun, exited, engine, holders>>
    BY <1>1 DEF WorkerUnchanged, engineVars
  <2>8. /\ Queues' /\ tasks' \in Seq(Tasks) /\ events' \in Seq(Events)
        /\ \A r \in Sessions : r \in Commits' => r \in Commits
        /\ s <= begun
    <3>1. tasks # <<>> /\ s = Head(tasks).session
      BY <1>1, AtWork
    <3>2. \E event \in {"started", "committed", "cancelled"}, ok \in BOOLEAN :
             /\ Post(event, ok)
             /\ s = current => IF event = "committed"
                               THEN ok => guiPeer'[s] = "ExitCommitted"
                               ELSE guiPeer'[s] # "ExitCommitted"
      BY <1>3, <2>6
    <3>3. QED
      BY <2>6, <2>7, <3>1, <3>2, WorkedQueues
  <2>9. Part(s)'
    <3>1. Handles(s) /\ Told(s) /\ Sole(s) /\ Engines(s)
      BY StartsFrom
    <3>2. s \in Commits
      BY <1>1, AtWork
    <3>3. Handles(s)'
      BY <1>1, <2>7, <3>1 DEF Handles, Holds
    <3>4. Told(s)'
      BY <1>1, <3>1, <3>2 DEF Told
    <3>5. Sole(s)'
      BY <2>7, <3>1, <3>2 DEF Sole, Holds
    <3>6. Engines(s)'
      BY <1>1, <2>5, <2>7, <3>1 DEF Engines, Proceeds
    <3>7. QED
      BY <3>3, <3>4, <3>5, <3>6 DEF Part
  <2>10. QED
    BY <1>1, <1>3, <2>2, <2>4, <2>6, <2>8, <2>9, StartsFrom, WorkerStep
<1>4. QED
  BY <1>2, <1>3 DEF CommitExit

LEMMA CancelSessionKeeps ==
    ASSUME HandoffInv, NEW s \in Sessions, CancelSession(s)
    PROVE HandoffInv'
<1>1. PICK kind : Working(kind, s)
  BY DEF CancelSession
<1>2. PICK w \in {wire, Sent(s, "gui", "Cancel")} : Abort(s, w)
  BY DEF CancelSession
<1>3. QED
  BY <1>1, <1>2, AbortKeeps DEF CancelSession

LEMMA WorkerKeeps ==
    ASSUME HandoffInv, Worker
    PROVE HandoffInv'
BY StartRelayKeeps, AuthenticateKeeps, AwaitAppExitKeeps, CommitExitKeeps, CancelSessionKeeps
   DEF Worker

-----------------------------------------------------------------------------
(* The GUI thread *)

\* A step of the GUI thread lets the mutex go or keeps it, and asks for a commit only of
\* the last session, whose relay has told it that the engine waits.
LEMMA GuiStep ==
    ASSUME HandoffInv, app = "running", app' \in {"running", "closing"},
           UNCHANGED <<startedBy, begun, exited, guiPeer, relayVars, engineVars, pipeVars, other>>,
           holders' \in {holders, holders \ {Application}},
           prepared' \in BOOLEAN, reservationHeld' \in BOOLEAN, commitPending' \in BOOLEAN,
           committed' \in SUBSET Sessions, generation' \in Nat,
           state' \in {"Idle", "Preparing", "Waiting", "ExitCommitted", "Cancelled", "Failed"},
           current' \in {0, current}, state' \in {"Preparing", "Waiting"} => current' # 0,
           prepared' => state' \in {"Preparing", "Waiting"},
           tasks' \in Seq(Tasks), events' \in Seq(Events), Queues',
           \A r \in Sessions : r \in Commits' =>
              r \in Commits \/ (r = begun /\ CanExit(guiPeer[r]))
    PROVE HandoffInv'
<1>1. UNCHANGED <<relay, relayPeer, engine, code, open, wire>>
  BY DEF relayVars, engineVars, pipeVars
<1>2. TypeOK'
  BY <1>1, TypesNext, StartsFrom, Types
<1>3. Turns'
  BY DEF HandoffInv, Turns
<1>4. Parts'
  <2>1. SUFFICES ASSUME NEW r \in Sessions
                 PROVE Part(r)'
    BY DEF Parts
  <2>2. Handles(r) /\ Told(r) /\ Sole(r) /\ Engines(r)
    BY StartsFrom
  <2>3. /\ Boot(r) \in holders' <=> Boot(r) \in holders
        /\ Observer(r) \in holders' <=> Observer(r) \in holders
    BY HandlesDiffer
  <2>4. Handles(r)'
    BY <1>1, <2>2, <2>3 DEF Handles, Holds
  <2>5. Told(r)'
    BY <1>1, <2>2 DEF Told, CanExit
  <2>6. Sole(r)'
    BY <1>1, <2>2, <2>3 DEF Sole, Holds
  <2>7. Engines(r)'
    BY <1>1, <2>2 DEF Engines, Proceeds
  <2>8. QED
    BY <2>4, <2>5, <2>6, <2>7 DEF Part
<1>5. Away'
  <2>1. \A r \in exited : Boot(r) \in holders' => Boot(r) \in holders
    OBVIOUS
  <2>2. QED
    BY <2>1 DEF HandoffInv, Away
<1>6. Restarted'
  BY DEF Restarted
<1>7. QED
  BY <1>2, <1>3, <1>4, <1>5, <1>6 DEF HandoffInv

\* When the session is given up nothing that is queued belongs to the present one.
LEMMA GivenUp ==
    ASSUME HandoffInv, current' = 0, begun' = begun, generation' \in {generation, generation + 1},
           events' = events \/ (events # <<>> /\ events' = Tail(events)),
           NEW kind \in {"cancel", "discard"}, tasks' = Discarded(kind)
    PROVE /\ tasks' \in Seq(Tasks) /\ events' \in Seq(Events) /\ Queues'
          /\ \A r \in Sessions : r \in Commits' => r \in Commits
<1> DEFINE Fits(x) == x.session <= begun /\ x.generation <= generation'
<1>1. /\ tasks \in Seq(Tasks) /\ events \in Seq(Events) /\ current \in {0} \cup Sessions
      /\ generation \in Nat /\ begun \in {0} \cup Sessions /\ Queues /\ Turns
  BY StartsFrom, Types DEF HandoffInv
<1>2. generation' \in Nat /\ generation <= generation'
  BY <1>1
<1>3. \A x : Numbered(x)' <=> Fits(x)
  BY DEF Numbered
<1>4. \A i \in DOMAIN events : events[i] \in Events /\ Numbered(events[i])
  BY <1>1 DEF Queues
<1>5. \A i \in DOMAIN tasks : tasks[i] \in Tasks /\ Numbered(tasks[i])
  BY <1>1 DEF Queues
<1>6. \A i \in DOMAIN events : Fits(events[i])
  <2>1. \A x \in Events : x.generation \in Nat
    BY DEF Events
  <2>2. QED
    BY <1>1, <1>2, <1>3, <1>4, <2>1 DEF Numbered
<1>7. \A i \in DOMAIN tasks : Fits(tasks[i])
  <2>1. \A x \in Tasks : x.generation \in Nat
    BY DEF Tasks
  <2>2. QED
    BY <1>1, <1>2, <1>3, <1>5, <2>1 DEF Numbered
<1>8. events' \in Seq(Events) /\ \A i \in DOMAIN events' : Fits(events'[i])
  <2>1. CASE events' = events
    BY <1>1, <1>6, <2>1
  <2>2. CASE events # <<>> /\ events' = Tail(events)
    <3>1. /\ Tail(events) \in Seq(Events)
          /\ \A i \in DOMAIN Tail(events) : i + 1 \in DOMAIN events /\ Tail(events)[i] = events[i + 1]
      BY <1>1, <2>2, Queue
    <3>2. \A i \in DOMAIN Tail(events) : Fits(Tail(events)[i])
      BY <1>3, <1>6, <3>1
    <3>3. QED
      BY <2>2, <3>1, <3>2
  <2>3. QED
    BY <2>1, <2>2
<1>9. /\ tasks' \in Seq(Tasks) /\ \A i \in DOMAIN tasks' : Fits(tasks'[i])
      /\ \A r \in Sessions : r \in Commits' => r \in Commits
  <2>1. CASE current = 0
    <3>1. tasks' = tasks
      BY <2>1 DEF Discarded
    <3>2. QED
      BY <1>1, <1>7, <3>1 DEF Commits
  <2>2. CASE current # 0
    <3> DEFINE t == [task |-> kind, session |-> current, generation |-> generation']
               n == Len(tasks) + 1
    <3>1. t \in Tasks /\ t.session = current /\ t.generation = generation' /\ t.task # "commit"
      BY <1>1, <1>2, <2>2 DEF Tasks
    <3>2. tasks' = Append(tasks, t)
      BY <2>2 DEF Discarded
    <3> HIDE DEF t, n
    <3>3. /\ Append(tasks, t) \in Seq(Tasks) /\ DOMAIN Append(tasks, t) = DOMAIN tasks \cup {n}
          /\ Append(tasks, t)[n] = t /\ \A i \in DOMAIN tasks : Append(tasks, t)[i] = tasks[i]
      BY <1>1, <3>1, Queue DEF n
    <3>4. Fits(t)
      <4>1. current <= begun
        BY <1>1, <2>2, SessionsAre DEF Turns
      <4>2. QED
        BY <1>2, <1>3, <3>1, <4>1
    <3>5. \A i \in DOMAIN tasks' : Fits(tasks'[i])
      BY <1>3, <1>7, <3>2, <3>3, <3>4
    <3>6. \A r \in Sessions : r \in Commits' => r \in Commits
      BY <3>1, <3>2, <3>3 DEF Commits
    <3>7. QED
      BY <3>2, <3>3, <3>5, <3>6
  <2>3. QED
    BY <2>1, <2>2
<1>10. \A x : ~ Own(x)'
  BY DEF Own
<1>11. Queues'
  BY <1>3, <1>8, <1>9, <1>10 DEF Queues
<1>12. QED
  BY <1>8, <1>9, <1>11

\* A completion has been taken.
LEMMA EventTaken ==
    ASSUME HandoffInv, events # <<>>, events' = Tail(events),
           UNCHANGED <<tasks, current, generation, begun, guiPeer>>
    PROVE /\ events' \in Seq(Events) /\ tasks' \in Seq(Tasks) /\ Queues'
          /\ Commits' = Commits
          /\ Head(events) \in Events /\ Numbered(Head(events))
          /\ Own(Head(events)) =>
                /\ IF Head(events).event = "committed"
                   THEN Head(events).ok => guiPeer[current] = "ExitCommitted"
                   ELSE guiPeer[current] # "ExitCommitted"
                /\ \A i \in DOMAIN tasks : ~ Own(tasks[i])
                /\ \A i \in DOMAIN events' : ~ Own(events'[i])
<1>1. tasks \in Seq(Tasks) /\ events \in Seq(Events) /\ Queues
  BY StartsFrom, Types DEF HandoffInv
<1> DEFINE t == Tail(events)
<1>2. /\ t \in Seq(Events) /\ Head(events) \in Events
      /\ 1 \in DOMAIN events /\ Head(events) = events[1]
      /\ \A i \in DOMAIN t : i + 1 \in DOMAIN events /\ i + 1 # 1 /\ i \in Nat /\ t[i] = events[i + 1]
  BY <1>1, Queue
<1>3. \A x : (Own(x)' <=> Own(x)) /\ (Numbered(x)' <=> Numbered(x))
  BY DEF Own, Numbered
<1>4. events' = t
  OBVIOUS
<1> HIDE DEF t
<1>5. \A i, j \in DOMAIN t : Own(t[i]) /\ Own(t[j]) => i = j
  <2>1. \A i, j \in DOMAIN t : Own(t[i]) /\ Own(t[j]) => i + 1 = j + 1
    BY <1>1, <1>2 DEF Queues
  <2>2. QED
    BY <1>2, <2>1
<1>6. Queues'
  BY <1>1, <1>2, <1>3, <1>4, <1>5 DEF Queues
<1>7. Own(Head(events)) => \A i \in DOMAIN t : ~ Own(t[i])
  BY <1>1, <1>2 DEF Queues
<1>8. Numbered(Head(events))
      /\ (Own(Head(events)) =>
            /\ IF Head(events).event = "committed"
               THEN Head(events).ok => guiPeer[current] = "ExitCommitted"
               ELSE guiPeer[current] # "ExitCommitted"
            /\ \A i \in DOMAIN tasks : ~ Own(tasks[i]))
  BY <1>1, <1>2 DEF Queues
<1>9. QED
  BY <1>1, <1>2, <1>4, <1>6, <1>7, <1>8 DEF Commits

\* The present session, which has nothing queued, is asked for its commit.
LEMMA CommitQueued ==
    ASSUME HandoffInv, events # <<>>, events' = Tail(events), Own(Head(events)),
           UNCHANGED <<current, generation, begun, guiPeer>>,
           Head(events).event = "started",
           tasks' = Append(tasks, [task |-> "commit", session |-> current,
                                   generation |-> generation])
    PROVE /\ events' \in Seq(Events) /\ tasks' \in Seq(Tasks) /\ Queues'
          /\ \A r \in Sessions : r \in Commits' => r \in Commits \/ r = current
<1>1. /\ tasks \in Seq(Tasks) /\ events \in Seq(Events) /\ Queues /\ Turns
      /\ current \in {0} \cup Sessions /\ generation \in Nat /\ begun \in {0} \cup Sessions
  BY StartsFrom, Types DEF HandoffInv
<1>2. current # 0 /\ current \in Sessions /\ current <= begun
  BY <1>1, SessionsAre DEF Own, Turns
<1> DEFINE x == [task |-> "commit", session |-> current, generation |-> generation]
           n == Len(tasks) + 1
           t == Tail(events)
<1>3. x \in Tasks /\ Own(x) /\ Numbered(x) /\ x.session = current
  BY <1>1, <1>2 DEF Tasks, Own, Numbered
<1>4. tasks' = Append(tasks, x) /\ events' = t
  OBVIOUS
<1>5. /\ t \in Seq(Events) /\ 1 \in DOMAIN events /\ Head(events) = events[1]
      /\ \A i \in DOMAIN t : i + 1 \in DOMAIN events /\ i + 1 # 1 /\ i \in Nat /\ t[i] = events[i + 1]
  BY <1>1, Queue
<1> HIDE DEF x, n, t
<1>6. /\ tasks' \in Seq(Tasks) /\ DOMAIN tasks' = DOMAIN tasks \cup {n} /\ n \notin DOMAIN tasks
      /\ tasks'[n] = x /\ \A i \in DOMAIN tasks : tasks'[i] = tasks[i]
  BY <1>1, <1>3, <1>4, Queue DEF n
<1>7. \A y : (Own(y)' <=> Own(y)) /\ (Numbered(y)' <=> Numbered(y))
  BY DEF Own, Numbered
<1>8. /\ \A i \in DOMAIN tasks : ~ Own(tasks[i])
      /\ \A i \in DOMAIN t : ~ Own(t[i])
      /\ guiPeer[current] # "ExitCommitted"
  BY <1>1, <1>5 DEF Queues
<1>9. /\ \A i \in DOMAIN tasks' : Numbered(tasks'[i])
      /\ \A i \in DOMAIN t : Numbered(t[i])
  BY <1>1, <1>3, <1>5, <1>6 DEF Queues
<1>10. \A i \in DOMAIN tasks' : Own(tasks'[i]) => i = n
  BY <1>6, <1>8
<1>11. Queues'
  BY <1>4, <1>7, <1>8, <1>9, <1>10 DEF Queues
<1>12. \A r \in Sessions : r \in Commits' => r \in Commits \/ r = current
  BY <1>3, <1>6 DEF Commits
<1>13. QED
  BY <1>4, <1>5, <1>6, <1>11, <1>12

LEMMA BeginFailsKeeps ==
    ASSUME HandoffInv, BeginFails
    PROVE HandoffInv'
<1>1. UNCHANGED <<tasks, events, current, generation, begun, guiPeer>>
  BY DEF BeginFails
<1>2. Queues' /\ Commits' = Commits
  BY <1>1 DEF HandoffInv, Queues, Numbered, Own, Commits
<1>3. app = "running" /\ ~ prepared
  BY DEF BeginFails, BeginAllowed
<1>4. QED
  BY <1>1, <1>2, <1>3, StartsFrom, Types, GuiStep DEF BeginFails

LEMMA CancelKeeps ==
    ASSUME HandoffInv, Cancel
    PROVE HandoffInv'
<1>1. generation' \in Nat
  BY StartsFrom, Types DEF Cancel
<1>2. /\ tasks' \in Seq(Tasks) /\ events' \in Seq(Events) /\ Queues'
      /\ \A r \in Sessions : r \in Commits' => r \in Commits
  BY GivenUp DEF Cancel
<1>3. QED
  BY <1>1, <1>2, StartsFrom, Types, GuiStep DEF Cancel

LEMMA PreparationLostKeeps ==
    ASSUME HandoffInv, PreparationLost
    PROVE HandoffInv'
<1>1. generation' \in Nat
  BY StartsFrom, Types DEF PreparationLost
<1>2. /\ tasks' \in Seq(Tasks) /\ events' \in Seq(Events) /\ Queues'
      /\ \A r \in Sessions : r \in Commits' => r \in Commits
  BY GivenUp DEF PreparationLost, Fail
<1>3. QED
  BY <1>1, <1>2, StartsFrom, Types, GuiStep DEF PreparationLost, Fail

\* What a completion that is not stale says of the present session.
LEMMA NotStale ==
    ASSUME HandoffInv, events # <<>>, NEW awaited \in {"Preparing", "Waiting"},
           ~ Stale(Head(events), awaited)
    PROVE /\ state = awaited /\ current \in Sessions /\ current = begun
          /\ Own(Head(events)) /\ Head(events).session = current
          /\ IF Head(events).event = "committed"
             THEN Head(events).ok => guiPeer[current] = "ExitCommitted"
             ELSE guiPeer[current] # "ExitCommitted"
<1>1. events \in Seq(Events) /\ Queues /\ Turns /\ current \in {0} \cup Sessions
  BY StartsFrom, Types DEF HandoffInv
<1>2. 1 \in DOMAIN events /\ Head(events) = events[1]
  BY <1>1, Queue
<1>3. state = awaited /\ Head(events).generation = generation
  BY DEF Stale
<1>4. current \in Sessions /\ current # 0 /\ current = begun
  BY <1>1, <1>3 DEF Turns
<1>5. Own(Head(events)) /\ Head(events).session = current
  BY <1>1, <1>2, <1>3, <1>4 DEF Queues, Numbered, Own
<1>6. QED
  BY <1>1, <1>2, <1>3, <1>4, <1>5 DEF Queues

LEMMA GuiEventKeeps ==
    ASSUME HandoffInv, GuiEvent
    PROVE HandoffInv'
<1> DEFINE e == Head(events)
<1>1. /\ app = "running" /\ events # <<>> /\ events' = Tail(events)
      /\ UNCHANGED <<startedBy, begun, exited, guiPeer, relayVars, engineVars, pipeVars, other>>
  BY DEF GuiEvent
<1>2. /\ prepared \in BOOLEAN /\ reservationHeld \in BOOLEAN /\ commitPending \in BOOLEAN
      /\ committed \in SUBSET Sessions /\ generation \in Nat /\ Turns
      /\ state \in {"Idle", "Preparing", "Waiting", "ExitCommitted", "Cancelled", "Failed"}
  BY StartsFrom, Types DEF HandoffInv
\* The completion changes nothing, or no more than the mutex or the state.
<1>3. ASSUME UNCHANGED <<tasks, current, generation>>,
             UNCHANGED state \/ state' = "ExitCommitted", prepared' \in BOOLEAN,
             prepared' => prepared /\ state' = state, commitPending' \in BOOLEAN,
             app' \in {"running", "closing"}, reservationHeld' \in BOOLEAN,
             holders' \in {holders, holders \ {Application}}, committed' \in SUBSET Sessions
      PROVE HandoffInv'
  <2>1. /\ tasks' \in Seq(Tasks) /\ events' \in Seq(Events) /\ Queues' /\ Commits' = Commits
    BY <1>1, <1>3, EventTaken
  <2>2. /\ state' \in {"Preparing", "Waiting"} => current' # 0
        /\ prepared' => state' \in {"Preparing", "Waiting"}
    BY <1>2, <1>3 DEF Turns
  <2>3. QED
    BY <1>1, <1>2, <1>3, <2>1, <2>2, GuiStep
\* The session is given up.
<1>4. ASSUME Fail, UNCHANGED <<app, committed, generation>>, commitPending' \in BOOLEAN
      PROVE HandoffInv'
  <2>1. /\ tasks' \in Seq(Tasks) /\ events' \in Seq(Events) /\ Queues'
        /\ \A r \in Sessions : r \in Commits' => r \in Commits
    BY <1>1, <1>4, GivenUp DEF Fail
  <2>2. QED
    BY <1>1, <1>2, <1>4, <2>1, GuiStep DEF Fail
<1>5. CASE e.event = "started" /\ OnStartFinished(e) /\ UNCHANGED <<app, committed>>
  <2>1. CASE Stale(e, "Preparing")
    BY <1>1, <1>2, <1>3, <1>5, <2>1 DEF OnStartFinished
  <2>2. CASE ~ Stale(e, "Preparing") /\ e.ok /\ CanCommitExit(guiPeer[e.session], relay[e.session])
    <3>1. /\ state' = "Waiting" /\ commitPending' = TRUE
          /\ tasks' = Append(tasks, [task |-> "commit", session |-> current,
                                     generation |-> generation])
          /\ UNCHANGED <<prepared, current, generation, reservationHeld, holders>>
      BY <1>5, <2>2 DEF OnStartFinished
    <3>2. current \in Sessions /\ current = begun /\ Own(e) /\ e.session = current
          /\ state = "Preparing"
      BY <1>1, <2>2, NotStale
    <3>3. CanExit(guiPeer[current]) /\ current # 0
      BY <2>2, <3>2, SessionsAre DEF CanCommitExit
    <3>4. /\ events' \in Seq(Events) /\ tasks' \in Seq(Tasks) /\ Queues'
          /\ \A r \in Sessions : r \in Commits' => r \in Commits \/ r = current
      BY <1>1, <1>5, <3>1, <3>2, CommitQueued
    <3>5. QED
      BY <1>1, <1>2, <1>5, <3>1, <3>2, <3>3, <3>4, GuiStep
  <2>3. CASE ~ Stale(e, "Preparing") /\ ~ (e.ok /\ CanCommitExit(guiPeer[e.session], relay[e.session]))
    BY <1>2, <1>4, <1>5, <2>3 DEF OnStartFinished
  <2>4. QED
    BY <2>1, <2>2, <2>3
<1>6. CASE e.event = "committed" /\ OnCommitFinished(e)
  <2>1. commitPending' = FALSE /\ UNCHANGED generation
    BY <1>6 DEF OnCommitFinished
  <2>2. CASE Stale(e, "Waiting")
    BY <1>1, <1>2, <1>3, <1>6, <2>1, <2>2 DEF OnCommitFinished
  <2>3. CASE ~ Stale(e, "Waiting") /\ Fail /\ UNCHANGED <<app, committed>>
    BY <1>4, <2>1, <2>3
  <2>4. CASE /\ ~ Stale(e, "Waiting") /\ app' = "closing" /\ state' = "ExitCommitted"
             /\ prepared' = FALSE /\ committed' = committed \cup {current}
             /\ UNCHANGED <<current, reservationHeld, tasks, holders>>
    <3>1. current \in Sessions
      BY <1>1, <2>4, NotStale
    <3>2. QED
      BY <1>2, <1>3, <2>1, <2>4, <3>1
  <2>5. QED
    BY <1>6, <2>2, <2>3, <2>4 DEF OnCommitFinished
<1>7. CASE e.event = "cancelled" /\ OnCancelled(e) /\ UNCHANGED <<app, committed>>
  BY <1>1, <1>2, <1>3, <1>7 DEF OnCancelled
<1>8. QED
  BY <1>5, <1>6, <1>7 DEF GuiEvent

\* A session begins only when nobody has a handle, so no older one can go on.
LEMMA BeginKeeps ==
    ASSUME HandoffInv, Begin
    PROVE HandoffInv'
<1>1. /\ tasks \in Seq(Tasks) /\ events \in Seq(Events) /\ generation \in Nat
      /\ begun \in {0} \cup Sessions /\ begun \in Nat /\ Queues /\ Turns
      /\ begun + 1 \in Sessions /\ holders = {} /\ app = "running"
  BY StartsFrom, Types, SessionsAre DEF HandoffInv, Begin, BeginAllowed, GateClosed
<1>2. /\ begun' = begun + 1 /\ current' = begun + 1 /\ generation' = generation + 1
      /\ prepared' = TRUE /\ reservationHeld' = TRUE /\ holders' = {Application}
      /\ state' = "Preparing"
      /\ UNCHANGED <<app, startedBy, commitPending, events, exited, committed, guiPeer,
                     relay, relayPeer, engine, code, open, wire, other>>
  BY <1>1 DEF Begin, relayVars, engineVars, pipeVars
<1> DEFINE x == [task |-> "start", session |-> begun + 1, generation |-> generation + 1]
           n == Len(tasks) + 1
<1>3. x \in Tasks /\ x.task # "commit" /\ x.session = begun + 1 /\ x.generation = generation + 1
  BY <1>1 DEF Tasks
<1>4. tasks' = Append(tasks, x)
  BY <1>2 DEF Begin
<1> HIDE DEF x, n
<1>5. /\ tasks' \in Seq(Tasks) /\ DOMAIN tasks' = DOMAIN tasks \cup {n} /\ n \notin DOMAIN tasks
      /\ tasks'[n] = x /\ \A i \in DOMAIN tasks : tasks'[i] = tasks[i]
  BY <1>1, <1>3, <1>4, Queue DEF n
<1>6. TypeOK'
  <2>1. holders' \subseteq Holders
    BY <1>2 DEF Holders
  <2>2. QED
    BY <1>1, <1>2, <1>5, TypesNext, <2>1, StartsFrom, Types
<1>7. Turns'
  <2>1. 1 .. begun \subseteq 1 .. (begun + 1)
    BY <1>1
  <2>2. \A s \in Sessions : s > begun + 1 => s > begun
    BY <1>1, SessionsAre
  <2>3. QED
    BY <1>1, <1>2, <2>1, <2>2, SessionsAre DEF Turns
<1>8. Queues'
  <2>1. \A y \in Tasks \cup Events : y.session \in Sessions /\ y.generation \in Nat
    BY DEF Tasks, Events
  <2>2. \A y \in Tasks \cup Events : Numbered(y) => Numbered(y)' /\ ~ Own(y)'
    <3>1. SUFFICES ASSUME NEW y \in Tasks \cup Events, y.session <= begun,
                          y.generation <= generation
                   PROVE /\ y.session <= begun + 1 /\ y.generation <= generation + 1
                         /\ y.session # begun + 1 /\ y.generation # generation + 1
      BY <1>2 DEF Numbered, Own
    <3>2. QED
      BY <1>1, <2>1, <3>1, SessionsAre
  <2>3. \A i \in DOMAIN tasks : tasks[i] \in Tasks /\ Numbered(tasks[i])
    BY <1>1 DEF Queues
  <2>4. \A i \in DOMAIN events : events[i] \in Events /\ Numbered(events[i])
    BY <1>1 DEF Queues
  <2> DEFINE Fits(y) == /\ y.session <= begun' /\ y.generation <= generation'
                        /\ current' # 0 => (y.session = current' <=> y.generation = generation')
             Mine(y) == current' # 0 /\ y.session = current'
  <2>5. \A y : (Numbered(y)' <=> Fits(y)) /\ (Own(y)' <=> Mine(y))
    BY DEF Numbered, Own
  <2> HIDE DEF Fits, Mine
  <2>6. /\ \A i \in DOMAIN tasks : Fits(tasks[i]) /\ ~ Mine(tasks[i])
        /\ \A i \in DOMAIN events : Fits(events[i]) /\ ~ Mine(events[i])
    BY <2>2, <2>3, <2>4, <2>5
  <2>7. Fits(x)
    BY <1>1, <1>2, <1>3 DEF Fits
  <2>8. guiPeer'[current'] # "ExitCommitted"
    BY <1>1, <1>2, SessionsAre DEF Turns
  <2>9. \A i \in DOMAIN tasks' : Fits(tasks'[i]) /\ (Mine(tasks'[i]) => i = n)
    BY <1>5, <2>6, <2>7
  <2>10. QED
    BY <1>2, <2>5, <2>6, <2>8, <2>9 DEF Queues
<1>9. Parts'
  <2>1. SUFFICES ASSUME NEW r \in Sessions
                 PROVE Part(r)'
    BY DEF Parts
  <2>2. Handles(r) /\ Told(r) /\ Sole(r) /\ Engines(r)
    BY StartsFrom
  <2>3. ~ Holds(r) /\ ~ Holds(r)'
    BY <1>1, <1>2, HandlesDiffer DEF Holds
  <2>4. r \in Commits' => r \in Commits
    BY <1>3, <1>5 DEF Commits
  <2>5. Handles(r)'
    BY <1>2, <2>2, <2>3 DEF Handles, Holds
  <2>6. Told(r)'
    BY <1>2, <2>2, <2>4 DEF Told, CanExit
  <2>7. Sole(r)'
    BY <2>3 DEF Sole
  <2>8. Engines(r)'
    BY <1>2, <2>2 DEF Engines, Proceeds
  <2>9. QED
    BY <2>5, <2>6, <2>7, <2>8 DEF Part
<1>10. Away'
  <2>1. \A s \in exited : Boot(s) \notin holders'
    BY <1>2, HandlesDiffer, StartsFrom, Types
  <2>2. QED
    BY <1>2, <2>1 DEF Away
<1>11. Restarted'
  BY <1>1, <1>2 DEF Restarted
<1>12. QED
  BY <1>6, <1>7, <1>8, <1>9, <1>10, <1>11 DEF HandoffInv

\* The process ends, whatever it was doing.
LEMMA EndProcessKeeps ==
    ASSUME HandoffInv, EndProcess
    PROVE HandoffInv'
<1>1. /\ begun \in {0} \cup Sessions /\ Turns /\ wire \in Wires /\ open \in Opens
      /\ guiPeer \in [Sessions -> HandoffStates]
  BY StartsFrom, Types DEF HandoffInv
<1>2. /\ app' = "gone" /\ prepared' = FALSE /\ state' = "Idle" /\ current' = 0
      /\ generation' = 0 /\ commitPending' = FALSE /\ reservationHeld' = FALSE
      /\ tasks' = <<>> /\ events' = <<>> /\ exited' = 1 .. begun
      /\ guiPeer' = [s \in Sessions |-> IF s \in 1 .. begun THEN Aborted ELSE guiPeer[s]]
      /\ holders' = holders \ {Application}
      /\ UNCHANGED <<startedBy, begun, committed, relay, relayPeer, engine, code, other>>
  BY DEF EndProcess, relayVars, engineVars
<1>3. 1 .. begun \in SUBSET Sessions /\ exited \subseteq exited'
  BY <1>1, <1>2, SessionsAre DEF Turns
<1>4. /\ open' \in Opens /\ wire' \in Wires
      /\ \A r \in Sessions, e \in Ends : ToSet(wire'[r][e]) \subseteq ToSet(wire[r][e])
  <2>1. open' \in Opens
    BY <1>1 DEF EndProcess, Opens
  <2>2. wire' = [r \in Sessions |-> [e \in Ends |-> IF e = "gui" THEN <<>> ELSE wire[r][e]]]
    BY <1>1 DEF EndProcess, Wires
  <2>3. <<>> \in Seq(Messages) /\ ToSet(<<>>) = {}
    BY DEF ToSet
  <2>4. wire' \in Wires
    BY <1>1, <2>2, <2>3 DEF Wires
  <2>5. \A r \in Sessions, e \in Ends : wire'[r][e] = IF e = "gui" THEN <<>> ELSE wire[r][e]
    BY <2>2
  <2>6. QED
    BY <2>1, <2>3, <2>4, <2>5
<1>5. tasks' \in Seq(Tasks) /\ events' \in Seq(Events) /\ DOMAIN <<>> = {}
  BY <1>2
<1>6. TypeOK'
  <2>1. guiPeer' \in [Sessions -> HandoffStates]
    BY <1>1, <1>2 DEF HandoffStates
  <2>2. holders' \subseteq Holders
    BY <1>2, StartsFrom, Types
  <2>3. QED
    BY <1>1, <1>2, <1>3, <1>4, <1>5, TypesNext, <2>1, <2>2, StartsFrom, Types
<1>7. Turns'
  <2>1. \A s \in Sessions : s > begun => s \notin 1 .. begun
    BY <1>1, SessionsAre
  <2>2. QED
    BY <1>1, <1>2, <2>1 DEF Turns
<1>8. Queues'
  BY <1>2, <1>5 DEF Queues
<1>9. Parts'
  <2>1. SUFFICES ASSUME NEW r \in Sessions
                 PROVE Part(r)'
    BY DEF Parts
  <2>2. NoNews(r)
    BY <1>4, EndsAre DEF NoNews
  <2>3. /\ Boot(r) \in holders' <=> Boot(r) \in holders
        /\ Observer(r) \in holders' <=> Observer(r) \in holders
    BY <1>2, HandlesDiffer
  <2>4. r \notin Commits'
    BY <1>2, <1>5 DEF Commits
  <2>5. guiPeer'[r] \in {guiPeer[r], Aborted}
    BY <1>2
  <2>6. Still(r)
    BY <1>2, <1>3, <2>2, <2>3, <2>4, <2>5 DEF Still
  <2>7. QED
    BY <2>6, StillPart DEF HandoffInv, Parts
<1>10. Away' /\ Restarted'
  BY <1>2 DEF Away, Restarted
<1>11. QED
  BY <1>6, <1>7, <1>8, <1>9, <1>10 DEF HandoffInv

-----------------------------------------------------------------------------
(* Starting *)

\* The user starts it, it probes, it enters; and the other instance.
LEMMA StartKeeps ==
    ASSUME HandoffInv, UserStarts \/ Probe \/ Enter \/ Other
    PROVE HandoffInv'
<1>1. UNCHANGED <<guiVars, begun, exited, committed, guiPeer, relay, relayPeer, engine, code,
                  open, wire, holders>>
  BY DEF UserStarts, Probe, Enter, Other, StartUnchanged, relayVars, engineVars, pipeVars
<1>2. UNCHANGED <<prepared, state, current, generation, commitPending, reservationHeld, tasks,
                  events>>
  BY <1>1 DEF guiVars
<1>3. /\ app' \in {"running", "closing", "gone", "starting", "probed"}
      /\ startedBy' \in {"user", "restart", "relaunch"} /\ other' \in {"out", "probed", "in"}
  BY StartsFrom, Types DEF UserStarts, Start, Probe, Enter, Other, OtherProbes, OtherEnters,
     OtherLeaves
<1>4. TypeOK'
  BY <1>1, <1>2, <1>3, TypesNext, StartsFrom, Types
<1>5. Turns' /\ Queues'
  BY <1>1, <1>2 DEF HandoffInv, Turns, Queues, Numbered, Own
<1>6. Parts'
  <2>1. \A r \in Sessions : Still(r)
    BY <1>1, <1>2 DEF Still, NoNews, Commits
  <2>2. QED
    BY <2>1, StillPart DEF HandoffInv, Parts
<1>7. Away'
  <2>1. CASE Probe
    <3>1. holders # {} => app' = "gone"
      BY <2>1 DEF Probe, GateClosed
    <3>2. QED
      BY <1>1, <3>1 DEF Away
  <2>2. CASE UserStarts \/ Enter \/ Other
    BY <1>1, <2>2 DEF HandoffInv, Away, UserStarts, Start, Enter, Other
  <2>3. QED
    BY <2>1, <2>2
<1>8. Restarted'
  <2>1. CASE Other
    BY <1>1, <2>1 DEF HandoffInv, Restarted, Holds, Other
  <2>2. CASE UserStarts \/ Probe \/ Enter
    BY <2>2 DEF Restarted, UserStarts, Start, Probe, Enter
  <2>3. QED
    BY <2>1, <2>2
<1>9. QED
  BY <1>4, <1>5, <1>6, <1>7, <1>8 DEF HandoffInv

-----------------------------------------------------------------------------
(* The theorems *)

LEMMA HandoffInit == Init => HandoffInv
<1>1. SUFFICES ASSUME Init PROVE HandoffInv
  OBVIOUS
<1>2. wire \in Wires /\ open \in Opens /\ ToSet(<<>>) = {} /\ DOMAIN <<>> = {}
      /\ \A s \in Sessions, e \in Ends : wire[s][e] = <<>>
  BY <1>1 DEF Init, Wires, Opens, ToSet
<1>3. TypeOK
  <2>1. tasks \in Seq(Tasks) /\ events \in Seq(Events) /\ holders \subseteq Holders
    BY <1>1 DEF Init
  <2>2. QED
    BY <1>1, <1>2, <2>1, Types DEF Init, HandoffStates, RelayStates, EngineStates
<1>4. Turns /\ Queues /\ Away /\ Restarted
  BY <1>1, <1>2 DEF Init, Turns, Queues, Away, Restarted
<1>5. Parts
  <2>1. SUFFICES ASSUME NEW s \in Sessions PROVE Part(s)
    BY DEF Parts
  <2>2. /\ relay[s] = "none" /\ engine[s] = "none" /\ guiPeer[s] = "Connecting" /\ s \notin Commits
        /\ \A e \in Ends : ToSet(wire[s][e]) = {}
    BY <1>1, <1>2 DEF Init, Commits
  <2>3. ~ Holds(s)
    BY <1>1 DEF Init, Holds
  <2>4. QED
    BY <2>2, <2>3, EndsAre DEF Part, Handles, Holds, Told, CanExit, Sole, Engines, Proceeds,
       Early, Late, Beyond, Past
<1>6. QED
  BY <1>3, <1>4, <1>5 DEF HandoffInv

LEMMA HandoffNext == HandoffInv /\ [Next]_vars => HandoffInv'
<1>1. SUFFICES ASSUME HandoffInv, [Next]_vars PROVE HandoffInv'
  OBVIOUS
<1>2. CASE UNCHANGED vars
  <2>1. UNCHANGED <<app, startedBy, prepared, state, current, generation, commitPending,
                    reservationHeld, tasks, events, begun, exited, committed, guiPeer, relay,
                    relayPeer, engine, code, open, wire, holders, other>>
    BY <1>2 DEF vars, appVars, guiVars, relayVars, engineVars, pipeVars
  <2>2. TypeOK'
    BY <1>1, <2>1 DEF HandoffInv, TypeOK
  <2>3. Turns' /\ Queues'
    BY <1>1, <2>1 DEF HandoffInv, Turns, Queues, Numbered, Own
  <2>4. Parts'
    <3>1. \A r \in Sessions : Still(r)
      BY <2>1 DEF Still, NoNews, Commits
    <3>2. QED
      BY <1>1, <3>1, StillPart DEF HandoffInv, Parts
  <2>5. Away' /\ Restarted'
    BY <1>1, <2>1 DEF HandoffInv, Away, Restarted, Holds
  <2>6. QED
    BY <2>2, <2>3, <2>4, <2>5 DEF HandoffInv
<1>3. CASE User
  BY <1>1, <1>3, BeginFailsKeeps, BeginKeeps, CancelKeeps, PreparationLostKeeps, EndProcessKeeps,
     StartKeeps DEF User, Quit
<1>4. CASE Death
  BY <1>1, <1>4, EndProcessKeeps, RelayKeeps, EngineKeeps DEF Death, KillApp
<1>5. CASE System
  BY <1>1, <1>5, GuiEventKeeps, WorkerKeeps, EndProcessKeeps, StartKeeps, RelayKeeps, EngineKeeps
     DEF System, Exit
<1>6. QED
  BY <1>1, <1>2, <1>3, <1>4, <1>5 DEF Next

\* The three processes stay in step: the invariant holds in every state.
THEOREM HandoffCorrect == Spec => []HandoffInv
BY HandoffInit, HandoffNext, PTL DEF Spec

\* Where a session whose engine replaces files, for a relay that lives, can be.
LEMMA WatchedSession ==
    ASSUME HandoffInv, NEW s \in Sessions, Watched(s)
    PROVE s \in exited /\ Boot(s) \in holders /\ s = begun
<1>1. Handles(s) /\ Sole(s) /\ Engines(s) /\ engine[s] = "execute" /\ relay[s] # "gone"
  BY StartsFrom DEF Watched, Alive
<1>2. s \in exited /\ relay[s] \in {"finish", "relaunch", "leave"}
  BY <1>1 DEF Engines, Proceeds, Past
<1>3. Boot(s) \in holders
  BY <1>1, <1>2 DEF Handles
<1>4. QED
  BY <1>1, <1>2, <1>3 DEF Sole, Holds, Beyond, Past

\* While the engine replaces files, and its relay lives, the application that left is gone,
\* no new one gets in, and no other engine with a living relay replaces files.
THEOREM AppOutWhileExecuting == Spec => []NoAppWhileExecuting
<1>1. HandoffInv => NoAppWhileExecuting
  BY WatchedSession DEF HandoffInv, Away, NoAppWhileExecuting
<1>2. QED
  BY <1>1, HandoffCorrect, PTL

\* The mutex exists all the while.
THEOREM GateIsHeld == Spec => []GateHeld
<1>1. HandoffInv => GateHeld
  BY WatchedSession DEF GateHeld, GateClosed
<1>2. QED
  BY <1>1, HandoffCorrect, PTL

\* The relay that restarts the application has let go of its handles before.
THEOREM RestartedEnters == Spec => []RestartEnters
<1>1. HandoffInv => RestartEnters
  <2>1. SUFFICES ASSUME HandoffInv, NEW s \in Sessions,
                        app = "starting", startedBy = "restart", relay[s] = "leave"
                 PROVE ~ Holds(s)
    BY DEF RestartEnters, Holds
  <2>2. Sole(s) /\ ~ Holds(begun)
    BY <2>1, StartsFrom DEF HandoffInv, Restarted
  <2>3. QED
    BY <2>1, <2>2 DEF Sole, Beyond, Past
<1>2. QED
  BY <1>1, HandoffCorrect, PTL

\* The windows are frozen only while a handoff is under way.
THEOREM FrozenOnlyThen == Spec => []FrozenOnlyInHandoff
<1>1. HandoffInv => FrozenOnlyInHandoff
  BY DEF HandoffInv, Turns, FrozenOnlyInHandoff
<1>2. QED
  BY <1>1, HandoffCorrect, PTL

\* The application leaves only when the session it is in has been told so.
LEMMA LeavingStep ==
    ASSUME HandoffInv, Next, app = "running", app' = "closing"
    PROVE guiPeer[current] = "ExitCommitted"
<1>1. GuiEvent
  <2>1. ~ User
    BY DEF User, BeginFails, Begin, Cancel, PreparationLost, Quit, EndProcess, UserStarts, Other
  <2>2. ASSUME NEW s \in Sessions PROVE ~ Relay(s) /\ ~ KillRelay(s)
    BY DEF Relay, Bootstrap, Greet, Welcomed, StartInstaller, AuthenticateEngine, EngineWaits,
       Await, RelayFails, TellApplication, ReceiveCommit, ForwardCommit, Proceed, FinishMessage,
       FinishCode, Relaunch, ReleaseObserver, Restart, Leave, Start, KillRelay
  <2>3. ASSUME NEW s \in Sessions PROVE ~ Engine(s) /\ ~ KillEngine(s)
    BY DEF Engine, EngineHello, EngineReady, Prepare, AwaitCommit, AwaitProceed, EngineGate,
       Execute, EngineLeaves, KillEngine, EngineUnchanged, appVars
  <2>4. ~ Worker
    BY DEF Worker, StartRelay, Authenticate, AwaitAppExit, CommitExit, CancelSession,
       WorkerUnchanged
  <2>5. ~ Exit /\ ~ KillApp /\ ~ Probe /\ ~ Enter
    BY DEF Exit, KillApp, EndProcess, Probe, Enter
  <2>6. QED
    BY <2>1, <2>2, <2>3, <2>4, <2>5 DEF Next, Death, System
<1> DEFINE e == Head(events)
<1>2. events # <<>> /\ e.event = "committed" /\ OnCommitFinished(e)
  BY <1>1 DEF GuiEvent
<1>3. ~ Stale(e, "Waiting") /\ e.ok
  BY <1>2 DEF OnCommitFinished
<1>4. QED
  BY <1>2, <1>3, NotStale

\* The application leaves for an update only when the relay of the session it is in has been
\* sent CommitExit: no completion of an earlier one does it (onCommitFinished).
THEOREM LeavesForItsOwn == Spec => LeavesForItsOwnSession
<1>1. HandoffInv /\ [Next]_vars =>
         [app = "running" /\ app' = "closing" => guiPeer[current] = "ExitCommitted"]_vars
  BY LeavingStep
<1>2. QED
  BY <1>1, HandoffCorrect, PTL DEF Spec, LeavesForItsOwnSession

=============================================================================
