--------------------- MODULE TelemetryConnection_proofs ---------------------
(***************************************************************************)
(* Proofs about TelemetryConnection, for any number of requests, ports and *)
(* tasks.                                                                  *)
(***************************************************************************)
EXTENDS TelemetryConnection, FiniteSetTheorems, TLAPS

\* There is a task to start for every reconnect in progress.
Room == Cardinality(Free) >= Cardinality(InFlight)

\* While reconnects come one at a time, the one in progress awaits the
\* controller's task, which it has cancelled, and no other task is live.
Single ==
    ~overlap =>
        /\ \A g, h \in InFlight : g = h
        /\ \A h \in InFlight :
            waits[h] = task /\ (Live(task) => task \in cancelled)
        /\ \A t \in Loops : Live(t) => t = task

\* Every route but POST /settings saves and shows the same backend.
ShownSaved ==
    ~edited =>
        /\ shown = "connected" => config.backend = "serial"
        /\ shown = "mock_idle" => config.backend = "mock"

\* A scan keeps off the port that the settings named when it began.
ScanKnows ==
    /\ probed # None => skip # None /\ probed # skip
    /\ skip # None /\ ~moved => skip = config.port

IInv ==
    /\ TypeOK /\ Room /\ ControllerHasLoop /\ Single
    /\ LastSaveWins /\ ShownSaved /\ ScanKnows

-----------------------------------------------------------------------------
(* What the steps have in common.                                          *)

\* A route begins a reconnect or leaves controller and tasks alone.
LEMMA RouteCases ==
    ASSUME NEW h \in Handlers, Route(h)
    PROVE  /\ Idle(h)
           /\ NoReconnect \/ Reconnect(h)
BY DEF Route, PostMode, PostDisconnect, PostSettings, DetectLive, DetectOpens,
    DetectFails, Detected

\* What a route may save and show.
LEMMA RouteSettings ==
    ASSUME TypeOK, NEW h \in Handlers, Route(h)
    PROVE  /\ config' \in Configs
           /\ shown' \in {"setup", "mock_idle", "connected", "not_detected"}
           /\ moved' \in BOOLEAN /\ behind' \in BOOLEAN /\ edited' \in BOOLEAN
           /\ skip # None /\ ~moved' => ~moved /\ config' = config
           /\ Reconnect(h) \/ behind' \/ (config' = config /\ behind' = behind)
           /\ ShownSaved'
<1> USE DEF TypeOK, Save, Configs, ShownSaved, Changed
<1>1. CASE PostMode(h)
    BY <1>1 DEF PostMode
<1>2. CASE PostDisconnect(h)
    BY <1>2 DEF PostDisconnect
<1>3. CASE PostSettings(h)
    BY <1>3 DEF PostSettings
<1>4. ASSUME NEW p \in Ports, Detected(h, p)
      PROVE  /\ config' \in Configs /\ shown' = "connected"
             /\ moved' \in BOOLEAN /\ behind' = behind /\ edited' = FALSE
             /\ skip # None /\ ~moved' => ~moved /\ config' = config
             /\ Reconnect(h) \/ config' = config
             /\ config'.backend = "serial"
    <2>1. CASE AlreadyMatch(p)
        BY <1>4, <2>1 DEF Detected, AlreadyMatch
    <2>2. CASE ~AlreadyMatch(p)
        <3>1. Save([backend |-> "serial", port |-> p])
            BY <1>4, <2>2 DEF Detected
        <3>2. config' \in Configs /\ config'.backend = "serial"
            BY <3>1
        <3>3. /\ moved' \in BOOLEAN
              /\ skip # None /\ ~moved' => ~moved /\ config' = config
            BY <3>1
        <3> QED
            BY <1>4, <2>2, <3>2, <3>3 DEF Detected
    <2> QED
        BY <2>1, <2>2
<1>5. CASE DetectFails(h)
    BY <1>5 DEF DetectFails
<1> QED
    BY <1>1, <1>2, <1>3, <1>4, <1>5 DEF Route, DetectLive, DetectOpens

\* A task goes from one point to another or ends because it was cancelled.
LEMMA TaskCases ==
    ASSUME NEW t \in Loops, Task(t)
    PROVE  /\ UNCHANGED <<settings, controller, waits, scan, moved, overlap,
                          behind, edited>>
           /\ \/ Cancelled(t)
              \/ /\ Live(t)
                 /\ UNCHANGED <<feed, cancelled>>
                 /\ \E to \in {"waiting", "heartbeat", "reading"} :
                     /\ to = "heartbeat" => feed[t] # Mock
                     /\ phase' = [phase EXCEPT ![t] = to]
<1>1. CASE Connects(t)
    BY <1>1 DEF Connects, Loop, Live
<1>2. CASE MockStarts(t)
    BY <1>2 DEF MockStarts, Loop, Live
<1>3. CASE Heartbeat(t)
    BY <1>3 DEF Heartbeat, Loop, Live
<1>4. CASE NoHeartbeat(t)
    BY <1>4 DEF NoHeartbeat, Loop, Live
<1>5. CASE Drops(t)
    BY <1>5 DEF Drops, Loop, Live
<1>6. CASE Cancelled(t)
    BY <1>6 DEF Cancelled
<1> QED
    BY <1>1, <1>2, <1>3, <1>4, <1>5, <1>6 DEF Task

\* A scan touches nothing else.
LEMMA ScanCases ==
    ASSUME Scan
    PROVE  UNCHANGED <<settings, controller, tasks, waits, overlap, behind, edited>>
BY DEF Scan, ScanBegins, ProbeOpens, ProbeCloses, ScanEnds, Scans

\* There are finitely many tasks and requests.
LEMMA Finite ==
    /\ IsFiniteSet(Loops)
    /\ IsFiniteSet(Free) /\ Cardinality(Free) \in Nat
    /\ IsFiniteSet(InFlight) /\ Cardinality(InFlight) \in Nat
<1>1. IsFiniteSet(Loops)
    BY FS_Interval, LoopsAssumption DEF Loops
<1>2. Free \in SUBSET Loops /\ InFlight \in SUBSET Handlers
    BY DEF Free, InFlight
<1>3. IsFiniteSet(Free) /\ IsFiniteSet(InFlight)
    BY <1>1, <1>2, FS_Subset, HandlersAssumption
<1> QED
    BY <1>1, <1>3, FS_CardinalityType

\* A reconnect that is in progress finds a task that nobody refers to.
LEMMA FreshFree ==
    ASSUME Room, NEW h \in InFlight
    PROVE  Fresh \in Free
<1>1. Cardinality(InFlight) # 0
    BY Finite, FS_EmptySet
<1>2. Cardinality(Free) # 0
    BY <1>1, Finite DEF Room
<1>3. Free # {}
    BY <1>2, FS_EmptySet
<1> QED
    BY <1>3 DEF Fresh

-----------------------------------------------------------------------------
(* One lemma for each part of the invariant.                               *)

\* Every step keeps the types.
LEMMA TypeStep == TypeOK /\ Room /\ [Next]_vars => TypeOK'
<1> SUFFICES ASSUME TypeOK, Room, [Next]_vars PROVE TypeOK'
    OBVIOUS
<1> USE NamesAssumption
<1>1. ASSUME NEW h \in Handlers, Route(h) PROVE TypeOK'
    <2>1. /\ config' \in Configs
          /\ shown' \in {"setup", "mock_idle", "connected", "not_detected"}
          /\ {moved, behind, edited}' \subseteq BOOLEAN
        BY <1>1, RouteSettings
    <2>2. CASE NoReconnect
        BY <2>1, <2>2 DEF NoReconnect, TypeOK, controller, tasks, scan
    <2>3. CASE Reconnect(h)
        BY <2>1, <2>3 DEF Reconnect, TypeOK, controller, scan, Live
    <2> QED
        BY <1>1, <2>2, <2>3, RouteCases
<1>2. ASSUME NEW h \in Handlers, Reconnected(h) PROVE TypeOK'
    <2>1. h \in InFlight
        BY <1>2 DEF Reconnected, Awaited, InFlight
    <2>2. Fresh \in Free /\ Fresh \in Loops /\ ~Live(Fresh)
        BY <2>1, FreshFree DEF Free
    <2>3. SourceOf(config) \in Sources
        BY DEF TypeOK, SourceOf, Configs, Sources
    <2> QED
        BY <1>2, <2>2, <2>3 DEF Reconnected, Restart, TypeOK, Live, settings, scan
<1>3. ASSUME NEW t \in Loops, Task(t) PROVE TypeOK'
    <2>1. CASE Cancelled(t)
        BY <2>1 DEF Cancelled, TypeOK, settings, controller, scan, Sources
    <2>2. CASE ~Cancelled(t)
        BY <1>3, <2>2, TaskCases DEF TypeOK, settings, controller, scan, Live, Sources
    <2> QED
        BY <2>1, <2>2
<1>4. CASE Scan
    BY <1>4 DEF Scan, ScanBegins, ProbeOpens, ProbeCloses, ScanEnds, Scans,
        TypeOK, settings, controller, tasks, Configs
<1>5. CASE UNCHANGED vars
    BY <1>5 DEF vars, TypeOK, settings, controller, tasks, scan
<1> QED
    BY <1>1, <1>2, <1>3, <1>4, <1>5 DEF Next

\* A reconnect takes a free task only when it starts it, and then it is over.
LEMMA RoomStep == TypeOK /\ Room /\ [Next]_vars => Room'
<1> SUFFICES ASSUME TypeOK, Room, [Next]_vars PROVE Room'
    OBVIOUS
<1> USE NamesAssumption
<1>1. IsFiniteSet(Free') /\ IsFiniteSet(InFlight')
    <2>1. Free' \in SUBSET Loops /\ InFlight' \in SUBSET Handlers
        BY DEF Free, InFlight
    <2> QED
        BY <2>1, Finite, FS_Subset, HandlersAssumption
<1>2. Cardinality(Free') \in Nat /\ Cardinality(InFlight') \in Nat
    BY <1>1, FS_CardinalityType
<1>3. ASSUME Free \subseteq Free', InFlight' = InFlight PROVE Room'
    BY <1>1, <1>2, <1>3, Finite, FS_Subset DEF Room
<1>4. ASSUME NEW h \in Handlers, Reconnect(h), Idle(h) PROVE Room'
    <2>1. waits' = [waits EXCEPT ![h] = task] /\ task \in Loops /\ task # None
        BY <1>4 DEF Reconnect, TypeOK, Loops
    <2>2. InFlight' = InFlight \cup {h} /\ h \notin InFlight
        BY <1>4, <2>1 DEF InFlight, Idle, TypeOK
    <2>3. Free' = Free
        <3>1. \A t \in Loops : Live(t)' = Live(t)
            BY <1>4 DEF Reconnect, Live
        <3>2. \A t \in Loops : t # task =>
                ((\A g \in Handlers : waits'[g] # t) <=> \A g \in Handlers : waits[g] # t)
            BY <1>4, <2>1 DEF Idle, TypeOK, Loops
        <3>3. task' = task
            BY <1>4 DEF Reconnect, controller
        <3> QED
            BY <3>1, <3>2, <3>3 DEF Free
    <2>4. Cardinality(InFlight') = Cardinality(InFlight) + 1
        BY <2>2, Finite, FS_AddElement
    <2> QED
        BY <1>4, <2>3, <2>4, Finite DEF Reconnect, Room
<1>5. ASSUME NEW h \in Handlers, Reconnected(h) PROVE Room'
    <2>1. h \in InFlight /\ waits' = [waits EXCEPT ![h] = None]
        BY <1>5 DEF Reconnected, Awaited, InFlight
    <2>2. Fresh \in Free
        BY <2>1, FreshFree
    <2>3. InFlight' = InFlight \ {h}
        BY <2>1 DEF InFlight, TypeOK
    <2>4. Cardinality(InFlight') = Cardinality(InFlight) - 1
        BY <2>1, <2>3, Finite, FS_RemoveElement
    <2>5. task' = Fresh /\ phase' = [phase EXCEPT ![Fresh] = "waiting"]
        BY <1>5 DEF Reconnected, Restart
    <2>6. Free \ {Fresh} \subseteq Free'
        <3> SUFFICES ASSUME NEW t \in Free \ {Fresh} PROVE t \in Free'
            OBVIOUS
        <3>1. t \in Loops /\ t # None /\ ~Live(t)
            BY DEF Free, Loops
        <3>2. ~Live(t)'
            BY <2>5, <3>1 DEF Live, TypeOK
        <3>3. \A g \in Handlers : waits'[g] # t
            BY <2>1, <3>1 DEF Free, TypeOK
        <3> QED
            BY <2>5, <3>1, <3>2, <3>3 DEF Free
    <2>7. /\ IsFiniteSet(Free \ {Fresh})
          /\ Cardinality(Free \ {Fresh}) = Cardinality(Free) - 1
        BY <2>2, Finite, FS_RemoveElement
    <2>8. Cardinality(Free \ {Fresh}) <= Cardinality(Free')
        BY <1>1, <2>6, FS_Subset
    <2> QED
        BY <1>2, <2>4, <2>7, <2>8, Finite DEF Room
<1>6. ASSUME NEW t \in Loops, Task(t) PROVE Room'
    <2>1. task' = task /\ waits' = waits /\ InFlight' = InFlight
        BY <1>6, TaskCases DEF controller, InFlight
    <2>2. \A l \in Loops : ~Live(l) => ~Live(l)'
        <3>1. CASE Cancelled(t)
            BY <3>1 DEF Cancelled, Live, TypeOK
        <3>2. CASE ~Cancelled(t)
            BY <1>6, <3>2, TaskCases DEF Live, TypeOK
        <3> QED
            BY <3>1, <3>2
    <2> QED
        BY <1>3, <2>1, <2>2 DEF Free
<1>7. CASE UNCHANGED <<controller, tasks, waits>>
    BY <1>3, <1>7 DEF controller, tasks, Free, InFlight, Live
<1> QED
    BY <1>4, <1>5, <1>6, <1>7, RouteCases, ScanCases DEF Next, vars, NoReconnect

\* A reconnect awaits the controller's task whenever it has cancelled it; one
\* that has ended leaves a new task.
LEMMA HasLoopStep ==
    TypeOK /\ Room /\ ControllerHasLoop /\ [Next]_vars => ControllerHasLoop'
<1> SUFFICES ASSUME TypeOK, Room, ControllerHasLoop, [Next]_vars
             PROVE  ControllerHasLoop'
    OBVIOUS
<1> USE NamesAssumption
<1>1. ASSUME NEW h \in Handlers, Reconnect(h) PROVE ControllerHasLoop'
    <2>1. waits'[h] = task /\ task' = task
        BY <1>1 DEF Reconnect, controller, TypeOK
    <2> QED
        BY <2>1 DEF ControllerHasLoop
<1>2. ASSUME NEW h \in Handlers, Reconnected(h) PROVE ControllerHasLoop'
    <2>1. h \in InFlight
        BY <1>2 DEF Reconnected, Awaited, InFlight
    <2>2. Fresh \in Loops /\ ~Live(Fresh)
        BY <2>1, FreshFree DEF Free
    <2>3. task' = Fresh /\ phase'[Fresh] = "waiting" /\ cancelled' = cancelled
        BY <1>2, <2>2 DEF Reconnected, Restart, TypeOK
    <2>4. Fresh \notin cancelled
        BY <2>2 DEF TypeOK, Live
    <2> QED
        BY <2>3, <2>4 DEF ControllerHasLoop, Live
<1>3. ASSUME NEW t \in Loops, Task(t) PROVE ControllerHasLoop'
    <2>1. task' = task /\ waits' = waits
        BY <1>3, TaskCases DEF controller
    <2>2. CASE Cancelled(t)
        BY <2>1, <2>2 DEF Cancelled, ControllerHasLoop, Live, TypeOK
    <2>3. CASE ~Cancelled(t)
        BY <1>3, <2>1, <2>3, TaskCases DEF ControllerHasLoop, Live, TypeOK
    <2> QED
        BY <2>2, <2>3
<1>4. CASE UNCHANGED <<controller, tasks, waits>>
    BY <1>4 DEF controller, tasks, ControllerHasLoop, Live
<1> QED
    BY <1>1, <1>2, <1>3, <1>4, RouteCases, ScanCases DEF Next, vars, NoReconnect

\* While no reconnect meets another, each replaces the task it has ended.
LEMMA SingleStep == TypeOK /\ Room /\ Single /\ [Next]_vars => Single'
<1> SUFFICES ASSUME TypeOK, Room, Single, [Next]_vars, ~overlap'
             PROVE  /\ \A g, h \in InFlight' : g = h
                    /\ \A h \in InFlight' :
                        waits'[h] = task' /\ (Live(task)' => task' \in cancelled')
                    /\ \A t \in Loops : Live(t)' => t = task'
    BY DEF Single
<1> USE NamesAssumption
<1>1. ASSUME NEW h \in Handlers, Reconnect(h), Idle(h) PROVE Single'
    <2>1. ~overlap /\ InFlight = {}
        BY <1>1 DEF Reconnect
    <2>2. waits' = [waits EXCEPT ![h] = task] /\ task' = task /\ phase' = phase
        BY <1>1 DEF Reconnect, controller
    <2>3. InFlight' \subseteq {h} /\ waits'[h] = task'
        BY <2>1, <2>2 DEF InFlight, TypeOK
    <2>4. Live(task)' => task' \in cancelled'
        BY <1>1, <2>2 DEF Reconnect, Live
    <2>5. \A t \in Loops : Live(t)' => t = task'
        BY <2>1, <2>2 DEF Single, Live
    <2> QED
        BY <2>3, <2>4, <2>5 DEF Single
<1>2. ASSUME NEW h \in Handlers, Reconnected(h) PROVE Single'
    <2>1. /\ h \in InFlight /\ ~Live(waits[h]) /\ ~overlap
          /\ waits' = [waits EXCEPT ![h] = None]
        BY <1>2 DEF Reconnected, Awaited, InFlight
    <2>2. waits[h] = task /\ \A t \in Loops : ~Live(t)
        BY <2>1 DEF Single
    <2>3. InFlight' = {}
        BY <2>1 DEF Single, InFlight, TypeOK
    <2>4. task' = Fresh /\ phase' = [phase EXCEPT ![Fresh] = "waiting"]
        BY <1>2 DEF Reconnected, Restart
    <2>5. \A t \in Loops : Live(t)' => t = task'
        BY <2>2, <2>4 DEF Live, TypeOK
    <2> QED
        BY <2>3, <2>5 DEF Single
<1>3. ASSUME NEW t \in Loops, Task(t) PROVE Single'
    <2>1. task' = task /\ waits' = waits /\ InFlight' = InFlight /\ ~overlap
        BY <1>3, TaskCases DEF controller, InFlight
    <2>2. CASE Cancelled(t)
        BY <2>1, <2>2 DEF Cancelled, Single, Live, TypeOK
    <2>3. CASE ~Cancelled(t)
        BY <1>3, <2>1, <2>3, TaskCases DEF Single, Live, TypeOK
    <2> QED
        BY <2>2, <2>3
<1>4. CASE UNCHANGED <<controller, tasks, waits, overlap>>
    BY <1>4 DEF controller, tasks, Single, Live, InFlight
<1> QED
    BY <1>1, <1>2, <1>3, <1>4, RouteCases, ScanCases DEF Next, vars, NoReconnect, Single

\* The reconnect that ends last reads what is saved by then.
LEMMA LastSaveStep ==
    TypeOK /\ Room /\ ControllerHasLoop /\ LastSaveWins /\ [Next]_vars => LastSaveWins'
<1> SUFFICES ASSUME TypeOK, Room, ControllerHasLoop, LastSaveWins, [Next]_vars
             PROVE  LastSaveWins'
    OBVIOUS
<1> USE NamesAssumption
<1>1. ASSUME NEW h \in Handlers, Route(h) PROVE LastSaveWins'
    <2>1. CASE Reconnect(h)
        <3>1. waits'[h] = task /\ task # None
            BY <2>1 DEF Reconnect, TypeOK, Loops
        <3> QED
            BY <3>1 DEF LastSaveWins, InFlight
    <2>2. CASE ~Reconnect(h)
        <3>1. behind' \/ (config' = config /\ behind' = behind)
            BY <1>1, <2>2, RouteSettings
        <3>2. UNCHANGED <<source, task, feed, waits>>
            BY <1>1, <2>2, RouteCases DEF NoReconnect, controller, tasks
        <3> QED
            BY <3>1, <3>2 DEF LastSaveWins, InFlight
    <2> QED
        BY <2>1, <2>2
<1>2. ASSUME NEW h \in Handlers, Reconnected(h) PROVE LastSaveWins'
    <2>1. h \in InFlight
        BY <1>2 DEF Reconnected, Awaited, InFlight
    <2>2. Fresh \in Loops
        BY <2>1, FreshFree DEF Free
    <2>3. /\ config' = config /\ task' = Fresh
          /\ feed' = [feed EXCEPT ![Fresh] = source']
          /\ ~behind' => source' = SourceOf(config)
        BY <1>2 DEF Reconnected, Restart, settings
    <2> QED
        BY <2>2, <2>3 DEF LastSaveWins, TypeOK, SourceOf
<1>3. ASSUME NEW t \in Loops, Task(t) PROVE LastSaveWins'
    <2>1. UNCHANGED <<config, source, task, waits, behind>>
        BY <1>3, TaskCases DEF settings, controller
    <2>2. CASE Cancelled(t)
        <3>1. t # task \/ InFlight # {}
            <4>1. task # None /\ t \in cancelled
                BY <2>2 DEF Cancelled, TypeOK, Loops
            <4> QED
                BY <4>1 DEF ControllerHasLoop, InFlight
        <3>2. feed' = [feed EXCEPT ![t] = Mock]
            BY <2>2 DEF Cancelled
        <3> QED
            BY <2>1, <3>1, <3>2 DEF LastSaveWins, InFlight, TypeOK, SourceOf
    <2>3. CASE ~Cancelled(t)
        BY <1>3, <2>1, <2>3, TaskCases DEF LastSaveWins, InFlight, SourceOf
    <2> QED
        BY <2>2, <2>3
<1>4. CASE UNCHANGED <<settings, controller, tasks, waits, behind>>
    BY <1>4 DEF settings, controller, tasks, LastSaveWins, InFlight, SourceOf
<1> QED
    BY <1>1, <1>2, <1>3, <1>4, ScanCases DEF Next, vars

\* A route shows what it saves; nothing else does either.
LEMMA ShownSavedStep == TypeOK /\ ShownSaved /\ [Next]_vars => ShownSaved'
<1> SUFFICES ASSUME TypeOK, ShownSaved, [Next]_vars PROVE ShownSaved'
    OBVIOUS
<1>1. ASSUME NEW h \in Handlers, Route(h) PROVE ShownSaved'
    BY <1>1, RouteSettings
<1>2. ASSUME NEW h \in Handlers, Reconnected(h) PROVE ShownSaved'
    BY <1>2 DEF Reconnected, settings, ShownSaved
<1>3. ASSUME NEW t \in Loops, Task(t) PROVE ShownSaved'
    BY <1>3, TaskCases DEF settings, ShownSaved
<1>4. CASE UNCHANGED <<settings, edited>>
    BY <1>4 DEF settings, ShownSaved
<1> QED
    BY <1>1, <1>2, <1>3, <1>4, ScanCases DEF Next, vars

\* A route that changes the settings during a scan is noticed.
LEMMA ScanKnowsStep == TypeOK /\ ScanKnows /\ [Next]_vars => ScanKnows'
<1> SUFFICES ASSUME TypeOK, ScanKnows, [Next]_vars PROVE ScanKnows'
    OBVIOUS
<1>1. ASSUME NEW h \in Handlers, Route(h) PROVE ScanKnows'
    <2>1. UNCHANGED scan
        BY <1>1, RouteCases DEF NoReconnect, Reconnect
    <2> QED
        BY <1>1, <2>1, RouteSettings DEF ScanKnows, scan
<1>2. ASSUME NEW h \in Handlers, Reconnected(h) PROVE ScanKnows'
    BY <1>2 DEF Reconnected, settings, scan, ScanKnows
<1>3. ASSUME NEW t \in Loops, Task(t) PROVE ScanKnows'
    BY <1>3, TaskCases DEF settings, scan, ScanKnows
<1>4. CASE Scan
    BY <1>4 DEF Scan, ScanBegins, ProbeOpens, ProbeCloses, ScanEnds, Scans,
        settings, ScanKnows
<1>5. CASE UNCHANGED vars
    BY <1>5 DEF vars, settings, scan, ScanKnows
<1> QED
    BY <1>1, <1>2, <1>3, <1>4, <1>5 DEF Next

-----------------------------------------------------------------------------
(* The invariant and what follows from it.                                 *)

\* The first task reads the saved source, and nothing is in progress.
LEMMA Initially == Init => IInv
<1> SUFFICES ASSUME Init PROVE IInv
    OBVIOUS
<1> USE NamesAssumption, LoopsAssumption DEF Init
<1>1. TypeOK
    <2>1. 1 \in Loops
        BY DEF Loops
    <2>2. source \in Sources /\ task \in Loops
        BY <2>1 DEF Sources, SourceOf, Configs
    <2>3. phase \in [Loops -> {"waiting", "heartbeat", "reading", "ended"}]
        OBVIOUS
    <2>4. feed \in [Loops -> Sources]
        BY <2>2 DEF Sources
    <2>5. \A t \in Loops : phase[t] # "heartbeat"
        OBVIOUS
    <2> QED
        BY <2>2, <2>3, <2>4, <2>5 DEF TypeOK
<1>2. InFlight = {}
    BY DEF InFlight
<1>3. Room
    BY <1>2, Finite, FS_EmptySet DEF Room
<1>4. 1 \in Loops /\ None \notin Loops
    BY DEF Loops
<1>5. ControllerHasLoop /\ LastSaveWins
    BY <1>2, <1>4 DEF ControllerHasLoop, LastSaveWins, Live
<1>6. Single /\ ShownSaved /\ ScanKnows
    BY <1>2, <1>4 DEF Single, Live, ShownSaved, ScanKnows
<1> QED
    BY <1>1, <1>3, <1>5, <1>6 DEF IInv

\* The invariant holds in every reachable state.
THEOREM Inductive == Spec => []IInv
<1>1. IInv /\ [Next]_vars => IInv'
    BY TypeStep, RoomStep, HasLoopStep, SingleStep, LastSaveStep,
        ShownSavedStep, ScanKnowsStep DEF IInv
<1> QED
    BY Initially, <1>1, PTL DEF Spec

\* Every variable keeps its type.
THEOREM TypeCorrect == Spec => []TypeOK
BY Inductive, PTL DEF IInv

\* However many reconnects overlap, the controller is left with a live task
\* (TelemetryController.reconnect awaits one task and starts another).
THEOREM HasLoop == Spec => []ControllerHasLoop
BY Inductive, PTL DEF IInv

\* Where no two reconnects meet, the controller's task is the only one
\* (TelemetryController.reconnect).
THEOREM One == Spec => []OneLoop
<1>1. IInv => OneLoop
    BY DEF IInv, Single, OneLoop
<1> QED
    BY Inductive, <1>1, PTL

\* When every reconnect is over, the controller reads what was saved last
\* (the routes that save, TelemetryController.reconnect).
THEOREM LastSave == Spec => []LastSaveWins
BY Inductive, PTL DEF IInv

\* When every reconnect is over, the connection state the routes have set is
\* that of the source the task reads (ConnectionStateStore).
THEOREM ShownRead == Spec => []ShownIsRead
<1>1. IInv => ShownIsRead
    BY NamesAssumption DEF IInv, ShownIsRead, LastSaveWins, ShownSaved, SourceOf,
        TypeOK, Configs
<1> QED
    BY Inductive, <1>1, PTL

\* A scan keeps off the port that is being read, unless the settings changed
\* under it or are not those of the loop (list_ports_with_status).
THEOREM ProbeSpares == Spec => []ProbeSparesReader
<1>1. IInv => ProbeSparesReader
    <2> SUFFICES ASSUME IInv, probed # None, NEW t \in Loops, Opened(t) = probed,
                        ~moved, ~behind, ~overlap, t \notin cancelled
                 PROVE  FALSE
        BY DEF ProbeSparesReader
    <2>1. probed \in Ports /\ probed # config.port
        BY DEF IInv, TypeOK, ScanKnows
    <2>2. Live(t) /\ feed[t] = probed
        BY <2>1, NamesAssumption DEF Opened, Live
    <2>3. t = task /\ InFlight = {}
        BY <2>2 DEF IInv, Single
    <2>4. feed[t] = SourceOf(config)
        BY <2>3 DEF IInv, LastSaveWins
    <2> QED
        BY <2>1, <2>2, <2>4, NamesAssumption DEF SourceOf
<1> QED
    BY Inductive, <1>1, PTL

=============================================================================
