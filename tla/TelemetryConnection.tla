------------------------ MODULE TelemetryConnection ------------------------
(***************************************************************************)
(* The telemetry loop and its replacement: TelemetryController, the routes *)
(* that save other telemetry settings and reconnect, the loop with its     *)
(* MavlinkTelemetrySource and VehicleConnectionManager, and the scan of    *)
(* the serial ports that the ports publisher and GET /connection/ports     *)
(* make in threads of their own.                                           *)
(*                                                                         *)
(* Routes, controller and loops share one event loop: an action goes from  *)
(* one point at which a coroutine is suspended to the next.                *)
(***************************************************************************)
EXTENDS Naturals, FiniteSets

CONSTANTS
    Handlers,   \* requests that may be in progress at a time
    Ports,      \* serial ports
    Mock,       \* the source that is not a port
    None,
    MaxLoops    \* bound: telemetry tasks there may be at a time

ASSUME LoopsAssumption == MaxLoops \in Nat \ {0}
ASSUME HandlersAssumption == IsFiniteSet(Handlers)
ASSUME NamesAssumption ==
    Mock \notin Ports /\ None \notin Ports \cup {Mock} \cup (1..MaxLoops)

VARIABLES
    config,     \* TELEMETRY_BACKEND and SERIAL_PORT, in file and environment
    shown,      \* the connection state of ConnectionStateStore
    source,     \* TelemetryController._source
    task,       \* TelemetryController._task
    phase,      \* where each task is suspended
    feed,       \* the source each task reads (Mock once it has ended)
    cancelled,  \* tasks that have been cancelled
    waits,      \* the task whose end the reconnect of a request awaits
    skip,       \* the port the scan in progress leaves alone
    probed,     \* the port it holds open
    \* history, for the properties
    moved,      \* the settings have changed since the scan began
    overlap,    \* two reconnects have been in progress at once
    behind,     \* the settings have not been applied
    edited      \* POST /settings has been used since another route was

settings == <<config, shown>>
controller == <<source, task>>
tasks == <<phase, feed, cancelled>>
scan == <<skip, probed>>
vars == <<settings, controller, tasks, waits, scan, moved, overlap, behind,
          edited>>

Loops == 1..MaxLoops
Sources == Ports \cup {Mock}
Configs == [backend : {"mock", "serial"}, port : Ports]
SourceOf(c) == IF c.backend = "serial" THEN c.port ELSE Mock

TypeOK ==
    /\ config \in Configs
    /\ shown \in {"setup", "mock_idle", "connected", "not_detected"}
    /\ source \in Sources
    /\ task \in Loops
    /\ phase \in [Loops -> {"waiting", "heartbeat", "reading", "ended"}]
    /\ feed \in [Loops -> Sources]
    /\ \A t \in Loops : phase[t] = "heartbeat" => feed[t] \in Ports
    /\ cancelled \subseteq {t \in Loops : phase[t] # "ended"}
    /\ waits \in [Handlers -> Loops \cup {None}]
    /\ skip \in Ports \cup {None}
    /\ probed \in Ports \cup {None}
    /\ {moved, overlap, behind, edited} \subseteq BOOLEAN

Live(t) == phase[t] # "ended"
Opened(t) == IF phase[t] \in {"heartbeat", "reading"} THEN feed[t] ELSE Mock
InFlight == {h \in Handlers : waits[h] # None}
Free == {t \in Loops : ~Live(t) /\ t # task /\ \A h \in Handlers : waits[h] # t}
Fresh == CHOOSE t \in Free : TRUE

Init ==
    /\ config \in Configs
    /\ shown = "setup"
    /\ source = SourceOf(config)
    /\ task = 1
    /\ phase = [t \in Loops |-> IF t = 1 THEN "waiting" ELSE "ended"]
    /\ feed = [t \in Loops |-> IF t = 1 THEN source ELSE Mock]
    /\ cancelled = {}
    /\ waits = [h \in Handlers |-> None]
    /\ skip = None /\ probed = None
    /\ moved = FALSE /\ overlap = FALSE /\ behind = FALSE /\ edited = FALSE

-----------------------------------------------------------------------------
(* TelemetryController.reconnect                                           *)

\* Up to the await.
Reconnect(h) ==
    /\ Cardinality(Free) > Cardinality(InFlight)
    /\ cancelled' = IF Live(task) THEN cancelled \cup {task} ELSE cancelled
    /\ waits' = [waits EXCEPT ![h] = task]
    /\ overlap' = (overlap \/ InFlight # {})
    /\ UNCHANGED <<controller, phase, feed, scan>>

NoReconnect == UNCHANGED <<controller, tasks, waits, scan, overlap>>

\* Mutant of Awaited: the reconnect does not wait for the task it cancels.
AwaitedNot(h) == waits[h] # None
Awaited(h) == waits[h] # None /\ ~Live(waits[h])

\* Mutant of Restart: without a new source there is no new task.
RestartNot(created) ==
    IF created
    THEN /\ source' = SourceOf(config)
         /\ task' = Fresh
         /\ phase' = [phase EXCEPT ![Fresh] = "waiting"]
         /\ feed' = [feed EXCEPT ![Fresh] = source']
    ELSE UNCHANGED <<source, task, phase, feed>>
Restart(created) ==
    /\ source' = IF created THEN SourceOf(config) ELSE source
    /\ task' = Fresh
    /\ phase' = [phase EXCEPT ![Fresh] = "waiting"]
    /\ feed' = [feed EXCEPT ![Fresh] = source']

\* From the await on.  The task awaited need not be the one that _task names
\* by now.
Reconnected(h) ==
    /\ Awaited(h)
    /\ waits' = [waits EXCEPT ![h] = None]
    /\ \E created \in BOOLEAN : Restart(created) /\ behind' = ~created
    /\ UNCHANGED <<settings, cancelled, scan, moved, overlap, edited>>

-----------------------------------------------------------------------------
(* The routes, up to the await in reconnect.                               *)

Idle(h) == waits[h] = None

Save(c) ==
    /\ config' = c
    /\ moved' = (moved \/ (skip # None /\ c # config))

\* POST /connection/mode
PostMode(h) ==
    /\ Idle(h)
    /\ \E c \in Configs :
        /\ Save(c)
        /\ shown' = IF c.backend = "mock" THEN "mock_idle" ELSE "connected"
    /\ edited' = FALSE
    /\ Reconnect(h)
    /\ UNCHANGED behind

\* POST /connection/disconnect
PostDisconnect(h) ==
    /\ Idle(h)
    /\ Save([config EXCEPT !.backend = "mock"])
    /\ shown' = "setup"
    /\ edited' = FALSE
    /\ Reconnect(h)
    /\ UNCHANGED behind

\* Mutant of Changed: the port is not compared.
ChangedBackend(before, after) == before.backend # after.backend
Changed(before, after) == before # after

\* POST /settings: a serial port that does not exist is saved, not applied.
PostSettings(h) ==
    /\ Idle(h)
    /\ \E c \in Configs, exists \in BOOLEAN :
        /\ Save(c)
        /\ \/ /\ c.backend = "serial" /\ ~exists
              /\ NoReconnect
              /\ behind' = (behind \/ c # config)
           \/ /\ c.backend = "mock" \/ exists
              /\ ~Changed(config, c)
              /\ NoReconnect
              /\ UNCHANGED behind
           \/ /\ c.backend = "mock" \/ exists
              /\ Changed(config, c)
              /\ Reconnect(h)
              /\ UNCHANGED behind
    /\ edited' = TRUE
    /\ UNCHANGED shown

AlreadyMatch(p) == config.backend = "serial" /\ config.port = p

Detected(h, p) ==
    /\ shown' = "connected"
    /\ edited' = FALSE
    /\ IF AlreadyMatch(p)
       THEN NoReconnect /\ UNCHANGED <<config, moved>>
       ELSE Save([backend |-> "serial", port |-> p]) /\ Reconnect(h)
    /\ UNCHANGED behind

\* POST /connection/detect with a port that the settings already name: it is
\* not opened.
DetectLive(h, p) ==
    /\ Idle(h)
    /\ AlreadyMatch(p)
    /\ Detected(h, p)

\* With a port, or a scan of all but the one the settings name.
DetectOpens(h, p) ==
    /\ Idle(h)
    /\ ~AlreadyMatch(p)
    /\ Detected(h, p)

DetectFails(h) ==
    /\ Idle(h)
    /\ shown' = "not_detected"
    /\ edited' = FALSE
    /\ NoReconnect
    /\ UNCHANGED <<config, moved, behind>>

Route(h) ==
    \/ PostMode(h) \/ PostDisconnect(h) \/ PostSettings(h)
    \/ \E p \in Ports : DetectLive(h, p) \/ DetectOpens(h, p)
    \/ DetectFails(h)

-----------------------------------------------------------------------------
(* The tasks: _run_with_restart, _telemetry_loop, the source's stream.     *)

Loop(t, from, to) ==
    /\ phase[t] = from
    /\ t \notin cancelled
    /\ phase' = [phase EXCEPT ![t] = to]
    /\ UNCHANGED <<settings, controller, feed, cancelled, waits, scan, moved,
                   overlap, behind, edited>>

\* The first step, a restart, the end of a backoff.
Connects(t) == feed[t] # Mock /\ Loop(t, "waiting", "heartbeat")
MockStarts(t) == feed[t] = Mock /\ Loop(t, "waiting", "reading")
Heartbeat(t) == Loop(t, "heartbeat", "reading")

\* No heartbeat within ten seconds, or an exception: backoff.
NoHeartbeat(t) == Loop(t, "heartbeat", "waiting")

\* A read that fails: backoff.  A consumer that fails: a restart.
Drops(t) == Loop(t, "reading", "waiting")

\* Mutant of Cancelled: the source's handler catches every exception.
CancelledRetries(t) ==
    /\ t \in cancelled
    /\ phase' = [phase EXCEPT ![t] = "waiting"]
    /\ cancelled' = cancelled \ {t}
    /\ UNCHANGED <<settings, controller, feed, waits, scan, moved, overlap,
                   behind, edited>>

\* CancelledError goes through every generator and through
\* _run_with_restart.
Cancelled(t) ==
    /\ t \in cancelled
    /\ phase' = [phase EXCEPT ![t] = "ended"]
    /\ feed' = [feed EXCEPT ![t] = Mock]
    /\ cancelled' = cancelled \ {t}
    /\ UNCHANGED <<settings, controller, waits, scan, moved, overlap, behind,
                   edited>>

Task(t) ==
    \/ Connects(t) \/ MockStarts(t) \/ Heartbeat(t) \/ NoHeartbeat(t)
    \/ Drops(t) \/ Cancelled(t)

-----------------------------------------------------------------------------
(* list_ports_with_status, in a thread.                                    *)

Scans == UNCHANGED <<settings, controller, tasks, waits, overlap, behind, edited>>

\* The port the settings name is looked up once, whatever the backend.
ScanBegins ==
    /\ skip = None
    /\ skip' = config.port
    /\ moved' = FALSE
    /\ UNCHANGED probed
    /\ Scans

\* Mutant of ProbeOpens: every port is opened.
ProbeOpensAny(p) ==
    /\ skip # None /\ probed = None
    /\ probed' = p
    /\ UNCHANGED <<skip, moved>>
    /\ Scans

ProbeOpens(p) ==
    /\ skip # None /\ probed = None
    /\ p # skip
    /\ probed' = p
    /\ UNCHANGED <<skip, moved>>
    /\ Scans

ProbeCloses ==
    /\ probed # None
    /\ probed' = None
    /\ UNCHANGED <<skip, moved>>
    /\ Scans

ScanEnds ==
    /\ skip # None /\ probed = None
    /\ skip' = None
    /\ moved' = FALSE
    /\ UNCHANGED probed
    /\ Scans

Scan == ScanBegins \/ (\E p \in Ports : ProbeOpens(p)) \/ ProbeCloses \/ ScanEnds

Next ==
    \/ \E h \in Handlers : Route(h) \/ Reconnected(h)
    \/ \E t \in Loops : Task(t)
    \/ Scan

\* The event loop runs what is ready to run.
Fairness ==
    /\ \A h \in Handlers : WF_vars(Reconnected(h))
    /\ \A t \in Loops : WF_vars(Cancelled(t))

Spec == Init /\ [][Next]_vars /\ Fairness

-----------------------------------------------------------------------------
(* Properties                                                              *)

\* However reconnects overlap and whatever fails in them, the controller is
\* left with a task that runs: telemetry never stops for good.
ControllerHasLoop ==
    (\A h \in Handlers : waits[h] # task) => Live(task) /\ task \notin cancelled

\* As long as reconnects come one at a time, no loop but the controller's
\* runs: whoever reads the vehicle can be stopped.
OneLoop == ~overlap => \A t \in Loops : Live(t) => t = task

\* The last settings saved win, in whatever order requests saved them and
\* their reconnects ended, unless they were refused or the source could not
\* be created.
LastSaveWins ==
    InFlight = {} /\ ~behind =>
        source = SourceOf(config) /\ feed[task] = source

\* The connection state that enables the session controller does not take
\* mock telemetry for a vehicle or the other way round, unless POST
\* /settings has changed the backend under it.
ShownIsRead ==
    InFlight = {} /\ ~behind /\ ~edited =>
        /\ shown = "connected" => feed[task] # Mock
        /\ shown = "mock_idle" => feed[task] = Mock

\* A scan does not open the port a loop reads, unless the settings have
\* changed since it began or name another port than the loop's.
ProbeSparesReader ==
    probed # None =>
        \A t \in Loops :
            Opened(t) = probed => moved \/ behind \/ overlap \/ t \in cancelled

\* Every reconnect returns.
ReconnectEnds == \A h \in Handlers : waits[h] # None ~> waits[h] = None

=============================================================================
