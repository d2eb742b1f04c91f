--------------------------- MODULE CameraRecording ---------------------------
(***************************************************************************)
(* CameraRecordingService: the camera process that records, the ffmpeg     *)
(* muxer it is piped into, the telemetry overlay writer and the detection  *)
(* ingest thread of a recording, and the handlers that start, stop and     *)
(* poll it: the camera and session routes, the publisher, the health       *)
(* routes and RecordingAutoController.                                     *)
(*                                                                         *)
(* The service's lock serialises its methods, but a method takes seconds,  *)
(* a process may exit between any two of its steps, and a handler that     *)
(* calls two methods holds no lock between them.  A recording is named by  *)
(* its take: the processes, threads and file of one start_recording.       *)
(***************************************************************************)
EXTENDS Naturals

CONSTANTS
    Threads,     \* the worker threads that run API handlers
    Loop,        \* the event loop
    MaxTakes,    \* bound: cameras launched
    MaxSessions  \* bound: sessions started

ASSUME LoopAssumption == Loop \notin Threads
ASSUME NobodyAssumption == "nobody" \notin Threads \cup {Loop}
ASSUME BoundAssumption == MaxTakes \in Nat \ {0} /\ MaxSessions \in Nat \ {0}

VARIABLES
    takes,               \* cameras launched so far
    camera, muxer,       \* the processes of each take
    writers,             \* takes whose overlay writer thread runs
    ingests,             \* takes whose ingest thread runs
    process, muxer_process, telemetry_writer, ingest,
    output_path, started_at, last_recorded_file,
    lock, at,            \* who is in a method, and before which step of it
    pc, goal,            \* each handler's next call and its purpose
    sid, got,            \* the session it has read, the file it was given
    session, sessions,   \* session_ref[0]; sessions started so far
    meta,                \* the .meta sidecars: <<take, session>>
    seen,                \* sessions active while a take was recorded
    disturbed,           \* handlers during which a camera or its muxer exited
                         \* by itself or the session changed
    running,             \* the application has not begun to shut down
    earlier,             \* cameras launched before it was started
    late                 \* cameras launched after a cleanup, before the exit

service == <<process, muxer_process, telemetry_writer, ingest, output_path,
             started_at, last_recorded_file>>
world == <<takes, camera, muxer, writers, ingests>>
flight == <<session, sessions, seen>>
handlers == <<pc, goal, sid, got, disturbed>>
application == <<running, earlier, late>>
vars == <<world, service, lock, at, handlers, flight, meta, application>>

None == 0
NoOne == "nobody"
Takes == 1..MaxTakes
Sessions == 1..MaxSessions
Callers == Threads \cup {Loop}
Steps == {"free", "reap", "check", "report", "writer", "muxer", "alive",
          "muxing", "camera_ends", "muxer_ends"}

Running(proc, f) == f # None /\ proc[f] = "running"
Exited(proc, f) == f # None /\ proc[f] = "exited"

TypeOK ==
    /\ takes \in 0..MaxTakes
    /\ camera \in [Takes -> {"none", "running", "exited"}]
    /\ muxer \in [Takes -> {"none", "running", "exited"}]
    /\ writers \in SUBSET Takes /\ ingests \in SUBSET Takes
    /\ {process, muxer_process, telemetry_writer, ingest, output_path,
        started_at, last_recorded_file} \subseteq Takes \cup {None}
    /\ lock \in Callers \cup {NoOne} /\ at \in Steps
    /\ pc \in [Callers -> {"idle", "state", "start", "stop", "cleanup",
                           "mark", "clear"}]
    /\ goal \in [Callers -> {"call", "session_stop", "arm", "disarm"}]
    /\ sid \in [Callers -> Sessions \cup {None}]
    /\ got \in [Callers -> Takes \cup {None}]
    /\ session \in Sessions \cup {None} /\ sessions \in 0..MaxSessions
    /\ meta \in SUBSET (Takes \X (Sessions \cup {None}))
    /\ seen \in [Takes -> SUBSET Sessions]
    /\ disturbed \in SUBSET Callers /\ running \in BOOLEAN
    /\ earlier \in 0..MaxTakes /\ late \in SUBSET Takes

Init ==
    /\ takes = 0
    /\ camera = [f \in Takes |-> "none"] /\ muxer = [f \in Takes |-> "none"]
    /\ writers = {} /\ ingests = {}
    /\ process = None /\ muxer_process = None /\ telemetry_writer = None
    /\ ingest = None /\ output_path = None /\ started_at = None
    /\ last_recorded_file = None
    /\ lock = NoOne /\ at = "free"
    /\ pc = [a \in Callers |-> "idle"] /\ goal = [a \in Callers |-> "call"]
    /\ sid = [a \in Callers |-> None] /\ got = [a \in Callers |-> None]
    /\ session = None /\ sessions = 0
    /\ meta = {} /\ seen = [f \in Takes |-> {}]
    /\ disturbed = {} /\ running = TRUE
    /\ earlier = 0 /\ late = {}

-----------------------------------------------------------------------------
(* Control: the handlers and the lock.                                     *)

Idle(a) == pc[a] = "idle"

\* The server takes requests until the shutdown, the loop goes on with its
\* ticks: it cleans up before it cancels the telemetry task, and the task
\* of a reconnect is not among those it cancels.
Works(a) == Idle(a) /\ (running \/ a = Loop)

\* The handler of a for the purpose g begins with a call of the method m.
Begin(a, g, s, m) ==
    /\ Works(a)
    /\ pc' = [pc EXCEPT ![a] = m]
    /\ goal' = [goal EXCEPT ![a] = g]
    /\ sid' = [sid EXCEPT ![a] = s]
    /\ UNCHANGED got

\* Its next call, or its end.
NextCall(a, m) ==
    /\ pc' = [pc EXCEPT ![a] = m]
    /\ goal' = [goal EXCEPT ![a] = IF m = "idle" THEN "call" ELSE @]
    /\ sid' = [sid EXCEPT ![a] = IF m = "idle" THEN None ELSE @]
    /\ got' = [got EXCEPT ![a] = IF m = "idle" THEN None ELSE @]

\* The handlers in flight but a do not know of what has happened.
Disturb(a) ==
    disturbed' = {b \in Callers : b # a /\ (b \in disturbed \/ ~Idle(b))}

Enter(a, m) == lock = NoOne /\ pc[a] = m
Holds(a, step) == lock = a /\ at = step

GoOn(a, step) ==
    /\ lock' = a
    /\ at' = step
    /\ UNCHANGED handlers

Return(a, m) ==
    /\ lock' = NoOne
    /\ at' = "free"
    /\ NextCall(a, m)
    /\ disturbed' = IF m = "idle" THEN disturbed \ {a} ELSE disturbed

\* stop_recording returns the idle state, with the last recorded file f.
ReturnStopped(a, f) ==
    LET marks == /\ f # None
                 /\ \/ goal[a] = "session_stop" /\ sid[a] # None
                    \/ goal[a] = "disarm" /\ session # None
    IN  IF marks
        THEN /\ lock' = NoOne
             /\ at' = "free"
             /\ pc' = [pc EXCEPT ![a] = "mark"]
             /\ got' = [got EXCEPT ![a] = f]
             /\ UNCHANGED <<goal, sid, disturbed>>
        ELSE Return(a, IF goal[a] = "session_stop" THEN "clear" ELSE "idle")

SetSession(s) ==
    /\ session' = s
    /\ sessions' = IF s = None THEN sessions ELSE s
    /\ seen' = [f \in Takes |-> IF s # None /\ camera[f] = "running"
                                THEN seen[f] \cup {s} ELSE seen[f]]

-----------------------------------------------------------------------------
(* What the methods share.                                                 *)

StopTelemetryWriter ==
    /\ writers' = writers \ {telemetry_writer}
    /\ telemetry_writer' = None

StopIngest ==
    /\ ingests' = ingests \ {ingest}
    /\ ingest' = None

\* _wait_and_terminate: wait, SIGTERM, wait, SIGKILL.
Terminated(proc, f) ==
    IF Running(proc, f) THEN [proc EXCEPT ![f] = "exited"] ELSE proc

NoProcess == process' = None /\ muxer_process' = None
NoOutput == output_path' = None /\ started_at' = None

\* The shutdown is past stop_and_cleanup.
CleanedUp == ~running /\ pc[Loop] # "cleanup"

\* What every step of a method leaves alone.
Apart == UNCHANGED <<flight, meta, application>>

-----------------------------------------------------------------------------
(* get_recording_state: _reconcile_dead_processes, then the state.  It     *)
(* does not touch the ingest thread.                                       *)

StateCall(a) ==
    /\ Enter(a, "state")
    /\ IF Exited(muxer, muxer_process)
       THEN StopTelemetryWriter /\ GoOn(a, "reap")
       ELSE UNCHANGED <<writers, telemetry_writer>> /\ GoOn(a, "check")
    /\ UNCHANGED <<takes, camera, muxer, ingests, process, muxer_process,
                   ingest, output_path, started_at, last_recorded_file>>
    /\ Apart

\* The muxer is gone.  A camera that is gone too is left to the next check.
Reap(a) ==
    /\ Holds(a, "reap")
    /\ camera' = Terminated(camera, process)
    /\ process' = IF Running(camera, process) THEN None ELSE process
    /\ muxer_process' = None
    /\ NoOutput
    /\ GoOn(a, "check")
    /\ UNCHANGED <<takes, muxer, writers, ingests, telemetry_writer, ingest,
                   last_recorded_file>>
    /\ Apart

Check(a) ==
    /\ Holds(a, "check")
    /\ IF Exited(camera, process)
       THEN /\ StopTelemetryWriter
            /\ muxer' = Terminated(muxer, muxer_process)
            /\ NoProcess
            /\ NoOutput
       ELSE UNCHANGED <<writers, muxer, process, muxer_process,
                        telemetry_writer, output_path, started_at>>
    /\ GoOn(a, "report")
    /\ UNCHANGED <<takes, camera, ingests, ingest, last_recorded_file>>
    /\ Apart

Report(a) ==
    /\ Holds(a, "report")
    /\ LET recording == Running(camera, process)
       IN  Return(a, CASE goal[a] = "arm" /\ ~recording -> "start"
                       [] goal[a] = "disarm" /\ recording -> "stop"
                       [] goal[a] = "session_stop" ->
                            IF recording THEN "stop" ELSE "clear"
                       [] OTHER -> "idle")
    /\ UNCHANGED <<world, service>>
    /\ Apart

-----------------------------------------------------------------------------
(* start_recording                                                         *)

AlreadyRecording(a) ==
    /\ Enter(a, "start")
    /\ Running(camera, process)
    /\ Return(a, "idle")
    /\ UNCHANGED <<world, service>>
    /\ Apart

\* No command to run, or a USB command that does not launch.
StartRefused(a) ==
    /\ Enter(a, "start")
    /\ ~Running(camera, process)
    /\ \/ UNCHANGED <<process, output_path>>
       \/ process' = None /\ output_path' = None
    /\ Return(a, "idle")
    /\ UNCHANGED <<world, muxer_process, telemetry_writer, ingest,
                   started_at, last_recorded_file>>
    /\ Apart

\* USB and direct recording need no muxer and forget the one they find;
\* recording through the muxer goes on with the overlay writer, if enabled.
Launch(a) ==
    /\ Enter(a, "start")
    /\ ~Running(camera, process)
    /\ takes < MaxTakes
    /\ takes' = takes + 1
    /\ camera' = [camera EXCEPT ![takes'] = "running"]
    /\ seen' = [seen EXCEPT ![takes'] = {session} \ {None}]
    /\ process' = takes'
    /\ output_path' = takes'
    /\ \/ muxer_process' = None /\ GoOn(a, "alive")
       \/ UNCHANGED muxer_process /\ GoOn(a, "writer")
       \/ UNCHANGED muxer_process /\ GoOn(a, "muxer")
    /\ late' = IF CleanedUp THEN late \cup {takes'} ELSE late
    /\ UNCHANGED <<muxer, writers, ingests, telemetry_writer, ingest,
                   started_at, last_recorded_file, session, sessions, meta,
                   running, earlier>>

\* Mutant of Abort: the camera that has launched is forgotten, not killed.
AbortForgetsCamera(a) ==
    /\ muxer' = Terminated(muxer, muxer_process)
    /\ NoProcess
    /\ output_path' = None
    /\ Return(a, "idle")
    /\ UNCHANGED <<takes, camera, ingests, ingest, started_at,
                   last_recorded_file>>
    /\ Apart

\* The handler of an exception: every process and output goes, _started_at
\* stays.
Abort(a) ==
    /\ camera' = Terminated(camera, process)
    /\ muxer' = Terminated(muxer, muxer_process)
    /\ NoProcess
    /\ output_path' = None
    /\ Return(a, "idle")
    /\ UNCHANGED <<takes, ingests, ingest, started_at, last_recorded_file>>
    /\ Apart

LaunchFails(a) ==
    /\ Enter(a, "start")
    /\ ~Running(camera, process)
    /\ StopTelemetryWriter
    /\ Abort(a)

\* The new writer replaces the reference to any other.
StartWriter(a) ==
    /\ Holds(a, "writer")
    /\ telemetry_writer' = process
    /\ writers' = writers \cup {process}
    /\ GoOn(a, "muxer")
    /\ UNCHANGED <<takes, camera, muxer, ingests, process, muxer_process,
                   ingest, output_path, started_at, last_recorded_file>>
    /\ Apart

StartWriterFails(a) ==
    /\ Holds(a, "writer")
    /\ telemetry_writer' = None
    /\ UNCHANGED writers
    /\ Abort(a)

StartMuxer(a) ==
    /\ Holds(a, "muxer")
    /\ muxer' = [muxer EXCEPT ![process] = "running"]
    /\ muxer_process' = process
    /\ GoOn(a, "alive")
    /\ UNCHANGED <<takes, camera, writers, ingests, process, telemetry_writer,
                   ingest, output_path, started_at, last_recorded_file>>
    /\ Apart

StartMuxerFails(a) ==
    /\ Holds(a, "muxer")
    /\ StopTelemetryWriter
    /\ Abort(a)

\* The poll a moment later finds one of the two processes gone.
EarlyExit(a) ==
    /\ \/ Holds(a, "alive") /\ Exited(camera, process)
       \/ Holds(a, "muxing") /\ Exited(muxer, muxer_process)
    /\ StopTelemetryWriter
    /\ camera' = Terminated(camera, process)
    /\ muxer' = Terminated(muxer, muxer_process)
    /\ NoProcess
    /\ NoOutput
    /\ Return(a, "idle")
    /\ UNCHANGED <<takes, ingests, ingest, last_recorded_file>>
    /\ Apart

Alive(a) ==
    /\ Holds(a, "alive")
    /\ ~Exited(camera, process)
    /\ GoOn(a, "muxing")
    /\ UNCHANGED <<world, service>>
    /\ Apart

\* Ingest needs a session, and settings that allow it.
Started(a) ==
    /\ Holds(a, "muxing")
    /\ ~Exited(muxer, muxer_process)
    /\ started_at' = process
    /\ \/ /\ session # None
          /\ ingest' = process
          /\ ingests' = ingests \cup {process}
       \/ UNCHANGED <<ingest, ingests>>
    /\ Return(a, "idle")
    /\ UNCHANGED <<takes, camera, muxer, writers, process, muxer_process,
                   telemetry_writer, output_path, last_recorded_file>>
    /\ Apart

-----------------------------------------------------------------------------
(* stop_recording and stop_and_cleanup                                     *)

\* There is nothing to stop, or nothing any more: the last recorded file
\* stays what it was.
StopIdle(a) ==
    /\ Enter(a, "stop")
    /\ ~Running(camera, process)
    /\ StopTelemetryWriter
    /\ StopIngest
    /\ muxer' = Terminated(muxer, muxer_process)
    /\ NoProcess
    /\ NoOutput
    /\ ReturnStopped(a, last_recorded_file)
    /\ UNCHANGED <<takes, camera, last_recorded_file>>
    /\ Apart

StopCall(a) ==
    /\ Enter(a, "stop")
    /\ Running(camera, process)
    /\ StopTelemetryWriter
    /\ StopIngest
    /\ GoOn(a, "camera_ends")
    /\ UNCHANGED <<takes, camera, muxer, process, muxer_process, output_path,
                   started_at, last_recorded_file>>
    /\ Apart

CameraEnds(a) ==
    /\ Holds(a, "camera_ends")
    /\ camera' = Terminated(camera, process)
    /\ GoOn(a, "muxer_ends")
    /\ UNCHANGED <<takes, muxer, writers, ingests, service>>
    /\ Apart

\* Mutants of MuxerEnds: the muxer is not waited for; the state returned is
\* the one from before the last recorded file is set.
MuxerEndsNoWait(a) ==
    /\ Holds(a, "muxer_ends")
    /\ NoProcess
    /\ NoOutput
    /\ IF pc[a] = "stop"
       THEN /\ last_recorded_file' = output_path
            /\ ReturnStopped(a, last_recorded_file')
       ELSE Return(a, "idle") /\ UNCHANGED last_recorded_file
    /\ UNCHANGED <<takes, camera, muxer, writers, ingests, telemetry_writer,
                   ingest>>
    /\ Apart

MuxerEndsStaleState(a) ==
    /\ Holds(a, "muxer_ends")
    /\ muxer' = Terminated(muxer, muxer_process)
    /\ NoProcess
    /\ NoOutput
    /\ IF pc[a] = "stop"
       THEN /\ last_recorded_file' = output_path
            /\ ReturnStopped(a, last_recorded_file)
       ELSE Return(a, "idle") /\ UNCHANGED last_recorded_file
    /\ UNCHANGED <<takes, camera, writers, ingests, telemetry_writer, ingest>>
    /\ Apart

MuxerEnds(a) ==
    /\ Holds(a, "muxer_ends")
    /\ muxer' = Terminated(muxer, muxer_process)
    /\ NoProcess
    /\ NoOutput
    /\ IF pc[a] = "stop"
       THEN /\ last_recorded_file' = IF output_path = None
                                     THEN last_recorded_file ELSE output_path
            /\ ReturnStopped(a, last_recorded_file')
       ELSE Return(a, "idle") /\ UNCHANGED last_recorded_file
    /\ UNCHANGED <<takes, camera, writers, ingests, telemetry_writer, ingest>>
    /\ Apart

CleanupIdle(a) ==
    /\ Enter(a, "cleanup")
    /\ ~Running(camera, process)
    /\ StopTelemetryWriter
    /\ muxer' = Terminated(muxer, muxer_process)
    /\ muxer_process' = None
    /\ Return(a, "idle")
    /\ UNCHANGED <<takes, camera, ingests, process, ingest, output_path,
                   started_at, last_recorded_file>>
    /\ Apart

CleanupCall(a) ==
    /\ Enter(a, "cleanup")
    /\ Running(camera, process)
    /\ StopTelemetryWriter
    /\ GoOn(a, "camera_ends")
    /\ UNCHANGED <<takes, camera, muxer, ingests, process, muxer_process,
                   ingest, output_path, started_at, last_recorded_file>>
    /\ Apart

-----------------------------------------------------------------------------
(* The handlers.                                                           *)

\* POST camera start and stop; the publisher and the health, camera and
\* recordings routes poll.
Request(a, m) ==
    /\ m = "state" \/ a \in Threads
    /\ Begin(a, "call", None, m)
    /\ UNCHANGED disturbed
    /\ UNCHANGED <<world, service, lock, at, flight, meta, application>>

\* POST /session/start publishes a session, then starts a recording unless
\* the recording mode is off.
SessionStart(t) ==
    /\ session = None
    /\ sessions < MaxSessions
    /\ SetSession(sessions + 1)
    /\ Disturb(t)
    /\ \/ Begin(t, "call", None, "start")
       \/ Works(t) /\ UNCHANGED <<pc, goal, sid, got>>
    /\ UNCHANGED <<world, service, lock, at, meta, application>>

\* POST /session/stop stops the recording before it clears session_ref.
SessionStop(t) ==
    /\ Begin(t, "session_stop", session, "state")
    /\ UNCHANGED disturbed
    /\ UNCHANGED <<world, service, lock, at, flight, meta, application>>

\* SessionAutoController starts or ends a session and leaves the camera to
\* RecordingAutoController.
AutoSession ==
    /\ Works(Loop)
    /\ IF session = None
       THEN sessions < MaxSessions /\ SetSession(sessions + 1)
       ELSE SetSession(None)
    /\ Disturb(Loop)
    /\ UNCHANGED <<world, service, lock, at, pc, goal, sid, got, meta,
                   application>>

\* maybe_auto_record in auto mode, on an arm or a confirmed disarm.
AutoRecord(g) ==
    /\ Begin(Loop, g, None, "state")
    /\ UNCHANGED disturbed
    /\ UNCHANGED <<world, service, lock, at, flight, meta, application>>

\* mark_as_auto, for a file that exists: POST /session/stop names the
\* session it read first, the controller the session there is now.
Mark(a) ==
    /\ pc[a] = "mark"
    /\ LET s == IF goal[a] = "session_stop" THEN sid[a] ELSE session
       IN  \/ meta' = {m \in meta : m[1] # got[a]} \cup {<<got[a], s>>}
           \/ UNCHANGED meta
    /\ IF goal[a] = "session_stop"
       THEN NextCall(a, "clear") /\ UNCHANGED disturbed
       ELSE NextCall(a, "idle") /\ disturbed' = disturbed \ {a}
    /\ UNCHANGED <<world, service, lock, at, flight, application>>

SessionCleared(a) ==
    /\ pc[a] = "clear"
    /\ SetSession(None)
    /\ Disturb(a)
    /\ NextCall(a, "idle")
    /\ UNCHANGED <<world, service, lock, at, meta, application>>

\* _shutdown_cleanup clears session_ref, and stop_and_cleanup is called.
\* Handlers that the server has given up on go on in their threads.
Shutdown ==
    /\ running
    /\ running' = FALSE
    /\ Begin(Loop, "call", None, "cleanup")
    /\ SetSession(None)
    /\ Disturb(Loop)
    /\ UNCHANGED <<world, service, lock, at, meta, earlier, late>>

\* The exit waits for the threads and ends any session.  The writer and
\* ingest threads die with the application, the processes do not.
Restart ==
    /\ ~running
    /\ \A a \in Callers : Idle(a)
    /\ running' = TRUE
    /\ earlier' = takes
    /\ writers' = {} /\ ingests' = {}
    /\ NoProcess /\ NoOutput
    /\ telemetry_writer' = None /\ ingest' = None
    /\ last_recorded_file' = None
    /\ SetSession(None)
    /\ UNCHANGED <<takes, camera, muxer, lock, at, handlers, meta, late>>

-----------------------------------------------------------------------------
(* The processes.                                                          *)

\* A camera is unplugged, crashes or is killed.
CameraExits(f) ==
    /\ Running(camera, f)
    /\ camera' = [camera EXCEPT ![f] = "exited"]
    /\ Disturb(NoOne)
    /\ UNCHANGED <<takes, muxer, writers, ingests, service, lock, at, pc, goal,
                   sid, got, flight, meta, application>>

\* A muxer crashes, or reads the end of its camera's output.
MuxerExits(f) ==
    /\ Running(muxer, f)
    /\ muxer' = [muxer EXCEPT ![f] = "exited"]
    /\ IF Running(camera, f) THEN Disturb(NoOne) ELSE UNCHANGED disturbed
    /\ UNCHANGED <<takes, camera, writers, ingests, service, lock, at, pc,
                   goal, sid, got, flight, meta, application>>

Method(a) ==
    \/ StateCall(a) \/ Reap(a) \/ Check(a) \/ Report(a)
    \/ AlreadyRecording(a) \/ StartRefused(a) \/ Launch(a) \/ LaunchFails(a)
    \/ StartWriter(a) \/ StartWriterFails(a)
    \/ StartMuxer(a) \/ StartMuxerFails(a)
    \/ EarlyExit(a) \/ Alive(a) \/ Started(a)
    \/ StopIdle(a) \/ StopCall(a) \/ CameraEnds(a) \/ MuxerEnds(a)
    \/ CleanupIdle(a) \/ CleanupCall(a)

Handler(a) ==
    \/ \E m \in {"state", "start", "stop"} : Request(a, m)
    \/ a \in Threads /\ (SessionStart(a) \/ SessionStop(a))
    \/ Mark(a) \/ SessionCleared(a)

Next ==
    \/ \E a \in Callers : Method(a) \/ Handler(a)
    \/ \E g \in {"arm", "disarm"} : AutoRecord(g)
    \/ AutoSession \/ Shutdown \/ Restart
    \/ \E f \in Takes : CameraExits(f) \/ MuxerExits(f)

Spec == Init /\ [][Next]_vars

-----------------------------------------------------------------------------
(* Properties                                                              *)

\* The camera is one device: a camera process that runs is the one the
\* service refers to, through every interleaving of starts, stops, polls,
\* early exits and exceptions.  The cleanup of a shutdown leaves none
\* behind, whatever handlers were in the middle of: only what is launched
\* after it, by one of them or a late tick, runs on, past a restart too.
OneCamera ==
    \A f \in Takes : Running(camera, f) =>
        /\ process = f \/ (f <= earlier /\ f \in late)
        /\ CleanedUp => f \in late

\* The file reported as last recorded is complete: neither its camera nor
\* its muxer writes to it any more.
LastFileComplete ==
    last_recorded_file # None =>
        /\ Exited(camera, last_recorded_file)
        /\ ~Running(muxer, last_recorded_file)

\* A recording is marked for a session that was active while it was being
\* recorded, unless the camera or the muxer exited by itself or the session
\* changed while the handler that marks it was under way.
MarkedForItsSession ==
    [][\A m \in meta' \ meta :
        \/ m[2] \in seen[m[1]]
        \/ \E a \in disturbed : pc[a] = "mark" /\ got[a] = m[1]]_vars

=============================================================================
