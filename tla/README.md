# AirAutomatica: TLA+ models and proofs

AirAutomatica is the companion computer of a drone or a rover: a Raspberry Pi
application (FastAPI, asyncio, threads, SQLite, camera and encoder processes)
that reads MAVLink telemetry, keeps flight sessions, records video, runs
detections and serves a web client.  This directory models the parts of
`src/src/airautomatica` whose correctness depends on the order of events, checks
them with TLC on small instances and proves what matters most with TLAPS.
File names below are relative to `src/src/airautomatica` unless they begin with
`docs/` or `tests/`.

- [Inventory](#inventory): the parts of the system
- [Plan](#plan): modules, runs, theorems, written and to come
- [SessionLifecycle](#sessionlifecycle) and its [proofs](#sessionlifecycle_proofs)
- [CameraRecording](#camerarecording) and its [proofs](#camerarecording_proofs)
- [RecordingStream](#recordingstream) and [CameraUse](#camerause), with their [proofs](#viewing_proofs)
- [AutoArm](#autoarm) and [FlightLog](#flightlog), with their [proofs](#telemetryloop_proofs)
- [TelemetryConnection](#telemetryconnection) and its [proofs](#telemetryconnection_proofs)
- [Inference and JobBoard](#inference-and-jobboard) and their [proofs](#inference_proofs)
- [Recordings](#recordings) and [Settings](#settings), with their [proofs](#storage_proofs)
- [Rover](#rover) and its [proofs](#rover_proofs)
- [Findings](#findings) and [other disagreements](#other-disagreements)
- [What is not modelled](#what-is-not-modelled)

## Inventory

How the program runs.  `main.py` starts one asyncio loop.  On it run the
telemetry loop (one iteration per telemetry state), the mission loop, the
realtime publisher, the AI scheduler's worker and the `async def` handlers of the
API.  The `def` handlers run in a pool of threads, concurrently with each other
and with the loop.  The telemetry loop calls, in this order, the state store, the
preprocessor, the sampler, the path recorder, the lifecycle logger, the event and
phase recorders, `RecordingAutoController`, `SessionAutoController`: all
synchronously, so a controller that stops a camera for seconds holds up the
whole loop.  Components share state directly: a one-element list `session_ref`
holds the active session's id and is read and written everywhere without a
lock.

| Component | State | Operations | Meets the others through | Hard behaviour | Correct when |
|---|---|---|---|---|---|
| Flight session (`api/routers/session.py`, `services/session_auto_controller.py`, `services/persistence.py`, `main.py`) | `flight_sessions` rows, `session_ref`, session state, home override, `_last_armed` | start, stop, auto start/stop, home, shutdown, atexit | `session_ref`; camera service | check-then-act over an unlocked cell by threads and loop; a stop that takes seconds; swallowed database errors; crash | at most one session open, the one `session_ref` names; what the operator sees agrees; nothing of an old session survives it |
| Session routes (`api/routers/sessions.py`) | none | list, read, delete, notes, path, analysis | table, recordings | a delete checks, works for seconds, then commits; row ids are reused | an active session is not deleted; one session's delete touches no other |
| Camera recording (`services/camera_recording.py`, `services/telemetry_overlay.py`) | camera and muxer process, overlay writer, ingest, output path, start time, last file, stream queue | start, stop, poll and reconcile, cleanup, mark | session routes, camera routes, publisher, auto controller | processes exit at any point; every launch can fail half way; handlers hold the lock per method only | one camera, always reachable; reports match it; a reported file is complete and belongs to its session |
| Recording stream (same file) | queue of two frames, drain thread | drain, view, stop | camera routes | blocking put on a full queue; one sentinel, many viewers | every thread and viewer ends with the recording |
| Recording AI ingest (`services/recording_ai_ingest.py`) | thread, last persisted times | tick, stop | recording, detections | outlives its recording | its rows belong to the recording's session |
| Auto controllers (`RecordingAutoController`, `SessionAutoController`) | `_last_armed`, debounce times | tick | telemetry state, settings | link loss and mode changes inside a debounce window | a jitter or a dropout neither starts nor stops anything |
| Camera preview (`services/camera_preview.py`) | last preview process | stream, release | camera device | checks for a recording, then launches | preview and recording never hold the device together |
| Recordings files (`services/recordings_service.py`) | files and sidecars | match to session, delete | sessions, disk | sessions that never ended | a delete removes the session's recordings only |
| Telemetry connection (`telemetry/mavlink_telemetry.py`, `telemetry/services/vehicle_connection_manager.py`, `runtime/telemetry_subsystem.py`) | task, source, port, backoff | connect, cycle, reconnect | settings route, telemetry loop | cancellation at an await; concurrent reconnects | one reader per port, the one the controller knows |
| Settings (`settings.py`, `api/routers/settings.py`) | JSON file, environment | save, load | reconnects | saved before an await, applied after it; refused saves; a crash while the file is written | what runs is what was saved last |
| Preprocessing (`telemetry/preprocessing/`) | rolling buffer, phase hysteresis, events | update, summaries | telemetry loop and readers | readers drive state meant for samples | a phase changes after the samples the setting asks for |
| Recorders (`services/persistence_recorders.py`) | open events, open phase, last session | one tick each | `session_ref`, preprocessor | the session changes between two ticks | every interval lies inside its session |
| Mission logic (`services/mission_logic.py`), AI scheduler (`ai/scheduler.py`) | de-duplication window; queue of jobs and futures | infer, submit, run | `session_ref`, thermal state | a session read across an await; requeues while hot; cancellation | a detection belongs to the session it was made in; every submitter gets an answer |
| Rover control (`vehicle/`) | last command, sequence, staleness | command, forward, failsafe | socket, bridge | stale or out of order commands | a stale command never drives |
| API server and publisher (`api/server.py`, `realtime/`) | none of their own | assemble and send | all | poll everything concurrently | polls change nothing they should not |
| Adapters, parsing, debrief, providers, validation, frontend, packaging | data | convert | | | |

`PROJECT.json` lists all of them under `components`, with what is modelled of
each, and under `hazards` the places where this code is hard to test.

## Plan

Written, in this order:

1. `SessionLifecycle`, with its run and one that is a finding: the session is what every
   other component hangs on.  `SessionLifecycle_proofs`: every safety property of it.
2. `CameraRecording`; `RecordingStream`: its drain thread, its bounded queue and the viewers,
   with liveness.
3. `AutoArm`: the two auto controllers and their debounces.  `TelemetryConnection`:
   reconnects, cancellation, the settings that trigger them, detection and port scans.
   `TelemetryConnection_proofs`: every safety property of it.
4. `FlightLog`: the preprocessing engines and the recorders across session changes, with the
   path and the debrief computed from their rows.  `TelemetryLoop_proofs`: every safety property of `AutoArm`
   and of `FlightLog`, the two halves of the telemetry loop.
5. `CameraUse`: one device for previews, recording and one-shot detection, and the session of a
   detection.  `Recordings`: files, sidecars, sessions left open by a crash, deletion.
6. `JobBoard`, the abstract specification of the inference scheduler, and `Inference`, which is
   shown to implement it and saves debriefs.
7. `Settings`: file, environment, getters and AI services.  `Rover`: commands, stop, failsafe, bridge.
   `Rover_proofs`: both safety properties of it.
8. `CameraRecording_proofs`: every property of it.  `Inference_proofs`: the saved debriefs, and the safety half
   of the refinement, step by step.
9. `Storage_proofs`: every property of `Settings` and of `Recordings`, what the program keeps in files of its
   own.  `Viewing_proofs`: every property of `CameraUse` and the safety property of `RecordingStream`, those who
   look through the camera.  A theorem speaks of definitions that its module extends; so that one module can
   extend two components, the frame of `Recordings` is named `RecInit`, `RecNext`, `RecSpec`, that of
   `RecordingStream` `StreamInit`, `StreamNext`, `StreamSpec`, and that of `FlightLog` `LogInit`, `LogNext`,
   `LogSpec`.

Left for later: a composition of `SessionLifecycle` with `FlightLog` in which the id of a deleted session is given
away again and the process ends and starts.  `FlightLog` has every other step of the cell.

Every component's module states a type invariant, `TypeOK` (`RecTypeOK`, `StreamTypeOK`, `LogTypeOK`).  It is
proved for all of them; no run lists it: the runs are for what could be wrong with the code.

## How the modules fit together

A component is cut where the program is: by a lock, by a queue, or by `session_ref`.  Each module
carries in full what it is about and its neighbours in one step:

| Module | has in full | in one step | detailed in |
|---|---|---|---|
| `SessionLifecycle` | sessions | the debounces | `AutoArm` |
| `CameraRecording` | the recording service | sessions, the stream | `SessionLifecycle`, `RecordingStream` |
| `CameraUse` | device, previews, ingest, detections | the recording | `CameraRecording` |
| `FlightLog` | the telemetry loop's engines and recorders | sessions | `SessionLifecycle` |
| `Recordings` | files and ranges | sessions, the recording | `SessionLifecycle`, `CameraRecording` |
| `Inference` | scheduler and requests | the row | `SessionLifecycle` |
| `Settings` | file and environment | the reconnect | `TelemetryConnection` |

## SessionLifecycle

The `flight_sessions` table, `session_ref`, the session state of
`ConnectionStateStore`, the home override and `_last_armed`, under API threads, the
loop, shutdown, exit, crash and restart.

One action is one access to shared state.  `pc[a]` is the point a handler has
reached, `sid[a]` the session id in its local variable:

| Code | Actions |
|---|---|
| `post_session_start` | `StartCheck` (43), `StartInsert` (52), `StartPublish` (55), `StartActivate` (57) |
| `post_session_stop` | `StopRead` (82), `StopEnd` (84), `StopClear` (97), `StopFinish` (98-101) |
| `delete_session` route | `DeleteCheck` (49-57), `DeleteCommit` (64) |
| `post_live_home` | `PostLiveHome` |
| `SessionAutoController.maybe_auto_start_stop` | `AutoObserve`, `AutoArmed`, `AutoInsert`, `AutoPublish`, `AutoActivate`, `AutoDisarmed`, `AutoEnd`, `AutoClear`, `AutoFinish` |
| `_shutdown_cleanup`, atexit, `main` | `ShutdownRequested`, `ShutdownBegin`, `ShutdownEnd`, `ShutdownClear`, `Exit`, `Crash`, `Restart` |

`PersistenceService` catches every exception, so `StartSession` may fail visibly and
`EndSession` invisibly.  Ids follow SQLite: the columns are INTEGER PRIMARY KEY without
the AUTOINCREMENT keyword, so a new row gets one more than the largest id and a deleted
last row frees its id (`FreshId`).

Three history variables exist for the properties only: `inherited` (rows an earlier
process left open), `overlap` (two operations of this process have overlapped), `fault`
(an `end_session` has failed).  They guard nothing.

Abstractions: the debounce of the auto controller (a tick finds it confirmed or not; the
clock belongs to `AutoArm`), child tables, and the first steps of
`_shutdown_cleanup`: clearing the home and reading the cell are one action, since nothing
in between reads either.  A second termination signal is included: the loop may clean up
while handlers are in flight.

Properties:

- `OneOpenSession`: without overlap or fault at most one session is open besides the
  inherited ones, and somebody holds it.
- `StoresAgree`: under the same condition, with nothing in flight, shown state, cell and
  table agree.
- `NoStaleHome`: a home override does not outlive its session.
- `OrphanCauses`: *with* every overlap, a row slips out of everybody's hands in four ways
  only: a failed `end_session`, a crash, a start that publishes over a session published
  meanwhile, a stop or cleanup that wipes a session it did not end.

The condition "no two operations have overlapped" is there because the code makes no
stronger promise: with overlap TLC finds every one of them violated in a few
steps, and `OrphanCauses` says how, exhaustively.

Run `session_lifecycle`: two API threads and the loop, two ids.  Two threads and
the loop give every pair and triple of concurrent operations; two ids give an orphan next
to an active session, and the reuse of an id.  The threads are symmetric.  1.46 million
states.  Deadlock is checked.  No fairness: these are safety properties.

Run `delete_active_session` (a finding, see below) uses the same instance.

## SessionLifecycle_proofs

Everything the first run checks, for any set of threads and any `MaxId`.  Assumptions:
`LoopAssumption` (the loop is not one of the threads) and `MaxIdAssumption`.

- `TypeCorrect`: `Spec => []TypeOK`.
- `Inductive`: `Spec => []IInv`.
- `OneOpen`, `Agree`, `FreshHome`: the three invariants, from `IInv`.
- `Orphans`: `Spec => OrphanCauses`.

None of the three invariants is inductive.  `OneOpenSession` alone admits a handler at
`publish` next to a session that is already in the cell, which the next step makes an
orphan; `StoresAgree` says nothing of the states in which an operation is under way.
`IInv` says what an operation that has had the process to itself may rely on at each of
its steps:

- `Roles`: only the loop is at a shutdown step, and only while draining; a process that has
  ended holds nothing.
- `InheritedPresent`: an inherited row is still in the table, so that a fresh id is not
  an inherited one (this is where the reuse of ids could have broken the argument).
- `Alone`: no one else is in an operation; the cell is empty from `insert` to `publish` and at
  `finish`; the id in hand at `end` is the cell's; a deleted id is not.
- `Held`: every open row of this process is in the cell or at `publish`, and none is left
  from `clear` on.
- `Shown`: what the shown state is at each step.

Each part has a lemma with one step per action (`RolesStep`, `InheritedStep`, `AloneStep`,
`HeldStep`, `ShownStep`); `OrphanStep` goes through the actions for the action property.

Only model-checked: the counterexample of `ActiveSessionHasRow`.

## CameraRecording

`CameraRecordingService`: camera process, muxer, overlay writer and ingest thread, what the
service refers to and reports, and the handlers that call it.  A recording is named by
its take, the number of its launch.  The service's lock is explicit: `lock` is its
holder and `at` the step the method has reached.  Other handlers cannot enter a method
in the meantime, but processes exit, and sessions come and go, between any two steps.
A handler that calls two methods (`post_session_stop`, `maybe_auto_record`) holds no lock
between them: `pc[a]` is its next call, `goal[a]` its purpose.

| Code | Actions |
|---|---|
| `get_recording_state`, `_reconcile_dead_processes` | `StateCall`, `Reap`, `Check`, `Report` |
| `start_recording` | `AlreadyRecording`, `StartRefused`, `Launch`, `LaunchFails`, `StartWriter`, `StartWriterFails`, `StartMuxer`, `StartMuxerFails`, `Alive`, `EarlyExit`, `Started` |
| `stop_recording` | `StopIdle`, `StopCall`, `CameraEnds`, `MuxerEnds` |
| `stop_and_cleanup` | `CleanupIdle`, `CleanupCall`, `CameraEnds`, `MuxerEnds` |
| camera, health and recordings routes, publisher | `Request` |
| `post_session_start`, `post_session_stop` | `SessionStart`; `SessionStop`, then the calls, then `Mark`, `SessionCleared` |
| `maybe_auto_record`, session auto controller | `AutoRecord`, `Mark`; `AutoSession` |
| shutdown and restart | `Shutdown`, `Restart` |
| the processes themselves | `CameraExits`, `MuxerExits` |

History variables: `seen[f]` is the set of sessions that were active while the camera of
take `f` ran; `disturbed` is the set of handlers during which a camera or its muxer has
exited by itself or the session has changed; `late` is the set of takes launched after the
cleanup of a shutdown, `earlier` the number of those launched before a restart.  They guard
nothing.

Abstractions: the session is a number and its table is `SessionLifecycle`'s; the three
ways to record (USB, direct, through the muxer) differ in the steps they take; a process
that is terminated is gone afterwards (wait, SIGTERM, SIGKILL); a thread that is stopped
ends within the join's timeout; two recordings started in the same second, which would
share a file name, are told apart.  `Shutdown` waits for nobody: handlers that the server gave
up on (a second signal) go on in their threads, and the loop goes on with its ticks, since
`main.py` cleans up before it cancels the telemetry task (667-687) and the task of a
reconnect is not among those it cancels.  New requests end with the server.  `Restart` needs
every thread to have ended, as the exit joins them; cameras outlive it.

Properties:

- `OneCamera`: a camera that runs is the one the service refers to, through every
  failed launch and early exit, and `stop_and_cleanup` leaves none behind, whatever
  handlers were in the middle of.  It does not keep them from launching another: what runs
  after it, or after a restart besides the service's own camera, is such a late take, and
  nothing stops it.
- `LastFileComplete`: neither camera nor muxer still writes the last recorded file.
- `MarkedForItsSession`: a recording is marked for a session that was active while it ran,
  unless a process exited by itself or the session changed during the handler that marks it.

Run `camera_recording`: the loop and one API thread, two takes, one session.  The lock
makes a third handler wait like the second; two takes are what it needs for the remains of
one recording to meet the next; one session besides "none" gives a recording with, without
and across a session.  3.5 million states.  Deadlock is checked: cameras that exit and requests keep the
system going.

## CameraRecording_proofs

Everything the run checks, for any set of threads and any number of takes and sessions.  Assumptions:
`LoopAssumption` and `NobodyAssumption` (the loop is not a thread, and nobody is neither), `BoundAssumption`.

- `TypeCorrect`, `Inductive`; `CameraIsOne`, `FileIsComplete`: the two invariants; `MarksItsSession`: the
  action property.

The service's references say nothing by themselves of the processes behind them: a method drops some of
them before it has launched or stopped others, and gives up half way.  `IInv` says at each step of a method
what they may be:

- `Launched`: takes that were launched have had a camera, those to come have had no process.
- `Holder`, `Down`: who has the lock is in the method it called; the cleanup is the loop's, and the handlers
  still at work in a shutdown count as disturbed.
- `Left`: past the cleanup, of this application or an earlier one, only late takes run.
- `Referred`, `Filming`: a camera of this application that runs is the one referred to, and writes to the output the service refers to, which is why a reconciliation
  that clears the output can leave no camera behind; none runs when a stop turns to the muxer.
- `Muxing`: the muxer that writes to the output is the one referred to, except between the launch of a
  camera and that of its muxer, when the reference may be an earlier take's; the new take is not the last
  recorded file.  `LastFileComplete` alone does not survive the start that follows.
- `Seen`: what is being recorded is recorded in the session there is.
- `Undisturbed`: what a handler that nothing has disturbed may count on at each of its calls: its session
  is the one there is, and the recording it has seen goes on, is being stopped, or is the last one of that
  session, or a later one is.  This is what carries `MarkedForItsSession` over the gap between two calls, in
  which other handlers hold the lock.

A step inside the lock preserves each part by a lemma of its own (`MethodControl`, `MethodCameras`, ...), one
step per action; what goes on outside the lock is lemma `Others`.

## RecordingStream

The MJPEG stream of one recording with overlay (`services/camera_recording.py`, 195-284):
the muxer writes frames to a pipe, a drain thread reads them and puts them in a queue of
`QueueMax` (two in the code), each client's generator takes them out, and
`_stop_recording_stream` empties, signals and joins.  They share no lock, so an action is
one call of the queue: between `full()`, `get_nowait()` and `put_nowait()` anybody else
may act.

| Code | Actions |
|---|---|
| `_drain_recording_stream` | `DrainStarts`, `DrainReads`, `DrainAtEnd`, `DrainEvicts`, `DrainPuts`, `DrainEvictsAgain`, `DrainPutsAgain`, `DrainSignals` |
| `_stop_recording_stream` | `StopBegins`, `StopLooks`, `StopEvicts`, `StopSignals`, `StopJoins` |
| `get_recording_stream` | `ViewerOpens`, `ViewerBegins`, `ViewerGets`, `ViewerTimesOut`, `ViewerLeaves` |
| the muxer | `MuxerWrites`, `MuxerExits` |

Abstractions: a frame is its number, the pipe holds any number of them, the search for
the JPEG markers is left out; the 30 s without a frame after which a generator ends may
pass whenever the queue is empty, the 2 s of the join at any moment.  `CameraRecording` has this
stream as part of its take; here one recording is followed to its end, with nothing
after it, so the system stops and deadlock is not checked.

Fairness: weak, of the drain thread, of the stop once it has begun, of every client that
watches (it takes what it is sent or leaves: the server's thread pool runs it), and of
the muxer's exit once the stream has been stopped, because `stop_recording` and
`_cleanup_processes` terminate the muxer next.  None for the camera (it need not write),
none for the stop (a recording may go on), none for a client that has not connected.

Properties:

- `NeverBack`: no client is shown an older frame after a newer one.
- `ViewersEnd`: one sentinel reaches one client only and may be evicted before that, but
  every client's stream ends once the muxer has (the time-out carries this: the
  mutant without it is caught).
- `DrainEndsOrWaits`: after the muxer has ended the drain ends, or waits to put its sentinel in a full
  queue while nobody watches.

Run `recording_stream`: two clients, a queue of two, five frames.  Two clients are needed to
share a sentinel and to empty the queue between two calls of the drain; five frames
overflow it before and after the stop.  83 thousand states.

`NeverBack` is proved in [Viewing_proofs](#viewing_proofs); the two others are liveness.

## AutoArm

`RecordingAutoController.maybe_auto_record` and
`SessionAutoController.maybe_auto_start_stop`, one after the other, as the telemetry loop calls
them (`main.py`, 278-281).  `CameraRecording` and `SessionLifecycle` model *how* they stop and start, call
by call and under concurrency, and leave open *when*; this module models when.  A tick is
atomic and takes no time; `TimePasses` lets all ages grow by one between two ticks.

| Code | Actions |
|---|---|
| one iteration of `_telemetry_loop` | `Tick(live, armed)`: `RecordTick`, then `SessionTick`, then the history |
| `maybe_auto_record` | `RecordArmed`, `RecordDisarmed` and the branch for neither |
| `maybe_auto_start_stop` | `SessionUntrusted`, `SessionArmed`, `SessionDisarmed` |
| `/session/start`, `/session/stop` | `SessionStarted`, `SessionStopped` |
| camera routes, a camera that exits | `RecordingChanged` |
| settings, connection state | `SettingsChanged` |

`live` stands for both tests the code makes of a state, `connected` and
`telemetry_status == "connected"`: every source sets them together (`mavlink_parser.py`, 226; the states
of `mavlink_telemetry.py` come from a normalizer that never sees a heartbeat; `mock.py`).  A state
that is not live may say armed (the last one known) or not (a fresh normalizer).  A
remembered time is its age: `_disarm_since` is `disarm_age`, `None` is
`Never`.

History variables, which guard nothing: `disarmed_for` and `armed_for` (the age of an
unbroken run of live states), `unarmed_for` (of the first disarmed state since an armed
one), `landed_for` (of a run during which the controller watched a session), `flown`,
`pending`, `armed_met`, and `unseen`, the controllers that have skipped a state since they
last saw the vehicle armed, or disarmed for the start.

Properties, each with the exceptions the code has and no others:

- `SessionStopConfirmed`, `SessionStartConfirmed`: the session controller acts only on a full debounce of live
  states without a gap, unless it was disabled in the meantime: the early returns at 84-88
  keep the debounce.
- `NoRestartInFlight`: a session stopped by hand in flight stays stopped until a disarmed state has
  been seen, unless a session came and went while an arm was being debounced (`_last_armed`
  is still `False` then) or the controller was disabled.
- `LandedStops`: no session survives a full debounce of disarmed states.
- `RecordingStopAfterDisarm`: weaker than for the session, because the recording controller keeps its
  debounce across a loss of the link: the stop comes with a live disarmed state, a debounce after
  the first one since the last armed state.

Run `auto_arm`: debounces 2 and 2, 3 for arming (different, so that one is not taken for the
other; at least 2, so that a window may be broken in the middle), ages up to 3: an age matters
only by whether it has reached a debounce.  154 thousand states; every sequence of
states of any length is covered.

## TelemetryConnection

`TelemetryController` and the tasks it starts and cancels, the routes that change the telemetry
settings, the connection state they show, detection, and the port scan of the ports
publisher.  Everything but the scan runs on the event loop, so an action goes from one
`await` to the next: a route saves the settings, sets the connection state, cancels the
task and waits in one action, and starts the next task in another.

| Code | Actions |
|---|---|
| `/connection/mode`, `/connection/disconnect`, `/settings` | `PostMode`, `PostDisconnect`, `PostSettings` |
| `/connection/detect` | `DetectLive` (the port is taken for the live link), `DetectOpens`, `DetectFails` |
| `TelemetryController.reconnect` | `Reconnect(h)` up to the await, `Reconnected(h)` after it, with a source that may fail to be created |
| `_run_with_restart`, `MavlinkTelemetrySource.stream`, `run_connection_cycle` | `Connects`, `MockStarts`, `Heartbeat`, `NoHeartbeat`, `Drops`, `Cancelled` |
| `list_ports_with_status` in its thread | `ScanBegins`, `ProbeOpens`, `ProbeCloses`, `ScanEnds` |

Abstractions: a source is its port, or `Mock`; bauds, mock types and names of settings are left
out; "waiting" is the start, the backoff and the delay before a restart, without their
lengths; a consumer that fails and a read that fails both lead there with the port closed
(the generators are finalised before the restart); a connect that fails is a `NoHeartbeat` at
once; whether a port exists or has a vehicle is chosen at each look.  A reconnect whose
task has ended already goes on without being suspended; the model also allows others
to come between.  A port leaked by a cancelled wait for the heartbeat is not modelled: the
garbage collector closes it at a moment the code does not determine.

History variables: `moved`, `overlap`, `behind` (a save was refused, or the source could not be
created, since the settings were last applied), `edited`.

Fairness: weak, of the step that ends a cancelled task and of the reconnect that awaits it:
the event loop runs what is ready.  None for the vehicle, the requests, the scan.

Properties:

- `ControllerHasLoop`: whatever overlaps or fails, a task runs and the controller has it, unless a
  reconnect is about to replace it.
- `OneLoop`: while reconnects come one at a time, it is the only one.
- `LastSaveWins`: with nothing in flight, source, task and settings agree, in whatever order the requests
  saved and returned, unless `behind`.
- `ShownIsRead` (proved, not among the run's properties): the connection state does not show a
  vehicle over mock telemetry or the reverse, unless `/settings` has changed the backend under it.
- `ProbeSparesReader`: a scan does not open the port a loop reads, unless the settings moved under it.
- `ReconnectEnds`: every reconnect returns; this is where a source that swallowed its
  cancellation would be caught.

Run `telemetry_connection`: two requests, two ports and the mock, three tasks: the cancelled
one and one for each request.  A request beyond the bound waits for a free task.  340
thousand states.

## TelemetryConnection_proofs

Every safety property of run `telemetry_connection`, for any finite set of requests, any ports
and any bound on the tasks.  Assumptions: `LoopsAssumption`, `HandlersAssumption`,
`NamesAssumption` (`Mock` is not a port, `None` is nothing else).

- `TypeCorrect`, `Inductive`; `HasLoop`, `One`, `LastSave`, `ShownRead`, `ProbeSpares`: the five
  invariants, from `IInv`.

`IInv` adds to `ControllerHasLoop` and `LastSaveWins`, which take part in the induction themselves:

- `Room`: there are as many free tasks as reconnects in progress, so that the bound on
  tasks never keeps one from starting its task; by counting, with the library's theorems on
  finite sets.
- `Single`: while reconnects do not meet, the one in progress awaits the controller's own task and
  has cancelled it.  `OneLoop` alone says nothing of what is being awaited and is not inductive.
- `ShownSaved`: what the routes show is the backend they save.
- `ScanKnows`: a scan keeps off the port that was in the settings when it began.

`ProbeSparesReader` is where three of them meet: the port a scan holds is not the one in the
settings (`ScanKnows`), which is the one the controller's task reads (`LastSaveWins`), and there is no
other task (`Single`).

Only model-checked: `ReconnectEnds`, which is liveness.

## FlightLog

What one iteration of `_telemetry_loop` does to the preprocessing engines and to five tables, one
action per recorder, because each of them looks at `session_ref` on its own and API threads start and stop
sessions in between.  `tick` is the statement that is next.

| Code | Definitions |
|---|---|
| `FlightPhaseEngine._raw_phase`, `classify` | `RawPhase`, `Classify` |
| `EventEngine.evaluate` | `Check`, `Judge` (`Raise`, `Lower`), `Evaluate` |
| `TelemetryPreprocessor.on_state`, the loop | `NewState`; `Home` of the state it is given |
| `RollingWindowBuffer`, `FeatureEngine.compute` | `Filled`, how many states the buffers hold; `Condition` and `Alarms`, what that and home make of a check |
| the recorders of `persistence_recorders.py` | `Sample`, `RecordPath`, `LogTransition`, `PersistEvents`, `PersistPhase` |
| `/ai/telemetry-summary` | `AskSummary`, `AnswerSummary`: readers that advance the engines |
| `get_session_path`, `get_session_flight_events`, `get_session_phase_intervals` | `Path`, from `PathOfPoints` or `PathOfSamples`; `FlightEvents`, `PhaseIntervals` |
| `DebriefEngine.generate` | `Debriefs`, what it has found after each row by `DebriefSample`; `Debrief`, after the oldest `SampleLimit` samples (`Readable`) |
| `_sample_to_state`, `get_session_home` | `StateOf` a row, with the home of the session (`SessionHome`) |
| `/session/start`, `/session/stop`, the auto controllers | `SessionStart`, `SessionStop` |

Abstractions: readings are reduced to the verdicts of the checks (`alarms`, `skipped`) and to the phase
that speed and climb rate tell (`motion`); the altitude stays, because the debrief derives a missing climb rate
from it; places are points of a line.  A path keeps the positions of its rows in the table, where they are in the
order of time; intervals and events are read as sets.

Two things beside the readings decide a verdict, and the debrief has others than the live engines had.  The first is home:
a state has the autopilot's, if it has sent one, and the operator's override at that moment, which only the live
preprocessor is given; `far` says for which homes the way back is too long.  The debrief takes the home set for the
session by hand, else that of the sample, else that of the session's first sample with one, else the place of its first
sample with one (`get_session_home`).  Its last resort, the first path point or the first sample's own place, is left
out: it is asked only when no sample has a place, and then no home matters.  The second is the buffers, which begin
empty in a debrief: `young` says how many of the states before it are still in them when a state comes, and
`filled` counts what they hold.  The checks `WindowEvents` look at averages or trends over them; where they hold fewer
states than they did live, the verdict is that of `alone`, any other set.  The endurance, which the checks
`HomeEvents` need, is only trusted with `Stable` states in them.  `young` and `filled` are those of the medium buffer;
the short one holds the last of the same states.

`SessionStart` and `SessionStop` are the assignments to the cell that
`SessionLifecycle` has, at any moment: a start may replace a session that another start has put there
(`StartPublish` does not look again).  A session is numbered when it is published, and no number is used twice;
one process is followed.  The limit of a path is left out: it keeps the oldest points, so it does not change where a
path begins.

History: `recent` (the latest states and how often each engine has read them), `raced`, `asked`, and in
a session's row what the recorders remembered when it started and whether every state of it was
stored and read once (`exact`), and whether the buffers held none from before it (`alone`).

Properties:

- `PhaseRowsTile`: stored phase intervals never overlap, and those of a session follow each other
  without a gap.  They do although a recorder may miss the moment between two sessions.
- `RowsOfTheirSession`: a stored interval or event starts in its session, unless the recorder has not seen a
  moment without a session since the one before, or the event was open when the session started.
- `HeldForSamples`: phases change and events open or close after the documented number of
  consecutive states, as long as each state is read once.  A reader of the API makes one state count
  twice.
- `DebriefMatchesLive`: when every state is stored, with a climb rate, and read once, and the limit covers the
  samples, the debrief's phase is the live one as soon as one has been held, and it finds no event that was not seen
  live: but for the events of home, when the session was given one by hand or a sample came without one
  or under an override, and the events of the buffers, when these held states from before the session
  (`ToldOtherwise`).  Without either exception the run finds a debrief with an event nobody saw.  That the
  debrief waits for more states before it trusts the endurance needs no exception: it only finds less.  A session
  with samples that lack a climb rate may show other phases in its debrief.  Held means `Enough` states in a row:
  `Hold` of them, but two when `Hold` is 1, because the first state of another phase only makes that the candidate.
- `PathKeepsItsStart`: the path shown for a session keeps the place it began with, unless it began
  within the minimum distance of the last point of an earlier one: that point stays the reference, the
  path is made of samples until a point is far enough, and then of points only.

Run `flight_log`: hold and open counts of two and a clear count of one (the smallest for which
consecutive matters and for which two of the three differ), four states of time, two sessions, one start or stop
in the middle of a tick, one summary, a debrief of at most three samples (one fewer than a session may have).  One event
of home and one of the buffers, two states in them for a trusted endurance.  Three aircraft states: on the ground,
far from a home that it has not been told, with an alarm that only empty buffers raise; flying with both alarms, two
states back in the buffers; and higher after a silence that empties them, with the check skipped, the link stale, no
climb rate and another home set by the operator.  A session may be given any of their places as its home, of which
one is far, or none.  4.6 million states.  The bound on time ends every behaviour, so deadlock is not checked.

## TelemetryLoop_proofs

Everything run `auto_arm` checks, for all debounces, and everything run `flight_log` checks, for any events, source
of states, gaps, hold and open and clear counts, intervals, limit of a debrief and bounds.  Assumptions: `AgeAssumption` (the bound on ages is a
number) and `DebounceAssumption` (it covers the debounces); `FlightLogConstants` (the counts and gaps are positive, the events finitely many, those of home and
of the buffers among them, the states of the kind the source yields).

About `AutoArm`:

- `TypeCorrect`: `Spec => []TypeOK`; `Inductive`: `Spec => []IInv`.
- `StopConfirmed`, `StartConfirmed`, `NoRestart`, `Landed`, `RecordingStop`: the five action
  properties, each from `IInv` and the one action that could violate it.

An action property speaks of history variables where the code looks at what a controller
remembers, so `IInv` relates the two, one part for each thing remembered:

- `StopAge`, `StartAge`: the two debounces of the session controller are covered by an unbroken run of
  live states.
- `InFlight`: after a session in flight `_last_armed` stays set and no arm is being debounced, which is
  what keeps the start branch from firing again.
- `LandedAge`: the reverse of `StopAge`: a landing that the controller watched is not ahead of the debounce.
- `RecordAge`: the recording controller's debounce began after the last armed state.

`OlderMonotone` carries these over `TimePasses`: ages stop growing at the bound, and the order of two
of them survives that.

About `FlightLog`:

- `LogTypeCorrect`: `LogSpec => []LogTypeOK`.
- `PhaseRowsAlwaysTile`, `RowsAreOfTheirSession`: the two invariants about rows.
- `PathAlwaysKeepsItsStart`, `ChangesAreHeld`: the action properties `PathKeepsItsStart` and `HeldForSamples`.
- `DebriefAlwaysMatches`: the invariant `DebriefMatchesLive`, for sessions of any number of samples.

None of the five is inductive: each speaks of rows that are stored, or of a change that happens, and says nothing
of what the recorder or the engine remembers until then.  Five invariants say that, one for each thing
remembered:

- `PhaseInv`: the interval that is still open begins where the last stored one of its session ends
  (`OpenTiles`), and before its session only where the recorder has not seen a moment without one
  (`OpenOfItsSession`); `PhaseTimes` keeps rows and sessions out of the future.
- `EventInv`: likewise of the tracked events, and of those open in the engine that no session has tracked yet:
  one that is older than the session was open when it started (`EventsOfItsSession`).
- `PathInv`: a session without a path point still compares with the place it started with, and its first sample
  is about to be compared or was too close (`PathWaits`).  This is the whole argument: once a point is stored the
  path is made of points, so the first point must be the first sample.
- `CountInv`: the engines' counters count what they are said to.  `Told(n, end, once, told)` says that the last `n`
  states an engine has come to, if each was read once, are `n` and all tell the same; `PhaseCounts` states it of the
  candidate phase and `hold`, `EventCounts` of each event's `up` and `down`.  A new state shifts the window of
  `recent` (`ToldNewState`), a read adds the latest to those told (`ToldRead`), and a second read leaves nothing to
  show (`ToldAgain`).

- `DebriefInv`: what the debrief would find, were it asked for now, against the live engines.  In a session with every
  state stored and read once, each sample is the state of its tick (`SamplesInStep`), and an engine has come to all of
  them, or to all but the last.  For the phase the two agree once a run of samples has settled it (`PhasesMatch`,
  `HoldsBack`): after `k` samples of one phase an engine shows that phase or has counted at least `k` states of it,
  whatever it knew before (`KnowsRun`, `KnowsNext`), so two engines that read the same run end up the same
  (`SameWhenSettled`).  For events the two may never agree, since the live engine may carry an open event or a count
  into the session: it is ahead of the debrief's, never behind (`Leads`, `LeadsNext`), so what the debrief opens is open
  live, or was and has been stored when it closed (`EventsMatch`).  This needs the verdicts to be the same, and they are
  where home and the buffers are (`HomesTold`, `StateStored`): the debrief's buffers never hold more than the live
  ones, and as many in a session that began with them empty (`FillsMatch`).  One verdict may still differ, `calm` where live
  the endurance was trusted already; it cannot close an event in the debrief that is open live, because none of home
  opens there before its buffers hold enough (`OpensFilled`).  The phases depend on neither, and all of these hold
  for any home, so that one set by hand later, or found in a later sample, makes no difference to the induction.

The debrief is a recursive function of the number of rows.  What it computes for every table takes an induction over
rows, which the library's induction theorems do not offer here because they take an operator as a parameter; `RowByRow`
states it for a set of numbers instead: a set that holds 0 and every successor in range holds them all, because
otherwise the numbers it lacks have a least one.  `DebriefsExist` and `DebriefsStep` give the recursive function its
equations, and `DebriefsKept` says that a new row leaves what was found before it alone.

## CameraUse

The camera has one holder; a process that finds it busy exits.  Previews check for a recording, launch and
register; a recording terminates the preview it knows, waits and launches; `/ai/detect` takes a still; the
ingest thread of a recording detects on its file.

| Code | Actions |
|---|---|
| `get_camera_preview`, `stream_preview_frames` | `Admit`, `Launch`, `Register`, `EndStream`, `Unregister`, `FallBack`, `NextStill`, `CaptureFrame`, `FrameTaken` |
| `start_recording`, `release_camera_for_recording` | `StartRecording`, `Release`, `Settle`, `LaunchCamera`, `CheckAlive` |
| `stop_recording` | `StopRecording`, `Join`, `EndRecording`; `CameraExits` |
| `RecordingAiIngest` | `EndLoop`, `ExtractFrame`, `Inferred`, `Persist` |
| `post_ai_detect` | `AskDetection`, `Capture`, `Captured`, `Detected`, `StoreDetections`, `StoreEvent` |

Abstractions: the muxer and the file are `CameraRecording`'s; a session is a number that
`ChangeSession` sets and clears; thresholds and the 30 s window of equal labels only leave rows out.
`ExtractFrame` takes the last frame of the file or, when ffmpeg cannot seek from its end, the first one
(`LastFrame`, `FirstFrame`): of a recording that goes on the last is now and the first is of when the camera was
launched.  History: `escaped` (previews that a release cannot reach), `left` and `late` (threads a stop gave up
on, and those of them that have stored since), `last`.

Properties:

- `CameraHeldCauses`: when a recording launches its camera, somebody else holds it only in the ways listed: a
  still or a one-shot under way, or a preview that was not registered yet or whose registration a later one
  replaced.
- `DetectionsOfTheirSession`: a detection is stored for the session of its frame, unless the session
  changed under the inference, the camera had died, or the frame is the first of a recording begun before the
  session.  The last case is real: a recording that runs from one session into the next, with ffmpeg falling back
  to the first frame, stores what the first session saw for the second.  The property says that nothing else does.
- `OneTickAfterStop`: `stop()` waits for the thread for two intervals and forgets it; a thread that is still
  inferring then stores the rows of that tick and no more, whatever is recorded next.

Run `camera_use`: two viewers (for a registration that replaces another), interchangeable, one recording with an
ingest (others follow without), two sessions.  2.9 million states; deadlock is checked.

## Viewing_proofs

`CameraUse`, for any viewers and any number of takes and sessions.  Assumptions: `NamesAssumption` (no viewer has
the name of another holder of the camera), `BoundsAssumption`.

- `TypeCorrect`, `Inductive`; `HeldCauses`, `SessionOfDetections`, `LastTick`: the three invariants, here with an
  ingest for every recording.

`IInv` adds:

- `Previews`: a stream that holds the camera is the preview a release knows, or has escaped it; once a
  release has been done, every process that is launched has escaped it.  `CameraHeldCauses` speaks of the
  launch only; this is what the steps before the launch hand on.
- `InSession`: a frame under inference is of the session there is, or its session has changed, or it is such a
  first frame; rows about to be stored are for the session of the frame, but for the same two cases.
- `Ended`: the threads of takes to come have not started, the one that is being joined has been told to end
  (so one that was left behind goes on to no other frame), and one that was left behind and has stored since is
  at its last wait.

`RecordingStream`, for any clients, any queue of at least one frame, any number of frames.  Assumptions:
`QueueAssumption`, `FramesAssumption`.

- `StreamTypeCorrect`, `StreamInductive`; `FramesInOrder`: `StreamSpec => NeverBack`.

`NeverBack` compares what two clients took out of a queue that four kinds of threads take from and two put
into.  `StreamInv` says that the frames in the queue are in order, that none is older than or the same as one somebody has
been shown, and that the frame in the drain's hands, which may be put after several attempts, is later than all
of them (`InOrder`, `Gone`); what the stop takes out or puts in between cannot break that.
`ViewersEnd` and `DrainEndsOrWaits` are liveness and stay with the model checker.

## Recordings

Files are named by the second they were begun in, sessions are intervals of a finer clock, and
sidecars name a session id that may be given again.

| Code | Definitions |
|---|---|
| `RecordingsService.get_recordings` | `Second`, `SessionRange`, `End`, `InRange`, `Matches`, `Newest`, `GetRecordings`, `Listed` |
| sessions | `StartSession`, `EndSession` (the controller), `StopSession` (by hand, with the recording and its sidecar), `Crash` |
| the recording service | `StartRecording`, `StopRecording` (or the camera dies), `AutoStopRecording`, `StopAndMark`, `Mark`; `recorded` is `_last_recorded_file` |
| both deletes | `DeleteRecording`; `DeleteCheck`, `DeleteScan`, `DeleteFilter`, `DeleteFile`, `DeleteCommit`: the steps between which everything else happens; every unlink may fail |

Properties:

- `OnlyItsRecordingsLost`: a recording deleted with a session shows it, with the four exceptions the
  code has: a session that a crash left open matches everything since; a sidecar that could not be
  removed outlived its session and its id was given again; the camera died between the look at its state and
  the stop, so that the sidecar went to `_last_recorded_file`, an older recording (`mark.stale`); a recording begun in
  the second in which the session ended.
- `RecordingsListed`: a recording begun in a flight is listed there, unless it was begun in the flight's
  first second, so that its name is earlier than the start, and no sidecar names the session.

Run `recordings` (on the module itself: its constants are numbers): two ids, three flights, three seconds of three instants (a start, an end and a recording
in the same second).  2.3 million states; deadlock is checked.

## Inference and JobBoard

`JobBoard` is what the docstrings of `ai/scheduler.py` promise to those who submit: one job at a
time, users in the order they came, one answer each (`Safety`), and no user waits for ever (`Service`).  `Inference` is
the scheduler: one queue, one worker, thermal state read before every job, background jobs put back at
the tail while the board is hot or throttled, a user's job delayed while it is throttled, a job failed before it has run when
the read raises (`ThermalFails`, on the board a `Run` that gives the job up); and the requests, of which
the debrief saves its text by session id when it comes.

The refinement mapping, `boardStatus` and `boardAhead` for `JobBoard`'s `status` and `ahead` (the instance `Board`): a job
waits while it is in the queue or in the worker's hands before it
runs, and runs in `delay` and `run`; ahead of a user's job that waits are the users' jobs before it in
the queue and the user's job whose thermal state is being read.

Everything runs on one event loop, so an action goes from one `await` to the next; deletes and
starts of sessions come from threads.  The session followed is the one with the highest id, which a
delete frees.  `main` creates only users' jobs: `ScheduledOllamaAiService`, whose jobs are background, is
exported and tested but not instantiated; the model has both kinds.  Cancellation at shutdown leaves
futures pending; the process ends with them.

Fairness: weak, of the worker and of a request whose future is done: sleeps end, and the model answers or
its HTTP request times out.  None for requests, sessions and the temperature.

Properties: `IsJobBoard`, the safety half of the refinement; `JobsAnswered`, its liveness half (`UsersServed`)
and `BackgroundAnswered`: a background job is answered if the board stays cool from some point on;
`DebriefOfItsFlight`: a saved debrief describes the flight whose row it is in, unless
that row went away while a request about it waited (its id may have been given away), and the
fallback text of a failed inference is never saved.

Run `inference`: two users and one background job (an order to keep, and a job to put back), two flights for one id,
four requests, two changes of the board, which may be hot, throttled by its flags, or unreadable.
251 thousand states.

## Inference_proofs

For any set of requests, whichever of them are users', any boards and any number of flights.  Assumptions:
`InferenceConstants`, `NoJobAssumption`.

- `TypeCorrect`, `Inductive`; `DebriefCorrect`: `Spec => []DebriefOfItsFlight`.
- `ImplementsBoard`: `Spec => IsJobBoard`, that is `Spec => Board!Safety`: the initial states are mapped to
  an initial state, and every step to a step of `JobBoard` or to a stutter (`BoardSubmit`, `BoardRun`,
  `BoardWake`, ..., `BoardStep`).

`TypeOK` already says that the queue and the worker together hold each pending job once.  `IInv` adds `Working`
(the worker has a job exactly while it works on one, and that job is not in the queue: put back and run at the
same time, it would be answered twice), `Asked` (a request about a flight is under way, and its flight has the
row unless the row has gone away since) and `Numbered` (the flight that may have the row is the last one).
The order of users is what the refinement is about: a background job that is put back moves behind everybody, and
`ahead` does not change by it, because only users' jobs are counted (`Unseen`).

Only model-checked: `JobsAnswered`, which is liveness.

## Settings

Five keys stand for the kinds there are: `provider` and `model` (the AI services are reloaded on
save), `hat` (the environment overrides the file on the page), `camera` (the getter prefers the file),
`backend` (reconciled at start); `mode` is the legacy key.

| Code | Definitions |
|---|---|
| getters of `config.py` | `Provider`, `Hat`, `Mode`, `Used` |
| `get_raw_settings` | `Content`, `Shown` |
| `load_settings`, `reconcile_telemetry_env_from_settings_file`, `main` | `Loaded`, `ProviderIsExplicit`, `Discovered`, `Reconciled`, `Configured`, `Start` |
| `save_settings`, `post_settings` | `Migrated`, `Kept`, `Put`, `Save`, `WriteFile`; `PostSettings` |
| `_reload_ai_subsystem` | `Reloadable`, `Reload` |
| a file that cannot be opened, a full disk | `MissFile`, `TearFile`; `PostFails` |
| a kill in the write, a stop | `CrashInSave`, `Stop` |

`save_settings` changes the environment first, then opens the file, which truncates it, then writes.  A save that
cannot open the file leaves an older value there (`disk` says `older`) and the new one in the environment; one
that cannot write loses the whole file (`gone`) and leaves the environment as it was asked to be.  The history `saved` is
what the last save asked for, whether it failed or not; a start cuts it down to what is left on the disk.

Properties:

- `SavedIsUsed`: what a save asked for is used at once, even if its file was not opened or is torn; after any number of
  restarts all keys that were written and not torn since are; unless the unit's environment has the key.  The mode of
  the recordings is read in the file first, so that an older value there wins until it is written.  That a torn
  file starts the program with nothing is what the code does: no property denies it.
- `ShownIsUsed`: the page shows what the getters read, and what the services run with unless the last save of an AI key
  was refused, failed or went unnoticed; except for keys that the unit's environment sets too, for values by a name no getter
  knows, which are shown as they are and used as the default, and for keys of a save that could not open the file,
  which are shown as the file has them and used as they were asked for.
- `OllamaIsScheduled`: whatever was saved and refused, the services use Ollama only with a scheduler.
- `LiveIsLive`: after a save that was answered with "apply immediately" the services are those of the
  settings, until a save is refused, fails or sets the provider by its legacy name, which reloads nothing.

Run `settings`: three unit environments (none, one that sets what start reconciles, a legacy one that sets
what the getters override), four files (two legacy modes, a provider of an old release), nine updates that set and remove
every key, some two at a time, and name values no getter knows.  553 thousand states; deadlock is checked.
A provider change is refused only by the save that makes it: the next
save of an AI key finds the same provider before and after and swaps the services, without a restart.

## Storage_proofs

`Settings`, for any environments of a unit, any first files and any bodies of saves.  Assumption:
`SettingsConstants` (they are functions on the keys).

- `TypeCorrect`, `Inductive`; `SavedUsed`, `ShownUsed`, `Scheduled`, `Live`: the four invariants of the run.

`IInv` adds to the two about the services, which are inductive with it:

- `FileIsSaved`, `EnvFollows`: the file has what was written, and nothing of what is gone; the environment of a program that
  is up has what was asked for, but for the unit's keys.  `SavedIsUsed` says the second only; a restart needs the first.
- `LegacyIsOld`: a file with the legacy key is one of the first, so that a save cannot bring the mode back.
- `Maps`, `Served`: types.

`Recordings`, for any number of ids, flights and instants, any number of instants to a second and any limit.
Assumption: `RecordingsConstants`.

- `RecTypeCorrect`, `RecInductive`; `OwnLost`, `OwnListed`: the two invariants.

`OnlyItsRecordingsLost` is about a delete whose steps are seconds apart, with times cut to seconds and ids that
name several flights.  `RecInv` says what the steps can rely on:

- `RowsPast`, `FilesPast`: rows, files and sidecars are of the past, and named after their second.
- `Active`, `Deleting`: the active session has an open row; the one being deleted keeps its row and is not active.
- `FlightsShown`: a flight that goes on, or has an end, is in every recording begun during it.
- `MarksShown`: a session has no sidecar for a second after its end; a file marked for a flight that it does not
  show was begun after the flight, in its last second, or marked by a stop that meant another file.
- `Chosen`: what a delete has listed by its sidecars or chosen by its time is of that kind, or has lost its sidecar since.

`Seconds` is the arithmetic of the cut: it keeps the order, and an instant lies less than a second after its second.

## Rover

Commands over the socket (on the event loop) and over REST (in threads), the store and the failsafe
with a lock each, the stop, and the bridge, which looks at the failsafe, reads the store and sends, on
the loop with threads between its steps.

| Code | Actions |
|---|---|
| `vehicle_control`, `post_vehicle_control`, `update_control` | `SocketControl`, `PostControl`: `Feed` of the failsafe, then `Store` |
| `post_vehicle_stop` | `PostStop` clears the store, `StopResets` the failsafe |
| `run_bridge` | `BridgeWakes`, `BridgeReads`, `BridgeSends`, `BridgeFails` (the backend raises) |

An invalid command changes nothing; deadband and clamping are data.  Fairness: weak, of the bridge
and of a handler that has fed the failsafe: the loop and the pool run what is ready; strong, of a send: a backend that
is tried again and again takes a command some time.

Properties:

- `FreshWhenTaken`: what the bridge takes was no older than the timeout when it looked, unless a
  newer command has fed the failsafe and is not stored yet, or two handlers overlapped and stored in the
  other order.
- `StopHolds`: after a stop has returned the bridge takes no command that had arrived before it,
  unless its handler had still to store it.  Such a command is forwarded when a later one feeds the failsafe.
- `Delivered`: a stored command with a number above the one forwarded last is forwarded, however often the backend
  raises, unless it is replaced, goes stale, or a command that the bridge had read before it has that number or a higher
  one.  A retry needs that the number is remembered after the send.  Of lower numbers it says nothing: what the code does
  with them is under [other disagreements](#other-disagreements).

Run `rover`: a page and two threads, three commands with two numbers, one stop, a timeout of one tick and
two ticks: an old handler can be overtaken by a newer one, by a stop and by the bridge.  613
thousand states.

## Rover_proofs

`FreshWhenTaken` and `StopHolds` of run `rover`, for any pages and threads, finite or not, any numbers and
any timeout.  Assumption: `RoverAssumption` (no page is a thread; numbers and bounds are naturals).
`Delivered` is a liveness property and stays with the model checker.

- `Inductive`, `TypeCorrect`; `StopsHold` and `Fresh`: both action properties, from `IInv` and the step.

Neither property is about a state the bridge can see, so `IInv` says what the store and the handlers
that have fed the failsafe can hold:

- `Arrived`: only commands that have arrived; the type invariant needs it, for commands that overlap.
- `Surviving`: only commands later than every stop that has returned, and than every stop between its two
  calls when it cleared the store, or that were about to be stored then.
- `FedByLatest`, `Overtaken`: the latest command is the one that fed the failsafe last; one about to be
  stored that is not the latest has overlapped another; one stored has too, or the latest is about to
  replace it.  A check of the age of the *failsafe* says something of the command in the *store* for this
  reason alone.
- `FreshStill`: carries that from the bridge's look at the failsafe to its look at the store, which
  threads may come between.

## Findings

- `delete_active_session`: `DELETE /sessions/{id}` refuses the active session, but checks once,
  deletes the recordings and then the row without looking again.  A session that is being
  started has its row before `session_ref` names it, and the id of a deleted row is given
  to the next session.  `ActiveSessionHasRow` is violated in six states.

## Other disagreements

Met while modelling, and part of the models as the code does it; no run is about them.

- A launch that fails after the camera of an earlier recording has died leaves that recording's
  `_started_at` (`services/camera_recording.py`, 577-597), where
  `tests/test_camera_recording.py:1354` says it remains `None` on all failure paths.
- `_stop_recording_stream` runs before the muxer is terminated: frames that arrive after it may push its
  sentinel out and fill the queue, and the drain thread then ends with a `put` that nobody makes room
  for (`DrainEndsOrWaits` says so).
- The drain finds the queue full, clients empty it, and `get_nowait` raises an exception that the handler of
  `queue.Full` does not catch: the drain ends while the recording goes on.
- The docstring of the session controller calls it edge-triggered; its stop branch looks at the level, so a
  session started by hand on the ground ends after the disarm debounce.
- Two reconnects in progress at once await the same task and each starts a loop; the controller forgets
  the first (`OneLoop` has this condition).
- `get_session_telemetry_for_debrief` is documented to fetch all samples of a session (`services/persistence.py`, 892);
  it answers with the oldest 10000, so the debrief of a longer session describes its beginning only
  (`DebriefMatchesLive` has this condition).
- The bridge forwards every command whose number differs from the one forwarded last (`vehicle/bridge.py`, 41), lower ones
  too, and drops one with the same number.  `docs/hybrid_vehicle_platform_plan.md`, 133 and 146, call `seq` monotonic, to
  "detect drops, enforce ordering": nothing enforces an order.  A handler that stores late (`FreshWhenTaken`, `crossed`) replaces a
  newer command by an older one, and the bridge forwards both.
- A serial port that is saved and not applied is taken for the live link by a detection on it.
- `load_settings` copies the values of the file as they are (`settings.py`, 176); only a save migrates them.  A
  program started with a file of an old release (`lmstudio`) uses the mock provider and shows the old name, where the
  docstrings at `settings.py`, 135 and 357, speak of normalized and effective values (`ShownIsUsed` has this
  exception).
- `docs/packaging.md` and `main.py:319` say that a change of provider requires a restart; the second save after it
  does not (`Settings`).

## What is not modelled

Pure I/O and data (device discovery, MAVLink decoding, adapters, prompts and the parsing of answers,
debrief texts, the web client, packaging, migrations) has no order of events that a model would
explore.  `validation/` and `commands/` are small pure functions.  The mission loop
(`services/mission_logic.py`) calls a mock, with the AI HAT's service beside it when
that is enabled, and stores at most one row per answer; it reads the session after its await as `/ai/detect` does, which
`CameraUse` has.  A port that a cancelled wait for the heartbeat leaks is closed by the garbage
collector at a moment the code does not determine.

Liveness is stated where the code promises an end and the threads' progress carries it, in
`RecordingStream`, `TelemetryConnection`, `Inference` and `Rover`; it is model-checked only (`ViewersEnd`,
`DrainEndsOrWaits`, `ReconnectEnds`, `JobsAnswered`, `Delivered`): the proof system does not reach liveness under
fairness.  The other modules are about safety and assume no fairness.  Every invariant and action property of a
passing run is proved for all values of the constants.
