------------------------------ MODULE CameraUse ------------------------------
(***************************************************************************)
(* Who has the camera, and for whom its detections are stored: the         *)
(* preview streams, the recording that takes the device from them, the     *)
(* one-shot detection and the ingest threads that detect on the file of a  *)
(* recording.  Sources: services/camera_preview.py, camera/capture.py,     *)
(* services/recording_ai_ingest.py, api/routers/ai.py,                     *)
(* api/routers/camera.py, services/camera_recording.py.                    *)
(*                                                                         *)
(* A process that finds the device busy exits (libcamera); so a process    *)
(* is alive exactly while it is the device's holder.  What the recording   *)
(* does with its muxer, overlay and file is CameraRecording.               *)
(***************************************************************************)
EXTENDS Naturals

CONSTANTS
  Clients,     \* viewers of the preview
  MaxTakes,    \* bound: recordings with an ingest thread
  MaxSessions  \* bound: sessions started

ASSUME NamesAssumption == {"nobody", "recording", "shot"} \cap Clients = {}
ASSUME BoundsAssumption == MaxTakes \in Nat /\ MaxSessions \in Nat

Nobody == "nobody"
NoSession == 0
NoTake == 0
Unsure == MaxSessions + 1  \* the frame is of no session, or the session has changed since
Takes == 1..MaxTakes

VARIABLES
  device,     \* who holds the camera: a viewer, "recording", "shot" or Nobody
  preview,    \* _active_preview_process: the viewer it was launched for
  client,     \* where each viewer's request is
  recorder,   \* where the method that holds the recording service's lock is
  ingest,     \* CameraRecordingService._ingest
  filming,    \* the take whose file the camera writes, of those with an ingest
  takes,      \* ingests created
  began,      \* the session there was when the recording under way was launched
  tick,       \* of each ingest thread: where it is, the session of its frame, the one it read, and
              \* whether the frame is the first of a file begun in another session
  stopped,    \* takes whose stop event is set
  shot,       \* the same of the one-shot detection
  session, sessions,  \* session_ref[0]; sessions started
  escaped,    \* history: viewers' processes that a release cannot reach
  left, late, \* history: takes whose threads a stop gave up on; those that stored rows since
  last        \* history: the last row stored: whether it is of the wrong session, and of such a frame

camera == <<device, preview, client, recorder, escaped>>
threads == <<ingest, filming, takes, began, tick, stopped, left, late>>
vars == <<camera, threads, shot, session, sessions, last>>

Looking(pc, cap, first) == [pc |-> pc, cap |-> cap, sid |-> NoSession, first |-> first]
Detecting(pc) == Looking(pc, NoSession, FALSE)

Init ==
  /\ device = Nobody /\ preview = Nobody /\ client = [c \in Clients |-> "idle"]
  /\ recorder = "free" /\ escaped = {}
  /\ ingest = NoTake /\ filming = NoTake /\ takes = 0 /\ began = NoSession
  /\ tick = [r \in Takes |-> Detecting("off")] /\ stopped = {} /\ left = {} /\ late = {}
  /\ shot = Detecting("idle")
  /\ session = NoSession /\ sessions = 0 /\ last = [foreign |-> FALSE, first |-> FALSE]

\* A process is launched for d: it gets the device or exits.
Taken(d) == IF device = Nobody THEN d ELSE device
Freed(d) == IF device = d THEN Nobody ELSE device

\* get_recording_state: only while no other method has the service's lock.
NotRecording == recorder = "free" /\ device # "recording"

IsRecording == recorder = "free" /\ device = "recording"

-----------------------------------------------------------------------------
(* The preview: get_camera_preview_stream and stream_preview_frames.       *)

At(c, pc) == client[c] = pc
Goto(c, pc) == client' = [client EXCEPT ![c] = pc]

Admit(c) ==
  /\ At(c, "idle") /\ NotRecording /\ Goto(c, "admitted")
  /\ UNCHANGED <<device, preview, recorder, escaped, threads, shot, session, sessions, last>>

\* Popen of rpicam-vid or of the USB command.
Launch(c) ==
  /\ At(c, "admitted") /\ Goto(c, "launched")
  /\ device' = Taken(c)
  /\ escaped' = IF recorder \in {"settle", "launch"} THEN escaped \cup {c} ELSE escaped
  /\ UNCHANGED <<preview, recorder, threads, shot, session, sessions, last>>

\* _preview_lock is held by a release until the device has settled.
Register(c) ==
  /\ At(c, "launched") /\ recorder # "settle" /\ Goto(c, "stream")
  /\ preview' = c
  /\ escaped' = IF preview = Nobody THEN escaped ELSE escaped \cup {preview}
  /\ UNCHANGED <<device, recorder, threads, shot, session, sessions, last>>

\* _stream_mjpeg_from_vid ends: the process is gone (end of input), or the viewer is; a
\* recording that has the camera leaves the process no choice.
EndStream(c) ==
  /\ At(c, "stream") /\ Goto(c, "closed")
  /\ device' = Freed(c)
  /\ UNCHANGED <<preview, recorder, escaped, threads, shot, session, sessions, last>>

\* The reference is dropped only if it is still this stream's.
Unregistered(c) == IF preview = c THEN Nobody ELSE preview

Unregister(c) ==
  /\ At(c, "closed") /\ recorder # "settle" /\ Goto(c, "idle")
  /\ preview' = Unregistered(c)
  /\ escaped' = escaped \ {c}
  /\ UNCHANGED <<device, recorder, threads, shot, session, sessions, last>>

\* Without a video command, or when Popen raises, the stream is made of stills.
FallBack(c) ==
  /\ At(c, "admitted") /\ Goto(c, "still")
  /\ UNCHANGED <<device, preview, recorder, escaped, threads, shot, session, sessions, last>>

\* The loop of stills looks for a recording before each of them.
StillLoop(c) ==
  \/ IsRecording /\ Goto(c, "idle")
  \/ NotRecording /\ Goto(c, "aim")

NextStill(c) ==
  /\ At(c, "still") /\ StillLoop(c)
  /\ UNCHANGED <<device, preview, recorder, escaped, threads, shot, session, sessions, last>>

CaptureFrame(c) ==
  /\ At(c, "aim") /\ Goto(c, "taking")
  /\ device' = Taken(c)
  /\ UNCHANGED <<preview, recorder, escaped, threads, shot, session, sessions, last>>

\* The frame is sent, or the viewer has gone.
FrameTaken(c) ==
  /\ At(c, "taking")
  /\ device' = Freed(c)
  /\ \E pc \in {"still", "idle"} : Goto(c, pc)
  /\ UNCHANGED <<preview, recorder, escaped, threads, shot, session, sessions, last>>

-----------------------------------------------------------------------------
(* The recording service, one method at a time.                            *)

Recorder(from, to) == recorder = from /\ recorder' = to

StartRecording ==
  /\ NotRecording /\ recorder' = "release"
  /\ UNCHANGED <<device, preview, client, escaped, threads, shot, session, sessions, last>>

\* Mutant: the reference is dropped and the process left alone.
ReleasedNot == device

\* release_camera_for_recording: the preview it knows is terminated and waited for; then 0.3 s
\* with the lock held. Without a preview it returns at once.
Released == IF preview = Nobody THEN device ELSE Freed(preview)

Release ==
  /\ Recorder("release", IF preview = Nobody THEN "launch" ELSE "settle")
  /\ device' = Released
  /\ preview' = Nobody
  /\ escaped' = escaped \cup {c \in Clients : At(c, "launched")}
  /\ UNCHANGED <<client, threads, shot, session, sessions, last>>

Settle ==
  /\ Recorder("settle", "launch")
  /\ UNCHANGED <<device, preview, client, escaped, threads, shot, session, sessions, last>>

LaunchCamera ==
  /\ Recorder("launch", "alive")
  /\ device' = Taken("recording") /\ began' = session
  /\ UNCHANGED <<preview, client, escaped, ingest, filming, takes, tick, stopped, left, late,
                 shot, session, sessions, last>>

\* The liveness check. An ingest is created if it is enabled and a session is active; it
\* replaces the reference to the one of a recording that was never stopped.
CheckAlive ==
  /\ Recorder("alive", "free")
  /\ \/ began' = NoSession /\ UNCHANGED <<ingest, filming, takes, tick, stopped, left, late>>
     \/ /\ device = "recording" /\ session # NoSession /\ takes < MaxTakes
        /\ takes' = takes + 1 /\ ingest' = takes + 1 /\ filming' = takes + 1
        /\ tick' = [tick EXCEPT ![takes + 1] = Detecting("wait")]
        /\ UNCHANGED <<began, stopped, left, late>>
  /\ UNCHANGED <<device, preview, client, escaped, shot, session, sessions, last>>

\* The camera exits by itself; nobody tells the ingest.
CameraExits ==
  /\ device = "recording" /\ device' = Nobody
  /\ filming' = NoTake /\ began' = NoSession
  /\ UNCHANGED <<preview, client, recorder, escaped, ingest, takes, tick, stopped, left, late,
                 shot, session, sessions, last>>

\* stop_recording: the ingest first, then the camera.
StopRecording ==
  /\ Recorder("free", IF ingest = NoTake THEN "end" ELSE "join")
  /\ stopped' = stopped \cup ({ingest} \ {NoTake})
  /\ UNCHANGED <<device, preview, client, escaped, ingest, filming, takes, began, tick, left, late,
                 shot, session, sessions, last>>

\* Mutant: stop() leaves the ingest ready to be started again.
EventsCleared == stopped \ {ingest}

\* The stop event stays set, whether or not the thread has ended.
EventsAfterJoin == stopped

\* Thread.join, which gives up after two intervals: a frame is extracted and inferred for longer.
Join ==
  /\ Recorder("join", "end")
  /\ tick[ingest].pc # "wait"
  /\ left' = IF tick[ingest].pc = "off" THEN left ELSE left \cup {ingest}
  /\ stopped' = EventsAfterJoin /\ ingest' = NoTake
  /\ UNCHANGED <<device, preview, client, escaped, filming, takes, began, tick, late,
                 shot, session, sessions, last>>

EndRecording ==
  /\ Recorder("end", "free")
  /\ device' = Freed("recording") /\ filming' = NoTake /\ began' = NoSession
  /\ UNCHANGED <<preview, client, escaped, ingest, takes, tick, stopped, left, late,
                 shot, session, sessions, last>>

Record == Release \/ Settle \/ LaunchCamera \/ CheckAlive \/ Join \/ EndRecording

-----------------------------------------------------------------------------
(* RecordingAiIngest._run_loop and _tick.                                  *)

Tick(r, from, new) == tick[r].pc = from /\ tick' = [tick EXCEPT ![r] = new]
Row(d, sid) == [foreign |-> d.cap \notin {sid, Unsure}, first |-> d.first]

\* The stop event ends the wait and the loop.
EndLoop(r) ==
  /\ r \in stopped /\ Tick(r, "wait", Detecting("off"))
  /\ UNCHANGED <<camera, ingest, filming, takes, began, stopped, left, late, shot, session, sessions, last>>

\* The last second of the file: of a recording that goes on it is now.
LastFrame(r) == Looking("infer", IF filming = r THEN session ELSE Unsure, FALSE)

\* When that cannot be read: the first frame, of when the camera was launched.
FirstFrame(r) ==
  IF filming = r THEN Looking("infer", began, began # session) ELSE LastFrame(r)

ExtractFrame(r) ==
  /\ r \notin stopped
  /\ \E frame \in {LastFrame(r), FirstFrame(r)} : Tick(r, "wait", frame)
  /\ UNCHANGED <<camera, ingest, filming, takes, began, stopped, left, late, shot, session, sessions, last>>

\* Mutant: the session that was started last, though it may have ended.
SessionStartedLast == sessions

\* _get_session_id, and the request's own look: session_ref[0] as it is now.
SessionNow == session

\* The inference fails or finds nothing; or the session is read, and there is none; or rows follow.
Inferred(r) ==
  /\ \E pc \in {"wait", "store"} :
       Tick(r, "infer", IF pc = "store" /\ SessionNow # NoSession
                        THEN [tick[r] EXCEPT !.pc = "store", !.sid = SessionNow] ELSE Detecting("wait"))
  /\ UNCHANGED <<camera, ingest, filming, takes, began, stopped, left, late, shot, session, sessions, last>>

\* _persist_detections: the labels above the threshold that this ingest has not stored for 30 s.
Persist(r) ==
  /\ Tick(r, "store", Detecting("wait"))
  /\ last' = Row(tick[r], tick[r].sid)
  /\ late' = late \cup ({r} \cap left)
  /\ UNCHANGED <<camera, ingest, filming, takes, began, stopped, left, shot, session, sessions>>

-----------------------------------------------------------------------------
(* POST /ai/detect.                                                        *)

Shot(from, new) == shot.pc = from /\ shot' = new

AskDetection ==
  /\ NotRecording /\ Shot("idle", Detecting("aim"))
  /\ UNCHANGED <<camera, threads, session, sessions, last>>

\* capture_still: the tool fails at once on a busy device.
Capture ==
  /\ Shot("aim", IF device = Nobody THEN Looking("capture", session, FALSE) ELSE Detecting("idle"))
  /\ device' = Taken("shot")
  /\ UNCHANGED <<preview, client, recorder, escaped, threads, session, sessions, last>>

Captured ==
  /\ Shot("capture", [shot EXCEPT !.pc = "infer"])
  /\ device' = Freed("shot")
  /\ UNCHANGED <<preview, client, recorder, escaped, threads, session, sessions, last>>

\* The session is read when the inference has ended.
Detected ==
  /\ \E pc \in {"idle", "rows"} :
       Shot("infer", IF pc = "rows" THEN [shot EXCEPT !.pc = "rows", !.sid = SessionNow] ELSE Detecting("idle"))
  /\ UNCHANGED <<camera, threads, session, sessions, last>>

\* One row per detection, for the session read before.
StoreDetections ==
  /\ Shot("rows", [shot EXCEPT !.pc = "event"])
  /\ last' = IF shot.sid # NoSession THEN Row(shot, shot.sid) ELSE last
  /\ UNCHANGED <<camera, threads, session, sessions>>

\* The event of a person is for the session there is now.
StoreEvent ==
  /\ Shot("event", Detecting("idle"))
  /\ \/ UNCHANGED last
     \/ SessionNow # NoSession /\ last' = Row(shot, SessionNow)
  /\ UNCHANGED <<camera, threads, session, sessions>>

-----------------------------------------------------------------------------
\* A session starts or ends: whoever is at work does not notice.
Moved(d) ==
  IF d.pc \in {"capture", "infer", "store", "rows", "event"} THEN [d EXCEPT !.cap = Unsure, !.first = FALSE] ELSE d

ChangeSession ==
  /\ IF session = NoSession
     THEN sessions < MaxSessions /\ sessions' = sessions + 1 /\ session' = sessions + 1
     ELSE session' = NoSession /\ UNCHANGED sessions
  /\ tick' = [r \in Takes |-> Moved(tick[r])] /\ shot' = Moved(shot)
  /\ UNCHANGED <<camera, ingest, filming, takes, began, stopped, left, late, last>>

Stream(c) ==
  Launch(c) \/ FallBack(c) \/ Register(c) \/ Unregister(c) \/ NextStill(c) \/ CaptureFrame(c) \/ FrameTaken(c)

Ingest(r) == EndLoop(r) \/ ExtractFrame(r) \/ Inferred(r) \/ Persist(r)

OneShot == Capture \/ Captured \/ Detected \/ StoreDetections \/ StoreEvent

Next ==
  \/ \E c \in Clients : Admit(c) \/ Stream(c) \/ EndStream(c)
  \/ StartRecording \/ StopRecording \/ Record \/ CameraExits
  \/ \E r \in Takes : Ingest(r)
  \/ AskDetection \/ OneShot
  \/ ChangeSession

Spec == Init /\ [][Next]_vars

-----------------------------------------------------------------------------
\* The device's holder is one that is at a point where its process may live; a take is filmed
\* only while the recording has the device.
TypeOK ==
  /\ preview \in Clients \cup {Nobody} /\ escaped \subseteq Clients
  /\ client \in [Clients -> {"idle", "admitted", "launched", "stream", "closed", "still", "aim", "taking"}]
  /\ recorder \in {"free", "release", "settle", "launch", "alive", "join", "end"}
  /\ tick \in [Takes -> [pc : {"off", "wait", "infer", "store"},
                         cap : 0..Unsure, sid : 0..MaxSessions, first : BOOLEAN]]
  /\ shot \in [pc : {"idle", "aim", "capture", "infer", "rows", "event"},
               cap : 0..Unsure, sid : 0..MaxSessions, first : BOOLEAN]
  /\ session \in 0..MaxSessions /\ sessions \in 0..MaxSessions /\ began \in 0..MaxSessions
  /\ last \in [foreign : BOOLEAN, first : BOOLEAN]
  /\ \/ device = Nobody
     \/ device = "recording" /\ recorder \in {"free", "alive", "join", "end"}
     \/ device = "shot" /\ shot.pc = "capture"
     \/ device \in Clients /\ client[device] \in {"launched", "stream", "taking"}
  /\ takes \in 0..MaxTakes /\ filming \in 0..takes
  /\ filming # NoTake => device = "recording"
  /\ ingest \in 0..takes /\ late \subseteq left /\ left \subseteq stopped /\ stopped \subseteq 1..takes

\* When a recording launches its camera, another process has the device only in the ways known: a
\* still or a one-shot under way, or a preview that was not registered yet or whose registration a
\* later one replaced (start_recording, release_camera_for_recording, _active_preview_process).
CameraHeldCauses ==
  recorder \in {"settle", "launch"} =>
    \/ device \in {Nobody, "shot"} \cup escaped
    \/ device \in Clients /\ At(device, "taking")

\* A detection is stored for the session of its frame, unless the session changed under the
\* inference, the camera had died and the ingest looked at an old frame, or it looked at the first
\* frame of a recording that was begun before the session (_tick, _extract_latest_frame,
\* post_ai_detect).
DetectionsOfTheirSession == last.foreign => last.first

\* An ingest that was told to stop stores the rows of the tick under way and no more, though stop()
\* gives up on it and the next recording starts another (RecordingAiIngest.stop, start, _run_loop).
OneTickAfterStop == \A r \in late : tick[r].pc \in {"wait", "off"}
===============================================================================
