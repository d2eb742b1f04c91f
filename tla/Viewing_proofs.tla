---------------------------- MODULE Viewing_proofs ----------------------------
(***************************************************************************)
(* Proofs about those who look through the camera.                         *)
(*                                                                         *)
(* CameraUse, for any viewers and any number of takes and sessions: who    *)
(* may hold the camera that a recording wants, and for whom detections are *)
(* stored.                                                                 *)
(*                                                                         *)
(* RecordingStream, for any clients, any queue and any number of frames:   *)
(* the order of the frames that clients are sent.                          *)
(***************************************************************************)
EXTENDS CameraUse, RecordingStream, TLAPS

-----------------------------------------------------------------------------
(* CameraUse.                                                              *)

\* A stream that holds the camera is the preview a release knows, or has escaped it; once a release
\* has been done, every process that is launched has escaped it.
Previews ==
  /\ \A c \in Clients : device = c /\ client[c] = "stream" => preview = c \/ c \in escaped
  /\ recorder \in {"settle", "launch"} => \A c \in Clients : client[c] = "launched" => c \in escaped

\* A frame under inference is of the session there is, or unsure, or the first of a file begun in
\* another session; rows about to be stored are for the session of the frame, but for the last case.
OfSession(d) ==
  /\ d.pc \in {"capture", "infer", "store", "rows", "event"} => d.cap \in {session, Unsure} \/ d.first
  /\ d.pc \in {"store", "rows"} => d.cap \in {d.sid, Unsure} \/ d.first

InSession == OfSession(shot) /\ \A r \in Takes : OfSession(tick[r])

\* The threads of the takes to come have not started, the one that is being joined has been told to
\* end, and those that were left behind and have stored since are at their last wait.
Ended ==
  /\ \A r \in Takes : r > takes => tick[r].pc = "off"
  /\ recorder = "join" => ingest \in stopped
  /\ OneTickAfterStop

IInv ==
  /\ TypeOK /\ Previews /\ CameraHeldCauses /\ InSession /\ Ended /\ DetectionsOfTheirSession
-----------------------------------------------------------------------------
\* The types of who is at the camera, and of the threads and the one-shot detection.
CameraTypes ==
  /\ preview \in Clients \cup {Nobody} /\ escaped \subseteq Clients
  /\ client \in [Clients -> {"idle", "admitted", "launched", "stream", "closed", "still", "aim", "taking"}]
  /\ recorder \in {"free", "release", "settle", "launch", "alive", "join", "end"}
  /\ \/ device = Nobody
     \/ device = "recording" /\ recorder \in {"free", "alive", "join", "end"}
     \/ device = "shot" /\ shot.pc = "capture"
     \/ device \in Clients /\ client[device] \in {"launched", "stream", "taking"}
  /\ filming # NoTake => device = "recording"

Detections(pcs) == [pc : pcs, cap : 0..Unsure, sid : 0..MaxSessions, first : BOOLEAN]

Rows == [foreign : BOOLEAN, first : BOOLEAN]

ThreadTypes ==
  /\ tick \in [Takes -> Detections({"off", "wait", "infer", "store"})]
  /\ shot \in Detections({"idle", "aim", "capture", "infer", "rows", "event"})
  /\ session \in 0..MaxSessions /\ sessions \in 0..MaxSessions /\ began \in 0..MaxSessions
  /\ last \in Rows
  /\ takes \in 0..MaxTakes /\ filming \in 0..takes
  /\ ingest \in 0..takes /\ late \subseteq left /\ left \subseteq stopped /\ stopped \subseteq 1..takes

\* The type invariant, in these two parts.
LEMMA Types == TypeOK <=> CameraTypes /\ ThreadTypes
BY DEF TypeOK, CameraTypes, ThreadTypes, Detections, Rows

\* A detection whose session changes is as far as it was, and unsure if it has a frame.
LEMMA MovedTyped ==
  ASSUME NEW pcs, NEW d \in Detections(pcs)
  PROVE  /\ Moved(d) \in Detections(pcs) /\ Moved(d).pc = d.pc
         /\ d.pc \in {"capture", "infer", "store", "rows", "event"} => Moved(d).cap = Unsure
<1>1. Unsure \in 0..Unsure
  BY BoundsAssumption DEF Unsure
<1>2. /\ d.pc \in pcs /\ d.cap \in 0..Unsure /\ d.sid \in 0..MaxSessions /\ d.first \in BOOLEAN
      /\ d = [pc |-> d.pc, cap |-> d.cap, sid |-> d.sid, first |-> d.first]
  BY DEF Detections
<1>3. Moved(d) \in {d, [pc |-> d.pc, cap |-> Unsure, sid |-> d.sid, first |-> FALSE]}
  BY <1>2 DEF Moved
<1> QED
  BY <1>1, <1>2, <1>3 DEF Detections, Moved

\* A detection that has its frame.
LEMMA LookingTyped ==
  ASSUME NEW pc, NEW cap \in 0..Unsure, NEW first \in BOOLEAN, NEW pcs, pc \in pcs
  PROVE  /\ Looking(pc, cap, first) \in Detections(pcs) /\ Looking(pc, cap, first).pc = pc
         /\ Looking(pc, cap, first).cap = cap /\ Looking(pc, cap, first).first = first
BY BoundsAssumption DEF Looking, Detections, NoSession

Who == CameraTypes /\ Previews /\ CameraHeldCauses

\* Whoever takes and leaves the camera, a recording that wants it finds only those expected.
LEMMA CameraSteps == ASSUME IInv, [Next]_vars PROVE Who'
<1> USE NamesAssumption DEF Who, CameraTypes, Previews, CameraHeldCauses, Nobody, NoTake, Taken,
   Freed, At, Goto, Recorder, NotRecording, camera, threads
<1>1. Who /\ shot.pc \in {"idle", "aim", "capture", "infer", "rows", "event"}
  BY Types DEF IInv, ThreadTypes, Detections
<1>2. ASSUME NEW c \in Clients, Admit(c) PROVE Who'
  BY <1>1, <1>2 DEF Admit
<1>3. ASSUME NEW c \in Clients, Launch(c) PROVE Who'
  BY <1>1, <1>3 DEF Launch
<1>4. ASSUME NEW c \in Clients, FallBack(c) PROVE Who'
  BY <1>1, <1>4 DEF FallBack
<1>5. ASSUME NEW c \in Clients, Register(c) PROVE Who'
  BY <1>1, <1>5 DEF Register
<1>6. ASSUME NEW c \in Clients, Unregister(c) PROVE Who'
  BY <1>1, <1>6 DEF Unregister, Unregistered
<1>7. ASSUME NEW c \in Clients, NextStill(c) PROVE Who'
  BY <1>1, <1>7 DEF NextStill, StillLoop, IsRecording
<1>8. ASSUME NEW c \in Clients, CaptureFrame(c) PROVE Who'
  BY <1>1, <1>8 DEF CaptureFrame
<1>9. ASSUME NEW c \in Clients, FrameTaken(c) PROVE Who'
  BY <1>1, <1>9 DEF FrameTaken
<1>10. ASSUME NEW c \in Clients, EndStream(c) PROVE Who'
  BY <1>1, <1>10 DEF EndStream
<1>11. CASE StartRecording
  BY <1>1, <1>11 DEF StartRecording
<1>12. CASE StopRecording
  BY <1>1, <1>12 DEF StopRecording
<1>13. CASE Release
  BY <1>1, <1>13 DEF Release, Released
<1>14. CASE Settle
  BY <1>1, <1>14 DEF Settle
<1>15. CASE LaunchCamera
  BY <1>1, <1>15 DEF LaunchCamera
<1>16. CASE CheckAlive
  BY <1>1, <1>16 DEF CheckAlive
<1>17. CASE Join
  BY <1>1, <1>17 DEF Join
<1>18. CASE EndRecording
  BY <1>1, <1>18 DEF EndRecording
<1>19. CASE CameraExits
  BY <1>1, <1>19 DEF CameraExits
<1>20. CASE \E r \in Takes : Ingest(r)
  BY <1>1, <1>20 DEF Ingest, EndLoop, ExtractFrame, Inferred, Persist, Tick
<1>21. CASE AskDetection
  BY <1>1, <1>21 DEF AskDetection, Shot, Detecting, Looking
<1>22. CASE Capture
  BY <1>1, <1>22 DEF Capture, Shot, Detecting, Looking
<1>23. CASE Captured
  BY <1>1, <1>23 DEF Captured, Shot, Detecting, Looking
<1>24. CASE Detected
  BY <1>1, <1>24 DEF Detected, Shot, Detecting, Looking
<1>25. CASE StoreDetections
  BY <1>1, <1>25 DEF StoreDetections, Shot, Detecting, Looking
<1>26. CASE StoreEvent
  BY <1>1, <1>26 DEF StoreEvent, Shot, Detecting, Looking
<1>27. CASE ChangeSession
  <2>1. shot \in Detections({"idle", "aim", "capture", "infer", "rows", "event"})
    BY Types DEF IInv, ThreadTypes
  <2>2. shot'.pc = shot.pc
    BY <1>27, <2>1, MovedTyped DEF ChangeSession
  <2> QED
    BY <1>1, <1>27, <2>2 DEF ChangeSession
<1>28. CASE UNCHANGED vars
  BY <1>1, <1>28 DEF vars
<1> QED
  BY <1>2, <1>3, <1>4, <1>5, <1>6, <1>7, <1>8, <1>9, <1>10, <1>11, <1>12, <1>13, <1>14, <1>15,
     <1>16, <1>17, <1>18, <1>19, <1>20, <1>21, <1>22, <1>23, <1>24, <1>25, <1>26, <1>27, <1>28
     DEF Next, Stream, Record, OneShot

\* Detections, whatever becomes of their session, are stored for the one of their frame; threads
\* that were left behind store once more at most.
Stored == ThreadTypes /\ InSession /\ Ended /\ DetectionsOfTheirSession

\* A row is of the session of its frame, or of a first frame of another.
LEMMA RowTyped ==
  ASSUME NEW pcs, NEW d \in Detections(pcs), NEW sid, d.cap \in {sid, Unsure} \/ d.first
  PROVE  Row(d, sid) \in Rows /\ (Row(d, sid).foreign => Row(d, sid).first)
<1>1. d.first \in BOOLEAN
  BY DEF Detections
<1>2. Row(d, sid).foreign = (d.cap \notin {sid, Unsure}) /\ Row(d, sid).first = d.first
  BY DEF Row
<1>3. Row(d, sid) \in Rows
  BY <1>1 DEF Row, Rows
<1> QED
  BY <1>2, <1>3

\* A thread that runs goes on to a detection of the session of its frame; one that was left behind
\* and has stored since goes on to wait or to end.
LEMMA Tock ==
  ASSUME Stored, NEW r \in Takes, tick[r].pc # "off",
         NEW d \in Detections({"off", "wait", "infer", "store"}), OfSession(d),
         tick' = [tick EXCEPT ![r] = d],
         UNCHANGED <<recorder, ingest, filming, takes, began, stopped, left, shot, session, sessions>>,
         late' = late \/ late' = late \cup ({r} \cap left),
         r \in late' => d.pc \in {"wait", "off"},
         last' \in Rows, last'.foreign => last'.first
  PROVE  Stored'
<1>1. /\ tick' \in [Takes -> Detections({"off", "wait", "infer", "store"})]
      /\ \A q \in Takes : tick'[q] = IF q = r THEN d ELSE tick[q]
  BY DEF Stored, ThreadTypes
<1>2. ThreadTypes'
  BY <1>1 DEF Stored, ThreadTypes
<1>3. (Ended /\ DetectionsOfTheirSession)'
  <2>1. r <= takes
    BY BoundsAssumption DEF Stored, Ended, ThreadTypes, Takes
  <2>2. \A q \in late : q \in Takes
    BY BoundsAssumption DEF Stored, ThreadTypes, Takes
  <2>3. OneTickAfterStop'
    BY <1>1, <2>2 DEF Stored, Ended, OneTickAfterStop
  <2> QED
    BY <1>1, <2>1, <2>3 DEF Stored, Ended, DetectionsOfTheirSession
<1>4. InSession'
  BY <1>1 DEF Stored, InSession, OfSession
<1> QED
  BY <1>2, <1>3, <1>4 DEF Stored

\* Whatever a thread, the one-shot detection or a session does, this stays so.
LEMMA ThreadSteps == ASSUME IInv, [Next]_vars PROVE Stored'
<1> USE BoundsAssumption DEF Stored, ThreadTypes, InSession, OfSession, Ended,
   DetectionsOfTheirSession, OneTickAfterStop, Rows, Takes, Nobody, NoTake, NoSession, Unsure,
   Goto, Recorder, camera, threads
<1>1. Stored
  BY Types DEF IInv
<1>2. CASE \E c \in Clients : Admit(c) \/ Stream(c) \/ EndStream(c)
  BY <1>1, <1>2 DEF Stream, Admit, Launch, FallBack, Register, Unregister, NextStill,
     CaptureFrame, FrameTaken, EndStream
<1>3. CASE StartRecording \/ Release \/ Settle \/ LaunchCamera \/ EndRecording \/ CameraExits
  <2>1. /\ UNCHANGED <<ingest, takes, tick, stopped, left, late, shot, session, sessions, last>>
        /\ filming' \in {filming, NoTake} /\ began' \in {began, session, NoSession}
        /\ recorder' = recorder \/ recorder' # "join"
    BY <1>3 DEF StartRecording, Release, Settle, LaunchCamera, EndRecording, CameraExits
  <2> QED
    BY <1>1, <2>1
<1>4. CASE StopRecording
  BY <1>1, <1>4 DEF StopRecording
<1>5. CASE CheckAlive
  <2>1. CASE UNCHANGED <<ingest, filming, takes, tick, stopped, left, late>>
    BY <1>1, <1>5, <2>1 DEF CheckAlive
  <2>2. CASE takes' = takes + 1
    <3>1. /\ takes < MaxTakes /\ takes + 1 \in Takes /\ ingest' = takes + 1 /\ filming' = takes + 1
          /\ tick' = [tick EXCEPT ![takes + 1] = Detecting("wait")] /\ recorder' = "free"
          /\ UNCHANGED <<began, stopped, left, late, shot, session, sessions, last>>
      BY <1>1, <1>5, <2>2 DEF CheckAlive
    <3>2. Detecting("wait") \in Detections({"off", "wait", "infer", "store"})
      BY DEF Detecting, Looking, Detections
    <3>3. tick' \in [Takes -> Detections({"off", "wait", "infer", "store"})]
      BY <1>1, <3>1, <3>2
    <3>4. \A r \in Takes : tick'[r] = IF r = takes + 1 THEN Detecting("wait") ELSE tick[r]
      BY <1>1, <3>1
    <3> QED
      BY <1>1, <2>2, <3>1, <3>3, <3>4 DEF Detecting, Looking
  <2> QED
    BY <1>5, <2>1, <2>2 DEF CheckAlive
<1>6. CASE Join
  <2>1. /\ UNCHANGED <<filming, takes, began, tick, stopped, late, shot, session, sessions, last>>
        /\ recorder = "join" /\ recorder' = "end" /\ ingest' = NoTake
        /\ left' \in {left, left \cup {ingest}}
    BY <1>6 DEF Join, EventsAfterJoin
  <2>2. late' \subseteq left' /\ left' \subseteq stopped'
    BY <1>1, <2>1
  <2> QED
    BY <1>1, <2>1, <2>2
<1> DEFINE Ticks == Detections({"off", "wait", "infer", "store"})
<1>7. ASSUME NEW r \in Takes, EndLoop(r) PROVE Stored'
  <2>1. Detecting("off") \in Ticks /\ OfSession(Detecting("off")) /\ Detecting("off").pc = "off"
    BY DEF Detecting, Looking, Detections
  <2> QED
    BY <1>1, <1>7, <2>1, Tock DEF EndLoop, Tick
<1>8. ASSUME NEW r \in Takes, ExtractFrame(r) PROVE Stored'
  <2>1. PICK d \in {LastFrame(r), FirstFrame(r)} : tick' = [tick EXCEPT ![r] = d]
    BY <1>8 DEF ExtractFrame, Tick
  <2>2. session \in 0..Unsure /\ began \in 0..Unsure /\ Unsure \in 0..Unsure
    BY <1>1
  <2>3. PICK cap \in {session, began, Unsure}, first \in BOOLEAN :
          d = Looking("infer", cap, first) /\ (cap \in {session, Unsure} \/ first)
    <3>1. (began # session) \in BOOLEAN
      OBVIOUS
    <3> QED
      BY <2>1, <3>1 DEF LastFrame, FirstFrame
  <2>4. /\ d \in Ticks /\ d.pc = "infer" /\ d.cap = cap /\ d.first = first
    <3>1. cap \in 0..Unsure /\ "infer" \in {"off", "wait", "infer", "store"}
      BY <2>2, <2>3
    <3> QED
      BY ONLY <2>3, <3>1, LookingTyped
  <2>5. OfSession(d)
    BY <2>3, <2>4
  <2>6. r \notin late
    BY <1>1, <1>8 DEF ExtractFrame
  <2> QED
    BY <1>1, <1>8, <2>1, <2>4, <2>5, <2>6, Tock DEF ExtractFrame, Tick
<1>9. ASSUME NEW r \in Takes, Inferred(r) PROVE Stored'
  <2>1. PICK d \in {Detecting("wait"), [tick[r] EXCEPT !.pc = "store", !.sid = session]} :
          tick' = [tick EXCEPT ![r] = d]
    BY <1>9 DEF Inferred, Tick, SessionNow
  <2>2. tick[r] \in Ticks /\ tick[r].pc = "infer" /\ (tick[r].cap \in {session, Unsure} \/ tick[r].first)
    BY <1>1, <1>9 DEF Inferred, Tick
  <2>3. Detecting("wait") \in Ticks /\ OfSession(Detecting("wait"))
    BY DEF Detecting, Looking, Detections
  <2>4. /\ [tick[r] EXCEPT !.pc = "store", !.sid = session] \in Ticks
        /\ OfSession([tick[r] EXCEPT !.pc = "store", !.sid = session])
    BY <1>1, <2>2 DEF Detections
  <2>5. d \in Ticks /\ OfSession(d)
    BY <2>1, <2>3, <2>4
  <2>6. r \notin late
    BY <1>1, <2>2
  <2> QED
    BY <1>1, <1>9, <2>1, <2>2, <2>5, <2>6, Tock DEF Inferred
<1>10. ASSUME NEW r \in Takes, Persist(r) PROVE Stored'
  <2>1. /\ Detecting("wait") \in Ticks /\ OfSession(Detecting("wait"))
        /\ Detecting("wait").pc = "wait"
    BY DEF Detecting, Looking, Detections
  <2>2. tick[r] \in Ticks /\ tick[r].pc = "store"
    BY <1>1, <1>10 DEF Persist, Tick
  <2>3. tick[r].cap \in {tick[r].sid, Unsure} \/ tick[r].first
    BY <1>1, <2>2
  <2>4. last' = Row(tick[r], tick[r].sid)
    BY <1>10 DEF Persist
  <2>5. last' \in Rows /\ (last'.foreign => last'.first)
    BY ONLY <2>2, <2>3, <2>4, RowTyped
  <2>6. /\ tick' = [tick EXCEPT ![r] = Detecting("wait")] /\ late' = late \cup ({r} \cap left)
        /\ UNCHANGED <<recorder, ingest, filming, takes, began, stopped, left, shot, session, sessions>>
    BY <1>10 DEF Persist, Tick
  <2> QED
    BY ONLY <1>1, <2>1, <2>2, <2>5, <2>6, Tock
<1>11. CASE AskDetection
  BY <1>1, <1>11 DEF AskDetection, Shot, Detecting, Looking, Detections
<1>12. CASE Capture
  <2>1. Detecting("idle") \in Detections({"idle", "aim", "capture", "infer", "rows", "event"})
    BY DEF Detecting, Looking, Detections
  <2>2. shot' \in {Detecting("idle"), Looking("capture", session, FALSE)}
    BY <1>12 DEF Capture, Shot
  <2>3. /\ Looking("capture", session, FALSE) \in Detections({"idle", "aim", "capture", "infer", "rows", "event"})
        /\ Looking("capture", session, FALSE).pc = "capture" /\ Looking("capture", session, FALSE).cap = session
    <3>1. session \in 0..Unsure /\ "capture" \in {"idle", "aim", "capture", "infer", "rows", "event"}
      BY <1>1
    <3> QED
      BY ONLY <3>1, LookingTyped
  <2>4. shot' \in Detections({"idle", "aim", "capture", "infer", "rows", "event"}) /\ OfSession(shot)'
    <3>1. Detecting("idle").pc = "idle"
      BY DEF Detecting, Looking
    <3>2. CASE shot' = Looking("capture", session, FALSE)
      BY <1>12, <2>3, <3>2 DEF Capture
    <3> QED
      BY <2>1, <2>2, <3>1, <3>2
  <2> QED
    BY <1>1, <1>12, <2>4 DEF Capture
<1>13. CASE Captured
  BY <1>1, <1>13 DEF Captured, Shot, Detecting, Looking, Detections
<1>14. CASE Detected
  <2> DEFINE Shots == Detections({"idle", "aim", "capture", "infer", "rows", "event"})
  <2>1. shot \in Shots /\ shot.pc = "infer" /\ (shot.cap \in {session, Unsure} \/ shot.first)
    BY <1>1, <1>14 DEF Detected, Shot
  <2>2. shot' \in {Detecting("idle"), [shot EXCEPT !.pc = "rows", !.sid = session]}
    BY <1>14 DEF Detected, Shot, SessionNow
  <2>3. Detecting("idle") \in Shots /\ OfSession(Detecting("idle"))
    BY DEF Detecting, Looking, Detections
  <2>4. /\ [shot EXCEPT !.pc = "rows", !.sid = session] \in Shots
        /\ OfSession([shot EXCEPT !.pc = "rows", !.sid = session])
    BY <1>1, <2>1 DEF Detections
  <2>5. UNCHANGED <<camera, threads, session, sessions, last>>
    BY <1>14 DEF Detected
  <2> QED
    BY <1>1, <2>2, <2>3, <2>4, <2>5
<1>15. CASE StoreDetections
  <2>1. /\ shot.pc = "rows" /\ shot' = [shot EXCEPT !.pc = "event"]
        /\ UNCHANGED <<camera, threads, session, sessions>>
        /\ last' \in {last, Row(shot, shot.sid)}
    BY <1>15 DEF StoreDetections, Shot
  <2>2. shot' \in Detections({"idle", "aim", "capture", "infer", "rows", "event"}) /\ OfSession(shot)'
    BY <1>1, <2>1 DEF Detections
  <2>3. /\ shot \in Detections({"idle", "aim", "capture", "infer", "rows", "event"})
        /\ shot.cap \in {shot.sid, Unsure} \/ shot.first
    BY <1>1, <2>1
  <2>4. last' \in Rows /\ (last'.foreign => last'.first)
    BY <1>1, <2>1, <2>3, RowTyped
  <2> QED
    BY <1>1, <2>1, <2>2, <2>4
<1>16. CASE StoreEvent
  <2>1. /\ shot.pc = "event" /\ shot' = Detecting("idle")
        /\ UNCHANGED <<camera, threads, session, sessions>>
        /\ last' \in {last, Row(shot, session)}
    BY <1>16 DEF StoreEvent, Shot, SessionNow
  <2>2. shot' \in Detections({"idle", "aim", "capture", "infer", "rows", "event"}) /\ OfSession(shot)'
    BY <1>1, <2>1 DEF Detecting, Looking, Detections
  <2>3. /\ shot \in Detections({"idle", "aim", "capture", "infer", "rows", "event"})
        /\ shot.cap \in {session, Unsure} \/ shot.first
    BY <1>1, <2>1
  <2>4. last' \in Rows /\ (last'.foreign => last'.first)
    BY <1>1, <2>1, <2>3, RowTyped
  <2> QED
    BY <1>1, <2>1, <2>2, <2>4
<1>17. CASE ChangeSession
  <2>1. /\ session' \in 0..MaxSessions /\ sessions' \in 0..MaxSessions /\ shot' = Moved(shot)
        /\ tick' = [r \in Takes |-> Moved(tick[r])]
        /\ UNCHANGED <<camera, ingest, filming, takes, began, stopped, left, late, last>>
    BY <1>1, <1>17 DEF ChangeSession
  <2> DEFINE Shots == Detections({"idle", "aim", "capture", "infer", "rows", "event"})
             Carried(d) ==
               d.pc \in {"capture", "infer", "store", "rows", "event"} => Moved(d).cap = Unsure
  <2>2. Moved(shot) \in Shots /\ Moved(shot).pc = shot.pc /\ Carried(shot)
    <3>1. shot \in Shots
      BY <1>1
    <3> QED
      BY <3>1, MovedTyped
  <2>3. \A r \in Takes : Moved(tick[r]) \in Ticks /\ Moved(tick[r]).pc = tick[r].pc /\ Carried(tick[r])
    <3>1. \A r \in Takes : tick[r] \in Ticks
      BY <1>1
    <3> QED
      BY <3>1, MovedTyped
  <2>4. tick' \in [Takes -> Ticks] /\ \A r \in Takes : tick'[r] = Moved(tick[r])
    BY <2>1, <2>3
  <2> HIDE DEF Ticks, Shots
  <2>5. OfSession(shot)' /\ \A r \in Takes : OfSession(tick[r])'
    BY <2>1, <2>2, <2>3, <2>4
  <2>6. \A r \in Takes : tick'[r].pc = tick[r].pc
    BY <2>3, <2>4
  <2>7. \A r \in late : r \in Takes
    BY <1>1
  <2> USE DEF Ticks, Shots
  <2> QED
    BY <1>1, <2>1, <2>2, <2>4, <2>5, <2>6, <2>7
<1>18. CASE UNCHANGED vars
  BY <1>1, <1>18 DEF vars
<1> QED
  BY <1>2, <1>3, <1>4, <1>5, <1>6, <1>7, <1>8, <1>9, <1>10, <1>11, <1>12, <1>13, <1>14, <1>15,
     <1>16, <1>17, <1>18 DEF Next, Record, OneShot, Ingest

\* The invariant holds at first.
LEMMA Initially == Init => IInv
<1> SUFFICES ASSUME Init PROVE IInv
  OBVIOUS
<1>1. CameraTypes /\ Previews /\ CameraHeldCauses
  BY NamesAssumption DEF Init, CameraTypes, Previews, CameraHeldCauses, Nobody, NoTake
<1>2. ThreadTypes
  BY BoundsAssumption DEF Init, ThreadTypes, Detecting, Looking, Detections, Rows, Unsure, NoTake,
     NoSession
<1>3. InSession /\ Ended /\ DetectionsOfTheirSession
  BY DEF Init, InSession, OfSession, Ended, OneTickAfterStop, DetectionsOfTheirSession, Detecting,
     Looking
<1> QED
  BY <1>1, <1>2, <1>3, Types DEF IInv

\* Every step keeps it.
LEMMA Step == IInv /\ [Next]_vars => IInv'
<1> SUFFICES ASSUME IInv, [Next]_vars PROVE IInv'
  OBVIOUS
<1>1. Who' /\ Stored'
  BY CameraSteps, ThreadSteps
<1>2. TypeOK'
  BY <1>1 DEF Who, Stored, TypeOK, CameraTypes, ThreadTypes, Detections, Rows
<1> QED
  BY <1>1, <1>2 DEF Who, Stored, IInv

\* The inductive invariant is one.
THEOREM Inductive == Spec => []IInv
BY Initially, Step, PTL DEF Spec

\* Every variable has its type, and the device's holder is at a point where its process may live.
THEOREM TypeCorrect == Spec => []TypeOK
BY Inductive, PTL DEF IInv

\* A recording that launches its camera finds it held in the ways known only.
THEOREM HeldCauses == Spec => []CameraHeldCauses
BY Inductive, PTL DEF IInv

\* Detections are stored for the session of their frame, but for the cases known.
THEOREM SessionOfDetections == Spec => []DetectionsOfTheirSession
BY Inductive, PTL DEF IInv

\* An ingest that a stop gave up on stores the rows of one tick at most.
THEOREM LastTick == Spec => []OneTickAfterStop
BY Inductive, PTL DEF IInv, Ended

-----------------------------------------------------------------------------
(* RecordingStream: the inductive invariant.                               *)

\* The drain has a frame in hand that is to be put.
InHand == drain \in {"evict", "put", "evict_again", "put_again"}

\* Frames in the queue or shown are not later than the one taken last, and that one is neither
\* while it is in hand.
Gone(f) == f <= taken /\ (InHand => f < taken)

\* Of two frames in the queue the first is the older one, and nobody has been shown a later one
\* than any of them.
InOrder(q) ==
  /\ \A i \in DOMAIN q : q[i] # Sentinel => Gone(q[i]) /\ \A v \in Viewers : shown[v] < q[i]
  /\ \A i, k \in DOMAIN q : i < k /\ q[i] # Sentinel /\ q[k] # Sentinel => q[i] < q[k]

StreamInv == StreamTypeOK /\ InOrder(queue) /\ \A v \in Viewers : Gone(shown[v])

-----------------------------------------------------------------------------
(* RecordingStream: the steps.                                             *)

Items == Frames \cup {Sentinel}

\* An item is put: the others keep their places.
LEMMA PutLast ==
  ASSUME NEW q \in Seq(Items), NEW item \in Items
  PROVE  /\ Append(q, item) \in Seq(Items) /\ Len(Append(q, item)) = Len(q) + 1 /\ Len(q) \in Nat
         /\ DOMAIN q = 1..Len(q) /\ DOMAIN Append(q, item) = 1..(Len(q) + 1)
         /\ Append(q, item)[Len(q) + 1] = item
         /\ \A i \in 1..Len(q) : Append(q, item)[i] = q[i]
OBVIOUS

\* The head is taken: the others move up.
LEMMA TakeFirst ==
  ASSUME NEW q \in Seq(Items), q # <<>>
  PROVE  /\ Head(q) = q[1] /\ Head(q) \in Items /\ Tail(q) \in Seq(Items)
         /\ Len(q) \in Nat /\ Len(q) >= 1 /\ Len(Tail(q)) = Len(q) - 1
         /\ DOMAIN q = 1..Len(q) /\ DOMAIN Tail(q) = 1..(Len(q) - 1)
         /\ \A i \in 1..(Len(q) - 1) : Tail(q)[i] = q[i + 1]
OBVIOUS

\* The invariant holds at first.
LEMMA StreamInitInv == StreamInit => StreamInv
<1> SUFFICES ASSUME StreamInit PROVE StreamInv
  OBVIOUS
<1>1. queue = <<>> /\ queue \in Seq(Items) /\ Len(queue) = 0 /\ DOMAIN queue = {}
  BY DEF StreamInit
<1>2. StreamTypeOK
  BY <1>1, QueueAssumption, FramesAssumption DEF StreamInit, StreamTypeOK, Items
<1>3. \A v \in Viewers : Gone(shown[v])
  <2>1. taken = 0 /\ drain = "starting" /\ \A v \in Viewers : shown[v] = 0
    BY DEF StreamInit
  <2>2. ~InHand
    BY <2>1 DEF InHand
  <2>3. ASSUME NEW v \in Viewers
        PROVE  shown[v] <= taken /\ (InHand => shown[v] < taken)
    <3>1. shown[v] = 0 /\ taken = 0
      BY <2>1
    <3> QED
      BY <2>2, <3>1
  <2> QED
    BY <2>3 DEF Gone
<1> QED
  BY <1>1, <1>2, <1>3 DEF StreamInv, InOrder

\* The queue's calls keep the order: taking the head, or putting the frame in hand or a sentinel.
LEMMA Taking ==
  ASSUME StreamInv, ~Empty
  PROVE  /\ Tail(queue) \in Seq(Items) /\ Len(Tail(queue)) <= QueueMax /\ InOrder(Tail(queue))
         /\ Head(queue) \in Items
         /\ Head(queue) # Sentinel =>
              /\ Gone(Head(queue)) /\ \A v \in Viewers : shown[v] < Head(queue)
              /\ \A i \in DOMAIN Tail(queue) : Tail(queue)[i] # Sentinel => Head(queue) < Tail(queue)[i]
<1>1. queue \in Seq(Items) /\ queue # <<>> /\ Len(queue) <= QueueMax /\ QueueMax \in Nat
  BY QueueAssumption DEF StreamInv, StreamTypeOK, Items, Empty
<1>2. /\ Head(queue) = queue[1] /\ Head(queue) \in Items /\ Tail(queue) \in Seq(Items)
      /\ Len(queue) \in Nat /\ Len(queue) >= 1 /\ Len(Tail(queue)) = Len(queue) - 1
      /\ DOMAIN queue = 1..Len(queue) /\ DOMAIN Tail(queue) = 1..(Len(queue) - 1)
      /\ \A i \in 1..(Len(queue) - 1) : Tail(queue)[i] = queue[i + 1]
  BY <1>1, TakeFirst
<1>3. \A i \in DOMAIN queue :
        queue[i] # Sentinel => Gone(queue[i]) /\ \A v \in Viewers : shown[v] < queue[i]
  BY DEF StreamInv, InOrder
<1>4. \A i, k \in DOMAIN queue : i < k /\ queue[i] # Sentinel /\ queue[k] # Sentinel => queue[i] < queue[k]
  BY DEF StreamInv, InOrder
<1>5. 1 \in DOMAIN queue
  BY <1>2
<1>6. \A i \in DOMAIN Tail(queue) : i + 1 \in DOMAIN queue /\ 1 < i + 1 /\ Tail(queue)[i] = queue[i + 1]
  BY <1>2
<1>7. InOrder(Tail(queue))
  <2>1. \A i, k \in DOMAIN Tail(queue) : i < k => i + 1 < k + 1
    BY <1>2
  <2> QED
    BY <1>3, <1>4, <1>6, <2>1 DEF InOrder
<1>8. Head(queue) # Sentinel =>
        /\ Gone(Head(queue)) /\ \A v \in Viewers : shown[v] < Head(queue)
        /\ \A i \in DOMAIN Tail(queue) : Tail(queue)[i] # Sentinel => Head(queue) < Tail(queue)[i]
  BY <1>2, <1>3, <1>4, <1>5, <1>6
<1> QED
  BY <1>1, <1>2, <1>7, <1>8

\* Frames that have gone stay gone as long as none is taken into hand.
LEMMA StaysGone ==
  ASSUME StreamTypeOK, taken' = taken, InHand' => InHand, NEW f \in Nat, Gone(f)
  PROVE  Gone(f)'
BY DEF Gone

\* A step after which the queue is what it was, or has lost its head, and nobody has been shown
\* anything, keeps the order.
LEMMA QuietOrder ==
  ASSUME StreamInv, taken' = taken, InHand' => InHand, shown' = shown,
         queue' = queue \/ (~Empty /\ queue' = Tail(queue))
  PROVE  /\ queue' \in Seq(Items) /\ Len(queue') <= QueueMax
         /\ InOrder(queue)' /\ \A v \in Viewers : Gone(shown[v])'
<1>1. /\ queue' \in Seq(Items) /\ Len(queue') <= QueueMax /\ InOrder(queue')
  BY Taking DEF StreamInv, StreamTypeOK, Items
<1>2. \A f : Gone(f) => Gone(f)'
  BY DEF Gone
<1> QED
  BY <1>1, <1>2 DEF StreamInv, InOrder

\* So does one that puts the frame in hand, or a sentinel.
LEMMA PutOrder ==
  ASSUME StreamInv, taken' = taken, shown' = shown, ~Full, NEW item \in Items,
         queue' = Append(queue, item), InHand' => InHand,
         item # Sentinel => item = taken /\ InHand /\ ~InHand'
  PROVE  /\ queue' \in Seq(Items) /\ Len(queue') <= QueueMax
         /\ InOrder(queue)' /\ \A v \in Viewers : Gone(shown[v])'
<1>1. /\ queue \in Seq(Items) /\ QueueMax \in Nat /\ taken \in Nat /\ shown \in [Viewers -> Nat]
      /\ Frames \subseteq Nat /\ Sentinel \in Nat
  BY QueueAssumption, FramesAssumption DEF StreamInv, StreamTypeOK, Items, Frames, Sentinel
<1>2. /\ queue' \in Seq(Items) /\ Len(queue') = Len(queue) + 1 /\ Len(queue) \in Nat
      /\ DOMAIN queue = 1..Len(queue) /\ DOMAIN queue' = 1..(Len(queue) + 1)
      /\ queue'[Len(queue) + 1] = item
      /\ \A i \in 1..Len(queue) : queue'[i] = queue[i]
  BY <1>1, PutLast
<1>3. Len(queue') <= QueueMax
  BY <1>1, <1>2 DEF Full
<1>4. \A f : Gone(f) => Gone(f)'
  BY DEF Gone
<1>5. /\ \A i \in 1..Len(queue) : queue[i] # Sentinel =>
           Gone(queue[i]) /\ \A v \in Viewers : shown[v] < queue[i]
      /\ \A i, k \in 1..Len(queue) :
           i < k /\ queue[i] # Sentinel /\ queue[k] # Sentinel => queue[i] < queue[k]
  BY <1>2 DEF StreamInv, InOrder
<1>6. item # Sentinel =>
        /\ Gone(item)' /\ \A v \in Viewers : shown[v] < item
        /\ \A i \in 1..Len(queue) : queue[i] # Sentinel => queue[i] < item
  BY <1>1, <1>5 DEF Gone, StreamInv
<1>7. ASSUME NEW i \in DOMAIN queue', queue'[i] # Sentinel
      PROVE  Gone(queue[i])' /\ \A v \in Viewers : shown'[v] < queue'[i]
  <2>1. CASE i = Len(queue) + 1
    BY <1>2, <1>6, <1>7, <2>1
  <2>2. CASE i \in 1..Len(queue)
    BY <1>2, <1>4, <1>5, <1>7, <2>2
  <2> QED
    BY <1>2, <2>1, <2>2
<1>8. ASSUME NEW i \in DOMAIN queue', NEW k \in DOMAIN queue', i < k, queue'[i] # Sentinel,
             queue'[k] # Sentinel
      PROVE  queue'[i] < queue'[k]
  <2>1. i \in 1..Len(queue)
    BY <1>2, <1>8
  <2>2. CASE k = Len(queue) + 1
    BY <1>2, <1>6, <1>8, <2>1, <2>2
  <2>3. CASE k \in 1..Len(queue)
    BY <1>2, <1>5, <1>8, <2>1, <2>3
  <2> QED
    BY <1>2, <2>2, <2>3
<1>9. InOrder(queue)'
  BY <1>7, <1>8 DEF InOrder
<1> QED
  BY <1>2, <1>3, <1>4, <1>9 DEF StreamInv

\* Every step keeps the invariant.
LEMMA StreamStep == StreamInv /\ [StreamNext]_streamVars => StreamInv'
<1> SUFFICES ASSUME StreamInv, [StreamNext]_streamVars PROVE StreamInv'
  OBVIOUS
<1> USE DEF StreamTypeOK, StreamInv
<1>0. /\ queue \in Seq(Items) /\ Len(queue) <= QueueMax /\ taken \in Nat /\ MaxFrames \in Nat
      /\ Sentinel \in Items /\ shown \in [Viewers -> 0..MaxFrames] /\ Items = Frames \cup {Sentinel}
  BY FramesAssumption DEF Items
<1>1. CASE MuxerWrites
  BY <1>0, <1>1, QuietOrder DEF MuxerWrites, InHand
<1>2. CASE MuxerExits
  BY <1>0, <1>2, QuietOrder DEF MuxerExits, InHand
<1>3. CASE DrainStarts
  BY <1>0, <1>3, QuietOrder DEF DrainStarts, Drain, InHand
<1>4. CASE DrainReads
  <2>1. taken' = taken + 1 /\ UNCHANGED <<queue, shown>>
    BY <1>4 DEF DrainReads, Drain
  <2>2. \A f : Gone(f) => f <= taken
    BY DEF Gone
  <2>3. \A f \in Nat : Gone(f) => Gone(f)'
    BY <1>0, <2>1, <2>2 DEF Gone
  <2>4. \A i \in DOMAIN queue : queue[i] \in Nat
    BY <1>0 DEF Frames, Sentinel
  <2>5. InOrder(queue)'
    BY <2>1, <2>3, <2>4 DEF InOrder
  <2>6. \A v \in Viewers : Gone(shown[v])'
    BY <1>0, <2>1, <2>3
  <2> QED
    BY <1>0, <1>4, <2>5, <2>6 DEF DrainReads, Drain
<1>5. CASE DrainAtEnd
  BY <1>0, <1>5, QuietOrder DEF DrainAtEnd, Drain, InHand
<1>6. CASE DrainEvicts
  BY <1>0, <1>6, QuietOrder DEF DrainEvicts, Drain, InHand, GetNowait
<1>7. CASE DrainPuts
  <2>1. CASE Full
    BY <1>0, <1>7, <2>1, QuietOrder DEF DrainPuts, Drain, InHand
  <2>2. CASE ~Full
    <3>1. taken \in Items
      BY <1>0 DEF Frames, Sentinel
    <3> QED
      BY <1>0, <1>7, <2>2, <3>1, PutOrder DEF DrainPuts, Drain, InHand, Put
  <2> QED
    BY <2>1, <2>2
<1>8. CASE DrainEvictsAgain
  BY <1>0, <1>8, QuietOrder DEF DrainEvictsAgain, Drain, InHand, GetNowait
<1>9. CASE DrainPutsAgain
  <2>1. CASE Full
    BY <1>0, <1>9, <2>1, QuietOrder DEF DrainPutsAgain, Drain, InHand
  <2>2. CASE ~Full
    <3>1. taken \in Items
      BY <1>0 DEF Frames, Sentinel
    <3> QED
      BY <1>0, <1>9, <2>2, <3>1, PutOrder DEF DrainPutsAgain, Drain, InHand, Put
  <2> QED
    BY <2>1, <2>2
<1>10. CASE DrainSignals
  BY <1>0, <1>10, PutOrder DEF DrainSignals, Drain, InHand, Put
<1>11. CASE StopBegins
  BY <1>0, <1>11, QuietOrder DEF StopBegins, Stop, InHand
<1>12. CASE StopLooks
  BY <1>0, <1>12, QuietOrder DEF StopLooks, Stop, InHand
<1>13. CASE StopEvicts
  BY <1>0, <1>13, QuietOrder DEF StopEvicts, Stop, InHand, GetNowait
<1>14. CASE StopSignals
  <2>1. CASE Full
    BY <1>0, <1>14, <2>1, QuietOrder DEF StopSignals, Stop, InHand
  <2>2. CASE ~Full
    BY <1>0, <1>14, <2>2, PutOrder DEF StopSignals, Stop, InHand, Put
  <2> QED
    BY <2>1, <2>2
<1>15. CASE StopJoins
  BY <1>0, <1>15, QuietOrder DEF StopJoins, Stop, InHand
<1>16. ASSUME NEW v \in Viewers, ViewerOpens(v) PROVE StreamInv'
  BY <1>0, <1>16, QuietOrder DEF ViewerOpens, Viewer, InHand
<1>17. ASSUME NEW v \in Viewers, ViewerBegins(v) PROVE StreamInv'
  BY <1>0, <1>17, QuietOrder DEF ViewerBegins, Viewer, InHand
<1>18. ASSUME NEW v \in Viewers, ViewerGets(v) PROVE StreamInv'
  <2>1. ~Empty /\ queue' = Tail(queue) /\ UNCHANGED <<taken, drain, muxer, written, stream, stop>>
    BY <1>18 DEF ViewerGets, Viewer, GetNowait
  <2>2. CASE Head(queue) = Sentinel
    BY <1>0, <1>18, <2>1, <2>2, QuietOrder DEF ViewerGets, Viewer, InHand
  <2>3. CASE Head(queue) # Sentinel
    <3>1. shown' = [shown EXCEPT ![v] = Head(queue)] /\ UNCHANGED viewer
      BY <1>18, <2>3 DEF ViewerGets
    <3>2. /\ queue' \in Seq(Items) /\ Len(queue') <= QueueMax /\ InOrder(queue') /\ Head(queue) \in Frames
          /\ Gone(Head(queue))
          /\ \A i \in DOMAIN queue' : queue'[i] # Sentinel => Head(queue) < queue'[i]
      BY <1>0, <2>1, <2>3, Taking
    <3>3. \A w \in Viewers : shown'[w] = IF w = v THEN Head(queue) ELSE shown[w]
      BY <1>0, <3>1
    <3>4. \A f : Gone(f)' <=> Gone(f)
      BY <2>1 DEF Gone, InHand
    <3>5. InOrder(queue)'
      BY <3>2, <3>3, <3>4 DEF InOrder
    <3>6. \A w \in Viewers : Gone(shown[w])'
      BY <3>2, <3>3, <3>4
    <3>7. shown' \in [Viewers -> 0..MaxFrames]
      BY <1>0, <3>1, <3>2 DEF Frames
    <3> QED
      BY <1>0, <2>1, <3>1, <3>2, <3>5, <3>6, <3>7
  <2> QED
    BY <2>2, <2>3
<1>19. ASSUME NEW v \in Viewers, ViewerTimesOut(v) PROVE StreamInv'
  BY <1>0, <1>19, QuietOrder DEF ViewerTimesOut, Viewer, InHand
<1>20. ASSUME NEW v \in Viewers, ViewerLeaves(v) PROVE StreamInv'
  BY <1>0, <1>20, QuietOrder DEF ViewerLeaves, Viewer, InHand
<1>21. CASE UNCHANGED streamVars
  BY <1>0, <1>21, QuietOrder DEF streamVars, InHand
<1> QED
  BY <1>1, <1>2, <1>3, <1>4, <1>5, <1>6, <1>7, <1>8, <1>9, <1>10, <1>11, <1>12, <1>13, <1>14,
     <1>15,
     <1>16, <1>17, <1>18, <1>19, <1>20, <1>21 DEF StreamNext, DrainStep, StopStep, ViewerStep

-----------------------------------------------------------------------------
(* RecordingStream: the theorems.                                          *)

\* The invariant holds in every state.
THEOREM StreamInductive == StreamSpec => []StreamInv
BY StreamInitInv, StreamStep, PTL DEF StreamSpec

\* Every variable has its type; the queue never has more than its maximum.
THEOREM StreamTypeCorrect == StreamSpec => []StreamTypeOK
BY StreamInductive, PTL DEF StreamInv

\* No client is sent an older frame after a newer one, for any number of clients and frames and any
\* length of the queue.
THEOREM FramesInOrder == StreamSpec => NeverBack
<1>1. StreamInv /\ [StreamNext]_streamVars
        => [\A v \in Viewers : shown'[v] # shown[v] => shown'[v] > shown[v]]_streamVars
  <2> SUFFICES ASSUME StreamInv, StreamNext, NEW v \in Viewers, shown'[v] # shown[v]
               PROVE  shown'[v] > shown[v]
    OBVIOUS
  <2>1. PICK w \in Viewers : ViewerGets(w)
    BY DEF StreamNext, MuxerWrites, MuxerExits, DrainStep, DrainStarts, DrainReads, DrainAtEnd,
       DrainEvicts, DrainPuts, DrainEvictsAgain, DrainPutsAgain, DrainSignals, Drain, StopBegins,
       StopStep, StopLooks, StopEvicts, StopSignals, StopJoins, Stop, ViewerOpens, ViewerStep,
       ViewerBegins, ViewerTimesOut, ViewerLeaves, Viewer
  <2>2. ~Empty /\ Head(queue) # Sentinel /\ shown' = [shown EXCEPT ![w] = Head(queue)]
    BY <2>1 DEF ViewerGets
  <2>3. shown[v] < Head(queue) /\ shown'[v] = Head(queue) /\ shown[v] \in Nat
    BY <2>2, Taking DEF StreamInv, StreamTypeOK
  <2>4. Head(queue) \in Nat
    BY <2>2, Taking, FramesAssumption DEF Items, Frames, Sentinel
  <2> QED
    BY <2>3, <2>4
<1> QED
  BY <1>1, StreamInductive, PTL DEF StreamSpec, NeverBack
===============================================================================
