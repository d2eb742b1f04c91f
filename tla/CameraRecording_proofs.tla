------------------------ MODULE CameraRecording_proofs ------------------------
(***************************************************************************)
(* Proofs about CameraRecording, for any set of threads and any number of  *)
(* takes and sessions: one camera, complete files, and marks that name the *)
(* session of the recording.                                               *)
(***************************************************************************)
EXTENDS CameraRecording, TLAPS

\* The takes of the application that runs, and that none of them is filmed any more.
Own(f) == f \in Takes /\ f > earlier
NoneRuns == \A f \in Takes : Own(f) => ~Running(camera, f)
Starting == {"writer", "muxer", "alive", "muxing"}

\* The service refers to takes that have been launched, and only those have had a process.
Launched ==
    /\ {process, muxer_process, output_path, last_recorded_file} \subseteq
         {None} \cup (earlier + 1)..takes
    /\ earlier <= takes
    /\ \A f \in Takes : f <= takes => camera[f] # "none"
    /\ \A f \in Takes : f > takes => camera[f] = "none" /\ muxer[f] = "none"

\* Who has the lock is in the method its handler has called.
Holder ==
    /\ lock = NoOne <=> at = "free"
    /\ at \in {"reap", "check", "report"} => pc[lock] = "state"
    /\ at \in Starting => pc[lock] = "start"
    /\ at \in {"camera_ends", "muxer_ends"} => pc[lock] \in {"stop", "cleanup"}

\* The cleanup is the loop's, and belongs to a shutdown, which has disturbed the handlers that the
\* server had not waited for.
Down ==
    \A a \in Callers :
        /\ pc[a] = "cleanup" => a = Loop /\ ~running
        /\ ~running /\ a # Loop => Idle(a) \/ a \in disturbed

\* Past the cleanup of this application, or in that of an earlier one, only late takes run.
Left ==
    \A f \in Takes : Running(camera, f) /\ (CleanedUp \/ f <= earlier) => f \in late

\* A camera that runs writes to the output the service refers to, and none runs any more when
\* stop_recording turns to the muxer.
Filming ==
    /\ \A f \in Takes : Own(f) /\ Running(camera, f) => output_path = f
    /\ at = "muxer_ends" => NoneRuns

\* A camera of this application that runs is the one referred to.
Referred == \A f \in Takes : Own(f) /\ Running(camera, f) => process = f

\* A muxer that writes to the output is the one referred to; until it has been launched the
\* reference may be one of an earlier take. The new take is not the last recorded file.
Muxing ==
    /\ \A f \in Takes : Running(muxer, f) /\ output_path = f => muxer_process = f
    /\ at \in Starting =>
         process # None /\ output_path = process /\ last_recorded_file # process
    /\ Running(camera, process) /\ at \notin {"writer", "muxer"} =>
         muxer_process \in {None, process}
    /\ at = "reap" => Exited(muxer, muxer_process)

\* The session there is has been active while f was recorded.
Known(f) == f # None /\ session \in seen[f]

\* What is being recorded is recorded in the session there is.
Seen == session # None => \A f \in Takes : Running(camera, f) => session \in seen[f]

\* A handler that nothing has disturbed and that is to stop the recording it has seen; one that has
\* found that the muxer is not gone.
Stops(a) == a \notin disturbed /\ pc[a] = "stop" /\ goal[a] \in {"session_stop", "disarm"}
Saw(a) == Stops(a) \/ (a \notin disturbed /\ lock = a /\ at \in {"check", "report"})

\* For such a handler the session is the one it has read; the muxer of the recording is not gone;
\* and the recording it has seen goes on, is being stopped, or is the last one, or a later one is.
Unsurprised(a) ==
    /\ Idle(a) => goal[a] = "call"
    /\ a \notin disturbed /\ goal[a] = "session_stop" => sid[a] = session
    /\ Saw(a) /\ Running(camera, process) /\ at \notin {"writer", "muxer"} =>
         ~Exited(muxer, muxer_process)
    /\ Stops(a) /\ session # None =>
         CASE at = "camera_ends" -> Running(camera, process)
           [] at = "muxer_ends" -> Known(output_path)
           [] at \in Starting -> Known(last_recorded_file)
           [] OTHER -> Running(camera, process) \/ Known(last_recorded_file)
    /\ pc[a] = "mark" =>
         got[a] # None /\ (a \notin disturbed => session # None /\ Known(got[a]))

Undisturbed == \A a \in Callers : Unsurprised(a)

IInv ==
    /\ TypeOK /\ Launched /\ Holder /\ Down /\ Left /\ Filming /\ Muxing
    /\ Referred /\ LastFileComplete /\ Seen /\ Undisturbed
-----------------------------------------------------------------------------
\* The types of the handlers and the lock, and those of the processes and of what the service refers to.
Processes == {"none", "running", "exited"}
Calls == {"idle", "state", "start", "stop", "cleanup", "mark", "clear"}
Goals == {"call", "session_stop", "arm", "disarm"}

Control ==
    /\ lock \in Callers \cup {NoOne} /\ at \in Steps
    /\ pc \in [Callers -> Calls] /\ goal \in [Callers -> Goals]
    /\ sid \in [Callers -> Sessions \cup {None}] /\ got \in [Callers -> Takes \cup {None}]
    /\ disturbed \in SUBSET Callers

Devices ==
    /\ takes \in 0..MaxTakes
    /\ camera \in [Takes -> Processes] /\ muxer \in [Takes -> Processes]
    /\ writers \in SUBSET Takes /\ ingests \in SUBSET Takes
    /\ process \in Takes \cup {None} /\ muxer_process \in Takes \cup {None}
    /\ telemetry_writer \in Takes \cup {None} /\ ingest \in Takes \cup {None}
    /\ output_path \in Takes \cup {None} /\ started_at \in Takes \cup {None}
    /\ last_recorded_file \in Takes \cup {None}

Flights ==
    /\ session \in Sessions \cup {None} /\ sessions \in 0..MaxSessions
    /\ meta \in SUBSET (Takes \X (Sessions \cup {None}))
    /\ seen \in [Takes -> SUBSET Sessions] /\ running \in BOOLEAN
    /\ earlier \in 0..MaxTakes /\ late \in SUBSET Takes

\* The type invariant, in these three parts.
LEMMA Types == TypeOK <=> Control /\ Devices /\ Flights
BY DEF TypeOK, Control, Devices, Flights, Processes, Calls, Goals

\* A handler keeps the lock at the next step of its method, or gives it back and goes on to the call m.
Stays(a) ==
    /\ lock' = a /\ UNCHANGED <<pc, goal, sid, got, disturbed>>
    /\ \/ pc[a] = "state" /\ at' \in {"reap", "check", "report"}
       \/ pc[a] = "start" /\ at' \in Starting
       \/ pc[a] \in {"stop", "cleanup"} /\ at' \in {"camera_ends", "muxer_ends"}

Leaves(a, m) ==
    /\ lock' = NoOne /\ at' = "free"
    /\ pc' = [pc EXCEPT ![a] = m]
    /\ goal' = [goal EXCEPT ![a] = IF m = "idle" THEN "call" ELSE @]
    /\ sid' = [sid EXCEPT ![a] = IF m = "idle" THEN None ELSE @]
    /\ got' \in [Callers -> Takes \cup {None}]
    /\ \A b \in Callers \ {a} : got'[b] = got[b]
    /\ disturbed' = IF m = "idle" THEN disturbed \ {a} ELSE disturbed
    /\ pc[a] \in {"state", "start", "stop", "cleanup"}
    /\ pc[a] \in {"start", "cleanup"} => m = "idle"

\* Every step of a method does one or the other.
LEMMA MethodMoves ==
  ASSUME TypeOK, Holder, NEW a \in Callers, Method(a)
  PROVE  Stays(a) \/ \E m \in Calls \ {"state", "cleanup"} : Leaves(a, m)
<1> USE NobodyAssumption
<1>1. Control /\ Devices
  BY Types
<1>2. CASE StateCall(a) \/ Reap(a) \/ Check(a) \/ Launch(a) \/ StartWriter(a) \/ StartMuxer(a)
           \/ Alive(a) \/ StopCall(a) \/ CameraEnds(a) \/ CleanupCall(a)
  BY <1>1, <1>2 DEF StateCall, Reap, Check, Launch, StartWriter, StartMuxer, Alive, StopCall,
     CameraEnds, CleanupCall, GoOn, Enter, Holds, Holder, Stays, Starting, handlers
<1>3. ASSUME NEW m \in Calls \ {"state", "cleanup"}, Return(a, m),
             pc[a] \in {"state", "start", "stop", "cleanup"},
             pc[a] \in {"start", "cleanup"} => m = "idle"
      PROVE Leaves(a, m)
  BY <1>1, <1>3 DEF Leaves, Return, NextCall, Control
<1>4. CASE Report(a)
  <2>1. pc[a] = "state"
    BY <1>4 DEF Report, Holds, Holder
  <2> QED
    BY <1>3, <1>4, <2>1 DEF Report, Calls
<1>5. CASE AlreadyRecording(a) \/ StartRefused(a) \/ LaunchFails(a) \/ StartWriterFails(a)
           \/ StartMuxerFails(a) \/ EarlyExit(a) \/ Started(a) \/ CleanupIdle(a)
  <2>1. pc[a] \in {"start", "cleanup"} /\ Return(a, "idle")
    BY <1>5 DEF AlreadyRecording, StartRefused, LaunchFails, StartWriterFails,
       StartMuxerFails, EarlyExit, Started, CleanupIdle, Holds, Enter, Holder, Abort, Starting
  <2> QED
    BY <1>3, <2>1 DEF Calls
<1>6. CASE StopIdle(a) \/ MuxerEnds(a)
  <2>1. PICK f \in Takes \cup {None} :
          (pc[a] = "stop" /\ ReturnStopped(a, f)) \/ (pc[a] = "cleanup" /\ Return(a, "idle"))
    BY <1>1, <1>6 DEF StopIdle, MuxerEnds, Enter, Holds, Holder, Devices
  <2> QED
    BY <1>1, <1>3, <2>1 DEF ReturnStopped, Leaves, Calls, Control
<1> QED
  BY <1>2, <1>4, <1>5, <1>6 DEF Method

\* So the lock, the steps and the handlers stay in step, and only a shutdown cleans up.
LEMMA MethodControl ==
  ASSUME TypeOK, Holder, Down, NEW a \in Callers, Method(a), UNCHANGED running
  PROVE  (Control /\ Holder /\ Down)'
<1> USE NobodyAssumption
<1>1. Control
  BY Types
<1>2. CASE Stays(a)
  BY <1>1, <1>2 DEF Stays, Control, Holder, Down, Starting, Steps, Idle, Callers, NoOne
<1>3. ASSUME NEW m \in Calls \ {"state", "cleanup"}, Leaves(a, m) PROVE (Control /\ Holder /\ Down)'
  <2>1. Control'
    BY <1>1, <1>3 DEF Leaves, Control, Steps, Goals
  <2>2. Holder'
    BY <1>3 DEF Leaves, Holder, Starting
  <2>3. Down'
    BY <1>1, <1>3 DEF Leaves, Down, Idle, Control
  <2> QED
    BY <2>1, <2>2, <2>3
<1> QED
  BY <1>2, <1>3, MethodMoves

\* What is said of the processes, apart from the lock.
Cameras ==
    /\ Launched /\ Filming /\ Muxing /\ Referred /\ LastFileComplete /\ Seen

\* Every step of a method keeps the service's references true to the processes.
LEMMA MethodCameras ==
  ASSUME TypeOK, Holder, Cameras, NEW a \in Callers, Method(a)
  PROVE  (Devices /\ Flights /\ Cameras)'
<1> USE NobodyAssumption, BoundAssumption DEF Cameras, Devices, Flights, Holder, Starting,
   Launched, Filming, Muxing, Referred, LastFileComplete, Seen, Known, NoneRuns, Own, Running,
   Exited, Terminated, NoProcess, NoOutput, StopTelemetryWriter, StopIngest, GoOn, Return,
   ReturnStopped, Apart, Enter, Holds, Abort, world, service, flight, application, Takes, None,
   Sessions, Processes
<1>1. Control /\ Devices /\ Flights
  BY Types
<1>2. CASE StateCall(a)
  <2>1. (Devices /\ Flights)'
    BY <1>1, <1>2 DEF StateCall
  <2>2. Cameras'
    BY <1>1, <1>2 DEF StateCall
  <2> QED
    BY <2>1, <2>2
<1>3. CASE Reap(a)
  BY <1>1, <1>3 DEF Reap
<1>4. CASE Check(a)
  <2>1. (Devices /\ Flights)'
    BY <1>1, <1>4 DEF Check
  <2>2. Cameras'
    BY <1>1, <1>4 DEF Check
  <2> QED
    BY <2>1, <2>2
<1>5. CASE Report(a)
  BY <1>1, <1>5 DEF Report
<1>6. CASE AlreadyRecording(a)
  BY <1>1, <1>6 DEF AlreadyRecording
<1>7. CASE StartRefused(a)
  BY <1>1, <1>7 DEF StartRefused
<1>8. CASE Launch(a)
  BY <1>1, <1>8 DEF Launch
<1>9. CASE LaunchFails(a)
  BY <1>1, <1>9 DEF LaunchFails
<1>10. CASE StartWriter(a)
  BY <1>1, <1>10 DEF StartWriter
<1>11. CASE StartWriterFails(a)
  BY <1>1, <1>11 DEF StartWriterFails
<1>12. CASE StartMuxer(a)
  BY <1>1, <1>12 DEF StartMuxer
<1>13. CASE StartMuxerFails(a)
  BY <1>1, <1>13 DEF StartMuxerFails
<1>14. CASE EarlyExit(a)
  BY <1>1, <1>14 DEF EarlyExit
<1>15. CASE Alive(a)
  BY <1>1, <1>15 DEF Alive
<1>16. CASE Started(a)
  <2>1. (Devices /\ Flights)'
    BY <1>1, <1>16 DEF Started
  <2>2. Cameras'
    BY <1>1, <1>16 DEF Started
  <2> QED
    BY <2>1, <2>2
<1>17. CASE StopIdle(a)
  <2>1. (Devices /\ Flights)'
    BY <1>1, <1>17 DEF StopIdle
  <2>2. Cameras'
    BY <1>1, <1>17 DEF StopIdle
  <2> QED
    BY <2>1, <2>2
<1>18. CASE StopCall(a)
  BY <1>1, <1>18 DEF StopCall
<1>19. CASE CameraEnds(a)
  BY <1>1, <1>19 DEF CameraEnds
<1>20. CASE MuxerEnds(a)
  <2>1. (Devices /\ Flights)'
    BY <1>1, <1>20 DEF MuxerEnds
  <2>2. (Launched /\ Muxing /\ Referred /\ LastFileComplete /\ Seen)'
    BY <1>1, <1>20 DEF MuxerEnds
  <2>3. Filming'
    BY <1>1, <1>20 DEF MuxerEnds
  <2> QED
    BY <2>1, <2>2, <2>3
<1>21. CASE CleanupIdle(a)
  BY <1>1, <1>21 DEF CleanupIdle
<1>22. CASE CleanupCall(a)
  BY <1>1, <1>22 DEF CleanupCall
<1> QED
  BY <1>2, <1>3, <1>4, <1>5, <1>6, <1>7, <1>8, <1>9, <1>10, <1>11, <1>12, <1>13, <1>14, <1>15,
     <1>16, <1>17, <1>18, <1>19, <1>20, <1>21, <1>22 DEF Method

\* The cleanup leaves no camera behind, and what a method launches after it is late.
LEMMA MethodLeft ==
  ASSUME TypeOK, Holder, Down, Left, Cameras, NEW a \in Callers, Method(a), Cameras',
         UNCHANGED <<running, earlier>>
  PROVE  Left'
<1> USE LoopAssumption
<1>1. Control /\ Devices /\ Flights
  BY Types
<1>2. CASE Launch(a)
  BY <1>1, <1>2 DEF Launch, GoOn, handlers, Left, CleanedUp, Cameras, Launched, Running, Takes,
     None, Devices, Flights
<1>3. CASE ~Launch(a)
  <2>1. late' = late /\ \A f \in Takes : Running(camera, f)' => Running(camera, f)
    BY <1>1, <1>3 DEF Method, StateCall, Reap, Check, Report, AlreadyRecording, StartRefused,
       LaunchFails, StartWriter, StartWriterFails, StartMuxer, StartMuxerFails, EarlyExit, Alive,
       Started, StopIdle, StopCall, CameraEnds, MuxerEnds, CleanupIdle, CleanupCall, Abort, Apart,
       application, world, Terminated, Running, Devices, Processes
  <2>2. CASE CleanedUp' => CleanedUp
    BY <2>1, <2>2 DEF Left
  <2>3. CASE CleanedUp' /\ ~CleanedUp
    <3>1. pc[a] = "cleanup" /\ pc' # pc
      BY <1>1, <2>3, MethodMoves DEF CleanedUp, Stays, Leaves, Calls, Control, Callers
    <3>2. CleanupIdle(a) \/ MuxerEnds(a)
      BY <1>3, <3>1 DEF Method, StateCall, Reap, Check, Report, AlreadyRecording,
         StartRefused, LaunchFails, StartWriter, StartWriterFails, StartMuxer, StartMuxerFails,
         EarlyExit, Alive, Started, StopIdle, StopCall, CameraEnds, CleanupCall, Enter, Holds,
         Holder, Starting, GoOn, handlers
    <3>3. NoneRuns'
      BY <2>1, <3>2 DEF CleanupIdle, MuxerEnds, Holds, Cameras, Filming, Referred, NoneRuns, Own,
         Running
    <3> QED
      BY <1>1, <2>1, <3>3 DEF Left, NoneRuns, Own, Flights, Takes
  <2> QED
    BY <2>2, <2>3
<1> QED
  BY <1>2, <1>3

\* What runs now writes to the output, in the session there is.
LEMMA Filmed ==
  ASSUME TypeOK, Cameras, Running(camera, process)
  PROVE  output_path = process /\ (session # None => Known(process))
<1>1. Own(process)
  BY Types DEF Cameras, Launched, Own, Running, Devices, Flights, Takes, None
<1> QED
  BY <1>1 DEF Cameras, Filming, Seen, Own, Known, Running

\* A handler that nothing disturbs finds what it has seen when it gets to the stop and to the mark,
\* whatever the methods of others do in between.
LEMMA MethodUndisturbed ==
  ASSUME TypeOK, Holder, Cameras, Down, Undisturbed, NEW a \in Callers, Method(a)
  PROVE  Undisturbed'
<1> USE NobodyAssumption, BoundAssumption DEF Cameras, Control, Devices, Launched, Filming,
   Muxing, Referred, LastFileComplete, Seen, Known, NoneRuns, Own, Undisturbed, Unsurprised,
   Stops, Saw, Idle, Running, Exited, Terminated, NoProcess, NoOutput, StopTelemetryWriter,
   StopIngest, GoOn, Return, NextCall, ReturnStopped, Apart, Enter, Holds, Abort, world, service,
   flight, handlers, application, Takes, None, Sessions, Processes, Starting, Holder
<1>1. Control /\ Devices /\ Flights
  BY Types
<1>2. CASE StateCall(a)
  BY <1>1, <1>2 DEF StateCall
<1>3. CASE Reap(a)
  BY <1>1, <1>3 DEF Reap
<1>4. CASE Check(a)
  BY <1>1, <1>4 DEF Check
<1>5. CASE Report(a)
  BY <1>1, <1>5 DEF Report
<1>6. CASE AlreadyRecording(a)
  BY <1>1, <1>6 DEF AlreadyRecording
<1>7. CASE StartRefused(a)
  BY <1>1, <1>7 DEF StartRefused
<1>8. CASE Launch(a)
  BY <1>1, <1>8 DEF Launch
<1>9. CASE LaunchFails(a)
  BY <1>1, <1>9 DEF LaunchFails
<1>10. CASE StartWriter(a)
  BY <1>1, <1>10 DEF StartWriter
<1>11. CASE StartWriterFails(a)
  BY <1>1, <1>11 DEF StartWriterFails
<1>12. CASE StartMuxer(a)
  BY <1>1, <1>12 DEF StartMuxer
<1>13. CASE StartMuxerFails(a)
  BY <1>1, <1>13 DEF StartMuxerFails
<1>14. CASE EarlyExit(a)
  BY <1>1, <1>14 DEF EarlyExit
<1>15. CASE Alive(a)
  BY <1>1, <1>15 DEF Alive
<1>16. CASE Started(a)
  BY <1>1, <1>16 DEF Started
<1>17. CASE StopIdle(a)
  <2> DEFINE f == last_recorded_file
  <2>1. /\ f' = f /\ process' = None /\ at = "free" /\ at' = "free" /\ lock' = NoOne
        /\ UNCHANGED <<session, seen>>
    BY <1>1, <1>17 DEF StopIdle
  <2>2. ReturnStopped(a, f) /\ pc[a] = "stop"
    BY <1>1, <1>17 DEF StopIdle
  <2>3. \A b \in Callers : Stops(b) /\ session # None => Known(f)
    BY <1>17 DEF StopIdle
  <2>4. \A b \in Callers \ {a} :
          pc'[b] = pc[b] /\ goal'[b] = goal[b] /\ sid'[b] = sid[b] /\ got'[b] = got[b]
          /\ (b \in disturbed' <=> b \in disturbed)
    BY <1>1, <2>2
  <2>5. Unsurprised(a)'
    BY <1>1, <2>1, <2>2, <2>3
  <2>6. ASSUME NEW b \in Callers \ {a} PROVE Unsurprised(b)'
    BY <1>1, <2>1, <2>3, <2>4
  <2> QED
    BY <2>5, <2>6
<1>18. CASE StopCall(a)
  BY <1>1, <1>18 DEF StopCall
<1>19. CASE CameraEnds(a)
  <2>1. /\ UNCHANGED <<pc, goal, sid, got, disturbed, session, seen, process, output_path>>
        /\ at = "camera_ends" /\ at' = "muxer_ends"
    BY <1>19 DEF CameraEnds
  <2>2. ~Running(camera, process)'
    BY <1>1, <1>19 DEF CameraEnds
  <2>3. Running(camera, process) => output_path = process /\ (session # None => Known(process))
    BY Filmed
  <2> QED
    BY <1>1, <2>1, <2>2, <2>3
<1>20. CASE MuxerEnds(a)
  <2>1. CASE pc[a] = "stop"
    <3> DEFINE f == IF output_path = None THEN last_recorded_file ELSE output_path
    <3>1. /\ last_recorded_file' = f /\ process' = None /\ at' = "free" /\ lock' = NoOne
          /\ UNCHANGED <<session, seen>>
      BY <1>1, <1>20, <2>1 DEF MuxerEnds
    <3>2. ReturnStopped(a, f)
      BY <1>1, <1>20, <2>1 DEF MuxerEnds
    <3>3. \A b \in Callers : Stops(b) /\ session # None => Known(f)
      BY <1>20 DEF MuxerEnds
    <3>4. \A b \in Callers \ {a} :
            pc'[b] = pc[b] /\ goal'[b] = goal[b] /\ sid'[b] = sid[b] /\ got'[b] = got[b]
            /\ (b \in disturbed' <=> b \in disturbed)
      BY <1>1, <3>2
    <3>5. Unsurprised(a)'
      BY <1>1, <2>1, <3>1, <3>2, <3>3
    <3>6. ASSUME NEW b \in Callers \ {a} PROVE Unsurprised(b)'
      BY <1>1, <2>1, <3>1, <3>3, <3>4
    <3> QED
      BY <3>5, <3>6
  <2>2. CASE pc[a] = "cleanup"
    BY <1>1, <1>20, <2>2 DEF MuxerEnds, Down
  <2> QED
    BY <1>20, <2>1, <2>2 DEF MuxerEnds
<1>21. CASE CleanupIdle(a)
  BY <1>1, <1>21 DEF CleanupIdle
<1>22. CASE CleanupCall(a)
  BY <1>1, <1>22 DEF CleanupCall
<1> QED
  BY <1>2, <1>3, <1>4, <1>5, <1>6, <1>7, <1>8, <1>9, <1>10, <1>11, <1>12, <1>13, <1>14, <1>15,
     <1>16, <1>17, <1>18, <1>19, <1>20, <1>21, <1>22 DEF Method

\* A session that starts or ends leaves its record with the takes well typed.
LEMMA SessionSet ==
  ASSUME TypeOK, NEW s \in Sessions \cup {None}, SetSession(s)
  PROVE  /\ session' \in Sessions \cup {None} /\ sessions' \in 0..MaxSessions
         /\ seen' \in [Takes -> SUBSET Sessions]
BY Types, BoundAssumption DEF SetSession, Flights, Sessions, None

\* The handlers' own steps, a shutdown, a restart and an exit leave the invariant true.
LEMMA Others ==
  ASSUME IInv, NEW a \in Callers,
         \/ Handler(a) \/ (\E g \in {"arm", "disarm"} : AutoRecord(g))
         \/ AutoSession \/ Shutdown \/ Restart
         \/ (\E f \in Takes : CameraExits(f) \/ MuxerExits(f))
  PROVE  IInv'
<1>0. (Control /\ Devices /\ Flights)' => TypeOK'
  BY DEF TypeOK, Control, Devices, Flights, Processes, Calls, Goals
<1> USE LoopAssumption, NobodyAssumption, BoundAssumption
<1> USE DEF Control, Devices, Flights, Holder, Starting, Down, Left, CleanedUp, Launched, Filming,
   Muxing, Referred, LastFileComplete, Seen, Known, NoneRuns, Own, Works, application, Running,
   Exited, Undisturbed, Unsurprised, Stops, Saw, Idle, Begin, NextCall, Disturb, NoProcess,
   NoOutput, world, service, flight, handlers, Takes, Sessions, None, NoOne, Callers, Processes,
   Calls, Goals, Steps
<1>1. Control /\ Devices /\ Flights
  BY Types DEF IInv
<1> DEFINE I == /\ Holder /\ Down /\ Left /\ Launched /\ Filming /\ Muxing /\ Referred
                /\ LastFileComplete /\ Seen
           T == Control /\ Devices /\ Flights
<1> SUFFICES T' /\ I' /\ Undisturbed'
  BY <1>0 DEF IInv
<1>2. CASE (\E m \in {"state", "start", "stop"} : Request(a, m))
  <2>1. T'
    <3>1. Control'
      BY <1>1, <1>2 DEF IInv, Request
    <3>2. (Devices /\ Flights)'
      BY <1>1, <1>2 DEF IInv, Request
    <3> QED
      BY <3>1, <3>2
  <2>2. I'
    BY <1>1, <1>2 DEF IInv, Request
  <2>3. Undisturbed'
    BY <1>1, <1>2 DEF IInv, Request
  <2> QED
    BY <2>1, <2>2, <2>3
<1>3. CASE a \in Threads /\ SessionStart(a)
  <2>1. T'
    <3>1. Control'
      <4>1. disturbed' \in SUBSET Callers
        BY <1>3 DEF SessionStart
      <4>2. CASE Begin(a, "call", None, "start")
        BY <1>1, <1>3, <4>1, <4>2 DEF SessionStart
      <4>3. CASE UNCHANGED <<pc, goal, sid, got>>
        BY <1>1, <1>3, <4>1, <4>3 DEF SessionStart
      <4> QED
        BY <1>3, <4>2, <4>3 DEF SessionStart
    <3>2. PICK s \in Sessions \cup {None} : SetSession(s)
      BY <1>1, <1>3 DEF SessionStart
    <3>3. (Devices /\ Flights)'
      BY <1>1, <1>3, <3>2, SessionSet DEF IInv, SessionStart
    <3> QED
      BY <3>1, <3>3
  <2>2. I'
    <3>1. UNCHANGED <<world, service, lock, at, application>>
      BY <1>3 DEF SessionStart
    <3>2. (Launched /\ Filming /\ Muxing /\ Referred /\ LastFileComplete)'
      BY <3>1 DEF IInv
    <3>3. (Holder /\ Down /\ Left)'
      BY <1>1, <1>3, <3>1 DEF IInv, SessionStart
    <3>4. Seen'
      BY <1>1, <1>3, <3>1 DEF SessionStart, SetSession
    <3> QED
      BY <3>2, <3>3, <3>4
  <2>3. Undisturbed'
    <3> SUFFICES ASSUME NEW b \in Callers PROVE Unsurprised(b)'
      OBVIOUS
    <3>1. Unsurprised(b) /\ Unsurprised(a) /\ Holder /\ Idle(a)
      BY <1>3 DEF IInv, SessionStart
    <3>2. disturbed' = {c \in Callers : c # a /\ (c \in disturbed \/ ~Idle(c))}
      BY <1>3 DEF SessionStart
    <3>3. CASE b = a
      <4>1. pc'[a] \in {"start", "idle"} /\ goal'[a] = "call" /\ UNCHANGED <<lock, at>>
        BY <1>1, <1>3, <3>1 DEF SessionStart
      <4> QED
        BY <3>1, <3>3, <4>1
    <3>4. CASE b # a
      <4>1. pc'[b] = pc[b] /\ goal'[b] = goal[b] /\ got'[b] = got[b] /\ UNCHANGED <<lock, at>>
        BY <1>1, <1>3, <3>4 DEF SessionStart
      <4> QED
        BY <3>1, <3>2, <3>4, <4>1
    <3> QED
      BY <3>3, <3>4
  <2> QED
    BY <2>1, <2>2, <2>3
<1>4. CASE a \in Threads /\ SessionStop(a)
  <2>1. T'
    <3>1. Control'
      BY <1>1, <1>4 DEF IInv, SessionStop
    <3>2. (Devices /\ Flights)'
      BY <1>1, <1>4 DEF IInv, SessionStop
    <3> QED
      BY <3>1, <3>2
  <2>2. I'
    BY <1>1, <1>4 DEF IInv, SessionStop
  <2>3. Undisturbed'
    BY <1>1, <1>4 DEF IInv, SessionStop
  <2> QED
    BY <2>1, <2>2, <2>3
<1>5. CASE Mark(a)
  <2>1. PICK m \in {"clear", "idle"} :
          NextCall(a, m) /\ disturbed' = IF m = "idle" THEN disturbed \ {a} ELSE disturbed
    BY <1>5 DEF Mark
  <2>2. UNCHANGED <<world, service, lock, at, flight, application>> /\ pc[a] = "mark"
    BY <1>5 DEF Mark
  <2>3. T'
    <3>1. Control'
      BY <1>1, <2>1, <2>2
    <3>2. meta' \in SUBSET (Takes \X (Sessions \cup {None}))
      <4>1. got[a] \in Takes
        BY <1>1, <1>5 DEF IInv, Mark
      <4> QED
        BY <1>1, <1>5, <4>1 DEF Mark
    <3>3. (Devices /\ Flights)'
      BY <1>1, <2>2, <3>2
    <3> QED
      BY <3>1, <3>3
  <2>4. (Launched /\ Filming /\ Muxing /\ Referred /\ LastFileComplete /\ Seen)'
    BY <2>2 DEF IInv
  <2>5. (Holder /\ Down /\ Left)'
    BY <1>1, <2>1, <2>2 DEF IInv
  <2>6. Undisturbed'
    <3> SUFFICES ASSUME NEW b \in Callers PROVE Unsurprised(b)'
      OBVIOUS
    <3>1. Unsurprised(b) /\ Holder
      BY DEF IInv
    <3>2. CASE b = a
      BY <1>1, <2>1, <2>2, <3>1, <3>2
    <3>3. CASE b # a
      <4>1. pc'[b] = pc[b] /\ goal'[b] = goal[b] /\ sid'[b] = sid[b] /\ got'[b] = got[b]
            /\ (b \in disturbed' <=> b \in disturbed)
        BY <1>1, <2>1, <3>3
      <4> QED
        BY <2>2, <3>1, <4>1
    <3> QED
      BY <3>2, <3>3
  <2> QED
    BY <2>3, <2>4, <2>5, <2>6
<1>6. CASE SessionCleared(a)
  <2>1. T'
    <3>1. Control'
      BY <1>1, <1>6 DEF SessionCleared
    <3>2. (Devices /\ Flights)'
      BY <1>1, <1>6, SessionSet DEF IInv, SessionCleared
    <3> QED
      BY <3>1, <3>2
  <2>2. I'
    BY <1>1, <1>6 DEF IInv, SessionCleared, SetSession
  <2>3. Undisturbed'
    BY <1>1, <1>6 DEF IInv, SessionCleared, SetSession
  <2> QED
    BY <2>1, <2>2, <2>3
<1>7. CASE (\E g \in {"arm", "disarm"} : AutoRecord(g))
  <2>1. T'
    <3>1. Control'
      BY <1>1, <1>7 DEF IInv, AutoRecord
    <3>2. (Devices /\ Flights)'
      BY <1>1, <1>7 DEF IInv, AutoRecord
    <3> QED
      BY <3>1, <3>2
  <2>2. I'
    BY <1>1, <1>7 DEF IInv, AutoRecord
  <2>3. Undisturbed'
    BY <1>1, <1>7 DEF IInv, AutoRecord
  <2> QED
    BY <2>1, <2>2, <2>3
<1>8. CASE AutoSession
  <2>1. T'
    <3>1. Control'
      BY <1>1, <1>8 DEF AutoSession
    <3>2. PICK s \in Sessions \cup {None} : SetSession(s)
      BY <1>1, <1>8 DEF AutoSession
    <3>3. (Devices /\ Flights)'
      BY <1>1, <1>8, <3>2, SessionSet DEF IInv, AutoSession
    <3> QED
      BY <3>1, <3>3
  <2>2. I'
    BY <1>1, <1>8 DEF IInv, AutoSession, SetSession
  <2>3. Undisturbed'
    BY <1>1, <1>8 DEF IInv, AutoSession, SetSession
  <2> QED
    BY <2>1, <2>2, <2>3
<1>9. CASE Shutdown
  <2>1. T'
    <3>1. Control'
      BY <1>1, <1>9 DEF Shutdown
    <3>2. (Devices /\ Flights)'
      BY <1>1, <1>9, SessionSet DEF IInv, Shutdown
    <3> QED
      BY <3>1, <3>2
  <2>2. I'
    BY <1>1, <1>9 DEF IInv, Shutdown, SetSession
  <2>3. Undisturbed'
    BY <1>1, <1>9 DEF IInv, Shutdown, SetSession
  <2> QED
    BY <2>1, <2>2, <2>3
<1>10. CASE Restart
  <2>1. T'
    <3>1. Control'
      BY <1>1, <1>10, SessionSet DEF IInv, Restart
    <3>2. (Devices /\ Flights)'
      BY <1>1, <1>10, SessionSet DEF IInv, Restart
    <3> QED
      BY <3>1, <3>2
  <2>2. I'
    BY <1>1, <1>10 DEF IInv, Restart, SetSession
  <2>3. Undisturbed'
    BY <1>1, <1>10 DEF IInv, Restart, SetSession
  <2> QED
    BY <2>1, <2>2, <2>3
<1>11. CASE (\E f \in Takes : CameraExits(f))
  <2>1. T'
    <3>1. Control'
      BY <1>1, <1>11 DEF IInv, CameraExits
    <3>2. (Devices /\ Flights)'
      BY <1>1, <1>11 DEF IInv, CameraExits
    <3> QED
      BY <3>1, <3>2
  <2>2. I'
    <3>1. PICK f \in Takes : camera' = [camera EXCEPT ![f] = "exited"]
      BY <1>11 DEF CameraExits
    <3>2. UNCHANGED <<takes, muxer, service, lock, at, pc, flight, application>>
      BY <1>11 DEF CameraExits
    <3>3. Launched'
      <4>1. camera[f] = "running"
        BY <1>1, <1>11, <3>1 DEF CameraExits
      <4> QED
        BY <1>1, <3>1, <3>2, <4>1 DEF IInv
    <3>4. (Filming /\ Muxing)'
      <4>1. \A g \in Takes : Running(camera, g)' => Running(camera, g)
        BY <1>1, <3>1
      <4> QED
        BY <1>1, <3>2, <4>1 DEF IInv
    <3>5. (Referred /\ LastFileComplete /\ Seen /\ Left)'
      BY <1>1, <3>1, <3>2 DEF IInv
    <3>6. (Holder /\ Down)'
      BY <1>1, <1>11 DEF IInv, CameraExits
    <3> QED
      BY <3>3, <3>4, <3>5, <3>6
  <2>3. Undisturbed'
    BY <1>1, <1>11 DEF IInv, CameraExits
  <2> QED
    BY <2>1, <2>2, <2>3
<1>12. CASE (\E f \in Takes : MuxerExits(f))
  <2>1. T'
    <3>1. Control'
      BY <1>1, <1>12 DEF IInv, MuxerExits
    <3>2. (Devices /\ Flights)'
      BY <1>1, <1>12 DEF IInv, MuxerExits
    <3> QED
      BY <3>1, <3>2
  <2>2. I'
    BY <1>1, <1>12 DEF IInv, MuxerExits
  <2>3. Undisturbed'
    BY <1>1, <1>12 DEF IInv, MuxerExits
  <2> QED
    BY <2>1, <2>2, <2>3
<1> QED
  BY <1>2, <1>3, <1>4, <1>5, <1>6, <1>7, <1>8, <1>9, <1>10, <1>11, <1>12 DEF Handler

\* The invariant holds at first.
LEMMA Initially == Init => IInv
<1> USE LoopAssumption, NobodyAssumption, BoundAssumption
<1> SUFFICES ASSUME Init PROVE IInv
  OBVIOUS
<1>1. TypeOK
  BY DEF Init, TypeOK, Steps, Takes, Sessions, None
<1>2. /\ Launched /\ Holder /\ Down /\ Left /\ Filming /\ Muxing /\ Referred
      /\ LastFileComplete /\ Seen
  BY DEF Init, Launched, Holder, Down, Left, Filming, Muxing, Referred, LastFileComplete, Seen,
     Starting, Running, Exited, Idle, Takes, None
<1>3. Undisturbed
  BY DEF Init, Undisturbed, Unsurprised, Saw, Stops, Running, Exited, Idle, None, NoOne, Callers
<1> QED
  BY <1>1, <1>2, <1>3 DEF IInv

\* Every step keeps the invariant.
LEMMA Step == IInv /\ [Next]_vars => IInv'
<1> SUFFICES ASSUME IInv, [Next]_vars PROVE IInv'
  OBVIOUS
<1>1. ASSUME NEW a \in Callers, Method(a) PROVE IInv'
  <2>1. Cameras /\ TypeOK /\ Holder /\ Down /\ Left /\ Undisturbed
    BY DEF IInv, Cameras
  <2>2. UNCHANGED <<running, earlier>>
    BY <1>1 DEF Method, StateCall, Reap, Check, Report, AlreadyRecording, StartRefused,
       Launch, LaunchFails, StartWriter, StartWriterFails, StartMuxer, StartMuxerFails,
       EarlyExit, Alive, Started, StopIdle, StopCall, CameraEnds, MuxerEnds, CleanupIdle,
       CleanupCall, Abort, Apart, application
  <2>3. (Control /\ Holder /\ Down)'
    BY <1>1, <2>1, <2>2, MethodControl
  <2>4. (Devices /\ Flights /\ Cameras)'
    BY <1>1, <2>1, MethodCameras
  <2>5. Left'
    BY <1>1, <2>1, <2>2, <2>4, MethodLeft
  <2>6. Undisturbed'
    BY <1>1, <2>1, MethodUndisturbed
  <2>7. TypeOK'
    BY <2>3, <2>4 DEF TypeOK, Control, Devices, Flights, Processes, Calls, Goals
  <2> QED
    BY <2>3, <2>4, <2>5, <2>6, <2>7 DEF IInv, Cameras
<1>2. CASE UNCHANGED vars
  BY <1>2 DEF vars, world, service, handlers, flight, application, IInv, TypeOK, Launched, Holder,
     Down, Left, CleanedUp, Filming, Muxing, Referred, LastFileComplete, Seen, Undisturbed,
     Unsurprised, NoneRuns, Own, Running, Exited, Idle, Stops, Saw, Known
<1>3. CASE ~(\E a \in Callers : Method(a)) /\ Next
  BY <1>3, Others DEF Next, Callers
<1> QED
  BY <1>1, <1>2, <1>3 DEF Next

\* The inductive invariant is one.
THEOREM Inductive == Spec => []IInv
BY Initially, Step, PTL DEF Spec

\* Every variable has its type.
THEOREM TypeCorrect == Spec => []TypeOK
BY Inductive, PTL DEF IInv

\* The camera process that runs is the one the service refers to, and what runs after the
\* cleanup, or after a restart besides it, was launched after the cleanup.
THEOREM CameraIsOne == Spec => []OneCamera
<1>1. IInv => OneCamera
  BY Types DEF IInv, Left, Referred, Own, OneCamera, Flights, Takes
<1> QED
  BY <1>1, Inductive, PTL

\* Neither the camera nor the muxer writes to the file reported as last recorded.
THEOREM FileIsComplete == Spec => []LastFileComplete
BY Inductive, PTL DEF IInv

\* A handler that nothing has disturbed marks a recording for a session that was active during it.
THEOREM MarksItsSession == Spec => MarkedForItsSession
<1>1. IInv /\ [Next]_vars =>
        [\A m \in meta' \ meta :
            \/ m[2] \in seen[m[1]]
            \/ \E a \in disturbed : pc[a] = "mark" /\ got[a] = m[1]]_vars
  <2> SUFFICES ASSUME IInv, Next, NEW m \in meta' \ meta
               PROVE  \/ m[2] \in seen[m[1]]
                      \/ \E a \in disturbed : pc[a] = "mark" /\ got[a] = m[1]
    OBVIOUS
  <2>1. PICK a \in Callers : Mark(a)
    <3>1. ASSUME NEW a \in Callers, Method(a) PROVE meta' = meta
      BY <3>1 DEF Method, StateCall, Reap, Check, Report, AlreadyRecording, StartRefused,
         Launch, LaunchFails, StartWriter, StartWriterFails, StartMuxer, StartMuxerFails,
         EarlyExit, Alive, Started, StopIdle, StopCall, CameraEnds, MuxerEnds, CleanupIdle,
         CleanupCall, Abort, Apart
    <3> QED
      BY <3>1 DEF Next, Handler, Request, SessionStart, SessionStop, SessionCleared,
         AutoRecord, AutoSession, Shutdown, Restart, CameraExits, MuxerExits, flight
  <2>2. Undisturbed
    BY DEF IInv
  <2> QED
    BY <2>1, <2>2 DEF Mark, Undisturbed, Unsurprised, Known
<1> QED
  BY <1>1, Inductive, PTL DEF Spec, MarkedForItsSession

=============================================================================
