--------------------------- MODULE RecordingStream ---------------------------
(***************************************************************************)
(* The MJPEG stream of one recording with overlay.  The muxer writes       *)
(* frames to its standard output; a drain thread reads them and puts them  *)
(* in a queue of QueueMax entries; the generators of GET                   *)
(* /camera/recording/stream, each in a worker thread, take them out; and   *)
(* the service, which holds its lock, stops the stream.  None of them      *)
(* shares a lock with another: an action is one call of the queue.         *)
(* Names that every module has begin with Stream here, so that             *)
(* Viewing_proofs can extend this module beside CameraUse.                 *)
(***************************************************************************)
EXTENDS Naturals, Sequences

CONSTANTS
    Viewers,    \* the clients of the stream
    QueueMax,   \* _RECORDING_STREAM_QUEUE_MAX
    MaxFrames   \* bound: frames the muxer writes

ASSUME QueueAssumption == QueueMax \in Nat \ {0}
ASSUME FramesAssumption == MaxFrames \in Nat

VARIABLES
    muxer,      \* "running" or "exited"
    written,    \* frames written by the muxer
    taken,      \* frames read by the drain thread: the last one's number
    queue,      \* the queue.Queue that all of them hold
    stream,     \* the service's _recording_stream_queue is not None
    stop,       \* progress of _stop_recording_stream
    drain,      \* progress of _drain_recording_stream
    viewer,     \* progress of each client's generator
    shown       \* the last frame each client has been sent

streamVars == <<muxer, written, taken, queue, stream, stop, drain, viewer, shown>>

Sentinel == 0
Frames == 1..MaxFrames
Full == Len(queue) >= QueueMax
Empty == queue = <<>>

StreamTypeOK ==
    /\ muxer \in {"running", "exited"}
    /\ written \in 0..MaxFrames
    /\ taken \in 0..written
    /\ queue \in Seq(Frames \cup {Sentinel})
    /\ Len(queue) <= QueueMax
    /\ stream \in BOOLEAN
    /\ stop \in {"live", "room", "evict", "signal", "join", "stopped"}
    /\ drain \in {"starting", "read", "evict", "put", "evict_again",
                  "put_again", "signal", "ended"}
    /\ viewer \in [Viewers -> {"away", "opened", "watching", "ended"}]
    /\ shown \in [Viewers -> 0..MaxFrames]

StreamInit ==
    /\ muxer = "running"
    /\ written = 0
    /\ taken = 0
    /\ queue = <<>>
    /\ stream = TRUE
    /\ stop = "live"
    /\ drain = "starting"
    /\ viewer = [v \in Viewers |-> "away"]
    /\ shown = [v \in Viewers |-> 0]

-----------------------------------------------------------------------------
(* The muxer.                                                              *)

MuxerWrites ==
    /\ muxer = "running"
    /\ written < MaxFrames
    /\ written' = written + 1
    /\ UNCHANGED <<muxer, taken, queue, stream, stop, drain, viewer, shown>>

\* It crashes, its camera dies, or the service terminates it once it has
\* stopped the stream.
MuxerExits ==
    /\ muxer = "running"
    /\ muxer' = "exited"
    /\ UNCHANGED <<written, taken, queue, stream, stop, drain, viewer, shown>>

-----------------------------------------------------------------------------
(* The queue.                                                              *)

Put(item) == queue' = Append(queue, item)
GetNowait == queue' = Tail(queue)

-----------------------------------------------------------------------------
(* _drain_recording_stream                                                 *)

Drain(from) ==
    /\ drain = from
    /\ UNCHANGED <<muxer, written, stream, stop, viewer, shown>>

DrainStarts ==
    /\ Drain("starting")
    /\ drain' = IF stream THEN "read" ELSE "ended"
    /\ UNCHANGED <<taken, queue>>

\* A frame read is offered to a queue with room, or room is made first.
DrainReads ==
    /\ Drain("read")
    /\ taken < written
    /\ taken' = taken + 1
    /\ drain' = IF Full THEN "evict" ELSE "put"
    /\ UNCHANGED queue

\* Mutant of DrainAtEnd: an empty read is taken for a pause.
DrainAtEndReads ==
    /\ Drain("read")
    /\ muxer = "exited" /\ taken = written
    /\ UNCHANGED <<drain, taken, queue>>

DrainAtEnd ==
    /\ Drain("read")
    /\ muxer = "exited" /\ taken = written
    /\ drain' = "signal"
    /\ UNCHANGED <<taken, queue>>

\* queue.Empty is not queue.Full: clients that have emptied the queue since
\* it was full end the drain, recording or not.
DrainEvicts ==
    /\ Drain("evict")
    /\ IF Empty
       THEN drain' = "signal" /\ UNCHANGED queue
       ELSE drain' = "put" /\ GetNowait
    /\ UNCHANGED taken

\* Full again only through the sentinel of _stop_recording_stream.
DrainPuts ==
    /\ Drain("put")
    /\ IF Full
       THEN drain' = "evict_again" /\ UNCHANGED queue
       ELSE drain' = "read" /\ Put(taken)
    /\ UNCHANGED taken

\* From here on an exception loses the frame.
DrainEvictsAgain ==
    /\ Drain("evict_again")
    /\ IF Empty
       THEN drain' = "read" /\ UNCHANGED queue
       ELSE drain' = "put_again" /\ GetNowait
    /\ UNCHANGED taken

DrainPutsAgain ==
    /\ Drain("put_again")
    /\ drain' = "read"
    /\ IF Full THEN UNCHANGED queue ELSE Put(taken)
    /\ UNCHANGED taken

\* The last put waits for room.
DrainSignals ==
    /\ Drain("signal")
    /\ ~Full
    /\ Put(Sentinel)
    /\ drain' = "ended"
    /\ UNCHANGED taken

DrainStep ==
    \/ DrainStarts \/ DrainReads \/ DrainAtEnd \/ DrainEvicts \/ DrainPuts
    \/ DrainEvictsAgain \/ DrainPutsAgain \/ DrainSignals

-----------------------------------------------------------------------------
(* _stop_recording_stream                                                  *)

Stop(from) ==
    /\ stop = from
    /\ UNCHANGED <<muxer, written, taken, drain, viewer, shown>>

StopBegins ==
    /\ Stop("live")
    /\ stream' = FALSE
    /\ stop' = "room"
    /\ UNCHANGED queue

StopLooks ==
    /\ Stop("room")
    /\ stop' = IF Full THEN "evict" ELSE "signal"
    /\ UNCHANGED <<queue, stream>>

\* An exception ends the attempt without a sentinel.
StopEvicts ==
    /\ Stop("evict")
    /\ IF Empty
       THEN stop' = "join" /\ UNCHANGED queue
       ELSE stop' = "room" /\ GetNowait
    /\ UNCHANGED stream

StopSignals ==
    /\ Stop("signal")
    /\ IF Full THEN UNCHANGED queue ELSE Put(Sentinel)
    /\ stop' = "join"
    /\ UNCHANGED stream

\* join returns when the drain has ended or two seconds have passed.
StopJoins ==
    /\ Stop("join")
    /\ stop' = "stopped"
    /\ UNCHANGED <<queue, stream>>

StopStep == StopLooks \/ StopEvicts \/ StopSignals \/ StopJoins

-----------------------------------------------------------------------------
(* get_recording_stream                                                    *)

Viewer(v, from) ==
    /\ viewer[v] = from
    /\ UNCHANGED <<muxer, written, taken, stream, stop, drain>>

ViewerOpens(v) ==
    /\ Viewer(v, "away")
    /\ stream /\ muxer = "running"      \* otherwise: 503
    /\ viewer' = [viewer EXCEPT ![v] = "opened"]
    /\ UNCHANGED <<queue, shown>>

\* The generator looks the queue up when its first chunk is asked for.
ViewerBegins(v) ==
    /\ Viewer(v, "opened")
    /\ viewer' = [viewer EXCEPT ![v] = IF stream THEN "watching" ELSE "ended"]
    /\ UNCHANGED <<queue, shown>>

\* Mutant of ViewerGets: a LifoQueue, for the freshest frame first.
ViewerGetsLast(v) ==
    /\ Viewer(v, "watching")
    /\ ~Empty
    /\ queue' = SubSeq(queue, 1, Len(queue) - 1)
    /\ LET item == queue[Len(queue)]
       IN  IF item = Sentinel
           THEN viewer' = [viewer EXCEPT ![v] = "ended"] /\ UNCHANGED shown
           ELSE shown' = [shown EXCEPT ![v] = item] /\ UNCHANGED viewer

ViewerGets(v) ==
    /\ Viewer(v, "watching")
    /\ ~Empty
    /\ GetNowait
    /\ IF Head(queue) = Sentinel
       THEN viewer' = [viewer EXCEPT ![v] = "ended"] /\ UNCHANGED shown
       ELSE shown' = [shown EXCEPT ![v] = Head(queue)] /\ UNCHANGED viewer

\* Mutant of ViewerTimesOut: the queue is waited for without a timeout.
ViewerWaits(v) ==
    /\ Viewer(v, "watching")
    /\ Empty
    /\ UNCHANGED <<viewer, queue, shown>>

\* Nothing for 30 seconds.
ViewerTimesOut(v) ==
    /\ Viewer(v, "watching")
    /\ Empty
    /\ viewer' = [viewer EXCEPT ![v] = "ended"]
    /\ UNCHANGED <<queue, shown>>

ViewerLeaves(v) ==
    /\ Viewer(v, "watching")
    /\ viewer' = [viewer EXCEPT ![v] = "ended"]
    /\ UNCHANGED <<queue, shown>>

ViewerStep(v) == ViewerBegins(v) \/ ViewerGets(v) \/ ViewerTimesOut(v)

StreamNext ==
    \/ MuxerWrites \/ MuxerExits
    \/ DrainStep
    \/ StopBegins \/ StopStep
    \/ \E v \in Viewers : ViewerOpens(v) \/ ViewerStep(v) \/ ViewerLeaves(v)

\* Threads run; a client takes what it is sent or leaves; the service
\* terminates the muxer once it has stopped the stream.  A recording need
\* not be stopped.
Fairness ==
    /\ WF_streamVars(DrainStep)
    /\ WF_streamVars(StopStep)
    /\ WF_streamVars(stop = "stopped" /\ MuxerExits)
    /\ \A v \in Viewers : WF_streamVars(ViewerStep(v))

StreamSpec == StreamInit /\ [][StreamNext]_streamVars /\ Fairness

-----------------------------------------------------------------------------
(* Properties                                                              *)

\* No client is ever sent an older frame after a newer one, although drain,
\* stop and every other client take frames out of the same queue.
NeverBack ==
    [][\A v \in Viewers : shown'[v] # shown[v] => shown'[v] > shown[v]]_streamVars

\* However many clients share however few sentinels, every stream ends once
\* the muxer has.
ViewersEnd ==
    \A v \in Viewers :
        muxer = "exited" /\ viewer[v] \in {"opened", "watching"}
            ~> viewer[v] = "ended"

\* Once the muxer has ended the drain thread ends, or waits for room in a
\* queue that nobody reads.
DrainEndsOrWaits ==
    muxer = "exited" ~>
        \/ drain = "ended"
        \/ /\ drain = "signal" /\ Full
           /\ \A v \in Viewers : viewer[v] \in {"away", "ended"}

=============================================================================
