------------------------------ MODULE Recordings ------------------------------
(***************************************************************************)
(* Which recordings belong to a session: files named by the second they    *)
(* were begun in, sidecars that name a session, and sessions that are      *)
(* intervals of a finer clock. A deleted session takes its recordings with *)
(* it. Sources: services/recordings_service.py, api/routers/recordings.py, *)
(* api/routers/sessions.py, services/camera_recording.py (mark_as_auto),   *)
(* services/persistence.py.                                                *)
(*                                                                         *)
(* Time counts instants, a few to a second; no two starts or ends fall     *)
(* together.                                                               *)
(* A flight is a session in truth; its id is what the code knows, and is   *)
(* given again when the last row is deleted.                               *)
(* How starts and stops overlap is SessionLifecycle and CameraRecording:   *)
(* here each is one step. The directory is listed in one step, too.        *)
(* Names that every module has begin with Rec here, so that Storage_proofs *)
(* can extend this module beside Settings.                                 *)
(***************************************************************************)
EXTENDS Naturals, FiniteSets

CONSTANTS
  MaxId,       \* bound: ids of flight_sessions
  MaxFlights,  \* bound: sessions started
  MaxNow,      \* bound: instants
  PerSecond,   \* instants of a second
  Limit        \* _FALLBACK_LIMIT

ASSUME RecordingsConstants ==
  /\ MaxId \in Nat /\ MaxFlights \in Nat /\ MaxNow \in Nat
  /\ PerSecond \in Nat \ {0} /\ Limit \in Nat \ {0}

None == 0
Ids == 1..MaxId

\* strftime("%H%M%S"), and back: a file's name has no part of a second.
Second(t) == PerSecond * (t \div PerSecond)

Names == {Second(t) : t \in PerSecond..MaxNow}

VARIABLES
  now,
  rows,       \* id -> its row: the flight, started_at, ended_at (None: open)
  session,    \* session_ref[0]
  flights,    \* flights so far
  files,      \* name -> the recording in it: when it began and the flights it shows
  meta,       \* name -> its sidecar's session_id and, in truth, the flight meant and whether the
              \* stop that wrote it meant another file
  recording,  \* the name of the file being written, or None
  recorded,   \* _last_recorded_file, or None
  delete,     \* DELETE /sessions/{sid}: its next step and what it has read
  lost        \* history: what the last file unlinked by a session's delete was

recVars == <<now, rows, session, flights, files, meta, recording, recorded, delete, lost>>

NoRow == [flight |-> None, start |-> None, end |-> None]
NoFile == [began |-> None, of |-> {}]
NoMark == [sid |-> None, flight |-> None, stale |-> FALSE]
Idle == [pc |-> "idle", sid |-> None, found |-> {}, marks |-> {}, left |-> {}]
NothingLost == [flight |-> None, of |-> {}, name |-> None, start |-> None, end |-> None, mark |-> NoMark]

Exists(n) == files[n] # NoFile
Present == {n \in Names : Exists(n)}
Marks == {n \in Names : meta[n] # NoMark}
FlightNow == IF session = None THEN None ELSE rows[session].flight

RecInit ==
  /\ now = PerSecond /\ rows = [i \in Ids |-> NoRow] /\ session = None /\ flights = 0
  /\ files = [n \in Names |-> NoFile] /\ meta = [n \in Names |-> NoMark] /\ recording = None
  /\ recorded = None /\ delete = Idle /\ lost = NothingLost

-----------------------------------------------------------------------------
(* Names, ranges and the filter.                                           *)

\* get_session_time_range: nothing for a row that is not there.
SessionRange(sid) == rows[sid]

\* Mutant: a session ends an instant later.
EndRounded(r) == IF r.end = None THEN now ELSE r.end + 1

\* _to_utc(end_dt) or now.
End(r) == IF r.end = None THEN now ELSE r.end

InRange(n, r) == n >= r.start /\ n <= End(r)

\* Mutant: sidecars are not looked at.
MatchesNoMark(n, marked, sid) == InRange(n, SessionRange(sid))

\* In the time range or marked by the sidecar that was read with it.
Matches(n, marked, sid) == InRange(n, SessionRange(sid)) \/ n \in marked

MarkedFor(sid) == {n \in Names : meta[n].sid = sid}

\* All candidates, newest first, cut off at the limit.
Newest(found) == {n \in found : Cardinality({m \in found : m > n}) < Limit}

\* get_recordings with the fallback, as the lists use it.
GetRecordings(sid) ==
  IF SessionRange(sid) = NoRow THEN Newest(Present)
  ELSE {n \in Present : Matches(n, MarkedFor(sid), sid)}

\* The routes add the recording under way to the list of the active session.
Listed(sid) == GetRecordings(sid) \cup (IF sid = session THEN {recording} \ {None} ELSE {})

-----------------------------------------------------------------------------
(* Sessions and recordings come and go.                                    *)

Later == now < MaxNow /\ now' = now + 1

Tick ==
  /\ Later
  /\ UNCHANGED <<rows, session, flights, files, meta, recording, recorded, delete, lost>>

\* The recording under way shows the flight from now on.
Shows(f) ==
  IF recording = None \/ ~Exists(recording) THEN files
  ELSE [files EXCEPT ![recording].of = @ \cup {f}]

\* SQLite's next id: one more than the largest there is.
FreshId(id) ==
  /\ \A i \in Ids : i >= id => rows[i] = NoRow
  /\ id # 1 => rows[id - 1] # NoRow

StartSession ==
  /\ Later
  /\ session = None /\ flights < MaxFlights /\ flights' = flights + 1
  /\ \E id \in Ids :
       /\ FreshId(id)
       /\ rows' = [rows EXCEPT ![id] = [flight |-> flights + 1, start |-> now, end |-> None]]
       /\ session' = id
  /\ files' = Shows(flights + 1)
  /\ UNCHANGED <<meta, recording, recorded, delete, lost>>

Ended == IF session = None THEN rows ELSE [rows EXCEPT ![session].end = now]

\* SessionAutoController ends a session and leaves the recording alone.
EndSession ==
  /\ Later
  /\ session # None /\ rows' = Ended /\ session' = None
  /\ UNCHANGED <<flights, files, meta, recording, recorded, delete, lost>>

\* mark_as_auto, for a file that is there; the write may fail.
Mark(n, sid, stale) ==
  meta' \in {meta} \cup
    (IF n = None \/ sid = None \/ ~Exists(n) THEN {}
     ELSE {[meta EXCEPT ![n] = [sid |-> sid, flight |-> FlightNow, stale |-> stale]]})

\* stop_recording, and the sidecar for the last recorded file: the one that ends, or an older one if
\* the camera has died since it was seen alive.
StopAndMark(sid) ==
  /\ recording' = None
  /\ \/ recorded' = recording /\ Mark(recording, sid, FALSE)
     \/ UNCHANGED recorded /\ Mark(recorded, sid, TRUE)

\* POST /session/stop: the row, the recording, its sidecar, session_ref.
StopSession ==
  /\ Later
  /\ session # None \/ recording # None
  /\ rows' = Ended /\ session' = None
  /\ IF recording = None THEN UNCHANGED <<recording, recorded, meta>> ELSE StopAndMark(session)
  /\ UNCHANGED <<flights, files, delete, lost>>

\* A file of the same second is overwritten (ffmpeg -y), its sidecar is not.
StartRecording ==
  /\ Later
  /\ recording = None
  /\ recording' = Second(now)
  /\ files' = [files EXCEPT ![Second(now)] = [began |-> now, of |-> {FlightNow} \ {None}]]
  /\ UNCHANGED <<rows, session, flights, meta, recorded, delete, lost>>

\* By hand; or the camera dies, and its file is not the last recorded one.
StopRecording ==
  /\ recording # None /\ recording' = None /\ recorded' \in {recording, recorded}
  /\ UNCHANGED <<now, rows, session, flights, files, meta, delete, lost>>

\* RecordingAutoController, on disarm.
AutoStopRecording ==
  /\ recording # None /\ StopAndMark(session)
  /\ UNCHANGED <<now, rows, session, flights, files, delete, lost>>

\* A crash and the next start: the row stays open, the files stay.
Crash ==
  /\ session' = None /\ recording' = None /\ recorded' = None /\ delete' = Idle
  /\ UNCHANGED <<now, rows, flights, files, meta, lost>>

-----------------------------------------------------------------------------
(* DELETE /recordings/{filename} and DELETE /sessions/{sid}.               *)

\* delete_recording: the file, then its sidecar; either unlink may fail. A sidecar that could
\* not be removed stays.
Unlink(n) ==
  \/ UNCHANGED <<files, meta>>
  \/ files' = [files EXCEPT ![n] = NoFile] /\ meta' \in {meta, [meta EXCEPT ![n] = NoMark]}

DeleteRecording ==
  /\ \E n \in Present : Unlink(n)
  /\ UNCHANGED <<now, rows, session, flights, recording, recorded, delete, lost>>

\* 404 without a row, 400 for the active session.
Deletable(sid) == rows[sid] # NoRow /\ sid # session

DeleteCheck(sid) ==
  /\ delete = Idle /\ Deletable(sid)
  /\ delete' = [Idle EXCEPT !.pc = "scan", !.sid = sid]
  /\ UNCHANGED <<now, rows, session, flights, files, meta, recording, recorded, lost>>

\* The directory and the sidecars are read, with an ffprobe for every file.
DeleteScan ==
  /\ delete.pc = "scan"
  /\ delete' = [delete EXCEPT !.pc = "filter", !.found = Present, !.marks = MarkedFor(delete.sid)]
  /\ UNCHANGED <<now, rows, session, flights, files, meta, recording, recorded, lost>>

\* Then the session's range, and the filter; nothing for a row that has gone.
DeleteFilter ==
  /\ delete.pc = "filter"
  /\ delete' = [Idle EXCEPT !.pc = "files", !.sid = delete.sid,
                  !.left = {n \in delete.found : SessionRange(delete.sid) # NoRow
                                                   /\ Matches(n, delete.marks, delete.sid)}]
  /\ UNCHANGED <<now, rows, session, flights, files, meta, recording, recorded, lost>>

\* Newest first. A file that has gone meanwhile counts as failed.
DeleteFile ==
  /\ delete.pc = "files"
  /\ \E n \in delete.left :
       LET r == SessionRange(delete.sid) IN
       /\ \A m \in delete.left : m <= n
       /\ delete' = [delete EXCEPT !.left = @ \ {n}]
       /\ IF Exists(n) THEN Unlink(n) ELSE UNCHANGED <<files, meta>>
       /\ lost' = IF Exists(n) /\ files'[n] = NoFile
                  THEN [flight |-> r.flight, of |-> files[n].of, name |-> n,
                        start |-> r.start, end |-> r.end, mark |-> meta[n]]
                  ELSE lost
  /\ UNCHANGED <<now, rows, session, flights, recording, recorded>>

\* The row goes, whatever became of the files.
DeleteCommit ==
  /\ delete.pc = "files" /\ delete.left = {}
  /\ rows' = [rows EXCEPT ![delete.sid] = NoRow]
  /\ delete' = Idle
  /\ UNCHANGED <<now, session, flights, files, meta, recording, recorded, lost>>

RecNext ==
  \/ Tick \/ StartSession \/ EndSession \/ StopSession \/ Crash
  \/ StartRecording \/ StopRecording \/ AutoStopRecording \/ DeleteRecording
  \/ \E sid \in Ids : DeleteCheck(sid)
  \/ DeleteScan \/ DeleteFilter \/ DeleteFile \/ DeleteCommit

RecSpec == RecInit /\ [][RecNext]_recVars

-----------------------------------------------------------------------------
\* The active session has an open row; the flights of the rows are different; a file began in the
\* second it is named after.
RecTypeOK ==
  /\ session # None => rows[session] # NoRow /\ rows[session].end = None
  /\ \A i, k \in Ids : i # k /\ rows[i] # NoRow => rows[i].flight # rows[k].flight
  /\ \A n \in Present : n = Second(files[n].began) /\ files[n].of \subseteq 1..flights
  /\ {recording, recorded} \subseteq Names \cup {None}
  /\ delete.pc \in {"idle", "scan", "filter", "files"} /\ delete.left \subseteq Names

\* A recording deleted with a session shows it, except that: the session was left open by a crash
\* and matched everything since; a sidecar outlived the session it was written for and its id was
\* given again; the stop that wrote the sidecar found the camera dead and marked the last recorded
\* file; or the recording began within the second in which the session ended
\* (delete_recordings_for_session, get_recordings, post_session_stop, maybe_auto_record).
OnlyItsRecordingsLost ==
  \/ lost.flight \in lost.of
  \/ lost = NothingLost
  \/ lost.end = None
  \/ lost.mark.flight # lost.flight /\ lost.mark # NoMark
  \/ lost.mark.stale
  \/ lost.name = Second(lost.end)

\* A recording begun in a flight that has its row is listed there, unless its name says a second
\* in which the flight had not begun and no sidecar says better (get_recordings, mark_as_auto).
RecordingsListed ==
  \A i \in Ids, n \in Present :
    LET r == rows[i] b == files[n].began IN
    r # NoRow /\ r.start <= b /\ (r.end = None \/ b <= r.end) =>
      n \in Listed(i) \/ (n < r.start /\ meta[n].sid # i)
==============================================================================
