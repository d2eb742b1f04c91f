-------------------------- MODULE SessionLifecycle --------------------------
(***************************************************************************)
(* The flight session: the flight_sessions table, the unlocked cell        *)
(* session_ref that every part of the application shares, the session      *)
(* state shown to the operator and the live home override.                 *)
(*                                                                         *)
(* Three kinds of actor change them.  The `def' handlers of the API run on *)
(* a pool of Threads, concurrently with each other and with the event      *)
(* Loop.  The Loop runs SessionAutoController on each telemetry state and, *)
(* at shutdown, _shutdown_cleanup.  An action is one access to the shared  *)
(* state; pc[a] and sid[a] are the point the actor's handler has reached   *)
(* and the session id in its local variable.                               *)
(***************************************************************************)
EXTENDS Naturals

CONSTANTS
    Threads,    \* the worker threads that run API handlers
    Loop,       \* the event loop
    MaxId       \* bound: rows the table holds at once

ASSUME LoopAssumption == Loop \notin Threads
ASSUME MaxIdAssumption == MaxId \in Nat \ {0}

VARIABLES
    flight_sessions,  \* row id -> "absent", "open" (ended_at NULL) or "ended"
    session_ref,      \* session_ref[0]
    session_state,    \* ConnectionStateStore._session_state
    app_home,         \* {} or {s}: an override set while session_ref was s
    last_armed,       \* SessionAutoController._last_armed
    phase,            \* life of the process
    pc, sid,
    inherited,        \* rows an earlier process left open
    overlap,          \* two operations of this process have overlapped
    fault             \* an end_session of this process has failed

store == <<flight_sessions, session_ref, session_state, app_home>>
vars == <<flight_sessions, session_ref, session_state, app_home, last_armed,
          phase, pc, sid, inherited, overlap, fault>>

NoSession == 0
Ids == 1..MaxId
Actors == Threads \cup {Loop}
Steps == {"idle", "insert", "publish", "activate", "end", "clear", "finish",
          "delete", "shutdown_end", "shutdown_clear"}
Phases == {"up", "draining", "stopping", "exited", "crashed"}

Open == {i \in Ids : flight_sessions[i] = "open"}
AllIdle == \A a \in Actors : pc[a] = "idle"

TypeOK ==
    /\ flight_sessions \in [Ids -> {"absent", "open", "ended"}]
    /\ session_ref \in Ids \cup {NoSession}
    /\ session_state \in {"none", "active"}
    /\ app_home \in SUBSET (Ids \cup {NoSession})
    /\ last_armed \in {"unknown", "armed", "disarmed"}
    /\ phase \in Phases
    /\ pc \in [Actors -> Steps]
    /\ sid \in [Actors -> Ids \cup {NoSession}]
    /\ inherited \in SUBSET Ids
    /\ overlap \in BOOLEAN
    /\ fault \in BOOLEAN

Init ==
    /\ flight_sessions = [i \in Ids |-> "absent"]
    /\ session_ref = NoSession
    /\ session_state = "none"
    /\ app_home = {}
    /\ last_armed = "unknown"
    /\ phase = "up"
    /\ pc = [a \in Actors |-> "idle"]
    /\ sid = [a \in Actors |-> NoSession]
    /\ inherited = {}
    /\ overlap = FALSE
    /\ fault = FALSE

-----------------------------------------------------------------------------
(* Control of a handler.                                                   *)

Begin(a, step, i) ==
    /\ pc[a] = "idle"
    /\ pc' = [pc EXCEPT ![a] = step]
    /\ sid' = [sid EXCEPT ![a] = i]
    /\ overlap' = (overlap \/ \E b \in Actors \ {a} : pc[b] # "idle")

Goto(a, from, to) ==
    /\ pc[a] = from
    /\ pc' = [pc EXCEPT ![a] = to]
    /\ sid' = [sid EXCEPT ![a] = IF to = "idle" THEN NoSession ELSE @]
    /\ UNCHANGED overlap

-----------------------------------------------------------------------------
(* The rows.  Every method of PersistenceService catches every exception:  *)
(* a database fault leaves the table as it was and the caller goes on.     *)

\* SQLite gives an INTEGER PRIMARY KEY without AUTOINCREMENT one more than
\* the largest id in the table: deleting the last row frees its id.
FreshId(i) ==
    /\ \A j \in Ids : j >= i => flight_sessions[j] = "absent"
    /\ \A j \in Ids : j + 1 = i => flight_sessions[j] # "absent"

InsertRow(i) ==
    flight_sessions' = [flight_sessions EXCEPT ![i] = "open"]

EndRow(i) ==
    flight_sessions' =
        [flight_sessions EXCEPT ![i] = IF @ = "absent" THEN @ ELSE "ended"]

DeleteRow(i) ==
    flight_sessions' = [flight_sessions EXCEPT ![i] = "absent"]

\* start_session: the new id is in the handler's hands before anyone else
\* can see it; on failure the handler returns its error.
StartSession(a) ==
    /\ pc[a] = "insert"
    /\ \/ \E i \in Ids :
            /\ FreshId(i)
            /\ InsertRow(i)
            /\ pc' = [pc EXCEPT ![a] = "publish"]
            /\ sid' = [sid EXCEPT ![a] = i]
       \/ /\ pc' = [pc EXCEPT ![a] = "idle"]
          /\ sid' = [sid EXCEPT ![a] = NoSession]
          /\ UNCHANGED flight_sessions
    /\ UNCHANGED <<overlap, fault>>

\* end_session returns nothing: the caller cannot tell a failure.
EndSession(i) ==
    \/ EndRow(i) /\ UNCHANGED fault
    \/ fault' = TRUE /\ UNCHANGED flight_sessions

-----------------------------------------------------------------------------
(* POST /session/start                                                     *)

StartCheck(t) ==
    /\ phase = "up"
    /\ session_ref = NoSession          \* otherwise: already_active
    /\ Begin(t, "insert", NoSession)
    /\ UNCHANGED <<store, last_armed, phase, inherited, fault>>

StartInsert(t) ==
    /\ StartSession(t)
    /\ UNCHANGED <<session_ref, session_state, app_home, last_armed, phase,
                   inherited>>

\* Mutant of StartPublish: a start that finds a session published meanwhile
\* drops its own id and leaves the row it has inserted open.
StartPublishYields(t) ==
    /\ Goto(t, "publish", "activate")
    /\ session_ref' = IF session_ref = NoSession THEN sid[t] ELSE session_ref
    /\ UNCHANGED <<flight_sessions, session_state, app_home, last_armed,
                   phase, inherited, fault>>

StartPublish(t) ==
    /\ Goto(t, "publish", "activate")
    /\ session_ref' = sid[t]
    /\ UNCHANGED <<flight_sessions, session_state, app_home, last_armed,
                   phase, inherited, fault>>

\* The camera recording that follows is the recorder's, not the session's.
StartActivate(t) ==
    /\ Goto(t, "activate", "idle")
    /\ session_state' = "active"
    /\ UNCHANGED <<flight_sessions, session_ref, app_home, last_armed, phase,
                   inherited, fault>>

-----------------------------------------------------------------------------
(* POST /session/stop                                                      *)

\* With no session to end the handler still clears everything.
StopRead(t) ==
    /\ phase = "up"
    /\ Begin(t, IF session_ref = NoSession THEN "clear" ELSE "end",
             session_ref)
    /\ UNCHANGED <<store, last_armed, phase, inherited, fault>>

\* Between this step and the next the handler stops the camera recording,
\* which takes seconds; the row is ended and session_ref still names it.
StopEnd(t) ==
    /\ Goto(t, "end", "clear")
    /\ EndSession(sid[t])
    /\ UNCHANGED <<session_ref, session_state, app_home, last_armed, phase,
                   inherited>>

\* session_ref[0] = None, whatever it holds by now.
StopClear(t) ==
    /\ Goto(t, "clear", "finish")
    /\ session_ref' = NoSession
    /\ UNCHANGED <<flight_sessions, session_state, app_home, last_armed,
                   phase, inherited, fault>>

\* Mutant of StopFinish: the override is not cleared.
StopFinishKeepsHome(t) ==
    /\ Goto(t, "finish", "idle")
    /\ session_state' = "none"
    /\ UNCHANGED <<flight_sessions, session_ref, app_home, last_armed, phase,
                   inherited, fault>>

StopFinish(t) ==
    /\ Goto(t, "finish", "idle")
    /\ app_home' = {}
    /\ session_state' = "none"
    /\ UNCHANGED <<flight_sessions, session_ref, last_armed, phase, inherited,
                   fault>>

-----------------------------------------------------------------------------
(* DELETE /sessions/{i} and POST /live/home                                *)

\* 404 without a row, 400 for the active session.
DeleteCheck(t, i) ==
    /\ phase = "up"
    /\ flight_sessions[i] # "absent"
    /\ i # session_ref
    /\ Begin(t, "delete", i)
    /\ UNCHANGED <<store, last_armed, phase, inherited, fault>>

\* Before this step the handler probes and unlinks every recording of the
\* session, which takes seconds; the row goes without another check.
DeleteCommit(t) ==
    /\ Goto(t, "delete", "idle")
    /\ \/ /\ DeleteRow(sid[t])
          /\ inherited' = inherited \ {sid[t]}
       \/ UNCHANGED <<flight_sessions, inherited>>       \* 500
    /\ UNCHANGED <<session_ref, session_state, app_home, last_armed, phase,
                   fault>>

\* Set (tagged with the session it is set in) or clear the override.
PostLiveHome ==
    /\ phase = "up"
    /\ app_home' \in {{}, {session_ref}}
    /\ UNCHANGED <<flight_sessions, session_ref, session_state, last_armed,
                   phase, pc, sid, inherited, overlap, fault>>

-----------------------------------------------------------------------------
(* SessionAutoController.maybe_auto_start_stop, on a telemetry state that  *)
(* gets past its early returns.  The debounce is abstracted: a tick finds  *)
(* it confirmed or not.                                                    *)

Ticking == phase \in {"up", "draining", "stopping"}

\* A tick that neither starts nor stops a session.  While an arm waits for
\* its debounce _last_armed stays False.
AutoObserve ==
    /\ Ticking
    /\ pc[Loop] = "idle"
    /\ last_armed' \in
        IF session_ref # NoSession THEN {"armed"}
        ELSE IF last_armed = "armed" THEN {"armed", "disarmed"}
        ELSE {"disarmed"}
    /\ UNCHANGED <<store, phase, pc, sid, inherited, overlap, fault>>

AutoArmed ==
    /\ Ticking
    /\ last_armed # "armed"
    /\ session_ref = NoSession
    /\ Begin(Loop, "insert", NoSession)
    /\ UNCHANGED <<store, last_armed, phase, inherited, fault>>

AutoInsert ==
    /\ StartSession(Loop)
    /\ last_armed' = IF pc'[Loop] = "idle" THEN "armed" ELSE last_armed
    /\ UNCHANGED <<session_ref, session_state, app_home, phase, inherited>>

AutoPublish ==
    /\ Goto(Loop, "publish", "activate")
    /\ session_ref' = sid[Loop]
    /\ UNCHANGED <<flight_sessions, session_state, app_home, last_armed,
                   phase, inherited, fault>>

AutoActivate ==
    /\ Goto(Loop, "activate", "idle")
    /\ session_state' = "active"
    /\ last_armed' = "armed"
    /\ UNCHANGED <<flight_sessions, session_ref, app_home, phase, inherited,
                   fault>>

\* Mutant of AutoDisarmed: end_session is not called.
AutoDisarmedNoEnd ==
    /\ Ticking
    /\ session_ref # NoSession
    /\ Begin(Loop, "clear", session_ref)
    /\ UNCHANGED <<store, last_armed, phase, inherited, fault>>

\* The stop branch asks only for a session and a disarmed state: it also
\* stops a session the operator started on the ground.
AutoDisarmed ==
    /\ Ticking
    /\ session_ref # NoSession
    /\ Begin(Loop, "end", session_ref)
    /\ UNCHANGED <<store, last_armed, phase, inherited, fault>>

AutoEnd ==
    /\ Goto(Loop, "end", "clear")
    /\ EndSession(sid[Loop])
    /\ UNCHANGED <<session_ref, session_state, app_home, last_armed, phase,
                   inherited>>

AutoClear ==
    /\ Goto(Loop, "clear", "finish")
    /\ session_ref' = NoSession
    /\ UNCHANGED <<flight_sessions, session_state, app_home, last_armed,
                   phase, inherited, fault>>

\* Mutant of AutoFinish: the session state is not reset.
AutoFinishKeepsState ==
    /\ Goto(Loop, "finish", "idle")
    /\ app_home' = {}
    /\ last_armed' = "disarmed"
    /\ UNCHANGED <<flight_sessions, session_ref, session_state, phase,
                   inherited, fault>>

AutoFinish ==
    /\ Goto(Loop, "finish", "idle")
    /\ app_home' = {}
    /\ session_state' = "none"
    /\ last_armed' = "disarmed"
    /\ UNCHANGED <<flight_sessions, session_ref, phase, inherited, fault>>

-----------------------------------------------------------------------------
(* Shutdown, exit, crash and restart.                                      *)

ShutdownRequested ==
    /\ phase = "up"
    /\ phase' = "draining"
    /\ UNCHANGED <<store, last_armed, pc, sid, inherited, overlap, fault>>

\* _shutdown_cleanup on the loop.  The server has waited for the handlers
\* in flight unless a second signal made it give up on them.
ShutdownBegin ==
    /\ phase = "draining"
    /\ app_home' = {}
    /\ \/ /\ session_ref # NoSession
          /\ Begin(Loop, "shutdown_end", session_ref)
          /\ UNCHANGED phase
       \/ /\ session_ref = NoSession
          /\ pc[Loop] = "idle"
          /\ phase' = "stopping"
          /\ UNCHANGED <<pc, sid, overlap>>
    /\ UNCHANGED <<flight_sessions, session_ref, session_state, last_armed,
                   inherited, fault>>

ShutdownEnd ==
    /\ Goto(Loop, "shutdown_end", "shutdown_clear")
    /\ EndSession(sid[Loop])
    /\ UNCHANGED <<session_ref, session_state, app_home, last_armed, phase,
                   inherited>>

ShutdownClear ==
    /\ Goto(Loop, "shutdown_clear", "idle")
    /\ session_ref' = NoSession
    /\ phase' = "stopping"
    /\ UNCHANGED <<flight_sessions, session_state, app_home, last_armed,
                   inherited, fault>>

\* What a process keeps in memory is as in a new one.
MemoryLost ==
    /\ session_ref' = NoSession
    /\ session_state' = "none"
    /\ app_home' = {}
    /\ last_armed' = "unknown"
    /\ pc' = [a \in Actors |-> "idle"]
    /\ sid' = [a \in Actors |-> NoSession]

\* The atexit hook runs _shutdown_cleanup again, with every thread joined:
\* it ends what a late handler or a late tick started after the first.
Exit ==
    /\ phase = "stopping"
    /\ AllIdle
    /\ IF session_ref = NoSession
       THEN UNCHANGED <<flight_sessions, fault>>
       ELSE EndSession(session_ref)
    /\ MemoryLost
    /\ phase' = "exited"
    /\ UNCHANGED <<inherited, overlap>>

Crash ==
    /\ phase \in {"up", "draining", "stopping"}
    /\ MemoryLost
    /\ phase' = "crashed"
    /\ inherited' = Open
    /\ UNCHANGED <<flight_sessions, overlap, fault>>

\* main() starts with session_ref = [None] and repairs no row.
Restart ==
    /\ phase \in {"exited", "crashed"}
    /\ MemoryLost
    /\ phase' = "up"
    /\ inherited' = Open
    /\ overlap' = FALSE
    /\ fault' = FALSE
    /\ UNCHANGED flight_sessions

ApiStep(t) ==
    \/ StartCheck(t)
    \/ StartInsert(t)
    \/ StartPublish(t)
    \/ StartActivate(t)
    \/ StopRead(t)
    \/ StopEnd(t)
    \/ StopClear(t)
    \/ StopFinish(t)
    \/ \E i \in Ids : DeleteCheck(t, i)
    \/ DeleteCommit(t)

LoopStep ==
    \/ AutoObserve
    \/ AutoArmed
    \/ AutoInsert
    \/ AutoPublish
    \/ AutoActivate
    \/ AutoDisarmed
    \/ AutoEnd
    \/ AutoClear
    \/ AutoFinish
    \/ ShutdownBegin
    \/ ShutdownEnd
    \/ ShutdownClear

Next ==
    \/ \E t \in Threads : ApiStep(t)
    \/ PostLiveHome
    \/ LoopStep
    \/ ShutdownRequested
    \/ Exit
    \/ Crash
    \/ Restart

Spec == Init /\ [][Next]_vars

-----------------------------------------------------------------------------
(* Properties                                                              *)

\* A row is in somebody's hands: published, or held by the handler that has
\* just inserted it or is about to end it.
Tracked ==
    {session_ref} \cup
    {sid[a] : a \in {b \in Actors :
                        pc[b] \in {"publish", "end", "shutdown_end"}}}

Orphan(i) == flight_sessions[i] = "open" /\ i \notin Tracked

\* As long as no two operations of this process have overlapped and the
\* database has not refused to end a session, there is at most one open
\* session besides those a crashed process left, and it is in somebody's
\* hands: start, stop, auto start/stop, delete (with the reuse of row ids)
\* and shutdown, run one after the other, leave nothing behind.
OneOpenSession ==
    ~overlap /\ ~fault =>
        /\ Open \ inherited \subseteq Tracked
        /\ \A i, j \in Open \ inherited : i = j

\* Under the same condition, when nothing is in flight and cleanup has not
\* run, the state the operator sees, the shared cell and the table agree.
StoresAgree ==
    ~overlap /\ ~fault /\ AllIdle /\ phase \in {"up", "draining"} =>
        /\ session_state = "active" <=> session_ref # NoSession
        /\ session_ref # NoSession =>
            session_ref \in Open \ inherited

\* Under the same condition a home override never outlives the session it
\* was set in: the distances of a flight are not computed from the home of
\* an earlier one.
NoStaleHome ==
    ~overlap =>
        \A s \in app_home :
            \/ s = NoSession
            \/ s = session_ref
            \/ \E a \in Actors : pc[a] = "finish"

\* With every interleaving allowed, an open row slips out of everybody's
\* hands in four ways only: a failed end_session, a crash, a start that
\* publishes over a session published meanwhile, a stop (or the cleanup)
\* that wipes a session it did not end.
OverwrittenBy(a, i) ==
    pc[a] = "publish" /\ session_ref = i /\ session_ref' = sid[a]
WipedBy(a, i) ==
    /\ pc[a] \in {"clear", "shutdown_clear"}
    /\ session_ref = i
    /\ session_ref' = NoSession
    /\ sid[a] # i \/ overlap
OrphanCauses ==
    [][\A i \in Ids :
        Orphan(i)' /\ ~Orphan(i) =>
            \/ fault'
            \/ phase' = "crashed"
            \/ \E a \in Actors : OverwrittenBy(a, i) \/ WipedBy(a, i)]_vars

\* "Cannot delete active session" (sessions.py:56): the session that is
\* active has a row.  delete_session checks this, then deletes the
\* recordings, and deletes the row without looking again.
ActiveSessionHasRow ==
    session_ref # NoSession => flight_sessions[session_ref] # "absent"

=============================================================================
