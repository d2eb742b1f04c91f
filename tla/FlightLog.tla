------------------------------- MODULE FlightLog -------------------------------
(***************************************************************************)
(* What the telemetry loop leaves in the database: the preprocessing       *)
(* engines with their hysteresis, the five recorders that each look at     *)
(* session_ref on their own, the API readers that advance the same         *)
(* engines, the sessions that threads start, stop and replace between any  *)
(* two recorders, and the path and the debrief computed from the rows.     *)
(* Sources: services/persistence_recorders.py,                             *)
(* telemetry/preprocessing/, services/persistence.py, main.py.             *)
(*                                                                         *)
(* Time is the timestamp of the latest state: `now' moves with the states. *)
(* An AircraftState is a record of the fields the engines and recorders    *)
(* tell apart; the readings that the eight event checks compare are        *)
(* reduced to their verdicts (`alarms', `skipped'), and climb rate and     *)
(* speed to the phase they tell (`motion'); `climb' says whether the link  *)
(* has sent a climb rate. The verdict of a check that looks at the way     *)
(* home depends on where home is: `far' has the homes that are too far.    *)
(* That of a check that looks at the buffers depends on what they hold:    *)
(* `alone' has the alarms where they hold the states of a session alone.   *)
(*                                                                         *)
(* Names that every module has begin with Log here, so that a module of    *)
(* proofs can extend this one beside AutoArm, the rest of the loop.        *)
(***************************************************************************)
EXTENDS Integers, Sequences, FiniteSets, SequencesExt

CONSTANTS
  Events,         \* names in the check list of the event engine
  HomeEvents,     \* those whose check needs the distance to home
  WindowEvents,   \* those whose check looks at the buffers
  Stable,         \* FeatureEngine endurance_stable_samples
  States,         \* the aircraft states the source may yield
  Gaps,           \* time from one state to the next
  Hold,           \* FlightPhaseEngine hold_samples
  Open, Clear,    \* EventEngine open_samples, clear_samples
  SampleInterval, \* TelemetrySampler interval_sec
  MinDistance,    \* PathRecorder min_distance_m
  SampleLimit,    \* DebriefEngine.generate sample_limit
  MaxSessions,    \* bound: sessions started
  MaxRaced,       \* bound: sessions started or stopped within a tick
  MaxAsked,       \* bound: summaries asked for
  MaxNow          \* bound: time

Motions == {"climb", "descent", "cruise", "unknown"}

TelemetryStatus == {"starting", "connecting", "connected", "stale", "disconnected", "backoff"}

ModePhase == [RTL |-> "rtl", LOITER |-> "loiter", CIRCLE |-> "loiter", QLAND |-> "landing",
              AUTOLAND |-> "landing", TAKEOFF |-> "takeoff"]

GenericModes == {"AUTO", "GUIDED", "FBWA", "FBWB", "CRUISE", "STABILIZE", ""}

\* A state as it is read; `at' is when, and 0 before the first. Modes the phase engine does not
\* know are "other". `home' is the autopilot's, if it has sent one, `override' the operator's when
\* the state came, which only the preprocessor is given. `young' is how many of the states before it
\* the buffers still keep, by age and length, and `filled' how many states they then hold.
AircraftStates ==
  [at : Nat, armed : BOOLEAN, mode : DOMAIN ModePhase \cup GenericModes \cup {"other"},
   motion : Motions, climb : BOOLEAN, alt : Int, alarms : SUBSET Events, alone : SUBSET Events,
   skipped : SUBSET Events, place : Nat, home : Nat, override : Nat, far : SUBSET Nat,
   young : Nat, filled : Nat, status : TelemetryStatus]

ASSUME FlightLogConstants ==
  /\ Hold \in Nat \ {0} /\ Open \in Nat \ {0} /\ Clear \in Nat \ {0}
  /\ Gaps \subseteq Nat \ {0}
  /\ SampleInterval \in Nat /\ MinDistance \in Nat /\ SampleLimit \in Nat \ {0}
  /\ MaxSessions \in Nat /\ MaxRaced \in Nat /\ MaxAsked \in Nat /\ MaxNow \in Nat
  /\ IsFiniteSet(Events) /\ HomeEvents \subseteq Events /\ WindowEvents \subseteq Events
  /\ Stable \in Nat \ {0}
  /\ States \subseteq AircraftStates

\* Sentinels: no session, no place, no phase, no state yet.
None == 0
Nothing == "nothing"
NoState == [at |-> 0, armed |-> FALSE, mode |-> "", motion |-> "unknown", climb |-> FALSE, alt |-> 0,
            alarms |-> {}, alone |-> {}, skipped |-> Events, place |-> None, home |-> None,
            override |-> None, far |-> {}, young |-> 0, filled |-> 0, status |-> "backoff"]

VARIABLES
  now,      \* timestamp of the latest state
  slot,     \* session_ref[0]
  sessions, \* flight_sessions: row i belongs to session i
  tick,     \* the statement of _telemetry_loop that is next
  state,    \* TelemetryPreprocessor._last_state, also the state of the tick
  phase,    \* FlightPhaseEngine._state
  event,    \* EventEngine._states
  asking,   \* a telemetry summary is between get_llm_context and get_summary
  rec,      \* memory of the five recorders
  rows,     \* the tables the recorders write
  recent,   \* history: the latest states and how often the engines read them
  raced,    \* bound: sessions started or stopped in the middle of a tick
  asked     \* bound: summaries asked for

logVars == <<now, slot, sessions, tick, state, phase, event, asking, rec, rows, recent, raced, asked>>

-----------------------------------------------------------------------------
(* The preprocessing engines.                                              *)

\* Priority: no state, disarmed, mode, motion (climb and speed) in a generic mode.
RawPhase(s) ==
  CASE s.at = 0 -> "unknown"
    [] s.at # 0 /\ ~s.armed -> "disarmed"
    [] s.at # 0 /\ s.armed /\ s.mode \in DOMAIN ModePhase -> ModePhase[s.mode]
    [] s.at # 0 /\ s.armed /\ s.mode \in GenericModes -> s.motion
    [] OTHER -> "unknown"

FreshPhase == [current |-> "unknown", candidate |-> "unknown", hold |-> 0]

\* FlightPhaseEngine.classify: the phase of _state.current is the answer.
Classify(ph, raw) ==
  CASE raw = ph.current -> [ph EXCEPT !.candidate = raw, !.hold = 0]
    [] raw # ph.current /\ raw # ph.candidate -> [ph EXCEPT !.candidate = raw, !.hold = 1]
    [] OTHER -> IF ph.hold + 1 >= Hold THEN [ph EXCEPT !.current = raw, !.hold = 0]
                ELSE [ph EXCEPT !.hold = @ + 1]

\* The home of the state that the preprocessor is given.
Home(s) == IF s.override # None THEN s.override ELSE s.home

\* How many states the buffers hold when they held n and one more comes.
Filled(n, s) == 1 + (IF n < s.young THEN n ELSE s.young)

\* Whether the condition of a check holds. Without a place or a home the way home has no length, and
\* with few states the endurance is not trusted.
Condition(s, e) ==
  IF e \in HomeEvents
  THEN s.filled >= Stable /\ s.place # None /\ Home(s) # None /\ Home(s) \in s.far
  ELSE e \in s.alarms

\* The verdict of one check: its condition, or "skip" where the check returns None.
Check(s, e) == CASE e \in s.skipped -> "skip"
                 [] e \notin s.skipped /\ Condition(s, e) -> "alarm"
                 [] OTHER -> "calm"

FreshEvent == [open |-> FALSE, up |-> 0, down |-> 0, since |-> 0]

\* open_count stops at Open: beyond it no comparison can tell the values apart.
Raise(ev, at) ==
  LET up == IF ev.up < Open THEN ev.up + 1 ELSE Open
      opens == up >= Open /\ ~ev.open
  IN [open |-> ev.open \/ opens, up |-> up, down |-> 0, since |-> IF opens THEN at ELSE ev.since]

\* Mutant: closing an event leaves its open_count.
LowerKeepsCount(ev) ==
  IF ev.down + 1 >= Clear THEN [ev EXCEPT !.open = FALSE, !.down = @ + 1]
  ELSE [ev EXCEPT !.down = @ + 1]

\* An open event without its condition.
Lower(ev) ==
  IF ev.down + 1 >= Clear THEN [ev EXCEPT !.open = FALSE, !.up = 0, !.down = @ + 1]
  ELSE [ev EXCEPT !.down = @ + 1]

\* A skipped check counts towards closing an open event but leaves open_count alone.
Judge(ev, verdict, at) ==
  CASE verdict = "alarm" -> Raise(ev, at)
    [] verdict # "alarm" /\ ev.open -> Lower(ev)
    [] verdict = "skip" /\ ~ev.open -> [ev EXCEPT !.down = 0]
    [] OTHER -> [ev EXCEPT !.up = 0]

Evaluate(evs, s, at) == [e \in Events |-> Judge(evs[e], Check(s, e), at)]

OpenIn(evs) == {e \in Events : evs[e].open}

-----------------------------------------------------------------------------
(* The tables and what is computed from them.                              *)

\* The rows of get_session_telemetry, from their positions in the table; so is a path below.
SamplesOf(table, id) == {i \in DOMAIN table.samples : table.samples[i].session = id}

\* The rows that GET /sessions/{sid}/phase-intervals and .../flight-events answer; the routes order
\* them by their starts.
PhaseIntervals(table, id) == {r \in ToSet(table.phases) : r.session = id}
FlightEvents(table, id) == {r \in ToSet(table.events) : r.session = id}

\* The columns the model keeps of each table.
SampleRow(id, s) == [session |-> id, state |-> s]
PointRow(id, at, place) == [session |-> id, at |-> at, place |-> place]
TransitionRow(id, from, to) == [session |-> id, from |-> from, to |-> to]
EventRow(id, e, from, to) == [session |-> id, event |-> e, from |-> from, to |-> to]
IntervalRow(id, ph, from, to) == [session |-> id, phase |-> ph, from |-> from, to |-> to]

\* An insert that fails would only leave its row out: it is logged and the recorder never knows.
Insert(table, new) == rows' = [rows EXCEPT ![table] = @ \o new]

\* The rows of a session that have a place.
PointsOf(table, id) == {i \in DOMAIN table.path : table.path[i].session = id}
PlacedOf(table, id) == {i \in SamplesOf(table, id) : table.samples[i].state.place # None}

PathOfPoints(table, id) == [i \in PointsOf(table, id) |-> table.path[i].place]
PathOfSamples(table, id) == [i \in PlacedOf(table, id) |-> table.samples[i].state.place]

\* Mutant: the samples are preferred.
PathBySamples(table, id) ==
  IF PlacedOf(table, id) # {} THEN PathOfSamples(table, id) ELSE PathOfPoints(table, id)

\* get_session_path: path points if there are any, else the samples with a position.
Path(table, id) ==
  IF PointsOf(table, id) # {} THEN PathOfPoints(table, id) ELSE PathOfSamples(table, id)

\* get_session_home: the home set by hand for the session, else the first that a sample has, else
\* where the first sample is. Where no sample has a place no home matters.
SessionHome(table, id, manual) ==
  LET homed == {i \in SamplesOf(table, id) : table.samples[i].state.home # None}
      placed == PlacedOf(table, id)
  IN [override |-> manual # None,
      place |-> CASE manual # None -> manual
                  [] manual = None /\ homed # {} -> table.samples[Min(homed)].state.home
                  [] manual = None /\ homed = {} /\ placed # {} -> table.samples[Min(placed)].state.place
                  [] OTHER -> None]

\* Mutant: the debrief does not hold a phase.
DebriefSampleRaw(d, row, h) ==
  LET ev == Evaluate(d.event, row.state, row.state.at)
  IN [phase |-> [FreshPhase EXCEPT !.current = RawPhase(row.state)], event |-> ev,
      occurred |-> d.occurred \cup OpenIn(ev), prev |-> {row}, filled |-> row.state.filled]

\* _derive_climb_rate, as the motion it tells: from the altitudes of two samples.
Derived(prev, row) ==
  LET rise == row.state.alt - prev.state.alt
  IN CASE rise > 0 -> "climb" [] rise < 0 -> "descent" [] OTHER -> row.state.motion

\* The alarms of a row, with as many states in the buffers of the debrief.
Alarms(row, filled) ==
  IF filled = row.state.filled THEN row.state.alarms
  ELSE (row.state.alarms \ WindowEvents) \cup (row.state.alone \cap WindowEvents)

\* _sample_to_state: a sample stored without a climb rate gets one from the sample before it, one
\* without a home the session's; a home set by hand replaces every other. The row does not keep
\* the operator's override. The buffers are the debrief's own.
StateOf(d, row, h) ==
  LET filled == Filled(d.filled, row.state)
  IN [row.state EXCEPT !.motion = IF row.state.climb \/ d.prev = {} THEN @
                                  ELSE Derived(CHOOSE r \in d.prev : TRUE, row),
                       !.home = IF h.override \/ @ = None THEN h.place ELSE @,
                       !.override = None, !.filled = filled, !.alarms = Alarms(row, filled)]

\* One sample of DebriefEngine.generate, with buffers and engines of its own; durations are left out.
DebriefSample(d, row, h) ==
  LET s == StateOf(d, row, h)
      ev == Evaluate(d.event, s, s.at)
  IN [phase |-> Classify(d.phase, RawPhase(s)), event |-> ev,
      occurred |-> d.occurred \cup OpenIn(ev), prev |-> {row}, filled |-> s.filled]

FreshDebrief ==
  [phase |-> FreshPhase, event |-> [e \in Events |-> FreshEvent], occurred |-> {}, prev |-> {},
   filled |-> 0]

\* What the debrief of a session with the home h has found after each of the rows.
Debriefs(samples, id, h) ==
  LET found[n \in 0..Len(samples)] ==
        IF n = 0 THEN FreshDebrief
        ELSE IF samples[n].session = id THEN DebriefSample(found[n - 1], samples[n], h)
        ELSE found[n - 1]
  IN found

\* How far a debrief may read the table: get_session_telemetry answers with the oldest rows.
Readable(table, id) ==
  {n \in 0..Len(table.samples) :
     Cardinality({i \in SamplesOf(table, id) : i <= n}) <= SampleLimit}

Debrief(table, id, manual) ==
  Debriefs(table.samples, id, SessionHome(table, id, manual))[Max(Readable(table, id))]

-----------------------------------------------------------------------------
LogInit ==
  /\ now = 0 /\ slot = None /\ sessions = <<>>
  /\ tick = "wait" /\ state = NoState
  /\ phase = FreshPhase /\ event = [e \in Events |-> FreshEvent]
  /\ asking = FALSE
  /\ rec = [sampled |-> 0 - SampleInterval, place |-> None, status |-> Nothing,
            open |-> [e \in {} |-> 0], eventSession |-> None,
            phase |-> Nothing, since |-> 0, phaseSession |-> None]
  /\ rows = [samples |-> <<>>, path |-> <<>>, status |-> <<>>, events |-> <<>>, phases |-> <<>>]
  /\ recent = <<>> /\ raced = 0 /\ asked = 0

\* History: one more read of the latest state by the phase or the event engine.
CountRead(r, kinds) ==
  [r EXCEPT !.phaseReads = IF "phase" \in kinds /\ @ < 2 THEN @ + 1 ELSE @,
            !.eventReads = IF "event" \in kinds /\ @ < 2 THEN @ + 1 ELSE @]

Read(kinds) == recent' = IF recent = <<>> THEN recent
                         ELSE [recent EXCEPT ![Len(recent)] = CountRead(@, kinds)]

Window == CHOOSE w \in {Hold, Open, Clear} : \A v \in {Hold, Open, Clear} : v <= w

\* The source yields a state; store.update and preprocessor.on_state.
NewState ==
  /\ tick = "wait" /\ now < MaxNow
  /\ \E s \in States, g \in Gaps :
       LET at == now + g IN
       /\ at <= MaxNow
       /\ now' = at
       /\ state' = [s EXCEPT !.at = at, !.filled = Filled(state.filled, s)]
       /\ recent' = LET all == Append(recent, [state |-> state', phaseReads |-> 0, eventReads |-> 0])
                    IN IF Len(all) > Window THEN Tail(all) ELSE all
  /\ tick' = "sample"
  /\ UNCHANGED <<slot, sessions, phase, event, asking, rec, rows, raced, asked>>

\* History: the running session has a state that was not stored, or that was read again.
Inexact == IF slot = None THEN sessions
           ELSE [sessions EXCEPT ![slot].exact = FALSE]

\* TelemetrySampler: at most one sample per interval, whatever the session.
Sample ==
  /\ tick = "sample" /\ tick' = "path"
  /\ IF slot # None /\ now - rec.sampled >= SampleInterval
     THEN /\ rec' = [rec EXCEPT !.sampled = now]
          /\ Insert("samples", <<SampleRow(slot, state)>>)
          /\ UNCHANGED sessions
     ELSE UNCHANGED <<rec, rows>> /\ sessions' = Inexact
  /\ UNCHANGED <<now, slot, state, phase, event, asking, recent, raced, asked>>

Apart(p, q) == IF p < q THEN q - p ELSE p - q

\* PathRecorder: the last point stays the reference from one session to the next.
RecordPath ==
  /\ tick = "path" /\ tick' = "status"
  /\ IF /\ slot # None /\ state.place # None
        /\ rec.place = None \/ Apart(rec.place, state.place) >= MinDistance
     THEN /\ rec' = [rec EXCEPT !.place = state.place]
          /\ Insert("path", <<PointRow(slot, now, state.place)>>)
     ELSE UNCHANGED <<rec, rows>>
  /\ UNCHANGED <<now, slot, sessions, state, phase, event, asking, recent, raced, asked>>

\* TelemetryLifecycleLogger: transitions, also those that happened between sessions.
LogTransition ==
  /\ tick = "status" /\ tick' = "event"
  /\ IF slot # None /\ rec.status # state.status
     THEN /\ rec' = [rec EXCEPT !.status = state.status]
          /\ Insert("status", <<TransitionRow(slot, rec.status, state.status)>>)
     ELSE UNCHANGED <<rec, rows>>
  /\ UNCHANGED <<now, slot, sessions, state, phase, event, asking, recent, raced, asked>>

Drop(f, names) == [e \in DOMAIN f \ names |-> f[e]]

\* Mutant: the events of a session that has ended are stored but not forgotten.
FlushedNot(names) == rec.open

\* The events still tracked after those of a session that has ended are stored.
Flushed(names) == IF rec.eventSession # None THEN Drop(rec.open, names) ELSE rec.open

\* The rows of tracked events that end.
EndedRows(id, ended) ==
  LET names == SetToSeq(ended)
  IN [i \in DOMAIN names |-> EventRow(id, names[i], rec.open[names[i]], now)]

\* EventPersistenceRecorder. The engine is evaluated only while there is a session; an event
\* that closes is stored for the session of this tick with the start it was first seen with.
PersistEvents ==
  /\ tick = "event" /\ tick' = "phase"
  /\ LET last == rec.eventSession
         judged == Evaluate(event, state, now)
         ended == IF slot = None THEN DOMAIN rec.open ELSE DOMAIN rec.open \ OpenIn(judged)
         stored == EndedRows(IF slot = None THEN last ELSE slot, ended)
     IN IF slot = None
        THEN /\ rec' = [rec EXCEPT !.open = Flushed(ended), !.eventSession = None]
             /\ Insert("events", IF last # None THEN stored ELSE <<>>)
             /\ UNCHANGED <<event, recent>>
        ELSE /\ event' = judged /\ Read({"event"})
             /\ rec' = [rec EXCEPT !.eventSession = slot,
                          !.open = [e \in OpenIn(judged) |-> IF e \in DOMAIN @ THEN @[e] ELSE judged[e].since]]
             /\ Insert("events", stored)
  /\ UNCHANGED <<now, slot, sessions, state, phase, asking, raced, asked>>

\* Mutant: only the first interval of a session gets a start.
IntervalStartFirst(current) == IF rec.phase = Nothing THEN now ELSE rec.since

\* Start of the open interval after the engine has answered.
IntervalStart(current) == IF current # rec.phase THEN now ELSE rec.since

\* PhasePersistenceRecorder. Only a tick without a session closes the open interval; the two
\* auto controllers that end the tick are SessionStart and SessionStop here.
PersistPhase ==
  /\ tick = "phase" /\ tick' = "wait"
  /\ LET ph == Classify(phase, RawPhase(state))
         interval == <<IntervalRow(IF slot = None THEN rec.phaseSession ELSE slot,
                                   rec.phase, rec.since, now)>>
     IN IF slot = None
        THEN /\ rec' = [rec EXCEPT !.phase = Nothing, !.since = 0, !.phaseSession = None]
             /\ Insert("phases", IF rec.phaseSession # None /\ rec.phase # Nothing
                                 THEN interval ELSE <<>>)
             /\ UNCHANGED <<phase, recent>>
        ELSE /\ phase' = ph /\ Read({"phase"})
             /\ rec' = [rec EXCEPT !.phaseSession = slot, !.phase = ph.current,
                                   !.since = IntervalStart(ph.current)]
             /\ Insert("phases", IF rec.phase # Nothing /\ ph.current # rec.phase
                                 THEN interval ELSE <<>>)
  /\ UNCHANGED <<now, slot, sessions, state, event, asking, raced, asked>>

\* POST /ai/telemetry-summary, on the loop between two ticks: get_llm_context reads both
\* engines, get_summary the phase engine once more when the answer has come.
AskSummary ==
  /\ tick = "wait" /\ ~asking /\ asking' = TRUE
  /\ asked < MaxAsked /\ asked' = asked + 1
  /\ phase' = Classify(phase, RawPhase(state)) /\ event' = Evaluate(event, state, now)
  /\ Read({"phase", "event"})
  /\ sessions' = Inexact
  /\ UNCHANGED <<now, slot, tick, state, rec, rows, raced>>

AnswerSummary ==
  /\ tick = "wait" /\ asking /\ asking' = FALSE
  /\ phase' = Classify(phase, RawPhase(state)) /\ Read({"phase"})
  /\ sessions' = Inexact
  /\ UNCHANGED <<now, slot, tick, state, event, rec, rows, raced, asked>>

Race == IF tick = "wait" THEN UNCHANGED raced ELSE raced < MaxRaced /\ raced' = raced + 1

\* POST /session/start in a thread, at any point of a tick: the cell is assigned. It was empty when
\* the request came; a session that another start has put there since is replaced. What the
\* properties need to know of the moment is kept with the row.
SessionStart ==
  /\ Len(sessions) < MaxSessions
  /\ Race
  /\ slot' = Len(sessions) + 1
  /\ sessions' = Append(sessions, [start |-> now, open |-> OpenIn(event), place |-> rec.place,
                       seen |-> [event |-> rec.eventSession = None, phase |-> rec.phaseSession = None],
                       exact |-> tick \in {"wait", "sample"},
                       alone |-> state.filled = IF tick = "wait" THEN 0 ELSE 1])
  /\ UNCHANGED <<now, tick, state, phase, event, asking, rec, rows, recent, asked>>

\* POST /session/stop: one assignment to session_ref as far as the recorders can see.
SessionStop ==
  /\ slot # None /\ slot' = None /\ Race
  /\ UNCHANGED <<now, sessions, tick, state, phase, event, asking, rec, rows, recent, asked>>

LogNext ==
  \/ NewState \/ Sample \/ RecordPath \/ LogTransition \/ PersistEvents \/ PersistPhase
  \/ AskSummary \/ AnswerSummary \/ SessionStart \/ SessionStop

LogSpec == LogInit /\ [][LogNext]_logVars

-----------------------------------------------------------------------------
Statuses == TelemetryStatus \cup {Nothing}

PhaseNames == Motions \cup {"disarmed", "rtl", "loiter", "landing", "takeoff"}

SessionRows == [start : Nat, open : SUBSET Events, place : Nat,
                seen : [event : BOOLEAN, phase : BOOLEAN], exact : BOOLEAN, alone : BOOLEAN]

Memory == [sampled : Int, place : Nat, status : Statuses, open : {rec.open}, eventSession : Nat,
           phase : PhaseNames \cup {Nothing}, since : Nat, phaseSession : Nat]

Tables == [samples : Seq([session : Nat, state : AircraftStates]),
           path : Seq([session : Nat, at : Nat, place : Nat]),
           status : Seq([session : Nat, from : Statuses, to : TelemetryStatus]),
           events : Seq([session : Nat, event : Events, from : Nat, to : Nat]),
           phases : Seq([session : Nat, phase : PhaseNames, from : Nat, to : Nat])]

\* The engines, the recorders' memory and the tables hold what their types allow.
LogTypeOK ==
  /\ now \in Nat /\ sessions \in Seq(SessionRows) /\ slot \in 0..Len(sessions)
  /\ tick \in {"wait", "sample", "path", "status", "event", "phase"}
  /\ state \in AircraftStates /\ state.at = now
  /\ phase \in [current : PhaseNames, candidate : PhaseNames, hold : 0..Hold]
  /\ event \in [Events -> [open : BOOLEAN, up : 0..Open, down : 0..Clear, since : Nat]]
  /\ \A e \in Events : event[e].open => event[e].down < Clear
  /\ asking \in BOOLEAN /\ rec \in Memory /\ rows \in Tables
  /\ DOMAIN rec.open \subseteq Events /\ \A e \in DOMAIN rec.open : rec.open[e] \in Nat
  /\ recent \in Seq([state : AircraftStates, phaseReads : 0..2, eventReads : 0..2])
  /\ Len(recent) <= Window
  /\ rec.phase = Nothing <=> rec.phaseSession = None
  /\ rec.eventSession = None => DOMAIN rec.open = {}
  /\ rows.status = <<>> \/ Last(rows.status).to = rec.status

\* The stored phase intervals never overlap, and those of one session follow each other without
\* a gap however sessions and ticks interleave
\* (PhasePersistenceRecorder.maybe_persist_phase, _flush_open_interval).
PhaseRowsTile ==
  /\ \A i, j \in DOMAIN rows.phases : i < j => rows.phases[i].to <= rows.phases[j].from
  /\ \A i \in DOMAIN rows.phases :
       /\ rows.phases[i].from < rows.phases[i].to
       /\ rec.phase # Nothing => rows.phases[i].to <= rec.since
  /\ \A id \in DOMAIN sessions : LET bands == PhaseIntervals(rows, id) IN
       \A r \in bands : (\E q \in bands : q.to = r.from) \/ (\A q \in bands : r.from <= q.from)

\* A stored phase or event does not start before its session, except where it can: the recorder
\* has not seen a moment without a session in between, or the event was open when the session
\* started (EventPersistenceRecorder.maybe_persist_events, PhasePersistenceRecorder).
RowsOfTheirSession ==
  \A id \in DOMAIN sessions : LET s == sessions[id] IN
    /\ \A r \in PhaseIntervals(rows, id) : r.from < s.start => ~s.seen.phase
    /\ \A r \in FlightEvents(rows, id) :
         r.from < s.start => ~s.seen.event \/ r.event \in s.open

\* There have been n states, all of which are in told, or one of the last n is not in once.
Held(n, once, told) ==
  LET last == {i \in DOMAIN recent' : i > Len(recent') - n} IN
  \/ ~(last \subseteq once)
  \/ n <= Len(recent') /\ last \subseteq told

\* The phase changes only after the documented number of consecutive states that tell it; an event
\* opens and closes only after those numbers of states without a calm one, and without an alarm:
\* as long as every state is read once. Readers of the API and the time without a session break
\* this (FlightPhaseEngine.classify, EventEngine.evaluate).
HeldForSamples ==
  [][LET phaseOnce == {i \in DOMAIN recent' : recent'[i].phaseReads = 1}
         eventOnce == {i \in DOMAIN recent' : recent'[i].eventReads = 1}
     IN /\ phase'.current # phase.current =>
             Held(Hold, phaseOnce,
                  {i \in DOMAIN recent' : RawPhase(recent'[i].state) = phase'.current})
        /\ \A e \in Events :
             /\ event'[e].open /\ ~event[e].open =>
                  Held(Open, eventOnce, {i \in DOMAIN recent' : Check(recent'[i].state, e) # "calm"})
             /\ event[e].open /\ ~event'[e].open =>
                  Held(Clear, eventOnce, {i \in DOMAIN recent' : Check(recent'[i].state, e) # "alarm"})
     ]_logVars

\* As many states in a row as change the phase from anything: of a new candidate the first is
\* never enough, whatever Hold is.
Enough == IF Hold = 1 THEN 2 ELSE Hold

\* Among the first n rows, so many of the session follow each other and have the same phase.
SettledBy(samples, id, n) ==
  \E i \in 1..n : \A k \in i..i + Enough - 1 :
    /\ k <= n /\ samples[k].session = id
    /\ RawPhase(samples[k].state) = RawPhase(samples[i].state)

\* The homes that a session may be given by hand, or none.
Manual == {None} \cup {s.place : s \in States}

\* Each sample of the session came with the autopilot's home, and the operator had not moved it.
OwnHomes(table, id) ==
  \A i \in SamplesOf(table, id) :
    table.samples[i].state.home # None /\ table.samples[i].state.override = None

\* The events that the debrief may tell otherwise: of home, when the session has been given one, or a
\* sample lacks it, or the operator had moved it; of the buffers, when they held states that came
\* before the session.
ToldOtherwise(table, id, manual) ==
  (IF manual = None /\ OwnHomes(table, id) THEN {} ELSE HomeEvents)
    \cup (IF sessions[id].alone THEN {} ELSE WindowEvents)

\* When every state of a session is stored, with a climb rate, and read once, and the limit covers
\* them all, the debrief recomputed from the rows agrees with what was seen live: the same phase as
\* soon as one has been held, and no event that was not open live, but for those it may tell
\* otherwise (DebriefEngine.generate and get_session_home against the live engines).
DebriefMatchesLive ==
  /\ slot # None /\ tick = "wait" /\ sessions[slot].exact
  /\ \A i \in SamplesOf(rows, slot) : rows.samples[i].state.climb
  /\ Cardinality(SamplesOf(rows, slot)) <= SampleLimit
  => \A manual \in Manual : LET d == Debrief(rows, slot, manual) IN
       /\ SettledBy(rows.samples, slot, Len(rows.samples)) => d.phase.current = phase.current
       /\ d.occurred \ ToldOtherwise(rows, slot, manual)
            \subseteq OpenIn(event) \cup {r.event : r \in FlightEvents(rows, slot)}

\* Where a path begins.
First(path) == path[CHOOSE i \in DOMAIN path : \A k \in DOMAIN path : i <= k]

\* The path shown for a session keeps the place it began with, unless the session began within
\* MinDistance of the last point of an earlier one
\* (PathRecorder.maybe_record, PersistenceService.get_session_path).
PathKeepsItsStart ==
  [][\A id \in DOMAIN sessions :
       LET old == Path(rows, id) new == Path(rows', id) IN
       /\ DOMAIN old # {}
       /\ sessions[id].place = None \/ Apart(sessions[id].place, First(old)) >= MinDistance
       => First(new) = First(old)]_logVars
===============================================================================
