------------------------------ MODULE AutoArm ------------------------------
(***************************************************************************)
(* RecordingAutoController and SessionAutoController: what they make of    *)
(* the stream of telemetry states, one after the other in each iteration   *)
(* of the telemetry loop, while time passes, the link comes and goes, and  *)
(* operators start and stop sessions and recordings and save settings.     *)
(*                                                                         *)
(* A time the code remembers is represented by its age, counted up to      *)
(* MaxAge: time.monotonic() - _disarm_since is disarm_age.                 *)
(***************************************************************************)
EXTENDS Integers

CONSTANTS
    RecordingDebounce,   \* RecordingAutoController._debounce_sec
    StopDebounce,        \* SessionAutoController._debounce_sec
    ArmDebounce,         \* SessionAutoController._arm_debounce_sec
    MaxAge               \* bound: where ages stop growing

ASSUME DebounceAssumption ==
    {RecordingDebounce, StopDebounce, ArmDebounce} \subseteq 0..MaxAge
ASSUME AgeAssumption == MaxAge \in Nat

VARIABLES
    recording,           \* the camera records
    session,             \* session_ref names a session
    auto,                \* the recording mode is "auto"
    watching,            \* auto start is enabled and the connection allowed
    rec_last_armed, rec_disarm_age,
    last_armed, disarm_age, arm_age,
    \* what the telemetry has shown, for the properties
    disarmed_for,        \* age of an unbroken run of live disarmed states
    armed_for,           \* age of an unbroken run of live armed states
    unarmed_for,         \* age of the first live disarmed state since an
                         \* armed one
    landed_for,          \* as disarmed_for, watched, with a session that
                         \* goes on
    flown,               \* an armed state has met a session since the last
                         \* live disarmed state
    pending,             \* a session has met an arm debounce under way
                         \* since then
    armed_met,           \* an armed state has met the session
    unseen               \* controllers that have skipped a state since they
                         \* last saw "armed" (recording, stop) or "disarmed"

control == <<recording, session, auto, watching>>
recorder == <<rec_last_armed, rec_disarm_age>>
controller == <<last_armed, disarm_age, arm_age>>
history == <<disarmed_for, armed_for, unarmed_for, landed_for, flown,
             pending, armed_met, unseen>>
vars == <<control, recorder, controller, history>>

Never == -1
Ages == 0..MaxAge
Since(age) == IF age = Never THEN 0 ELSE age
Older(age) == IF age \in {Never, MaxAge} THEN age ELSE age + 1

TypeOK ==
    /\ {recording, session, auto, watching, flown, pending,
        armed_met} \subseteq BOOLEAN
    /\ {rec_last_armed, last_armed} \subseteq {"unknown", "armed", "disarmed"}
    /\ {rec_disarm_age, disarm_age, arm_age, disarmed_for, armed_for,
        unarmed_for, landed_for} \subseteq Ages \cup {Never}
    /\ unseen \subseteq {"recording", "start", "stop"}

Init ==
    /\ recording = FALSE /\ session = FALSE
    /\ auto \in BOOLEAN /\ watching \in BOOLEAN
    /\ rec_last_armed = "unknown" /\ rec_disarm_age = Never
    /\ last_armed = "unknown" /\ disarm_age = Never /\ arm_age = Never
    /\ disarmed_for = Never /\ armed_for = Never
    /\ unarmed_for = Never /\ landed_for = Never
    /\ flown = FALSE /\ pending = FALSE /\ armed_met = FALSE
    /\ unseen = {}

Seen(armed) == IF armed THEN "armed" ELSE "disarmed"

-----------------------------------------------------------------------------
(* RecordingAutoController.maybe_auto_record                               *)

\* Mutant of RecordArmed: an armed state does not reset the debounce.
RecordArmedKeepsDebounce ==
    /\ IF rec_last_armed # "armed" /\ ~recording
       THEN recording' \in BOOLEAN
       ELSE UNCHANGED recording
    /\ rec_last_armed' = "armed"
    /\ UNCHANGED rec_disarm_age

\* A start may fail and is not tried again: the edge has been seen.
RecordArmed ==
    /\ IF rec_last_armed # "armed" /\ ~recording
       THEN recording' \in BOOLEAN
       ELSE UNCHANGED recording
    /\ rec_disarm_age' = Never
    /\ rec_last_armed' = "armed"

\* A state that is not live leaves the debounce as it is.
RecordDisarmed(live) ==
    IF ~live
    THEN UNCHANGED <<recording, recorder>>
    ELSE IF Since(rec_disarm_age) >= RecordingDebounce
    THEN /\ recording' = FALSE
         /\ rec_disarm_age' = Never
         /\ rec_last_armed' = "disarmed"
    ELSE /\ rec_disarm_age' = Since(rec_disarm_age)
         /\ UNCHANGED <<recording, rec_last_armed>>

RecordTick(live, armed) ==
    \/ ~auto /\ UNCHANGED <<recording, recorder>>
    \/ auto /\ armed /\ RecordArmed
    \/ /\ auto /\ ~armed /\ rec_last_armed = "armed" /\ recording
       /\ RecordDisarmed(live)
    \/ /\ auto /\ ~armed /\ (rec_last_armed # "armed" \/ ~recording)
       /\ rec_disarm_age' = Never
       /\ rec_last_armed' = "disarmed"
       /\ UNCHANGED recording

-----------------------------------------------------------------------------
(* SessionAutoController.maybe_auto_start_stop                             *)

\* While an arm waits for its debounce _last_armed is set to False.
SessionArmed ==
    /\ disarm_age' = Never
    /\ LET edge == last_armed # "armed" /\ ~session
           age == IF edge THEN Since(arm_age) ELSE arm_age
           start == edge /\ age >= ArmDebounce
       IN  /\ IF start THEN session' \in BOOLEAN ELSE UNCHANGED session
           /\ arm_age' = IF start THEN Never ELSE age
           /\ last_armed' = IF /\ ~session'
                               /\ arm_age' # Never
                               /\ arm_age' < ArmDebounce
                            THEN "disarmed" ELSE "armed"

\* Mutant of SessionDisarmed: the debounce starts again with every state.
SessionDisarmedRestarts ==
    /\ arm_age' = Never
    /\ IF session /\ StopDebounce > 0
       THEN disarm_age' = 0 /\ UNCHANGED <<session, last_armed>>
       ELSE /\ session' = FALSE
            /\ disarm_age' = Never
            /\ last_armed' = "disarmed"

SessionDisarmed ==
    /\ arm_age' = Never
    /\ IF session /\ Since(disarm_age) < StopDebounce
       THEN /\ disarm_age' = Since(disarm_age)
            /\ UNCHANGED <<session, last_armed>>
       ELSE /\ session' = FALSE
            /\ disarm_age' = Never
            /\ last_armed' = "disarmed"

\* Mutants of SessionUntrusted: the disarm debounce, the arm debounce is
\* carried across the loss of the link; the state is taken for a disarm.
SessionUntrustedKeepsDisarm ==
    arm_age' = Never /\ UNCHANGED <<session, last_armed, disarm_age>>
SessionUntrustedKeepsArm ==
    disarm_age' = Never /\ UNCHANGED <<session, last_armed, arm_age>>
SessionUntrustedDisarms ==
    /\ disarm_age' = Never /\ arm_age' = Never
    /\ last_armed' = "disarmed"
    /\ UNCHANGED session

SessionUntrusted ==
    disarm_age' = Never /\ arm_age' = Never /\ UNCHANGED <<session, last_armed>>

SessionTick(live, armed) ==
    \/ ~watching /\ UNCHANGED <<session, controller>>
    \/ watching /\ ~live /\ SessionUntrusted
    \/ watching /\ live /\ armed /\ SessionArmed
    \/ watching /\ live /\ ~armed /\ SessionDisarmed

-----------------------------------------------------------------------------
(* One iteration of the telemetry loop.                                    *)

Observed(live, armed) ==
    /\ disarmed_for' = IF live /\ ~armed THEN Since(disarmed_for) ELSE Never
    /\ armed_for' = IF live /\ armed THEN Since(armed_for) ELSE Never
    /\ unarmed_for' = IF armed THEN Never
                      ELSE IF live THEN Since(unarmed_for) ELSE unarmed_for
    /\ landed_for' = IF live /\ ~armed /\ watching
                        /\ session /\ session'
                     THEN Since(landed_for) ELSE Never
    /\ LET seen == live /\ ~armed
       IN  /\ flown' = (~seen /\ (flown \/ (live /\ armed /\ session)))
           /\ pending' = (~seen /\ (pending \/ (session /\ arm_age # Never)))
    /\ armed_met' = (session' /\ (armed_met \/ (live /\ armed)))
    /\ unseen' = {u \in unseen :
                    ~ \/ u = "recording" /\ auto /\ armed
                      \/ u = "stop" /\ watching /\ live /\ armed
                      \/ u = "start" /\ watching /\ live /\ ~armed}
                 \cup (IF auto THEN {} ELSE {"recording"})
                 \cup (IF watching THEN {} ELSE {"start", "stop"})

Tick(live, armed) ==
    /\ RecordTick(live, armed)
    /\ SessionTick(live, armed)
    /\ Observed(live, armed)
    /\ UNCHANGED <<auto, watching>>

Telemetry == \E live, armed \in BOOLEAN : Tick(live, armed)

\* Between two iterations.
TimePasses ==
    /\ rec_disarm_age' = Older(rec_disarm_age)
    /\ disarm_age' = Older(disarm_age)
    /\ arm_age' = Older(arm_age)
    /\ disarmed_for' = Older(disarmed_for)
    /\ armed_for' = Older(armed_for)
    /\ unarmed_for' = Older(unarmed_for)
    /\ landed_for' = Older(landed_for)
    /\ UNCHANGED <<control, rec_last_armed, last_armed, flown, pending, armed_met,
                   unseen>>

-----------------------------------------------------------------------------
(* The operators, and the camera.                                          *)

\* POST /session/start also starts a recording unless the mode is off.
SessionStarted ==
    /\ ~session
    /\ session' = TRUE
    /\ recording' \in {recording, TRUE}
    /\ UNCHANGED <<auto, watching, recorder, controller, history>>

SessionStopped ==
    /\ session' = FALSE
    /\ recording' = FALSE
    /\ armed_met' = FALSE
    /\ UNCHANGED <<auto, watching, recorder, controller, disarmed_for,
                   armed_for, unarmed_for, landed_for, flown, pending,
                   unseen>>

\* The camera routes; a camera that exits.
RecordingChanged ==
    /\ recording' = ~recording
    /\ UNCHANGED <<session, auto, watching, recorder, controller, history>>

\* The settings and connection routes.
SettingsChanged ==
    /\ \/ auto' = ~auto /\ UNCHANGED watching
       \/ watching' = ~watching /\ UNCHANGED auto
    /\ UNCHANGED <<recording, session, recorder, controller, history>>

Next ==
    \/ Telemetry
    \/ TimePasses
    \/ SessionStarted \/ SessionStopped \/ RecordingChanged
    \/ SettingsChanged

Spec == Init /\ [][Next]_vars

-----------------------------------------------------------------------------
(* Properties                                                              *)

\* SessionAutoController ends a session only after a full debounce of live
\* disarmed states without a gap: no jitter and no loss of the link ends a
\* flight.  Unless it was disabled since it last saw the vehicle armed:
\* the debounce is kept meanwhile.
SessionStopConfirmed ==
    [][Telemetry /\ session /\ ~session' =>
        disarmed_for' >= StopDebounce \/ "stop" \in unseen]_vars

\* It starts one only after a full debounce of live armed states without a
\* gap, unless it was disabled since it last saw the vehicle disarmed.
SessionStartConfirmed ==
    [][Telemetry /\ ~session /\ session' =>
        armed_for' >= ArmDebounce \/ "start" \in unseen]_vars

\* A session the operator stops in flight is not started again before the
\* vehicle has been seen disarmed, unless the controller was disabled in
\* between or the session came and went while an arm was being debounced.
NoRestartInFlight ==
    [][Telemetry /\ ~session /\ session' =>
        ~flown \/ pending \/ "start" \in unseen]_vars

\* A vehicle that stays disarmed for the debounce leaves no session behind,
\* whoever started it.
LandedStops ==
    [][Telemetry => landed_for' < StopDebounce]_vars

\* RecordingAutoController stops a recording only on a live disarmed state,
\* a full debounce after the first one since the vehicle was last armed,
\* unless the mode was not auto in the meantime.
RecordingStopAfterDisarm ==
    [][Telemetry /\ recording /\ ~recording' =>
        \/ disarmed_for' # Never /\ unarmed_for' >= RecordingDebounce
        \/ "recording" \in unseen]_vars

=============================================================================
