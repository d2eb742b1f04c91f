------------------------ MODULE TelemetryLoop_proofs ------------------------
(***************************************************************************)
(* Proofs about the two halves of the telemetry loop.  AutoArm, for all    *)
(* debounces: what the controllers remember is never older than what the   *)
(* telemetry has shown.  FlightLog, for all engine and sampling intervals: *)
(* what the recorders store is of one session, in order and without gaps,  *)
(* the engines change on what they have held for, no sooner, and a debrief *)
(* agrees with what was seen live.                                         *)
(***************************************************************************)
EXTENDS AutoArm, FlightLog, TLAPS, FiniteSetTheorems, WellFoundedInduction

(***************************************************************************)
(*                                 AutoArm                                 *)
(***************************************************************************)

\* The disarm debounce of the session controller covers live disarmed
\* states only, the arm debounce live armed ones.
StopAge == disarm_age # Never => "stop" \in unseen \/ disarmed_for >= disarm_age
StartAge == arm_age # Never => "start" \in unseen \/ armed_for >= arm_age

\* In flight the session controller remembers that the vehicle is armed and
\* debounces nothing.
InFlight ==
    flown /\ ~pending /\ "start" \notin unseen =>
        last_armed = "armed" /\ arm_age = Never

\* A landing is never ahead of its debounce.
LandedAge ==
    landed_for # Never => disarm_age # Never /\ disarm_age >= landed_for

\* The recording controller's debounce begins after the last armed state.
RecordAge ==
    rec_disarm_age # Never =>
        "recording" \in unseen \/ unarmed_for >= rec_disarm_age

IInv == TypeOK /\ StopAge /\ StartAge /\ InFlight /\ LandedAge /\ RecordAge

-----------------------------------------------------------------------------
(* Ages.                                                                   *)

\* An age that has begun is a number of ticks up to the bound.
LEMMA SinceType ==
    ASSUME NEW a \in Ages \cup {Never}
    PROVE  Since(a) \in Ages
BY AgeAssumption DEF Since, Ages, Never

\* Time keeps ages within the bound.
LEMMA OlderType ==
    ASSUME NEW a \in Ages \cup {Never}
    PROVE  Older(a) \in Ages \cup {Never} /\ (Older(a) = Never <=> a = Never)
BY AgeAssumption DEF Older, Ages, Never

\* Time keeps the order of two ages, although both stop at the bound.
LEMMA OlderMonotone ==
    ASSUME NEW a \in Ages \cup {Never}, NEW b \in Ages \cup {Never}, a <= b
    PROVE  Older(a) <= Older(b)
BY AgeAssumption DEF Older, Ages, Never

-----------------------------------------------------------------------------
(* The type invariant.                                                     *)

\* A state of the recording controller leads to one.
LEMMA RecordTickType ==
    ASSUME TypeOK, NEW live \in BOOLEAN, NEW armed \in BOOLEAN,
           RecordTick(live, armed)
    PROVE  /\ recording' \in BOOLEAN
           /\ rec_last_armed' \in {"unknown", "armed", "disarmed"}
           /\ rec_disarm_age' \in Ages \cup {Never}
<1>1. Since(rec_disarm_age) \in Ages
    BY SinceType DEF TypeOK
<1>2. recording \in BOOLEAN /\ rec_last_armed \in {"unknown", "armed", "disarmed"}
      /\ rec_disarm_age \in Ages \cup {Never}
    BY DEF TypeOK
<1>3. CASE UNCHANGED <<recording, recorder>>
    BY <1>2, <1>3 DEF recorder
<1>4. CASE RecordArmed
    BY <1>2, <1>4 DEF RecordArmed
<1>5. CASE RecordDisarmed(live)
    BY <1>1, <1>2, <1>5 DEF RecordDisarmed, recorder
<1>6. CASE rec_disarm_age' = Never /\ rec_last_armed' = "disarmed" /\ UNCHANGED recording
    BY <1>2, <1>6
<1> QED
    BY <1>3, <1>4, <1>5, <1>6 DEF RecordTick

\* A state of the session controller leads to one.
LEMMA SessionTickType ==
    ASSUME TypeOK, NEW live \in BOOLEAN, NEW armed \in BOOLEAN,
           SessionTick(live, armed)
    PROVE  /\ session' \in BOOLEAN
           /\ last_armed' \in {"unknown", "armed", "disarmed"}
           /\ disarm_age' \in Ages \cup {Never}
           /\ arm_age' \in Ages \cup {Never}
<1>1. Since(disarm_age) \in Ages /\ Since(arm_age) \in Ages
    BY SinceType DEF TypeOK
<1>2. session \in BOOLEAN /\ last_armed \in {"unknown", "armed", "disarmed"}
      /\ disarm_age \in Ages \cup {Never} /\ arm_age \in Ages \cup {Never}
    BY DEF TypeOK
<1>3. CASE UNCHANGED <<session, controller>>
    BY <1>2, <1>3 DEF controller
<1>4. CASE SessionUntrusted
    BY <1>2, <1>4 DEF SessionUntrusted
<1>5. CASE SessionArmed
    BY <1>1, <1>2, <1>5 DEF SessionArmed
<1>6. CASE SessionDisarmed
    BY <1>1, <1>2, <1>6 DEF SessionDisarmed
<1> QED
    BY <1>3, <1>4, <1>5, <1>6 DEF SessionTick

\* A history leads to one.
LEMMA ObservedType ==
    ASSUME TypeOK, NEW live \in BOOLEAN, NEW armed \in BOOLEAN,
           session' \in BOOLEAN, Observed(live, armed)
    PROVE  /\ {flown, pending, armed_met}' \subseteq BOOLEAN
           /\ {disarmed_for, armed_for, unarmed_for, landed_for}'
                \subseteq Ages \cup {Never}
           /\ unseen' \subseteq {"recording", "start", "stop"}
<1>1. /\ Since(disarmed_for) \in Ages /\ Since(armed_for) \in Ages
      /\ Since(unarmed_for) \in Ages /\ Since(landed_for) \in Ages
    BY SinceType DEF TypeOK
<1>2. {disarmed_for, armed_for, unarmed_for, landed_for}'
        \subseteq Ages \cup {Never}
    BY <1>1 DEF Observed, TypeOK
<1>3. unseen' \subseteq {"recording", "start", "stop"}
    BY DEF Observed, TypeOK
<1>4. {flown, pending, armed_met}' \subseteq BOOLEAN
    BY DEF Observed, TypeOK
<1> QED
    BY <1>2, <1>3, <1>4

\* Every step keeps the types.
LEMMA TypeStep == TypeOK /\ [Next]_vars => TypeOK'
<1> SUFFICES ASSUME TypeOK, [Next]_vars PROVE TypeOK'
    OBVIOUS
<1>1. ASSUME NEW live \in BOOLEAN, NEW armed \in BOOLEAN, Tick(live, armed)
      PROVE  TypeOK'
    <2>1. RecordTick(live, armed) /\ SessionTick(live, armed)
          /\ Observed(live, armed) /\ UNCHANGED <<auto, watching>>
        BY <1>1 DEF Tick
    <2>2. /\ recording' \in BOOLEAN
          /\ rec_last_armed' \in {"unknown", "armed", "disarmed"}
          /\ rec_disarm_age' \in Ages \cup {Never}
        BY <2>1, RecordTickType
    <2>3. /\ session' \in BOOLEAN
          /\ last_armed' \in {"unknown", "armed", "disarmed"}
          /\ disarm_age' \in Ages \cup {Never}
          /\ arm_age' \in Ages \cup {Never}
        BY <2>1, SessionTickType
    <2>4. /\ {flown, pending, armed_met}' \subseteq BOOLEAN
          /\ {disarmed_for, armed_for, unarmed_for, landed_for}'
                \subseteq Ages \cup {Never}
          /\ unseen' \subseteq {"recording", "start", "stop"}
        BY <2>1, <2>3, ObservedType
    <2> QED
        BY <2>1, <2>2, <2>3, <2>4 DEF TypeOK
<1>2. CASE TimePasses
    BY <1>2, OlderType DEF TimePasses, TypeOK, control
<1>3. CASE SessionStarted
    BY <1>3 DEF SessionStarted, TypeOK, recorder, controller, history
<1>4. CASE SessionStopped
    BY <1>4 DEF SessionStopped, TypeOK, recorder, controller
<1>5. CASE RecordingChanged
    BY <1>5 DEF RecordingChanged, TypeOK, recorder, controller, history
<1>6. CASE SettingsChanged
    BY <1>6 DEF SettingsChanged, TypeOK, recorder, controller, history
<1>7. CASE UNCHANGED vars
    BY <1>7 DEF vars, TypeOK, control, recorder, controller, history
<1> QED
    BY <1>1, <1>2, <1>3, <1>4, <1>5, <1>6, <1>7 DEF Next, Telemetry

-----------------------------------------------------------------------------
(* The ages of controllers and history, one invariant at a time.  A tick   *)
(* that concerns a controller has one case for each branch it may take;    *)
(* the other steps leave it alone or let time pass.                        *)

\* The steps that leave every age and what it is compared with alone.
OutsideTick == SessionStarted \/ RecordingChanged \/ SettingsChanged \/ UNCHANGED vars

\* maybe_auto_start_stop keeps its disarm debounce covered.
LEMMA StopAgeStep == TypeOK /\ StopAge /\ [Next]_vars => StopAge'
<1> SUFFICES ASSUME TypeOK, StopAge, [Next]_vars PROVE StopAge'
    OBVIOUS
<1>1. ASSUME NEW live \in BOOLEAN, NEW armed \in BOOLEAN, Tick(live, armed)
      PROVE  StopAge'
    <2>1. CASE ~watching
        BY <1>1, <2>1 DEF Tick, SessionTick, SessionUntrusted, SessionArmed,
            SessionDisarmed, Observed, StopAge, controller
    <2>2. CASE watching /\ (~live \/ armed)
        BY <1>1, <2>2 DEF Tick, SessionTick, SessionUntrusted, SessionArmed, StopAge
    <2>3. CASE watching /\ live /\ ~armed
        <3>1. disarm_age' # Never =>
                disarm_age' = Since(disarm_age) /\ disarmed_for' = Since(disarmed_for)
            BY <1>1, <2>3 DEF Tick, SessionTick, SessionDisarmed, Observed
        <3>2. "stop" \in unseen => "stop" \in unseen'
            BY <1>1, <2>3 DEF Tick, Observed
        <3>3. disarm_age \in Ages \cup {Never} /\ disarmed_for \in Ages \cup {Never}
            BY DEF TypeOK
        <3> QED
            BY <3>1, <3>2, <3>3, AgeAssumption DEF StopAge, Since, Ages, Never
    <2> QED
        BY <2>1, <2>2, <2>3
<1>2. CASE TimePasses
    BY <1>2, OlderType, OlderMonotone DEF TimePasses, StopAge, TypeOK
<1>3. CASE SessionStopped
    BY <1>3 DEF SessionStopped, StopAge, controller
<1>4. CASE OutsideTick
    BY <1>4 DEF OutsideTick, SessionStarted, RecordingChanged, SettingsChanged, vars,
        StopAge, controller, history
<1> QED
    BY <1>1, <1>2, <1>3, <1>4 DEF Next, Telemetry, OutsideTick

\* maybe_auto_start_stop keeps its arm debounce covered.
LEMMA StartAgeStep == TypeOK /\ StartAge /\ [Next]_vars => StartAge'
<1> SUFFICES ASSUME TypeOK, StartAge, [Next]_vars PROVE StartAge'
    OBVIOUS
<1>1. ASSUME NEW live \in BOOLEAN, NEW armed \in BOOLEAN, Tick(live, armed)
      PROVE  StartAge'
    <2>1. CASE ~watching
        BY <1>1, <2>1 DEF Tick, SessionTick, Observed, StartAge
    <2>2. CASE watching /\ (~live \/ ~armed)
        BY <1>1, <2>2 DEF Tick, SessionTick, SessionUntrusted, SessionDisarmed,
            StartAge
    <2>3. CASE watching /\ live /\ armed
        <3>1. arm_age' # Never =>
                /\ arm_age' \in {Since(arm_age), arm_age}
                /\ armed_for' = Since(armed_for)
            BY <1>1, <2>3 DEF Tick, SessionTick, SessionArmed, Observed
        <3>2. "start" \in unseen => "start" \in unseen'
            BY <1>1, <2>3 DEF Tick, Observed
        <3>3. arm_age \in Ages \cup {Never} /\ armed_for \in Ages \cup {Never}
            BY DEF TypeOK
        <3> QED
            BY <3>1, <3>2, <3>3, AgeAssumption DEF StartAge, Since, Ages, Never
    <2> QED
        BY <2>1, <2>2, <2>3
<1>2. CASE TimePasses
    BY <1>2, OlderType, OlderMonotone DEF TimePasses, StartAge, TypeOK
<1>3. CASE SessionStopped
    BY <1>3 DEF SessionStopped, StartAge, controller
<1>4. CASE OutsideTick
    BY <1>4 DEF OutsideTick, SessionStarted, RecordingChanged, SettingsChanged, vars,
        StartAge, controller, history
<1> QED
    BY <1>1, <1>2, <1>3, <1>4 DEF Next, Telemetry, OutsideTick

\* maybe_auto_start_stop remembers an armed vehicle until it sees it disarmed.
LEMMA InFlightStep == TypeOK /\ InFlight /\ [Next]_vars => InFlight'
<1> SUFFICES ASSUME TypeOK, InFlight, [Next]_vars PROVE InFlight'
    OBVIOUS
<1>1. ASSUME NEW live \in BOOLEAN, NEW armed \in BOOLEAN, Tick(live, armed)
      PROVE  InFlight'
    <2>1. CASE live /\ ~armed
        BY <1>1, <2>1 DEF Tick, Observed, InFlight
    <2>2. CASE ~watching
        BY <1>1, <2>2 DEF Tick, Observed, InFlight
    <2>3. CASE watching /\ ~live
        BY <1>1, <2>3 DEF Tick, SessionTick, SessionUntrusted, Observed, InFlight
    <2>4. CASE watching /\ live /\ armed
        <3>1. ~pending' /\ "start" \notin unseen' =>
                /\ ~pending /\ "start" \notin unseen
                /\ session => arm_age = Never
            BY <1>1, <2>4 DEF Tick, Observed
        <3>2. flown' => flown \/ session
            BY <1>1, <2>4 DEF Tick, Observed
        <3>3. session \/ last_armed = "armed" =>
                arm_age' = arm_age /\ session' = session
            BY <1>1, <2>4 DEF Tick, SessionTick, SessionArmed
        <3>4. session' \/ arm_age' = Never => last_armed' = "armed"
            BY <1>1, <2>4 DEF Tick, SessionTick, SessionArmed
        <3> QED
            BY <3>1, <3>2, <3>3, <3>4 DEF InFlight
    <2> QED
        BY <2>1, <2>2, <2>3, <2>4
<1>2. CASE TimePasses
    BY <1>2, OlderType DEF TimePasses, InFlight, TypeOK
<1>3. CASE SessionStopped
    BY <1>3 DEF SessionStopped, InFlight, controller
<1>4. CASE OutsideTick
    BY <1>4 DEF OutsideTick, SessionStarted, RecordingChanged, SettingsChanged, vars,
        InFlight, controller, history
<1> QED
    BY <1>1, <1>2, <1>3, <1>4 DEF Next, Telemetry, OutsideTick

\* maybe_auto_start_stop never starts the disarm debounce of a landed
\* vehicle again.
LEMMA LandedAgeStep == TypeOK /\ LandedAge /\ [Next]_vars => LandedAge'
<1> SUFFICES ASSUME TypeOK, LandedAge, [Next]_vars PROVE LandedAge'
    OBVIOUS
<1>1. ASSUME NEW live \in BOOLEAN, NEW armed \in BOOLEAN, Tick(live, armed)
      PROVE  LandedAge'
    <2>1. landed_for' # Never =>
            /\ live /\ ~armed /\ watching /\ session'
            /\ landed_for' = Since(landed_for)
        BY <1>1 DEF Tick, Observed
    <2>2. live /\ ~armed /\ watching /\ session' => disarm_age' = Since(disarm_age)
        BY <1>1 DEF Tick, SessionTick, SessionDisarmed
    <2>3. disarm_age \in Ages \cup {Never} /\ landed_for \in Ages \cup {Never}
        BY DEF TypeOK
    <2> QED
        BY <2>1, <2>2, <2>3, AgeAssumption DEF LandedAge, Since, Ages, Never
<1>2. CASE TimePasses
    BY <1>2, OlderType, OlderMonotone DEF TimePasses, LandedAge, TypeOK
<1>3. CASE SessionStopped
    BY <1>3 DEF SessionStopped, LandedAge, controller
<1>4. CASE OutsideTick
    BY <1>4 DEF OutsideTick, SessionStarted, RecordingChanged, SettingsChanged, vars,
        LandedAge, controller, history
<1> QED
    BY <1>1, <1>2, <1>3, <1>4 DEF Next, Telemetry, OutsideTick

\* maybe_auto_record keeps its debounce after the last armed state.
LEMMA RecordAgeStep == TypeOK /\ RecordAge /\ [Next]_vars => RecordAge'
<1> SUFFICES ASSUME TypeOK, RecordAge, [Next]_vars PROVE RecordAge'
    OBVIOUS
<1>1. ASSUME NEW live \in BOOLEAN, NEW armed \in BOOLEAN, Tick(live, armed)
      PROVE  RecordAge'
    <2>1. CASE ~auto
        BY <1>1, <2>1 DEF Tick, Observed, RecordAge
    <2>2. CASE auto /\ armed
        BY <1>1, <2>2 DEF Tick, RecordTick, RecordArmed, RecordAge
    <2>3. CASE auto /\ ~armed
        <3>1. "recording" \in unseen => "recording" \in unseen'
            BY <1>1, <2>3 DEF Tick, Observed
        <3>2. CASE rec_disarm_age' = Never
            BY <3>2 DEF RecordAge
        <3>3. CASE rec_disarm_age' # Never /\ live
            <4>1. /\ rec_disarm_age' = Since(rec_disarm_age)
                  /\ unarmed_for' = Since(unarmed_for)
                BY <1>1, <2>3, <3>3 DEF Tick, RecordTick, RecordDisarmed, Observed
            <4>2. /\ rec_disarm_age \in Ages \cup {Never}
                  /\ unarmed_for \in Ages \cup {Never}
                BY DEF TypeOK
            <4> QED
                BY <3>1, <4>1, <4>2, AgeAssumption DEF RecordAge, Since, Ages, Never
        <3>4. CASE rec_disarm_age' # Never /\ ~live
            <4>1. rec_disarm_age' = rec_disarm_age /\ unarmed_for' = unarmed_for
                BY <1>1, <2>3, <3>4 DEF Tick, RecordTick, RecordDisarmed, Observed,
                    recorder
            <4> QED
                BY <3>1, <4>1 DEF RecordAge
        <3> QED
            BY <3>2, <3>3, <3>4
    <2> QED
        BY <2>1, <2>2, <2>3
<1>2. CASE TimePasses
    BY <1>2, OlderType, OlderMonotone DEF TimePasses, RecordAge, TypeOK
<1>3. CASE SessionStopped
    BY <1>3 DEF SessionStopped, RecordAge, recorder
<1>4. CASE OutsideTick
    BY <1>4 DEF OutsideTick, SessionStarted, RecordingChanged, SettingsChanged, vars,
        RecordAge, recorder, history
<1> QED
    BY <1>1, <1>2, <1>3, <1>4 DEF Next, Telemetry, OutsideTick

-----------------------------------------------------------------------------
(* The theorems.                                                           *)

\* Neither controller remembers anything at the start.
LEMMA InitIInv == Init => IInv
BY AgeAssumption DEF Init, IInv, TypeOK, StopAge, StartAge, InFlight, LandedAge,
    RecordAge, Never, Ages

\* Every step keeps the inductive invariant.
LEMMA IInvStep == IInv /\ [Next]_vars => IInv'
BY TypeStep, StopAgeStep, StartAgeStep, InFlightStep, LandedAgeStep,
    RecordAgeStep DEF IInv

\* The inductive invariant: what the controllers remember is covered by what
\* the telemetry has shown.
THEOREM Inductive == Spec => []IInv
<1>1. Init => IInv
    BY InitIInv
<1>2. IInv /\ [Next]_vars => IInv'
    BY IInvStep
<1> QED
    BY <1>1, <1>2, PTL DEF Spec

\* Every variable keeps its type.
THEOREM TypeCorrect == Spec => []TypeOK
<1>1. IInv => TypeOK
    BY DEF IInv
<1> QED
    BY <1>1, Inductive, PTL

\* maybe_auto_start_stop ends a session only after a full debounce of live
\* disarmed states, unless it was disabled in between.
THEOREM StopConfirmed == Spec => SessionStopConfirmed
<1>1. ASSUME IInv, Telemetry, session, ~session'
      PROVE  disarmed_for' >= StopDebounce \/ "stop" \in unseen
    <2>1. PICK live \in BOOLEAN, armed \in BOOLEAN : Tick(live, armed)
        BY <1>1 DEF Telemetry
    <2>2. live /\ ~armed /\ Since(disarm_age) >= StopDebounce
        <3>1. ~(session /\ Since(disarm_age) < StopDebounce)
              /\ live /\ ~armed
            BY <1>1, <2>1 DEF Tick, SessionTick, SessionUntrusted, SessionArmed,
                SessionDisarmed
        <3>2. Since(disarm_age) \in Ages
            BY <1>1, SinceType DEF IInv, TypeOK
        <3> QED
            BY <1>1, <3>1, <3>2, DebounceAssumption, AgeAssumption DEF Ages
    <2>3. disarmed_for' = Since(disarmed_for)
        BY <2>1, <2>2 DEF Tick, Observed
    <2>4. disarm_age \in Ages \cup {Never} /\ disarmed_for \in Ages \cup {Never}
        BY <1>1 DEF IInv, TypeOK
    <2> QED
        BY <1>1, <2>2, <2>3, <2>4, DebounceAssumption, AgeAssumption
            DEF IInv, StopAge, Since, Ages, Never
<1>2. IInv /\ [Next]_vars =>
        [Telemetry /\ session /\ ~session' =>
            disarmed_for' >= StopDebounce \/ "stop" \in unseen]_vars
    BY <1>1
<1> QED
    BY <1>2, Inductive, PTL DEF Spec, SessionStopConfirmed

\* It starts one only after a full debounce of live armed states, unless it
\* was disabled in between.
THEOREM StartConfirmed == Spec => SessionStartConfirmed
<1>1. ASSUME IInv, Telemetry, ~session, session'
      PROVE  armed_for' >= ArmDebounce \/ "start" \in unseen
    <2>1. PICK live \in BOOLEAN, armed \in BOOLEAN : Tick(live, armed)
        BY <1>1 DEF Telemetry
    <2>2. live /\ armed /\ Since(arm_age) >= ArmDebounce
        BY <1>1, <2>1 DEF Tick, SessionTick, SessionUntrusted, SessionArmed,
            SessionDisarmed
    <2>3. armed_for' = Since(armed_for)
        BY <2>1, <2>2 DEF Tick, Observed
    <2>4. arm_age \in Ages \cup {Never} /\ armed_for \in Ages \cup {Never}
        BY <1>1 DEF IInv, TypeOK
    <2> QED
        BY <1>1, <2>2, <2>3, <2>4, DebounceAssumption, AgeAssumption
            DEF IInv, StartAge, Since, Ages, Never
<1>2. IInv /\ [Next]_vars =>
        [Telemetry /\ ~session /\ session' =>
            armed_for' >= ArmDebounce \/ "start" \in unseen]_vars
    BY <1>1
<1> QED
    BY <1>2, Inductive, PTL DEF Spec, SessionStartConfirmed

\* A session stopped by hand in flight is not started again.
THEOREM NoRestart == Spec => NoRestartInFlight
<1>1. ASSUME IInv, Telemetry, ~session, session'
      PROVE  ~flown \/ pending \/ "start" \in unseen
    <2>1. PICK live \in BOOLEAN, armed \in BOOLEAN : Tick(live, armed)
        BY <1>1 DEF Telemetry
    <2>2. last_armed # "armed"
        BY <1>1, <2>1 DEF Tick, SessionTick, SessionUntrusted, SessionArmed,
            SessionDisarmed
    <2> QED
        BY <1>1, <2>2 DEF IInv, InFlight
<1>2. IInv /\ [Next]_vars =>
        [Telemetry /\ ~session /\ session' =>
            ~flown \/ pending \/ "start" \in unseen]_vars
    BY <1>1
<1> QED
    BY <1>2, Inductive, PTL DEF Spec, NoRestartInFlight

\* No session survives a full debounce of disarmed states.
THEOREM Landed == Spec => LandedStops
<1>1. ASSUME IInv, Telemetry PROVE landed_for' < StopDebounce
    <2>1. PICK live \in BOOLEAN, armed \in BOOLEAN : Tick(live, armed)
        BY <1>1 DEF Telemetry
    <2>2. CASE landed_for' = Never
        BY <2>2, DebounceAssumption, AgeAssumption DEF Never
    <2>3. CASE landed_for' # Never
        <3>1. live /\ ~armed /\ watching /\ session /\ session'
              /\ landed_for' = Since(landed_for)
            BY <2>1, <2>3 DEF Tick, Observed
        <3>2. Since(disarm_age) < StopDebounce
            BY <2>1, <3>1 DEF Tick, SessionTick, SessionDisarmed
        <3>3. disarm_age \in Ages \cup {Never} /\ landed_for \in Ages \cup {Never}
            BY <1>1 DEF IInv, TypeOK
        <3> QED
            BY <1>1, <3>1, <3>2, <3>3, DebounceAssumption, AgeAssumption
                DEF IInv, LandedAge, Since, Ages, Never
    <2> QED
        BY <2>2, <2>3
<1>2. IInv /\ [Next]_vars => [Telemetry => landed_for' < StopDebounce]_vars
    BY <1>1
<1> QED
    BY <1>2, Inductive, PTL DEF Spec, LandedStops

\* maybe_auto_record stops a recording only on a live disarmed state, a full
\* debounce after the first one since the last armed state.
THEOREM RecordingStop == Spec => RecordingStopAfterDisarm
<1>1. ASSUME IInv, Telemetry, recording, ~recording'
      PROVE  \/ disarmed_for' # Never /\ unarmed_for' >= RecordingDebounce
             \/ "recording" \in unseen
    <2>1. PICK live \in BOOLEAN, armed \in BOOLEAN : Tick(live, armed)
        BY <1>1 DEF Telemetry
    <2>2. live /\ ~armed /\ Since(rec_disarm_age) >= RecordingDebounce
        BY <1>1, <2>1 DEF Tick, RecordTick, RecordArmed, RecordDisarmed
    <2>3. disarmed_for' = Since(disarmed_for) /\ unarmed_for' = Since(unarmed_for)
        BY <2>1, <2>2 DEF Tick, Observed
    <2>4. /\ rec_disarm_age \in Ages \cup {Never}
          /\ unarmed_for \in Ages \cup {Never}
          /\ Since(disarmed_for) \in Ages
        BY <1>1, SinceType DEF IInv, TypeOK
    <2> QED
        BY <1>1, <2>2, <2>3, <2>4, DebounceAssumption, AgeAssumption
            DEF IInv, RecordAge, Since, Ages, Never
<1>2. IInv /\ [Next]_vars =>
        [Telemetry /\ recording /\ ~recording' =>
            \/ disarmed_for' # Never /\ unarmed_for' >= RecordingDebounce
            \/ "recording" \in unseen]_vars
    BY <1>1
<1> QED
    BY <1>2, Inductive, PTL DEF Spec, RecordingStopAfterDisarm

-----------------------------------------------------------------------------
(***************************************************************************)
(*                                FlightLog                                *)
(***************************************************************************)

-----------------------------------------------------------------------------
(* The type invariant of the flight log.                                   *)

\* A phase told by a state has a name.
LEMMA RawPhaseType ==
  ASSUME NEW s \in AircraftStates
  PROVE  RawPhase(s) \in PhaseNames
<1>1. s.motion \in Motions
  BY DEF AircraftStates
<1>2. s.mode \in DOMAIN ModePhase => ModePhase[s.mode] \in PhaseNames
  BY DEF ModePhase, PhaseNames
<1> QED
  BY <1>1, <1>2 DEF RawPhase, PhaseNames, Motions

PhaseMemory == [current : PhaseNames, candidate : PhaseNames, hold : 0..Hold]
EventMemory == [open : BOOLEAN, up : 0..Open, down : 0..Clear, since : Nat]
ReadStates == [state : AircraftStates, phaseReads : 0..2, eventReads : 0..2]

\* The phase engine keeps its type.
LEMMA ClassifyType ==
  ASSUME NEW ph \in PhaseMemory, NEW raw \in PhaseNames
  PROVE  Classify(ph, raw) \in PhaseMemory
<1>1. /\ [ph EXCEPT !.candidate = raw, !.hold = 0] \in PhaseMemory
      /\ [ph EXCEPT !.candidate = raw, !.hold = 1] \in PhaseMemory
      /\ [ph EXCEPT !.current = raw, !.hold = 0] \in PhaseMemory
  <2>1. 0 \in 0..Hold /\ 1 \in 0..Hold
    BY FlightLogConstants
  <2> QED
    BY <2>1 DEF PhaseMemory
<1>2. ASSUME ~(ph.hold + 1 >= Hold) PROVE [ph EXCEPT !.hold = @ + 1] \in PhaseMemory
  <2>1. ph.hold + 1 \in 0..Hold
    BY <1>2, FlightLogConstants DEF PhaseMemory
  <2> QED
    BY <2>1 DEF PhaseMemory
<1> QED
  BY <1>1, <1>2 DEF Classify

\* So does the event engine, which closes an event before it counts beyond Clear.
LEMMA JudgeType ==
  ASSUME NEW ev \in EventMemory, ev.open => ev.down < Clear,
         NEW verdict \in {"alarm", "calm", "skip"}, NEW at \in Nat
  PROVE  /\ Judge(ev, verdict, at) \in EventMemory
         /\ Judge(ev, verdict, at).open => Judge(ev, verdict, at).down < Clear
<1>1. Raise(ev, at) \in EventMemory /\ Raise(ev, at).down < Clear
  BY FlightLogConstants DEF Raise, EventMemory
<1>2. ASSUME ev.open PROVE Lower(ev) \in EventMemory /\ (Lower(ev).open => Lower(ev).down < Clear)
  <2>1. ev.down + 1 \in 0..Clear /\ 0 \in 0..Open
    BY <1>2, FlightLogConstants DEF EventMemory
  <2>2. /\ [ev EXCEPT !.down = @ + 1] \in EventMemory
        /\ [ev EXCEPT !.down = @ + 1].down = ev.down + 1
    BY <2>1 DEF EventMemory
  <2>3. /\ [ev EXCEPT !.open = FALSE, !.up = 0, !.down = @ + 1] \in EventMemory
        /\ ~[ev EXCEPT !.open = FALSE, !.up = 0, !.down = @ + 1].open
    BY <2>1 DEF EventMemory
  <2> QED
    BY <2>1, <2>2, <2>3, FlightLogConstants DEF Lower
<1>3. ~ev.open => /\ [ev EXCEPT !.down = 0] \in EventMemory
                  /\ [ev EXCEPT !.up = 0] \in EventMemory
                  /\ ~[ev EXCEPT !.down = 0].open /\ ~[ev EXCEPT !.up = 0].open
  BY FlightLogConstants DEF EventMemory
<1>4. ev.open \in BOOLEAN
  BY DEF EventMemory
<1> QED
  BY <1>1, <1>2, <1>3, <1>4 DEF Judge

\* And all the checks of a state together.
LEMMA EvaluateType ==
  ASSUME NEW evs \in [Events -> EventMemory], \A e \in Events : evs[e].open => evs[e].down < Clear,
         NEW s, NEW at \in Nat
  PROVE  /\ Evaluate(evs, s, at) \in [Events -> EventMemory]
         /\ \A e \in Events : Evaluate(evs, s, at)[e].open => Evaluate(evs, s, at)[e].down < Clear
<1> SUFFICES ASSUME NEW e \in Events
             PROVE  /\ Judge(evs[e], Check(s, e), at) \in EventMemory
                    /\ LET j == Judge(evs[e], Check(s, e), at) IN j.open => j.down < Clear
  BY DEF Evaluate
<1>1. Check(s, e) \in {"alarm", "calm", "skip"}
  BY DEF Check
<1> QED
  BY <1>1, JudgeType

\* The window is one of the three counts.
LEMMA WindowType == Window \in Nat \ {0} /\ Hold <= Window /\ Open <= Window /\ Clear <= Window
<1> DEFINE top(w) == \A v \in {Hold, Open, Clear} : v <= w
<1>1. \E w \in {Hold, Open, Clear} : top(w)
  BY FlightLogConstants
<1>2. Window \in {Hold, Open, Clear} /\ top(Window)
  BY <1>1 DEF Window
<1> QED
  BY <1>2, FlightLogConstants

\* The type invariant holds of a program that has just started.
LEMMA LogInitType == LogInit => LogTypeOK
<1> SUFFICES ASSUME LogInit PROVE LogTypeOK
  OBVIOUS
<1>1. NoState \in AircraftStates /\ NoState.at = 0
  <2>1. /\ 0 \in Nat /\ 0 \in Int /\ {} \in SUBSET Events /\ Events \in SUBSET Events /\ None \in Nat
        /\ {} \in SUBSET Nat
    BY DEF None
  <2>2. /\ "" \in DOMAIN ModePhase \cup GenericModes \cup {"other"}
        /\ "backoff" \in TelemetryStatus /\ "unknown" \in Motions
    BY DEF GenericModes, TelemetryStatus, Motions
  <2> QED
    BY <2>1, <2>2 DEF NoState, AircraftStates
<1>2. FreshPhase \in PhaseMemory
  BY FlightLogConstants DEF FreshPhase, PhaseMemory, PhaseNames, Motions
<1>3. FreshEvent \in EventMemory /\ ~FreshEvent.open
  BY FlightLogConstants DEF FreshEvent, EventMemory
<1>4. rec \in Memory /\ DOMAIN rec.open = {} /\ (rec.phase = Nothing <=> rec.phaseSession = None)
  <2>1. 0 - SampleInterval \in Int /\ None \in Nat /\ 0 \in Nat
    BY FlightLogConstants DEF None
  <2>2. Nothing \in Statuses /\ Nothing \in PhaseNames \cup {Nothing}
    BY DEF Statuses
  <2> QED
    BY <2>1, <2>2 DEF LogInit, Memory
<1>5. rows \in Tables /\ rows.status = <<>>
  BY DEF LogInit, Tables
<1>6. event \in [Events -> EventMemory] /\ \A e \in Events : ~event[e].open
  BY <1>3 DEF LogInit
<1>7. recent = <<>> /\ recent \in Seq(ReadStates) /\ Len(recent) = 0 /\ 0 <= Window
  BY WindowType DEF LogInit
<1>8. sessions = <<>> /\ sessions \in Seq(SessionRows) /\ slot \in 0..Len(sessions)
  BY DEF LogInit, None
<1> QED
  BY <1>1, <1>2, <1>4, <1>5, <1>6, <1>7, <1>8
     DEF LogInit, LogTypeOK, PhaseMemory, EventMemory, ReadStates

\* Rows put after rows of the same type.
LEMMA ConcatType ==
  ASSUME NEW S, NEW t \in Seq(S), NEW new \in Seq(S)
  PROVE  t \o new \in Seq(S)
OBVIOUS

\* An insert of rows of a table's type keeps the tables' types.
LEMMA InsertType ==
  ASSUME LogTypeOK
  PROVE  /\ \A new \in Seq([session : Nat, state : AircraftStates]) :
              Insert("samples", new) => rows' \in Tables /\ rows'.status = rows.status
         /\ \A new \in Seq([session : Nat, at : Nat, place : Nat]) :
              Insert("path", new) => rows' \in Tables /\ rows'.status = rows.status
         /\ \A new \in Seq([session : Nat, from : Statuses, to : TelemetryStatus]) :
              Insert("status", new) => rows' \in Tables
         /\ \A new \in Seq([session : Nat, event : Events, from : Nat, to : Nat]) :
              Insert("events", new) => rows' \in Tables /\ rows'.status = rows.status
         /\ \A new \in Seq([session : Nat, phase : PhaseNames, from : Nat, to : Nat]) :
              Insert("phases", new) => rows' \in Tables /\ rows'.status = rows.status
<1> USE DEF Insert
<1>1. PICK t \in Tables : t = rows
  BY DEF LogTypeOK
<1>2. ASSUME NEW new \in Seq([session : Nat, state : AircraftStates]), Insert("samples", new)
      PROVE  rows' \in Tables /\ rows'.status = rows.status
  <2>1. PICK all \in Seq([session : Nat, state : AircraftStates]) : all = t.samples \o new
    BY <1>1, <1>2, ConcatType DEF Tables
  <2> QED
    BY <1>1, <1>2, <2>1 DEF Tables
<1>3. ASSUME NEW new \in Seq([session : Nat, at : Nat, place : Nat]), Insert("path", new)
      PROVE  rows' \in Tables /\ rows'.status = rows.status
  <2>1. PICK all \in Seq([session : Nat, at : Nat, place : Nat]) : all = t.path \o new
    BY <1>1, <1>3, ConcatType DEF Tables
  <2> QED
    BY <1>1, <1>3, <2>1 DEF Tables
<1>4. ASSUME NEW new \in Seq([session : Nat, from : Statuses, to : TelemetryStatus]), Insert("status", new)
      PROVE  rows' \in Tables
  <2>1. PICK all \in Seq([session : Nat, from : Statuses, to : TelemetryStatus]) : all = t.status \o new
    BY <1>1, <1>4, ConcatType DEF Tables
  <2> QED
    BY <1>1, <1>4, <2>1 DEF Tables
<1>5. ASSUME NEW new \in Seq([session : Nat, event : Events, from : Nat, to : Nat]), Insert("events", new)
      PROVE  rows' \in Tables /\ rows'.status = rows.status
  <2>1. PICK all \in Seq([session : Nat, event : Events, from : Nat, to : Nat]) : all = t.events \o new
    BY <1>1, <1>5, ConcatType DEF Tables
  <2> QED
    BY <1>1, <1>5, <2>1 DEF Tables
<1>6. ASSUME NEW new \in Seq([session : Nat, phase : PhaseNames, from : Nat, to : Nat]),
             Insert("phases", new)
      PROVE  rows' \in Tables /\ rows'.status = rows.status
  <2>1. PICK all \in Seq([session : Nat, phase : PhaseNames, from : Nat, to : Nat]) : all = t.phases \o new
    BY <1>1, <1>6, ConcatType DEF Tables
  <2> QED
    BY <1>1, <1>6, <2>1 DEF Tables
<1> QED
  BY <1>2, <1>3, <1>4, <1>5, <1>6

\* A count of reads stays within its type, and the state is the same.
LEMMA CountReadType ==
  ASSUME NEW r \in ReadStates, NEW kinds
  PROVE  LET new == CountRead(r, kinds) IN
         /\ new \in ReadStates /\ new.state = r.state
         /\ new.phaseReads = IF "phase" \in kinds /\ r.phaseReads < 2 THEN r.phaseReads + 1 ELSE r.phaseReads
         /\ new.eventReads = IF "event" \in kinds /\ r.eventReads < 2 THEN r.eventReads + 1 ELSE r.eventReads
<1>1. PICK p \in 0..2 : p = IF "phase" \in kinds /\ r.phaseReads < 2 THEN r.phaseReads + 1 ELSE r.phaseReads
  BY DEF ReadStates
<1>2. PICK q \in 0..2 : q = IF "event" \in kinds /\ r.eventReads < 2 THEN r.eventReads + 1 ELSE r.eventReads
  BY DEF ReadStates
<1>3. CountRead(r, kinds) = [r EXCEPT !.phaseReads = p, !.eventReads = q]
  BY <1>1, <1>2 DEF CountRead
<1> QED
  BY <1>1, <1>2, <1>3 DEF ReadStates

\* One more read changes the counts of the latest state only.
LEMMA ReadType ==
  ASSUME LogTypeOK, NEW kinds, Read(kinds)
  PROVE  /\ recent' \in Seq(ReadStates) /\ Len(recent') = Len(recent)
         /\ \A i \in DOMAIN recent : i # Len(recent) => recent'[i] = recent[i]
         /\ recent # <<>> => LET old == Last(recent) new == Last(recent') IN
              /\ new.state = old.state
              /\ new.phaseReads = IF "phase" \in kinds /\ old.phaseReads < 2
                                  THEN old.phaseReads + 1 ELSE old.phaseReads
              /\ new.eventReads = IF "event" \in kinds /\ old.eventReads < 2
                                  THEN old.eventReads + 1 ELSE old.eventReads
<1>1. recent \in Seq(ReadStates)
  BY DEF LogTypeOK, ReadStates
<1>2. CASE recent = <<>>
  BY <1>1, <1>2 DEF Read
<1>3. CASE recent # <<>>
  <2>1. PICK n \in Nat : n = Len(recent) /\ n \in DOMAIN recent /\ n >= 1
    BY <1>1, <1>3
  <2>2. PICK old \in ReadStates : old = recent[n]
    BY <1>1, <2>1
  <2>3. PICK new \in ReadStates : new = CountRead(old, kinds)
    BY CountReadType, <2>2
  <2>4. recent' = [recent EXCEPT ![n] = new]
    BY <1>3, <2>1, <2>2, <2>3 DEF Read
  <2>5. /\ new.state = old.state
        /\ new.phaseReads = IF "phase" \in kinds /\ old.phaseReads < 2
                            THEN old.phaseReads + 1 ELSE old.phaseReads
        /\ new.eventReads = IF "event" \in kinds /\ old.eventReads < 2
                            THEN old.eventReads + 1 ELSE old.eventReads
    BY CountReadType, <2>2, <2>3
  <2>6. /\ recent' \in Seq(ReadStates) /\ Len(recent') = Len(recent) /\ recent'[n] = new
        /\ \A i \in DOMAIN recent : i # n => recent'[i] = recent[i]
    BY <1>1, <2>1, <2>4
  <2> QED
    BY <1>3, <2>1, <2>2, <2>5, <2>6 DEF Last
<1> QED
  BY <1>2, <1>3

\* A session that was not exact keeps all that was noted when it started.
LEMMA InexactType ==
  ASSUME LogTypeOK, sessions' = Inexact
  PROVE  /\ sessions' \in Seq(SessionRows) /\ Len(sessions') = Len(sessions)
         /\ \A i \in DOMAIN sessions :
              /\ sessions'[i].start = sessions[i].start /\ sessions'[i].open = sessions[i].open
              /\ sessions'[i].place = sessions[i].place /\ sessions'[i].seen = sessions[i].seen
<1>1. sessions \in Seq(SessionRows) /\ slot \in 0..Len(sessions)
  BY DEF LogTypeOK
<1>2. CASE slot = None
  BY <1>1, <1>2 DEF Inexact
<1>3. CASE slot # None
  <2>1. slot \in DOMAIN sessions
    BY <1>1, <1>3 DEF None
  <2>2. PICK s \in SessionRows : s = sessions[slot]
    BY <1>1, <2>1
  <2>3. PICK t \in SessionRows : /\ t = [s EXCEPT !.exact = FALSE] /\ t.start = s.start /\ t.open = s.open
                                 /\ t.place = s.place /\ t.seen = s.seen
    <3>1. [s EXCEPT !.exact = FALSE] \in SessionRows
      BY <2>2 DEF SessionRows
    <3> QED
      BY <2>2, <3>1 DEF SessionRows
  <2>4. sessions' = [sessions EXCEPT ![slot] = t]
    BY <1>3, <2>2, <2>3 DEF Inexact
  <2> QED
    BY <1>1, <2>1, <2>2, <2>3, <2>4
<1> QED
  BY <1>2, <1>3

\* The buffers hold a state at least, and no more than the one that came and those it leaves; of two
\* debriefs the one with fewer before has no more after.
LEMMA FilledType ==
  ASSUME NEW n \in Nat, NEW s \in AircraftStates
  PROVE  /\ Filled(n, s) \in Nat /\ Filled(n, s) >= 1 /\ Filled(n, s) <= 1 + s.young
         /\ Filled(n, s) = n + 1 \/ Filled(n, s) = 1 + s.young
         /\ \A m \in Nat : m <= n => Filled(m, s) <= Filled(n, s)
<1>1. s.young \in Nat
  BY DEF AircraftStates
<1> QED
  BY <1>1 DEF Filled

\* A state from the source, with its time.
LEMMA NewStateType == LogTypeOK /\ NewState => LogTypeOK'
<1> SUFFICES ASSUME LogTypeOK, NewState PROVE LogTypeOK'
  OBVIOUS
<1>1. PICK s \in States, g \in Gaps :
         /\ now' = now + g /\ state' = [s EXCEPT !.at = now + g, !.filled = Filled(state.filled, s)]
         /\ recent' = LET all == Append(recent, [state |-> state', phaseReads |-> 0, eventReads |-> 0])
                      IN IF Len(all) > Window THEN Tail(all) ELSE all
  BY Zenon DEF NewState
<1>2. now' \in Nat
  <2>1. now \in Nat
    BY DEF LogTypeOK
  <2>2. g \in Nat
    BY FlightLogConstants
  <2> QED
    BY <1>1, <2>1, <2>2
<1>3. state' \in AircraftStates /\ state'.at = now'
  <2>1. s \in AircraftStates
    BY FlightLogConstants
  <2>2. state.filled \in Nat
    BY DEF LogTypeOK, AircraftStates
  <2>3. PICK filled \in Nat : filled = Filled(state.filled, s)
    BY <2>1, <2>2, FilledType
  <2>4. state' = [s EXCEPT !.at = now', !.filled = filled]
    BY <1>1, <2>3
  <2> QED
    BY <1>2, <2>1, <2>4 DEF AircraftStates
<1>4. recent' \in Seq(ReadStates) /\ Len(recent') <= Window
  <2>1. PICK r \in ReadStates : r = [state |-> state', phaseReads |-> 0, eventReads |-> 0]
    <3>1. 0 \in 0..2
      OBVIOUS
    <3> QED
      BY <1>3, <3>1 DEF ReadStates
  <2>2. recent \in Seq(ReadStates) /\ Len(recent) <= Window
    BY DEF LogTypeOK, ReadStates
  <2>3. recent' = IF Len(Append(recent, r)) > Window THEN Tail(Append(recent, r)) ELSE Append(recent, r)
    BY <1>1, <2>1
  <2> QED
    BY <2>1, <2>2, <2>3, WindowType
<1>5. tick' = "sample" /\ UNCHANGED <<slot, sessions, phase, event, asking, rec, rows>>
  BY DEF NewState
<1> QED
  BY <1>2, <1>3, <1>4, <1>5 DEF LogTypeOK, Memory, ReadStates

\* The session of the slot, when there is one.
LEMMA SlotType ==
  ASSUME LogTypeOK, slot # None
  PROVE  slot \in DOMAIN sessions /\ slot \in Nat /\ slot > 0 /\ slot <= Len(sessions)
BY DEF LogTypeOK, None

\* The sampler and its row.
LEMMA SampleType == LogTypeOK /\ Sample => LogTypeOK'
<1> SUFFICES ASSUME LogTypeOK, Sample PROVE LogTypeOK'
  OBVIOUS
<1>1. tick' = "path" /\ UNCHANGED <<now, slot, state, phase, event, asking, recent>>
  BY DEF Sample
<1>2. CASE slot # None /\ now - rec.sampled >= SampleInterval
  <2>1. rec' = [rec EXCEPT !.sampled = now] /\ UNCHANGED sessions
        /\ Insert("samples", <<SampleRow(slot, state)>>)
    BY <1>2 DEF Sample
  <2>2. <<SampleRow(slot, state)>> \in Seq([session : Nat, state : AircraftStates])
    BY <1>2, SlotType DEF SampleRow, LogTypeOK
  <2>3. rows' \in Tables /\ rows'.status = rows.status
    BY <2>1, <2>2, InsertType
  <2>4. rec' \in Memory' /\ rec'.open = rec.open /\ rec'.phase = rec.phase /\ rec'.status = rec.status
        /\ rec'.phaseSession = rec.phaseSession /\ rec'.eventSession = rec.eventSession
    <3>1. now \in Int
      BY DEF LogTypeOK
    <3> QED
      BY <2>1, <3>1 DEF LogTypeOK, Memory
  <2> QED
    BY <1>1, <2>1, <2>3, <2>4 DEF LogTypeOK
<1>3. CASE ~(slot # None /\ now - rec.sampled >= SampleInterval)
  <2>1. UNCHANGED <<rec, rows>> /\ sessions' = Inexact
    BY <1>3 DEF Sample
  <2>2. sessions' \in Seq(SessionRows) /\ Len(sessions') = Len(sessions)
    BY <2>1, InexactType
  <2> QED
    BY <1>1, <2>1, <2>2 DEF LogTypeOK, Memory
<1> QED
  BY <1>2, <1>3

\* The path recorder and its point.
LEMMA RecordPathType == LogTypeOK /\ RecordPath => LogTypeOK'
<1> SUFFICES ASSUME LogTypeOK, RecordPath PROVE LogTypeOK'
  OBVIOUS
<1>1. tick' = "status" /\ UNCHANGED <<now, slot, sessions, state, phase, event, asking, recent>>
  BY DEF RecordPath
<1>2. CASE rec' = [rec EXCEPT !.place = state.place] /\ slot # None
           /\ Insert("path", <<PointRow(slot, now, state.place)>>)
  <2>1. state.place \in Nat
    BY DEF LogTypeOK, AircraftStates
  <2>2. <<PointRow(slot, now, state.place)>> \in Seq([session : Nat, at : Nat, place : Nat])
    BY <1>2, <2>1, SlotType DEF PointRow, LogTypeOK
  <2>3. rows' \in Tables /\ rows'.status = rows.status
    BY <1>2, <2>2, InsertType
  <2>4. rec' \in Memory' /\ rec'.open = rec.open /\ rec'.phase = rec.phase /\ rec'.status = rec.status
        /\ rec'.phaseSession = rec.phaseSession /\ rec'.eventSession = rec.eventSession
    BY <1>2, <2>1 DEF LogTypeOK, Memory
  <2> QED
    BY <1>1, <2>3, <2>4 DEF LogTypeOK
<1>3. CASE UNCHANGED <<rec, rows>>
  BY <1>1, <1>3 DEF LogTypeOK, Memory
<1> QED
  BY <1>2, <1>3 DEF RecordPath

\* The logger of transitions and its row.
LEMMA LogTransitionType == LogTypeOK /\ LogTransition => LogTypeOK'
<1> SUFFICES ASSUME LogTypeOK, LogTransition PROVE LogTypeOK'
  OBVIOUS
<1>1. tick' = "event" /\ UNCHANGED <<now, slot, sessions, state, phase, event, asking, recent>>
  BY DEF LogTransition
<1>2. CASE rec' = [rec EXCEPT !.status = state.status] /\ slot # None
           /\ Insert("status", <<TransitionRow(slot, rec.status, state.status)>>)
  <2>1. state.status \in TelemetryStatus /\ state.status \in Statuses /\ rec.status \in Statuses
    BY DEF LogTypeOK, AircraftStates, Memory, Statuses
  <2>2. PICK row \in [session : Nat, from : Statuses, to : TelemetryStatus] :
          row = TransitionRow(slot, rec.status, state.status) /\ row.to = state.status
    BY <1>2, <2>1, SlotType DEF TransitionRow
  <2>3. rows' \in Tables
    <3>1. <<row>> \in Seq([session : Nat, from : Statuses, to : TelemetryStatus])
      BY <2>2
    <3> QED
      BY <1>2, <2>2, <3>1, InsertType
  <2>4. rec' \in Memory' /\ rec'.open = rec.open /\ rec'.phase = rec.phase /\ rec'.status = state.status
        /\ rec'.phaseSession = rec.phaseSession /\ rec'.eventSession = rec.eventSession
    BY <1>2, <2>1 DEF LogTypeOK, Memory
  <2>5. Last(rows'.status).to = rec'.status
    <3>1. rows'.status = rows.status \o <<row>>
      BY <1>2, <2>2 DEF Insert, LogTypeOK, Tables
    <3>2. rows.status \in Seq([session : Nat, from : Statuses, to : TelemetryStatus])
      BY DEF LogTypeOK, Tables
    <3>3. Last(rows'.status) = row
      BY <3>1, <3>2, <2>2 DEF Last
    <3> QED
      BY <3>3, <2>2, <2>4
  <2> QED
    BY <1>1, <2>3, <2>4, <2>5 DEF LogTypeOK
<1>3. CASE UNCHANGED <<rec, rows>>
  BY <1>1, <1>3 DEF LogTypeOK, Memory
<1> QED
  BY <1>2, <1>3 DEF LogTransition

\* The sequence of a finite set's members has one for every place, and a place for every one.
LEMMA SetToSeqType ==
  ASSUME NEW S, IsFiniteSet(S)
  PROVE  /\ SetToSeq(S) \in Seq(S)
         /\ \A e \in S : \E i \in DOMAIN SetToSeq(S) : SetToSeq(S)[i] = e
<1>1. PICK n \in Nat : n = Cardinality(S) /\ ExistsBijection(1..n, S)
  BY FS_CardinalityType
<1>2. PICK f \in [1..n -> S] : IsInjective(f)
  BY <1>1 DEF ExistsBijection, Bijection, Injection, IsInjective
<1>3. PICK g \in [1..n -> S] : g = SetToSeq(S) /\ IsInjective(g)
  BY <1>1, <1>2, Zenon DEF SetToSeq
<1>4. IsFiniteSet(1..n) /\ Cardinality(1..n) = n
  BY FS_Interval
<1>5. g \in Surjection(1..n, S)
  <2>1. g \in Injection(1..n, S)
    BY <1>3 DEF Injection
  <2> QED
    BY <1>1, <1>4, <2>1, FS_Injection
<1>6. \A e \in S : \E i \in 1..n : g[i] = e
  BY <1>5 DEF Surjection
<1> QED
  BY <1>3, <1>6

\* A function of the numbers up to n is a sequence.
LEMMA FunctionIsSeq ==
  ASSUME NEW S, NEW n \in Nat, NEW f \in [1..n -> S]
  PROVE  f \in Seq(S)
OBVIOUS

\* The rows of the events that end: each of them was tracked, and the row has the start it had.
LEMMA StoredEvents ==
  ASSUME LogTypeOK, NEW ended \in SUBSET DOMAIN rec.open, NEW id \in Nat
  PROVE  LET stored == EndedRows(id, ended)
         IN /\ stored \in Seq([session : Nat, event : Events, from : Nat, to : Nat])
            /\ \A i \in DOMAIN stored : \E e \in ended : stored[i] = EventRow(id, e, rec.open[e], now)
            /\ \A e \in ended : \E i \in DOMAIN stored : stored[i] = EventRow(id, e, rec.open[e], now)
<1>1. IsFiniteSet(ended) /\ ended \subseteq Events
  BY FS_Subset, FlightLogConstants DEF LogTypeOK
<1>2. PICK names \in Seq(ended) : /\ names = SetToSeq(ended)
                                 /\ \A e \in ended : \E i \in DOMAIN names : names[i] = e
  BY <1>1, SetToSeqType
<1>3. \A e \in ended : EventRow(id, e, rec.open[e], now) \in [session : Nat, event : Events, from : Nat, to : Nat]
  BY <1>1 DEF EventRow, LogTypeOK
<1>4. PICK stored : /\ stored = EndedRows(id, ended)
                   /\ stored = [i \in DOMAIN names |-> EventRow(id, names[i], rec.open[names[i]], now)]
  BY <1>2 DEF EndedRows
<1>5. \A i \in DOMAIN names : names[i] \in ended
  BY <1>2
<1>6. /\ stored \in Seq([session : Nat, event : Events, from : Nat, to : Nat])
      /\ DOMAIN stored = DOMAIN names
  <2>1. PICK n \in Nat : DOMAIN names = 1..n
    BY <1>2
  <2>2. /\ DOMAIN stored = 1..n
        /\ \A i \in 1..n : stored[i] \in [session : Nat, event : Events, from : Nat, to : Nat]
    BY <1>3, <1>4, <1>5, <2>1
  <2>3. stored \in [1..n -> [session : Nat, event : Events, from : Nat, to : Nat]]
    BY <1>4, <2>1, <2>2
  <2>4. stored \in Seq([session : Nat, event : Events, from : Nat, to : Nat])
    BY <2>3, FunctionIsSeq
  <2> QED
    BY <2>1, <2>2, <2>4
<1>7. \A i \in DOMAIN stored : \E e \in ended : stored[i] = EventRow(id, e, rec.open[e], now)
  BY <1>4, <1>5, <1>6
<1>8. ASSUME NEW e \in ended
      PROVE  \E i \in DOMAIN stored : stored[i] = EventRow(id, e, rec.open[e], now)
  <2>1. PICK i \in DOMAIN names : names[i] = e
    BY <1>2
  <2>2. i \in DOMAIN stored /\ stored[i] = EventRow(id, names[i], rec.open[names[i]], now)
    BY <1>4, <1>6
  <2> QED
    BY <2>1, <2>2
<1> QED
  BY <1>4, <1>6, <1>7, <1>8

\* The recorder of events, with the engine it evaluates.
LEMMA PersistEventsType == LogTypeOK /\ PersistEvents => LogTypeOK'
<1> SUFFICES ASSUME LogTypeOK, PersistEvents PROVE LogTypeOK'
  OBVIOUS
<1>1. tick' = "phase" /\ UNCHANGED <<now, slot, sessions, state, phase, asking>>
  BY DEF PersistEvents
<1>2. now \in Nat /\ slot \in Nat /\ rec.eventSession \in Nat
  BY DEF LogTypeOK, Memory
<1>3. CASE slot = None
  <2>1. PICK ended : ended = DOMAIN rec.open
    OBVIOUS
  <2>2. PICK stored \in Seq([session : Nat, event : Events, from : Nat, to : Nat]) :
          /\ rec' = [rec EXCEPT !.open = Flushed(ended), !.eventSession = None]
          /\ Insert("events", IF rec.eventSession # None THEN stored ELSE <<>>)
          /\ UNCHANGED <<event, recent>>
    <3>1. DOMAIN rec.open \in SUBSET DOMAIN rec.open
      OBVIOUS
    <3>2. EndedRows(rec.eventSession, ended) \in Seq([session : Nat, event : Events, from : Nat, to : Nat])
      BY <1>2, <2>1, <3>1, StoredEvents
    <3> QED
      BY <1>3, <2>1, <3>2 DEF PersistEvents
  <2>3. rows' \in Tables /\ rows'.status = rows.status
    <3>1. (IF rec.eventSession # None THEN stored ELSE <<>>)
            \in Seq([session : Nat, event : Events, from : Nat, to : Nat])
      OBVIOUS
    <3> QED
      BY <2>2, <3>1, InsertType
  <2>4. DOMAIN Flushed(ended) = {}
    BY <2>1 DEF Flushed, Drop, LogTypeOK
  <2>5. rec' \in Memory' /\ rec'.open = Flushed(ended) /\ rec'.phase = rec.phase /\ rec'.status = rec.status
        /\ rec'.phaseSession = rec.phaseSession /\ rec'.eventSession = None
    BY <2>2 DEF LogTypeOK, Memory, None
  <2> QED
    BY <1>1, <2>2, <2>3, <2>4, <2>5 DEF LogTypeOK
<1>4. CASE slot # None
  <2>1. PICK judged : judged = Evaluate(event, state, now)
    OBVIOUS
  <2>2. judged \in [Events -> EventMemory] /\ \A e \in Events : judged[e].open => judged[e].down < Clear
    BY <1>2, <2>1, EvaluateType DEF LogTypeOK, EventMemory
  <2>3. PICK open : open = [e \in OpenIn(judged) |-> IF e \in DOMAIN rec.open THEN rec.open[e] ELSE judged[e].since]
    OBVIOUS
  <2>4. PICK stored \in Seq([session : Nat, event : Events, from : Nat, to : Nat]) :
          /\ event' = judged /\ Read({"event"})
          /\ rec' = [rec EXCEPT !.eventSession = slot, !.open = open]
          /\ Insert("events", stored)
    <3>1. DOMAIN rec.open \ OpenIn(judged) \in SUBSET DOMAIN rec.open
      OBVIOUS
    <3>2. EndedRows(slot, DOMAIN rec.open \ OpenIn(judged))
            \in Seq([session : Nat, event : Events, from : Nat, to : Nat])
      BY <1>2, <3>1, StoredEvents
    <3> QED
      BY <1>4, <2>1, <2>3, <3>2 DEF PersistEvents
  <2>5. rows' \in Tables /\ rows'.status = rows.status
    BY <2>4, InsertType
  <2>6. DOMAIN open \subseteq Events /\ \A e \in DOMAIN open : open[e] \in Nat
    BY <2>2, <2>3 DEF OpenIn, EventMemory, LogTypeOK
  <2>7. rec' \in Memory' /\ rec'.open = open /\ rec'.phase = rec.phase /\ rec'.status = rec.status
        /\ rec'.phaseSession = rec.phaseSession /\ rec'.eventSession = slot
    BY <1>2, <2>4 DEF LogTypeOK, Memory
  <2>8. recent' \in Seq(ReadStates) /\ Len(recent') = Len(recent)
    BY <2>4, ReadType
  <2> QED
    BY <1>1, <1>4, <2>2, <2>4, <2>5, <2>6, <2>7, <2>8 DEF LogTypeOK, EventMemory, ReadStates
<1> QED
  BY <1>3, <1>4

\* The recorder of phases, with the engine it evaluates.
LEMMA PersistPhaseType == LogTypeOK /\ PersistPhase => LogTypeOK'
<1> SUFFICES ASSUME LogTypeOK, PersistPhase PROVE LogTypeOK'
  OBVIOUS
<1>1. tick' = "wait" /\ UNCHANGED <<now, slot, sessions, state, event, asking>>
  BY DEF PersistPhase
<1>2. now \in Nat /\ slot \in Nat /\ rec.phaseSession \in Nat /\ rec.since \in Nat
      /\ rec.phase \in PhaseNames \cup {Nothing} /\ (rec.phase = Nothing <=> rec.phaseSession = None)
  BY DEF LogTypeOK, Memory
<1>3. PICK ph \in PhaseMemory : ph = Classify(phase, RawPhase(state))
  <2>1. RawPhase(state) \in PhaseNames /\ phase \in PhaseMemory
    BY RawPhaseType DEF LogTypeOK, PhaseMemory
  <2> QED
    BY <2>1, ClassifyType
<1>4. PICK interval : interval = <<IntervalRow(IF slot = None THEN rec.phaseSession ELSE slot,
                                               rec.phase, rec.since, now)>>
  OBVIOUS
<1>5. rec.phase # Nothing => interval \in Seq([session : Nat, phase : PhaseNames, from : Nat, to : Nat])
  <2>1. rec.phase # Nothing =>
          IntervalRow(IF slot = None THEN rec.phaseSession ELSE slot, rec.phase, rec.since, now)
            \in [session : Nat, phase : PhaseNames, from : Nat, to : Nat]
    BY <1>2 DEF IntervalRow
  <2> QED
    BY <1>4, <2>1
<1>6. <<>> \in Seq([session : Nat, phase : PhaseNames, from : Nat, to : Nat])
  OBVIOUS
<1>7. CASE slot = None
  <2>1. /\ rec' = [rec EXCEPT !.phase = Nothing, !.since = 0, !.phaseSession = None]
        /\ Insert("phases", IF rec.phaseSession # None /\ rec.phase # Nothing THEN interval ELSE <<>>)
        /\ UNCHANGED <<phase, recent>>
    BY <1>4, <1>7 DEF PersistPhase
  <2>2. rows' \in Tables /\ rows'.status = rows.status
    BY <1>5, <1>6, <2>1, InsertType
  <2>3. rec' \in Memory' /\ rec'.open = rec.open /\ rec'.phase = Nothing /\ rec'.status = rec.status
        /\ rec'.phaseSession = None /\ rec'.eventSession = rec.eventSession
    BY <2>1 DEF LogTypeOK, Memory, None
  <2> QED
    BY <1>1, <2>1, <2>2, <2>3 DEF LogTypeOK
<1>8. CASE slot # None
  <2>1. /\ phase' = ph /\ Read({"phase"})
        /\ rec' = [rec EXCEPT !.phaseSession = slot, !.phase = ph.current,
                              !.since = IntervalStart(ph.current)]
        /\ Insert("phases", IF rec.phase # Nothing /\ ph.current # rec.phase THEN interval ELSE <<>>)
    BY <1>3, <1>4, <1>8 DEF PersistPhase
  <2>2. rows' \in Tables /\ rows'.status = rows.status
    BY <1>5, <1>6, <2>1, InsertType
  <2>3. ph.current \in PhaseNames /\ ph.current # Nothing /\ IntervalStart(ph.current) \in Nat
    BY <1>2, <1>3 DEF PhaseMemory, IntervalStart, Nothing, PhaseNames, Motions
  <2>4. rec' \in Memory' /\ rec'.open = rec.open /\ rec'.phase = ph.current /\ rec'.status = rec.status
        /\ rec'.phaseSession = slot /\ rec'.eventSession = rec.eventSession
    BY <1>2, <2>1, <2>3 DEF LogTypeOK, Memory
  <2>5. recent' \in Seq(ReadStates) /\ Len(recent') = Len(recent)
    BY <2>1, ReadType
  <2> QED
    BY <1>1, <1>3, <1>8, <2>1, <2>2, <2>3, <2>4, <2>5 DEF LogTypeOK, PhaseMemory, ReadStates
<1> QED
  BY <1>7, <1>8

\* The readers of the API.
LEMMA SummaryType == LogTypeOK /\ (AskSummary \/ AnswerSummary) => LogTypeOK'
<1> SUFFICES ASSUME LogTypeOK, AskSummary \/ AnswerSummary PROVE LogTypeOK'
  OBVIOUS
<1>1. UNCHANGED <<now, slot, tick, state, rec, rows>> /\ sessions' = Inexact /\ asking' \in BOOLEAN
  BY DEF AskSummary, AnswerSummary
<1>2. phase' \in PhaseMemory
  <2>1. RawPhase(state) \in PhaseNames /\ phase \in PhaseMemory
    BY RawPhaseType DEF LogTypeOK, PhaseMemory
  <2> QED
    BY <2>1, ClassifyType DEF AskSummary, AnswerSummary
<1>3. event' \in [Events -> EventMemory] /\ \A e \in Events : event'[e].open => event'[e].down < Clear
  <2>1. CASE AskSummary
    BY <2>1, EvaluateType DEF AskSummary, LogTypeOK, EventMemory
  <2>2. CASE AnswerSummary
    BY <2>2 DEF AnswerSummary, LogTypeOK, EventMemory
  <2> QED
    BY <2>1, <2>2
<1>4. recent' \in Seq(ReadStates) /\ Len(recent') = Len(recent)
  BY ReadType DEF AskSummary, AnswerSummary
<1>5. sessions' \in Seq(SessionRows) /\ Len(sessions') = Len(sessions)
  BY <1>1, InexactType
<1> QED
  BY <1>1, <1>2, <1>3, <1>4, <1>5 DEF LogTypeOK, Memory, PhaseMemory, EventMemory, ReadStates

\* The row of a new session.
LEMMA SessionStartType ==
  ASSUME LogTypeOK, SessionStart
  PROVE  LogTypeOK' /\ \E s \in SessionRows :
           /\ sessions' = Append(sessions, s) /\ slot' = Len(sessions) + 1
           /\ s.start = now /\ s.open = OpenIn(event) /\ s.place = rec.place
           /\ s.seen.event = (rec.eventSession = None) /\ s.seen.phase = (rec.phaseSession = None)
<1>1. UNCHANGED <<now, tick, state, phase, event, asking, rec, rows, recent>> /\ slot' = Len(sessions) + 1
  BY DEF SessionStart
<1>2. PICK s : /\ sessions' = Append(sessions, s)
               /\ s = [start |-> now, open |-> OpenIn(event), place |-> rec.place,
                       seen |-> [event |-> rec.eventSession = None, phase |-> rec.phaseSession = None],
                       exact |-> tick \in {"wait", "sample"},
                       alone |-> state.filled = IF tick = "wait" THEN 0 ELSE 1]
  BY DEF SessionStart
<1>3. OpenIn(event) \in SUBSET Events /\ now \in Nat /\ rec.place \in Nat
      /\ (rec.eventSession = None) \in BOOLEAN /\ (rec.phaseSession = None) \in BOOLEAN
      /\ (tick \in {"wait", "sample"}) \in BOOLEAN
      /\ (state.filled = IF tick = "wait" THEN 0 ELSE 1) \in BOOLEAN
  BY DEF OpenIn, LogTypeOK, Memory
<1>4. s \in SessionRows
  BY <1>2, <1>3 DEF SessionRows
<1>5. /\ s.start = now /\ s.open = OpenIn(event) /\ s.place = rec.place
      /\ s.seen.event = (rec.eventSession = None) /\ s.seen.phase = (rec.phaseSession = None)
  BY <1>2
<1>6. sessions' \in Seq(SessionRows) /\ slot' \in 0..Len(sessions')
  BY <1>1, <1>2, <1>4 DEF LogTypeOK
<1> QED
  BY <1>1, <1>2, <1>4, <1>5, <1>6 DEF LogTypeOK, Memory

\* A step keeps the type invariant.
LEMMA LogStepType == LogTypeOK /\ [LogNext]_logVars => LogTypeOK'
<1> SUFFICES ASSUME LogTypeOK, [LogNext]_logVars PROVE LogTypeOK'
  OBVIOUS
<1>1. CASE SessionStop
  BY <1>1 DEF SessionStop, LogTypeOK, Memory, None
<1>2. CASE UNCHANGED logVars
  BY <1>2 DEF logVars, LogTypeOK, Memory
<1> QED
  BY <1>1, <1>2, NewStateType, SampleType, RecordPathType, LogTransitionType, PersistEventsType,
     PersistPhaseType, SummaryType, SessionStartType DEF LogNext

\* The engines, the recorders' memory and the tables always hold what their types allow.
THEOREM LogTypeCorrect == LogSpec => []LogTypeOK
BY LogInitType, LogStepType, PTL DEF LogSpec

-----------------------------------------------------------------------------
(* What a step does to the sessions and to the phases.                     *)

\* A session keeps what was noted when it started; one more may start, and nothing is later than now.
LEMMA SessionsStep ==
  ASSUME LogTypeOK, [LogNext]_logVars
  PROVE  /\ now <= now'
         /\ Len(sessions) <= Len(sessions')
         /\ \A i \in DOMAIN sessions :
              /\ i \in DOMAIN sessions'
              /\ sessions'[i].start = sessions[i].start /\ sessions'[i].open = sessions[i].open
              /\ sessions'[i].place = sessions[i].place /\ sessions'[i].seen = sessions[i].seen
         /\ \/ SessionStart
            \/ DOMAIN sessions' = DOMAIN sessions /\ Len(sessions') = Len(sessions) /\ slot' \in {slot, None}
<1>1. sessions \in Seq(SessionRows) /\ now \in Nat
  BY DEF LogTypeOK
<1>2. CASE SessionStart
  <2>1. PICK s \in SessionRows : sessions' = Append(sessions, s)
    BY <1>2, SessionStartType
  <2> QED
    BY <1>1, <1>2, <2>1 DEF SessionStart
<1>3. CASE Sample \/ AskSummary \/ AnswerSummary
  <2>1. UNCHANGED <<now, slot>> /\ (UNCHANGED sessions \/ sessions' = Inexact)
    BY <1>3 DEF Sample, AskSummary, AnswerSummary
  <2>2. CASE UNCHANGED sessions
    BY <1>1, <2>1, <2>2
  <2>3. CASE sessions' = Inexact
    BY <1>1, <2>1, <2>3, InexactType
  <2> QED
    BY <2>1, <2>2, <2>3
<1>4. CASE NewState
  BY <1>1, <1>4, FlightLogConstants DEF NewState
<1>5. CASE RecordPath \/ LogTransition \/ PersistEvents \/ PersistPhase \/ SessionStop \/ UNCHANGED logVars
  BY <1>1, <1>5 DEF RecordPath, LogTransition, PersistEvents, PersistPhase, SessionStop, logVars
<1> QED
  BY <1>2, <1>3, <1>4, <1>5 DEF LogNext

\* A session that is not the last to start was there before.
LEMMA EarlierSession ==
  ASSUME LogTypeOK, LogTypeOK', NEW id \in DOMAIN sessions', id <= Len(sessions)
  PROVE  id \in DOMAIN sessions
<1>1. sessions \in Seq(SessionRows) /\ sessions' \in Seq(SessionRows)
  BY DEF LogTypeOK, SessionRows
<1> QED
  BY <1>1

\* Only the recorder of phases changes what there is of phases.
LEMMA PhasesUntouched ==
  ASSUME LogTypeOK, [LogNext]_logVars, ~PersistPhase
  PROVE  /\ rows'.phases = rows.phases /\ rec'.phase = rec.phase /\ rec'.since = rec.since
         /\ rec'.phaseSession = rec.phaseSession
<1>1. PICK t \in Tables : t = rows
  BY DEF LogTypeOK
<1>2. PICK m \in Memory : m = rec
  BY DEF LogTypeOK
<1>3. CASE Sample
  BY <1>1, <1>2, <1>3 DEF Sample, Insert, Tables, Memory
<1>4. CASE RecordPath
  BY <1>1, <1>2, <1>4 DEF RecordPath, Insert, Tables, Memory
<1>5. CASE LogTransition
  BY <1>1, <1>2, <1>5 DEF LogTransition, Insert, Tables, Memory
<1>6. CASE PersistEvents
  BY <1>1, <1>2, <1>6 DEF PersistEvents, Insert, Tables, Memory
<1>7. CASE NewState \/ AskSummary \/ AnswerSummary \/ SessionStart \/ SessionStop \/ UNCHANGED logVars
  BY <1>7 DEF NewState, AskSummary, AnswerSummary, SessionStart, SessionStop, logVars
<1> QED
  BY <1>3, <1>4, <1>5, <1>6, <1>7 DEF LogNext

\* The session of the open interval when it is stored.
StoredFor == IF slot = None THEN rec.phaseSession ELSE slot

\* The recorder of phases stores the open interval, if it does, as it was; the one that is open then
\* is the same or starts now.
LEMMA PhasesTouched ==
  ASSUME LogTypeOK, PersistPhase
  PROVE  /\ UNCHANGED <<now, slot, sessions>> /\ tick = "phase" /\ tick' = "wait"
         /\ \/ rows'.phases = rows.phases
            \/ /\ rec.phase # Nothing /\ rec.phaseSession # None
               /\ rows'.phases = Append(rows.phases, IntervalRow(StoredFor, rec.phase, rec.since, now))
         /\ rec'.phaseSession = slot
         /\ slot = None => rec'.phase = Nothing /\ rec'.since = 0
         /\ slot # None => /\ rec'.phase # Nothing
                           /\ \/ /\ rec'.since = now
                                 /\ rec.phase = Nothing \/ rows'.phases # rows.phases
                              \/ /\ rec'.since = rec.since /\ rec.phase # Nothing /\ rows'.phases = rows.phases
                                 /\ rec.phaseSession # None
<1>1. PICK t \in Tables : t = rows
  BY DEF LogTypeOK
<1>2. PICK m \in Memory : m = rec
  BY DEF LogTypeOK
<1>3. UNCHANGED <<now, slot, sessions>> /\ tick = "phase" /\ tick' = "wait"
      /\ (rec.phase = Nothing <=> rec.phaseSession = None)
  BY DEF PersistPhase, LogTypeOK
<1>4. PICK row : row = IntervalRow(StoredFor, rec.phase, rec.since, now)
  OBVIOUS
<1>5. t.phases \o <<>> = t.phases /\ t.phases \o <<row>> = Append(t.phases, row)
      /\ Append(t.phases, row) # t.phases
  BY <1>1 DEF Tables
<1>6. CASE slot = None
  <2>1. /\ rec' = [m EXCEPT !.phase = Nothing, !.since = 0, !.phaseSession = None]
        /\ rows' = [t EXCEPT !.phases = @ \o (IF rec.phaseSession # None /\ rec.phase # Nothing
                                              THEN <<row>> ELSE <<>>)]
    BY <1>1, <1>2, <1>4, <1>6 DEF PersistPhase, Insert, StoredFor
  <2>2. rec'.phase = Nothing /\ rec'.since = 0 /\ rec'.phaseSession = None
    BY <1>2, <2>1 DEF Memory
  <2>3. rows'.phases = t.phases \o (IF rec.phaseSession # None /\ rec.phase # Nothing THEN <<row>> ELSE <<>>)
    BY <1>1, <2>1 DEF Tables
  <2> QED
    BY <1>1, <1>3, <1>4, <1>5, <1>6, <2>2, <2>3
<1>7. CASE slot # None
  <2>1. PICK ph \in PhaseMemory : ph = Classify(phase, RawPhase(state))
    <3>1. RawPhase(state) \in PhaseNames /\ phase \in PhaseMemory
      BY RawPhaseType DEF LogTypeOK, PhaseMemory
    <3> QED
      BY <3>1, ClassifyType
  <2>2. /\ rec' = [m EXCEPT !.phaseSession = slot, !.phase = ph.current, !.since = IntervalStart(ph.current)]
        /\ rows' = [t EXCEPT !.phases = @ \o (IF rec.phase # Nothing /\ ph.current # rec.phase
                                              THEN <<row>> ELSE <<>>)]
    BY <1>1, <1>2, <1>4, <1>7, <2>1 DEF PersistPhase, Insert, StoredFor
  <2>3. rec'.phase = ph.current /\ rec'.since = IntervalStart(ph.current) /\ rec'.phaseSession = slot
    BY <1>2, <2>2 DEF Memory
  <2>4. rows'.phases = t.phases \o (IF rec.phase # Nothing /\ ph.current # rec.phase THEN <<row>> ELSE <<>>)
    BY <1>1, <2>2 DEF Tables
  <2>5. ph.current # Nothing
    BY <2>1 DEF PhaseMemory, Nothing, PhaseNames, Motions
  <2> QED
    BY <1>1, <1>3, <1>4, <1>5, <1>7, <2>3, <2>4, <2>5 DEF IntervalStart
<1> QED
  BY <1>6, <1>7

-----------------------------------------------------------------------------
(* The stored phases follow each other, and stay within their session.     *)

\* Nothing about phases is later than now, or of a session to come; an interval that is open at a
\* tick began before it.
PhaseTimes ==
  /\ \A i \in DOMAIN sessions : sessions[i].start <= now
  /\ rec.since <= now
  /\ rec.phase # Nothing /\ tick # "wait" => rec.since < now
  /\ rec.phaseSession <= Len(sessions)
  /\ \A i \in DOMAIN rows.phases :
       rows.phases[i].to <= now /\ rows.phases[i].session <= Len(sessions)

\* The open interval begins where the last one of its session ends.
OpenTiles ==
  /\ slot # None /\ PhaseIntervals(rows, slot) # {} => rec.phaseSession = slot
  /\ rec.phaseSession # None /\ PhaseIntervals(rows, rec.phaseSession) # {} =>
       \E q \in PhaseIntervals(rows, rec.phaseSession) : q.to = rec.since

\* An interval still open from before its session, or from another one, was not seen to end.
OpenOfItsSession ==
  /\ rec.phaseSession # None /\ rec.since < sessions[rec.phaseSession].start =>
       ~sessions[rec.phaseSession].seen.phase
  /\ slot # None /\ rec.phaseSession \notin {None, slot} => ~sessions[slot].seen.phase

\* The part of RowsOfTheirSession about phases.
PhasesOfTheirSession ==
  \A id \in DOMAIN sessions : \A r \in PhaseIntervals(rows, id) :
    r.from < sessions[id].start => ~sessions[id].seen.phase

PhaseRows == [session : Nat, phase : PhaseNames, from : Nat, to : Nat]

\* What the invariants about phases take from the types.
LEMMA PhaseTypes ==
  ASSUME LogTypeOK
  PROVE  /\ now \in Nat /\ sessions \in Seq(SessionRows) /\ slot \in 0..Len(sessions) /\ None \in Nat
         /\ rows.phases \in Seq(PhaseRows) /\ rec.since \in Nat /\ rec.phaseSession \in Nat
         /\ rec.phase = Nothing <=> rec.phaseSession = None
BY DEF LogTypeOK, Tables, Memory, PhaseRows, None

\* What is in a sequence after a row is appended.
LEMMA AppendElement ==
  ASSUME NEW S, NEW t \in Seq(S), NEW row
  PROVE  /\ DOMAIN Append(t, row) = DOMAIN t \cup {Len(t) + 1} /\ Append(t, row)[Len(t) + 1] = row
         /\ Len(t) + 1 \notin DOMAIN t
         /\ \A i \in DOMAIN t : Append(t, row)[i] = t[i]
OBVIOUS

\* An interval goes to the answers for its own session only.
LEMMA IntervalAdded ==
  ASSUME NEW t \in Seq(PhaseRows), rows.phases = t, NEW row, rows'.phases = Append(t, row), NEW id
  PROVE  PhaseIntervals(rows', id) = PhaseIntervals(rows, id)
                                       \cup (IF row.session = id THEN {row} ELSE {})
<1>1. ToSet(Append(t, row)) = ToSet(t) \cup {row}
  <2>1. PICK n \in Nat : n = Len(t) /\ DOMAIN t = 1..n
    OBVIOUS
  <2>2. /\ DOMAIN Append(t, row) = 1..n + 1 /\ Append(t, row)[n + 1] = row
        /\ \A i \in 1..n : Append(t, row)[i] = t[i]
    BY <2>1
  <2> QED
    BY <2>1, <2>2 DEF ToSet
<1> QED
  BY <1>1 DEF PhaseIntervals

\* What is known of the interval that is stored.
LEMMA StoredInterval ==
  ASSUME LogTypeOK, PhaseTimes, PersistPhase, rows'.phases # rows.phases
  PROVE  \E row \in PhaseRows :
           /\ rows'.phases = Append(rows.phases, row)
           /\ row.session = StoredFor /\ row.from = rec.since /\ row.to = now /\ rec.since < now
           /\ rec.phase # Nothing /\ rec.phaseSession # None /\ StoredFor \in DOMAIN sessions
<1>1. PICK row : /\ row = IntervalRow(StoredFor, rec.phase, rec.since, now)
                 /\ rows'.phases = Append(rows.phases, row)
                 /\ rec.phase # Nothing /\ rec.phaseSession # None
  BY PhasesTouched
<1>2. row.session = StoredFor /\ row.from = rec.since /\ row.to = now
  BY <1>1 DEF IntervalRow
<1>3. StoredFor \in DOMAIN sessions /\ StoredFor \in Nat
  BY <1>1, PhaseTypes DEF PhaseTimes, StoredFor, None
<1>4. row \in PhaseRows
  <2>1. rec.phase \in PhaseNames
    BY <1>1 DEF LogTypeOK, Memory
  <2> QED
    BY <1>1, <1>3, <2>1, PhaseTypes DEF IntervalRow, PhaseRows
<1>5. rec.since < now
  BY <1>1, PhasesTouched DEF PhaseTimes
<1> QED
  BY <1>1, <1>2, <1>3, <1>4, <1>5

\* What was in time stays so.
LEMMA LaterStill ==
  ASSUME NEW q, NEW end \in Nat, NEW len \in Nat, NEW end2 \in Nat, NEW len2 \in Nat,
         end <= end2, len <= len2, \A i \in DOMAIN q : q[i].to \in Nat /\ q[i].session \in Nat,
         \A i \in DOMAIN q : q[i].to <= end /\ q[i].session <= len
  PROVE  \A i \in DOMAIN q : q[i].to <= end2 /\ q[i].session <= len2
OBVIOUS

\* A step keeps the times of the phases.
LEMMA PhaseTimesStep ==
  ASSUME LogTypeOK, LogTypeOK', PhaseTimes, [LogNext]_logVars
  PROVE  PhaseTimes'
<1> USE PhaseTypes
<1>1. now <= now' /\ now' \in Nat /\ Len(sessions) <= Len(sessions') /\ Len(sessions') \in Nat
  BY SessionsStep DEF LogTypeOK
<1>2. \A i \in DOMAIN sessions' : sessions'[i].start <= now'
  <2>1. CASE SessionStart
    <3>1. PICK s \in SessionRows : sessions' = Append(sessions, s) /\ s.start = now
      BY <2>1, SessionStartType
    <3>2. now' = now
      BY <2>1 DEF SessionStart
    <3> QED
      BY <3>1, <3>2 DEF PhaseTimes
  <2>2. CASE DOMAIN sessions' = DOMAIN sessions
    <3>1. \A i \in DOMAIN sessions : sessions'[i].start = sessions[i].start /\ sessions[i].start \in Nat
      <4>1. \A i \in DOMAIN sessions : sessions[i] \in SessionRows
        OBVIOUS
      <4> QED
        BY <4>1, SessionsStep DEF SessionRows
    <3> QED
      BY <1>1, <2>2, <3>1 DEF PhaseTimes
  <2> QED
    BY <2>1, <2>2, SessionsStep
<1>3. CASE ~PersistPhase
  <2>1. /\ rows'.phases = rows.phases /\ rec'.phase = rec.phase /\ rec'.since = rec.since
        /\ rec'.phaseSession = rec.phaseSession
    BY <1>3, PhasesUntouched
  <2>2. tick = "wait" /\ tick' # "wait" => now < now'
    <3>1. CASE NewState
      <4>1. PICK g \in Gaps : now' = now + g
        BY <3>1 DEF NewState
      <4> QED
        BY <4>1, FlightLogConstants DEF LogTypeOK
    <3>2. CASE ~NewState
      BY <1>3, <3>2 DEF LogNext, logVars, Sample, RecordPath, LogTransition, PersistEvents,
         AskSummary, AnswerSummary, SessionStart, SessionStop
    <3> QED
      BY <3>1, <3>2
  <2>3. rec'.phase # Nothing /\ tick' # "wait" => rec'.since < now'
    BY <1>1, <2>1, <2>2 DEF PhaseTimes
  <2>4. \A i \in DOMAIN rows.phases : rows.phases[i].to \in Nat /\ rows.phases[i].session \in Nat
    <3>1. \A i \in DOMAIN rows.phases : rows.phases[i] \in PhaseRows
      OBVIOUS
    <3> QED
      BY <3>1 DEF PhaseRows
  <2>5. rec.since \in Nat /\ rec.since <= now /\ rec.phaseSession \in Nat /\ rec.phaseSession <= Len(sessions)
    BY DEF PhaseTimes, LogTypeOK, Memory
  <2>6. rec'.since <= now' /\ rec'.phaseSession <= Len(sessions')
    BY <1>1, <2>1, <2>5
  <2>7. \A i \in DOMAIN rows'.phases : rows'.phases[i].to <= now' /\ rows'.phases[i].session <= Len(sessions')
    <3>1. \A i \in DOMAIN rows.phases : rows.phases[i].to <= now /\ rows.phases[i].session <= Len(sessions)
      BY DEF PhaseTimes
    <3>2. now \in Nat /\ Len(sessions) \in Nat
      OBVIOUS
    <3> QED
      BY <1>1, <2>1, <2>4, <3>1, <3>2, LaterStill
  <2> QED
    BY <1>2, <2>3, <2>6, <2>7 DEF PhaseTimes
<1>4. CASE PersistPhase
  <2>1. UNCHANGED <<now, slot, sessions>> /\ tick' = "wait" /\ rec'.phaseSession = slot /\ rec'.since <= now
    BY <1>4, PhasesTouched DEF PhaseTimes
  <2>2. CASE rows'.phases = rows.phases
    BY <1>2, <2>1, <2>2 DEF PhaseTimes
  <2>3. CASE rows'.phases # rows.phases
    <3>1. PICK row \in PhaseRows :
            /\ rows'.phases = Append(rows.phases, row) /\ row.to = now /\ row.session \in DOMAIN sessions
      BY <1>4, <2>3, StoredInterval
    <3>2. \A i \in DOMAIN rows'.phases :
            \/ i \in DOMAIN rows.phases /\ rows'.phases[i] = rows.phases[i]
            \/ rows'.phases[i] = row
      BY <3>1, AppendElement
    <3>3. row.to <= now' /\ row.session <= Len(sessions')
      BY <2>1, <3>1
    <3> QED
      BY <1>2, <2>1, <3>2, <3>3 DEF PhaseTimes
  <2> QED
    BY <2>2, <2>3
<1> QED
  BY <1>3, <1>4

\* A step keeps the first half of the open interval: only its recorder stores intervals of the slot.
LEMMA OpenTilesStep ==
  ASSUME LogTypeOK, LogTypeOK', PhaseTimes, OpenTiles, [LogNext]_logVars
  PROVE  OpenTiles'
<1> USE PhaseTypes
<1>1. CASE ~PersistPhase
  <2>1. /\ rows'.phases = rows.phases /\ rec'.phase = rec.phase /\ rec'.since = rec.since
        /\ rec'.phaseSession = rec.phaseSession
    BY <1>1, PhasesUntouched
  <2>2. \A id : PhaseIntervals(rows', id) = PhaseIntervals(rows, id)
    BY <2>1 DEF PhaseIntervals
  <2>3. CASE SessionStart
    <3>1. slot' = Len(sessions) + 1
      BY <2>3 DEF SessionStart
    <3>2. PhaseIntervals(rows, slot') = {}
      BY <3>1 DEF PhaseIntervals, ToSet, PhaseTimes
    <3> QED
      BY <2>1, <2>2, <3>2 DEF OpenTiles
  <2>4. CASE slot' \in {slot, None}
    BY <2>1, <2>2, <2>4 DEF OpenTiles
  <2> QED
    BY <2>3, <2>4, SessionsStep
<1>2. CASE PersistPhase
  <2>1. UNCHANGED <<now, slot, sessions>> /\ rec'.phaseSession = slot
    BY <1>2, PhasesTouched
  <2>2. CASE slot = None
    BY <2>1, <2>2 DEF OpenTiles
  <2>3. CASE slot # None /\ rows'.phases = rows.phases
    <3>1. PhaseIntervals(rows', slot) = PhaseIntervals(rows, slot)
      BY <2>3 DEF PhaseIntervals
    <3>2. CASE rec'.since = rec.since
      BY <2>1, <2>3, <3>1, <3>2 DEF OpenTiles
    <3>3. CASE rec'.since # rec.since
      <4>1. rec'.since = now
        BY <1>2, <2>3, <3>3, PhasesTouched
      <4> QED
        BY <1>2, <2>1, <2>3, <3>1, <3>3, <4>1, PhasesTouched DEF OpenTiles
    <3> QED
      BY <3>2, <3>3
  <2>4. CASE slot # None /\ rows'.phases # rows.phases
    <3>1. PICK row \in PhaseRows :
            rows'.phases = Append(rows.phases, row) /\ row.session = StoredFor /\ row.to = now
      BY <1>2, <2>4, StoredInterval
    <3>2. row \in PhaseIntervals(rows', slot)
      BY <2>4, <3>1, IntervalAdded DEF StoredFor
    <3>3. rec'.since = now
      BY <1>2, <2>4, PhasesTouched
    <3> QED
      BY <2>1, <3>1, <3>2, <3>3 DEF OpenTiles
  <2> QED
    BY <2>2, <2>3, <2>4
<1> QED
  BY <1>1, <1>2

\* A step keeps the stored intervals apart, and those of a session together.
LEMMA PhaseRowsTileStep ==
  ASSUME LogTypeOK, LogTypeOK', PhaseTimes, OpenTiles, PhaseRowsTile, [LogNext]_logVars
  PROVE  PhaseRowsTile'
<1> USE PhaseTypes
<1>1. CASE rows'.phases = rows.phases
  <2>1. \A id : PhaseIntervals(rows', id) = PhaseIntervals(rows, id)
    BY <1>1 DEF PhaseIntervals
  <2>2. ASSUME NEW i \in DOMAIN rows.phases, rec'.phase # Nothing PROVE rows.phases[i].to <= rec'.since
    <3>1. CASE rec'.since = now
      BY <2>2, <3>1 DEF PhaseTimes
    <3>2. CASE rec'.since = rec.since /\ rec.phase # Nothing
      BY <2>2, <3>2 DEF PhaseRowsTile
    <3> QED
      BY <2>2, <3>1, <3>2, PhasesTouched, PhasesUntouched
  <2>3. ASSUME NEW id \in DOMAIN sessions', NEW r \in PhaseIntervals(rows, id)
        PROVE  \/ \E q \in PhaseIntervals(rows, id) : q.to = r.from
               \/ \A q \in PhaseIntervals(rows, id) : r.from <= q.from
    <3>1. id \in DOMAIN sessions
      <4>1. PICK i \in DOMAIN rows.phases : rows.phases[i].session = id
        BY DEF PhaseIntervals, ToSet
      <4>2. id <= Len(sessions)
        BY <4>1 DEF PhaseTimes
      <4> QED
        BY <2>3, <4>2, EarlierSession
    <3> QED
      BY <2>3, <3>1 DEF PhaseRowsTile
  <2> QED
    BY <1>1, <2>1, <2>2, <2>3 DEF PhaseRowsTile
<1>2. CASE rows'.phases # rows.phases
  <2>1. PersistPhase
    BY <1>2, PhasesUntouched
  <2>2. PICK row \in PhaseRows :
          /\ rows'.phases = Append(rows.phases, row)
          /\ row.session = StoredFor /\ row.from = rec.since /\ row.to = now /\ rec.since < now
          /\ rec.phase # Nothing /\ rec.phaseSession # None
    BY <1>2, <2>1, StoredInterval
  <2>3. PICK t \in Seq(PhaseRows) : t = rows.phases
    OBVIOUS
  <2>4. PICK new : new = Append(t, row) /\ new = rows'.phases
    BY <2>2, <2>3
  <2>5. /\ DOMAIN new = DOMAIN t \cup {Len(t) + 1} /\ new[Len(t) + 1] = row /\ DOMAIN t = 1..Len(t)
        /\ Len(t) \in Nat
        /\ \A i \in DOMAIN t : new[i] = t[i]
    <3>1. DOMAIN t = 1..Len(t) /\ Len(t) \in Nat
      BY <2>3
    <3>2. /\ DOMAIN new = DOMAIN t \cup {Len(t) + 1} /\ new[Len(t) + 1] = row
          /\ \A i \in DOMAIN t : new[i] = t[i]
      <4>1. /\ DOMAIN Append(t, row) = DOMAIN t \cup {Len(t) + 1} /\ Append(t, row)[Len(t) + 1] = row
            /\ \A i \in DOMAIN t : Append(t, row)[i] = t[i]
        BY ONLY <2>3, AppendElement
      <4> QED
        BY ONLY <2>4, <4>1
    <3> QED
      BY <3>1, <3>2
  <2>6. \A i \in DOMAIN t : /\ t[i].to <= rec.since /\ t[i].from < t[i].to /\ t[i].to <= now
                            /\ t[i].to \in Nat /\ t[i].from \in Nat
    <3>1. \A i \in DOMAIN t : t[i] \in PhaseRows
      BY <2>3
    <3> QED
      BY <2>2, <2>3, <3>1 DEF PhaseRowsTile, PhaseTimes, PhaseRows
  <2>7. \A i, j \in DOMAIN new : i < j => new[i].to <= new[j].from
    <3> TAKE i, j \in DOMAIN new
    <3> HAVE i < j
    <3>1. i \in DOMAIN t /\ new[i] = t[i]
      BY <2>5
    <3>2. CASE j \in DOMAIN t
      BY <2>3, <2>5, <3>1, <3>2 DEF PhaseRowsTile
    <3>3. CASE j = Len(t) + 1
      BY <2>2, <2>5, <2>6, <3>1, <3>3
    <3> QED
      BY <2>5, <3>2, <3>3
  <2>8. \A i \in DOMAIN new : new[i].from < new[i].to
    BY <2>2, <2>5, <2>6
  <2>9. rec'.phase # Nothing => \A i \in DOMAIN new : new[i].to <= rec'.since
    <3>1. rec'.phase # Nothing => rec'.since = now
      BY <1>2, <2>1, PhasesTouched
    <3> QED
      BY <2>2, <2>5, <2>6, <3>1
  <2>10. ASSUME NEW id \in DOMAIN sessions', NEW r \in PhaseIntervals(rows', id)
         PROVE  \/ \E q \in PhaseIntervals(rows', id) : q.to = r.from
                \/ \A q \in PhaseIntervals(rows', id) : r.from <= q.from
    <3>1. id \in DOMAIN sessions
      BY <2>1, <2>10, PhasesTouched
    <3>2. PICK old : old = PhaseIntervals(rows, id)
      OBVIOUS
    <3>3. PhaseIntervals(rows', id) = old \cup (IF row.session = id THEN {row} ELSE {})
      BY <2>2, <3>2, IntervalAdded
    <3>4. CASE r \in old
      <4>1. r.from <= row.from
        <5>1. PICK i \in DOMAIN t : r = t[i]
          BY <2>3, <3>2, <3>4 DEF PhaseIntervals, ToSet
        <5> QED
          BY <2>2, <2>6, <5>1
      <4>2. \/ \E q \in old : q.to = r.from
            \/ \A q \in old : r.from <= q.from
        BY <3>1, <3>2, <3>4 DEF PhaseRowsTile
      <4> QED
        BY <3>3, <4>1, <4>2
    <3>5. CASE r \notin old
      <4>1. r = row /\ row.session = id
        BY <2>10, <3>3, <3>5
      <4>2. CASE old = {}
        BY <2>2, <3>3, <4>1, <4>2
      <4>3. CASE old # {}
        <5>1. rec.phaseSession = id
          BY <2>2, <3>2, <4>1, <4>3 DEF StoredFor, OpenTiles
        <5>2. \E q \in old : q.to = rec.since
          BY <2>2, <3>2, <4>3, <5>1 DEF OpenTiles
        <5> QED
          BY <2>2, <3>3, <4>1, <5>2
      <4> QED
        BY <4>2, <4>3
    <3> QED
      BY <3>4, <3>5
  <2> QED
    BY <2>4, <2>7, <2>8, <2>9, <2>10 DEF PhaseRowsTile
<1> QED
  BY <1>1, <1>2

\* A step keeps what is known of an interval from before its session.
LEMMA OpenOfItsSessionStep ==
  ASSUME LogTypeOK, LogTypeOK', PhaseTimes, OpenOfItsSession, [LogNext]_logVars
  PROVE  OpenOfItsSession'
<1> USE PhaseTypes
<1>1. CASE ~PersistPhase
  <2>1. rec'.since = rec.since /\ rec'.phaseSession = rec.phaseSession
    BY <1>1, PhasesUntouched
  <2>2. rec.phaseSession # None => rec.phaseSession \in DOMAIN sessions
    BY DEF PhaseTimes, None
  <2>3. rec'.phaseSession # None /\ rec'.since < sessions'[rec'.phaseSession].start =>
          ~sessions'[rec'.phaseSession].seen.phase
    BY <2>1, <2>2, SessionsStep DEF OpenOfItsSession
  <2>4. slot' # None /\ rec'.phaseSession \notin {None, slot'} => ~sessions'[slot'].seen.phase
    <3>1. CASE SessionStart
      <4>1. PICK s \in SessionRows : /\ sessions' = Append(sessions, s) /\ slot' = Len(sessions) + 1
                                     /\ s.seen.phase = (rec.phaseSession = None)
        BY <3>1, SessionStartType
      <4>2. sessions'[slot'] = s
        BY <4>1, AppendElement
      <4> QED
        BY <2>1, <4>1, <4>2
    <3>2. CASE slot' \in {slot, None}
      BY <2>1, <3>2, SessionsStep DEF OpenOfItsSession, None
    <3> QED
      BY <3>1, <3>2, SessionsStep
  <2> QED
    BY <2>3, <2>4 DEF OpenOfItsSession
<1>2. CASE PersistPhase
  <2>1. UNCHANGED <<now, slot, sessions>> /\ rec'.phaseSession = slot
    BY <1>2, PhasesTouched
  <2>2. CASE slot = None
    BY <2>1, <2>2 DEF OpenOfItsSession
  <2>3. CASE slot # None
    <3>1. slot \in DOMAIN sessions /\ sessions[slot].start <= now /\ sessions[slot].start \in Nat
      <4>1. \A i \in DOMAIN sessions : sessions[i] \in SessionRows
        OBVIOUS
      <4> QED
        BY <2>3, <4>1, SlotType DEF PhaseTimes, SessionRows
    <3>2. CASE rec'.since = now
      BY <2>1, <2>3, <3>1, <3>2 DEF OpenOfItsSession
    <3>3. CASE rec'.since = rec.since /\ rec.phaseSession # None
      BY <2>1, <2>3, <3>3 DEF OpenOfItsSession
    <3> QED
      BY <1>2, <2>3, <3>2, <3>3, PhasesTouched
  <2> QED
    BY <2>2, <2>3
<1> QED
  BY <1>1, <1>2

\* A step keeps the stored intervals within their session.
LEMMA PhasesOfTheirSessionStep ==
  ASSUME LogTypeOK, LogTypeOK', PhaseTimes, OpenOfItsSession, PhasesOfTheirSession, [LogNext]_logVars
  PROVE  PhasesOfTheirSession'
<1> USE PhaseTypes
<1>1. SUFFICES ASSUME NEW id \in DOMAIN sessions', NEW r \in PhaseIntervals(rows', id),
                      r.from < sessions'[id].start
               PROVE  ~sessions'[id].seen.phase
  BY DEF PhasesOfTheirSession
<1>2. CASE r \in PhaseIntervals(rows, id)
  <2>1. PICK i \in DOMAIN rows.phases : rows.phases[i].session = id
    BY <1>2 DEF PhaseIntervals, ToSet
  <2>2. id <= Len(sessions)
    BY <2>1 DEF PhaseTimes
  <2>3. id \in DOMAIN sessions
    BY <1>1, <2>2, EarlierSession
  <2> QED
    BY <1>1, <1>2, <2>3, SessionsStep DEF PhasesOfTheirSession
<1>3. CASE r \notin PhaseIntervals(rows, id)
  <2>1. rows'.phases # rows.phases
    BY <1>1, <1>3 DEF PhaseIntervals
  <2>2. PersistPhase
    BY <2>1, PhasesUntouched
  <2>3. PICK row \in PhaseRows :
          /\ rows'.phases = Append(rows.phases, row)
          /\ row.session = StoredFor /\ row.from = rec.since
          /\ rec.phaseSession # None
    BY <2>1, <2>2, StoredInterval
  <2>4. r = row /\ row.session = id
    BY <1>1, <1>3, <2>3, IntervalAdded
  <2>5. UNCHANGED sessions
    BY <2>2, PhasesTouched
  <2> QED
    BY <1>1, <2>3, <2>4, <2>5 DEF StoredFor, OpenOfItsSession
<1> QED
  BY <1>2, <1>3

PhaseInv == PhaseTimes /\ OpenTiles /\ OpenOfItsSession /\ PhaseRowsTile /\ PhasesOfTheirSession

\* All of it holds at the start.
LEMMA PhaseInit == LogInit => PhaseInv
<1> SUFFICES ASSUME LogInit PROVE PhaseInv
  OBVIOUS
<1>1. /\ sessions = <<>> /\ DOMAIN sessions = {} /\ slot = None /\ rows.phases = <<>> /\ DOMAIN rows.phases = {}
      /\ rec.phaseSession = None /\ rec.since = 0 /\ now = 0 /\ rec.phase = Nothing /\ Len(sessions) = 0
  BY DEF LogInit
<1> QED
  BY <1>1 DEF PhaseInv, PhaseTimes, OpenTiles, OpenOfItsSession, PhaseRowsTile,
     PhasesOfTheirSession, None

\* And a step keeps it.
LEMMA PhaseInvStep == LogTypeOK /\ PhaseInv /\ [LogNext]_logVars => PhaseInv'
BY LogStepType, PhaseTimesStep, OpenTilesStep, OpenOfItsSessionStep, PhaseRowsTileStep,
   PhasesOfTheirSessionStep DEF PhaseInv

\* The stored phase intervals never overlap, and those of a session follow each other without a gap.
THEOREM PhaseRowsAlwaysTile == LogSpec => []PhaseRowsTile
BY LogInitType, LogStepType, PhaseInit, PhaseInvStep, PTL DEF LogSpec, PhaseInv

-----------------------------------------------------------------------------
(* The stored events stay within their session.                            *)

\* An open event was open before, since the same time, or opens now.
LEMMA JudgeSince ==
  ASSUME NEW ev \in EventMemory, NEW verdict, NEW at, Judge(ev, verdict, at).open
  PROVE  \/ ev.open /\ Judge(ev, verdict, at).since = ev.since
         \/ Judge(ev, verdict, at).since = at
<1>1. ev.open \in BOOLEAN
  BY DEF EventMemory
<1>2. CASE Judge(ev, verdict, at) = Raise(ev, at)
  BY <1>1, <1>2 DEF Raise
<1>3. CASE ev.open /\ Judge(ev, verdict, at) = Lower(ev)
  BY <1>3 DEF Lower, EventMemory
<1>4. CASE ~ev.open /\ Judge(ev, verdict, at) \in {[ev EXCEPT !.down = 0], [ev EXCEPT !.up = 0]}
  BY <1>4 DEF EventMemory
<1> QED
  BY <1>1, <1>2, <1>3, <1>4 DEF Judge

\* Only the recorder of events changes what there is of events; a summary may also evaluate them.
LEMMA EventsUntouched ==
  ASSUME LogTypeOK, [LogNext]_logVars, ~PersistEvents
  PROVE  /\ rows'.events = rows.events /\ rec'.open = rec.open /\ rec'.eventSession = rec.eventSession
         /\ \/ event' = event
            \/ AskSummary /\ event' = Evaluate(event, state, now) /\ UNCHANGED <<now, slot>>
<1>1. PICK t \in Tables : t = rows
  BY DEF LogTypeOK
<1>2. PICK m \in Memory : m = rec
  BY DEF LogTypeOK
<1>3. CASE Sample
  BY <1>1, <1>2, <1>3 DEF Sample, Insert, Tables, Memory
<1>4. CASE RecordPath
  BY <1>1, <1>2, <1>4 DEF RecordPath, Insert, Tables, Memory
<1>5. CASE LogTransition
  BY <1>1, <1>2, <1>5 DEF LogTransition, Insert, Tables, Memory
<1>6. CASE PersistPhase
  <2>1. rec'.open = rec.open /\ rec'.eventSession = rec.eventSession
    BY <1>2, <1>6 DEF PersistPhase, Memory
  <2>2. rows'.events = rows.events
    BY <1>1, <1>6 DEF PersistPhase, Insert, Tables
  <2> QED
    BY <1>6, <2>1, <2>2 DEF PersistPhase
<1>7. CASE NewState \/ AnswerSummary \/ SessionStart \/ SessionStop \/ UNCHANGED logVars
  BY <1>7 DEF NewState, AnswerSummary, SessionStart, SessionStop, logVars
<1>8. CASE AskSummary
  BY <1>8 DEF AskSummary
<1> QED
  BY <1>3, <1>4, <1>5, <1>6, <1>7, <1>8 DEF LogNext

\* The session of the events that end.
EndedFor == IF slot = None THEN rec.eventSession ELSE slot

\* The rows it stores are of events that were tracked, with their start; an event that is tracked
\* then was before, or has the start the engine gives it.
LEMMA EventsTouched ==
  ASSUME LogTypeOK, PersistEvents
  PROVE  /\ UNCHANGED <<now, slot, sessions>> /\ rec'.eventSession = slot
         /\ \E new \in Seq([session : Nat, event : Events, from : Nat, to : Nat]) :
              /\ rows'.events = rows.events \o new
              /\ new # <<>> => EndedFor # None
              /\ \A i \in DOMAIN new : \E e \in DOMAIN rec.open :
                   new[i] = EventRow(EndedFor, e, rec.open[e], now)
         /\ slot = None => event' = event
         /\ slot # None =>
              /\ event' = Evaluate(event, state, now)
              /\ DOMAIN rec'.open = OpenIn(event')
              /\ \A e \in DOMAIN rec'.open :
                   IF e \in DOMAIN rec.open THEN rec'.open[e] = rec.open[e]
                                            ELSE rec'.open[e] = event'[e].since
<1>1. PICK t \in Tables : t = rows
  BY DEF LogTypeOK
<1>2. PICK m \in Memory : m = rec
  BY DEF LogTypeOK
<1>3. UNCHANGED <<now, slot, sessions>> /\ now \in Nat /\ slot \in Nat /\ rec.eventSession \in Nat
  BY DEF PersistEvents, LogTypeOK, Memory
<1>4. CASE slot = None
  <2>1. PICK ended : ended = DOMAIN rec.open
    OBVIOUS
  <2>2. PICK stored : stored = EndedRows(rec.eventSession, ended)
    OBVIOUS
  <2>3. /\ stored \in Seq([session : Nat, event : Events, from : Nat, to : Nat])
        /\ \A i \in DOMAIN stored : \E e \in ended : stored[i] = EventRow(rec.eventSession, e, rec.open[e], now)
    <3>1. ended \in SUBSET DOMAIN rec.open
      BY <2>1
    <3> QED
      BY <1>3, <2>2, <3>1, StoredEvents
  <2>4. /\ rec' = [m EXCEPT !.open = Flushed(ended), !.eventSession = None]
        /\ rows' = [t EXCEPT !.events = @ \o (IF rec.eventSession # None THEN stored ELSE <<>>)]
        /\ event' = event
    BY <1>1, <1>2, <1>4, <2>1, <2>2 DEF PersistEvents, Insert
  <2>5. rec'.eventSession = None
    BY <1>2, <2>4 DEF Memory
  <2>6. rows'.events = t.events \o (IF rec.eventSession # None THEN stored ELSE <<>>)
    BY <1>1, <2>4 DEF Tables
  <2>7. PICK new \in Seq([session : Nat, event : Events, from : Nat, to : Nat]) :
          new = IF rec.eventSession # None THEN stored ELSE <<>>
    <3>1. <<>> \in Seq([session : Nat, event : Events, from : Nat, to : Nat])
      OBVIOUS
    <3> QED
      BY <2>3, <3>1
  <2>8. /\ new # <<>> => EndedFor # None
        /\ \A i \in DOMAIN new : \E e \in DOMAIN rec.open : new[i] = EventRow(EndedFor, e, rec.open[e], now)
    BY <1>4, <2>1, <2>3, <2>7 DEF EndedFor
  <2> QED
    BY <1>1, <1>3, <1>4, <2>4, <2>5, <2>6, <2>7, <2>8
<1>5. CASE slot # None
  <2>1. PICK judged : judged = Evaluate(event, state, now)
    OBVIOUS
  <2>2. PICK ended : ended = DOMAIN rec.open \ OpenIn(judged)
    OBVIOUS
  <2>3. PICK new : new = EndedRows(slot, ended)
    OBVIOUS
  <2>4. /\ new \in Seq([session : Nat, event : Events, from : Nat, to : Nat])
        /\ \A i \in DOMAIN new : \E e \in ended : new[i] = EventRow(slot, e, rec.open[e], now)
    <3>1. ended \in SUBSET DOMAIN rec.open
      BY <2>2
    <3> QED
      BY <1>3, <2>3, <3>1, StoredEvents
  <2>5. PICK open : open = [e \in OpenIn(judged) |-> IF e \in DOMAIN rec.open THEN rec.open[e] ELSE judged[e].since]
    OBVIOUS
  <2>6. /\ rec' = [m EXCEPT !.eventSession = slot, !.open = open]
        /\ rows' = [t EXCEPT !.events = @ \o new]
        /\ event' = judged
    BY <1>1, <1>2, <1>5, <2>1, <2>2, <2>3, <2>5 DEF PersistEvents, Insert
  <2>7. rec'.eventSession = slot /\ rec'.open = open
    BY <1>2, <2>6 DEF Memory
  <2>8. rows'.events = t.events \o new
    BY <1>1, <2>6 DEF Tables
  <2>9. /\ EndedFor = slot
        /\ \A i \in DOMAIN new : \E e \in DOMAIN rec.open : new[i] = EventRow(slot, e, rec.open[e], now)
    BY <1>5, <2>2, <2>4 DEF EndedFor
  <2>10. /\ DOMAIN rec'.open = OpenIn(event')
         /\ \A e \in DOMAIN rec'.open :
              IF e \in DOMAIN rec.open THEN rec'.open[e] = rec.open[e] ELSE rec'.open[e] = event'[e].since
    BY <2>5, <2>6, <2>7
  <2>11. \E some \in Seq([session : Nat, event : Events, from : Nat, to : Nat]) :
           /\ rows'.events = rows.events \o some
           /\ some # <<>> => EndedFor # None
           /\ \A i \in DOMAIN some : \E e \in DOMAIN rec.open :
                some[i] = EventRow(EndedFor, e, rec.open[e], now)
    BY <1>1, <1>5, <2>4, <2>8, <2>9, Zenon
  <2> QED
    BY <1>3, <1>5, <2>1, <2>6, <2>7, <2>10, <2>11, Zenon
<1> QED
  BY <1>4, <1>5

\* Nothing about events is of a session to come.
EventTimes ==
  /\ rec.eventSession <= Len(sessions)
  /\ \A i \in DOMAIN rows.events : rows.events[i].session <= Len(sessions)

\* An event tracked from before its session, or from another one, was not seen to end, or it was open
\* when the session started; so were all that the engine has open since before.
EventsOfItsSession ==
  /\ rec.eventSession # None =>
       \A e \in DOMAIN rec.open : rec.open[e] < sessions[rec.eventSession].start =>
         ~sessions[rec.eventSession].seen.event \/ e \in sessions[rec.eventSession].open
  /\ slot # None /\ rec.eventSession \notin {None, slot} => ~sessions[slot].seen.event
  /\ slot # None => \A e \in Events :
       event[e].open /\ event[e].since < sessions[slot].start => e \in sessions[slot].open

\* The part of RowsOfTheirSession about events.
EventsOfTheirSession ==
  \A id \in DOMAIN sessions : \A r \in FlightEvents(rows, id) :
    r.from < sessions[id].start => ~sessions[id].seen.event \/ r.event \in sessions[id].open

EventRows == [session : Nat, event : Events, from : Nat, to : Nat]

\* What the invariants about events take from the types.
LEMMA EventTypes ==
  ASSUME LogTypeOK
  PROVE  /\ now \in Nat /\ sessions \in Seq(SessionRows) /\ slot \in 0..Len(sessions) /\ None \in Nat
         /\ rows.events \in Seq(EventRows) /\ rec.eventSession \in Nat
         /\ event \in [Events -> EventMemory]
         /\ DOMAIN rec.open \subseteq Events /\ \A e \in DOMAIN rec.open : rec.open[e] \in Nat
         /\ rec.eventSession = None => DOMAIN rec.open = {}
         /\ \A i \in DOMAIN sessions : sessions[i].start \in Nat
<1>1. /\ now \in Nat /\ sessions \in Seq(SessionRows) /\ slot \in 0..Len(sessions) /\ None \in Nat
      /\ rows.events \in Seq(EventRows) /\ rec.eventSession \in Nat
      /\ event \in [Events -> EventMemory]
      /\ DOMAIN rec.open \subseteq Events /\ \A e \in DOMAIN rec.open : rec.open[e] \in Nat
      /\ rec.eventSession = None => DOMAIN rec.open = {}
  BY DEF LogTypeOK, Tables, Memory, EventRows, EventMemory, None
<1>2. \A i \in DOMAIN sessions : sessions[i] \in SessionRows
  BY <1>1
<1> QED
  BY <1>1, <1>2 DEF SessionRows

\* What is in a sequence after others are appended.
LEMMA ConcatElement ==
  ASSUME NEW S, NEW t \in Seq(S), NEW new \in Seq(S), NEW i \in DOMAIN (t \o new)
  PROVE  \/ i \in DOMAIN t /\ (t \o new)[i] = t[i]
         \/ \E j \in DOMAIN new : (t \o new)[i] = new[j]
<1>1. CASE i <= Len(t)
  BY <1>1
<1>2. CASE i > Len(t)
  <2>1. i - Len(t) \in DOMAIN new /\ (t \o new)[i] = new[i - Len(t)]
    BY <1>2
  <2> QED
    BY <2>1
<1> QED
  BY <1>1, <1>2

\* A row of events that is new is of an event that was tracked, for the session of its moment.
LEMMA EventAdded ==
  ASSUME LogTypeOK, PersistEvents, NEW i \in DOMAIN rows'.events
  PROVE  \/ i \in DOMAIN rows.events /\ rows'.events[i] = rows.events[i]
         \/ /\ EndedFor # None
            /\ \E e \in DOMAIN rec.open : /\ rows'.events[i].session = EndedFor
                                          /\ rows'.events[i].event = e
                                          /\ rows'.events[i].from = rec.open[e]
<1>1. PICK new \in Seq(EventRows) :
        /\ rows'.events = rows.events \o new
        /\ new # <<>> => EndedFor # None
        /\ \A k \in DOMAIN new : \E e \in DOMAIN rec.open : new[k] = EventRow(EndedFor, e, rec.open[e], now)
  BY EventsTouched DEF EventRows
<1>2. PICK t \in Seq(EventRows) : t = rows.events
  BY EventTypes
<1>3. \/ i \in DOMAIN t /\ (t \o new)[i] = t[i]
      \/ \E j \in DOMAIN new : (t \o new)[i] = new[j]
  BY <1>1, <1>2, ConcatElement
<1>4. CASE i \in DOMAIN t /\ (t \o new)[i] = t[i]
  BY <1>1, <1>2, <1>4
<1>5. ASSUME NEW j \in DOMAIN new, (t \o new)[i] = new[j]
      PROVE  /\ EndedFor # None
             /\ \E e \in DOMAIN rec.open : /\ rows'.events[i].session = EndedFor
                                           /\ rows'.events[i].event = e
                                           /\ rows'.events[i].from = rec.open[e]
  <2>1. new # <<>>
    BY <1>5
  <2>2. PICK e \in DOMAIN rec.open : new[j] = EventRow(EndedFor, e, rec.open[e], now)
    BY <1>1, <1>5
  <2>3. rows'.events[i] = EventRow(EndedFor, e, rec.open[e], now)
    BY <1>1, <1>2, <1>5, <2>2
  <2>4. /\ rows'.events[i].session = EndedFor /\ rows'.events[i].event = e
        /\ rows'.events[i].from = rec.open[e]
    BY <2>3 DEF EventRow
  <2> QED
    BY <1>1, <2>1, <2>4
<1> QED
  BY <1>3, <1>4, <1>5

\* A step keeps the sessions of the events.
LEMMA EventTimesStep ==
  ASSUME LogTypeOK, LogTypeOK', EventTimes, [LogNext]_logVars
  PROVE  EventTimes'
<1>1. Len(sessions) \in Nat /\ Len(sessions') \in Nat /\ Len(sessions) <= Len(sessions')
      /\ slot <= Len(sessions) /\ slot \in Nat /\ rec.eventSession \in Nat
  BY SessionsStep, EventTypes DEF LogTypeOK
<1>2. \A i \in DOMAIN rows.events : rows.events[i].session \in Nat
  <2>1. \A i \in DOMAIN rows.events : rows.events[i] \in EventRows
    BY EventTypes
  <2> QED
    BY <2>1 DEF EventRows
<1>3. CASE ~PersistEvents
  BY <1>1, <1>2, <1>3, EventsUntouched DEF EventTimes
<1>4. CASE PersistEvents
  <2>1. EndedFor <= Len(sessions)
    BY <1>1 DEF EndedFor, EventTimes
  <2>2. UNCHANGED sessions /\ rec'.eventSession = slot
    BY <1>4, EventsTouched
  <2> QED
    BY <1>1, <1>2, <1>4, <2>1, <2>2, EventAdded DEF EventTimes
<1> QED
  BY <1>3, <1>4

\* A step keeps what is known of the events from before their session.
LEMMA EventsOfItsSessionStep ==
  ASSUME LogTypeOK, LogTypeOK', PhaseTimes, EventTimes, EventsOfItsSession, [LogNext]_logVars
  PROVE  EventsOfItsSession'
<1> USE EventTypes
<1> DEFINE Early == slot # None => \A e \in Events :
              event'[e].open /\ event'[e].since < sessions[slot].start => e \in sessions[slot].open
<1>1. ASSUME event' \in {event, Evaluate(event, state, now)} PROVE Early
  <2>1. CASE event' = event
    BY <2>1 DEF EventsOfItsSession
  <2>2. CASE event' = Evaluate(event, state, now)
    <3> SUFFICES ASSUME slot # None, NEW e \in Events, event'[e].open, event'[e].since < sessions[slot].start
                 PROVE  e \in sessions[slot].open
      OBVIOUS
    <3>1. event'[e] = Judge(event[e], Check(state, e), now)
      BY <2>2 DEF Evaluate
    <3>2. sessions[slot].start <= now /\ sessions[slot].start \in Nat
      BY SlotType DEF PhaseTimes
    <3>3. event[e].open /\ event'[e].since = event[e].since
      BY <3>1, <3>2, JudgeSince
    <3> QED
      BY <3>3 DEF EventsOfItsSession
  <2> QED
    BY <1>1, <2>1, <2>2
<1>2. CASE ~PersistEvents
  <2>1. rec'.open = rec.open /\ rec'.eventSession = rec.eventSession
    BY <1>2, EventsUntouched
  <2>2. rec.eventSession # None => rec.eventSession \in DOMAIN sessions
    BY DEF EventTimes, None
  <2>3. rec'.eventSession # None =>
          \A e \in DOMAIN rec'.open : rec'.open[e] < sessions'[rec'.eventSession].start =>
            ~sessions'[rec'.eventSession].seen.event \/ e \in sessions'[rec'.eventSession].open
    BY <2>1, <2>2, SessionsStep DEF EventsOfItsSession
  <2>4. CASE SessionStart
    <3>1. PICK s \in SessionRows : /\ sessions' = Append(sessions, s) /\ slot' = Len(sessions) + 1
                                   /\ s.seen.event = (rec.eventSession = None) /\ s.open = OpenIn(event)
      BY <2>4, SessionStartType
    <3>2. sessions'[slot'] = s
      BY <3>1, AppendElement
    <3>3. event' = event
      BY <2>4 DEF SessionStart
    <3>4. slot' # None /\ rec'.eventSession \notin {None, slot'} => ~sessions'[slot'].seen.event
      BY <2>1, <3>1, <3>2
    <3>5. \A e \in Events : event'[e].open => e \in sessions'[slot'].open
      BY <3>1, <3>2, <3>3 DEF OpenIn
    <3> QED
      BY <2>3, <3>4, <3>5 DEF EventsOfItsSession
  <2>5. CASE slot' = None
    BY <2>3, <2>5 DEF EventsOfItsSession
  <2>6. CASE slot' = slot /\ slot # None
    <3>1. Early
      BY <1>1, <1>2, EventsUntouched
    <3>2. slot \in DOMAIN sessions
      BY <2>6, SlotType
    <3>3. \A e \in Events : event'[e].open /\ event'[e].since < sessions'[slot].start => e \in sessions'[slot].open
      BY <2>6, <3>1, <3>2, SessionsStep
    <3>4. rec'.eventSession \notin {None, slot} => ~sessions'[slot].seen.event
      BY <2>1, <2>6, <3>2, SessionsStep DEF EventsOfItsSession
    <3> QED
      BY <2>3, <2>6, <3>3, <3>4 DEF EventsOfItsSession
  <2> QED
    BY <2>4, <2>5, <2>6, SessionsStep
<1>3. CASE PersistEvents
  <2>1. UNCHANGED <<now, slot, sessions>> /\ rec'.eventSession = slot
    BY <1>3, EventsTouched
  <2>2. CASE slot = None
    BY <2>1, <2>2 DEF EventsOfItsSession
  <2>3. CASE slot # None
    <3>1. Early
      BY <1>1, <1>3, <2>3, EventsTouched
    <3>2. ASSUME NEW e \in DOMAIN rec'.open, rec'.open[e] < sessions[slot].start
          PROVE  ~sessions[slot].seen.event \/ e \in sessions[slot].open
      <4>1. e \in OpenIn(event')
        BY <1>3, <2>3, <3>2, EventsTouched
      <4>2. CASE e \in DOMAIN rec.open
        <5>1. rec'.open[e] = rec.open[e] /\ rec.eventSession # None
          BY <1>3, <2>3, <3>2, <4>2, EventsTouched
        <5> QED
          BY <2>3, <3>2, <4>2, <5>1 DEF EventsOfItsSession
      <4>3. CASE e \notin DOMAIN rec.open
        <5>1. rec'.open[e] = event'[e].since
          BY <1>3, <2>3, <3>2, <4>3, EventsTouched
        <5> QED
          BY <2>3, <3>1, <3>2, <4>1, <5>1 DEF OpenIn
      <4> QED
        BY <4>2, <4>3
    <3> QED
      BY <2>1, <2>3, <3>1, <3>2 DEF EventsOfItsSession
  <2> QED
    BY <2>2, <2>3
<1> QED
  BY <1>2, <1>3

\* A step keeps the stored events within their session.
LEMMA EventsOfTheirSessionStep ==
  ASSUME LogTypeOK, LogTypeOK', EventTimes, EventsOfItsSession, EventsOfTheirSession, [LogNext]_logVars
  PROVE  EventsOfTheirSession'
<1> USE EventTypes
<1>1. SUFFICES ASSUME NEW id \in DOMAIN sessions', NEW i \in DOMAIN rows'.events, NEW r,
                      r = rows'.events[i], r.session = id, r.from < sessions'[id].start
               PROVE  ~sessions'[id].seen.event \/ r.event \in sessions'[id].open
  BY DEF EventsOfTheirSession, FlightEvents, ToSet
<1>2. CASE i \in DOMAIN rows.events /\ rows'.events[i] = rows.events[i]
  <2>1. id \in DOMAIN sessions
    BY <1>1, <1>2, EarlierSession DEF EventTimes
  <2>2. r \in FlightEvents(rows, id)
    BY <1>1, <1>2 DEF FlightEvents, ToSet
  <2> QED
    BY <1>1, <2>1, <2>2, SessionsStep DEF EventsOfTheirSession
<1>3. CASE ~(i \in DOMAIN rows.events /\ rows'.events[i] = rows.events[i])
  <2>1. PersistEvents
    BY <1>1, <1>3, EventsUntouched
  <2>2. PICK e \in DOMAIN rec.open : r.session = EndedFor /\ r.event = e /\ r.from = rec.open[e]
    BY <1>1, <1>3, <2>1, EventAdded
  <2>3. UNCHANGED sessions /\ EndedFor # None /\ rec.eventSession # None
    BY <1>1, <1>3, <2>1, <2>2, EventAdded, EventsTouched
  <2> QED
    BY <1>1, <2>2, <2>3 DEF EndedFor, EventsOfItsSession
<1> QED
  BY <1>2, <1>3

EventInv == EventTimes /\ EventsOfItsSession /\ EventsOfTheirSession

\* All of it holds at the start.
LEMMA EventInit == LogInit => EventInv
<1> SUFFICES ASSUME LogInit PROVE EventInv
  OBVIOUS
<1>1. /\ sessions = <<>> /\ DOMAIN sessions = {} /\ slot = None /\ rows.events = <<>> /\ DOMAIN rows.events = {}
      /\ rec.eventSession = None /\ Len(sessions) = 0
  BY DEF LogInit
<1> QED
  BY <1>1 DEF EventInv, EventTimes, EventsOfItsSession, EventsOfTheirSession, None

\* And a step keeps it, with the times of the sessions.
LEMMA EventInvStep == LogTypeOK /\ PhaseInv /\ EventInv /\ [LogNext]_logVars => EventInv'
BY LogStepType, EventTimesStep, EventsOfItsSessionStep, EventsOfTheirSessionStep DEF EventInv,
   PhaseInv

\* A stored phase or event does not start before its session, except where the recorder has not seen
\* a moment without a session, or the event was open at the start.
THEOREM RowsAreOfTheirSession == LogSpec => []RowsOfTheirSession
<1>1. PhaseInv /\ EventInv => RowsOfTheirSession
  BY DEF PhaseInv, EventInv, PhasesOfTheirSession, EventsOfTheirSession, RowsOfTheirSession
<1> QED
  BY <1>1, LogInitType, LogStepType, PhaseInit, PhaseInvStep, EventInit, EventInvStep, PTL DEF
     LogSpec

-----------------------------------------------------------------------------
(* The path of a session keeps the place it began with.                    *)

\* A set of natural numbers has a least one.
LEMMA LeastNumber ==
  ASSUME NEW S \in SUBSET Nat, S # {}
  PROVE  \E m \in S : \A k \in S : m <= k
<1>1. PICK m \in S : \A k \in S : ~(<<k, m>> \in OpToRel(<, Nat))
  BY NatLessThanWellFounded, WFMin
<1>2. ASSUME NEW k \in S, ~(m <= k) PROVE FALSE
  <2>1. k \in Nat /\ m \in Nat /\ k < m
    BY <1>2
  <2>2. <<k, m>> \in OpToRel(<, Nat)
    BY <2>1, Zenon DEF OpToRel
  <2> QED
    BY <1>1, <1>2, <2>2
<1> QED
  BY <1>2

\* A path begins where its least position says.
LEMMA FirstIsLeast ==
  ASSUME NEW f, DOMAIN f \subseteq Nat, NEW m \in DOMAIN f, \A k \in DOMAIN f : m <= k
  PROVE  First(f) = f[m]
<1>1. \A i \in DOMAIN f : (\A k \in DOMAIN f : i <= k) => i = m
  OBVIOUS
<1> QED
  BY <1>1 DEF First

\* A path that grows at its end keeps its beginning.
LEMMA FirstKept ==
  ASSUME NEW n \in Nat, NEW f, NEW some \in DOMAIN f, NEW g,
         \A i \in DOMAIN f : i \in 1..n /\ i \in DOMAIN g /\ g[i] = f[i],
         \A k \in DOMAIN g : k \in DOMAIN f \/ k = n + 1
  PROVE  First(g) = First(f)
<1>1. PICK m \in DOMAIN f : \A k \in DOMAIN f : m <= k
  <2>1. DOMAIN f \in SUBSET Nat
    OBVIOUS
  <2> QED
    BY <2>1, LeastNumber
<1>2. First(f) = f[m]
  BY <1>1, FirstIsLeast
<1>3. DOMAIN g \subseteq Nat /\ m \in DOMAIN g /\ \A k \in DOMAIN g : m <= k
  BY <1>1
<1>4. First(g) = g[m]
  BY <1>3, FirstIsLeast
<1> QED
  BY <1>1, <1>2, <1>4

SampleRows == [session : Nat, state : AircraftStates]
PointRows == [session : Nat, at : Nat, place : Nat]

\* What the invariants about paths take from the types.
LEMMA PathTypes ==
  ASSUME LogTypeOK
  PROVE  /\ now \in Nat /\ sessions \in Seq(SessionRows) /\ slot \in 0..Len(sessions) /\ None \in Nat
         /\ rows.path \in Seq(PointRows) /\ rows.samples \in Seq(SampleRows)
         /\ rec.place \in Nat /\ state.place \in Nat
BY DEF LogTypeOK, Tables, Memory, SampleRows, PointRows, AircraftStates, None

\* Only the sampler stores samples, and one of the session and the state of its moment.
LEMMA SamplesStep ==
  ASSUME LogTypeOK, [LogNext]_logVars
  PROVE  \/ rows'.samples = rows.samples
         \/ /\ rows'.samples = Append(rows.samples, SampleRow(slot, state)) /\ slot # None
            /\ Sample /\ tick = "sample" /\ tick' = "path" /\ UNCHANGED <<slot, sessions, state>>
            /\ rows'.path = rows.path /\ rec'.place = rec.place
<1>1. PICK t \in Tables : t = rows
  BY DEF LogTypeOK
<1>2. PICK m \in Memory : m = rec
  BY DEF LogTypeOK
<1>3. CASE Sample
  <2>1. CASE UNCHANGED rows
    BY <2>1
  <2>2. CASE slot # None /\ rec' = [m EXCEPT !.sampled = now]
             /\ rows' = [t EXCEPT !.samples = @ \o <<SampleRow(slot, state)>>]
    <3>1. rows'.samples = Append(t.samples, SampleRow(slot, state)) /\ rows'.path = t.path
      BY <1>1, <2>2 DEF Tables
    <3>2. rec'.place = m.place
      BY <1>2, <2>2 DEF Memory
    <3> QED
      BY <1>1, <1>2, <1>3, <2>2, <3>1, <3>2 DEF Sample
  <2> QED
    BY <1>1, <1>2, <1>3, <2>1, <2>2 DEF Sample, Insert
<1>4. CASE RecordPath
  BY <1>1, <1>4 DEF RecordPath, Insert, Tables
<1>5. CASE LogTransition
  BY <1>1, <1>5 DEF LogTransition, Insert, Tables
<1>6. CASE PersistEvents
  BY <1>1, <1>6 DEF PersistEvents, Insert, Tables
<1>7. CASE PersistPhase
  BY <1>1, <1>7 DEF PersistPhase, Insert, Tables
<1>8. CASE NewState \/ AskSummary \/ AnswerSummary \/ SessionStart \/ SessionStop \/ UNCHANGED logVars
  BY <1>8 DEF NewState, AskSummary, AnswerSummary, SessionStart, SessionStop, logVars
<1> QED
  BY <1>3, <1>4, <1>5, <1>6, <1>7, <1>8 DEF LogNext

\* Only the path recorder stores points, and one of the place of its moment, far from the last.
LEMMA PointsStep ==
  ASSUME LogTypeOK, [LogNext]_logVars
  PROVE  \/ rows'.path = rows.path /\ rec'.place = rec.place
         \/ /\ rows'.path = Append(rows.path, PointRow(slot, now, state.place))
            /\ rec'.place = state.place /\ slot # None
            /\ RecordPath /\ tick = "path" /\ UNCHANGED <<slot, sessions, state>>
            /\ rows'.samples = rows.samples
<1>1. PICK t \in Tables : t = rows
  BY DEF LogTypeOK
<1>2. PICK m \in Memory : m = rec
  BY DEF LogTypeOK
<1>3. CASE RecordPath
  <2>1. CASE UNCHANGED <<rec, rows>>
    BY <2>1
  <2>2. CASE slot # None /\ rec' = [m EXCEPT !.place = state.place]
             /\ rows' = [t EXCEPT !.path = @ \o <<PointRow(slot, now, state.place)>>]
    <3>1. rows'.path = Append(t.path, PointRow(slot, now, state.place)) /\ rows'.samples = t.samples
      BY <1>1, <2>2 DEF Tables
    <3>2. rec'.place = state.place
      BY <1>2, <2>2 DEF Memory
    <3> QED
      BY <1>1, <1>2, <1>3, <2>2, <3>1, <3>2 DEF RecordPath
  <2> QED
    BY <1>1, <1>2, <1>3, <2>1, <2>2 DEF RecordPath, Insert
<1>4. CASE Sample
  BY <1>1, <1>2, <1>4 DEF Sample, Insert, Tables, Memory
<1>5. CASE LogTransition
  BY <1>1, <1>2, <1>5 DEF LogTransition, Insert, Tables, Memory
<1>6. CASE PersistEvents
  BY <1>1, <1>2, <1>6 DEF PersistEvents, Insert, Tables, Memory
<1>7. CASE PersistPhase
  <2>1. rows'.path = rows.path
    BY <1>1, <1>7 DEF PersistPhase, Insert, Tables
  <2>2. rec'.place = rec.place
    BY <1>2, <1>7 DEF PersistPhase, Memory
  <2> QED
    BY <2>1, <2>2
<1>8. CASE NewState \/ AskSummary \/ AnswerSummary \/ SessionStart \/ SessionStop \/ UNCHANGED logVars
  BY <1>8 DEF NewState, AskSummary, AnswerSummary, SessionStart, SessionStop, logVars
<1> QED
  BY <1>3, <1>4, <1>5, <1>6, <1>7, <1>8 DEF LogNext

\* A sample more gives the path of its session a place at its end, if it has one.
LEMMA SampleAdded ==
  ASSUME LogTypeOK, rows'.samples = Append(rows.samples, SampleRow(slot, state)), NEW id
  PROVE  /\ PlacedOf(rows, id) # {} =>
              PlacedOf(rows', id) # {} /\ First(PathOfSamples(rows', id)) = First(PathOfSamples(rows, id))
         /\ PlacedOf(rows, id) = {} /\ PlacedOf(rows', id) # {} =>
              id = slot /\ First(PathOfSamples(rows', id)) = state.place /\ state.place # None
<1>1. PICK t \in Seq(SampleRows) : t = rows.samples
  BY PathTypes
<1>2. PICK n \in Nat : n = Len(t) /\ DOMAIN t = 1..n
  BY <1>1
<1>3. PICK row : row = SampleRow(slot, state) /\ row.session = slot /\ row.state = state
  BY DEF SampleRow
<1>4. PICK new : new = rows'.samples /\ new = Append(t, row)
  BY <1>1, <1>3
<1>5. /\ DOMAIN new = 1..n \cup {n + 1} /\ new[n + 1] = row /\ n + 1 \notin 1..n
      /\ \A i \in 1..n : new[i] = t[i]
  BY <1>1, <1>2, <1>4, AppendElement
<1>6. PICK old : old = PlacedOf(rows, id)
  OBVIOUS
<1>7. old \subseteq 1..n
  BY <1>1, <1>2, <1>6 DEF PlacedOf, SamplesOf
<1>8. PlacedOf(rows', id) = old \cup (IF id = slot /\ state.place # None THEN {n + 1} ELSE {})
  <2>1. PlacedOf(rows', id) = {i \in DOMAIN new : new[i].session = id /\ new[i].state.place # None}
    BY <1>4 DEF PlacedOf, SamplesOf
  <2>2. old = {i \in 1..n : t[i].session = id /\ t[i].state.place # None}
    BY <1>1, <1>2, <1>6 DEF PlacedOf, SamplesOf
  <2>3. new[n + 1].session = slot /\ new[n + 1].state = state
    BY <1>3, <1>5
  <2> QED
    BY <1>5, <2>1, <2>2, <2>3
<1>9. PICK f : f = PathOfSamples(rows, id) /\ DOMAIN f = old /\ \A i \in old : f[i] = t[i].state.place
  <2>1. PathOfSamples(rows, id) = [i \in old |-> t[i].state.place]
    BY <1>1, <1>6 DEF PathOfSamples
  <2> QED
    BY ONLY <2>1
<1>10. PICK g : /\ g = PathOfSamples(rows', id) /\ DOMAIN g = PlacedOf(rows', id)
                /\ \A i \in DOMAIN g : g[i] = new[i].state.place
  <2>1. PathOfSamples(rows', id) = [i \in PlacedOf(rows', id) |-> new[i].state.place]
    BY <1>4 DEF PathOfSamples
  <2> QED
    BY ONLY <2>1
<1>11. CASE old # {}
  <2>1. DOMAIN g \in {DOMAIN f, DOMAIN f \cup {n + 1}}
    BY <1>8, <1>9, <1>10
  <2>2. \A i \in DOMAIN f : g[i] = f[i]
    <3>1. \A i \in DOMAIN f : i \in 1..n /\ i \in DOMAIN g
      BY <1>7, <1>9, <2>1
    <3> QED
      BY <1>5, <1>9, <1>10, <3>1
  <2>3. First(g) = First(f)
    <3>1. PICK some : some \in DOMAIN f
      BY <1>9, <1>11
    <3>2. \A i \in DOMAIN f : i \in 1..n /\ i \in DOMAIN g /\ g[i] = f[i]
      BY <1>7, <1>9, <2>1, <2>2
    <3>3. \A k \in DOMAIN g : k \in DOMAIN f \/ k = n + 1
      BY <2>1
    <3> QED
      BY <3>1, <3>2, <3>3, FirstKept
  <2> QED
    BY <1>6, <1>8, <1>9, <1>10, <1>11, <2>3
<1>12. CASE old = {} /\ PlacedOf(rows', id) # {}
  <2>1. DOMAIN g = {n + 1} /\ id = slot /\ state.place # None
    BY <1>8, <1>10, <1>12
  <2>2. g[n + 1] = state.place
    BY <1>3, <1>5, <1>10, <2>1
  <2>3. First(g) = g[n + 1]
    BY <2>1, FirstIsLeast
  <2> QED
    BY <1>6, <1>10, <1>12, <2>1, <2>2, <2>3
<1> QED
  BY <1>6, <1>11, <1>12

\* A point more gives the path of its session a place at its end.
LEMMA PointAdded ==
  ASSUME LogTypeOK, rows'.path = Append(rows.path, PointRow(slot, now, state.place)), NEW id
  PROVE  /\ PointsOf(rows', id) # {} <=> PointsOf(rows, id) # {} \/ id = slot
         /\ PointsOf(rows, id) # {} => First(PathOfPoints(rows', id)) = First(PathOfPoints(rows, id))
         /\ PointsOf(rows, id) = {} /\ id = slot => First(PathOfPoints(rows', id)) = state.place
<1>1. PICK t \in Seq(PointRows) : t = rows.path
  BY PathTypes
<1>2. PICK n \in Nat : n = Len(t) /\ DOMAIN t = 1..n
  BY <1>1
<1>3. PICK row : row = PointRow(slot, now, state.place) /\ row.session = slot /\ row.place = state.place
  BY DEF PointRow
<1>4. PICK new : new = rows'.path /\ new = Append(t, row)
  BY <1>1, <1>3
<1>5. /\ DOMAIN new = 1..n \cup {n + 1} /\ new[n + 1] = row /\ n + 1 \notin 1..n
      /\ \A i \in 1..n : new[i] = t[i]
  BY <1>1, <1>2, <1>4, AppendElement
<1>6. PICK old : old = PointsOf(rows, id)
  OBVIOUS
<1>7. old \subseteq 1..n
  BY <1>1, <1>2, <1>6 DEF PointsOf
<1>8. PointsOf(rows', id) = old \cup (IF id = slot THEN {n + 1} ELSE {})
  <2>1. PointsOf(rows', id) = {i \in DOMAIN new : new[i].session = id}
    BY <1>4 DEF PointsOf
  <2>2. old = {i \in 1..n : t[i].session = id}
    BY <1>1, <1>2, <1>6 DEF PointsOf
  <2> QED
    BY <1>3, <1>5, <2>1, <2>2
<1>9. PICK f : f = PathOfPoints(rows, id) /\ DOMAIN f = old /\ \A i \in old : f[i] = t[i].place
  <2>1. PathOfPoints(rows, id) = [i \in old |-> t[i].place]
    BY <1>1, <1>6 DEF PathOfPoints
  <2> QED
    BY ONLY <2>1
<1>10. PICK g : /\ g = PathOfPoints(rows', id) /\ DOMAIN g = PointsOf(rows', id)
                /\ \A i \in DOMAIN g : g[i] = new[i].place
  <2>1. PathOfPoints(rows', id) = [i \in PointsOf(rows', id) |-> new[i].place]
    BY <1>4 DEF PathOfPoints
  <2> QED
    BY ONLY <2>1
<1>11. CASE old # {}
  <2>1. DOMAIN g \in {DOMAIN f, DOMAIN f \cup {n + 1}}
    BY <1>8, <1>9, <1>10
  <2>2. \A i \in DOMAIN f : g[i] = f[i]
    <3>1. \A i \in DOMAIN f : i \in 1..n /\ i \in DOMAIN g
      BY <1>7, <1>9, <2>1
    <3> QED
      BY <1>5, <1>9, <1>10, <3>1
  <2>3. First(g) = First(f)
    <3>1. PICK some : some \in DOMAIN f
      BY <1>9, <1>11
    <3>2. \A i \in DOMAIN f : i \in 1..n /\ i \in DOMAIN g /\ g[i] = f[i]
      BY <1>7, <1>9, <2>1, <2>2
    <3>3. \A k \in DOMAIN g : k \in DOMAIN f \/ k = n + 1
      BY <2>1
    <3> QED
      BY <3>1, <3>2, <3>3, FirstKept
  <2> QED
    BY <1>6, <1>8, <1>9, <1>10, <1>11, <2>3
<1>12. CASE old = {} /\ id = slot
  <2>1. DOMAIN g = {n + 1}
    BY <1>8, <1>10, <1>12
  <2>2. g[n + 1] = state.place
    BY <1>3, <1>5, <1>10, <2>1
  <2>3. First(g) = g[n + 1]
    BY <2>1, FirstIsLeast
  <2> QED
    BY <1>6, <1>8, <1>10, <1>12, <2>2, <2>3
<1>13. CASE old = {} /\ id # slot
  BY <1>6, <1>8, <1>13
<1> QED
  BY <1>11, <1>12, <1>13

\* No point and no sample is of a session to come.
PathTimes ==
  /\ \A i \in DOMAIN rows.path : rows.path[i].session <= Len(sessions)
  /\ \A i \in DOMAIN rows.samples : rows.samples[i].session <= Len(sessions)

\* Without a point the path recorder compares with the place the session started with: the first
\* sample is about to be compared, or was too close to it.
PathWaits ==
  slot # None /\ PointsOf(rows, slot) = {} =>
    LET first == First(PathOfSamples(rows, slot)) IN
    /\ rec.place = sessions[slot].place
    /\ PlacedOf(rows, slot) # {} =>
         \/ tick = "path" /\ state.place = first /\ first # None
         \/ sessions[slot].place # None /\ Apart(sessions[slot].place, first) < MinDistance

\* A step keeps the sessions of points and samples.
LEMMA PathTimesStep ==
  ASSUME LogTypeOK, LogTypeOK', PathTimes, [LogNext]_logVars
  PROVE  PathTimes'
<1>1. Len(sessions) \in Nat /\ Len(sessions') \in Nat /\ Len(sessions) <= Len(sessions')
      /\ slot <= Len(sessions) /\ slot \in Nat
  <2>1. sessions \in Seq(SessionRows) /\ sessions' \in Seq(SessionRows) /\ slot \in 0..Len(sessions)
    BY DEF LogTypeOK
  <2>2. Len(sessions) <= Len(sessions')
    BY SessionsStep
  <2> QED
    BY <2>1, <2>2
<1>2. /\ \A i \in DOMAIN rows.path : rows.path[i].session \in Nat
      /\ \A i \in DOMAIN rows.samples : rows.samples[i].session \in Nat
  <2>1. /\ \A i \in DOMAIN rows.path : rows.path[i] \in PointRows
        /\ \A i \in DOMAIN rows.samples : rows.samples[i] \in SampleRows
    BY PathTypes
  <2> QED
    BY <2>1 DEF PointRows, SampleRows
<1>3. \A i \in DOMAIN rows'.path : rows'.path[i].session <= Len(sessions')
  <2>1. CASE rows'.path = rows.path
    BY <1>1, <1>2, <2>1 DEF PathTimes
  <2>2. CASE rows'.path = Append(rows.path, PointRow(slot, now, state.place))
    <3>1. PointRow(slot, now, state.place).session = slot
      BY DEF PointRow
    <3>2. /\ DOMAIN rows'.path = DOMAIN rows.path \cup {Len(rows.path) + 1}
          /\ rows'.path[Len(rows.path) + 1].session = slot
          /\ \A i \in DOMAIN rows.path : rows'.path[i] = rows.path[i]
      BY <2>2, <3>1, PathTypes, AppendElement, SMTT(20)
    <3> QED
      BY <1>1, <1>2, <3>2, PathTypes, SMTT(20) DEF PathTimes
  <2> QED
    BY <2>1, <2>2, PointsStep
<1>4. \A i \in DOMAIN rows'.samples : rows'.samples[i].session <= Len(sessions')
  <2>1. CASE rows'.samples = rows.samples
    BY <1>1, <1>2, <2>1 DEF PathTimes
  <2>2. CASE rows'.samples = Append(rows.samples, SampleRow(slot, state))
    <3>1. SampleRow(slot, state).session = slot
      BY DEF SampleRow
    <3>2. /\ DOMAIN rows'.samples = DOMAIN rows.samples \cup {Len(rows.samples) + 1}
          /\ rows'.samples[Len(rows.samples) + 1].session = slot
          /\ \A i \in DOMAIN rows.samples : rows'.samples[i] = rows.samples[i]
      BY <2>2, <3>1, PathTypes, AppendElement, SMTT(20)
    <3> QED
      BY <1>1, <1>2, <3>2, PathTypes, SMTT(20) DEF PathTimes
  <2> QED
    BY <2>1, <2>2, SamplesStep
<1> QED
  BY <1>3, <1>4 DEF PathTimes

\* A place that is not stored is too close to the last one that was.
LEMMA PointRefused ==
  ASSUME LogTypeOK, RecordPath, rows'.path = rows.path, slot # None, state.place # None
  PROVE  rec.place # None /\ Apart(rec.place, state.place) < MinDistance
<1>1. rows.path \in Seq(PointRows) /\ rec.place \in Nat /\ state.place \in Nat
  BY PathTypes
<1>2. rows' # [rows EXCEPT !.path = @ \o <<PointRow(slot, now, state.place)>>]
  <2>1. PICK t \in Tables : t = rows
    BY DEF LogTypeOK
  <2>2. t.path \o <<PointRow(slot, now, state.place)>> # t.path
    BY <1>1, <2>1
  <2> QED
    BY <2>1, <2>2 DEF Tables
<1>3. ~(rec.place = None \/ Apart(rec.place, state.place) >= MinDistance)
  BY <1>2 DEF RecordPath, Insert
<1>4. Apart(rec.place, state.place) \in Int
  BY <1>1 DEF Apart
<1> QED
  BY <1>3, <1>4, FlightLogConstants

\* A step keeps the path recorder waiting for a place far enough from the one it compares with.
LEMMA PathWaitsStep ==
  ASSUME LogTypeOK, LogTypeOK', PathTimes, PathWaits, [LogNext]_logVars
  PROVE  PathWaits'
<1> USE PathTypes
<1>1. CASE rows'.path = rows.path /\ rec'.place = rec.place /\ rows'.samples = rows.samples
  <2>1. \A id : /\ PointsOf(rows', id) = PointsOf(rows, id) /\ PlacedOf(rows', id) = PlacedOf(rows, id)
                /\ PathOfSamples(rows', id) = PathOfSamples(rows, id)
    BY <1>1 DEF PointsOf, PlacedOf, SamplesOf, PathOfSamples
  <2>2. CASE SessionStart
    <3>1. PICK s \in SessionRows : /\ sessions' = Append(sessions, s) /\ slot' = Len(sessions) + 1
                                   /\ s.place = rec.place
      BY <2>2, SessionStartType
    <3>2. sessions'[slot'] = s
      BY <3>1, AppendElement
    <3>3. PlacedOf(rows, slot') = {}
      BY <3>1 DEF PlacedOf, SamplesOf, PathTimes
    <3> QED
      BY <1>1, <2>1, <3>1, <3>2, <3>3 DEF PathWaits
  <2>3. CASE slot' = None
    BY <2>3 DEF PathWaits
  <2>4. CASE slot' = slot /\ slot # None
    <3>1. sessions'[slot].place = sessions[slot].place
      BY <2>4, SlotType, SessionsStep
    <3>2. PICK first : first = First(PathOfSamples(rows, slot))
      OBVIOUS
    <3>3. tick = "path" => (tick' = "path" /\ state' = state) \/ RecordPath
      BY DEF LogNext, logVars, NewState, Sample, LogTransition, PersistEvents, PersistPhase,
         AskSummary, AnswerSummary, SessionStart, SessionStop
    <3>4. ASSUME PointsOf(rows, slot) = {}, PlacedOf(rows, slot) # {}
          PROVE  \/ tick' = "path" /\ state'.place = first /\ first # None
                 \/ sessions[slot].place # None /\ Apart(sessions[slot].place, first) < MinDistance
      <4>1. /\ rec.place = sessions[slot].place
            /\ \/ tick = "path" /\ state.place = first /\ first # None
               \/ sessions[slot].place # None /\ Apart(sessions[slot].place, first) < MinDistance
        BY <2>4, <3>2, <3>4 DEF PathWaits
      <4>2. CASE RecordPath /\ state.place = first /\ first # None
        BY <1>1, <2>4, <4>1, <4>2, PointRefused
      <4> QED
        BY <3>3, <4>1, <4>2
    <3> QED
      BY <1>1, <2>1, <2>4, <3>1, <3>2, <3>4 DEF PathWaits
  <2> QED
    BY <2>2, <2>3, <2>4, SessionsStep
<1>2. CASE /\ rows'.samples = Append(rows.samples, SampleRow(slot, state)) /\ slot # None
           /\ tick' = "path" /\ tick = "sample" /\ UNCHANGED <<slot, sessions, state>>
           /\ rows'.path = rows.path /\ rec'.place = rec.place
  <2>1. PointsOf(rows', slot) = PointsOf(rows, slot)
    BY <1>2 DEF PointsOf
  <2>2. CASE PlacedOf(rows, slot) # {}
    <3>1. First(PathOfSamples(rows', slot)) = First(PathOfSamples(rows, slot))
      BY <1>2, <2>2, SampleAdded
    <3> QED
      BY <1>2, <2>1, <2>2, <3>1 DEF PathWaits
  <2>3. CASE PlacedOf(rows, slot) = {} /\ PlacedOf(rows', slot) # {}
    <3>1. First(PathOfSamples(rows', slot)) = state.place /\ state.place # None
      BY <1>2, <2>3, SampleAdded
    <3> QED
      BY <1>2, <2>1, <3>1 DEF PathWaits
  <2>4. CASE PlacedOf(rows', slot) = {}
    BY <1>2, <2>1, <2>4 DEF PathWaits
  <2> QED
    BY <2>2, <2>3, <2>4
<1>3. CASE rows'.path = Append(rows.path, PointRow(slot, now, state.place)) /\ UNCHANGED slot
  <2>1. PointsOf(rows', slot) # {}
    BY <1>3, PointAdded
  <2> QED
    BY <1>3, <2>1 DEF PathWaits
<1> QED
  BY <1>1, <1>2, <1>3, SamplesStep, PointsStep

\* A step keeps the place a path begins with, unless the session began close to an earlier one.
LEMMA PathKeepsItsStartStep ==
  ASSUME LogTypeOK, PathTimes, PathWaits, [LogNext]_logVars, NEW id \in DOMAIN sessions,
         DOMAIN Path(rows, id) # {},
         \/ sessions[id].place = None
         \/ Apart(sessions[id].place, First(Path(rows, id))) >= MinDistance
  PROVE  First(Path(rows', id)) = First(Path(rows, id))
<1>1. CASE rows'.path = rows.path /\ rows'.samples = rows.samples
  BY <1>1 DEF Path, PathOfPoints, PathOfSamples, PointsOf, PlacedOf, SamplesOf
<1>2. CASE rows'.samples = Append(rows.samples, SampleRow(slot, state)) /\ rows'.path = rows.path
  <2>1. PointsOf(rows', id) = PointsOf(rows, id) /\ PathOfPoints(rows', id) = PathOfPoints(rows, id)
    BY <1>2 DEF PointsOf, PathOfPoints
  <2>2. CASE PointsOf(rows, id) # {}
    BY <2>1, <2>2 DEF Path
  <2>3. CASE PointsOf(rows, id) = {}
    <3>1. Path(rows, id) = PathOfSamples(rows, id) /\ Path(rows', id) = PathOfSamples(rows', id)
      BY <2>1, <2>3 DEF Path
    <3>2. PlacedOf(rows, id) # {}
      BY <3>1 DEF PathOfSamples
    <3> QED
      BY <1>2, <3>1, <3>2, SampleAdded
  <2> QED
    BY <2>2, <2>3
<1>3. CASE /\ rows'.path = Append(rows.path, PointRow(slot, now, state.place))
           /\ slot # None /\ tick = "path" /\ rows'.samples = rows.samples
  <2>1. CASE PointsOf(rows, id) # {}
    <3>1. First(PathOfPoints(rows', id)) = First(PathOfPoints(rows, id)) /\ PointsOf(rows', id) # {}
      BY <1>3, <2>1, PointAdded
    <3> QED
      BY <2>1, <3>1 DEF Path
  <2>2. CASE PointsOf(rows, id) = {} /\ id # slot
    <3>1. PointsOf(rows', id) = {}
      BY <1>3, <2>2, PointAdded
    <3>2. PathOfSamples(rows', id) = PathOfSamples(rows, id)
      BY <1>3 DEF PathOfSamples, PlacedOf, SamplesOf
    <3> QED
      BY <2>2, <3>1, <3>2 DEF Path
  <2>3. CASE PointsOf(rows, id) = {} /\ id = slot
    <3>1. Path(rows, id) = PathOfSamples(rows, id)
      BY <2>3 DEF Path
    <3>2. PlacedOf(rows, id) # {}
      BY <3>1 DEF PathOfSamples
    <3>3. PICK first : first = First(Path(rows, id))
      OBVIOUS
    <3>4. \/ state.place = first
          \/ sessions[id].place # None /\ Apart(sessions[id].place, first) < MinDistance
      BY <1>3, <2>3, <3>1, <3>2, <3>3 DEF PathWaits
    <3>5. ~(sessions[id].place # None /\ Apart(sessions[id].place, first) < MinDistance)
      <4>1. sessions[id].place \in Nat
        <5>1. sessions[id] \in SessionRows
          BY PathTypes
        <5> QED
          BY <5>1 DEF SessionRows
      <4>2. first \in Nat
        <5>1. PICK f : /\ f = PathOfSamples(rows, id) /\ DOMAIN f = PlacedOf(rows, id)
                       /\ \A i \in DOMAIN f : f[i] = rows.samples[i].state.place
          <6>1. PathOfSamples(rows, id) = [i \in PlacedOf(rows, id) |-> rows.samples[i].state.place]
            BY DEF PathOfSamples
          <6> QED
            BY ONLY <6>1
        <5>2. \A i \in DOMAIN f : i \in DOMAIN rows.samples
          BY <5>1 DEF PlacedOf, SamplesOf
        <5>3. \A i \in DOMAIN rows.samples : rows.samples[i].state \in AircraftStates /\ i \in Nat
          <6>1. \A i \in DOMAIN rows.samples : rows.samples[i] \in SampleRows /\ i \in Nat
            BY PathTypes
          <6> QED
            BY <6>1 DEF SampleRows
        <5>4. DOMAIN f \in SUBSET Nat /\ DOMAIN f # {}
          BY <3>2, <5>1, <5>2, <5>3
        <5>5. PICK m \in DOMAIN f : \A k \in DOMAIN f : m <= k
          BY <5>4, LeastNumber
        <5>6. first = f[m]
          BY <3>1, <3>3, <5>1, <5>4, <5>5, FirstIsLeast
        <5> QED
          BY <5>1, <5>2, <5>3, <5>6 DEF AircraftStates
      <4>3. Apart(sessions[id].place, first) \in Int
        BY <4>1, <4>2 DEF Apart
      <4> QED
        BY <3>3, <4>3, FlightLogConstants
    <3>6. First(Path(rows', id)) = state.place
      <4>1. PointsOf(rows', id) # {} /\ First(PathOfPoints(rows', id)) = state.place
        BY <1>3, <2>3, PointAdded
      <4> QED
        BY <4>1 DEF Path
    <3> QED
      BY <3>3, <3>4, <3>5, <3>6
  <2> QED
    BY <2>1, <2>2, <2>3
<1> QED
  BY <1>1, <1>2, <1>3, SamplesStep, PointsStep

PathInv == PathTimes /\ PathWaits

\* What is known of the paths holds at the start.
LEMMA PathInit == LogInit => PathInv
<1> SUFFICES ASSUME LogInit PROVE PathInv
  OBVIOUS
<1>1. slot = None /\ rows.path = <<>> /\ rows.samples = <<>>
  BY DEF LogInit
<1> QED
  BY <1>1 DEF PathInv, PathTimes, PathWaits

\* And a step keeps it.
LEMMA PathInvStep == LogTypeOK /\ PathInv /\ [LogNext]_logVars => PathInv'
BY LogStepType, PathTimesStep, PathWaitsStep DEF PathInv

\* The path shown for a session keeps the place it began with, unless the session began within
\* MinDistance of the last point of an earlier one.
THEOREM PathAlwaysKeepsItsStart == LogSpec => PathKeepsItsStart
<1>1. LogTypeOK /\ PathInv /\ [LogNext]_logVars =>
        [\A id \in DOMAIN sessions :
           LET old == Path(rows, id) new == Path(rows', id) IN
           /\ DOMAIN old # {}
           /\ sessions[id].place = None \/ Apart(sessions[id].place, First(old)) >= MinDistance
           => First(new) = First(old)]_logVars
  BY PathKeepsItsStartStep DEF PathInv
<1> QED
  BY <1>1, LogInitType, LogStepType, PathInit, PathInvStep, PTL DEF LogSpec, PathKeepsItsStart

-----------------------------------------------------------------------------
(* The engines' counters count consecutive states.                         *)

\* How many of the latest states the phase engine has come to, and the event engine.
PhaseEnd == IF recent # <<>> /\ Last(recent).phaseReads = 0 THEN Len(recent) - 1 ELSE Len(recent)
EventEnd == IF recent # <<>> /\ Last(recent).eventReads = 0 THEN Len(recent) - 1 ELSE Len(recent)

OncePhase(q) == {i \in DOMAIN q : q[i].phaseReads = 1}
OnceEvent(q) == {i \in DOMAIN q : q[i].eventReads = 1}
Tells(q, p) == {i \in DOMAIN q : RawPhase(q[i].state) = p}
NotCalm(q, e) == {i \in DOMAIN q : Check(q[i].state, e) # "calm"}
NoAlarm(q, e) == {i \in DOMAIN q : Check(q[i].state, e) # "alarm"}

LastRead(n, end) == {i \in 1..end : i > end - n}

\* If the last n states up to end were each read once, there are n of them and all are in told.
Told(n, end, once, told) ==
  LastRead(n, end) \subseteq once => n <= end /\ LastRead(n, end) \subseteq told

\* The latest state is the one the engines read, and before the first they have counted nothing.
LatestIsState ==
  IF recent = <<>>
  THEN state = NoState /\ phase = FreshPhase /\ event = [e \in Events |-> FreshEvent]
  ELSE Last(recent).state = state

\* The phase engine has held a candidate for as many states as it counts.
PhaseCounts ==
  \A n \in Nat : n <= phase.hold /\ n < Hold =>
    Told(n, PhaseEnd, OncePhase(recent), Tells(recent, phase.candidate))

\* The event engine counts states without a calm one towards opening an event, and states without an
\* alarm towards closing it, and acts as soon as there are enough.
EventCounts ==
  \A e \in Events :
    IF event[e].open
    THEN /\ event[e].down < Clear
         /\ \A n \in Nat : n <= event[e].down => Told(n, EventEnd, OnceEvent(recent), NoAlarm(recent, e))
    ELSE /\ event[e].up < Open
         /\ \A n \in Nat : n <= event[e].up => Told(n, EventEnd, OnceEvent(recent), NotCalm(recent, e))

\* Of no states all is told.
LEMMA ToldNone ==
  ASSUME NEW end \in Nat, NEW once, NEW told
  PROVE  Told(0, end, once, told)
BY DEF Told, LastRead

\* What is told up to a state that was not read once is of no interest.
LEMMA ToldAgain ==
  ASSUME NEW n \in Nat, NEW end \in Nat \ {0}, NEW once, NEW told, end \notin once
  PROVE  Told(n, end, once, told)
<1>1. CASE n = 0
  BY <1>1 DEF Told, LastRead
<1>2. CASE n # 0
  BY <1>2 DEF Told, LastRead
<1> QED
  BY <1>1, <1>2

\* One more state that tells.
LEMMA ToldGrows ==
  ASSUME NEW n \in Nat, NEW end \in Nat, NEW once, NEW told, Told(n, end, once, told),
         NEW once2, NEW told2, end + 1 \in told2,
         \A i \in 1..end : (i \in once2 => i \in once) /\ (i \in told => i \in told2)
  PROVE  Told(n + 1, end + 1, once2, told2)
<1> SUFFICES ASSUME LastRead(n + 1, end + 1) \subseteq once2
             PROVE  n + 1 <= end + 1 /\ LastRead(n + 1, end + 1) \subseteq told2
  BY DEF Told
<1>1. \A i : i \in LastRead(n + 1, end + 1) <=> i \in LastRead(n, end) \/ i = end + 1
  BY DEF LastRead
<1>2. \A i \in LastRead(n, end) : i \in 1..end
  BY DEF LastRead
<1>3. LastRead(n, end) \subseteq once
  BY <1>1, <1>2
<1>4. n <= end /\ LastRead(n, end) \subseteq told
  BY <1>3 DEF Told
<1> QED
  BY <1>1, <1>2, <1>4

\* The same states, one place further to the front.
LEMMA ToldShift ==
  ASSUME NEW n \in Nat, NEW end \in Nat \ {0}, n < end, NEW once, NEW told, Told(n, end, once, told),
         NEW once2, NEW told2,
         \A i \in 1..end - 1 : (i \in once2 => i + 1 \in once) /\ (i + 1 \in told => i \in told2)
  PROVE  Told(n, end - 1, once2, told2)
<1> SUFFICES ASSUME LastRead(n, end - 1) \subseteq once2
             PROVE  LastRead(n, end - 1) \subseteq told2
  BY DEF Told
<1>1. \A i \in LastRead(n, end - 1) : i \in 1..end - 1 /\ i + 1 \in LastRead(n, end)
  BY DEF LastRead
<1>2. \A i \in LastRead(n, end) : i - 1 \in LastRead(n, end - 1) /\ i - 1 \in 1..end - 1 /\ (i - 1) + 1 = i
  BY DEF LastRead
<1>3. LastRead(n, end) \subseteq once
  BY <1>2
<1>4. LastRead(n, end) \subseteq told
  BY <1>3 DEF Told
<1> QED
  BY <1>1, <1>4

\* A new state, which nothing has read: what was told stays, though a state may leave the window.
LEMMA ToldNewState ==
  ASSUME NEW len \in Nat, NEW n \in Nat, NEW end \in {len - 1, len}, NEW once, NEW told,
         Told(n, end, once, told), len = 0 => n = 0 /\ end = 0, end # len => len \notin once,
         NEW shift \in {0, 1}, shift = 1 => n < len, NEW once2, NEW told2,
         \A i \in 1..len - shift : (i \in once2 => i + shift \in once) /\ (i + shift \in told => i \in told2)
  PROVE  Told(n, len - shift, once2, told2)
<1>1. CASE n = 0
  <2>1. len - shift \in Nat
    BY <1>1
  <2> QED
    BY <1>1, <2>1, ToldNone
<1>2. CASE n # 0 /\ end = len - 1
  <2>1. len - shift \in Nat \ {0}
    BY <1>2
  <2>2. len - shift \notin once2
    BY <1>2, <2>1
  <2> QED
    BY <2>1, <2>2, ToldAgain
<1>3. CASE n # 0 /\ end = len /\ shift = 1
  <2>1. end \in Nat \ {0} /\ n < end
    BY <1>2, <1>3
  <2>2. \A i \in 1..end - 1 : (i \in once2 => i + 1 \in once) /\ (i + 1 \in told => i \in told2)
    BY <1>3
  <2> QED
    BY <1>3, <2>1, <2>2, ToldShift
<1>4. CASE n # 0 /\ end = len /\ shift = 0
  BY <1>4 DEF Told, LastRead
<1> QED
  BY <1>1, <1>2, <1>3, <1>4

\* A read of the latest state: one more that tells, unless it had been read.
LEMMA ToldRead ==
  ASSUME NEW len \in Nat \ {0}, NEW n \in Nat, NEW end \in {len - 1, len}, NEW once, NEW told,
         Told(n, end, once, told), NEW once2, NEW told2, end = len => len \notin once2, len \in told2,
         \A i \in 1..len - 1 : (i \in once2 => i \in once) /\ (i \in told => i \in told2)
  PROVE  Told(n + 1, len, once2, told2)
<1>1. CASE end = len
  BY <1>1, ToldAgain
<1>2. CASE end = len - 1
  <2>1. end \in Nat /\ end + 1 = len
    BY <1>2
  <2>2. Told(n + 1, end + 1, once2, told2)
    BY <1>2, <2>1, ToldGrows
  <2> QED
    BY <2>1, <2>2
<1> QED
  BY <1>1, <1>2

\* What a step does to the engines: it reads the latest state with one, with both or with none.
LEMMA EnginesStep ==
  ASSUME LogTypeOK, [LogNext]_logVars, ~NewState
  PROVE  \E kinds \in SUBSET {"phase", "event"} :
           /\ state' = state
           /\ (kinds = {} /\ recent' = recent) \/ Read(kinds)
           /\ phase' = IF "phase" \in kinds THEN Classify(phase, RawPhase(state)) ELSE phase
           /\ event' = IF "event" \in kinds THEN Evaluate(event, state, now) ELSE event
<1>1. CASE /\ UNCHANGED <<state, phase, event, recent>>
  <2>1. {} \in SUBSET {"phase", "event"} /\ "phase" \notin {} /\ "event" \notin {}
    OBVIOUS
  <2> QED
    BY <1>1, <2>1
<1>2. CASE state' = state /\ Read({"event"}) /\ phase' = phase /\ event' = Evaluate(event, state, now)
  <2>1. {"event"} \in SUBSET {"phase", "event"} /\ "phase" \notin {"event"} /\ "event" \in {"event"}
    OBVIOUS
  <2> QED
    BY <1>2, <2>1
<1>3. CASE state' = state /\ Read({"phase"}) /\ event' = event /\ phase' = Classify(phase, RawPhase(state))
  <2>1. {"phase"} \in SUBSET {"phase", "event"} /\ "event" \notin {"phase"} /\ "phase" \in {"phase"}
    OBVIOUS
  <2> QED
    BY <1>3, <2>1
<1>4. CASE AskSummary
  <2>1. "event" \in {"phase", "event"} /\ "phase" \in {"phase", "event"}
    OBVIOUS
  <2> QED
    BY <1>4, <2>1 DEF AskSummary
<1>5. CASE PersistEvents
  BY <1>1, <1>2, <1>5 DEF PersistEvents
<1>6. CASE PersistPhase
  BY <1>1, <1>3, <1>6 DEF PersistPhase
<1>7. CASE AnswerSummary
  BY <1>3, <1>7 DEF AnswerSummary
<1>8. CASE Sample \/ RecordPath \/ LogTransition \/ SessionStart \/ SessionStop \/ UNCHANGED logVars
  BY <1>1, <1>8 DEF Sample, RecordPath, LogTransition, SessionStart, SessionStop, logVars
<1> QED
  BY <1>4, <1>5, <1>6, <1>7, <1>8 DEF LogNext

\* What the counts of reads say, and the number of states.
LEMMA EndTypes ==
  ASSUME LogTypeOK
  PROVE  /\ recent \in Seq(ReadStates) /\ Len(recent) \in Nat /\ DOMAIN recent = 1..Len(recent)
         /\ Len(recent) <= Window
         /\ recent # <<>> => /\ Last(recent) = recent[Len(recent)] /\ Last(recent) \in ReadStates
                             /\ Len(recent) \in Nat \ {0}
                             /\ Last(recent).phaseReads \in 0..2 /\ Last(recent).eventReads \in 0..2
         /\ recent = <<>> => Len(recent) = 0 /\ PhaseEnd = 0 /\ EventEnd = 0
         /\ PhaseEnd \in {Len(recent) - 1, Len(recent)} /\ PhaseEnd \in Nat
         /\ EventEnd \in {Len(recent) - 1, Len(recent)} /\ EventEnd \in Nat
         /\ PhaseEnd # Len(recent) => Len(recent) \notin OncePhase(recent)
         /\ EventEnd # Len(recent) => Len(recent) \notin OnceEvent(recent)
<1>1. recent \in Seq(ReadStates) /\ Len(recent) <= Window
  BY DEF LogTypeOK, ReadStates
<1>2. Len(recent) \in Nat /\ DOMAIN recent = 1..Len(recent) /\ (recent = <<>> => Len(recent) = 0)
  BY <1>1
<1>3. recent # <<>> => /\ Len(recent) \in Nat \ {0} /\ Last(recent) = recent[Len(recent)]
                       /\ recent[Len(recent)] \in ReadStates
  BY <1>1 DEF Last
<1>4. recent # <<>> => Last(recent).phaseReads \in 0..2 /\ Last(recent).eventReads \in 0..2
  BY <1>3 DEF ReadStates
<1>5. /\ PhaseEnd \in {Len(recent) - 1, Len(recent)} /\ PhaseEnd \in Nat
      /\ EventEnd \in {Len(recent) - 1, Len(recent)} /\ EventEnd \in Nat
      /\ recent = <<>> => PhaseEnd = 0 /\ EventEnd = 0
  BY <1>2, <1>3 DEF PhaseEnd, EventEnd
<1>6. /\ PhaseEnd # Len(recent) => Len(recent) \notin OncePhase(recent)
      /\ EventEnd # Len(recent) => Len(recent) \notin OnceEvent(recent)
  <2>1. CASE recent = <<>>
    BY <1>2, <1>5, <2>1
  <2>2. CASE recent # <<>>
    <3>1. /\ PhaseEnd # Len(recent) => recent[Len(recent)].phaseReads = 0
          /\ EventEnd # Len(recent) => recent[Len(recent)].eventReads = 0
      BY <1>3, <2>2 DEF PhaseEnd, EventEnd
    <3> QED
      BY <3>1 DEF OncePhase, OnceEvent
  <2> QED
    BY <2>1, <2>2
<1> QED
  BY <1>1, <1>2, <1>3, <1>4, <1>5, <1>6

\* A read leaves the states and the earlier counts alone; the engine that reads has then come to the
\* latest state, and the other has not moved.
LEMMA ReadEnds ==
  ASSUME LogTypeOK, LogTypeOK', recent # <<>>, NEW kinds, Read(kinds)
  PROVE  /\ Len(recent') = Len(recent) /\ recent' # <<>> /\ Last(recent').state = Last(recent).state
         /\ \A p : Tells(recent', p) = Tells(recent, p)
         /\ \A e : NotCalm(recent', e) = NotCalm(recent, e) /\ NoAlarm(recent', e) = NoAlarm(recent, e)
         /\ \A i \in 1..Len(recent) - 1 : /\ i \in OncePhase(recent') <=> i \in OncePhase(recent)
                                          /\ i \in OnceEvent(recent') <=> i \in OnceEvent(recent)
         /\ IF "phase" \in kinds
            THEN PhaseEnd' = Len(recent) /\ (PhaseEnd = Len(recent) => Len(recent) \notin OncePhase(recent'))
            ELSE PhaseEnd' = PhaseEnd /\ OncePhase(recent') = OncePhase(recent)
         /\ IF "event" \in kinds
            THEN EventEnd' = Len(recent) /\ (EventEnd = Len(recent) => Len(recent) \notin OnceEvent(recent'))
            ELSE EventEnd' = EventEnd /\ OnceEvent(recent') = OnceEvent(recent)
<1>1. PICK n \in Nat \ {0} : n = Len(recent) /\ DOMAIN recent = 1..n /\ Last(recent) = recent[n]
  BY EndTypes
<1>2. PICK new \in Seq(ReadStates) : /\ new = recent' /\ Len(new) = n /\ DOMAIN new = 1..n
                                     /\ \A i \in 1..n - 1 : new[i] = recent[i]
  BY <1>1, ReadType
<1>3. new # <<>> /\ Last(new) = new[n]
  BY <1>1, <1>2 DEF Last
<1>4. /\ new[n].state = recent[n].state
      /\ new[n].phaseReads = IF "phase" \in kinds /\ recent[n].phaseReads < 2
                             THEN recent[n].phaseReads + 1 ELSE recent[n].phaseReads
      /\ new[n].eventReads = IF "event" \in kinds /\ recent[n].eventReads < 2
                             THEN recent[n].eventReads + 1 ELSE recent[n].eventReads
      /\ recent[n].phaseReads \in 0..2 /\ recent[n].eventReads \in 0..2
  BY <1>1, <1>2, <1>3, ReadType, EndTypes
<1>5. \A i \in 1..n : new[i].state = recent[i].state
  BY <1>1, <1>2, <1>4
<1>6. /\ \A p : Tells(new, p) = Tells(recent, p)
      /\ \A e : NotCalm(new, e) = NotCalm(recent, e) /\ NoAlarm(new, e) = NoAlarm(recent, e)
  BY <1>1, <1>2, <1>5 DEF Tells, NotCalm, NoAlarm
<1>7. \A i \in 1..n - 1 : /\ i \in OncePhase(new) <=> i \in OncePhase(recent)
                          /\ i \in OnceEvent(new) <=> i \in OnceEvent(recent)
  BY <1>1, <1>2 DEF OncePhase, OnceEvent
<1>8. /\ PhaseEnd = IF recent[n].phaseReads = 0 THEN n - 1 ELSE n
      /\ EventEnd = IF recent[n].eventReads = 0 THEN n - 1 ELSE n
  BY <1>1 DEF PhaseEnd, EventEnd
<1>9. /\ PhaseEnd' = IF new[n].phaseReads = 0 THEN n - 1 ELSE n
      /\ EventEnd' = IF new[n].eventReads = 0 THEN n - 1 ELSE n
  BY <1>2, <1>3 DEF PhaseEnd, EventEnd
<1>10. IF "phase" \in kinds
       THEN PhaseEnd' = n /\ (PhaseEnd = n => n \notin OncePhase(new))
       ELSE PhaseEnd' = PhaseEnd /\ OncePhase(new) = OncePhase(recent)
  <2>1. CASE "phase" \in kinds
    BY <1>2, <1>4, <1>8, <1>9, <2>1 DEF OncePhase
  <2>2. CASE "phase" \notin kinds
    <3>1. \A i \in 1..n : new[i].phaseReads = recent[i].phaseReads
      BY <1>1, <1>2, <1>4, <2>2
    <3> QED
      BY <1>1, <1>2, <1>8, <1>9, <2>2, <3>1 DEF OncePhase
  <2> QED
    BY <2>1, <2>2
<1>11. IF "event" \in kinds
       THEN EventEnd' = n /\ (EventEnd = n => n \notin OnceEvent(new))
       ELSE EventEnd' = EventEnd /\ OnceEvent(new) = OnceEvent(recent)
  <2>1. CASE "event" \in kinds
    BY <1>2, <1>4, <1>8, <1>9, <2>1 DEF OnceEvent
  <2>2. CASE "event" \notin kinds
    <3>1. \A i \in 1..n : new[i].eventReads = recent[i].eventReads
      BY <1>1, <1>2, <1>4, <2>2
    <3> QED
      BY <1>1, <1>2, <1>8, <1>9, <2>2, <3>1 DEF OnceEvent
  <2> QED
    BY <2>1, <2>2
<1> QED
  BY <1>1, <1>2, <1>3, <1>4, <1>6, <1>7, <1>10, <1>11

\* What is in a sequence after a member is appended and the first is dropped.
LEMMA SlidElement ==
  ASSUME NEW S, NEW q \in Seq(S), Len(q) \in Nat \ {0}, NEW r \in S
  PROVE  LET slid == Tail(Append(q, r)) IN
         /\ Len(slid) = Len(q) /\ slid # <<>> /\ slid[Len(q)] = r
         /\ \A i \in 1..Len(q) - 1 : slid[i] = q[i + 1]
<1>1. PICK all : all = Append(q, r)
  OBVIOUS
<1>2. all \in Seq(S) /\ Len(all) = Len(q) + 1 /\ all[Len(q) + 1] = r /\ all # <<>>
  BY <1>1
<1>3. \A i \in 1..Len(q) : all[i] = q[i]
  BY <1>1
<1>4. Len(Tail(all)) = Len(q) /\ \A i \in 1..Len(q) : Tail(all)[i] = all[i + 1]
  BY <1>2
<1>5. Tail(all) # <<>>
  BY <1>4
<1> QED
  BY <1>1, <1>2, <1>3, <1>4, <1>5

\* A new state goes to the end of the window, and the first leaves it when there are too many.
LEMMA NewStateWindow ==
  ASSUME LogTypeOK, LogTypeOK', NewState
  PROVE  \E shift \in {0, 1} :
           /\ shift = 1 => Len(recent) = Window
           /\ Len(recent') = Len(recent) - shift + 1
           /\ \A i \in 1..Len(recent) - shift : recent'[i] = recent[i + shift]
           /\ recent' # <<>> /\ Last(recent').state = state'
           /\ PhaseEnd' = Len(recent) - shift /\ EventEnd' = Len(recent) - shift
<1>1. PICK q \in Seq(ReadStates) : q = recent /\ Len(q) <= Window
  BY EndTypes
<1>2. PICK r : r = [state |-> state', phaseReads |-> 0, eventReads |-> 0]
  OBVIOUS
<1>3. r \in ReadStates /\ r.state = state' /\ r.phaseReads = 0 /\ r.eventReads = 0
  <2>1. state' \in AircraftStates /\ 0 \in 0..2
    BY DEF LogTypeOK
  <2> QED
    BY <1>2, <2>1 DEF ReadStates
<1>4. recent' = IF Len(Append(q, r)) > Window THEN Tail(Append(q, r)) ELSE Append(q, r)
  BY <1>1, <1>2 DEF NewState
<1>5. CASE Len(q) < Window
  <2>1. recent' = Append(q, r)
    BY <1>1, <1>4, <1>5, WindowType
  <2>2. /\ Len(recent') = Len(q) + 1 /\ recent' # <<>> /\ recent'[Len(q) + 1] = r
        /\ \A i \in 1..Len(q) : recent'[i] = q[i]
    BY <1>1, <1>3, <2>1
  <2>3. Last(recent') = r
    BY <2>2 DEF Last
  <2>4. PhaseEnd' = Len(q) /\ EventEnd' = Len(q)
    BY <1>1, <1>3, <2>2, <2>3 DEF PhaseEnd, EventEnd
  <2> QED
    BY <1>1, <1>3, <2>2, <2>3, <2>4
<1>6. CASE Len(q) = Window
  <2>1. recent' = Tail(Append(q, r)) /\ Len(q) \in Nat \ {0}
    BY <1>1, <1>4, <1>6, WindowType
  <2>2. /\ Len(recent') = Len(q) /\ recent' # <<>> /\ recent'[Len(q)] = r
        /\ \A i \in 1..Len(q) - 1 : recent'[i] = q[i + 1]
    BY <1>3, <2>1, SlidElement
  <2>3. Last(recent') = r
    BY <2>2 DEF Last
  <2>4. PhaseEnd' = Len(q) - 1 /\ EventEnd' = Len(q) - 1
    BY <1>1, <1>3, <2>2, <2>3 DEF PhaseEnd, EventEnd
  <2> QED
    BY <1>1, <1>3, <1>6, <2>1, <2>2, <2>3, <2>4
<1> QED
  BY <1>1, <1>5, <1>6, WindowType

CountInv == LatestIsState /\ PhaseCounts /\ EventCounts

\* What the engines answer before the first state changes nothing.
LEMMA NothingToRead ==
  ASSUME LogTypeOK, LatestIsState, recent = <<>>
  PROVE  /\ Classify(phase, RawPhase(state)) = phase /\ Evaluate(event, state, now) = event
         /\ phase.hold = 0 /\ \A e \in Events : ~event[e].open /\ event[e].up = 0
<1>1. state = NoState /\ phase = FreshPhase /\ event = [e \in Events |-> FreshEvent]
  BY DEF LatestIsState
<1>2. RawPhase(NoState) = "unknown"
  BY DEF RawPhase, NoState
<1>3. Classify(FreshPhase, "unknown") = FreshPhase
  BY DEF Classify, FreshPhase
<1>4. \A e \in Events : Check(NoState, e) = "skip"
  <2>1. NoState.skipped = Events
    BY DEF NoState
  <2> QED
    BY <2>1 DEF Check
<1>5. \A at : Judge(FreshEvent, "skip", at) = FreshEvent
  BY DEF Judge, FreshEvent
<1>6. Evaluate(event, state, now) = event
  BY <1>1, <1>4, <1>5 DEF Evaluate
<1> QED
  BY <1>1, <1>2, <1>3, <1>6 DEF FreshPhase, FreshEvent

\* A read of the latest state by the phase engine: the candidate, when the state tells it, has been
\* told by one more.
LEMMA PhaseRead ==
  ASSUME LogTypeOK, LogTypeOK', LatestIsState, PhaseCounts, recent # <<>>, NEW kinds, "phase" \in kinds,
         Read(kinds), NEW n \in Nat, n <= phase.hold, n < Hold, RawPhase(state) = phase.candidate
  PROVE  Told(n + 1, Len(recent), OncePhase(recent'), Tells(recent', phase.candidate))
<1>1. PICK len \in Nat \ {0} : len = Len(recent) /\ DOMAIN recent = 1..len /\ recent[len].state = state
  BY EndTypes DEF LatestIsState
<1>2. Told(n, PhaseEnd, OncePhase(recent), Tells(recent, phase.candidate))
  BY DEF PhaseCounts
<1>3. len \in Tells(recent, phase.candidate)
  BY <1>1 DEF Tells
<1>4. PhaseEnd \in {len - 1, len}
  BY <1>1, EndTypes
<1>5. /\ Tells(recent', phase.candidate) = Tells(recent, phase.candidate)
      /\ PhaseEnd = len => len \notin OncePhase(recent')
      /\ \A i \in 1..len - 1 : i \in OncePhase(recent') => i \in OncePhase(recent)
  BY <1>1, ReadEnds
<1>6. PICK end, once, once2, told, told2 :
         /\ end \in {len - 1, len} /\ end = PhaseEnd /\ once = OncePhase(recent) /\ once2 = OncePhase(recent')
         /\ told = Tells(recent, phase.candidate) /\ told2 = Tells(recent', phase.candidate)
  BY <1>4
<1>7. Told(n, end, once, told)
  BY <1>2, <1>6
<1>8. /\ end = len => len \notin once2
      /\ len \in told2
      /\ \A i \in 1..len - 1 : (i \in once2 => i \in once) /\ (i \in told => i \in told2)
  BY <1>3, <1>5, <1>6
<1>9. Told(n + 1, len, once2, told2)
  BY <1>6, <1>7, <1>8, ToldRead
<1> QED
  BY <1>1, <1>6, <1>9

\* The same of a phase that becomes the candidate.
LEMMA PhaseReadFirst ==
  ASSUME LogTypeOK, LogTypeOK', LatestIsState, recent # <<>>, NEW kinds, "phase" \in kinds, Read(kinds)
  PROVE  Told(1, Len(recent), OncePhase(recent'), Tells(recent', RawPhase(state)))
<1>1. PICK len \in Nat \ {0} : len = Len(recent) /\ DOMAIN recent = 1..len /\ recent[len].state = state
  BY EndTypes DEF LatestIsState
<1>2. Told(0, PhaseEnd, OncePhase(recent), Tells(recent, RawPhase(state)))
  BY EndTypes, ToldNone
<1>3. len \in Tells(recent, RawPhase(state))
  BY <1>1 DEF Tells
<1>4. PhaseEnd \in {len - 1, len} /\ 0 \in Nat /\ 0 + 1 = 1
  BY <1>1, EndTypes
<1>5. /\ Tells(recent', RawPhase(state)) = Tells(recent, RawPhase(state))
      /\ PhaseEnd = len => len \notin OncePhase(recent')
      /\ \A i \in 1..len - 1 : i \in OncePhase(recent') => i \in OncePhase(recent)
  BY <1>1, ReadEnds
<1>6. Told(0 + 1, len, OncePhase(recent'), Tells(recent', RawPhase(state)))
  BY <1>1, <1>2, <1>3, <1>4, <1>5, ToldRead
<1> QED
  BY <1>1, <1>4, <1>6

\* And of a check, for the two counters of an event.
LEMMA EventRead ==
  ASSUME LogTypeOK, LogTypeOK', LatestIsState, EventCounts, recent # <<>>, NEW kinds, "event" \in kinds,
         Read(kinds), NEW e \in Events, NEW n \in Nat
  PROVE  /\ ~event[e].open /\ n <= event[e].up /\ Check(state, e) # "calm" =>
              Told(n + 1, Len(recent), OnceEvent(recent'), NotCalm(recent', e))
         /\ event[e].open /\ n <= event[e].down /\ Check(state, e) # "alarm" =>
              Told(n + 1, Len(recent), OnceEvent(recent'), NoAlarm(recent', e))
<1>1. PICK len \in Nat \ {0} : len = Len(recent) /\ DOMAIN recent = 1..len /\ recent[len].state = state
  BY EndTypes DEF LatestIsState
<1>2. EventEnd \in {len - 1, len}
  BY <1>1, EndTypes
<1>3. /\ NotCalm(recent', e) = NotCalm(recent, e) /\ NoAlarm(recent', e) = NoAlarm(recent, e)
      /\ EventEnd = len => len \notin OnceEvent(recent')
      /\ \A i \in 1..len - 1 : i \in OnceEvent(recent') => i \in OnceEvent(recent)
  BY <1>1, ReadEnds
<1>4. ASSUME ~event[e].open, n <= event[e].up, Check(state, e) # "calm"
      PROVE  Told(n + 1, len, OnceEvent(recent'), NotCalm(recent', e))
  <2>1. Told(n, EventEnd, OnceEvent(recent), NotCalm(recent, e))
    BY <1>4 DEF EventCounts
  <2>2. len \in NotCalm(recent, e)
    BY <1>1, <1>4 DEF NotCalm
  <2> QED
    BY <1>1, <1>2, <1>3, <2>1, <2>2, ToldRead
<1>5. ASSUME event[e].open, n <= event[e].down, Check(state, e) # "alarm"
      PROVE  Told(n + 1, len, OnceEvent(recent'), NoAlarm(recent', e))
  <2>1. Told(n, EventEnd, OnceEvent(recent), NoAlarm(recent, e))
    BY <1>5 DEF EventCounts
  <2>2. len \in NoAlarm(recent, e)
    BY <1>1, <1>5 DEF NoAlarm
  <2> QED
    BY <1>1, <1>2, <1>3, <2>1, <2>2, ToldRead
<1> QED
  BY <1>1, <1>4, <1>5

\* A step keeps the latest state the one that is read.
LEMMA LatestIsStateStep ==
  ASSUME LogTypeOK, LogTypeOK', LatestIsState, [LogNext]_logVars
  PROVE  LatestIsState'
<1>1. CASE NewState
  BY <1>1, NewStateWindow DEF LatestIsState
<1>2. CASE ~NewState
  <2>1. PICK kinds : /\ state' = state
                     /\ (kinds = {} /\ recent' = recent) \/ Read(kinds)
                     /\ phase' = IF "phase" \in kinds THEN Classify(phase, RawPhase(state)) ELSE phase
                     /\ event' = IF "event" \in kinds THEN Evaluate(event, state, now) ELSE event
    BY <1>2, EnginesStep
  <2>2. CASE recent = <<>>
    <3>1. recent' = recent
      BY <2>1, <2>2 DEF Read
    <3>2. phase' = phase /\ event' = event
      BY <2>1, <2>2, NothingToRead
    <3> QED
      BY <2>1, <3>1, <3>2 DEF LatestIsState
  <2>3. CASE recent # <<>>
    <3>1. recent' # <<>> /\ Last(recent').state = Last(recent).state
      BY <2>1, <2>3, ReadEnds
    <3> QED
      BY <2>1, <2>3, <3>1 DEF LatestIsState
  <2> QED
    BY <2>2, <2>3
<1> QED
  BY <1>1, <1>2

\* A step keeps the count of the phase engine.
LEMMA PhaseCountsStep ==
  ASSUME LogTypeOK, LogTypeOK', LatestIsState, PhaseCounts, [LogNext]_logVars
  PROVE  PhaseCounts'
<1>1. CASE NewState
  <2>1. PICK len \in Nat, end \in Nat : /\ len = Len(recent) /\ DOMAIN recent = 1..len /\ end = PhaseEnd
                                        /\ end \in {len - 1, len}
                                        /\ end # len => len \notin OncePhase(recent)
    BY EndTypes
  <2>2. PICK shift \in {0, 1} :
          /\ shift = 1 => len = Window
          /\ Len(recent') = len - shift + 1
          /\ \A i \in 1..len - shift : recent'[i] = recent[i + shift]
          /\ PhaseEnd' = len - shift
    <3>1. \E shift \in {0, 1} :
            /\ shift = 1 => Len(recent) = Window
            /\ Len(recent') = Len(recent) - shift + 1
            /\ \A i \in 1..Len(recent) - shift : recent'[i] = recent[i + shift]
            /\ recent' # <<>> /\ Last(recent').state = state'
            /\ PhaseEnd' = Len(recent) - shift /\ EventEnd' = Len(recent) - shift
      BY <1>1, NewStateWindow
    <3> QED
      BY <2>1, <3>1
  <2>3. phase' = phase
    BY <1>1 DEF NewState
  <2>4. PICK once, told : once = OncePhase(recent) /\ told = Tells(recent, phase.candidate)
    OBVIOUS
  <2>5. PICK once2, told2 : once2 = OncePhase(recent') /\ told2 = Tells(recent', phase.candidate)
    OBVIOUS
  <2>6. \A i \in 1..len - shift : (i \in once2 => i + shift \in once) /\ (i + shift \in told => i \in told2)
    <3> SUFFICES ASSUME NEW i \in 1..len - shift
                 PROVE  (i \in once2 => i + shift \in once) /\ (i + shift \in told => i \in told2)
      OBVIOUS
    <3>1. i + shift \in 1..len /\ i \in 1..Len(recent')
      BY <2>2
    <3>2. i + shift \in DOMAIN recent /\ i \in DOMAIN recent'
      BY <2>1, <3>1 DEF LogTypeOK
    <3>3. recent'[i] = recent[i + shift]
      BY <2>2
    <3>4. i \in once2 => i + shift \in once
      BY <2>4, <2>5, <3>2, <3>3 DEF OncePhase
    <3>5. i + shift \in told => i \in told2
      BY <2>3, <2>4, <2>5, <3>2, <3>3 DEF Tells
    <3> QED
      BY <3>4, <3>5
  <2>7. ASSUME NEW n \in Nat, n <= phase.hold, n < Hold PROVE Told(n, len - shift, once2, told2)
    <3>1. Told(n, end, once, told)
      BY <2>1, <2>4, <2>7 DEF PhaseCounts
    <3>2. len = 0 => n = 0 /\ end = 0
      <4>1. len = 0 => recent = <<>>
        BY <2>1, EndTypes
      <4> QED
        BY <2>1, <2>7, <4>1, NothingToRead, EndTypes
    <3>3. shift = 1 => n < len
      BY <2>2, <2>7, WindowType, FlightLogConstants
    <3>4. end \in {len - 1, len} /\ (end # len => len \notin once)
      BY <2>1, <2>4
    <3> QED
      BY <2>6, <3>1, <3>2, <3>3, <3>4, ToldNewState, SMTT(15)
  <2> QED
    BY <2>2, <2>3, <2>5, <2>7 DEF PhaseCounts
<1>2. CASE ~NewState
  <2>1. PICK kinds : /\ state' = state
                     /\ (kinds = {} /\ recent' = recent) \/ Read(kinds)
                     /\ phase' = IF "phase" \in kinds THEN Classify(phase, RawPhase(state)) ELSE phase
    BY <1>2, EnginesStep
  <2>2. CASE recent = <<>> \/ (kinds = {} /\ recent' = recent)
    <3>1. recent' = recent
      BY <2>1, <2>2 DEF Read
    <3>2. phase' = phase
      BY <2>1, <2>2, NothingToRead
    <3>3. PhaseEnd' = PhaseEnd
      BY <3>1 DEF PhaseEnd
    <3> QED
      BY <3>1, <3>2, <3>3 DEF PhaseCounts
  <2>3. CASE recent # <<>> /\ Read(kinds) /\ "phase" \notin kinds
    <3>1. /\ PhaseEnd' = PhaseEnd /\ OncePhase(recent') = OncePhase(recent)
          /\ Tells(recent', phase.candidate) = Tells(recent, phase.candidate)
      BY <2>3, ReadEnds
    <3> QED
      BY <2>1, <2>3, <3>1 DEF PhaseCounts
  <2>4. CASE recent # <<>> /\ Read(kinds) /\ "phase" \in kinds
    <3>0. PICK raw : raw = RawPhase(state)
      OBVIOUS
    <3>1. PICK len \in Nat : raw = RawPhase(state) /\ len = Len(recent) /\ PhaseEnd' = len
      BY <2>4, <3>0, ReadEnds, EndTypes
    <3>2. phase \in PhaseMemory
      BY DEF LogTypeOK, PhaseMemory
    <3>3. CASE phase'.hold = 0
      <4>1. Told(0, len, OncePhase(recent'), Tells(recent', phase'.candidate))
        BY ToldNone
      <4> QED
        BY <3>1, <3>3, <4>1 DEF PhaseCounts
    <3>4. CASE phase'.hold = 1 /\ phase'.candidate = raw
      <4>1. /\ Told(0, len, OncePhase(recent'), Tells(recent', raw))
            /\ Told(1, len, OncePhase(recent'), Tells(recent', raw))
        BY <2>4, <3>1, ToldNone, PhaseReadFirst
      <4>2. \A n \in Nat : n <= 1 => n \in {0, 1}
        OBVIOUS
      <4> QED
        BY <3>1, <3>4, <4>1, <4>2 DEF PhaseCounts
    <3>5. CASE phase'.hold = phase.hold + 1 /\ phase'.candidate = phase.candidate /\ raw = phase.candidate
      <4>1. ASSUME NEW n \in Nat, n <= phase'.hold, n < Hold
            PROVE  Told(n, len, OncePhase(recent'), Tells(recent', phase.candidate))
        <5>1. CASE n = 0
          BY <5>1, ToldNone
        <5>2. CASE n # 0
          <6>1. n - 1 \in Nat /\ n - 1 <= phase.hold /\ n - 1 < Hold /\ (n - 1) + 1 = n
            BY <3>2, <3>5, <4>1, <5>2, FlightLogConstants DEF PhaseMemory
          <6>2. Told((n - 1) + 1, len, OncePhase(recent'), Tells(recent', phase.candidate))
            BY <2>4, <3>1, <3>5, <6>1, PhaseRead
          <6> QED
            BY <6>1, <6>2
        <5> QED
          BY <5>1, <5>2
      <4> QED
        BY <3>1, <3>5, <4>1 DEF PhaseCounts
    <3>6. \/ phase'.hold = 0
          \/ phase'.hold = 1 /\ phase'.candidate = raw
          \/ phase'.hold = phase.hold + 1 /\ phase'.candidate = phase.candidate /\ raw = phase.candidate
      BY <2>1, <2>4, <3>1, <3>2 DEF Classify, PhaseMemory
    <3> QED
      BY <3>3, <3>4, <3>5, <3>6
  <2>5. recent # <<>> => (kinds = {} /\ recent' = recent) \/ Read(kinds)
    BY <2>1
  <2> QED
    BY <2>2, <2>3, <2>4, <2>5
<1> QED
  BY <1>1, <1>2

\* A check that does not close an open event counts it, and one that does not open a closed one.
LEMMA JudgeCounts ==
  ASSUME NEW ev \in EventMemory, ev.open => ev.down < Clear, ~ev.open => ev.up < Open,
         NEW verdict \in {"alarm", "calm", "skip"}, NEW at \in Nat
  PROVE  LET new == Judge(ev, verdict, at) IN
         /\ new.open => \/ new.down = 0
                        \/ ev.open /\ verdict # "alarm" /\ new.down = ev.down + 1 /\ new.down < Clear
         /\ ~new.open => \/ new.up = 0
                         \/ ~ev.open /\ verdict # "calm" /\ new.up \in {ev.up, ev.up + 1} /\ new.up < Open
         /\ new.open /\ ~ev.open => verdict # "calm" /\ ev.up + 1 = Open
         /\ ~new.open /\ ev.open => verdict # "alarm" /\ ev.down + 1 = Clear
<1>1. /\ ev.open \in BOOLEAN /\ ev.up \in 0..Open /\ ev.down \in 0..Clear
  BY DEF EventMemory
<1>2. CASE verdict = "alarm"
  <2>1. Judge(ev, verdict, at) = Raise(ev, at)
    BY <1>2 DEF Judge
  <2>2. /\ Raise(ev, at).down = 0
        /\ Raise(ev, at).up = IF ev.up < Open THEN ev.up + 1 ELSE Open
        /\ Raise(ev, at).open <=> ev.open \/ Raise(ev, at).up >= Open
    BY <1>1 DEF Raise
  <2> QED
    BY <1>1, <1>2, <2>1, <2>2, FlightLogConstants
<1>3. CASE verdict # "alarm" /\ ev.open
  <2>1. Judge(ev, verdict, at) = Lower(ev)
    BY <1>3 DEF Judge
  <2>2. IF ev.down + 1 >= Clear THEN ~Lower(ev).open /\ Lower(ev).up = 0
                                ELSE Lower(ev).open /\ Lower(ev).down = ev.down + 1
    BY <1>3 DEF Lower, EventMemory
  <2> QED
    BY <1>1, <1>3, <2>1, <2>2, FlightLogConstants
<1>4. CASE verdict = "skip" /\ ~ev.open
  <2>1. Judge(ev, verdict, at) = [ev EXCEPT !.down = 0]
    BY <1>4 DEF Judge
  <2>2. ~[ev EXCEPT !.down = 0].open /\ [ev EXCEPT !.down = 0].up = ev.up
    BY <1>4 DEF EventMemory
  <2> QED
    BY <1>1, <1>4, <2>1, <2>2
<1>5. CASE verdict = "calm" /\ ~ev.open
  <2>1. Judge(ev, verdict, at) = [ev EXCEPT !.up = 0]
    BY <1>5 DEF Judge
  <2>2. ~[ev EXCEPT !.up = 0].open /\ [ev EXCEPT !.up = 0].up = 0
    BY <1>5 DEF EventMemory
  <2> QED
    BY <1>1, <1>5, <2>1, <2>2
<1> QED
  BY <1>2, <1>3, <1>4, <1>5

\* A step keeps the counts of the event engine.
LEMMA EventCountsStep ==
  ASSUME LogTypeOK, LogTypeOK', LatestIsState, EventCounts, [LogNext]_logVars
  PROVE  EventCounts'
<1>1. CASE NewState
  <2>1. PICK len \in Nat, end \in Nat : /\ len = Len(recent) /\ DOMAIN recent = 1..len /\ end = EventEnd
                                        /\ end \in {len - 1, len}
                                        /\ end # len => len \notin OnceEvent(recent)
    BY EndTypes
  <2>2. PICK shift \in {0, 1} :
          /\ shift = 1 => len = Window
          /\ Len(recent') = len - shift + 1
          /\ \A i \in 1..len - shift : recent'[i] = recent[i + shift]
          /\ EventEnd' = len - shift
    <3>1. \E shift \in {0, 1} :
            /\ shift = 1 => Len(recent) = Window
            /\ Len(recent') = Len(recent) - shift + 1
            /\ \A i \in 1..Len(recent) - shift : recent'[i] = recent[i + shift]
            /\ recent' # <<>> /\ Last(recent').state = state'
            /\ PhaseEnd' = Len(recent) - shift /\ EventEnd' = Len(recent) - shift
      BY <1>1, NewStateWindow
    <3> QED
      BY <2>1, <3>1
  <2>3. event' = event
    BY <1>1 DEF NewState
  <2>4. PICK once, once2 : once = OnceEvent(recent) /\ once2 = OnceEvent(recent')
    OBVIOUS
  <2>5. \A i \in 1..len - shift : i + shift \in DOMAIN recent /\ i \in DOMAIN recent'
    <3> SUFFICES ASSUME NEW i \in 1..len - shift
                 PROVE  i + shift \in DOMAIN recent /\ i \in DOMAIN recent'
      OBVIOUS
    <3>1. i + shift \in 1..len /\ i \in 1..Len(recent')
      BY <2>2
    <3> QED
      BY <2>1, <3>1 DEF LogTypeOK
  <2>6. \A i \in 1..len - shift : i \in once2 => i + shift \in once
    <3> SUFFICES ASSUME NEW i \in 1..len - shift, i \in once2
                 PROVE  i + shift \in once
      OBVIOUS
    <3>1. recent'[i] = recent[i + shift]
      BY <2>2
    <3> QED
      BY <2>4, <2>5, <3>1 DEF OnceEvent
  <2>7. ASSUME NEW n \in Nat, NEW told, NEW told2, Told(n, end, once, told),
               \A i \in 1..len - shift : i + shift \in told => i \in told2,
               len = 0 => n = 0, n < Open \/ n < Clear
        PROVE  Told(n, len - shift, once2, told2)
    <3>1. len = 0 => end = 0
      BY <2>1, EndTypes
    <3>2. shift = 1 => n < len
      BY <2>2, <2>7, WindowType, FlightLogConstants
    <3>3. end \in {len - 1, len} /\ (end # len => len \notin once) /\ (len = 0 => n = 0 /\ end = 0)
      BY <2>1, <2>4, <2>7, <3>1
    <3>4. \A i \in 1..len - shift : (i \in once2 => i + shift \in once) /\ (i + shift \in told => i \in told2)
      BY <2>6, <2>7
    <3> QED
      BY <2>7, <3>2, <3>3, <3>4, ToldNewState, SMTT(15)
  <2>8. len = 0 => recent = <<>>
    BY <2>1, EndTypes
  <2>9. ASSUME NEW e \in Events, event[e].open, NEW n \in Nat, n <= event[e].down
        PROVE  Told(n, len - shift, once2, NoAlarm(recent', e))
    <3>1. Told(n, end, once, NoAlarm(recent, e)) /\ event[e].down < Clear
      BY <2>1, <2>4, <2>9 DEF EventCounts
    <3>2. \A i \in 1..len - shift : i + shift \in NoAlarm(recent, e) => i \in NoAlarm(recent', e)
      BY <2>1, <2>2, <2>5 DEF NoAlarm
    <3>3. len # 0
      BY <2>8, <2>9, NothingToRead
    <3>4. n < Clear
      <4>1. event[e].down \in Nat
        BY <2>9 DEF LogTypeOK
      <4> QED
        BY <2>9, <3>1, <4>1, FlightLogConstants
    <3> QED
      BY <2>7, <3>1, <3>2, <3>3, <3>4
  <2>10. ASSUME NEW e \in Events, ~event[e].open, NEW n \in Nat, n <= event[e].up
         PROVE  Told(n, len - shift, once2, NotCalm(recent', e))
    <3>1. Told(n, end, once, NotCalm(recent, e)) /\ event[e].up < Open
      BY <2>1, <2>4, <2>10 DEF EventCounts
    <3>2. \A i \in 1..len - shift : i + shift \in NotCalm(recent, e) => i \in NotCalm(recent', e)
      BY <2>1, <2>2, <2>5 DEF NotCalm
    <3>3. event[e].up \in Nat
      BY <2>10 DEF LogTypeOK
    <3>4. len = 0 => n = 0
      BY <2>8, <2>10, NothingToRead
    <3>5. n < Open
      BY <2>10, <3>1, <3>3, FlightLogConstants
    <3> QED
      BY <2>7, <3>1, <3>2, <3>4, <3>5
  <2> QED
    BY <2>2, <2>3, <2>4, <2>9, <2>10 DEF EventCounts
<1>2. CASE ~NewState
  <2>1. PICK kinds : /\ state' = state
                     /\ (kinds = {} /\ recent' = recent) \/ Read(kinds)
                     /\ event' = IF "event" \in kinds THEN Evaluate(event, state, now) ELSE event
    BY <1>2, EnginesStep
  <2>2. CASE recent = <<>> \/ (kinds = {} /\ recent' = recent)
    <3>1. recent' = recent
      BY <2>1, <2>2 DEF Read
    <3>2. event' = event
      BY <2>1, <2>2, NothingToRead
    <3>3. EventEnd' = EventEnd
      BY <3>1 DEF EventEnd
    <3> QED
      BY <3>1, <3>2, <3>3 DEF EventCounts
  <2>3. CASE recent # <<>> /\ Read(kinds) /\ "event" \notin kinds
    <3>1. /\ EventEnd' = EventEnd /\ OnceEvent(recent') = OnceEvent(recent)
          /\ \A e : NotCalm(recent', e) = NotCalm(recent, e) /\ NoAlarm(recent', e) = NoAlarm(recent, e)
      BY <2>3, ReadEnds
    <3> QED
      BY <2>1, <2>3, <3>1 DEF EventCounts
  <2>4. CASE recent # <<>> /\ Read(kinds) /\ "event" \in kinds
    <3>1. PICK len \in Nat : len = Len(recent) /\ EventEnd' = len
      BY <2>4, ReadEnds, EndTypes
    <3> SUFFICES ASSUME NEW e \in Events
                 PROVE  IF event'[e].open
                        THEN /\ event'[e].down < Clear
                             /\ \A n \in Nat : n <= event'[e].down =>
                                  Told(n, len, OnceEvent(recent'), NoAlarm(recent', e))
                        ELSE /\ event'[e].up < Open
                             /\ \A n \in Nat : n <= event'[e].up =>
                                  Told(n, len, OnceEvent(recent'), NotCalm(recent', e))
      BY <3>1 DEF EventCounts
    <3>2. PICK old \in EventMemory, verdict \in {"alarm", "calm", "skip"} :
            old = event[e] /\ verdict = Check(state, e) /\ event'[e] = Judge(old, verdict, now)
      <4>1. event[e] \in EventMemory
        BY DEF LogTypeOK, EventMemory
      <4>2. Check(state, e) \in {"alarm", "calm", "skip"}
        BY DEF Check
      <4>3. event'[e] = Judge(event[e], Check(state, e), now)
        BY <2>1, <2>4 DEF Evaluate
      <4> QED
        BY <4>1, <4>2, <4>3
    <3>3. (old.open => old.down < Clear) /\ (~old.open => old.up < Open) /\ now \in Nat
      BY <3>2 DEF EventCounts, LogTypeOK
    <3>4. PICK new \in EventMemory : new = event'[e]
      BY DEF LogTypeOK, EventMemory
    <3>5. /\ new.open \in BOOLEAN /\ new.down \in Nat /\ new.up \in Nat /\ old.down \in Nat /\ old.up \in Nat
      BY FlightLogConstants DEF EventMemory
    <3>6. /\ new.open => \/ new.down = 0
                         \/ old.open /\ verdict # "alarm" /\ new.down = old.down + 1 /\ new.down < Clear
          /\ ~new.open => \/ new.up = 0
                          \/ ~old.open /\ verdict # "calm" /\ new.up \in {old.up, old.up + 1} /\ new.up < Open
      BY <3>2, <3>3, <3>4, JudgeCounts
    <3>7. ASSUME new.open, NEW n \in Nat, n <= new.down
          PROVE  Told(n, len, OnceEvent(recent'), NoAlarm(recent', e))
      <4>1. CASE n = 0
        BY <4>1, ToldNone
      <4>2. CASE n # 0
        <5>1. n - 1 \in Nat /\ n - 1 <= old.down /\ (n - 1) + 1 = n /\ old.open /\ verdict # "alarm"
          BY <3>5, <3>6, <3>7, <4>2
        <5>2. Told((n - 1) + 1, len, OnceEvent(recent'), NoAlarm(recent', e))
          BY <2>4, <3>1, <3>2, <5>1, EventRead
        <5> QED
          BY <5>1, <5>2
      <4> QED
        BY <4>1, <4>2
    <3>8. ASSUME ~new.open, NEW n \in Nat, n <= new.up
          PROVE  Told(n, len, OnceEvent(recent'), NotCalm(recent', e))
      <4>1. CASE n = 0
        BY <4>1, ToldNone
      <4>2. CASE n # 0
        <5>1. n - 1 \in Nat /\ n - 1 <= old.up /\ (n - 1) + 1 = n /\ ~old.open /\ verdict # "calm"
          BY <3>5, <3>6, <3>8, <4>2
        <5>2. Told((n - 1) + 1, len, OnceEvent(recent'), NotCalm(recent', e))
          BY <2>4, <3>1, <3>2, <5>1, EventRead
        <5> QED
          BY <5>1, <5>2
      <4> QED
        BY <4>1, <4>2
    <3>9. (new.open => new.down < Clear) /\ (~new.open => new.up < Open)
      BY <3>6, FlightLogConstants
    <3> QED
      BY <3>4, <3>7, <3>8, <3>9
  <2>5. recent # <<>> => (kinds = {} /\ recent' = recent) \/ Read(kinds)
    BY <2>1
  <2> QED
    BY <2>2, <2>3, <2>4, <2>5
<1> QED
  BY <1>1, <1>2

\* What the engines count holds at the start.
LEMMA CountInit == LogInit => CountInv
<1> SUFFICES ASSUME LogInit PROVE CountInv
  OBVIOUS
<1>1. recent = <<>> /\ state = NoState /\ phase = FreshPhase /\ event = [e \in Events |-> FreshEvent]
  BY DEF LogInit
<1>2. PhaseEnd = 0 /\ EventEnd = 0
  BY <1>1 DEF PhaseEnd, EventEnd
<1>3. phase.hold = 0 /\ \A e \in Events : ~event[e].open /\ event[e].up = 0
  BY <1>1 DEF FreshPhase, FreshEvent
<1>4. \A once, told : Told(0, 0, once, told)
  BY ToldNone
<1>5. \A n \in Nat : n <= 0 => n = 0
  OBVIOUS
<1>6. PhaseCounts
  BY <1>2, <1>3, <1>4, <1>5 DEF PhaseCounts
<1>7. EventCounts
  BY <1>2, <1>3, <1>4, <1>5, FlightLogConstants DEF EventCounts
<1> QED
  BY <1>1, <1>6, <1>7 DEF CountInv, LatestIsState

\* And a step keeps it.
LEMMA CountInvStep == LogTypeOK /\ CountInv /\ [LogNext]_logVars => CountInv'
BY LogStepType, LatestIsStateStep, PhaseCountsStep, EventCountsStep DEF CountInv

\* What is told of the last n states is that there have been n such states.
LEMMA ToldIsHeld ==
  ASSUME LogTypeOK', NEW n \in Nat, NEW once, NEW told, Told(n, Len(recent'), once, told)
  PROVE  Held(n, once, told)
<1>1. Len(recent') \in Nat /\ DOMAIN recent' = 1..Len(recent')
  BY DEF LogTypeOK
<1>2. LastRead(n, Len(recent')) = {i \in DOMAIN recent' : i > Len(recent') - n}
  BY <1>1 DEF LastRead
<1> QED
  BY <1>2 DEF Told, Held

\* The phase changes only after Hold states that tell it, if each was read once.
LEMMA PhaseHeld ==
  ASSUME LogTypeOK, LogTypeOK', CountInv, [LogNext]_logVars, phase'.current # phase.current
  PROVE  Held(Hold, {i \in DOMAIN recent' : recent'[i].phaseReads = 1},
              {i \in DOMAIN recent' : RawPhase(recent'[i].state) = phase'.current})
<1>1. ~NewState
  BY DEF NewState
<1>2. PICK kinds : /\ (kinds = {} /\ recent' = recent) \/ Read(kinds)
                   /\ phase' = IF "phase" \in kinds THEN Classify(phase, RawPhase(state)) ELSE phase
  BY <1>1, EnginesStep
<1>3. "phase" \in kinds /\ Read(kinds) /\ phase' = Classify(phase, RawPhase(state)) /\ recent # <<>>
  BY <1>2, NothingToRead DEF CountInv
<1>4. /\ RawPhase(state) = phase.candidate /\ phase'.current = phase.candidate
      /\ phase.hold + 1 >= Hold
  <2>1. phase \in PhaseMemory
    BY DEF LogTypeOK, PhaseMemory
  <2> QED
    BY <1>3, <2>1 DEF Classify, PhaseMemory
<1>5. Hold - 1 \in Nat /\ Hold - 1 <= phase.hold /\ Hold - 1 < Hold /\ (Hold - 1) + 1 = Hold
  <2>1. phase.hold \in Nat
    BY FlightLogConstants DEF LogTypeOK
  <2> QED
    BY <1>4, <2>1, FlightLogConstants
<1>6. Told((Hold - 1) + 1, Len(recent), OncePhase(recent'), Tells(recent', phase.candidate))
  BY <1>3, <1>4, <1>5, PhaseRead DEF CountInv
<1>7. Len(recent') = Len(recent)
  BY <1>3, ReadType
<1>8. Held(Hold, OncePhase(recent'), Tells(recent', phase'.current))
  BY <1>4, <1>5, <1>6, <1>7, ToldIsHeld, FlightLogConstants
<1> QED
  BY <1>8 DEF OncePhase, Tells

\* An event opens only after Open states without a calm one, and closes only after Clear states
\* without an alarm, if each was read once.
LEMMA EventHeld ==
  ASSUME LogTypeOK, LogTypeOK', CountInv, [LogNext]_logVars, NEW e \in Events,
         event'[e].open # event[e].open
  PROVE  LET once == {i \in DOMAIN recent' : recent'[i].eventReads = 1} IN
         /\ event'[e].open =>
              Held(Open, once, {i \in DOMAIN recent' : Check(recent'[i].state, e) # "calm"})
         /\ event[e].open =>
              Held(Clear, once, {i \in DOMAIN recent' : Check(recent'[i].state, e) # "alarm"})
<1>1. ~NewState
  BY DEF NewState
<1>2. PICK kinds : /\ (kinds = {} /\ recent' = recent) \/ Read(kinds)
                   /\ event' = IF "event" \in kinds THEN Evaluate(event, state, now) ELSE event
  BY <1>1, EnginesStep
<1>3. "event" \in kinds /\ Read(kinds) /\ event' = Evaluate(event, state, now) /\ recent # <<>>
  BY <1>2, NothingToRead DEF CountInv
<1>4. PICK old \in EventMemory, verdict \in {"alarm", "calm", "skip"} :
        old = event[e] /\ verdict = Check(state, e) /\ event'[e] = Judge(old, verdict, now)
  <2>1. event[e] \in EventMemory
    BY DEF LogTypeOK, EventMemory
  <2>2. Check(state, e) \in {"alarm", "calm", "skip"}
    BY DEF Check
  <2>3. event'[e] = Judge(event[e], Check(state, e), now)
    BY <1>3 DEF Evaluate
  <2> QED
    BY <2>1, <2>2, <2>3
<1>5. (old.open => old.down < Clear) /\ (~old.open => old.up < Open) /\ now \in Nat
  BY <1>4 DEF CountInv, EventCounts, LogTypeOK
<1>6. PICK new \in EventMemory : new = event'[e]
  BY DEF LogTypeOK, EventMemory
<1>7. /\ new.open \in BOOLEAN /\ old.open \in BOOLEAN /\ new.open # old.open
      /\ old.down \in Nat /\ old.up \in Nat
  BY <1>4, <1>6, FlightLogConstants DEF EventMemory
<1>8. /\ new.open /\ ~old.open => verdict # "calm" /\ old.up + 1 = Open
      /\ ~new.open /\ old.open => verdict # "alarm" /\ old.down + 1 = Clear
  BY <1>4, <1>5, <1>6, JudgeCounts
<1>9. Len(recent') = Len(recent)
  BY <1>3, ReadType
<1>10. ASSUME new.open, ~old.open PROVE Held(Open, OnceEvent(recent'), NotCalm(recent', e))
  <2>1. Told(old.up + 1, Len(recent), OnceEvent(recent'), NotCalm(recent', e))
    BY <1>3, <1>4, <1>7, <1>8, <1>10, EventRead DEF CountInv
  <2> QED
    BY <1>8, <1>9, <1>10, <2>1, ToldIsHeld, FlightLogConstants
<1>11. ASSUME ~new.open, old.open PROVE Held(Clear, OnceEvent(recent'), NoAlarm(recent', e))
  <2>1. Told(old.down + 1, Len(recent), OnceEvent(recent'), NoAlarm(recent', e))
    BY <1>3, <1>4, <1>7, <1>8, <1>11, EventRead DEF CountInv
  <2> QED
    BY <1>8, <1>9, <1>11, <2>1, ToldIsHeld, FlightLogConstants
<1> QED
  BY <1>4, <1>6, <1>7, <1>10, <1>11 DEF OnceEvent, NotCalm, NoAlarm

\* The phase changes, and an event opens and closes, only after the documented numbers of states that
\* say so, as long as every state is read once.
THEOREM ChangesAreHeld == LogSpec => HeldForSamples
<1>1. LogTypeOK /\ LogTypeOK' /\ CountInv /\ [LogNext]_logVars =>
        [LET phaseOnce == {i \in DOMAIN recent' : recent'[i].phaseReads = 1}
             eventOnce == {i \in DOMAIN recent' : recent'[i].eventReads = 1}
         IN /\ phase'.current # phase.current =>
                 Held(Hold, phaseOnce,
                      {i \in DOMAIN recent' : RawPhase(recent'[i].state) = phase'.current})
            /\ \A e \in Events :
                 /\ event'[e].open /\ ~event[e].open =>
                      Held(Open, eventOnce, {i \in DOMAIN recent' : Check(recent'[i].state, e) # "calm"})
                 /\ event[e].open /\ ~event'[e].open =>
                      Held(Clear, eventOnce, {i \in DOMAIN recent' : Check(recent'[i].state, e) # "alarm"})
         ]_logVars
  BY PhaseHeld, EventHeld
<1> QED
  BY <1>1, LogInitType, LogStepType, CountInit, CountInvStep, PTL DEF LogSpec, HeldForSamples


-----------------------------------------------------------------------------
(* The debrief follows what was seen live.                                 *)

\* What get_session_home may answer.
Homes == [override : BOOLEAN, place : Nat]

\* What the debrief has found after n rows, from what it has found after each.
NextDebrief(found, samples, id, h, n) ==
  IF n = 0 THEN FreshDebrief
  ELSE IF samples[n].session = id THEN DebriefSample(found[n - 1], samples[n], h)
  ELSE found[n - 1]

Answers(f, samples, id, h, len) == f = [n \in 0..len |-> NextDebrief(f, samples, id, h, n)]

\* Induction over the rows of a table, which is over a set of numbers.
LEMMA RowByRow ==
  ASSUME NEW len \in Nat, NEW S, 0 \in S, \A n \in 1..len : n - 1 \in S => n \in S
  PROVE  \A n \in 0..len : n \in S
<1> DEFINE Left == {n \in Nat : n <= len /\ n \notin S}
<1> SUFFICES ASSUME Left # {} PROVE FALSE
  OBVIOUS
<1>1. PICK n \in Left : \A k \in Left : n <= k
  BY LeastNumber
<1>2. n \in 1..len /\ n - 1 \in Nat /\ n - 1 <= len /\ ~(n <= n - 1)
  BY <1>1
<1>3. n - 1 \in S
  BY <1>1, <1>2
<1> QED
  BY <1>1, <1>2, <1>3

\* There is such a function up to any row: one more row extends it.
LEMMA DebriefsExist ==
  ASSUME NEW q, NEW id, NEW h, NEW len \in Nat
  PROVE  \E f : Answers(f, q, id, h, len)
<1>1. PICK Reached : Reached = {m \in 0..len : \E f : Answers(f, q, id, h, m)}
  OBVIOUS
<1>2. 0 \in Reached
  <2>1. Answers([n \in 0..0 |-> FreshDebrief], q, id, h, 0)
    BY DEF Answers, NextDebrief
  <2> QED
    BY <1>1, <2>1
<1>3. ASSUME NEW m \in 1..len, m - 1 \in Reached
      PROVE  m \in Reached
  <2>1. PICK g : Answers(g, q, id, h, m - 1)
    BY <1>1, <1>3
  <2> DEFINE f == [n \in 0..m |-> IF n = m THEN NextDebrief(g, q, id, h, m) ELSE g[n]]
  <2>2. \A n \in 0..m - 1 : f[n] = g[n] /\ g[n] = NextDebrief(g, q, id, h, n)
    BY <2>1 DEF Answers
  <2>3. \A n \in 0..m : n # 0 => n - 1 \in 0..m - 1
    OBVIOUS
  <2>4. \A n \in 0..m : NextDebrief(f, q, id, h, n) = NextDebrief(g, q, id, h, n)
    BY <2>2, <2>3 DEF NextDebrief
  <2>5. \A n \in 0..m : n # m => n \in 0..m - 1
    OBVIOUS
  <2>6. \A n \in 0..m : f[n] = NextDebrief(f, q, id, h, n)
    BY <2>2, <2>4, <2>5
  <2>7. Answers(f, q, id, h, m)
    BY <2>6 DEF Answers
  <2> QED
    BY <1>1, <2>7
<1>4. \A n \in 0..len : n \in Reached
  BY <1>2, <1>3, RowByRow
<1> QED
  BY <1>1, <1>4

\* So the debrief is what its recursion says.
LEMMA DebriefsStep ==
  ASSUME NEW S, NEW q \in Seq(S), NEW id, NEW h
  PROVE  \A n \in 0..Len(q) : Debriefs(q, id, h)[n] = NextDebrief(Debriefs(q, id, h), q, id, h, n)
<1>1. \E f : Answers(f, q, id, h, Len(q))
  <2>1. Len(q) \in Nat
    OBVIOUS
  <2> QED
    BY <2>1, DebriefsExist, Zenon
<1>2. Debriefs(q, id, h) = CHOOSE f : Answers(f, q, id, h, Len(q))
  BY Zenon DEF Debriefs, Answers, NextDebrief
<1>3. Answers(Debriefs(q, id, h), q, id, h, Len(q))
  BY <1>1, <1>2, Zenon
<1>4. Debriefs(q, id, h) = [n \in 0..Len(q) |-> NextDebrief(Debriefs(q, id, h), q, id, h, n)]
  BY <1>3, Zenon DEF Answers
<1> QED
  BY <1>4, Zenon

\* The debrief finds the same after the first n of two tables that begin with the same n rows.
LEMMA DebriefsKept ==
  ASSUME NEW S, NEW q \in Seq(S), NEW r \in Seq(S), NEW id, NEW h, NEW m \in Nat,
         m <= Len(q), m <= Len(r), \A i \in 1..m : r[i] = q[i]
  PROVE  Debriefs(r, id, h)[m] = Debriefs(q, id, h)[m]
<1>1. PICK Same : Same = {n \in 0..m : Debriefs(r, id, h)[n] = Debriefs(q, id, h)[n]}
  OBVIOUS
<1>2. 0 \in Same
  <2>1. /\ Debriefs(q, id, h)[0] = NextDebrief(Debriefs(q, id, h), q, id, h, 0)
        /\ Debriefs(r, id, h)[0] = NextDebrief(Debriefs(r, id, h), r, id, h, 0)
    BY DebriefsStep
  <2> QED
    BY <1>1, <2>1 DEF NextDebrief
<1>3. ASSUME NEW n \in 1..m, n - 1 \in Same
      PROVE  n \in Same
  <2>1. /\ Debriefs(q, id, h)[n] = NextDebrief(Debriefs(q, id, h), q, id, h, n)
        /\ Debriefs(r, id, h)[n] = NextDebrief(Debriefs(r, id, h), r, id, h, n)
    BY DebriefsStep
  <2> QED
    BY <1>1, <1>3, <2>1 DEF NextDebrief
<1>4. \A n \in 0..m : n \in Same
  BY <1>2, <1>3, RowByRow
<1> QED
  BY <1>1, <1>4

\* Before the first row of its session, the debrief has found nothing.
LEMMA DebriefsFresh ==
  ASSUME NEW S, NEW q \in Seq(S), NEW id, NEW h, NEW m \in Nat, m <= Len(q),
         \A i \in 1..m : q[i].session # id
  PROVE  Debriefs(q, id, h)[m] = FreshDebrief
<1>1. PICK Unfound : Unfound = {n \in 0..m : Debriefs(q, id, h)[n] = FreshDebrief}
  OBVIOUS
<1>2. 0 \in Unfound
  <2>1. Debriefs(q, id, h)[0] = NextDebrief(Debriefs(q, id, h), q, id, h, 0)
    BY DebriefsStep
  <2> QED
    BY <1>1, <2>1 DEF NextDebrief
<1>3. ASSUME NEW n \in 1..m, n - 1 \in Unfound
      PROVE  n \in Unfound
  <2>1. Debriefs(q, id, h)[n] = NextDebrief(Debriefs(q, id, h), q, id, h, n)
    BY DebriefsStep
  <2> QED
    BY <1>1, <1>3, <2>1 DEF NextDebrief
<1>4. \A n \in 0..m : n \in Unfound
  BY <1>2, <1>3, RowByRow
<1> QED
  BY <1>1, <1>4

\* What a debrief has found: engines of the same types as the live ones.
Debriefing(d) ==
  /\ d.phase \in PhaseMemory
  /\ d.event \in [Events -> EventMemory] /\ \A e \in Events : d.event[e].open => d.event[e].down < Clear
  /\ d.occurred \subseteq Events /\ d.filled \in Nat

\* A debrief begins with engines of these types, and a sample keeps them.
LEMMA DebriefType ==
  /\ Debriefing(FreshDebrief)
  /\ \A d : \A row \in SampleRows, h \in Homes : Debriefing(d) => Debriefing(DebriefSample(d, row, h))
<1>1. Debriefing(FreshDebrief)
  <2>1. FreshPhase \in PhaseMemory
    BY FlightLogConstants DEF FreshPhase, PhaseMemory, PhaseNames, Motions
  <2>2. FreshEvent \in EventMemory /\ ~FreshEvent.open
    BY FlightLogConstants DEF FreshEvent, EventMemory
  <2> QED
    BY <2>1, <2>2 DEF Debriefing, FreshDebrief
<1>2. ASSUME NEW d, NEW row \in SampleRows, NEW h \in Homes, Debriefing(d)
      PROVE  Debriefing(DebriefSample(d, row, h))
  <2>1. PICK s \in AircraftStates : s = StateOf(d, row, h)
    <3>1. PICK t \in AircraftStates : t = row.state
      BY DEF SampleRows
    <3>2. t.motion \in Motions
      BY DEF AircraftStates
    <3>3. \A p : Derived(p, row) \in Motions
      BY <3>1, <3>2 DEF Derived, Motions
    <3>4. PICK v \in Motions : v = IF t.climb \/ d.prev = {} THEN t.motion
                                    ELSE Derived(CHOOSE p \in d.prev : TRUE, row)
      BY <3>2, <3>3
    <3>5. PICK place \in Nat : place = IF h.override \/ t.home = None THEN h.place ELSE t.home
      BY DEF AircraftStates, Homes
    <3>6. PICK filled \in Nat : filled = Filled(d.filled, t)
      <4>1. d.filled \in Nat
        BY <1>2 DEF Debriefing
      <4> QED
        BY <4>1, FilledType
    <3>7. PICK alarms \in SUBSET Events : alarms = Alarms(row, filled)
      BY <3>1 DEF Alarms, AircraftStates
    <3>8. StateOf(d, row, h) = [t EXCEPT !.motion = v, !.home = place, !.override = None,
                                         !.filled = filled, !.alarms = alarms]
      BY <3>1, <3>4, <3>5, <3>6, <3>7 DEF StateOf
    <3>9. [t EXCEPT !.motion = v, !.home = place, !.override = None,
                    !.filled = filled, !.alarms = alarms] \in AircraftStates
      BY DEF AircraftStates, None
    <3> QED
      BY <3>8, <3>9
  <2>2. RawPhase(s) \in PhaseNames /\ s.at \in Nat
    BY <2>1, RawPhaseType DEF AircraftStates
  <2>3. Classify(d.phase, RawPhase(s)) \in PhaseMemory
    BY <1>2, <2>2, ClassifyType DEF Debriefing
  <2>4. PICK evs : evs = Evaluate(d.event, s, s.at)
    OBVIOUS
  <2>5. /\ evs \in [Events -> EventMemory]
        /\ \A e \in Events : evs[e].open => evs[e].down < Clear
    BY <1>2, <2>2, <2>4, EvaluateType DEF Debriefing
  <2>6. /\ DebriefSample(d, row, h).phase = Classify(d.phase, RawPhase(s)) /\ DebriefSample(d, row, h).event = evs
        /\ DebriefSample(d, row, h).occurred = d.occurred \cup OpenIn(evs)
        /\ DebriefSample(d, row, h).filled = s.filled
    BY <2>1, <2>4 DEF DebriefSample
  <2>7. s.filled \in Nat
    BY DEF AircraftStates
  <2> QED
    BY <1>2, <2>3, <2>5, <2>6, <2>7 DEF Debriefing, OpenIn
<1> QED
  BY <1>1, <1>2

\* So it keeps them after any number of rows.
LEMMA DebriefsType ==
  ASSUME NEW q \in Seq(SampleRows), NEW id, NEW h \in Homes, NEW m \in Nat, m <= Len(q)
  PROVE  Debriefing(Debriefs(q, id, h)[m])
<1>1. PICK Typed : Typed = {n \in 0..m : Debriefing(Debriefs(q, id, h)[n])}
  OBVIOUS
<1>2. 0 \in Typed
  <2>1. Debriefs(q, id, h)[0] = NextDebrief(Debriefs(q, id, h), q, id, h, 0)
    BY DebriefsStep
  <2> QED
    BY <1>1, <2>1, DebriefType DEF NextDebrief
<1>3. ASSUME NEW n \in 1..m, n - 1 \in Typed
      PROVE  n \in Typed
  <2>1. Debriefs(q, id, h)[n] = NextDebrief(Debriefs(q, id, h), q, id, h, n) /\ q[n] \in SampleRows
    BY DebriefsStep
  <2> QED
    BY <1>1, <1>3, <2>1, DebriefType DEF NextDebrief
<1>4. \A n \in 0..m : n \in Typed
  BY <1>2, <1>3, RowByRow
<1> QED
  BY <1>1, <1>4

\* The rows from i to n are of the session and have the same phase.
Alike(samples, id, i, n) ==
  \A k \in i..n : samples[k].session = id /\ RawPhase(samples[k].state) = RawPhase(samples[i].state)

\* Whatever it started from, an engine of phases that has come to n rows knows how many of the last
\* are alike: they have its candidate, which it has changed to or which it holds for each of them.
KnowsRun(p, samples, id, n) ==
  /\ p.hold < Enough
  /\ \A i \in 1..n : Alike(samples, id, i, n) =>
       /\ p.candidate = RawPhase(samples[i].state)
       /\ (p.current = p.candidate /\ p.hold = 0) \/ p.hold >= n - i + 1

\* Enough states change the phase, from any hold.
LEMMA EnoughType == Enough \in Nat /\ Enough >= 2 /\ Hold <= Enough
BY FlightLogConstants DEF Enough

\* A state that is read becomes the candidate: of the phase, for the first time, or once more.
LEMMA ClassifyCounts ==
  ASSUME NEW p \in PhaseMemory, NEW raw
  PROVE  LET new == Classify(p, raw) IN
         /\ new.candidate = raw
         /\ \/ new.current = raw /\ new.hold = 0
            \/ raw # p.candidate /\ new.hold = 1
            \/ raw = p.candidate /\ raw # p.current /\ new.hold = p.hold + 1 /\ new.hold < Hold
<1>1. p.hold \in Nat /\ Hold \in Nat
  BY FlightLogConstants DEF PhaseMemory
<1>2. CASE raw = p.current
  <2>1. Classify(p, raw) = [p EXCEPT !.candidate = raw, !.hold = 0]
    BY <1>2 DEF Classify
  <2> QED
    BY <1>2, <2>1 DEF PhaseMemory
<1>3. CASE raw # p.current /\ raw # p.candidate
  <2>1. Classify(p, raw) = [p EXCEPT !.candidate = raw, !.hold = 1]
    BY <1>3 DEF Classify
  <2> QED
    BY <1>3, <2>1 DEF PhaseMemory
<1>4. CASE raw # p.current /\ raw = p.candidate /\ p.hold + 1 >= Hold
  <2>1. Classify(p, raw) = [p EXCEPT !.current = raw, !.hold = 0]
    BY <1>4 DEF Classify
  <2> QED
    BY <1>4, <2>1 DEF PhaseMemory
<1>5. CASE raw # p.current /\ raw = p.candidate /\ ~(p.hold + 1 >= Hold)
  <2>1. Classify(p, raw) = [p EXCEPT !.hold = @ + 1]
    BY <1>5 DEF Classify
  <2> QED
    BY <1>1, <1>5, <2>1 DEF PhaseMemory
<1> QED
  BY <1>2, <1>3, <1>4, <1>5

\* So an engine that knows the run of n rows knows that of n + 1 when it has read the next.
LEMMA KnowsNext ==
  ASSUME NEW q, NEW id, NEW n \in Nat, NEW p \in PhaseMemory, KnowsRun(p, q, id, n)
  PROVE  KnowsRun(Classify(p, RawPhase(q[n + 1].state)), q, id, n + 1)
<1>1. PICK raw : raw = RawPhase(q[n + 1].state)
  OBVIOUS
<1>2. PICK new : new = Classify(p, raw)
  OBVIOUS
<1>3. /\ new.candidate = raw
      /\ \/ new.current = raw /\ new.hold = 0
         \/ raw # p.candidate /\ new.hold = 1
         \/ raw = p.candidate /\ raw # p.current /\ new.hold = p.hold + 1 /\ new.hold < Hold
  BY <1>2, ClassifyCounts
<1>4. p.hold \in Nat /\ Hold \in Nat
  BY FlightLogConstants DEF PhaseMemory
<1>5. new.hold < Enough
  BY <1>3, <1>4, EnoughType
<1>6. ASSUME NEW i \in 1..n + 1, Alike(q, id, i, n + 1)
      PROVE  /\ raw = RawPhase(q[i].state)
             /\ (new.current = raw /\ new.hold = 0) \/ new.hold >= (n + 1) - i + 1
  <2>1. raw = RawPhase(q[i].state)
    BY <1>1, <1>6 DEF Alike
  <2>2. CASE i = n + 1
    BY <1>3, <1>4, <2>1, <2>2
  <2>3. CASE i # n + 1
    <3>1. i \in 1..n /\ Alike(q, id, i, n)
      BY <1>6, <2>3 DEF Alike
    <3>2. /\ p.candidate = raw
          /\ (p.current = raw /\ p.hold = 0) \/ p.hold >= n - i + 1
      BY <2>1, <3>1 DEF KnowsRun
    <3> QED
      BY <1>3, <1>4, <2>1, <3>1, <3>2
  <2> QED
    BY <2>2, <2>3
<1> QED
  BY <1>1, <1>2, <1>3, <1>5, <1>6 DEF KnowsRun

\* Two engines that have read enough rows in a row that are alike remember the same.
LEMMA SameWhenSettled ==
  ASSUME NEW q, NEW id, NEW n \in Nat, NEW p \in PhaseMemory, NEW r \in PhaseMemory,
         SettledBy(q, id, n) => p = r,
         KnowsRun(Classify(p, RawPhase(q[n + 1].state)), q, id, n + 1),
         KnowsRun(Classify(r, RawPhase(q[n + 1].state)), q, id, n + 1),
         RawPhase(q[n + 1].state) \in PhaseNames, SettledBy(q, id, n + 1)
  PROVE  Classify(p, RawPhase(q[n + 1].state)) = Classify(r, RawPhase(q[n + 1].state))
<1>1. PICK i \in 1..n + 1 : \A k \in i..i + Enough - 1 :
        /\ k <= n + 1 /\ q[k].session = id
        /\ RawPhase(q[k].state) = RawPhase(q[i].state)
  BY DEF SettledBy
<1>2. i + Enough - 1 \in Nat /\ i + Enough - 1 <= n + 1 /\ i + 1 <= i + Enough - 1
  <2>1. i + Enough - 1 \in i..i + Enough - 1
    BY EnoughType
  <2> QED
    BY <1>1, <2>1, EnoughType
<1>3. CASE i + Enough - 1 <= n
  <2>1. i \in 1..n
    BY <1>2, <1>3
  <2>2. \A k \in i..i + Enough - 1 : k <= n
    BY <1>3, EnoughType
  <2>3. SettledBy(q, id, n)
    BY <1>1, <2>1, <2>2 DEF SettledBy
  <2> QED
    BY <2>3
<1>4. CASE i + Enough - 1 = n + 1
  <2>1. Alike(q, id, i, n + 1)
    BY <1>1, <1>4 DEF Alike
  <2>2. (n + 1) - i + 1 = Enough
    BY <1>4, EnoughType
  <2>3. ASSUME NEW new \in PhaseMemory, KnowsRun(new, q, id, n + 1)
        PROVE  new = [current |-> RawPhase(q[i].state), candidate |-> RawPhase(q[i].state), hold |-> 0]
    <3>1. new.hold \in Nat /\ new.hold < Enough
      BY <2>3, FlightLogConstants DEF PhaseMemory, KnowsRun
    <3>2. /\ new.candidate = RawPhase(q[i].state)
          /\ (new.current = new.candidate /\ new.hold = 0) \/ new.hold >= Enough
      BY <2>1, <2>2, <2>3 DEF KnowsRun
    <3>3. new.current = new.candidate /\ new.hold = 0
      BY <3>1, <3>2, EnoughType
    <3> QED
      BY <3>2, <3>3 DEF PhaseMemory
  <2>4. /\ Classify(p, RawPhase(q[n + 1].state)) \in PhaseMemory
        /\ Classify(r, RawPhase(q[n + 1].state)) \in PhaseMemory
    BY ClassifyType
  <2> QED
    BY <2>3, <2>4
<1> QED
  BY <1>2, <1>3, <1>4, EnoughType

\* The live engine of an event is ahead of one that started afresh with the session.
Leads(live, d) ==
  /\ d.open => live.open /\ live.down = d.down
  /\ ~live.open => d.up <= live.up

\* It stays ahead as long as it does not close, and of one that knows nothing even then.
LEMMA LeadsNext ==
  ASSUME NEW live \in EventMemory, NEW d \in EventMemory, Leads(live, d),
         NEW verdict \in {"alarm", "calm", "skip"}, NEW at \in Nat, NEW at2 \in Nat
  PROVE  LET l == Judge(live, verdict, at) r == Judge(d, verdict, at2) IN
         (live.open => l.open) \/ d = FreshEvent => Leads(l, r)
<1>1. /\ live.open \in BOOLEAN /\ live.up \in 0..Open /\ live.down \in 0..Clear
      /\ d.open \in BOOLEAN /\ d.up \in 0..Open /\ d.down \in 0..Clear
  BY DEF EventMemory
<1>2. PICK l, r : l = Judge(live, verdict, at) /\ r = Judge(d, verdict, at2)
  OBVIOUS
<1>3. CASE verdict = "alarm"
  <2>1. l = Raise(live, at) /\ r = Raise(d, at2)
    BY <1>2, <1>3 DEF Judge
  <2>2. /\ l.down = 0 /\ r.down = 0
        /\ l.up = (IF live.up < Open THEN live.up + 1 ELSE Open) /\ (l.open <=> live.open \/ l.up >= Open)
        /\ r.up = (IF d.up < Open THEN d.up + 1 ELSE Open) /\ (r.open <=> d.open \/ r.up >= Open)
    BY <1>1, <2>1 DEF Raise
  <2> QED
    BY <1>1, <1>2, <2>2, FlightLogConstants DEF Leads
<1>4. CASE verdict # "alarm"
  <2>1. ASSUME NEW ev \in EventMemory, NEW t
        PROVE  LET new == Judge(ev, verdict, t) IN
               /\ ev.open => IF ev.down + 1 >= Clear THEN ~new.open /\ new.up = 0
                                                     ELSE new.open /\ new.down = ev.down + 1
               /\ ~ev.open => ~new.open /\ new.up = IF verdict = "skip" THEN ev.up ELSE 0
    <3>1. CASE ev.open
      <4>1. Judge(ev, verdict, t) = Lower(ev)
        BY <1>4, <3>1 DEF Judge
      <4>2. IF ev.down + 1 >= Clear THEN ~Lower(ev).open /\ Lower(ev).up = 0
                                    ELSE Lower(ev).open /\ Lower(ev).down = ev.down + 1
        BY <3>1 DEF Lower, EventMemory
      <4> QED
        BY <3>1, <4>1, <4>2
    <3>2. CASE ~ev.open
      <4>1. Judge(ev, verdict, t) = IF verdict = "skip" THEN [ev EXCEPT !.down = 0] ELSE [ev EXCEPT !.up = 0]
        BY <1>4, <3>2 DEF Judge
      <4>2. /\ ~[ev EXCEPT !.down = 0].open /\ [ev EXCEPT !.down = 0].up = ev.up
            /\ ~[ev EXCEPT !.up = 0].open /\ [ev EXCEPT !.up = 0].up = 0
        BY <3>2 DEF EventMemory
      <4> QED
        BY <3>2, <4>1, <4>2
    <3> QED
      BY <3>1, <3>2
  <2>2. /\ live.open => IF live.down + 1 >= Clear THEN ~l.open /\ l.up = 0
                                                 ELSE l.open /\ l.down = live.down + 1
        /\ ~live.open => ~l.open /\ l.up = IF verdict = "skip" THEN live.up ELSE 0
        /\ d.open => IF d.down + 1 >= Clear THEN ~r.open /\ r.up = 0 ELSE r.open /\ r.down = d.down + 1
        /\ ~d.open => ~r.open /\ r.up = IF verdict = "skip" THEN d.up ELSE 0
    BY <1>2, <2>1
  <2>3. d = FreshEvent => ~d.open /\ d.up = 0
    BY DEF FreshEvent
  <2> QED
    BY <1>1, <1>2, <2>2, <2>3 DEF Leads
<1> QED
  BY <1>3, <1>4

\* The debrief takes the home of the state for this event, or the event needs none.
HomeTold(s, h, e) == e \in HomeEvents => ~h.override /\ s.home # None /\ s.override = None

\* The verdict of the debrief is that of the state, or its buffers hold too few to trust what they did
\* live.
Retold(s, e, filled, verdict) ==
  \/ verdict = Check(s, e)
  \/ e \in HomeEvents /\ filled < Stable /\ filled # s.filled /\ verdict = "calm"

\* What the debrief takes from a row that was stored with a climb rate.
LEMMA StateStored ==
  ASSUME NEW d, d.filled \in Nat, NEW row \in SampleRows, row.state.climb, NEW h \in Homes,
         NEW s, s = row.state, NEW t, t = StateOf(d, row, h)
  PROVE  /\ RawPhase(t) = RawPhase(s) /\ t.at = s.at /\ t.filled = Filled(d.filled, s)
         /\ \A e \in Events : /\ HomeTold(s, h, e) /\ t.filled <= s.filled
                              /\ e \in WindowEvents => t.filled = s.filled
                              => Retold(s, e, t.filled, Check(t, e))
<1>1. PICK place : place = IF h.override \/ s.home = None THEN h.place ELSE s.home
  OBVIOUS
<1>2. s \in AircraftStates /\ [s EXCEPT !.motion = s.motion] = s
  BY DEF SampleRows, AircraftStates
<1>3. PICK filled \in Nat : filled = Filled(d.filled, s)
  BY <1>2, FilledType
<1>4. PICK alarms : alarms = Alarms(row, filled)
  OBVIOUS
<1>5. t = [s EXCEPT !.home = place, !.override = None, !.filled = filled, !.alarms = alarms]
  BY <1>1, <1>2, <1>3, <1>4 DEF StateOf
<1>6. /\ t.at = s.at /\ t.armed = s.armed /\ t.mode = s.mode /\ t.motion = s.motion
      /\ t.skipped = s.skipped /\ t.alarms = alarms /\ t.place = s.place /\ t.far = s.far
      /\ t.home = place /\ t.override = None /\ t.filled = filled
  BY <1>2, <1>5 DEF AircraftStates
<1>7. RawPhase(t) = RawPhase(s)
  BY <1>6 DEF RawPhase
<1>8. ASSUME NEW e \in Events, HomeTold(s, h, e), t.filled <= s.filled, e \in WindowEvents => t.filled = s.filled
      PROVE  Retold(s, e, t.filled, Check(t, e))
  <2>1. s.filled \in Nat /\ Stable \in Nat
    BY <1>2, FlightLogConstants DEF AircraftStates
  <2>2. CASE e \in t.skipped
    BY <1>6, <2>2 DEF Check, Retold
  <2>3. CASE e \notin t.skipped /\ e \in HomeEvents
    <3>1. place = s.home /\ s.override = None
      BY <1>1, <1>8, <2>3 DEF HomeTold
    <3>2. Home(t) = Home(s)
      BY <1>6, <3>1 DEF Home
    <3>3. CASE filled >= Stable \/ filled = s.filled
      <4>1. Condition(t, e) = Condition(s, e)
        BY <1>3, <1>6, <1>8, <2>1, <2>3, <3>2, <3>3 DEF Condition
      <4> QED
        BY <1>6, <4>1 DEF Check, Retold
    <3>4. CASE filled < Stable /\ filled # s.filled
      <4>1. ~Condition(t, e)
        BY <1>3, <1>6, <2>1, <2>3, <3>4 DEF Condition
      <4>2. Check(t, e) = "calm"
        BY <2>3, <4>1 DEF Check
      <4> QED
        BY <1>6, <2>3, <3>4, <4>2 DEF Retold
    <3> QED
      BY <1>3, <2>1, <3>3, <3>4
  <2>4. CASE e \notin t.skipped /\ e \notin HomeEvents
    <3>1. e \in alarms <=> e \in s.alarms
      BY <1>4, <1>6, <1>8 DEF Alarms
    <3>2. Condition(t, e) = Condition(s, e)
      BY <1>6, <2>4, <3>1 DEF Condition
    <3> QED
      BY <1>6, <3>2 DEF Check, Retold
  <2> QED
    BY <2>2, <2>3, <2>4
<1> QED
  BY <1>3, <1>6, <1>7, <1>8

\* What the debrief finds in one more row of its session.
LEMMA NextRow ==
  ASSUME NEW q \in Seq(SampleRows), NEW id, NEW h \in Homes, NEW n \in Nat, n < Len(q),
         q[n + 1].session = id, q[n + 1].state.climb
  PROVE  LET d == Debriefs(q, id, h)[n] new == Debriefs(q, id, h)[n + 1] s == q[n + 1].state IN
         /\ new.phase = Classify(d.phase, RawPhase(s))
         /\ \A e \in Events : \E verdict \in {"alarm", "calm", "skip"} :
              /\ new.event[e] = Judge(d.event[e], verdict, s.at)
              /\ e \in new.occurred => e \in d.occurred \/ new.event[e].open
              /\ /\ HomeTold(s, h, e) /\ new.filled <= s.filled
                 /\ e \in WindowEvents => new.filled = s.filled
                 => Retold(s, e, new.filled, verdict)
<1>1. n + 1 \in 0..Len(q) /\ n + 1 # 0 /\ (n + 1) - 1 = n /\ q[n + 1] \in SampleRows
  OBVIOUS
<1>2. Debriefs(q, id, h)[n + 1] = DebriefSample(Debriefs(q, id, h)[n], q[n + 1], h)
  <2>1. Debriefs(q, id, h)[n + 1] = NextDebrief(Debriefs(q, id, h), q, id, h, n + 1)
    BY <1>1, DebriefsStep
  <2> QED
    BY <1>1, <2>1 DEF NextDebrief
<1>3. PICK d, new, s, t : /\ d = Debriefs(q, id, h)[n] /\ new = Debriefs(q, id, h)[n + 1]
                          /\ s = q[n + 1].state /\ t = StateOf(d, q[n + 1], h)
  OBVIOUS
<1>4. d.filled \in Nat
  BY <1>3, DebriefsType DEF Debriefing
<1>5. /\ RawPhase(t) = RawPhase(s) /\ t.at = s.at
      /\ \A e \in Events : /\ HomeTold(s, h, e) /\ t.filled <= s.filled
                           /\ e \in WindowEvents => t.filled = s.filled
                           => Retold(s, e, t.filled, Check(t, e))
  <2>1. PICK row \in SampleRows : row = q[n + 1]
    BY <1>1
  <2> QED
    BY <1>3, <1>4, <2>1, StateStored
<1>6. PICK evs : evs = Evaluate(d.event, t, t.at)
  OBVIOUS
<1>7. new = [phase |-> Classify(d.phase, RawPhase(t)), event |-> evs,
             occurred |-> d.occurred \cup OpenIn(evs), prev |-> {q[n + 1]}, filled |-> t.filled]
  BY Zenon, <1>2, <1>3, <1>6 DEF DebriefSample
<1>8. /\ new.phase = Classify(d.phase, RawPhase(s)) /\ new.event = evs /\ new.filled = t.filled
      /\ new.occurred = d.occurred \cup OpenIn(evs)
  BY <1>5, <1>7
<1>9. ASSUME NEW e \in Events
      PROVE  \E verdict \in {"alarm", "calm", "skip"} :
               /\ new.event[e] = Judge(d.event[e], verdict, s.at)
               /\ e \in new.occurred => e \in d.occurred \/ new.event[e].open
               /\ /\ HomeTold(s, h, e) /\ new.filled <= s.filled
                  /\ e \in WindowEvents => new.filled = s.filled
                  => Retold(s, e, new.filled, verdict)
  <2>1. PICK verdict \in {"alarm", "calm", "skip"} : verdict = Check(t, e)
    BY DEF Check
  <2>2. new.event[e] = Judge(d.event[e], verdict, s.at)
    BY <1>5, <1>6, <1>8, <2>1 DEF Evaluate
  <2>3. e \in new.occurred => e \in d.occurred \/ new.event[e].open
    BY <1>8 DEF OpenIn
  <2> QED
    BY <1>5, <1>8, <2>1, <2>2, <2>3
<1> QED
  BY <1>3, <1>8, <1>9

\* The buffers of a debrief after one more row of its session, and the events that need the way home: one
\* that opens does so with enough states in them.
LEMMA NextFilled ==
  ASSUME NEW q \in Seq(SampleRows), NEW id, NEW h \in Homes, NEW n \in Nat, n < Len(q),
         q[n + 1].session = id
  PROVE  LET d == Debriefs(q, id, h)[n] new == Debriefs(q, id, h)[n + 1] IN
         /\ d.filled \in Nat /\ new.filled = Filled(d.filled, q[n + 1].state)
         /\ \A e \in HomeEvents : new.event[e].open => d.event[e].open \/ new.filled >= Stable
<1>1. n + 1 \in 0..Len(q) /\ n + 1 # 0 /\ (n + 1) - 1 = n
  OBVIOUS
<1>2. Debriefs(q, id, h)[n + 1] = DebriefSample(Debriefs(q, id, h)[n], q[n + 1], h)
  <2>1. Debriefs(q, id, h)[n + 1] = NextDebrief(Debriefs(q, id, h), q, id, h, n + 1)
    BY <1>1, DebriefsStep
  <2> QED
    BY <1>1, <2>1 DEF NextDebrief
<1>3. PICK row \in SampleRows : row = q[n + 1]
  OBVIOUS
<1>4. PICK d, new, t : /\ d = Debriefs(q, id, h)[n] /\ new = Debriefs(q, id, h)[n + 1]
                       /\ t = StateOf(d, row, h)
  OBVIOUS
<1>5. Debriefing(d)
  BY <1>4, DebriefsType
<1>6. t.filled = Filled(d.filled, row.state)
  <2>1. PICK s \in AircraftStates : s = row.state
    BY DEF SampleRows
  <2>2. PICK motion, home, alarms, filled :
          /\ t = [s EXCEPT !.motion = motion, !.home = home, !.override = None, !.filled = filled,
                           !.alarms = alarms]
          /\ filled = Filled(d.filled, s)
    BY <1>4, <2>1 DEF StateOf
  <2> QED
    BY <2>1, <2>2 DEF AircraftStates
<1>7. PICK evs : evs = Evaluate(d.event, t, t.at)
  OBVIOUS
<1>8. new = [phase |-> Classify(d.phase, RawPhase(t)), event |-> evs,
             occurred |-> d.occurred \cup OpenIn(evs), prev |-> {row}, filled |-> t.filled]
  BY Zenon, <1>2, <1>3, <1>4, <1>7 DEF DebriefSample
<1>9. new.event = evs /\ new.filled = t.filled
  BY <1>8
<1>10. ASSUME NEW e \in HomeEvents, ~d.event[e].open, ~(t.filled >= Stable)
       PROVE  ~evs[e].open
  <2>1. e \in Events
    BY FlightLogConstants
  <2>2. PICK ev \in EventMemory : ev = d.event[e] /\ ~ev.open
    BY <1>5, <1>10, <2>1 DEF Debriefing
  <2>3. PICK verdict : verdict = Check(t, e) /\ verdict # "alarm"
    BY <1>10 DEF Check, Condition
  <2>4. Judge(ev, verdict, t.at) \in {[ev EXCEPT !.down = 0], [ev EXCEPT !.up = 0]}
    BY <2>2, <2>3 DEF Judge
  <2>5. ~[ev EXCEPT !.down = 0].open /\ ~[ev EXCEPT !.up = 0].open
    BY <2>2 DEF EventMemory
  <2>6. evs[e] = Judge(ev, verdict, t.at)
    BY <1>7, <2>1, <2>2, <2>3 DEF Evaluate
  <2> QED
    BY <2>4, <2>5, <2>6
<1> QED
  BY <1>3, <1>4, <1>5, <1>6, <1>9, <1>10 DEF Debriefing

\* The phase engine and that of the debrief after n rows, wherever they started: they know the same
\* run, and are the same once one was long enough.
PhasesAgree(ph, samples, id, h, n) ==
  LET found == Debriefs(samples, id, h)[n].phase IN
  /\ KnowsRun(ph, samples, id, n)
  /\ KnowsRun(found, samples, id, n)
  /\ SettledBy(samples, id, n) => found = ph

\* They do before the first row of the session.
LEMMA AgreeFresh ==
  ASSUME NEW q \in Seq(SampleRows), NEW id, NEW h, NEW n \in Nat, n <= Len(q),
         \A i \in 1..n : q[i].session # id, NEW ph, ph.hold < Enough
  PROVE  PhasesAgree(ph, q, id, h, n)
<1>1. Debriefs(q, id, h)[n].phase.hold < Enough
  <2>1. Debriefs(q, id, h)[n] = FreshDebrief
    BY DebriefsFresh
  <2> QED
    BY <2>1, EnoughType DEF FreshDebrief, FreshPhase
<1>2. \A i \in 1..n : ~Alike(q, id, i, n)
  BY DEF Alike
<1>3. ~SettledBy(q, id, n)
  <2>1. \A i \in 1..n : i \in i..i + Enough - 1
    BY EnoughType
  <2> QED
    BY <2>1 DEF SettledBy
<1> QED
  BY <1>1, <1>2, <1>3 DEF PhasesAgree, KnowsRun

\* What is stored behind the rows changes nothing.
LEMMA AgreeKept ==
  ASSUME NEW q \in Seq(SampleRows), NEW r \in Seq(SampleRows), NEW id, NEW h, NEW n \in Nat,
         n <= Len(q), n <= Len(r), \A i \in 1..n : r[i] = q[i], NEW ph, PhasesAgree(ph, q, id, h, n)
  PROVE  PhasesAgree(ph, r, id, h, n)
<1>1. Debriefs(r, id, h)[n] = Debriefs(q, id, h)[n]
  BY DebriefsKept
<1>2. \A i \in 1..n : Alike(r, id, i, n) => Alike(q, id, i, n) /\ r[i] = q[i]
  BY DEF Alike
<1>3. SettledBy(r, id, n) => SettledBy(q, id, n)
  <2> SUFFICES ASSUME NEW i \in 1..n,
                      \A k \in i..i + Enough - 1 :
                        k <= n /\ r[k].session = id /\ RawPhase(r[k].state) = RawPhase(r[i].state)
               PROVE  \A k \in i..i + Enough - 1 :
                        k <= n /\ q[k].session = id /\ RawPhase(q[k].state) = RawPhase(q[i].state)
    BY DEF SettledBy
  <2>1. \A k \in i..i + Enough - 1 : k <= n => k \in 1..n
    BY EnoughType
  <2> QED
    BY <2>1
<1>4. \A p : KnowsRun(p, q, id, n) => KnowsRun(p, r, id, n)
  BY <1>2 DEF KnowsRun
<1> QED
  BY <1>1, <1>3, <1>4 DEF PhasesAgree

\* And they agree when both have read one more row.
LEMMA AgreeNext ==
  ASSUME NEW q \in Seq(SampleRows), NEW id, NEW h \in Homes, NEW n \in Nat, n < Len(q),
         q[n + 1].session = id, q[n + 1].state.climb,
         NEW ph \in PhaseMemory, PhasesAgree(ph, q, id, h, n)
  PROVE  PhasesAgree(Classify(ph, RawPhase(q[n + 1].state)), q, id, h, n + 1)
<1>1. PICK found \in PhaseMemory : found = Debriefs(q, id, h)[n].phase
  BY DebriefsType DEF Debriefing
<1>2. /\ Debriefs(q, id, h)[n + 1].phase = Classify(found, RawPhase(q[n + 1].state))
      /\ RawPhase(q[n + 1].state) \in PhaseNames
  <2>1. q[n + 1] \in SampleRows
    OBVIOUS
  <2>2. RawPhase(q[n + 1].state) \in PhaseNames
    BY <2>1, RawPhaseType DEF SampleRows
  <2>3. Debriefs(q, id, h)[n + 1].phase = Classify(Debriefs(q, id, h)[n].phase, RawPhase(q[n + 1].state))
    BY NextRow
  <2> QED
    BY <1>1, <2>2, <2>3
<1>3. KnowsRun(ph, q, id, n) /\ KnowsRun(found, q, id, n) /\ (SettledBy(q, id, n) => found = ph)
  BY <1>1 DEF PhasesAgree
<1>4. /\ KnowsRun(Classify(ph, RawPhase(q[n + 1].state)), q, id, n + 1)
      /\ KnowsRun(Classify(found, RawPhase(q[n + 1].state)), q, id, n + 1)
  BY <1>3, KnowsNext
<1>5. SettledBy(q, id, n + 1) =>
        Classify(found, RawPhase(q[n + 1].state)) = Classify(ph, RawPhase(q[n + 1].state))
  BY <1>2, <1>3, <1>4, SameWhenSettled
<1> QED
  BY <1>2, <1>4, <1>5 DEF PhasesAgree

-----------------------------------------------------------------------------
\* Every state of the running session is stored, and judged once.
Faithful == slot # None /\ sessions[slot].exact

Climbing(samples, id) == \A i \in DOMAIN samples : samples[i].session = id => samples[i].state.climb

\* The home of every sample of the session is told for this event.
HomesTold(samples, id, h, e) ==
  \A i \in DOMAIN samples : samples[i].session = id => HomeTold(samples[i].state, h, e)

\* How many samples the phase engine has come to, and the event engine.
PhaseCome == IF tick \in {"wait", "sample"} THEN Len(rows.samples) ELSE Len(rows.samples) - 1
EventCome == IF tick \in {"wait", "sample", "phase"} THEN Len(rows.samples) ELSE Len(rows.samples) - 1

\* No hold is longer than is needed.
HoldsBack == phase.hold < Enough

\* What the recorders remember of a session whose states are all stored: the last one is that of the
\* tick, and the events that are open are tracked once one was judged.
SamplesInStep ==
  Faithful =>
    /\ tick \notin {"wait", "sample"} =>
         rows.samples # <<>> /\ rows.samples[Len(rows.samples)] = SampleRow(slot, state)
    /\ IF rec.eventSession = slot THEN OpenIn(event) \subseteq DOMAIN rec.open
       ELSE \A i \in 1..EventCome : rows.samples[i].session # slot

PhasesMatch ==
  Faithful /\ Climbing(rows.samples, slot) =>
    \A h \in Homes : PhasesAgree(phase, rows.samples, slot, h, PhaseCome)

EventAgrees(ev, e, d) == Leads(ev, d.event[e]) /\ (e \in d.occurred => ev.open)

EventsMatch ==
  Faithful /\ Climbing(rows.samples, slot) =>
    \A h \in Homes, e \in Events :
      HomesTold(rows.samples, slot, h, e) /\ (e \in WindowEvents => sessions[slot].alone) =>
      \/ \E r \in FlightEvents(rows, slot) : r.event = e
      \/ EventAgrees(event[e], e, Debriefs(rows.samples, slot, h)[EventCome])

\* How many states the buffers of the debrief hold when it has come to the state of the tick.
Fills(h) ==
  LET filled == Debriefs(rows.samples, slot, h)[Len(rows.samples)].filled
  IN IF tick = "sample" THEN Filled(filled, state) ELSE filled

\* They never hold more than the live ones, and as many when the session began with them empty.
FillsMatch ==
  /\ state.filled <= 1 + state.young /\ (tick = "sample" => state.filled >= 1)
  /\ Faithful => \A h \in Homes : /\ Fills(h) <= state.filled
                                  /\ sessions[slot].alone => Fills(h) = state.filled

\* An event that needs the way home is open in the debrief only when its buffers held enough.
OpensFilled ==
  Faithful => \A h \in Homes, e \in HomeEvents :
    LET d == Debriefs(rows.samples, slot, h)[EventCome]
    IN d.event[e].open => d.filled >= Stable \/ Fills(h) = state.filled

DebriefInv == HoldsBack /\ SamplesInStep /\ PhasesMatch /\ FillsMatch /\ OpensFilled /\ EventsMatch

\* A session that is faithful after a step was so before, and its sample was stored, or it begins.
LEMMA FaithfulStep ==
  ASSUME LogTypeOK, [LogNext]_logVars, Faithful'
  PROVE  \/ /\ SessionStart /\ tick \in {"wait", "sample"}
            /\ sessions'[slot'].alone => state.filled = IF tick = "wait" THEN 0 ELSE 1
         \/ /\ Faithful /\ slot' = slot /\ sessions' = sessions
            /\ \/ NewState \/ RecordPath \/ LogTransition \/ PersistEvents \/ PersistPhase
               \/ UNCHANGED logVars
               \/ Sample /\ rows'.samples = Append(rows.samples, SampleRow(slot, state))
<1>1. sessions \in Seq(SessionRows) /\ slot \in 0..Len(sessions)
  BY DEF LogTypeOK
<1>2. slot # None => slot \in DOMAIN sessions
  BY SlotType
<1>3. ASSUME slot' = slot, sessions' = Inexact PROVE FALSE
  <2>1. slot # None
    BY <1>3 DEF Faithful
  <2>2. PICK s \in SessionRows : s = sessions[slot]
    BY <1>1, <1>2, <2>1
  <2>3. sessions'[slot] = [s EXCEPT !.exact = FALSE]
    BY <1>1, <1>2, <1>3, <2>1, <2>2 DEF Inexact
  <2>4. ~sessions'[slot].exact
    BY <2>2, <2>3 DEF SessionRows
  <2> QED
    BY <1>3, <2>4 DEF Faithful
<1>4. ASSUME slot' = slot, sessions' = sessions PROVE Faithful
  BY <1>4 DEF Faithful
<1>5. CASE NewState \/ RecordPath \/ LogTransition \/ PersistEvents \/ PersistPhase \/ UNCHANGED logVars
  <2>1. slot' = slot /\ sessions' = sessions
    BY <1>5 DEF NewState, RecordPath, LogTransition, PersistEvents, PersistPhase, logVars
  <2> QED
    BY <1>4, <1>5, <2>1
<1>6. CASE Sample
  <2>1. slot' = slot /\ (sessions' = sessions \/ sessions' = Inexact)
    BY <1>6 DEF Sample
  <2>2. sessions' = sessions
    BY <1>3, <2>1
  <2>3. rows'.samples = Append(rows.samples, SampleRow(slot, state))
    <3>1. PICK t \in Tables : t = rows
      BY DEF LogTypeOK
    <3>2. slot # None /\ now - rec.sampled >= SampleInterval
      BY <1>3, <1>6, <2>1 DEF Sample
    <3>3. rows' = [t EXCEPT !.samples = @ \o <<SampleRow(slot, state)>>]
      BY <1>6, <3>1, <3>2 DEF Sample, Insert
    <3> QED
      BY <3>1, <3>3 DEF Tables
  <2> QED
    BY <1>4, <1>6, <2>1, <2>2, <2>3
<1>7. CASE AskSummary \/ AnswerSummary
  BY <1>3, <1>7 DEF AskSummary, AnswerSummary
<1>8. CASE SessionStart
  <2>1. PICK s : /\ s = [start |-> now, open |-> OpenIn(event), place |-> rec.place,
                         seen |-> [event |-> rec.eventSession = None, phase |-> rec.phaseSession = None],
                         exact |-> tick \in {"wait", "sample"},
                         alone |-> state.filled = IF tick = "wait" THEN 0 ELSE 1]
                 /\ sessions' = Append(sessions, s) /\ slot' = Len(sessions) + 1
    BY <1>8 DEF SessionStart
  <2>2. sessions'[slot'] = s
    BY <1>1, <2>1, AppendElement
  <2>3. /\ s.exact = (tick \in {"wait", "sample"})
        /\ s.alone => state.filled = IF tick = "wait" THEN 0 ELSE 1
    BY <2>1
  <2> QED
    BY <1>8, <2>2, <2>3 DEF Faithful
<1>9. CASE SessionStop
  BY <1>9 DEF SessionStop, Faithful
<1> QED
  BY <1>5, <1>6, <1>7, <1>8, <1>9 DEF LogNext

\* A phase is never held for longer than is needed.
LEMMA HoldsBackStep == LogTypeOK /\ HoldsBack /\ [LogNext]_logVars => HoldsBack'
<1> SUFFICES ASSUME LogTypeOK, HoldsBack, [LogNext]_logVars PROVE HoldsBack'
  OBVIOUS
<1>1. CASE NewState
  BY <1>1 DEF NewState, HoldsBack
<1>2. CASE ~NewState
  <2>1. PICK kinds : phase' = IF "phase" \in kinds THEN Classify(phase, RawPhase(state)) ELSE phase
    BY <1>2, EnginesStep
  <2>2. PICK p \in PhaseMemory : p = phase /\ p.hold \in Nat /\ p.hold < Enough
    BY FlightLogConstants DEF LogTypeOK, PhaseMemory, HoldsBack
  <2>3. \A raw : Classify(p, raw).hold < Enough
    <3> SUFFICES ASSUME NEW raw PROVE Classify(p, raw).hold < Enough
      OBVIOUS
    <3>1. PICK new : new = Classify(p, raw)
      OBVIOUS
    <3>2. new.hold = 0 \/ new.hold = 1 \/ (new.hold = p.hold + 1 /\ new.hold < Hold)
      BY <3>1, ClassifyCounts
    <3> QED
      BY <2>2, <3>1, <3>2, EnoughType, FlightLogConstants
  <2> QED
    BY <2>1, <2>2, <2>3 DEF HoldsBack
<1> QED
  BY <1>1, <1>2

\* The sample that is stored comes behind the others.
LEMMA SampleStored ==
  ASSUME LogTypeOK, rows'.samples = Append(rows.samples, SampleRow(slot, state))
  PROVE  /\ rows'.samples # <<>>
         /\ Len(rows'.samples) = Len(rows.samples) + 1
         /\ rows'.samples[Len(rows'.samples)] = SampleRow(slot, state)
         /\ \A i \in 1..Len(rows.samples) : rows'.samples[i] = rows.samples[i]
<1>1. PICK q \in Seq(SampleRows) : q = rows.samples
  BY PathTypes
<1>2. PICK row : row = SampleRow(slot, state)
  OBVIOUS
<1> QED
  BY <1>1, <1>2

\* A session that begins has no samples, and none of its events is tracked.
LEMMA NothingStored ==
  ASSUME LogTypeOK, PathTimes, EventTimes, SessionStart
  PROVE  /\ slot' \in Nat /\ rows'.samples = rows.samples
         /\ \A i \in DOMAIN rows.samples : rows.samples[i].session # slot'
         /\ rec'.eventSession # slot'
<1>1. slot' = Len(sessions) + 1 /\ rows' = rows /\ rec' = rec
  BY DEF SessionStart
<1>2. Len(sessions) \in Nat /\ rec.eventSession \in Nat
  BY EventTypes
<1>3. \A i \in DOMAIN rows.samples : rows.samples[i].session \in Nat
  <2>1. \A i \in DOMAIN rows.samples : rows.samples[i] \in SampleRows
    BY PathTypes
  <2> QED
    BY <2>1 DEF SampleRows
<1> QED
  BY <1>1, <1>2, <1>3 DEF PathTimes, EventTimes

\* How far the engines have come after a step of a faithful session.
LEMMA ComeStep ==
  ASSUME LogTypeOK, SamplesInStep, [LogNext]_logVars, Faithful, slot' = slot,
         \/ NewState \/ RecordPath \/ LogTransition \/ PersistEvents \/ PersistPhase
         \/ UNCHANGED logVars
         \/ Sample /\ rows'.samples = Append(rows.samples, SampleRow(slot, state))
  PROVE  /\ PhaseCome \in Nat /\ PhaseCome <= Len(rows.samples)
         /\ EventCome \in Nat /\ EventCome <= Len(rows.samples)
         /\ PhaseCome' = IF PersistPhase THEN PhaseCome + 1 ELSE PhaseCome
         /\ EventCome' = IF PersistEvents THEN EventCome + 1 ELSE EventCome
         /\ PersistPhase => PhaseCome + 1 = Len(rows.samples)
         /\ PersistEvents => EventCome + 1 = Len(rows.samples)
         /\ ~Sample => rows'.samples = rows.samples
<1>1. PICK len \in Nat : len = Len(rows.samples) /\ (rows.samples # <<>> => len > 0)
  BY PathTypes
<1>2. tick \notin {"wait", "sample"} => len > 0
  BY <1>1 DEF SamplesInStep
<1>3. ~Sample => rows'.samples = rows.samples
  BY SamplesStep
<1>4. CASE NewState
  <2>1. tick = "wait" /\ tick' = "sample"
    BY <1>4 DEF NewState
  <2> QED
    BY <1>1, <1>3, <2>1 DEF Sample, PersistPhase, PersistEvents, PhaseCome, EventCome
<1>5. CASE RecordPath \/ LogTransition
  BY <1>1, <1>2, <1>3, <1>5 DEF RecordPath, LogTransition, Sample, PersistPhase, PersistEvents,
     PhaseCome, EventCome
<1>6. CASE PersistEvents
  BY <1>1, <1>2, <1>3, <1>6 DEF PersistEvents, Sample, PersistPhase, PhaseCome, EventCome
<1>7. CASE PersistPhase
  BY <1>1, <1>2, <1>3, <1>7 DEF PersistPhase, Sample, PersistEvents, PhaseCome, EventCome
<1>8. CASE Sample /\ rows'.samples = Append(rows.samples, SampleRow(slot, state))
  <2>1. Len(rows'.samples) = len + 1
    BY <1>1, <1>8, SampleStored
  <2> QED
    BY <1>1, <1>8, <2>1 DEF PersistPhase, Sample, PersistEvents, PhaseCome, EventCome
<1>9. CASE UNCHANGED logVars
  <2>1. UNCHANGED <<tick, rows>> /\ ~PersistPhase /\ ~PersistEvents
    BY <1>9 DEF logVars, PersistPhase, PersistEvents
  <2>2. tick \in {"wait", "sample", "path", "status", "event", "phase"}
    BY DEF LogTypeOK
  <2> QED
    BY <1>1, <1>2, <2>1, <2>2 DEF PhaseCome, EventCome
<1> QED
  BY <1>4, <1>5, <1>6, <1>7, <1>8, <1>9

\* The phase engines agree after a step.
LEMMA PhasesMatchStep ==
  ASSUME LogTypeOK, PathTimes, EventTimes, HoldsBack, SamplesInStep, PhasesMatch, [LogNext]_logVars
  PROVE  PhasesMatch'
<1> SUFFICES ASSUME Faithful', Climbing(rows'.samples, slot'), NEW h \in Homes
             PROVE  PhasesAgree(phase', rows'.samples, slot', h, PhaseCome')
  BY DEF PhasesMatch
<1>1. PICK q \in Seq(SampleRows) : q = rows.samples
  BY PathTypes
<1>2. CASE SessionStart /\ tick \in {"wait", "sample"}
  <2>1. PhaseCome' = Len(q) /\ phase' = phase /\ rows'.samples = q
    BY <1>1, <1>2 DEF SessionStart, PhaseCome
  <2>2. \A i \in 1..Len(q) : q[i].session # slot'
    BY <1>1, <1>2, NothingStored
  <2> QED
    BY <2>1, <2>2, AgreeFresh DEF HoldsBack
<1>3. ASSUME Faithful, slot' = slot, ~SessionStart,
             \/ NewState \/ RecordPath \/ LogTransition \/ PersistEvents \/ PersistPhase
             \/ UNCHANGED logVars
             \/ Sample /\ rows'.samples = Append(rows.samples, SampleRow(slot, state))
      PROVE  PhasesAgree(phase', rows'.samples, slot', h, PhaseCome')
  <2>1. PICK n \in Nat : /\ n = PhaseCome /\ n <= Len(q)
                         /\ PhaseCome' = IF PersistPhase THEN n + 1 ELSE n
                         /\ PersistPhase => n + 1 = Len(q)
                         /\ ~Sample => rows'.samples = q
    BY <1>1, <1>3, ComeStep
  <2>2. CASE Sample
    <3>1. /\ phase' = phase /\ PhaseCome' = n
      BY <2>1, <2>2 DEF Sample, PersistPhase
    <3>2. PICK r : r = rows'.samples
      OBVIOUS
    <3>3. r = Append(q, SampleRow(slot, state))
      BY <1>1, <1>3, <2>2, <3>2 DEF Sample, NewState, RecordPath, LogTransition, PersistEvents,
         PersistPhase, logVars
    <3>4. Len(r) = Len(q) + 1 /\ \A i \in 1..Len(q) : r[i] = q[i]
      BY <3>3
    <3>5. Climbing(q, slot)
      BY <1>3, <3>2, <3>3, <3>4 DEF Climbing
    <3>6. SampleRow(slot, state) \in SampleRows
      BY DEF SampleRow, SampleRows, LogTypeOK
    <3>7. r \in Seq(SampleRows) /\ n <= Len(r) /\ \A i \in 1..n : r[i] = q[i]
      BY <2>1, <3>3, <3>4, <3>6
    <3> QED
      BY <1>1, <1>3, <2>1, <3>1, <3>2, <3>5, <3>7, AgreeKept DEF PhasesMatch
  <2>3. CASE PersistPhase
    <3>1. slot # None /\ tick = "phase" /\ phase' = Classify(phase, RawPhase(state))
      BY <1>3, <2>3 DEF PersistPhase, Faithful
    <3>2. rows'.samples = q /\ PhaseCome' = n + 1 /\ n + 1 = Len(q)
      BY <2>1, <2>3, <3>1 DEF Sample
    <3>3. q[n + 1] = SampleRow(slot, state)
      BY <1>1, <1>3, <3>1, <3>2 DEF SamplesInStep
    <3>4. q[n + 1].session = slot /\ q[n + 1].state = state
      BY <3>3 DEF SampleRow
    <3>5. Climbing(q, slot) /\ q[n + 1].state.climb
      <4>1. n + 1 \in DOMAIN q
        BY <3>2
      <4> QED
        BY <1>3, <3>2, <3>4, <4>1 DEF Climbing
    <3>6. phase \in PhaseMemory /\ PhasesAgree(phase, q, slot, h, n)
      BY <1>1, <1>3, <2>1, <3>5 DEF PhasesMatch, LogTypeOK, PhaseMemory
    <3>7. PhasesAgree(Classify(phase, RawPhase(q[n + 1].state)), q, slot, h, n + 1)
      BY <1>1, <2>1, <3>2, <3>4, <3>5, <3>6, AgreeNext
    <3> QED
      BY <1>3, <3>1, <3>2, <3>4, <3>7
  <2>4. CASE ~Sample /\ ~PersistPhase
    <3>1. phase' = phase
      BY <1>3, <2>4 DEF NewState, RecordPath, LogTransition, PersistEvents, logVars
    <3> QED
      BY <1>1, <1>3, <2>1, <2>4, <3>1 DEF PhasesMatch
  <2> QED
    BY <2>2, <2>3, <2>4
<1>4. SessionStart => slot' # slot
  BY DEF SessionStart, LogTypeOK, None
<1> QED
  BY <1>2, <1>3, <1>4, FaithfulStep

\* And what is appended is behind the rest.
LEMMA ConcatBehind ==
  ASSUME NEW S, NEW t \in Seq(S), NEW new \in Seq(S), NEW i \in DOMAIN new
  PROVE  Len(t) + i \in DOMAIN (t \o new) /\ (t \o new)[Len(t) + i] = new[i]
OBVIOUS

\* A tracked event that closes is stored for the session.
LEMMA EventsStored ==
  ASSUME LogTypeOK, PersistEvents, slot # None, NEW e \in DOMAIN rec.open, ~event'[e].open
  PROVE  \E r \in FlightEvents(rows', slot) : r.event = e
<1>1. PICK t \in Tables : t = rows
  BY DEF LogTypeOK
<1>2. PICK judged : judged = Evaluate(event, state, now) /\ event' = judged
  BY DEF PersistEvents
<1>3. PICK ended : ended = DOMAIN rec.open \ OpenIn(judged)
  OBVIOUS
<1>4. PICK new : new = EndedRows(slot, ended)
  OBVIOUS
<1>5. /\ new \in Seq(EventRows)
      /\ \A k \in ended : \E i \in DOMAIN new : new[i] = EventRow(slot, k, rec.open[k], now)
  <2>1. ended \in SUBSET DOMAIN rec.open /\ slot \in Nat
    BY <1>3, EventTypes
  <2> QED
    BY <1>4, <2>1, StoredEvents DEF EventRows
<1>6. rows'.events = t.events \o new /\ t.events \in Seq(EventRows)
  <2>1. rows' = [t EXCEPT !.events = @ \o new]
    BY <1>1, <1>2, <1>3, <1>4 DEF PersistEvents, Insert
  <2> QED
    BY <1>1, <2>1, EventTypes DEF Tables
<1>7. e \in ended
  BY <1>2, <1>3 DEF OpenIn
<1>8. PICK i \in DOMAIN new : new[i].session = slot /\ new[i].event = e
  BY <1>5, <1>7 DEF EventRow
<1>9. \E k \in DOMAIN rows'.events : rows'.events[k] = new[i]
  <2>1. Len(t.events) + i \in DOMAIN (t.events \o new) /\ (t.events \o new)[Len(t.events) + i] = new[i]
    BY <1>5, <1>6, <1>8, ConcatBehind
  <2> QED
    BY <1>6, <2>1
<1>10. new[i] \in ToSet(rows'.events)
  BY <1>9 DEF ToSet
<1> QED
  BY <1>8, <1>10 DEF FlightEvents

\* What is stored of the events of a session stays.
LEMMA EventsKept ==
  ASSUME LogTypeOK, [LogNext]_logVars, NEW id, NEW r \in FlightEvents(rows, id)
  PROVE  r \in FlightEvents(rows', id)
<1>1. PICK q \in Seq(EventRows), new \in Seq(EventRows) : q = rows.events /\ rows'.events = q \o new
  <2>1. rows.events \in Seq(EventRows) /\ <<>> \in Seq(EventRows)
    BY EventTypes
  <2>2. CASE PersistEvents
    <3>1. PICK new \in Seq(EventRows) : rows'.events = rows.events \o new
      BY <2>2, EventsTouched DEF EventRows
    <3> QED
      BY <2>1, <3>1
  <2>3. CASE ~PersistEvents
    <3>1. rows'.events = rows.events /\ rows.events \o <<>> = rows.events
      BY <2>1, <2>3, EventsUntouched
    <3> QED
      BY <2>1, <3>1
  <2> QED
    BY <2>2, <2>3
<1>2. PICK i \in DOMAIN q : q[i] = r /\ r.session = id
  BY <1>1 DEF FlightEvents, ToSet
<1>3. i \in DOMAIN (q \o new) /\ (q \o new)[i] = r
  BY <1>2
<1> QED
  BY <1>1, <1>2, <1>3 DEF FlightEvents, ToSet

\* Before the first sample is read, an event of the debrief is a fresh one.
LEMMA EventFresh ==
  ASSUME NEW e \in Events, NEW ev \in EventMemory
  PROVE  /\ FreshDebrief.event[e] = FreshEvent /\ FreshDebrief.occurred = {}
         /\ EventAgrees(ev, e, FreshDebrief)
<1>1. ev.up \in Nat
  BY FlightLogConstants DEF EventMemory
<1> QED
  BY <1>1 DEF FreshDebrief, FreshEvent, EventAgrees, Leads

\* A new state, and what the buffers hold with it.
LEMMA NewStateFilled ==
  ASSUME LogTypeOK, NewState
  PROVE  \E s \in AircraftStates : /\ state'.young = s.young /\ state' \in AircraftStates
                                   /\ state'.filled = Filled(state.filled, s)
                                   /\ \A n : Filled(n, state') = Filled(n, s)
<1>1. PICK s \in States, g \in Gaps : state' = [s EXCEPT !.at = now + g, !.filled = Filled(state.filled, s)]
  BY Zenon DEF NewState
<1>2. s \in AircraftStates
  BY FlightLogConstants
<1>3. state'.young = s.young /\ state'.filled = Filled(state.filled, s)
  BY <1>1, <1>2 DEF AircraftStates
<1>4. state' \in AircraftStates
  BY NewStateType DEF LogTypeOK
<1> QED
  BY <1>2, <1>3, <1>4 DEF Filled

\* What that says of one home.
LEMMA FillsOf ==
  ASSUME FillsMatch, Faithful, NEW h \in Homes
  PROVE  Fills(h) <= state.filled /\ (sessions[slot].alone => Fills(h) = state.filled)
BY Zenon DEF FillsMatch

\* How a step of a session whose states are stored fills them.
LEMMA FillsStep ==
  ASSUME LogTypeOK, [LogNext]_logVars, slot' = slot, NEW h \in Homes, Fills(h) <= state.filled,
         \/ NewState \/ RecordPath \/ LogTransition \/ PersistEvents \/ PersistPhase
         \/ UNCHANGED logVars
         \/ Sample /\ rows'.samples = Append(rows.samples, SampleRow(slot, state))
  PROVE  /\ Fills(h)' <= state'.filled /\ (Fills(h) = state.filled => Fills(h)' = state'.filled)
         /\ \A n \in 0..Len(rows.samples) :
              Debriefs(rows'.samples, slot, h)[n] = Debriefs(rows.samples, slot, h)[n]
<1>1. PICK q \in Seq(SampleRows) : q = rows.samples
  BY PathTypes
<1>2. PICK f \in Nat : f = Debriefs(q, slot, h)[Len(q)].filled
  <2>1. Len(q) \in Nat
    OBVIOUS
  <2> QED
    BY <2>1, DebriefsType DEF Debriefing
<1>3. Fills(h) = IF tick = "sample" THEN Filled(f, state) ELSE f
  BY <1>1, <1>2 DEF Fills
<1>4. CASE NewState
  <2>1. tick = "wait" /\ tick' = "sample" /\ rows' = rows
    BY <1>4 DEF NewState
  <2>2. PICK s \in AircraftStates : state'.filled = Filled(state.filled, s) /\ Filled(f, state') = Filled(f, s)
    BY <1>4, NewStateFilled
  <2>3. Fills(h)' = Filled(f, s)
    BY <1>1, <1>2, <2>1, <2>2 DEF Fills
  <2>4. Filled(f, s) <= Filled(state.filled, s)
    <3>1. state.filled \in Nat /\ f <= state.filled
      BY <1>3, <2>1 DEF LogTypeOK, AircraftStates
    <3> QED
      BY <3>1, FilledType
  <2> QED
    BY <1>1, <1>3, <2>1, <2>2, <2>3, <2>4
<1>5. CASE Sample /\ rows'.samples = Append(rows.samples, SampleRow(slot, state))
  <2>1. tick = "sample" /\ tick' = "path" /\ state' = state
    BY <1>5 DEF Sample
  <2>2. PICK r, row : r = rows'.samples /\ row = SampleRow(slot, state)
    OBVIOUS
  <2>3. row \in SampleRows /\ row.session = slot /\ row.state = state
    BY <2>2 DEF SampleRow, SampleRows, LogTypeOK
  <2>4. PICK n \in Nat : n = Len(q)
    OBVIOUS
  <2>5. /\ r \in Seq(SampleRows) /\ Len(r) = n + 1 /\ r[n + 1] = row
        /\ \A i \in 1..n : r[i] = q[i]
    BY <1>1, <1>5, <2>2, <2>3, <2>4
  <2>6. ASSUME NEW m \in 0..n
        PROVE  Debriefs(r, slot, h)[m] = Debriefs(q, slot, h)[m]
    <3>1. m \in Nat /\ m <= Len(q) /\ m <= Len(r) /\ \A i \in 1..m : r[i] = q[i]
      BY <2>4, <2>5
    <3> QED
      BY <2>5, <3>1, DebriefsKept
  <2>7. Debriefs(r, slot, h)[n + 1].filled = Filled(Debriefs(r, slot, h)[n].filled, r[n + 1].state)
    <3>1. n < Len(r) /\ r[n + 1].session = slot
      BY <2>3, <2>5
    <3> QED
      BY <2>5, <3>1, NextFilled
  <2>8. Debriefs(r, slot, h)[n + 1].filled = Filled(f, state)
    BY <1>2, <2>3, <2>4, <2>5, <2>6, <2>7
  <2>9. Fills(h)' = Filled(f, state)
    BY <2>1, <2>2, <2>5, <2>8 DEF Fills
  <2> QED
    BY <1>1, <1>3, <2>1, <2>2, <2>4, <2>6, <2>9
<1>6. CASE \/ RecordPath \/ LogTransition \/ PersistEvents \/ PersistPhase \/ UNCHANGED logVars
  <2>1. rows'.samples = rows.samples /\ state' = state /\ (tick' = "sample" <=> tick = "sample")
    <3>1. ~Sample \/ rows' = rows
      BY <1>6 DEF Sample, RecordPath, LogTransition, PersistEvents, PersistPhase, logVars
    <3>2. rows'.samples = rows.samples
      BY <3>1, SamplesStep
    <3> QED
      BY <1>6, <3>2 DEF RecordPath, LogTransition, PersistEvents, PersistPhase, logVars
  <2>2. Fills(h)' = Fills(h)
    BY <2>1 DEF Fills
  <2> QED
    BY <2>1, <2>2
<1> QED
  BY <1>4, <1>5, <1>6

\* The buffers of the debrief stay with those of the states.
LEMMA FillsMatchStep ==
  ASSUME LogTypeOK, PathTimes, EventTimes, FillsMatch, [LogNext]_logVars
  PROVE  FillsMatch'
<1>1. state \in AircraftStates /\ state.filled \in Nat /\ state.young \in Nat
  BY DEF LogTypeOK, AircraftStates
<1>2. ~NewState => state' = state /\ (tick' = "sample" => tick = "sample")
  BY DEF LogNext, Sample, RecordPath, LogTransition, PersistEvents, PersistPhase, AskSummary,
     AnswerSummary, SessionStart, SessionStop, logVars
<1>3. state'.filled <= 1 + state'.young /\ (tick' = "sample" => state'.filled >= 1)
  <2>1. CASE NewState
    <3>1. PICK s \in AircraftStates : state'.young = s.young /\ state'.filled = Filled(state.filled, s)
      BY <2>1, NewStateFilled
    <3> QED
      BY <1>1, <3>1, FilledType
  <2>2. CASE ~NewState
    BY <1>2, <2>2 DEF FillsMatch
  <2> QED
    BY <2>1, <2>2
<1> SUFFICES ASSUME Faithful', NEW h \in Homes
             PROVE  Fills(h)' <= state'.filled /\ (sessions'[slot'].alone => Fills(h)' = state'.filled)
  BY <1>3 DEF FillsMatch
<1>4. PICK q \in Seq(SampleRows) : q = rows.samples
  BY PathTypes
<1>5. CASE /\ SessionStart /\ tick \in {"wait", "sample"}
           /\ sessions'[slot'].alone => state.filled = IF tick = "wait" THEN 0 ELSE 1
  <2>1. rows'.samples = q /\ tick' = tick /\ state' = state
    BY <1>4, <1>5 DEF SessionStart
  <2>2. \A i \in 1..Len(q) : q[i].session # slot'
    BY <1>4, <1>5, NothingStored
  <2>3. Debriefs(q, slot', h)[Len(q)] = FreshDebrief
    BY <2>2, DebriefsFresh
  <2>4. Fills(h)' = IF tick = "sample" THEN Filled(0, state) ELSE 0
    BY <2>1, <2>3 DEF Fills, FreshDebrief
  <2>5. Filled(0, state) = 1
    BY <1>1 DEF Filled
  <2>6. tick = "sample" => state.filled >= 1
    BY DEF FillsMatch
  <2> QED
    BY <1>1, <1>5, <2>1, <2>4, <2>5, <2>6
<1>6. ASSUME Faithful, slot' = slot, sessions' = sessions,
             \/ NewState \/ RecordPath \/ LogTransition \/ PersistEvents \/ PersistPhase
             \/ UNCHANGED logVars
             \/ Sample /\ rows'.samples = Append(rows.samples, SampleRow(slot, state))
      PROVE  Fills(h)' <= state'.filled /\ (sessions'[slot'].alone => Fills(h)' = state'.filled)
  <2>1. Fills(h) <= state.filled /\ (sessions[slot].alone => Fills(h) = state.filled)
    BY <1>6, FillsOf
  <2> QED
    BY <1>6, <2>1, FillsStep
<1> QED
  BY <1>5, <1>6, FaithfulStep

\* With one more state in the buffers they hold enough if they did, or as many as the live ones.
LEMMA FilledEnough ==
  ASSUME NEW s \in AircraftStates, s.filled <= 1 + s.young, NEW n \in Nat, Filled(n, s) <= s.filled, n >= Stable
  PROVE  Filled(n, s) >= Stable \/ Filled(n, s) = s.filled
<1>1. s.filled \in Nat /\ s.young \in Nat /\ Stable \in Nat
  BY FlightLogConstants DEF AircraftStates
<1> QED
  BY <1>1, FilledType

\* An event of the way home stays closed in the debrief until its buffers hold enough.
LEMMA OpensFilledStep ==
  ASSUME LogTypeOK, PathTimes, EventTimes, SamplesInStep, FillsMatch, OpensFilled, [LogNext]_logVars
  PROVE  OpensFilled'
<1> SUFFICES ASSUME Faithful', NEW h \in Homes, NEW e \in HomeEvents,
                    Debriefs(rows'.samples, slot', h)[EventCome'].event[e].open
             PROVE  \/ Debriefs(rows'.samples, slot', h)[EventCome'].filled >= Stable
                    \/ Fills(h)' = state'.filled
  BY DEF OpensFilled
<1>1. PICK q \in Seq(SampleRows) : q = rows.samples
  BY PathTypes
<1>2. CASE SessionStart /\ tick \in {"wait", "sample"}
  <2>1. EventCome' = Len(q) /\ rows'.samples = q
    BY <1>1, <1>2 DEF SessionStart, EventCome
  <2>2. \A i \in 1..Len(q) : q[i].session # slot'
    BY <1>1, <1>2, NothingStored
  <2>3. Debriefs(q, slot', h)[Len(q)] = FreshDebrief
    BY <2>2, DebriefsFresh
  <2>4. e \in Events
    BY FlightLogConstants
  <2>5. ~FreshDebrief.event[e].open
    BY <2>4 DEF FreshDebrief, FreshEvent
  <2> QED
    BY <2>1, <2>3, <2>5
<1>3. ASSUME Faithful, slot' = slot, sessions' = sessions, ~SessionStart,
             \/ NewState \/ RecordPath \/ LogTransition \/ PersistEvents \/ PersistPhase
             \/ UNCHANGED logVars
             \/ Sample /\ rows'.samples = Append(rows.samples, SampleRow(slot, state))
      PROVE  \/ Debriefs(rows'.samples, slot', h)[EventCome'].filled >= Stable
             \/ Fills(h)' = state'.filled
  <2>1. PICK n \in Nat : /\ n = EventCome /\ n <= Len(q)
                         /\ EventCome' = IF PersistEvents THEN n + 1 ELSE n
                         /\ PersistEvents => n + 1 = Len(q)
                         /\ ~Sample => rows'.samples = q
    BY <1>1, <1>3, ComeStep
  <2>2. PICK d : d = Debriefs(q, slot, h)[n]
    OBVIOUS
  <2>3. d.event[e].open => d.filled >= Stable \/ Fills(h) = state.filled
    BY <1>1, <1>3, <2>1, <2>2 DEF OpensFilled
  <2>4. /\ Fills(h) = state.filled => Fills(h)' = state'.filled
        /\ Debriefs(rows'.samples, slot, h)[n] = d
    <3>1. Fills(h) <= state.filled /\ n \in 0..Len(rows.samples)
      BY <1>1, <1>3, <2>1, FillsOf
    <3> QED
      BY <1>1, <1>3, <2>2, <3>1, FillsStep
  <2>5. CASE PersistEvents
    <3>1. slot # None /\ tick = "event" /\ tick' = "phase" /\ state' = state
      BY <1>3, <2>5 DEF PersistEvents, Faithful
    <3>2. rows'.samples = q /\ EventCome' = n + 1 /\ n + 1 = Len(q)
      BY <2>1, <2>5, <3>1 DEF Sample
    <3>3. q[n + 1] = SampleRow(slot, state)
      BY <1>1, <1>3, <3>1, <3>2 DEF SamplesInStep
    <3>4. q[n + 1].session = slot /\ q[n + 1].state = state /\ n < Len(q)
      BY <3>2, <3>3 DEF SampleRow
    <3>5. PICK new : new = Debriefs(q, slot, h)[n + 1]
      OBVIOUS
    <3>6. /\ d.filled \in Nat /\ new.filled = Filled(d.filled, state)
          /\ new.event[e].open => d.event[e].open \/ new.filled >= Stable
      BY <2>2, <3>4, <3>5, NextFilled
    <3>7. Fills(h) = new.filled /\ Fills(h)' = new.filled /\ Fills(h) <= state.filled
      BY <1>1, <1>3, <3>1, <3>2, <3>5, FillsOf DEF Fills
    <3>8. state \in AircraftStates /\ state.filled <= 1 + state.young
      BY DEF LogTypeOK, FillsMatch
    <3>9. d.filled >= Stable => new.filled >= Stable \/ new.filled = state.filled
      BY <3>6, <3>7, <3>8, FilledEnough
    <3> QED
      BY <1>3, <2>3, <3>1, <3>2, <3>5, <3>6, <3>7, <3>9
  <2>6. CASE ~PersistEvents
    BY <1>3, <2>1, <2>3, <2>4, <2>6
  <2> QED
    BY <2>5, <2>6
<1>4. SessionStart => slot' # slot
  BY DEF SessionStart, LogTypeOK, None
<1> QED
  BY <1>2, <1>3, <1>4, FaithfulStep

\* The event engines agree after a step, but for the events that are stored.
LEMMA EventsMatchStep ==
  ASSUME LogTypeOK, LogTypeOK', PathTimes, EventTimes, SamplesInStep, FillsMatch, OpensFilled, EventsMatch,
         [LogNext]_logVars
  PROVE  EventsMatch'
<1> SUFFICES ASSUME Faithful', Climbing(rows'.samples, slot'), NEW h \in Homes, NEW e \in Events,
                    HomesTold(rows'.samples, slot', h, e), e \in WindowEvents => sessions'[slot'].alone,
                    ~\E r \in FlightEvents(rows', slot') : r.event = e
             PROVE  EventAgrees(event'[e], e, Debriefs(rows'.samples, slot', h)[EventCome'])
  BY DEF EventsMatch
<1>1. PICK q \in Seq(SampleRows) : q = rows.samples
  BY PathTypes
<1>2. PICK live \in EventMemory : live = event[e]
  BY EventTypes
<1>3. CASE SessionStart /\ tick \in {"wait", "sample"}
  <2>1. EventCome' = Len(q) /\ event' = event /\ rows'.samples = q
    BY <1>1, <1>3 DEF SessionStart, EventCome
  <2>2. \A i \in 1..Len(q) : q[i].session # slot'
    BY <1>1, <1>3, NothingStored
  <2>3. Debriefs(q, slot', h)[Len(q)] = FreshDebrief
    BY <2>2, DebriefsFresh
  <2> QED
    BY <1>2, <2>1, <2>3, EventFresh
<1>4. ASSUME Faithful, slot' = slot, sessions' = sessions, ~SessionStart,
             \/ NewState \/ RecordPath \/ LogTransition \/ PersistEvents \/ PersistPhase
             \/ UNCHANGED logVars
             \/ Sample /\ rows'.samples = Append(rows.samples, SampleRow(slot, state))
      PROVE  EventAgrees(event'[e], e, Debriefs(rows'.samples, slot', h)[EventCome'])
  <2>1. PICK n \in Nat : /\ n = EventCome /\ n <= Len(q)
                         /\ EventCome' = IF PersistEvents THEN n + 1 ELSE n
                         /\ PersistEvents => n + 1 = Len(q)
                         /\ ~Sample => rows'.samples = q
    BY <1>1, <1>4, ComeStep
  <2>2. ASSUME Climbing(q, slot), HomesTold(q, slot, h, e)
        PROVE  EventAgrees(live, e, Debriefs(q, slot, h)[n])
    <3>1. ~\E r \in FlightEvents(rows, slot) : r.event = e
      BY <1>4, EventsKept
    <3> QED
      BY <1>1, <1>2, <1>4, <2>1, <2>2, <3>1 DEF EventsMatch
  <2>3. CASE Sample
    <3>1. event' = event /\ EventCome' = n
      BY <2>1, <2>3 DEF Sample, PersistEvents
    <3>2. PICK r : r = rows'.samples
      OBVIOUS
    <3>3. r = Append(q, SampleRow(slot, state))
      BY <1>1, <1>4, <2>3, <3>2 DEF Sample, NewState, RecordPath, LogTransition, PersistEvents,
         PersistPhase, logVars
    <3>4. Len(r) = Len(q) + 1 /\ \A i \in 1..Len(q) : r[i] = q[i]
      BY <3>3
    <3>5. Climbing(q, slot) /\ HomesTold(q, slot, h, e)
      BY <1>4, <3>2, <3>3, <3>4 DEF Climbing, HomesTold
    <3>6. SampleRow(slot, state) \in SampleRows
      BY DEF SampleRow, SampleRows, LogTypeOK
    <3>7. r \in Seq(SampleRows) /\ n <= Len(r) /\ \A i \in 1..n : r[i] = q[i]
      BY <2>1, <3>3, <3>4, <3>6
    <3>8. Debriefs(r, slot, h)[n] = Debriefs(q, slot, h)[n]
      BY <2>1, <3>7, DebriefsKept
    <3> QED
      BY <1>2, <1>4, <2>2, <3>1, <3>2, <3>5, <3>8
  <2>4. CASE PersistEvents
    <3>1. /\ slot # None /\ tick = "event" /\ event' = Evaluate(event, state, now)
          /\ rows'.samples = q /\ EventCome' = n + 1 /\ n + 1 = Len(q)
      BY <1>4, <2>1, <2>4 DEF PersistEvents, Faithful, Sample
    <3>2. q[n + 1] = SampleRow(slot, state)
      BY <1>1, <1>4, <3>1 DEF SamplesInStep
    <3>3. q[n + 1].session = slot /\ q[n + 1].state = state
      BY <3>2 DEF SampleRow
    <3>4. /\ Climbing(q, slot) /\ q[n + 1].state.climb
          /\ HomesTold(q, slot, h, e) /\ HomeTold(q[n + 1].state, h, e)
      <4>1. n + 1 \in DOMAIN q
        BY <3>1
      <4> QED
        BY <1>4, <3>1, <3>3, <4>1 DEF Climbing, HomesTold
    <3>5. PICK d, new : d = Debriefs(q, slot, h)[n] /\ new = Debriefs(q, slot, h)[n + 1]
      OBVIOUS
    <3>6. PICK verdict \in {"alarm", "calm", "skip"} :
            /\ new.event[e] = Judge(d.event[e], verdict, state.at)
            /\ e \in new.occurred => e \in d.occurred \/ new.event[e].open
            /\ new.filled <= state.filled /\ (e \in WindowEvents => new.filled = state.filled)
                 => Retold(state, e, new.filled, verdict)
      <4>1. n < Len(q)
        BY <3>1
      <4>2. LET new2 == Debriefs(q, slot, h)[n + 1] s == q[n + 1].state IN
            \E verdict \in {"alarm", "calm", "skip"} :
              /\ new2.event[e] = Judge(Debriefs(q, slot, h)[n].event[e], verdict, s.at)
              /\ e \in new2.occurred => e \in Debriefs(q, slot, h)[n].occurred \/ new2.event[e].open
              /\ /\ HomeTold(s, h, e) /\ new2.filled <= s.filled
                 /\ e \in WindowEvents => new2.filled = s.filled
                 => Retold(s, e, new2.filled, verdict)
        BY <2>1, <3>3, <3>4, <4>1, NextRow
      <4> QED
        BY <3>3, <3>4, <3>5, <4>2
    <3>7. Retold(state, e, new.filled, verdict)
      <4>1. Fills(h) = new.filled
        BY <1>1, <3>1, <3>5 DEF Fills
      <4> QED
        BY <1>4, <3>6, <4>1, FillsOf
    <3>8. PICK l, r : /\ l = Judge(live, Check(state, e), now) /\ r = Judge(d.event[e], verdict, state.at)
                      /\ event'[e] = l /\ new.event[e] = r
      BY <1>2, <3>1, <3>6 DEF Evaluate
    <3>9. EventAgrees(live, e, d)
      BY <2>2, <3>4, <3>5
    <3>10. d.event[e] \in EventMemory /\ now \in Nat /\ state.at \in Nat
      <4>1. Debriefing(d)
        BY <2>1, <3>5, DebriefsType
      <4> QED
        BY <4>1 DEF Debriefing, LogTypeOK
    <3>11. (live.open => l.open) \/ d = FreshDebrief
      <4>1. CASE rec.eventSession = slot
        <5>1. live.open => e \in DOMAIN rec.open
          BY <1>2, <1>4, <4>1 DEF SamplesInStep, OpenIn
        <5> QED
          BY <1>4, <2>4, <3>1, <3>8, <5>1, EventsStored
      <4>2. CASE rec.eventSession # slot
        <5>1. \A i \in 1..n : q[i].session # slot
          BY <1>1, <1>4, <2>1, <4>2 DEF SamplesInStep
        <5> QED
          BY <2>1, <3>5, <5>1, DebriefsFresh
      <4> QED
        BY <4>1, <4>2
    <3>12. Leads(l, r)
      <4>1. CASE verdict = Check(state, e)
        <5>1. (live.open => l.open) \/ d.event[e] = FreshEvent => Leads(l, r)
          BY <3>6, <3>8, <3>9, <3>10, <4>1, LeadsNext DEF EventAgrees
        <5> QED
          BY <1>2, <3>11, <5>1, EventFresh
      <4>2. CASE e \in HomeEvents /\ new.filled < Stable /\ new.filled # state.filled /\ verdict = "calm"
        <5>1. ~d.event[e].open
          <6>1. d.event[e].open => d.filled >= Stable \/ Fills(h) = state.filled
            BY <1>1, <1>4, <2>1, <3>5, <4>2 DEF OpensFilled
          <6>2. Fills(h) = new.filled /\ Fills(h) <= state.filled
            BY <1>1, <1>4, <3>1, <3>5, FillsOf DEF Fills
          <6>3. d.filled \in Nat /\ new.filled = Filled(d.filled, state)
            <7>1. n < Len(q)
              BY <3>1
            <7> QED
              BY <2>1, <3>3, <3>5, <7>1, NextFilled
          <6>4. state \in AircraftStates /\ state.filled <= 1 + state.young
            BY DEF LogTypeOK, FillsMatch
          <6>5. d.filled >= Stable => new.filled >= Stable \/ new.filled = state.filled
            BY <6>2, <6>3, <6>4, FilledEnough
          <6>6. new.filled \in Nat /\ Stable \in Nat
            BY <6>3, <6>4, FilledType, FlightLogConstants
          <6> QED
            BY <4>2, <6>1, <6>2, <6>5, <6>6
        <5>2. PICK ev \in EventMemory : ev = d.event[e] /\ ~ev.open
          BY <3>10, <5>1
        <5>3. r = [ev EXCEPT !.up = 0]
          BY <3>8, <4>2, <5>2 DEF Judge
        <5>4. ~r.open /\ r.up = 0
          BY <5>2, <5>3 DEF EventMemory
        <5>5. l.up \in Nat
          <6>1. l \in EventMemory
            BY <3>8, EventTypes DEF LogTypeOK, EventMemory
          <6> QED
            BY <6>1, FlightLogConstants DEF EventMemory
        <5> QED
          BY <5>4, <5>5 DEF Leads
      <4> QED
        BY <3>7, <4>1, <4>2 DEF Retold
    <3>13. e \in new.occurred => l.open
      <4>1. e \in d.occurred => l.open
        BY <1>2, <3>9, <3>11, EventFresh DEF EventAgrees
      <4>2. new.event[e].open => l.open
        BY <3>8, <3>12 DEF Leads
      <4> QED
        BY <3>6, <4>1, <4>2
    <3> QED
      BY <1>4, <3>1, <3>5, <3>8, <3>12, <3>13 DEF EventAgrees
  <2>5. CASE ~Sample /\ ~PersistEvents
    <3>1. event' = event
      BY <1>4, <2>5 DEF NewState, RecordPath, LogTransition, PersistPhase, logVars
    <3> QED
      BY <1>2, <1>4, <2>1, <2>2, <2>5, <3>1
  <2> QED
    BY <2>3, <2>4, <2>5
<1>5. SessionStart => slot' # slot
  BY DEF SessionStart, LogTypeOK, None
<1> QED
  BY <1>3, <1>4, <1>5, FaithfulStep

\* What the recorders remember is in step after a step.
LEMMA SamplesInStepStep ==
  ASSUME LogTypeOK, LogTypeOK', PathTimes, EventTimes, SamplesInStep, [LogNext]_logVars
  PROVE  SamplesInStep'
<1> SUFFICES ASSUME Faithful'
             PROVE  /\ tick' \notin {"wait", "sample"} =>
                         /\ rows'.samples # <<>>
                         /\ rows'.samples[Len(rows'.samples)] = SampleRow(slot', state')
                    /\ IF rec'.eventSession = slot' THEN OpenIn(event') \subseteq DOMAIN rec'.open
                       ELSE \A i \in 1..EventCome' : rows'.samples[i].session # slot'
  BY DEF SamplesInStep, SampleRow
<1>1. PICK q \in Seq(SampleRows) : q = rows.samples
  BY PathTypes
<1>2. CASE SessionStart /\ tick \in {"wait", "sample"}
  <2>1. EventCome' = Len(q) /\ rows'.samples = q /\ tick' = tick
    BY <1>1, <1>2 DEF SessionStart, EventCome
  <2>2. rec'.eventSession # slot' /\ \A i \in 1..Len(q) : q[i].session # slot'
    BY <1>1, <1>2, NothingStored
  <2> QED
    BY <1>2, <2>1, <2>2
<1>3. ASSUME Faithful, slot' = slot, ~SessionStart,
             \/ NewState \/ RecordPath \/ LogTransition \/ PersistEvents \/ PersistPhase
             \/ UNCHANGED logVars
             \/ Sample /\ rows'.samples = Append(rows.samples, SampleRow(slot, state))
      PROVE  /\ tick' \notin {"wait", "sample"} =>
                  /\ rows'.samples # <<>>
                  /\ rows'.samples[Len(rows'.samples)] = SampleRow(slot', state')
             /\ IF rec'.eventSession = slot' THEN OpenIn(event') \subseteq DOMAIN rec'.open
                ELSE \A i \in 1..EventCome' : rows'.samples[i].session # slot'
  <2>1. PICK n \in Nat : /\ n = EventCome /\ n <= Len(q)
                         /\ EventCome' = IF PersistEvents THEN n + 1 ELSE n
                         /\ ~Sample => rows'.samples = q
    BY <1>1, <1>3, ComeStep
  <2>2. slot # None
    BY <1>3 DEF Faithful
  <2>3. CASE PersistEvents
    <3>1. tick = "event" /\ state' = state /\ rows'.samples = q
      BY <2>1, <2>3 DEF PersistEvents, Sample
    <3>2. rec'.eventSession = slot /\ DOMAIN rec'.open = OpenIn(event')
      BY <2>2, <2>3, EventsTouched
    <3> QED
      BY <1>1, <1>3, <3>1, <3>2 DEF SamplesInStep
  <2>4. CASE ~PersistEvents
    <3>1. rec'.open = rec.open /\ rec'.eventSession = rec.eventSession /\ event' = event
      <4>1. ~AskSummary
        BY <1>3 DEF NewState, RecordPath, LogTransition, PersistEvents, PersistPhase, Sample,
           AskSummary, logVars
      <4> QED
        BY <2>4, <4>1, EventsUntouched
    <3>2. CASE Sample
      <4>1. rows'.samples = Append(rows.samples, SampleRow(slot, state)) /\ state' = state
        BY <1>3, <3>2 DEF Sample, NewState, RecordPath, LogTransition, PersistEvents,
           PersistPhase, logVars
      <4>2. /\ rows'.samples # <<>>
            /\ rows'.samples[Len(rows'.samples)] = SampleRow(slot, state)
            /\ \A i \in 1..Len(rows.samples) : rows'.samples[i] = rows.samples[i]
        BY <4>1, SampleStored
      <4>3. \A i \in 1..n : rows'.samples[i] = q[i]
        BY <1>1, <2>1, <4>2
      <4> QED
        BY <1>1, <1>3, <2>1, <2>4, <3>1, <4>1, <4>2, <4>3 DEF SamplesInStep
    <3>3. CASE ~Sample
      <4>1. tick' \notin {"wait", "sample"} => tick \notin {"wait", "sample"} /\ state' = state
        BY <1>3, <2>4, <3>3 DEF NewState, RecordPath, LogTransition, PersistPhase, logVars
      <4> QED
        BY <1>1, <1>3, <2>1, <2>4, <3>1, <3>3, <4>1 DEF SamplesInStep
    <3> QED
      BY <3>2, <3>3
  <2> QED
    BY <2>3, <2>4
<1>4. SessionStart => slot' # slot
  BY DEF SessionStart, LogTypeOK, None
<1> QED
  BY <1>2, <1>3, <1>4, FaithfulStep

\* Nothing is stored at the start.
LEMMA DebriefInit == LogInit => DebriefInv
<1> SUFFICES ASSUME LogInit PROVE DebriefInv
  OBVIOUS
<1>1. ~Faithful /\ phase.hold = 0
  BY DEF LogInit, Faithful, FreshPhase
<1>2. state.filled = 0 /\ state.young = 0 /\ tick = "wait"
  BY DEF LogInit, NoState
<1> QED
  BY <1>1, <1>2, EnoughType DEF DebriefInv, HoldsBack, SamplesInStep, PhasesMatch, FillsMatch,
     OpensFilled, EventsMatch

\* And a step keeps the debrief with what was seen live.
LEMMA DebriefInvStep ==
  LogTypeOK /\ PathInv /\ EventInv /\ DebriefInv /\ [LogNext]_logVars => DebriefInv'
BY LogStepType, HoldsBackStep, SamplesInStepStep, PhasesMatchStep, FillsMatchStep,
   OpensFilledStep, EventsMatchStep DEF DebriefInv, PathInv, EventInv

\* A debrief reads to the end of the table when the limit covers the samples of the session.
LEMMA AllRead ==
  ASSUME NEW table, NEW id, table.samples \in Seq(SampleRows),
         Cardinality(SamplesOf(table, id)) <= SampleLimit
  PROVE  Max(Readable(table, id)) = Len(table.samples)
<1>1. PICK last \in Nat : last = Len(table.samples)
  OBVIOUS
<1>2. {i \in SamplesOf(table, id) : i <= last} = SamplesOf(table, id)
  BY <1>1 DEF SamplesOf
<1>3. PICK reads : reads = Readable(table, id)
  OBVIOUS
<1>4. last \in reads /\ reads \subseteq 0..last
  <2> DEFINE upTo(n) == Cardinality({i \in SamplesOf(table, id) : i <= n})
  <2>1. reads = {n \in 0..last : upTo(n) <= SampleLimit}
    BY <1>1, <1>3 DEF Readable
  <2>2. upTo(last) = Cardinality(SamplesOf(table, id))
    BY <1>2
  <2> HIDE DEF upTo
  <2> QED
    BY <2>1, <2>2
<1>5. \A n \in reads : (\A k \in reads : n >= k) <=> n = last
  BY <1>4
<1>6. Max(reads) = last
  BY <1>4, <1>5 DEF Max
<1> QED
  BY <1>1, <1>3, <1>6

\* The home of a session is a place, or there is none.
LEMMA SessionHomeType ==
  ASSUME LogTypeOK, NEW id, NEW manual \in Manual
  PROVE  /\ SessionHome(rows, id, manual) \in Homes
         /\ manual = None => ~SessionHome(rows, id, manual).override
<1> DEFINE homed == {i \in SamplesOf(rows, id) : rows.samples[i].state.home # None}
           placed == PlacedOf(rows, id)
<1>1. manual \in Nat /\ None \in Nat
  BY FlightLogConstants DEF Manual, AircraftStates, None
<1>2. \A i \in SamplesOf(rows, id) :
        rows.samples[i].state.home \in Nat /\ rows.samples[i].state.place \in Nat
  <2>1. \A i \in DOMAIN rows.samples : rows.samples[i] \in SampleRows
    BY PathTypes
  <2> QED
    BY <2>1 DEF SamplesOf, SampleRows, AircraftStates
<1>3. homed \subseteq SamplesOf(rows, id) /\ placed \subseteq SamplesOf(rows, id)
  BY DEF PlacedOf
<1>4. SamplesOf(rows, id) \subseteq Nat
  <2>1. PICK q \in Seq(SampleRows) : q = rows.samples
    BY PathTypes
  <2> QED
    BY <2>1 DEF SamplesOf
<1>5. \A T \in SUBSET SamplesOf(rows, id) : T # {} => Min(T) \in SamplesOf(rows, id)
  <2> SUFFICES ASSUME NEW T \in SUBSET SamplesOf(rows, id), T # {} PROVE Min(T) \in SamplesOf(rows, id)
    OBVIOUS
  <2>1. PICK n \in T : \A k \in T : n <= k
    BY <1>4, LeastNumber
  <2>2. Min(T) \in T
    BY <2>1 DEF Min
  <2> QED
    BY <2>2
<1>6. PICK place \in Nat :
        place = CASE manual # None -> manual
                  [] manual = None /\ homed # {} -> rows.samples[Min(homed)].state.home
                  [] manual = None /\ homed = {} /\ placed # {} -> rows.samples[Min(placed)].state.place
                  [] OTHER -> None
  <2>1. homed # {} => rows.samples[Min(homed)].state.home \in Nat
    BY <1>2, <1>3, <1>5
  <2>2. placed # {} => rows.samples[Min(placed)].state.place \in Nat
    BY <1>2, <1>3, <1>5
  <2> HIDE DEF homed, placed
  <2> QED
    BY <1>1, <2>1, <2>2
<1>7. PICK set \in BOOLEAN : set = (manual # None)
  OBVIOUS
<1>8. SessionHome(rows, id, manual) = [override |-> set, place |-> place]
  BY <1>6, <1>7, Zenon DEF SessionHome
<1>9. manual = None => ~set
  BY <1>7
<1>10. [override |-> set, place |-> place] \in Homes
  BY DEF Homes
<1>11. [override |-> set, place |-> place].override = set
  OBVIOUS
<1> HIDE DEF homed, placed
<1> QED
  BY <1>8, <1>9, <1>10, <1>11, Zenon

\* Between two ticks both engines have come to every sample, so the debrief finds what was seen.
LEMMA DebriefFollows == LogTypeOK /\ DebriefInv => DebriefMatchesLive
<1> SUFFICES ASSUME LogTypeOK, DebriefInv, slot # None, tick = "wait", sessions[slot].exact,
                    \A i \in SamplesOf(rows, slot) : rows.samples[i].state.climb,
                    Cardinality(SamplesOf(rows, slot)) <= SampleLimit, NEW manual \in Manual
             PROVE  LET d == Debrief(rows, slot, manual) IN
                    /\ SettledBy(rows.samples, slot, Len(rows.samples)) => d.phase.current = phase.current
                    /\ d.occurred \ ToldOtherwise(rows, slot, manual)
                         \subseteq OpenIn(event) \cup {r.event : r \in FlightEvents(rows, slot)}
  BY DEF DebriefMatchesLive
<1>1. Faithful /\ Climbing(rows.samples, slot)
  BY DEF Faithful, Climbing, SamplesOf
<1>2. PhaseCome = Len(rows.samples) /\ EventCome = Len(rows.samples)
  BY DEF PhaseCome, EventCome
<1>3. PICK h \in Homes : h = SessionHome(rows, slot, manual)
  BY SessionHomeType
<1>4. PICK d : d = Debriefs(rows.samples, slot, h)[Len(rows.samples)] /\ d = Debrief(rows, slot, manual)
  <2>1. Max(Readable(rows, slot)) = Len(rows.samples)
    BY PathTypes, AllRead
  <2> QED
    BY <1>3, <2>1 DEF Debrief
<1>5. SettledBy(rows.samples, slot, Len(rows.samples)) => d.phase = phase
  BY <1>1, <1>2, <1>4 DEF DebriefInv, PhasesMatch, PhasesAgree
<1>6. ASSUME NEW e \in d.occurred, e \in Events,
             e \in HomeEvents => manual = None /\ OwnHomes(rows, slot),
             e \in WindowEvents => sessions[slot].alone
      PROVE  event[e].open \/ \E r \in FlightEvents(rows, slot) : r.event = e
  <2>1. e \in HomeEvents => ~h.override
    BY <1>3, <1>6, SessionHomeType
  <2>2. HomesTold(rows.samples, slot, h, e)
    BY <1>6, <2>1 DEF HomesTold, HomeTold, OwnHomes, SamplesOf
  <2> QED
    BY <1>1, <1>2, <1>4, <1>6, <2>2 DEF DebriefInv, EventsMatch, EventAgrees
<1>7. d.occurred \subseteq Events
  <2>1. Debriefing(d)
    <3>1. PICK q \in Seq(SampleRows) : q = rows.samples
      BY PathTypes
    <3>2. PICK n \in Nat : n = Len(q)
      OBVIOUS
    <3>3. Debriefing(Debriefs(q, slot, h)[n])
      BY <3>1, <3>2, DebriefsType
    <3> QED
      BY <1>4, <3>1, <3>2, <3>3
  <2> QED
    BY <2>1 DEF Debriefing
<1>8. \A e \in Events \ ToldOtherwise(rows, slot, manual) :
        /\ e \in HomeEvents => manual = None /\ OwnHomes(rows, slot)
        /\ e \in WindowEvents => sessions[slot].alone
  BY DEF ToldOtherwise
<1> QED
  BY <1>4, <1>5, <1>6, <1>7, <1>8 DEF OpenIn

\* A debrief finds what was seen live, of every session whose states are all stored and read once.
THEOREM DebriefAlwaysMatches == LogSpec => []DebriefMatchesLive
<1>1. LogInit => LogTypeOK /\ PhaseInv /\ EventInv /\ PathInv /\ DebriefInv
  BY LogInitType, PhaseInit, EventInit, PathInit, DebriefInit
<1>2. LogTypeOK /\ PhaseInv /\ EventInv /\ PathInv /\ DebriefInv /\ [LogNext]_logVars =>
        (LogTypeOK /\ PhaseInv /\ EventInv /\ PathInv /\ DebriefInv)'
  BY LogStepType, PhaseInvStep, EventInvStep, PathInvStep, DebriefInvStep
<1> QED
  BY <1>1, <1>2, DebriefFollows, PTL DEF LogSpec
=============================================================================
