---------------------------- MODULE Storage_proofs ----------------------------
(***************************************************************************)
(* Proofs about what the program keeps in files of its own: the settings   *)
(* and the recordings.                                                     *)
(*                                                                         *)
(* Settings, for any environments a unit may have, any first files and any *)
(* bodies of saves: its type invariant and its four properties.            *)
(*                                                                         *)
(* Recordings, for any number of ids, flights and instants, any instants   *)
(* of a second and any limit: what a delete takes with it, and what a      *)
(* session lists.                                                          *)
(***************************************************************************)
EXTENDS Settings, Recordings, TLAPS

-----------------------------------------------------------------------------
(* Settings: the inductive invariant.                                      *)

\* Environments and files are functions on the keys.
Maps ==
  /\ DOMAIN unit = Keys /\ DOMAIN env = Keys /\ DOMAIN file = Keys
  /\ DOMAIN saved = Canonical /\ disk \in [Canonical -> {"written", "older", "gone"}]

\* The AI services are those of some provider once there has been a start.
Served ==
  /\ services.provider \in {"none", "mock", "ollama"}
  /\ up => services.provider # "none"
  /\ answer \in {"none", "live", "refused", "unnoticed", "failed"}

\* A file with a legacy key is one of the first: no save writes it.
LegacyIsOld == file["mode"] # Unset => file \in Files

\* A file that cannot be parsed has no keys; one that can has what was written since.
FileIsSaved ==
  /\ torn => \A k \in Keys : file[k] = Unset
  /\ \A k \in Canonical : /\ disk[k] = "written" => file[k] = saved[k]
                          /\ disk[k] = "gone" => file[k] = Unset

\* The environment follows the saves, written or not, but for the unit's keys.
EnvFollows == up => \A k \in Canonical : unit[k] # Unset \/ saved[k] = Unset \/ env[k] = saved[k]

IInv == Maps /\ Served /\ LegacyIsOld /\ FileIsSaved /\ EnvFollows /\ OllamaIsScheduled /\ LiveIsLive

-----------------------------------------------------------------------------
(* The operators.                                                          *)

\* The getter answers one of the two providers, whatever it reads.
LEMMA ProviderKnown ==
  ASSUME NEW e
  PROVE  Provider(e) \in Providers
PROOF BY DEF Provider, OfMode, Providers

\* Services are configured for a provider.
LEMMA ConfiguredProvider ==
  ASSUME NEW e
  PROVE  Configured(e).provider = Provider(e)
PROOF BY DEF Configured

\* A save's keys are canonical.
LEMMA MigratedKeys ==
  ASSUME NEW u
  PROVE  DOMAIN Migrated(u) \subseteq Canonical
PROOF BY DEF Migrated, Canonical

\* A body that names neither an AI key nor the legacy mode leaves provider and model alone.
LEMMA MigratedOther ==
  ASSUME NEW u, DOMAIN u \cap AiKeys = {}, "mode" \notin DOMAIN u
  PROVE  "provider" \notin DOMAIN Migrated(u) /\ "model" \notin DOMAIN Migrated(u)
PROOF BY DEF Migrated, Given, LegacyModes, Unset, AiKeys, Canonical

\* Put writes a save's keys and leaves the others.
LEMMA PutValues ==
  ASSUME NEW e, NEW m
  PROVE  /\ DOMAIN Put(e, m) = Keys
         /\ \A k \in Keys : Put(e, m)[k] = IF k \in DOMAIN m THEN m[k] ELSE e[k]
PROOF BY DEF Put

\* The discovery sets the provider only.
LEMMA DiscoveredValues ==
  ASSUME NEW e, DOMAIN e = Keys, NEW ready
  PROVE  /\ DOMAIN Discovered(e, ready) = Keys
         /\ \A k \in Keys : k # "provider" => Discovered(e, ready)[k] = e[k]
PROOF BY DEF Discovered

\* The reconciliation sets the backend only, to the file's.
LEMMA ReconciledValues ==
  ASSUME NEW e, DOMAIN e = Keys, NEW f, NEW port \in BOOLEAN
  PROVE  /\ DOMAIN Reconciled(e, f, port) = Keys
         /\ \A k \in Keys :
              Reconciled(e, f, port)[k] = e[k] \/ (k = "backend" /\ Reconciled(e, f, port)[k] = f[k])
PROOF BY DEF Reconciled

\* What the services are configured for depends on three keys.
LEMMA ConfiguredSame ==
  ASSUME NEW e, NEW d, e["provider"] = d["provider"], e["model"] = d["model"], e["mode"] = d["mode"]
  PROVE  Configured(e) = Configured(d)
PROOF BY DEF Configured, Provider

-----------------------------------------------------------------------------
(* Initialization, and a step per action.                                  *)

\* The initial states satisfy the invariant.
LEMMA InitInv == Init => IInv
<1> SUFFICES ASSUME Init PROVE IInv
  OBVIOUS
<1>1. Maps
  BY SettingsConstants DEF Init, Maps, Nothing
<1> HIDE DEF Maps
<1>2. Served /\ LegacyIsOld /\ FileIsSaved /\ EnvFollows /\ OllamaIsScheduled /\ LiveIsLive
  BY DEF Init, Served, NoServices, LegacyIsOld, FileIsSaved, EnvFollows, OllamaIsScheduled,
     LiveIsLive
<1> QED
  BY <1>1, <1>2 DEF IInv

\* A start keeps the invariant: what the file holds is loaded where the unit has nothing.
LEMMA StartInv == IInv /\ Start => IInv'
<1> SUFFICES ASSUME IInv, Start PROVE IInv'
  OBVIOUS
<1>1. PICK u \in Units, ready \in BOOLEAN, port \in BOOLEAN :
        /\ unit' = u
        /\ env' = LET f == Content(file, torn) e == Loaded(u, f) IN
                  Reconciled(IF ProviderIsExplicit(u, f) THEN e ELSE Discovered(e, ready), f, port)
  BY DEF Start
<1> DEFINE f == Content(file, torn)
           e == Loaded(u, f)
           d == IF ProviderIsExplicit(u, f) THEN e ELSE Discovered(e, ready)
<1>2. UNCHANGED <<file, torn>> /\ up' /\ answer' = "live"
      /\ services' = Configured(env') /\ scheduler' = (Provider(env') = "ollama")
  BY DEF Start
<1>3. DOMAIN e = Keys /\ \A k \in Keys : e[k] = Or(u[k], f[k])
  BY DEF Loaded
<1>4. DOMAIN d = Keys /\ \A k \in Keys : d[k] = e[k] \/ (k = "provider" /\ f["provider"] = Unset)
  <2> HIDE DEF e
  <2>1. CASE ProviderIsExplicit(u, f)
    BY <1>3, <2>1
  <2>2. CASE ~ProviderIsExplicit(u, f)
    BY <1>3, <2>2, DiscoveredValues DEF ProviderIsExplicit
  <2> QED
    BY <2>1, <2>2
<1>5. env' = Reconciled(d, f, port)
  BY <1>1
<1>6. DOMAIN env' = Keys /\ \A k \in Keys : env'[k] = d[k] \/ (k = "backend" /\ env'[k] = f[k])
  <2> HIDE DEF d
  <2> QED
    BY <1>4, <1>5, ReconciledValues
<1>7. /\ DOMAIN saved' = Canonical /\ disk' = [k \in Canonical |-> "written"]
      /\ \A k \in Canonical : f[k] = file[k] /\ saved'[k] = file[k]
  <2>1. \A k \in Keys : f[k] = file[k]
    BY DEF IInv, FileIsSaved, Content, Nothing
  <2>2. saved' = [k \in Canonical |-> IF disk[k] = "written" THEN saved[k] ELSE f[k]]
        /\ disk' = [k \in Canonical |-> "written"]
    BY DEF Start
  <2> HIDE DEF f
  <2> QED
    BY <2>1, <2>2 DEF IInv, FileIsSaved, Keys
<1>8. EnvFollows'
  BY <1>1, <1>2, <1>3, <1>4, <1>6, <1>7 DEF EnvFollows, Keys, Or
<1>9. Maps' /\ LegacyIsOld' /\ FileIsSaved'
  BY <1>1, <1>2, <1>6, <1>7, SettingsConstants DEF IInv, Maps, LegacyIsOld, FileIsSaved
<1>10. services'.provider = Provider(env') /\ Provider(env') \in Providers
  BY <1>2, ProviderKnown, ConfiguredProvider
<1>11. Served' /\ OllamaIsScheduled' /\ LiveIsLive'
  BY <1>2, <1>10 DEF Served, OllamaIsScheduled, LiveIsLive, Providers
<1> QED
  BY <1>8, <1>9, <1>11 DEF IInv

\* With the process all that follows from its environment is gone.
LEMMA DownInv ==
  ASSUME IInv, Down, FileIsSaved', LegacyIsOld', DOMAIN file' = Keys, UNCHANGED saved,
         disk' \in [Canonical -> {"written", "older", "gone"}]
  PROVE  IInv'
<1>1. Maps'
  BY DEF Down, Maps, Nothing, IInv
<1>2. Served' /\ EnvFollows' /\ OllamaIsScheduled' /\ LiveIsLive'
  BY DEF Down, Served, NoServices, EnvFollows, OllamaIsScheduled, LiveIsLive
<1> QED
  BY <1>1, <1>2 DEF IInv

\* A torn file has lost its keys.
LEMMA TearInv ==
  ASSUME TearFile
  PROVE  /\ FileIsSaved' /\ LegacyIsOld' /\ DOMAIN file' = Keys
         /\ disk' \in [Canonical -> {"written", "older", "gone"}]
PROOF BY DEF TearFile, FileIsSaved, LegacyIsOld, Nothing, Canonical, Keys

\* What a save asks for.
LEMMA SavedBy ==
  ASSUME IInv, NEW u, Save(u)
  PROVE  /\ Maps /\ DOMAIN env' = Keys /\ DOMAIN saved' = Canonical
         /\ \A k \in Keys : env'[k] = IF k \in DOMAIN Migrated(u) THEN Migrated(u)[k] ELSE env[k]
         /\ \A k \in Canonical : saved'[k] = IF k \in DOMAIN Migrated(u) THEN Migrated(u)[k] ELSE saved[k]
         /\ EnvFollows'
<1> DEFINE m == Migrated(u)
<1>1. env' = Put(env, m) /\ UNCHANGED <<up, unit>>
      /\ saved' = [k \in Canonical |-> IF k \in DOMAIN m THEN m[k] ELSE saved[k]]
  BY DEF Save
<1> HIDE DEF m
<1>2. DOMAIN env' = Keys /\ \A k \in Keys : env'[k] = IF k \in DOMAIN m THEN m[k] ELSE env[k]
  BY <1>1, PutValues
<1>3. DOMAIN saved' = Canonical
      /\ \A k \in Canonical : saved'[k] = IF k \in DOMAIN m THEN m[k] ELSE saved[k]
  BY <1>1
<1>4. EnvFollows'
  BY <1>1, <1>2, <1>3 DEF IInv, EnvFollows, Keys
<1> QED
  BY <1>2, <1>3, <1>4 DEF IInv, m

\* A written file has the keys of the save, keeps the others, and has no legacy one.
LEMMA WriteInv ==
  ASSUME IInv, NEW u, Save(u), WriteFile(Migrated(u))
  PROVE  Maps' /\ FileIsSaved' /\ LegacyIsOld'
<1> DEFINE m == Migrated(u)
<1>1. "mode" \notin Canonical /\ Canonical \subseteq Keys /\ "mode" \in Keys /\ DOMAIN m \subseteq Canonical
  BY MigratedKeys DEF Canonical, Keys
<1>2. ~torn' /\ file' = [k \in Keys |-> IF k \in DOMAIN m THEN m[k] ELSE Kept[k]]
      /\ disk' = [k \in Canonical |-> IF k \in DOMAIN m THEN "written" ELSE disk[k]]
      /\ UNCHANGED unit
  BY DEF WriteFile, Save
<1>3. DOMAIN Content(file, torn) = Keys /\ \A k \in Keys : Content(file, torn)[k] = file[k]
  BY DEF Content, Nothing, IInv, Maps, FileIsSaved
<1>4. Kept["mode"] = Unset /\ \A k \in Canonical : Kept[k] = file[k]
  BY <1>1, <1>3 DEF Kept
<1>5. DOMAIN saved' = Canonical /\ DOMAIN env' = Keys
      /\ \A k \in Canonical : saved'[k] = IF k \in DOMAIN m THEN m[k] ELSE saved[k]
  BY SavedBy
<1> HIDE DEF m
<1>6. disk' \in [Canonical -> {"written", "older", "gone"}] /\ DOMAIN file' = Keys
  BY <1>2 DEF IInv, Maps
<1>7. \A k \in Canonical : file'[k] = IF k \in DOMAIN m THEN m[k] ELSE file[k]
  BY <1>1, <1>2, <1>4
<1>8. \A k \in Canonical : disk'[k] = IF k \in DOMAIN m THEN "written" ELSE disk[k]
  BY <1>2
<1>9. FileIsSaved'
  BY <1>2, <1>5, <1>7, <1>8 DEF IInv, FileIsSaved
<1>10. LegacyIsOld'
  BY <1>1, <1>2, <1>4 DEF LegacyIsOld
<1> QED
  BY <1>2, <1>5, <1>6, <1>9, <1>10 DEF IInv, Maps

\* A save keeps the invariant: file and environment get the same keys, and services are
\* rebuilt for what was saved or stay those of a provider that has a scheduler.
LEMMA PostSettingsInv ==
  ASSUME IInv, NEW u \in Updates, PostSettings(u)
  PROVE  IInv'
<1> DEFINE m == Migrated(u)
<1>1. DOMAIN m \subseteq Canonical
  BY MigratedKeys
<1>2. up /\ Reload(u) /\ UNCHANGED <<up, unit, explicit, scheduler>>
  BY DEF PostSettings, Save
<1>3. /\ EnvFollows'
      /\ \A k \in Keys : env'[k] = IF k \in DOMAIN m THEN m[k] ELSE env[k]
  BY SavedBy DEF PostSettings
<1>4. Maps' /\ FileIsSaved' /\ LegacyIsOld'
  BY WriteInv DEF PostSettings
<1>6. Served' /\ OllamaIsScheduled' /\ LiveIsLive'
  <2>1. CASE DOMAIN u \cap AiKeys = {} /\ "mode" \in DOMAIN u
    BY <1>2, <2>1 DEF IInv, Reload, Served, OllamaIsScheduled, LiveIsLive
  <2>2. CASE DOMAIN u \cap AiKeys = {} /\ "mode" \notin DOMAIN u
    <3>1. "provider" \notin DOMAIN m /\ "model" \notin DOMAIN m /\ "mode" \notin DOMAIN m
      BY <1>1, <2>2, MigratedOther DEF Canonical
    <3>2. env'["provider"] = env["provider"] /\ env'["model"] = env["model"] /\ env'["mode"] = env["mode"]
      BY <1>3, <3>1 DEF Keys, Canonical
    <3>3. Configured(env') = Configured(env)
      BY <3>2, ConfiguredSame
    <3>4. UNCHANGED <<answer, services>>
      BY <1>2, <2>2 DEF Reload
    <3> QED
      BY <1>2, <3>3, <3>4 DEF IInv, Served, OllamaIsScheduled, LiveIsLive
  <2>3. CASE DOMAIN u \cap AiKeys # {} /\ Reloadable(Provider(env), Provider(env'))
    <3>1. answer' = "live" /\ services' = Configured(env')
      BY <1>2, <2>3 DEF Reload
    <3>2. services'.provider = Provider(env') /\ Provider(env') \in Providers
      BY <3>1, ProviderKnown, ConfiguredProvider
    <3> QED
      BY <1>2, <2>3, <3>1, <3>2 DEF Reloadable, Served, OllamaIsScheduled, LiveIsLive, Providers
  <2>4. CASE DOMAIN u \cap AiKeys # {} /\ ~Reloadable(Provider(env), Provider(env'))
    <3>1. answer' = "refused" /\ UNCHANGED services
      BY <1>2, <2>4 DEF Reload
    <3> QED
      BY <1>2, <3>1 DEF IInv, Served, OllamaIsScheduled, LiveIsLive
  <2> QED
    BY <2>1, <2>2, <2>3, <2>4
<1> QED
  BY <1>3, <1>4, <1>6 DEF IInv

\* A failed save keeps the invariant: the environment has changed, the file is as it was or torn.
LEMMA PostFailsInv ==
  ASSUME IInv, NEW u \in Updates, PostFails(u)
  PROVE  IInv'
<1> DEFINE m == Migrated(u)
<1>1. /\ EnvFollows' /\ DOMAIN env' = Keys /\ DOMAIN saved' = Canonical
      /\ \A k \in Canonical : saved'[k] = IF k \in DOMAIN m THEN m[k] ELSE saved[k]
  BY SavedBy DEF PostFails
<1>2. up /\ answer' = "failed" /\ UNCHANGED <<up, unit, explicit, scheduler, services>>
  BY DEF PostFails, Save
<1>3. CASE TearFile
  BY <1>1, <1>2, <1>3, TearInv DEF IInv, Maps, Served, OllamaIsScheduled, LiveIsLive
<1>4. CASE MissFile(m)
  <2>1. /\ UNCHANGED <<file, torn>>
        /\ disk' = [k \in Canonical |->
                      IF k \notin DOMAIN m THEN disk[k] ELSE IF file[k] = Unset THEN "gone" ELSE "older"]
    BY <1>4 DEF MissFile
  <2> HIDE DEF m
  <2>2. Maps'
    BY <1>1, <1>2, <2>1 DEF IInv, Maps
  <2>3. FileIsSaved'
    BY <1>1, <2>1 DEF IInv, FileIsSaved
  <2> QED
    BY <1>1, <1>2, <2>1, <2>2, <2>3 DEF IInv, LegacyIsOld, Served, OllamaIsScheduled, LiveIsLive
<1> QED
  BY <1>3, <1>4 DEF PostFails

\* Every step keeps the invariant.
LEMMA StepInv == IInv /\ [Next]_vars => IInv'
<1> SUFFICES ASSUME IInv, [Next]_vars PROVE IInv'
  OBVIOUS
<1>1. CASE Start
  BY <1>1, StartInv
<1>2. CASE Stop
  <2>1. /\ FileIsSaved' /\ LegacyIsOld' /\ DOMAIN file' = Keys
        /\ disk' \in [Canonical -> {"written", "older", "gone"}]
    BY <1>2 DEF Stop, IInv, FileIsSaved, LegacyIsOld, Maps
  <2> QED
    BY <1>2, <2>1, DownInv DEF Stop
<1>3. CASE CrashInSave
  BY <1>3, TearInv, DownInv DEF CrashInSave
<1>4. ASSUME NEW u \in Updates, PostSettings(u)
      PROVE  IInv'
  BY <1>4, PostSettingsInv
<1>5. ASSUME NEW u \in Updates, PostFails(u)
      PROVE  IInv'
  BY <1>5, PostFailsInv
<1>6. CASE UNCHANGED vars
  BY <1>6 DEF vars, IInv, Maps, Served, LegacyIsOld, FileIsSaved, EnvFollows, OllamaIsScheduled,
     LiveIsLive
<1> QED
  BY <1>1, <1>2, <1>3, <1>4, <1>5, <1>6 DEF Next

-----------------------------------------------------------------------------
(* Settings: the theorems.                                                 *)

\* The invariant holds in every reachable state.
THEOREM Inductive == Spec => []IInv
PROOF BY InitInv, StepInv, PTL DEF Spec

\* The type invariant of Settings.
THEOREM TypeCorrect == Spec => []TypeOK
<1>1. IInv => TypeOK
  BY DEF IInv, Maps, Served, LegacyIsOld, TypeOK, NoServices
<1> QED
  BY <1>1, Inductive, PTL

\* What was saved is used, whatever the unit's environment, the first file and the saves.
THEOREM SavedUsed == Spec => []SavedIsUsed
<1>1. ASSUME IInv, up, NEW k \in Canonical, unit[k] = Unset, saved[k] # Unset
      PROVE  env[k] = saved[k] /\ (k = "camera" => Overruled(k) \/ Used(k) = saved[k])
  <2>1. env[k] = saved[k]
    BY <1>1 DEF IInv, EnvFollows
  <2>2. ASSUME k = "camera", ~Overruled(k)
        PROVE  Used(k) = saved[k]
    <3>1. Used(k) = Mode(env, Content(file, torn))
      BY <2>2 DEF Used
    <3>2. saved["camera"] \in Modes /\ disk["camera"] \in {"written", "gone"} /\ "camera" \in Canonical
      BY <1>1, <2>2 DEF Overruled, IInv, Maps, Canonical
    <3>3. Content(file, torn)["camera"] = file["camera"]
      BY <1>1 DEF Content, Nothing, IInv, FileIsSaved, Keys, Canonical
    <3>4. file["camera"] \in {saved["camera"], Unset}
      BY <1>1, <3>2 DEF IInv, FileIsSaved
    <3> QED
      BY <1>1, <2>1, <2>2, <3>1, <3>2, <3>3, <3>4 DEF Mode, Or
  <2> QED
    BY <2>1, <2>2
<1>2. IInv => SavedIsUsed
  BY <1>1 DEF SavedIsUsed
<1> QED
  BY <1>2, Inductive, PTL

\* The page shows what the getters read, and what the services run with.
THEOREM ShownUsed == Spec => []ShownIsUsed
<1>1. ASSUME IInv, up, NEW k \in Canonical, unit[k] = Unset, Known(k, Shown(k)),
             ~(disk[k] = "older" /\ k # "camera")
      PROVE  Shown(k) = Used(k) /\ (answer = "live" => Shown(k) = Running(k))
  <2> DEFINE f == Content(file, torn)
  <2>1. f[k] = file[k]
    BY <1>1 DEF IInv, FileIsSaved, Content, Nothing, Keys
  <2>2. k # "camera" => f[k] = Unset \/ env[k] = f[k]
    BY <1>1, <2>1 DEF IInv, Maps, FileIsSaved, EnvFollows
  <2> HIDE DEF f
  <2>3. Shown(k) = Used(k)
    <3>1. CASE k = "provider"
      BY <1>1, <2>2, <3>1 DEF f, Shown, Used, Overridable, Known, Provider, Canonical
    <3>2. CASE k = "hat"
      BY <1>1, <2>2, <3>2 DEF f, Shown, Used, Overridable, Canonical
    <3>3. CASE k = "camera"
      <4>1. Shown(k) = Or(f["camera"], Or(env["camera"], "manual"))
        BY <3>3 DEF f, Shown, Overridable, Or, Default, Canonical
      <4>2. Used(k) = Mode(env, f)
        BY <3>3 DEF f, Used
      <4>3. Shown(k) \in Modes
        BY <1>1, <3>3 DEF Known
      <4>4. CASE Or(f["camera"], env["camera"]) = Unset
        <5>1. Shown(k) = "manual"
          BY <4>1, <4>4 DEF Or
        <5>2. Used(k) = "manual"
          BY <4>2, <4>4 DEF Mode, Default, Modes, Unset
        <5> QED
          BY <5>1, <5>2
      <4>5. CASE Or(f["camera"], env["camera"]) # Unset
        <5>1. Shown(k) = Or(f["camera"], env["camera"])
          BY <4>1, <4>5 DEF Or
        <5> QED
          BY <4>2, <4>3, <5>1 DEF Mode
      <4> QED
        BY <4>4, <4>5
    <3>4. CASE k = "model" \/ k = "backend"
      <4>1. Used(k) = Or(env[k], Default(k))
        BY <3>4 DEF Used
      <4>2. Shown(k) = IF f[k] # Unset THEN f[k] ELSE Or(env[k], Default(k))
        BY <3>4 DEF f, Shown, Overridable, Canonical
      <4> QED
        BY <2>2, <3>4, <4>1, <4>2 DEF Or
    <3> QED
      BY <3>1, <3>2, <3>3, <3>4 DEF Canonical
  <2>4. ASSUME answer = "live"
        PROVE  Used(k) = Running(k)
    <3>1. services = Configured(env)
      BY <1>1, <2>4 DEF IInv, LiveIsLive
    <3>2. services.provider = Provider(env)
      BY <3>1, ConfiguredProvider
    <3>3. services.provider = "ollama" => services.model = Or(env["model"], Default("model"))
      BY <3>1, <3>2 DEF Configured
    <3> QED
      BY <3>2, <3>3 DEF Used, Running, Canonical
  <2> QED
    BY <2>3, <2>4
<1>2. IInv => ShownIsUsed
  BY <1>1 DEF ShownIsUsed
<1> QED
  BY <1>2, Inductive, PTL

\* Requests never reach Ollama around the scheduler.
THEOREM Scheduled == Spec => []OllamaIsScheduled
PROOF BY Inductive, PTL DEF IInv

\* Services answered with `apply immediately' are those of the settings.
THEOREM Live == Spec => []LiveIsLive
PROOF BY Inductive, PTL DEF IInv

-----------------------------------------------------------------------------
(* Recordings: seconds.                                                    *)

\* A product grows with its second factor.
LEMMA Product ==
  ASSUME NEW p \in Nat, NEW a \in Nat, NEW b \in Nat, a <= b
  PROVE  p * a <= p * b
OBVIOUS

\* The second of an instant begins with or before it and ends after it; an instant of it that
\* is not before it is of the same second.
LEMMA Seconds ==
  ASSUME NEW t \in Nat
  PROVE  /\ Second(t) \in Nat /\ Second(t) <= t /\ t < Second(t) + PerSecond
         /\ \A e \in Nat : Second(t) <= e /\ e <= t => Second(e) = Second(t)
<1> USE RecordingsConstants
<1>1. ASSUME NEW u \in Nat
      PROVE  /\ u \div PerSecond \in Nat /\ PerSecond * (u \div PerSecond) \in Nat
             /\ PerSecond * (u \div PerSecond) <= u
             /\ u < PerSecond * (u \div PerSecond) + PerSecond
  OBVIOUS
<1>2. ASSUME NEW e \in Nat, Second(t) <= e, e <= t
      PROVE  Second(e) = Second(t)
  <2> DEFINE a == e \div PerSecond
             b == t \div PerSecond
  <2>1. /\ a \in Nat /\ b \in Nat /\ PerSecond * a \in Nat /\ PerSecond * b \in Nat
        /\ PerSecond * a <= e /\ e < PerSecond * a + PerSecond
        /\ PerSecond * b <= t /\ t < PerSecond * b + PerSecond
    BY <1>1
  <2>2. PerSecond * b <= e
    BY <1>2 DEF Second
  <2> HIDE DEF a, b
  <2>3. ~(a < b)
    <3> SUFFICES ASSUME a < b PROVE FALSE
      OBVIOUS
    <3>1. PerSecond * (a + 1) <= PerSecond * b
      BY <2>1, Product
    <3>2. PerSecond * (a + 1) = PerSecond * a + PerSecond
      BY <2>1
    <3> QED
      BY <2>1, <2>2, <3>1, <3>2
  <2>4. ~(b < a)
    <3> SUFFICES ASSUME b < a PROVE FALSE
      OBVIOUS
    <3>1. PerSecond * (b + 1) <= PerSecond * a
      BY <2>1, Product
    <3>2. PerSecond * (b + 1) = PerSecond * b + PerSecond
      BY <2>1
    <3> QED
      BY <1>2, <2>1, <3>1, <3>2
  <2>5. a = b
    BY <2>1, <2>3, <2>4
  <2> QED
    BY <2>5 DEF Second, a, b
<1> QED
  BY <1>1, <1>2 DEF Second

-----------------------------------------------------------------------------
(* Recordings: the inductive invariant.                                    *)

Rows == [flight : Nat, start : Nat, end : Nat]
Sidecars == [sid : Ids \cup {None}, flight : Nat, stale : BOOLEAN]

RecTypes ==
  /\ now \in Nat /\ PerSecond <= now /\ flights \in Nat
  /\ rows \in [Ids -> Rows]
  /\ session \in Ids \cup {None}
  /\ files \in [Names -> [began : Nat, of : SUBSET Nat]]
  /\ meta \in [Names -> Sidecars]
  /\ recording \in Names \cup {None} /\ recorded \in Names \cup {None}
  /\ delete \in [pc : {"idle", "scan", "filter", "files"}, sid : Ids \cup {None},
                 found : SUBSET Names, marks : SUBSET Names, left : SUBSET Names]

\* Rows are of flights there have been, with times that have passed; no two of the same flight.
RowsPast ==
  /\ \A i \in Ids : rows[i] # NoRow =>
       /\ rows[i].flight \in 1..flights /\ rows[i].start < now /\ rows[i].end < now
  /\ \A i, k \in Ids : i # k /\ rows[i] # NoRow => rows[i].flight # rows[k].flight

\* Files and sidecars are named after seconds that have begun.
FilesPast ==
  /\ \A n \in Names : Exists(n) =>
       /\ n = Second(files[n].began) /\ files[n].began < now /\ files[n].of \subseteq 1..flights
  /\ recording # None => recording < now
  /\ recorded # None => recorded < now
  /\ \A n \in Names : meta[n] # NoMark =>
       meta[n].sid # None /\ meta[n].flight \in 1..flights /\ n < now

\* The active session has a row that is open.
Active == session # None => rows[session] # NoRow /\ rows[session].end = None

\* A flight that goes on, or has an end, is in what was begun during it, and in what goes on now.
Showing(i, n) == rows[i].flight \in files[n].of

FlightsShown ==
  /\ \A i \in Ids, n \in Names :
       /\ rows[i] # NoRow /\ Exists(n) /\ rows[i].start <= files[n].began
       /\ i = session \/ (rows[i].end # None /\ files[n].began <= rows[i].end)
       => Showing(i, n)
  /\ recording # None /\ session # None => ~Exists(recording) \/ Showing(session, recording)

\* A session has no sidecar for a second after its end.
Before(i, n) == rows[i].end # None => n <= rows[i].end

\* A file that is marked for a flight and does not show it was begun after it, or another was meant.
MarksShown ==
  /\ \A i \in Ids, n \in Names : meta[n].sid = i => Before(i, n)
  /\ \A i \in Ids, n \in Names :
       rows[i] # NoRow /\ Exists(n) /\ meta[n] # NoMark /\ meta[n].flight = rows[i].flight =>
         \/ meta[n].stale \/ Showing(i, n)
         \/ (i # session /\ (rows[i].end # None => rows[i].end < files[n].began))

\* The session that is being deleted keeps its row, and is not the active one.
Deleting == delete.pc # "idle" => delete.sid \in Ids /\ rows[delete.sid] # NoRow /\ delete.sid # session

\* What was marked for it and is not any more was removed after its end; what is chosen was marked
\* for it or begun in a second of it.
Removed(n) ==
  Exists(n) /\ meta[n] = NoMark /\ rows[delete.sid].end # None => rows[delete.sid].end < files[n].began

Chosen ==
  /\ delete.pc = "filter" => \A n \in delete.marks : Before(delete.sid, n) /\ Removed(n)
  /\ delete.pc = "files" => \A n \in delete.left :
       Before(delete.sid, n) /\ (Removed(n) \/ rows[delete.sid].start <= n)

RecInv ==
  /\ RecTypes /\ RowsPast /\ FilesPast /\ Active /\ FlightsShown /\ MarksShown /\ Deleting /\ Chosen
  /\ OnlyItsRecordingsLost

-----------------------------------------------------------------------------
(* Recordings: the steps.                                                  *)

\* Names are seconds that are not zero.
LEMMA NamesNat ==
  Names \subseteq Nat /\ None \notin Names /\ \A t \in PerSecond..MaxNow : Second(t) \in Names
<1> USE RecordingsConstants
<1>1. ASSUME NEW t \in PerSecond..MaxNow
      PROVE  Second(t) \in Nat /\ Second(t) # None
  <2>1. Second(t) \in Nat /\ t < Second(t) + PerSecond
    BY Seconds
  <2> QED
    BY <2>1 DEF None
<1> QED
  BY <1>1 DEF Names

\* The initial states satisfy the invariant.
LEMMA RecInitInv == RecInit => RecInv
<1> SUFFICES ASSUME RecInit PROVE RecInv
  OBVIOUS
<1> USE RecordingsConstants DEF RecInit, None
<1>1. RecTypes
  BY DEF RecTypes, Rows, Sidecars, NoRow, NoFile, NoMark, Idle
<1>2. (\A i \in Ids : rows[i] = NoRow) /\ (\A n \in Names : files[n] = NoFile /\ meta[n] = NoMark)
      /\ delete.pc = "idle"
  BY DEF Idle
<1>3. RowsPast /\ FilesPast /\ Active /\ FlightsShown /\ MarksShown /\ Deleting /\ Chosen
  BY <1>2 DEF RowsPast, FilesPast, Active, FlightsShown, MarksShown, Deleting, Chosen, Exists,
     Before, NoRow, NoMark, NoFile
<1> QED
  BY <1>1, <1>3 DEF RecInv, OnlyItsRecordingsLost

\* A sidecar is new: it is for this session, and of a file that is the one under way, or another was
\* meant.
Written(m, sid) ==
  /\ sid # None /\ Exists(m) /\ m \in {recording, recorded}
  /\ meta'[m].sid = sid /\ meta'[m].flight = FlightNow /\ (meta'[m].stale \/ m = recording)

\* What a sidecar that is written says, if it is.
LEMMA Marking ==
  ASSUME RecTypes, NEW n \in Names \cup {None}, NEW sid \in Ids \cup {None}, NEW stale \in BOOLEAN,
         Mark(n, sid, stale)
  PROVE  /\ meta' \in [Names -> Sidecars]
         /\ \A m \in Names : meta'[m] = meta[m]
              \/ (m = n /\ sid # None /\ Exists(n)
                  /\ meta'[n] = [sid |-> sid, flight |-> FlightNow, stale |-> stale])
<1>1. FlightNow \in Nat
  BY DEF RecTypes, FlightNow, Rows, None
<1>2. [sid |-> sid, flight |-> FlightNow, stale |-> stale] \in Sidecars
  BY <1>1 DEF Sidecars
<1> QED
  BY <1>2 DEF RecTypes, Mark, None

\* A stop leaves no recording, and at most one sidecar is new.
LEMMA StopMarks ==
  ASSUME RecTypes, NEW sid \in Ids \cup {None}, StopAndMark(sid)
  PROVE  /\ meta' \in [Names -> Sidecars]
         /\ recording' = None /\ recorded' \in {recording, recorded}
         /\ \A m \in Names : meta'[m] = meta[m] \/ Written(m, sid)
<1>1. PICK n \in {recording, recorded}, stale \in BOOLEAN :
        Mark(n, sid, stale) /\ (stale = TRUE \/ n = recording)
  BY DEF StopAndMark
<1>2. n \in Names \cup {None}
  BY DEF RecTypes
<1>3. /\ meta' \in [Names -> Sidecars]
      /\ \A m \in Names : meta'[m] = meta[m]
           \/ (m = n /\ sid # None /\ Exists(n)
               /\ meta'[n] = [sid |-> sid, flight |-> FlightNow, stale |-> stale])
  BY <1>1, <1>2, Marking
<1>4. ASSUME NEW m \in Names, m = n, sid # None, Exists(n),
             meta'[n] = [sid |-> sid, flight |-> FlightNow, stale |-> stale]
      PROVE  Written(m, sid)
  BY <1>1, <1>4 DEF Written
<1> QED
  BY <1>3, <1>4 DEF StopAndMark

\* What an unlink leaves.
LEMMA Unlinking ==
  ASSUME RecTypes, NEW n \in Names, Unlink(n)
  PROVE  /\ files' \in [Names -> [began : Nat, of : SUBSET Nat]]
         /\ meta' \in [Names -> Sidecars]
         /\ \A m \in Names : (files'[m] = files[m] /\ meta'[m] = meta[m])
              \/ (m = n /\ files'[m] = NoFile /\ (meta'[m] = meta[m] \/ meta'[m] = NoMark))
<1> USE DEF RecTypes, None
<1>1. CASE UNCHANGED <<files, meta>>
  BY <1>1
<1>2. CASE files' = [files EXCEPT ![n] = NoFile] /\ meta' \in {meta, [meta EXCEPT ![n] = NoMark]}
  <2>1. NoFile \in [began : Nat, of : SUBSET Nat] /\ NoMark \in Sidecars
    BY DEF NoFile, NoMark, Sidecars
  <2>2. files' \in [Names -> [began : Nat, of : SUBSET Nat]]
        /\ \A m \in Names : files'[m] = IF m = n THEN NoFile ELSE files[m]
    BY <1>2, <2>1
  <2>3. meta' \in [Names -> Sidecars]
        /\ \A m \in Names : meta'[m] = meta[m] \/ (m = n /\ meta'[m] = NoMark)
    BY <1>2, <2>1
  <2> QED
    BY <2>2, <2>3
<1> QED
  BY <1>1, <1>2 DEF Unlink

\* Every step keeps the types.
LEMMA TypesStep ==
  ASSUME RecInv, [RecNext]_recVars
  PROVE  RecTypes'
<1> USE RecordingsConstants, NamesNat DEF RecTypes, Later, None
<1>1. RecTypes
  BY DEF RecInv
<1>2. CASE Tick
  BY <1>1, <1>2 DEF Tick
<1>3. CASE StartSession
  <2>1. files' \in [Names -> [began : Nat, of : SUBSET Nat]]
    BY <1>1, <1>3 DEF StartSession, Shows
  <2>2. rows' \in [Ids -> Rows]
    BY <1>1, <1>3 DEF StartSession, Rows
  <2> QED
    BY <1>1, <1>3, <2>1, <2>2 DEF StartSession
<1>4. Ended \in [Ids -> Rows] \/ ~Later
  BY <1>1 DEF Ended, Rows
<1>5. CASE EndSession
  BY <1>1, <1>4, <1>5 DEF EndSession
<1>6. CASE StopSession
  <2>1. /\ meta' \in [Names -> Sidecars]
        /\ recording' \in {recording, None} /\ recorded' \in {recording, recorded}
    <3>1. CASE recording = None
      BY <1>1, <1>6, <3>1 DEF StopSession
    <3>2. CASE recording # None
      BY <1>1, <1>6, <3>2, StopMarks DEF StopSession
    <3> QED
      BY <3>1, <3>2
  <2> QED
    BY <1>1, <1>4, <1>6, <2>1 DEF StopSession
<1>7. CASE Crash
  BY <1>1, <1>7 DEF Crash, Idle
<1>8. CASE StartRecording
  <2>1. FlightNow \in Nat
    BY <1>1 DEF FlightNow, Rows
  <2>2. Second(now) \in Names \cup {None}
    BY <1>1, <1>8 DEF StartRecording
  <2>3. [began |-> now, of |-> {FlightNow} \ {None}] \in [began : Nat, of : SUBSET Nat]
    BY <1>1, <2>1
  <2>4. files' \in [Names -> [began : Nat, of : SUBSET Nat]]
    BY <1>1, <1>8, <2>3 DEF StartRecording
  <2> QED
    BY <1>1, <1>8, <2>2, <2>4 DEF StartRecording
<1>9. CASE StopRecording
  BY <1>1, <1>9 DEF StopRecording
<1>10. CASE AutoStopRecording
  BY <1>1, <1>10, StopMarks DEF AutoStopRecording
<1>11. CASE DeleteRecording
  BY <1>1, <1>11, Unlinking DEF DeleteRecording, Present
<1>12. ASSUME NEW sid \in Ids, DeleteCheck(sid) PROVE RecTypes'
  BY <1>1, <1>12 DEF DeleteCheck, Idle
<1> DEFINE Deletes == [pc : {"idle", "scan", "filter", "files"}, sid : Ids \cup {None},
                       found : SUBSET Names, marks : SUBSET Names, left : SUBSET Names]
<1>13. CASE DeleteScan
  <2>1. /\ delete' = [delete EXCEPT !.pc = "filter", !.found = Present, !.marks = MarkedFor(delete.sid)]
        /\ UNCHANGED <<now, rows, session, flights, files, meta, recording, recorded>>
    BY <1>13 DEF DeleteScan
  <2>2. delete \in Deletes /\ Present \subseteq Names /\ MarkedFor(delete.sid) \subseteq Names
    BY <1>1 DEF Present, MarkedFor
  <2>3. delete' \in Deletes
    BY ONLY <2>1, <2>2
  <2> QED
    BY <1>1, <2>1, <2>3
<1>14. CASE DeleteFilter
  <2> DEFINE Left == {n \in delete.found : SessionRange(delete.sid) # NoRow
                                             /\ Matches(n, delete.marks, delete.sid)}
  <2>1. PICK left \in SUBSET Names :
          /\ delete' = [Idle EXCEPT !.pc = "files", !.sid = delete.sid, !.left = left]
          /\ UNCHANGED <<now, rows, session, flights, files, meta, recording, recorded>>
    <3>1. Left \in SUBSET Names
      BY <1>1
    <3>2. /\ delete' = [Idle EXCEPT !.pc = "files", !.sid = delete.sid, !.left = Left]
          /\ UNCHANGED <<now, rows, session, flights, files, meta, recording, recorded>>
      BY <1>14 DEF DeleteFilter
    <3> HIDE DEF Left
    <3> QED
      BY ONLY <3>1, <3>2, Zenon
  <2>2. delete.sid \in Ids \cup {None} /\ None = 0
    BY <1>1
  <2>3. delete' \in Deletes
    BY ONLY <2>1, <2>2 DEF Idle, None
  <2> QED
    BY <1>1, <2>1, <2>3
<1>15. CASE DeleteFile
  BY <1>1, <1>15, Unlinking DEF DeleteFile
<1>16. CASE DeleteCommit
  BY <1>1, <1>16 DEF DeleteCommit, Idle, NoRow, Rows
<1>17. CASE UNCHANGED recVars
  BY <1>1, <1>17 DEF recVars
<1> QED
  BY <1>2, <1>3, <1>5, <1>6, <1>7, <1>8, <1>9, <1>10, <1>11, <1>12, <1>13, <1>14, <1>15, <1>16,
     <1>17 DEF RecNext

\* All but the types.
RestInv ==
  /\ RowsPast /\ FilesPast /\ Active /\ FlightsShown /\ MarksShown /\ Deleting /\ Chosen
  /\ OnlyItsRecordingsLost

\* Steps that leave sessions, files and sidecars alone.
LEMMA QuietStep ==
  ASSUME RecInv, RecTypes', UNCHANGED <<rows, flights, files, meta, lost>>, now' \in {now, now + 1},
         recording' \in {recording, None}, recorded' \in {recording, recorded, None},
         session' \in {session, None}, Deleting', Chosen'
  PROVE  RestInv'
<1> USE DEF RecInv, Exists, Showing, Before, None
<1>1. now <= now'
  BY DEF RecTypes
<1>2. RowsPast' /\ Active'
  BY <1>1 DEF RowsPast, RecTypes, Rows, Active
<1>3. FilesPast'
  BY <1>1, NamesNat DEF FilesPast, RecTypes
<1>4. None \notin Ids
  BY RecordingsConstants DEF Ids
<1>5. FlightsShown'
  BY <1>4 DEF FlightsShown
<1>6. MarksShown'
  BY <1>4 DEF MarksShown
<1>7. OnlyItsRecordingsLost'
  BY DEF OnlyItsRecordingsLost
<1> QED
  BY <1>2, <1>3, <1>5, <1>6, <1>7 DEF RestInv

\* A session starts: its flight is a new one, later than all files, and shown from now on.
LEMMA StartSessionStep ==
  ASSUME RecInv, RecTypes', StartSession
  PROVE  RestInv'
<1> USE DEF None
<1>1. PICK id \in Ids :
        /\ rows[id] = NoRow /\ session' = id
        /\ rows' = [rows EXCEPT ![id] = [flight |-> flights + 1, start |-> now, end |-> None]]
  <2>1. PICK id \in Ids :
          /\ FreshId(id) /\ session' = id
          /\ rows' = [rows EXCEPT ![id] = [flight |-> flights + 1, start |-> now, end |-> None]]
    BY DEF StartSession
  <2>2. id >= id
    BY RecordingsConstants DEF Ids
  <2> QED
    BY <2>1, <2>2 DEF FreshId
<1>2. /\ now' = now + 1 /\ session = None /\ flights' = flights + 1 /\ files' = Shows(flights + 1)
      /\ UNCHANGED <<meta, recording, recorded, delete, lost>>
  BY DEF StartSession, Later
<1>3. /\ rows'[id] = [flight |-> flights + 1, start |-> now, end |-> None] /\ rows'[id] # NoRow
      /\ \A i \in Ids \ {id} : rows'[i] = rows[i]
  BY <1>1 DEF RecInv, RecTypes, NoRow
<1>4. \A n \in Names :
        /\ Exists(n)' <=> Exists(n)
        /\ Exists(n) => files'[n].began = files[n].began
        /\ Exists(n) => files[n].of \subseteq files'[n].of /\ files'[n].of \subseteq 1..(flights + 1)
        /\ recording = n /\ Exists(n) => flights + 1 \in files'[n].of
  <2>1. CASE recording = None \/ ~Exists(recording)
    BY <1>2, <2>1, NamesNat DEF Shows, Exists, RecInv, FilesPast, RecTypes
  <2>2. CASE recording # None /\ Exists(recording)
    <3>1. recording \in Names
      BY <2>2 DEF RecInv, RecTypes
    <3>2. files' = [files EXCEPT ![recording].of = @ \cup {flights + 1}]
      BY <1>2, <2>2 DEF Shows
    <3>3. \A n \in Names :
            files'[n] = IF n = recording THEN [files[n] EXCEPT !.of = @ \cup {flights + 1}] ELSE files[n]
      BY <3>1, <3>2 DEF RecInv, RecTypes
    <3>4. files'[recording].began = files[recording].began
          /\ files'[recording].of = files[recording].of \cup {flights + 1}
      BY <3>1, <3>3 DEF RecInv, RecTypes
    <3>5. files'[recording] # NoFile
      BY <3>4 DEF NoFile
    <3> QED
      BY <2>2, <3>3, <3>4, <3>5 DEF Exists, RecInv, FilesPast, RecTypes
  <2> QED
    BY <2>1, <2>2
<1>5. RowsPast' /\ Active'
  <2>1. \A i \in Ids : rows[i].flight \in 0..flights /\ rows[i].end \in Nat /\ rows[i].end < now
    BY RecordingsConstants DEF RecInv, RowsPast, RecTypes, Rows, NoRow
  <2>2. rows'[id].flight = flights + 1 /\ rows'[id].start = now /\ rows'[id].end = None
    BY <1>3
  <2>3. Active'
    BY <1>1, <1>3, <2>2 DEF Active
  <2>4. \A i \in Ids : rows'[i] # NoRow =>
          rows'[i].flight \in 1..flights' /\ rows'[i].start < now' /\ rows'[i].end < now'
    BY <1>2, <1>3, <2>1, <2>2 DEF RecInv, RowsPast, RecTypes, Rows
  <2>5. \A i, k \in Ids : i # k /\ rows'[i] # NoRow => rows'[i].flight # rows'[k].flight
    BY <1>3, <2>1, <2>2 DEF RecInv, RowsPast, RecTypes
  <2> QED
    BY <2>3, <2>4, <2>5 DEF RowsPast
<1>6. FilesPast'
  BY <1>2, <1>4, NamesNat DEF RecInv, FilesPast, RecTypes
<1>7. FlightsShown'
  <2>1. \A n \in Names : Exists(n) => files[n].began < now
    BY DEF RecInv, FilesPast
  <2> QED
    BY <1>1, <1>2, <1>3, <1>4, <2>1 DEF RecInv, FlightsShown, Showing, RecTypes
<1>8. MarksShown'
  <2>1. \A i \in Ids, n \in Names : meta'[n].sid = i => Before(i, n)'
    BY <1>1, <1>2, <1>3 DEF RecInv, MarksShown, Before
  <2>2. \A n \in Names : meta[n] # NoMark => meta[n].flight # rows'[id].flight
    BY <1>2, <1>3 DEF RecInv, FilesPast, RecTypes
  <2>3. \A i \in Ids \ {id}, n \in Names :
       rows[i] # NoRow /\ Exists(n) /\ meta[n] # NoMark /\ meta[n].flight = rows[i].flight /\ ~meta[n].stale =>
         Showing(i, n)' \/ (rows[i].end # None => rows[i].end < files'[n].began)
    BY <1>2, <1>3, <1>4 DEF RecInv, MarksShown, Showing
  <2> QED
    BY <1>1, <1>2, <1>3, <1>4, <2>1, <2>2, <2>3 DEF MarksShown
<1>9. Deleting' /\ Chosen'
  <2>1. delete.pc # "idle" => delete.sid # id
    BY <1>1 DEF RecInv, Deleting
  <2>2. delete.pc # "idle" => delete.sid \in Ids /\ rows'[delete.sid] = rows[delete.sid]
    BY <1>3, <2>1 DEF RecInv, Deleting
  <2>3. Deleting'
    BY <1>1, <1>2, <2>1, <2>2 DEF RecInv, Deleting
  <2>4. \A n \in Names : delete.pc # "idle" =>
          (Before(delete.sid, n) => Before(delete.sid, n)') /\ (Removed(n) => Removed(n)')
    BY <1>2, <1>4, <2>2 DEF Before, Removed
  <2>5. Chosen'
    BY <1>2, <2>2, <2>4 DEF RecInv, Chosen, RecTypes
  <2> QED
    BY <2>3, <2>5
<1>10. OnlyItsRecordingsLost'
  BY <1>2 DEF RecInv, OnlyItsRecordingsLost
<1> QED
  BY <1>5, <1>6, <1>7, <1>8, <1>9, <1>10 DEF RestInv

\* A session ends, with its recording or without, and perhaps with its sidecar.
LEMMA EndStep ==
  ASSUME RecInv, RecTypes', now' = now + 1, rows' = Ended, session' = None,
         recording' \in {recording, None}, recorded' \in {recording, recorded},
         UNCHANGED <<flights, files, delete, lost>>,
         \A m \in Names : meta'[m] = meta[m] \/ Written(m, session)
  PROVE  RestInv'
<1> USE DEF None
<1>1. session # None => rows'[session] = [rows[session] EXCEPT !.end = now]
  BY DEF Ended, RecInv, RecTypes
<1>2. session # None =>
        /\ rows'[session] # NoRow /\ rows'[session].end = now
        /\ rows'[session].flight = rows[session].flight /\ rows'[session].start = rows[session].start
  BY <1>1 DEF RecInv, RecTypes, Rows, NoRow, Active, RowsPast
<1>3. \A i \in Ids : i # session => rows'[i] = rows[i]
  BY DEF Ended, RecInv, RecTypes
<1>4. /\ session # None => FlightNow = rows[session].flight
      /\ \A m \in Names : Written(m, session) => m < now
  BY NamesNat DEF FlightNow, Written, RecInv, FilesPast
<1>5. None \notin Ids /\ now \in Nat /\ now # None /\ \A i \in Ids : rows[i] \in Rows
  BY RecordingsConstants DEF Ids, RecInv, RecTypes
<1>6. \A i \in Ids :
        /\ rows'[i].flight = rows[i].flight /\ rows'[i].start = rows[i].start
        /\ rows'[i].end = IF i = session THEN now ELSE rows[i].end
        /\ rows'[i] # NoRow <=> rows[i] # NoRow
  <2> SUFFICES ASSUME NEW i \in Ids
               PROVE  /\ rows'[i].flight = rows[i].flight /\ rows'[i].start = rows[i].start
                      /\ rows'[i].end = IF i = session THEN now ELSE rows[i].end
                      /\ rows'[i] # NoRow <=> rows[i] # NoRow
    OBVIOUS
  <2>1. CASE i = session
    BY <1>2, <1>5, <2>1 DEF RecInv, Active
  <2>2. CASE i # session
    BY <1>3, <2>2
  <2> QED
    BY <2>1, <2>2
<1>7. RowsPast' /\ Active'
  BY <1>5, <1>6 DEF RecInv, RowsPast, Rows, Active
<1>8. FilesPast'
  <2>1. session # None => rows[session].flight \in 1..flights
    BY DEF RecInv, Active, RowsPast, RecTypes
  <2>2. \A n \in Names : meta'[n] # NoMark =>
          meta'[n].sid # None /\ meta'[n].flight \in 1..flights /\ n < now
    <3> SUFFICES ASSUME NEW n \in Names, meta'[n] # NoMark
                 PROVE  meta'[n].sid # None /\ meta'[n].flight \in 1..flights /\ n < now
      OBVIOUS
    <3>1. CASE meta'[n] = meta[n]
      BY <3>1 DEF RecInv, FilesPast
    <3>2. CASE Written(n, session)
      BY <1>4, <2>1, <3>2 DEF Written
    <3> QED
      BY <3>1, <3>2
  <2>3. (recording' # None => recording' < now') /\ (recorded' # None => recorded' < now')
    BY <1>5, NamesNat DEF RecInv, FilesPast, RecTypes
  <2>4. \A n \in Names : n < now => n < now'
    BY <1>5, NamesNat
  <2>5. \A n \in Names : Exists(n) =>
          n = Second(files[n].began) /\ files[n].began < now' /\ files[n].of \subseteq 1..flights
    BY <1>5 DEF RecInv, FilesPast, RecTypes
  <2> QED
    BY <2>2, <2>3, <2>4, <2>5 DEF FilesPast, Exists
<1>9. FlightsShown'
  BY <1>5, <1>6 DEF RecInv, FlightsShown, Showing, Exists
<1>10. MarksShown'
  <2>1. ASSUME NEW i \in Ids, NEW n \in Names, meta'[n].sid = i
        PROVE  Before(i, n)'
    <3>1. n \in Nat /\ n < now
      BY <1>4, <1>5, <2>1, NamesNat DEF RecInv, FilesPast, NoMark
    <3>2. i # session => meta[n] = meta'[n]
      BY <2>1 DEF Written
    <3> QED
      BY <1>5, <1>6, <2>1, <3>1, <3>2 DEF RecInv, MarksShown, Before
  <2>2. ASSUME NEW i \in Ids, NEW n \in Names, rows[i] # NoRow, Exists(n), meta'[n] # NoMark,
               meta'[n].flight = rows[i].flight, ~meta'[n].stale
        PROVE  Showing(i, n) \/ (i # session /\ (rows[i].end # None => rows[i].end < files[n].began))
    <3>1. CASE meta'[n] = meta[n]
      BY <2>2, <3>1 DEF RecInv, MarksShown
    <3>2. CASE Written(n, session)
      <4>1. i = session /\ n = recording
        BY <1>4, <2>2, <3>2 DEF Written, RecInv, Active, RowsPast, RecTypes
      <4>2. Showing(session, recording)
        BY <1>5, <2>2, <3>2, <4>1, NamesNat DEF RecInv, FlightsShown, Written
      <4> QED
        BY <4>1, <4>2
    <3> QED
      BY <3>1, <3>2
  <2> QED
    BY <1>5, <1>6, <2>1, <2>2 DEF MarksShown, Showing, Exists
<1>11. Deleting' /\ Chosen'
  <2>1. \A n \in Names : meta'[n] = NoMark => meta[n] = NoMark
    BY DEF Written, NoMark
  <2>2. Deleting'
    BY <1>5, <1>6 DEF RecInv, Deleting
  <2>3. delete.pc # "idle" => rows'[delete.sid].start = rows[delete.sid].start
                              /\ rows'[delete.sid].end = rows[delete.sid].end
    BY <1>6 DEF RecInv, Deleting
  <2>4. \A n \in Names : delete.pc # "idle" =>
          (Before(delete.sid, n) => Before(delete.sid, n)') /\ (Removed(n) => Removed(n)')
    BY <2>1, <2>3 DEF Before, Removed, Exists
  <2>5. Chosen'
    BY <2>3, <2>4 DEF RecInv, Chosen, RecTypes
  <2> QED
    BY <2>2, <2>5
<1>12. OnlyItsRecordingsLost'
  BY DEF RecInv, OnlyItsRecordingsLost
<1> QED
  BY <1>7, <1>8, <1>9, <1>10, <1>11, <1>12 DEF RestInv

\* A recording begins: it shows the flight that goes on, and all others have ended before.
LEMMA StartRecordingStep ==
  ASSUME RecInv, RecTypes', StartRecording
  PROVE  RestInv'
<1> USE DEF None
<1>1. PICK s \in Names :
        /\ s = Second(now) /\ now \in Nat /\ s \in Nat /\ s <= now
        /\ now' = now + 1 /\ recording' = s /\ UNCHANGED <<rows, session, flights, meta, recorded, delete, lost>>
  BY NamesNat, Seconds DEF RecInv, RecTypes, StartRecording, Later
<1>2. /\ files'[s] = [began |-> now, of |-> {FlightNow} \ {None}]
      /\ \A n \in Names \ {s} : files'[n] = files[n]
  BY <1>1 DEF StartRecording, RecInv, RecTypes
<1>3. None \notin Ids /\ PerSecond \in Nat \ {0} /\ \A i \in Ids : rows[i] \in Rows
  BY RecordingsConstants DEF Ids, RecInv, RecTypes
<1>4. session # None => FlightNow = rows[session].flight /\ FlightNow \in 1..flights
  BY DEF FlightNow, RecInv, Active, RowsPast, RecTypes
<1>5. files'[s].began = now /\ files'[s].of \subseteq 1..flights /\ Exists(s)'
      /\ (session # None => FlightNow \in files'[s].of)
  <2>1. now # None
    BY <1>3 DEF RecInv, RecTypes
  <2>2. files'[s].began = now /\ files'[s].of = {FlightNow} \ {None}
    BY <1>2
  <2>3. Exists(s)'
    BY <2>1, <2>2 DEF Exists, NoFile
  <2>4. {FlightNow} \ {None} \subseteq 1..flights
    BY <1>4 DEF FlightNow
  <2> QED
    BY <1>4, <2>2, <2>3, <2>4
<1>6. RowsPast' /\ Active'
  BY <1>1, <1>3 DEF RecInv, RowsPast, Rows, Active
<1>7. FilesPast'
  <2>1. \A n \in Names : Exists(n)' => /\ n = Second(files'[n].began) /\ files'[n].began < now + 1
                                       /\ files'[n].of \subseteq 1..flights
    BY <1>1, <1>2, <1>5 DEF RecInv, FilesPast, Exists, RecTypes
  <2>2. /\ recorded' # None => recorded' < now'
        /\ recording' # None => recording' < now'
    BY <1>1, NamesNat DEF RecInv, FilesPast, RecTypes
  <2>3. ASSUME NEW n \in Names, meta'[n] # NoMark
        PROVE  meta'[n].sid # None /\ meta'[n].flight \in 1..flights' /\ n < now'
    <3>1. meta[n].sid # None /\ meta[n].flight \in 1..flights /\ n < now
      BY <1>1, <2>3 DEF RecInv, FilesPast
    <3>2. meta' = meta /\ flights' = flights /\ now' = now + 1 /\ now \in Nat
      BY ONLY <1>1
    <3>3. n \in Nat
      BY ONLY <2>3, NamesNat
    <3> QED
      BY ONLY <3>1, <3>2, <3>3
  <2> QED
    BY <1>1, <2>1, <2>2, <2>3 DEF FilesPast
<1>8. FlightsShown'
  <2>1. \A i \in Ids : rows[i] # NoRow => rows[i].end < now
    BY DEF RecInv, RowsPast
  <2>2. ASSUME NEW i \in Ids, NEW n \in Names, rows[i] # NoRow, Exists(n)',
               rows[i].start <= files'[n].began,
               i = session \/ (rows[i].end # None /\ files'[n].began <= rows[i].end)
        PROVE  Showing(i, n)'
    <3>1. CASE n = s
      <4>1. ~(now <= rows[i].end)
        BY <1>1, <1>3, <2>1, <2>2 DEF Rows
      <4>2. i = session
        BY <1>5, <2>2, <3>1, <4>1
      <4> QED
        BY <1>1, <1>3, <1>4, <1>5, <3>1, <4>2 DEF Showing
    <3>2. CASE n # s
      BY <1>1, <1>2, <2>2, <3>2 DEF RecInv, FlightsShown, Showing, Exists
    <3> QED
      BY <3>1, <3>2
  <2>3. session # None => Showing(session, s)'
    BY <1>1, <1>4, <1>5 DEF Showing
  <2> QED
    BY <1>1, <2>2, <2>3 DEF FlightsShown
<1>9. MarksShown'
  <2>1. \A i \in Ids : rows[i] # NoRow => rows[i].end < now
    BY DEF RecInv, RowsPast
  <2> QED
    BY <1>1, <1>2, <1>3, <1>4, <1>5, <2>1 DEF RecInv, MarksShown, Showing, Exists, Before
<1>10. Deleting' /\ Chosen'
  <2>1. delete.pc # "idle" => rows[delete.sid].end < now
    BY DEF RecInv, RowsPast, Deleting
  <2>2. \A n \in Names : delete.pc # "idle" /\ Removed(n) => Removed(n)'
    BY <1>1, <1>2, <1>5, <2>1 DEF Removed, Exists
  <2> QED
    BY <1>1, <2>2 DEF RecInv, Deleting, Chosen, Before, RecTypes
<1>11. OnlyItsRecordingsLost'
  BY <1>1 DEF RecInv, OnlyItsRecordingsLost
<1> QED
  BY <1>6, <1>7, <1>8, <1>9, <1>10, <1>11 DEF RestInv

\* A recording ends with a sidecar, on disarm: the session goes on, and is shown.
LEMMA AutoStopRecordingStep ==
  ASSUME RecInv, RecTypes', AutoStopRecording
  PROVE  RestInv'
<1> USE DEF None
<1>1. /\ UNCHANGED <<now, rows, session, flights, files, delete, lost>>
      /\ recording' = None /\ recorded' \in {recording, recorded}
  BY StopMarks DEF AutoStopRecording, RecInv, RecTypes
<1>2. \A m \in Names : meta'[m] = meta[m] \/ Written(m, session)
  BY StopMarks DEF AutoStopRecording, RecInv, RecTypes
<1>3. None \notin Ids
  BY RecordingsConstants DEF Ids
<1>4. /\ session # None => FlightNow = rows[session].flight
      /\ \A m \in Names : Written(m, session) => m < now
  BY NamesNat DEF FlightNow, Written, RecInv, FilesPast
<1>10. RowsPast' /\ Active'
  BY <1>1 DEF RecInv, RowsPast, Active
<1>5. FilesPast'
  <2>1. session # None => rows[session].flight \in 1..flights
    BY DEF RecInv, Active, RowsPast, RecTypes
  <2>2. \A n \in Names : meta'[n] # NoMark =>
          meta'[n].sid # None /\ meta'[n].flight \in 1..flights /\ n < now
    <3> SUFFICES ASSUME NEW n \in Names, meta'[n] # NoMark
                 PROVE  meta'[n].sid # None /\ meta'[n].flight \in 1..flights /\ n < now
      OBVIOUS
    <3>1. CASE meta'[n] = meta[n]
      BY <3>1 DEF RecInv, FilesPast
    <3>2. CASE Written(n, session)
      BY <1>4, <2>1, <3>2 DEF Written
    <3> QED
      BY <1>2, <3>1, <3>2
  <2> QED
    BY <1>1, <2>2 DEF RecInv, FilesPast, Exists
<1>6. FlightsShown'
  BY <1>1 DEF RecInv, FlightsShown, Showing, Exists
<1>7. MarksShown'
  <2>1. \A i \in Ids, n \in Names : meta'[n].sid = i => Before(i, n)
    BY <1>2 DEF RecInv, MarksShown, Before, Active, Written
  <2>2. ASSUME NEW i \in Ids, NEW n \in Names, rows[i] # NoRow, Exists(n), meta'[n] # NoMark,
               meta'[n].flight = rows[i].flight, ~meta'[n].stale
        PROVE  Showing(i, n) \/ (i # session /\ (rows[i].end # None => rows[i].end < files[n].began))
    <3>1. CASE meta'[n] = meta[n]
      BY <2>2, <3>1 DEF RecInv, MarksShown
    <3>2. CASE Written(n, session)
      <4>1. i = session /\ n = recording
        BY <1>4, <2>2, <3>2 DEF Written, RecInv, Active, RowsPast, RecTypes
      <4>2. Showing(session, recording)
        BY <2>2, <3>2, <4>1, NamesNat DEF RecInv, FlightsShown, Written
      <4> QED
        BY <4>1, <4>2
    <3> QED
      BY <1>2, <3>1, <3>2
  <2> QED
    BY <1>1, <2>1, <2>2 DEF MarksShown, Showing, Exists, Before
<1>8. Deleting' /\ Chosen'
  <2>1. \A n \in Names : meta'[n] = NoMark => meta[n] = NoMark
    BY <1>2 DEF Written, NoMark
  <2> QED
    BY <1>1, <2>1 DEF RecInv, Deleting, Chosen, Before, Removed, Exists, RecTypes
<1>9. OnlyItsRecordingsLost'
  BY <1>1 DEF RecInv, OnlyItsRecordingsLost
<1> QED
  BY <1>5, <1>6, <1>7, <1>8, <1>9, <1>10 DEF RestInv

\* A file or a sidecar, or both, or none go.
LEMMA UnlinkStep ==
  ASSUME RecInv, RecTypes', UNCHANGED <<now, rows, session, flights, recording, recorded>>,
         \A n \in Names : (files'[n] = files[n] /\ meta'[n] = meta[n])
           \/ (files'[n] = NoFile /\ (meta'[n] = meta[n] \/ meta'[n] = NoMark))
  PROVE  /\ RowsPast' /\ FilesPast' /\ Active' /\ FlightsShown' /\ MarksShown'
         /\ \A n \in Names : delete'.sid = delete.sid /\ Removed(n) => Removed(n)'
<1> USE DEF None
<1>1. None \notin Ids /\ NoMark.sid = None
  BY RecordingsConstants DEF Ids, NoMark
<1>2. /\ \A n \in Names : Exists(n)' => files'[n] = files[n] /\ meta'[n] = meta[n] /\ Exists(n)
      /\ \A n \in Names : meta'[n] # NoMark => meta'[n] = meta[n]
  BY DEF Exists
<1>3. RowsPast' /\ Active'
  BY DEF RecInv, RowsPast, Active
<1>4. FilesPast'
  BY <1>2 DEF RecInv, FilesPast
<1>5. FlightsShown'
  <2>1. recording # None => recording \in Names
    BY DEF RecInv, RecTypes
  <2> QED
    BY <1>2, <2>1 DEF RecInv, FlightsShown, Showing
<1>6. MarksShown'
  <2>1. \A i \in Ids, n \in Names : meta'[n].sid = i => Before(i, n)'
    BY <1>1, <1>2 DEF RecInv, MarksShown, Before
  <2>2. ASSUME NEW i \in Ids, NEW n \in Names, rows[i] # NoRow, Exists(n)', meta'[n] # NoMark,
               meta'[n].flight = rows[i].flight, ~meta'[n].stale
        PROVE  Showing(i, n)' \/ (i # session /\ (rows[i].end # None => rows[i].end < files'[n].began))
    BY <1>2, <2>2 DEF RecInv, MarksShown, Showing
  <2> QED
    BY <2>1, <2>2 DEF MarksShown
<1>7. \A n \in Names : delete'.sid = delete.sid /\ Removed(n) => Removed(n)'
  BY <1>2 DEF Removed
<1> QED
  BY <1>3, <1>4, <1>5, <1>6, <1>7

\* DELETE /recordings/{filename}.
LEMMA DeleteRecordingStep ==
  ASSUME RecInv, RecTypes', DeleteRecording
  PROVE  RestInv'
<1>1. PICK m \in Names : Unlink(m)
  BY DEF DeleteRecording, Present
<1>2. UNCHANGED <<now, rows, session, flights, recording, recorded, delete, lost>>
  BY DEF DeleteRecording
<1>3. \A n \in Names : (files'[n] = files[n] /\ meta'[n] = meta[n])
        \/ (files'[n] = NoFile /\ (meta'[n] = meta[n] \/ meta'[n] = NoMark))
  BY <1>1, Unlinking DEF RecInv
<1>4. /\ RowsPast' /\ FilesPast' /\ Active' /\ FlightsShown' /\ MarksShown'
      /\ \A n \in Names : Removed(n) => Removed(n)'
  BY <1>2, <1>3, UnlinkStep
<1>5. Deleting' /\ Chosen'
  BY <1>2, <1>4 DEF RecInv, Deleting, Chosen, Before, RecTypes
<1>6. OnlyItsRecordingsLost'
  BY <1>2 DEF RecInv, OnlyItsRecordingsLost
<1> QED
  BY <1>4, <1>5, <1>6 DEF RestInv

\* A file goes with the session: chosen for a sidecar, or for a second of the session, it shows
\* its flight unless an exception holds.
LEMMA DeleteFileStep ==
  ASSUME RecInv, RecTypes', DeleteFile
  PROVE  RestInv'
<1> USE DEF None
<1> DEFINE sid == delete.sid
           r == rows[sid]
<1>1. /\ delete.pc = "files" /\ sid \in Ids /\ r # NoRow /\ sid # session /\ r \in Rows
      /\ UNCHANGED <<now, rows, session, flights, recording, recorded>>
  BY DEF DeleteFile, RecInv, Deleting, RecTypes
<1>2. PICK n \in delete.left :
        /\ delete' = [delete EXCEPT !.left = @ \ {n}]
        /\ IF Exists(n) THEN Unlink(n) ELSE UNCHANGED <<files, meta>>
        /\ lost' = IF Exists(n) /\ files'[n] = NoFile
                   THEN [flight |-> r.flight, of |-> files[n].of, name |-> n,
                         start |-> r.start, end |-> r.end, mark |-> meta[n]]
                   ELSE lost
  BY DEF DeleteFile, SessionRange
<1>3. n \in Names
  BY <1>2 DEF RecInv, RecTypes
<1>4. \A m \in Names : (files'[m] = files[m] /\ meta'[m] = meta[m])
        \/ (files'[m] = NoFile /\ (meta'[m] = meta[m] \/ meta'[m] = NoMark))
  <2>1. CASE Exists(n)
    BY <1>2, <1>3, <2>1, Unlinking DEF RecInv
  <2>2. CASE ~Exists(n)
    BY <1>2, <2>2
  <2> QED
    BY <2>1, <2>2
<1>5. delete'.sid = sid /\ delete'.pc = "files" /\ delete'.left \subseteq delete.left
  BY <1>1, <1>2 DEF RecInv, RecTypes
<1>6. /\ RowsPast' /\ FilesPast' /\ Active' /\ FlightsShown' /\ MarksShown'
      /\ \A m \in Names : Removed(m) => Removed(m)'
  BY <1>1, <1>4, <1>5, UnlinkStep
<1>7. Deleting'
  BY <1>1, <1>5 DEF Deleting
<1>8. Chosen'
  BY <1>1, <1>5, <1>6 DEF RecInv, Chosen, Before, RecTypes
<1>9. OnlyItsRecordingsLost'
  <2>1. CASE ~(Exists(n) /\ files'[n] = NoFile)
    BY <1>2, <2>1 DEF RecInv, OnlyItsRecordingsLost
  <2>2. CASE Exists(n) /\ files'[n] = NoFile
    <3>1. /\ lost'.flight = r.flight /\ lost'.of = files[n].of /\ lost'.name = n
          /\ lost'.end = r.end /\ lost'.mark = meta[n]
      BY <1>2, <2>2
    <3>2. SUFFICES ASSUME r.flight \notin files[n].of, r.end # None,
                          meta[n].flight = r.flight \/ meta[n] = NoMark, ~meta[n].stale
                   PROVE  n = Second(r.end)
      BY <3>1 DEF OnlyItsRecordingsLost
    <3> DEFINE b == files[n].began
    <3>3. b \in Nat /\ r.start \in Nat /\ r.end \in Nat /\ n \in Nat /\ n = Second(b) /\ n <= b
      BY <1>1, <1>3, <2>2, NamesNat, Seconds DEF RecInv, RecTypes, Rows, FilesPast
    <3>4. ~Showing(sid, n)
      BY <3>2 DEF Showing
    <3>5. Before(sid, n) /\ (Removed(n) \/ r.start <= n)
      BY <1>1, <1>2 DEF RecInv, Chosen
    <3>6. r.end < b
      <4>1. CASE meta[n] # NoMark
        BY <1>1, <1>3, <2>2, <3>2, <3>4, <4>1 DEF RecInv, MarksShown
      <4>2. CASE meta[n] = NoMark /\ Removed(n)
        BY <2>2, <3>2, <4>2 DEF Removed
      <4>3. CASE r.start <= n
        <5>1. r.start <= b
          BY <3>3, <4>3
        <5>2. ~(b <= r.end)
          BY <1>1, <1>3, <2>2, <3>2, <3>4, <5>1 DEF RecInv, FlightsShown
        <5> QED
          BY <3>3, <5>2
      <4> QED
        BY <3>5, <4>1, <4>2, <4>3
    <3>7. n <= r.end
      BY <3>2, <3>5 DEF Before
    <3> HIDE DEF b
    <3>8. Second(b) <= r.end /\ r.end <= b
      BY <3>3, <3>6, <3>7
    <3> QED
      BY <3>3, <3>8, Seconds
  <2> QED
    BY <2>1, <2>2
<1> QED
  BY <1>6, <1>7, <1>8, <1>9 DEF RestInv

\* The row goes.
LEMMA DeleteCommitStep ==
  ASSUME RecInv, RecTypes', DeleteCommit
  PROVE  RestInv'
<1> USE DEF None
<1>1. /\ delete.sid \in Ids /\ delete.sid # session /\ delete'.pc = "idle"
      /\ UNCHANGED <<now, session, flights, files, meta, recording, recorded, lost>>
  BY DEF DeleteCommit, RecInv, Deleting, Idle
<1>2. \A i \in Ids : rows'[i] = IF i = delete.sid THEN NoRow ELSE rows[i]
  BY DEF DeleteCommit, RecInv, RecTypes
<1>3. NoRow.end = None /\ NoRow.flight = None
  BY DEF NoRow
<1>4. RowsPast' /\ Active'
  <2>1. \A i \in Ids : rows[i] # NoRow => rows[i].flight # None
    BY DEF RecInv, RowsPast, RecTypes
  <2> QED
    BY <1>1, <1>2, <1>3, <2>1 DEF RecInv, RowsPast, Active, RecTypes
<1>5. FilesPast'
  BY <1>1 DEF RecInv, FilesPast, Exists
<1>6. FlightsShown'
  BY <1>1, <1>2 DEF RecInv, FlightsShown, Showing, Exists, RecTypes
<1>7. MarksShown'
  BY <1>1, <1>2, <1>3 DEF RecInv, MarksShown, Showing, Exists, Before
<1>8. Deleting' /\ Chosen'
  BY <1>1 DEF Deleting, Chosen
<1>9. OnlyItsRecordingsLost'
  BY <1>1 DEF RecInv, OnlyItsRecordingsLost
<1> QED
  BY <1>4, <1>5, <1>6, <1>7, <1>8, <1>9 DEF RestInv

\* Every step keeps the invariant.
LEMMA RecStepInv == RecInv /\ [RecNext]_recVars => RecInv'
<1> SUFFICES ASSUME RecInv, [RecNext]_recVars PROVE RecInv'
  OBVIOUS
<1> USE DEF None
<1>1. RecTypes'
  BY TypesStep
<1> SUFFICES RestInv'
  BY <1>1 DEF RecInv, RestInv
<1>2. None \notin Ids
  BY RecordingsConstants DEF Ids
<1>3. CASE Tick
  BY <1>1, <1>3, QuietStep DEF Tick, Later, RecInv, Deleting, Chosen, Before, Removed, Exists
<1>4. CASE StartSession
  BY <1>1, <1>4, StartSessionStep
<1>5. CASE EndSession
  BY <1>1, <1>5, EndStep DEF EndSession, Later
<1>6. CASE StopSession
  <2>1. /\ \A m \in Names : meta'[m] = meta[m] \/ Written(m, session)
        /\ recording' \in {recording, None} /\ recorded' \in {recording, recorded}
    <3>1. CASE recording = None
      BY <1>6, <3>1 DEF StopSession
    <3>2. CASE recording # None
      BY <1>6, <3>2, StopMarks DEF StopSession, RecInv, RecTypes
    <3> QED
      BY <3>1, <3>2
  <2> QED
    BY <1>1, <1>6, <2>1, EndStep DEF StopSession, Later
<1>7. CASE Crash
  <2>1. Deleting' /\ Chosen'
    BY <1>7 DEF Crash, Idle, Deleting, Chosen
  <2> QED
    BY <1>1, <1>7, <2>1, QuietStep DEF Crash
<1>8. CASE StartRecording
  BY <1>1, <1>8, StartRecordingStep
<1>9. CASE StopRecording
  BY <1>1, <1>9, QuietStep DEF StopRecording, RecInv, Deleting, Chosen, Before, Removed, Exists
<1>10. CASE AutoStopRecording
  BY <1>1, <1>10, AutoStopRecordingStep
<1>11. CASE DeleteRecording
  BY <1>1, <1>11, DeleteRecordingStep
<1>12. ASSUME NEW sid \in Ids, DeleteCheck(sid) PROVE RestInv'
  <2>1. Deleting' /\ Chosen'
    BY <1>12 DEF DeleteCheck, Deletable, Idle, Deleting, Chosen
  <2> QED
    BY <1>1, <1>12, <2>1, QuietStep DEF DeleteCheck
<1>13. CASE DeleteScan
  <2>1. delete'.pc = "filter" /\ delete'.sid = delete.sid /\ delete'.marks = MarkedFor(delete.sid)
        /\ delete.sid \in Ids /\ delete.pc # "idle"
        /\ UNCHANGED <<now, rows, session, flights, files, meta, recording, recorded, lost>>
    BY <1>13 DEF DeleteScan, RecInv, RecTypes, Deleting
  <2>2. \A n \in MarkedFor(delete.sid) : Before(delete.sid, n) /\ meta[n] # NoMark
    BY <1>2, <2>1 DEF MarkedFor, RecInv, MarksShown, NoMark
  <2>3. Deleting' /\ Chosen'
    BY <2>1, <2>2 DEF RecInv, Deleting, Chosen, Before, Removed, Exists
  <2> QED
    BY <1>1, <2>1, <2>3, QuietStep
<1>14. CASE DeleteFilter
  <2>1. /\ delete'.pc = "files" /\ delete'.sid = delete.sid /\ delete.sid \in Ids /\ delete.pc = "filter"
        /\ \A n \in delete'.left : InRange(n, rows[delete.sid]) \/ n \in delete.marks
        /\ UNCHANGED <<now, rows, session, flights, files, meta, recording, recorded, lost>>
    BY <1>14 DEF DeleteFilter, RecInv, RecTypes, Deleting, Idle, SessionRange, Matches
  <2>2. \A n \in delete'.left : Before(delete.sid, n) /\ (Removed(n) \/ rows[delete.sid].start <= n)
    BY <2>1 DEF RecInv, Chosen, InRange, End, Before
  <2>3. Deleting' /\ Chosen'
    BY <2>1, <2>2 DEF RecInv, Deleting, Chosen, Before, Removed, Exists
  <2> QED
    BY <1>1, <2>1, <2>3, QuietStep
<1>15. CASE DeleteFile
  BY <1>1, <1>15, DeleteFileStep
<1>16. CASE DeleteCommit
  BY <1>1, <1>16, DeleteCommitStep
<1>17. CASE UNCHANGED recVars
  BY <1>1, <1>17, QuietStep DEF recVars, RecInv, Deleting, Chosen, Before, Removed, Exists
<1> QED
  BY <1>3, <1>4, <1>5, <1>6, <1>7, <1>8, <1>9, <1>10, <1>11, <1>12, <1>13, <1>14, <1>15, <1>16,
     <1>17 DEF RecNext

-----------------------------------------------------------------------------
(* Recordings: the theorems.                                               *)

\* The invariant holds in every state.
THEOREM RecInductive == RecSpec => []RecInv
BY RecInitInv, RecStepInv, PTL DEF RecSpec

\* RecTypeOK holds in every state: the active session has an open row, flights have a row each, files
\* are named after the second they began in.
THEOREM RecTypeCorrect == RecSpec => []RecTypeOK
<1>1. RecInv => RecTypeOK
  <2> SUFFICES ASSUME RecInv PROVE RecTypeOK
    OBVIOUS
  <2> USE DEF RecInv
  <2>1. \A n \in Present : n = Second(files[n].began) /\ files[n].of \subseteq 1..flights
    BY DEF FilesPast, Present
  <2>2. {recording, recorded} \subseteq Names \cup {None}
    BY DEF RecTypes
  <2>3. delete.pc \in {"idle", "scan", "filter", "files"} /\ delete.left \subseteq Names
    BY DEF RecTypes
  <2> QED
    BY <2>1, <2>2, <2>3 DEF RecTypeOK, Active, RowsPast
<1> QED
  BY <1>1, RecInductive, PTL

\* A delete of a session takes no recording of another, for any number of sessions and recordings,
\* crashes and reused ids, but for the cases listed (delete_recordings_for_session).
THEOREM OwnLost == RecSpec => []OnlyItsRecordingsLost
<1>1. RecInv => OnlyItsRecordingsLost
  BY DEF RecInv
<1> QED
  BY <1>1, RecInductive, PTL

\* A recording begun in a flight is listed with it, unless its name says a second in which the
\* flight had not begun and no sidecar says better (get_recordings).
THEOREM OwnListed == RecSpec => []RecordingsListed
<1>1. RecInv => RecordingsListed
  <2> SUFFICES ASSUME RecInv, NEW i \in Ids, NEW n \in Present, rows[i] # NoRow,
                      rows[i].start <= files[n].began,
                      rows[i].end = None \/ files[n].began <= rows[i].end
               PROVE  n \in Listed(i) \/ (n < rows[i].start /\ meta[n].sid # i)
    BY DEF RecordingsListed
  <2>1. /\ n \in Names /\ n \in Nat /\ files[n].began \in Nat /\ n = Second(files[n].began)
        /\ n <= files[n].began /\ files[n].began < now /\ rows[i] \in Rows /\ now \in Nat
    BY NamesNat, Seconds DEF Present, RecInv, RecTypes, FilesPast
  <2>2. n <= End(rows[i])
    BY <2>1 DEF End, Rows, None
  <2>3. CASE n < rows[i].start /\ meta[n].sid # i
    BY <2>3
  <2>4. CASE rows[i].start <= n \/ meta[n].sid = i
    BY <2>1, <2>2, <2>4 DEF Listed, GetRecordings, SessionRange, Matches, InRange, MarkedFor
  <2> QED
    BY <2>1, <2>3, <2>4 DEF Rows
<1> QED
  BY <1>1, RecInductive, PTL
===============================================================================
