------------------------------- MODULE Settings -------------------------------
(***************************************************************************)
(* The settings: the unit's environment, settings.json, the process        *)
(* environment that the getters of config.py read, the AI services built   *)
(* from it, and the saves that rewrite file and environment and reload the *)
(* services. Sources: settings.py, config.py, main.py,                     *)
(* api/routers/settings.py, runtime/ai_subsystem.py.                       *)
(*                                                                         *)
(* Five keys stand for the kinds there are: the provider and the model of  *)
(* the language model (reloaded on save), a flag of the AI HAT that the    *)
(* environment overrides, the recording mode, whose getter prefers the     *)
(* file, and the telemetry backend, reconciled at start; AI_MODE is the    *)
(* legacy key. Saves run on the event loop, one at a time. What a save of  *)
(* the backend reconnects is TelemetryConnection.                          *)
(***************************************************************************)
EXTENDS Naturals

CONSTANTS
  Units,   \* environments a unit may start the process with
  Files,   \* contents settings.json may have at first
  Updates  \* bodies of POST /settings, partial functions on the keys

Canonical == {"provider", "model", "hat", "camera", "backend"}
Keys == Canonical \cup {"mode"}
Unset == ""

\* Mutant: a save of the model reloads nothing.
AiKeysProvider == {"provider"}

\* AI_SUBSYSTEM_KEYS.
AiKeys == {"provider", "model"}

\* _ENV_OVERRIDABLE_KEYS.
Overridable == {"hat"}

Nothing == [k \in Keys |-> Unset]

ASSUME SettingsConstants ==
  /\ \A e \in Units \cup Files : DOMAIN e = Keys
  /\ \A u \in Updates : DOMAIN u \subseteq Keys

VARIABLES
  up,         \* the process runs
  unit,       \* the environment it was started with
  file,       \* settings.json: its keys; a file that is not there has none
  torn,       \* it cannot be parsed
  env,        \* os.environ
  explicit,   \* _provider_explicit
  scheduler,  \* main made an inference scheduler
  services,   \* AiSubsystemHolder: the provider and the model they were built for
  answer,     \* history: what the last save of an AI key was told
  saved,      \* history: of each key, the value that the last save asked for, whatever became of it;
              \* from a start on, what there is left of it
  disk        \* history: whether the file has that value, an older one, or none

vars == <<up, unit, file, torn, env, explicit, scheduler, services, answer, saved, disk>>

-----------------------------------------------------------------------------
(* config.py                                                               *)

Default(k) == CASE k = "model" -> "m1" [] k = "hat" -> "0" [] k = "camera" -> "manual"
                [] k = "backend" -> "mock" [] k = "provider" -> Unset

Or(a, b) == IF a # Unset THEN a ELSE b

\* The names a getter knows; any other is read as if there were none.
Providers == {"mock", "ollama"}
Modes == {"off", "manual", "auto"}
LegacyModes == {"mock", "ollama", "lmstudio", "aihat"}

OfMode(mode) == IF mode = "ollama" THEN "ollama" ELSE "mock"

\* get_local_llm_provider: the key, else the legacy mode, else ollama.
Provider(e) ==
  IF e["provider"] \in Providers THEN e["provider"]
  ELSE IF e["provider"] = "lmstudio" THEN "mock"
  ELSE IF e["mode"] # Unset THEN OfMode(e["mode"]) ELSE "ollama"

\* _resolve_ai_hat_enabled.
Hat(e) == IF e["hat"] \in {"0", "1"} THEN e["hat"] ELSE IF e["mode"] = "aihat" THEN "1" ELSE "0"

\* What a reader finds in the file.
Content(f, broken) == IF broken THEN Nothing ELSE f

\* get_camera_recording_mode, by way of get_raw_settings: the file first.
Mode(e, f) ==
  LET mode == Or(f["camera"], e["camera"]) IN IF mode \in Modes THEN mode ELSE Default("camera")

\* What the program uses for a key.
Used(k) ==
  CASE k = "provider" -> Provider(env)
    [] k = "hat" -> Hat(env)
    [] k = "camera" -> Mode(env, Content(file, torn))
    [] k \in {"model", "backend"} -> Or(env[k], Default(k))

\* get_raw_settings and get_effective_settings: what the page shows.
Shown(k) ==
  LET f == Content(file, torn) IN
  CASE k \in Overridable /\ env[k] # Unset -> Hat(env)
    [] ~(k \in Overridable /\ env[k] # Unset) /\ f[k] # Unset -> f[k]
    [] k = "provider" /\ f[k] = Unset -> Provider(env)
    [] k = "hat" /\ f[k] = Unset /\ env[k] = Unset -> Hat(env)
    [] k \in Canonical \ {"provider", "hat"} /\ f[k] = Unset -> Or(env[k], Default(k))

-----------------------------------------------------------------------------
(* Start: load_settings, reconcile_telemetry_env_from_settings_file, main. *)

\* What is in the environment already stays.
Loaded(u, f) == [k \in Keys |-> Or(u[k], f[k])]

ProviderIsExplicit(u, f) == u["provider"] # Unset \/ f["provider"] # Unset \/ f["mode"] # Unset

\* Ollama answers or not.
Discovered(e, ready) == [e EXCEPT !["provider"] = IF ready THEN "ollama" ELSE "mock"]

\* A saved serial link wins over mock in the environment if its port is there.
Reconciled(e, f, port) ==
  IF f["backend"] = "serial" /\ port THEN [e EXCEPT !["backend"] = "serial"] ELSE e

\* The task service; the model is only for ollama.
Configured(e) ==
  [provider |-> Provider(e), model |-> IF Provider(e) = "ollama" THEN Or(e["model"], Default("model")) ELSE Unset]

NoServices == [provider |-> "none", model |-> Unset]

Init ==
  /\ up = FALSE /\ unit = Nothing /\ file \in Files /\ torn = FALSE /\ env = Nothing
  /\ explicit = TRUE /\ scheduler = FALSE /\ services = NoServices /\ answer = "none"
  /\ saved = [k \in Canonical |-> file[k]] /\ disk = [k \in Canonical |-> "written"]

Start ==
  /\ ~up /\ up' = TRUE
  /\ \E u \in Units, ready \in BOOLEAN, port \in BOOLEAN :
       LET f == Content(file, torn) e == Loaded(u, f) IN
       /\ unit' = u
       /\ explicit' = ProviderIsExplicit(u, f)
       /\ env' = Reconciled(IF ProviderIsExplicit(u, f) THEN e ELSE Discovered(e, ready), f, port)
  /\ scheduler' = (Provider(env') = "ollama")
  /\ services' = Configured(env')
  /\ answer' = "live"
  /\ saved' = [k \in Canonical |-> IF disk[k] = "written" THEN saved[k] ELSE Content(file, torn)[k]]
  /\ disk' = [k \in Canonical |-> "written"]
  /\ UNCHANGED <<file, torn>>

\* With the process its environment and its services are gone.
Down ==
  /\ up /\ up' = FALSE /\ unit' = Nothing /\ env' = Nothing
  /\ explicit' = TRUE /\ scheduler' = FALSE /\ services' = NoServices /\ answer' = "none"

Stop == Down /\ UNCHANGED <<file, torn, saved, disk>>

-----------------------------------------------------------------------------
(* POST /settings.                                                         *)

Given(u, k) == IF k \in DOMAIN u THEN u[k] ELSE Unset

\* _migrate_legacy_to_canonical, without the legacy key it leaves behind.
Migrated(u) ==
  LET mode == Given(u, "mode")
      provider == IF Given(u, "provider") = "lmstudio" THEN "mock" ELSE Given(u, "provider")
      derived == mode \in LegacyModes /\ provider = Unset
      aihat == mode = "aihat" /\ (provider = Unset \/ "hat" \notin DOMAIN u)
  IN [k \in (DOMAIN u \cap Canonical) \cup (IF derived THEN {"provider"} ELSE {})
                                       \cup (IF aihat THEN {"hat"} ELSE {}) |->
        CASE k = "provider" -> IF derived THEN OfMode(mode) ELSE provider
          [] k = "hat" -> IF aihat THEN "1" ELSE u[k]
          [] k \notin {"provider", "hat"} -> u[k]]

\* Mutants: the other keys are forgotten; the environment keeps its values.
KeptNone == Nothing

PutNot(e, m) == e

\* save_settings keeps the canonical keys of a file it can read.
Kept == [Content(file, torn) EXCEPT !["mode"] = Unset]

\* A value is written, an empty one removes the key; in the environment too.
Put(e, m) == [k \in Keys |-> IF k \in DOMAIN m THEN m[k] ELSE e[k]]

WriteFile(m) ==
  /\ file' = [k \in Keys |-> IF k \in DOMAIN m THEN m[k] ELSE Kept[k]]
  /\ torn' = FALSE
  /\ disk' = [k \in Canonical |-> IF k \in DOMAIN m THEN "written" ELSE disk[k]]

\* The file cannot be opened (a read-only file system, too many files) and stays as it was.
MissFile(m) ==
  /\ disk' = [k \in Canonical |->
                IF k \notin DOMAIN m THEN disk[k] ELSE IF file[k] = Unset THEN "gone" ELSE "older"]
  /\ UNCHANGED <<file, torn>>

\* The file is truncated, then written: in between it is empty, and its keys are lost.
TearFile == torn' = TRUE /\ file' = Nothing /\ disk' = [k \in Canonical |-> "gone"]

\* Mutant: Ollama is taken without a scheduler.
ReloadableUnscheduled(before, after) == before = after

\* _reload_ai_subsystem refuses a change of provider, and ollama without a scheduler.
Reloadable(before, after) == before = after /\ (after = "ollama" => scheduler)

\* Only the keys that the body names are looked at, not those derived from a legacy one.
Reload(u) ==
  IF DOMAIN u \cap AiKeys = {}
  THEN /\ answer' = IF "mode" \in DOMAIN u THEN "unnoticed" ELSE answer
       /\ UNCHANGED services
  ELSE IF Reloadable(Provider(env), Provider(env'))
  THEN answer' = "live" /\ services' = Configured(env')
  ELSE answer' = "refused" /\ UNCHANGED services

\* The environment is changed before the file is opened.
Save(u) ==
  /\ up
  /\ env' = Put(env, Migrated(u))
  /\ saved' = [k \in Canonical |-> IF k \in DOMAIN Migrated(u) THEN Migrated(u)[k] ELSE saved[k]]
  /\ UNCHANGED <<up, unit, explicit, scheduler>>

PostSettings(u) == Save(u) /\ WriteFile(Migrated(u)) /\ Reload(u)

\* The file cannot be opened, or not be written (a full disk): no service is reloaded. (When the
\* directory cannot be made nothing has changed yet.)
PostFails(u) ==
  /\ Save(u)
  /\ MissFile(Migrated(u)) \/ TearFile
  /\ answer' = "failed"
  /\ UNCHANGED services

\* The process is killed between the truncation and the end of the write.
CrashInSave == Down /\ TearFile /\ UNCHANGED saved

Next ==
  \/ Start \/ Stop \/ CrashInSave
  \/ \E u \in Updates : PostSettings(u) \/ PostFails(u)

Spec == Init /\ [][Next]_vars

-----------------------------------------------------------------------------
\* A key never saved has its first value, the legacy key goes with the first save; there are
\* services once there has been a start.
TypeOK ==
  /\ \A e \in {unit, env, file} : DOMAIN e = Keys
  /\ DOMAIN saved = Canonical /\ disk \in [Canonical -> {"written", "older", "gone"}]
  /\ services.provider \in {"none", "mock", "ollama"} /\ (up => services # NoServices)
  /\ answer \in {"none", "live", "refused", "unnoticed", "failed"}
  /\ file["mode"] # Unset => file \in Files

\* The mode of the recordings is read in the file first, which may be an older one.
Overruled(k) == k = "camera" /\ (saved[k] \notin Modes \/ disk[k] = "older")

\* What a save asked for is used at once, even if the save fails and the file is torn; after a restart
\* all that was written before or after a failure still is; unless the unit's environment has the key
\* (save_settings, load_settings, reconcile_telemetry_env_from_settings_file).
SavedIsUsed ==
  up => \A k \in Canonical :
          \/ unit[k] # Unset
          \/ saved[k] = Unset
          \/ env[k] = saved[k] /\ (k = "camera" => Overruled(k) \/ Used(k) = saved[k])

\* A value by a name its getter knows: nothing validates the body of a save, nor an old file.
Known(k, v) == (k = "provider" => v \in Providers) /\ (k = "camera" => v \in Modes)

\* The services are asked what they were built for, the other parts read their keys when they need them.
Running(k) ==
  CASE k = "provider" -> services.provider
    [] k = "model" /\ services.provider = "ollama" -> services.model
    [] k \notin {"provider", "model"} \/ (k = "model" /\ services.provider # "ollama") -> Used(k)

\* The settings page shows what the getters read and, unless the last save of the AI keys was refused
\* or failed or went unnoticed, what the services run with; except for keys that the unit's environment
\* sets too, values no getter knows, and keys of a save that could not open the file
\* (get_effective_settings, the getters of config.py, _reload_ai_subsystem).
ShownIsUsed ==
  up => \A k \in Canonical :
          \/ unit[k] # Unset
          \/ ~Known(k, Shown(k))
          \/ disk[k] = "older" /\ k # "camera"
          \/ Shown(k) = Used(k) /\ (answer = "live" => Shown(k) = Running(k))

\* Requests never reach Ollama around the scheduler, whatever was saved and refused since the
\* start (_reload_ai_subsystem, _create_task_service).
OllamaIsScheduled == up /\ services.provider = "ollama" => scheduler

\* After a save that was answered with `apply immediately' the AI services are those of the
\* settings, until a save is refused, fails or sets the provider by its legacy name
\* (post_settings, _reload_ai_subsystem).
LiveIsLive == up /\ answer = "live" => services = Configured(env)
===============================================================================
