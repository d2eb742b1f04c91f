------------------------------- MODULE Inference -------------------------------
(***************************************************************************)
(* The inference scheduler of the language model and the requests it       *)
(* serves: one queue, one worker, a thermal state read before and after    *)
(* every job, background jobs that are put back while the board is hot,    *)
(* and debriefs that are saved by session id when their answer has come.   *)
(* Sources: ai/scheduler.py, system/thermal.py, ai/ollama_task_service.py, *)
(* ai/ollama_service.py, services/debrief_service.py,                      *)
(* api/routers/sessions.py, services/persistence.py.                       *)
(*                                                                         *)
(* Everything runs on one event loop: an action is what happens between    *)
(* two awaits. Deletes and starts of sessions run in threads. The row      *)
(* followed is the one with the highest id, which a delete frees and the   *)
(* next start takes again. main creates only jobs of users; background     *)
(* jobs are what ScheduledOllamaAiService submits where it is used.        *)
(***************************************************************************)
EXTENDS Naturals, Sequences

CONSTANTS
  Jobs,        \* requests that may be under way at a time
  User,        \* the dashboard's: user_triggered
  Boards,      \* the readings of the board: [temp, flags]
  MaxFlights,  \* bound: sessions that get the id followed
  MaxAsks,     \* bound: requests made
  MaxHeats     \* bound: changes of the board's temperature

ASSUME InferenceConstants ==
  /\ User \subseteq Jobs
  /\ MaxFlights \in Nat \ {0} /\ MaxAsks \in Nat /\ MaxHeats \in Nat

NoFlight == 0
NoJob == "no job"
ASSUME NoJobAssumption == NoJob \notin Jobs
Unavailable == MaxFlights + 1  \* the fallback text of a failed inference

VARIABLES
  queue,    \* AiInferenceScheduler._queue
  worker,   \* [pc, job]: where run() is, and the job it holds
  future,   \* of each request: none, pending, ok or failed
  subject,  \* of each request: the flight its prompt describes
  board,    \* the board's temperature and throttling flags
  row,      \* the flight whose row has the id followed, or NoFlight
  debrief,  \* generated_debrief_summary of that row: the flight it describes
  flights, asks, heats,  \* bounds: counters
  crossed   \* history: the row went away while a request about it waited

vars == <<queue, worker, future, subject, board, row, debrief, flights, asks, heats, crossed>>

-----------------------------------------------------------------------------
\* get_thermal_state: any current throttling bit, else the temperature; unreadable is normal.
ThermalState(b) ==
  CASE b.flags -> "throttled"
    [] ~b.flags /\ b.temp = "unread" -> "normal"
    [] ~b.flags /\ b.temp # "unread" -> b.temp

Init ==
  /\ queue = <<>> /\ worker = [pc |-> "get", job |-> NoJob]
  /\ future = [j \in Jobs |-> "none"] /\ subject = [j \in Jobs |-> NoFlight]
  /\ board \in Boards
  /\ row = 1 /\ debrief = NoFlight
  /\ flights = 1 /\ asks = 0 /\ heats = 0 /\ crossed = FALSE

\* Mutants: a job that comes is put first; a deferred job is lost.
PutFirst(j) == <<j>> \o queue

\* asyncio.Queue.put.
Put(j) == Append(queue, j)

PutBackNot(j) == queue

\* A job that cannot run now goes behind every other.
PutBack(j) == Append(queue, j)

\* submit(): the job goes to the tail, its caller waits on the future.
Submit(j) ==
  /\ future[j] = "none" /\ asks < MaxAsks /\ asks' = asks + 1
  /\ future' = [future EXCEPT ![j] = "pending"]
  /\ queue' = Put(j)

\* GET /sessions/{sid}/debrief?generate_summary=true: the flight is read from the rows now, the
\* prompt carries it to the model. Without rows the answer is 404.
AskDebrief(j) ==
  /\ j \in User /\ row # NoFlight
  /\ Submit(j)
  /\ subject' = [subject EXCEPT ![j] = row]
  /\ UNCHANGED <<worker, board, row, debrief, flights, heats, crossed>>

\* ScheduledOllamaAiService.infer.
InferBackground(j) ==
  /\ j \notin User
  /\ Submit(j)
  /\ UNCHANGED <<worker, subject, board, row, debrief, flights, heats, crossed>>

\* POST /ai/telemetry-summary and /ai/event-classification: nothing is saved.
AskTask(j) ==
  /\ j \in User
  /\ Submit(j)
  /\ UNCHANGED <<worker, subject, board, row, debrief, flights, heats, crossed>>

-----------------------------------------------------------------------------
(* AiInferenceScheduler.run.                                               *)

At(pc) == worker.pc = pc
Goto(pc) == worker' = [worker EXCEPT !.pc = pc]

Get ==
  /\ At("get") /\ queue # <<>>
  /\ worker' = [pc |-> "thermal", job |-> Head(queue)]
  /\ queue' = Tail(queue)
  /\ UNCHANGED <<future, subject, board, row, debrief, flights, asks, heats, crossed>>

\* The thermal state, read in a thread, decides: a background job goes back to the tail while the
\* board is hot or throttled, a user's job is only delayed while it is throttled.
ReadThermal ==
  /\ At("thermal")
  /\ LET thermal == ThermalState(board) user == worker.job \in User IN
     \/ /\ thermal \in {"hot", "throttled"} /\ ~user
        /\ queue' = PutBack(worker.job) /\ worker' = [pc |-> "pause", job |-> NoJob]
     \/ thermal = "throttled" /\ user /\ Goto("delay") /\ UNCHANGED queue
     \/ (thermal \in {"normal", "warm"} \/ (thermal = "hot" /\ user)) /\ Goto("run") /\ UNCHANGED queue
  /\ UNCHANGED <<future, subject, board, row, debrief, flights, asks, heats, crossed>>

\* The read raises what get_thermal_state does not catch: the job fails without having run.
ThermalFails ==
  /\ At("thermal") /\ worker' = [pc |-> "get", job |-> NoJob]
  /\ future' = [future EXCEPT ![worker.job] = "failed"]
  /\ UNCHANGED <<queue, subject, board, row, debrief, flights, asks, heats, crossed>>

\* 30 s or 15 s with nothing running, whoever waits.
Paused ==
  /\ At("pause") /\ Goto("get")
  /\ UNCHANGED <<queue, future, subject, board, row, debrief, flights, asks, heats, crossed>>

Delayed ==
  /\ At("delay") /\ Goto("run")
  /\ UNCHANGED <<queue, future, subject, board, row, debrief, flights, asks, heats, crossed>>

\* The model answers, fails or times out (httpx.Timeout).
Answer ==
  /\ At("run") /\ Goto("cool")
  /\ \E answer \in {"ok", "failed"} : future' = [future EXCEPT ![worker.job] = answer]
  /\ UNCHANGED <<queue, subject, board, row, debrief, flights, asks, heats, crossed>>

\* The cooldown; its length depends on the thermal state read once more, which may raise: none then.
Cooled ==
  /\ At("cool") /\ worker' = [pc |-> "get", job |-> NoJob]
  /\ UNCHANGED <<queue, future, subject, board, row, debrief, flights, asks, heats, crossed>>

-----------------------------------------------------------------------------
\* Mutant: any text is saved.
SavedAlways(answer) == TRUE

\* The route and save_generated_debrief both turn away the fallback text.
Saved(answer) == answer = "ok"

\* infer_task: the summary of the flight the prompt described, or the fallback text.
Text(j) == IF future[j] = "ok" THEN subject[j] ELSE Unavailable

\* The request goes on when its future is done, and saves in the row that has the id now.
Wake(j) ==
  /\ future[j] \in {"ok", "failed"}
  /\ future' = [future EXCEPT ![j] = "none"]
  /\ subject' = [subject EXCEPT ![j] = NoFlight]
  /\ debrief' = IF subject[j] # NoFlight /\ Saved(future[j]) /\ row # NoFlight
                 THEN Text(j) ELSE debrief
  /\ UNCHANGED <<queue, worker, board, row, flights, asks, heats, crossed>>

\* DELETE /sessions/{sid}: the row and its columns go.
DeleteSession ==
  /\ row # NoFlight
  /\ row' = NoFlight /\ debrief' = NoFlight
  /\ crossed' = (crossed \/ \E j \in User : subject[j] = row)
  /\ UNCHANGED <<queue, worker, future, subject, board, flights, asks, heats>>

\* The next session takes the id again.
StartSession ==
  /\ row = NoFlight /\ flights < MaxFlights
  /\ flights' = flights + 1 /\ row' = flights + 1 /\ debrief' = NoFlight
  /\ UNCHANGED <<queue, worker, future, subject, board, asks, heats, crossed>>

\* The board warms up and cools down as it likes.
Heat ==
  /\ heats < MaxHeats /\ heats' = heats + 1
  /\ \E b \in Boards \ {board} : board' = b
  /\ UNCHANGED <<queue, worker, future, subject, row, debrief, flights, asks, crossed>>

Work == Get \/ ReadThermal \/ ThermalFails \/ Paused \/ Delayed \/ Answer \/ Cooled

Next ==
  \/ \E j \in Jobs : AskDebrief(j) \/ AskTask(j) \/ InferBackground(j) \/ Wake(j)
  \/ Work \/ DeleteSession \/ StartSession \/ Heat

\* The event loop runs the worker and the handlers; sleeps end, and the model answers or its
\* request times out. Nothing makes a request come, a session end or the board cool down.
Fairness == WF_vars(Work) /\ \A j \in Jobs : WF_vars(Wake(j))

Spec == Init /\ [][Next]_vars /\ Fairness

-----------------------------------------------------------------------------
\* The queue and the worker hold each job that waits exactly once.
TypeOK ==
  /\ queue \in Seq(Jobs)
  /\ worker \in [pc : {"get", "thermal", "pause", "delay", "run", "cool"}, job : Jobs \cup {NoJob}]
  /\ future \in [Jobs -> {"none", "pending", "ok", "failed"}]
  /\ subject \in [Jobs -> 0..MaxFlights] /\ crossed \in BOOLEAN
  /\ flights \in Nat /\ asks \in Nat /\ heats \in Nat /\ board \in Boards
  /\ row \in 0..MaxFlights /\ debrief \in 0..Unavailable
  /\ \A i, k \in DOMAIN queue : i # k => queue[i] # queue[k]
  /\ \A j \in Jobs : future[j] = "pending" <=>
       \/ \E i \in DOMAIN queue : queue[i] = j
       \/ worker.job = j /\ worker.pc \in {"thermal", "delay", "run"}

\* A saved debrief describes the flight in whose row it is, unless that id was deleted and given
\* away while the debrief was being generated; the fallback text is never saved
\* (get_session_debrief_route, PersistenceService.save_generated_debrief).
DebriefOfItsFlight == debrief \in {NoFlight, row} \/ (crossed /\ debrief # Unavailable)

BoardStatus(j) ==
  CASE future[j] # "pending" -> future[j]
    [] future[j] = "pending" /\ worker.job = j /\ worker.pc \in {"delay", "run"} -> "running"
    [] OTHER -> "waiting"

\* The users' jobs that wait in front of j: the one whose turn it is, and those before it in the
\* queue.
Ahead(j) ==
  {k \in User : \E i \in DOMAIN queue :
     /\ j \in User /\ queue[i] = j
     /\ \/ At("thermal") /\ worker.job = k
        \/ \E h \in 1..(i - 1) : queue[h] = k}

\* The refinement mapping: what the futures, the queue and the worker are on the board.
boardStatus == [j \in Jobs |-> BoardStatus(j)]
boardAhead == [j \in Jobs |-> Ahead(j)]
Board == INSTANCE JobBoard WITH Jobs <- Jobs, User <- User, status <- boardStatus, ahead <- boardAhead

\* The scheduler keeps what JobBoard promises, at any temperature: one job at a time, users in
\* their order, and one answer each (AiInferenceScheduler.run).
IsJobBoard == Board!Safety

\* No user waits for ever.
UsersServed == Board!Service

Cool == ThermalState(board) \in {"normal", "warm"}

\* A background job is answered if the board is cool from some point on, however often it was
\* put back before.
BackgroundAnswered ==
  <>[]Cool => \A j \in Jobs \ User : future[j] = "pending" ~> future[j] # "pending"

\* Jobs are answered: those of users always, the others on a board that cools down (the two `put'
\* and the delay of AiInferenceScheduler.run).
JobsAnswered == UsersServed /\ BackgroundAnswered
===============================================================================
