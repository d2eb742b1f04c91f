------------------------------- MODULE JobBoard -------------------------------
(***************************************************************************)
(* What AiInferenceScheduler promises to those who submit (the docstrings  *)
(* of ai/scheduler.py): one job runs at a time, the jobs of users run in   *)
(* the order they came, every job is answered at most once, and every job  *)
(* of a user is answered. Inference implements it.                         *)
(***************************************************************************)
CONSTANTS Jobs, User

VARIABLES
  status,  \* of each job: none, waiting, running, ok or failed
  ahead    \* of each job of a user that waits: those of users that came before it and wait still

Init == status = [j \in Jobs |-> "none"] /\ ahead = [j \in Jobs |-> {}]

\* submit(): from the answer that was collected to a job that waits.
Submit(j) ==
  /\ status[j] = "none"
  /\ status' = [status EXCEPT ![j] = "waiting"]
  /\ ahead' = IF j \in User
              THEN [ahead EXCEPT ![j] = {k \in User : status[k] = "waiting"}] ELSE ahead

\* The worker starts a job, or gives it up before it has run: nothing else runs, and no user is
\* overtaken by another.
Run(j) ==
  /\ status[j] = "waiting"
  /\ \A k \in Jobs : status[k] # "running"
  /\ ahead[j] = {}
  /\ \E turn \in {"running", "failed"} : status' = [status EXCEPT ![j] = turn]
  /\ ahead' = [k \in Jobs |-> ahead[k] \ {j}]

\* The future of the job gets its result or its exception.
Settle(j) ==
  /\ status[j] = "running"
  /\ \E answer \in {"ok", "failed"} : status' = [status EXCEPT ![j] = answer]
  /\ UNCHANGED ahead

\* The submitter takes the answer.
Collect(j) ==
  /\ status[j] \in {"ok", "failed"}
  /\ status' = [status EXCEPT ![j] = "none"]
  /\ UNCHANGED ahead

Next == \E j \in Jobs : Submit(j) \/ Run(j) \/ Settle(j) \/ Collect(j)

Safety == Init /\ [][Next]_<<status, ahead>>

\* The worker does not leave a user's job alone.
Service ==
  /\ \A j \in User : WF_<<status, ahead>>(Settle(j))
  /\ SF_<<status, ahead>>(\E j \in User : Run(j))

Spec == Safety /\ Service
===============================================================================
