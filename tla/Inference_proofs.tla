--------------------------- MODULE Inference_proofs ---------------------------
(***************************************************************************)
(* Proofs about Inference, for any set of requests and any boards: its     *)
(* types, the debriefs that are saved, and every step of the scheduler     *)
(* mapped to a step of JobBoard.                                           *)
(***************************************************************************)
EXTENDS Inference, TLAPS

\* The worker has a job exactly while it works on one, and the job it works on is not in the queue.
Working ==
  /\ worker.job = NoJob <=> worker.pc \in {"get", "pause"}
  /\ worker.pc \in {"thermal", "delay", "run"} => \A i \in DOMAIN queue : queue[i] # worker.job

\* A request about a flight is a user's and under way, and its flight has the row unless the
\* row has gone away since.
Asked ==
  \A j \in Jobs : subject[j] # NoFlight =>
    j \in User /\ future[j] # "none" /\ (subject[j] = row \/ crossed)

\* The flights that have had the id, and the last of them that may have the row.
Numbered == flights <= MaxFlights /\ row \in {NoFlight, flights}

IInv == TypeOK /\ Working /\ Asked /\ Numbered /\ DebriefOfItsFlight
-----------------------------------------------------------------------------
(* The queue.                                                              *)

\* What the queue and the worker hold is what is pending.
Holding(q, w, f) ==
  /\ \A i, k \in DOMAIN q : i # k => q[i] # q[k]
  /\ \A j \in Jobs : f[j] = "pending" <=>
       (\E i \in DOMAIN q : q[i] = j) \/ (w.job = j /\ w.pc \in {"thermal", "delay", "run"})

\* A job at the tail: the others keep their places.
LEMMA Appended ==
  ASSUME NEW q \in Seq(Jobs), NEW j \in Jobs
  PROVE  /\ Append(q, j) \in Seq(Jobs) /\ Len(Append(q, j)) = Len(q) + 1
         /\ Append(q, j)[Len(q) + 1] = j
         /\ \A i \in 1..Len(q) : Append(q, j)[i] = q[i]
OBVIOUS

\* The head taken away: the others move up.
LEMMA Taken ==
  ASSUME NEW q \in Seq(Jobs), q # <<>>
  PROVE  /\ Head(q) = q[1] /\ Head(q) \in Jobs /\ Tail(q) \in Seq(Jobs)
         /\ Len(q) \in Nat /\ Len(q) >= 1 /\ Len(Tail(q)) = Len(q) - 1
         /\ \A i \in 1..(Len(q) - 1) : Tail(q)[i] = q[i + 1]
         /\ \A i \in 2..Len(q) : q[i] = Tail(q)[i - 1]
OBVIOUS

\* The domain of a queue.
LEMMA Places == ASSUME NEW q \in Seq(Jobs) PROVE DOMAIN q = 1..Len(q) /\ Len(q) \in Nat
OBVIOUS

\* The invariant holds at first.
LEMMA Initially == Init => IInv
<1> SUFFICES ASSUME Init PROVE IInv
  OBVIOUS
<1>1. TypeOK
  <2>1. queue = <<>> /\ worker = [pc |-> "get", job |-> NoJob]
    BY DEF Init
  <2>2. /\ queue \in Seq(Jobs)
        /\ worker \in [pc : {"get", "thermal", "pause", "delay", "run", "cool"}, job : Jobs \cup {NoJob}]
    BY <2>1
  <2>3. /\ \A i, k \in DOMAIN queue : i # k => queue[i] # queue[k]
        /\ \A j \in Jobs : future[j] = "pending" <=>
             (\E i \in DOMAIN queue : queue[i] = j)
             \/ (worker.job = j /\ worker.pc \in {"thermal", "delay", "run"})
    BY <2>1 DEF Init
  <2>4. /\ future = [j \in Jobs |-> "none"] /\ subject = [j \in Jobs |-> 0] /\ crossed = FALSE
        /\ flights = 1 /\ asks = 0 /\ heats = 0
    BY DEF Init, NoFlight
  <2>5. row = 1 /\ debrief = 0 /\ board \in Boards
    BY DEF Init, NoFlight
  <2>6. row \in 0..MaxFlights /\ debrief \in 0..Unavailable
    BY <2>5, InferenceConstants DEF Unavailable
  <2> QED
    <3>1. future \in [Jobs -> {"none", "pending", "ok", "failed"}] /\ crossed \in BOOLEAN
      BY <2>4
    <3>2. 0 \in 0..MaxFlights
      BY InferenceConstants
    <3>3. subject \in [Jobs -> 0..MaxFlights]
      BY <2>4, <3>2
    <3> QED
      BY <2>2, <2>3, <2>4, <2>5, <2>6, <3>1, <3>3 DEF TypeOK
<1>2. Working /\ Asked /\ Numbered /\ DebriefOfItsFlight
  BY InferenceConstants, NoJobAssumption DEF Init, Working, Asked, Numbered, DebriefOfItsFlight,
     NoFlight
<1> QED
  BY <1>1, <1>2 DEF IInv

\* A request that comes waits in the queue.
LEMMA Submits ==
  ASSUME IInv, NEW j \in Jobs, Submit(j), UNCHANGED worker
  PROVE  /\ queue' \in Seq(Jobs) /\ future' \in [Jobs -> {"none", "pending", "ok", "failed"}]
         /\ asks' \in Nat
         /\ Holding(queue', worker', future') /\ Working'
         /\ future' = [future EXCEPT ![j] = "pending"]
<1>1. queue \in Seq(Jobs) /\ \A i \in DOMAIN queue : queue[i] # j
  BY DEF IInv, TypeOK, Submit
<1>2. queue' = Append(queue, j) /\ future[j] = "none" /\ future' = [future EXCEPT ![j] = "pending"]
  BY DEF Submit, Put
<1>3. worker.job # j \/ worker.pc \notin {"thermal", "delay", "run"}
  BY <1>2 DEF IInv, TypeOK
<1>4. queue' \in Seq(Jobs) /\ Working'
  BY <1>1, <1>2, <1>3, Appended, Places DEF IInv, TypeOK, Working
<1>5. Holding(queue', worker', future')
  <2>1. \A i, k \in DOMAIN queue' : i # k => queue'[i] # queue'[k]
    BY <1>1, <1>2, <1>4, Appended, Places DEF IInv, TypeOK
  <2>2. ASSUME NEW k \in Jobs
        PROVE (\E i \in DOMAIN queue' : queue'[i] = k) <=> k = j \/ \E i \in DOMAIN queue : queue[i] = k
    BY <1>1, <1>2, <1>4, Appended, Places
  <2>3. ASSUME NEW k \in Jobs
        PROVE future'[k] = "pending" <=> k = j \/ future[k] = "pending"
    BY <1>2 DEF IInv, TypeOK
  <2> QED
    BY <1>3, <2>1, <2>2, <2>3 DEF IInv, TypeOK, Holding
<1> QED
  BY <1>2, <1>4, <1>5 DEF IInv, TypeOK, Submit

\* The worker's steps leave the rest of the world alone.
LEMMA Works ==
  ASSUME IInv, Work
  PROVE  /\ UNCHANGED <<subject, board, row, debrief, flights, asks, heats, crossed>>
         /\ queue' \in Seq(Jobs) /\ future' \in [Jobs -> {"none", "pending", "ok", "failed"}]
         /\ worker' \in [pc : {"get", "thermal", "pause", "delay", "run", "cool"},
                         job : Jobs \cup {NoJob}]
         /\ Holding(queue', worker', future') /\ Working'
         /\ \A j \in Jobs : future'[j] = "none" <=> future[j] = "none"
<1> USE NoJobAssumption
<1>1. /\ queue \in Seq(Jobs) /\ future \in [Jobs -> {"none", "pending", "ok", "failed"}] /\ Working
      /\ worker \in [pc : {"get", "thermal", "pause", "delay", "run", "cool"}, job : Jobs \cup {NoJob}]
      /\ Holding(queue, worker, future)
  BY DEF IInv, TypeOK, Holding
<1>0. UNCHANGED <<subject, board, row, debrief, flights, asks, heats, crossed>>
  BY DEF Work, Get, ReadThermal, ThermalFails, Paused, Delayed, Answer, Cooled
<1>2. CASE Get
  <2>1. /\ worker.pc = "get" /\ worker.job = NoJob /\ queue # <<>> /\ UNCHANGED future
        /\ worker' = [pc |-> "thermal", job |-> Head(queue)] /\ queue' = Tail(queue)
    BY <1>1, <1>2 DEF Get, At, Working
  <2>2. /\ queue' \in Seq(Jobs) /\ worker'.job \in Jobs /\ worker'.pc = "thermal"
        /\ worker' \in [pc : {"get", "thermal", "pause", "delay", "run", "cool"}, job : Jobs \cup {NoJob}]
    BY <1>1, <2>1, Taken
  <2>3. \A i \in DOMAIN queue' : i + 1 \in DOMAIN queue /\ queue'[i] = queue[i + 1] /\ i + 1 # 1
    BY <1>1, <2>1, <2>2, Taken, Places
  <2>4. 1 \in DOMAIN queue /\ queue[1] = worker'.job
    BY <1>1, <2>1, Taken, Places
  <2>5. Working'
    BY <1>1, <2>2, <2>3, <2>4 DEF Working, Holding
  <2>6. ASSUME NEW j \in Jobs
        PROVE  (\E i \in DOMAIN queue : queue[i] = j) <=>
                 worker'.job = j \/ \E i \in DOMAIN queue' : queue'[i] = j
    <3>1. ASSUME NEW i \in DOMAIN queue, i # 1
          PROVE  i - 1 \in DOMAIN queue' /\ queue[i] = queue'[i - 1]
      <4>1. i \in 2..Len(queue) /\ i - 1 \in 1..Len(queue')
        BY <1>1, <2>1, <2>2, <3>1, Taken, Places
      <4> QED
        BY <1>1, <2>1, <2>2, <4>1, Taken, Places
    <3> QED
      BY <2>3, <2>4, <3>1
  <2>7. Holding(queue', worker', future')
    <3>1. \A i, k \in DOMAIN queue' : i # k => queue'[i] # queue'[k]
      BY <1>1, <2>2, <2>3, Places DEF Holding
    <3> QED
      BY <1>1, <2>1, <2>2, <2>6, <3>1 DEF Holding
  <2> QED
    BY <1>0, <1>1, <2>1, <2>2, <2>5, <2>7
<1>3. CASE ReadThermal
  <2>1. CASE worker' = [pc |-> "pause", job |-> NoJob] /\ queue' = Append(queue, worker.job)
    <3> DEFINE j == worker.job
    <3>1. j \in Jobs /\ worker.pc = "thermal" /\ UNCHANGED future
      BY <1>1, <1>3 DEF ReadThermal, At, Working
    <3>2. queue' \in Seq(Jobs) /\ worker'.pc = "pause" /\ worker'.job = NoJob
      BY <1>1, <2>1, <3>1, Appended
    <3>3. \A i, k \in DOMAIN queue' : i # k => queue'[i] # queue'[k]
      BY <1>1, <2>1, <3>1, <3>2, Appended, Places DEF Holding, Working
    <3>4. ASSUME NEW k \in Jobs
          PROVE (\E i \in DOMAIN queue' : queue'[i] = k) <=> k = j \/ \E i \in DOMAIN queue : queue[i] = k
      <4>1. DOMAIN queue' = DOMAIN queue \cup {Len(queue) + 1} /\ queue'[Len(queue) + 1] = j
        BY <1>1, <2>1, <3>1, <3>2, Appended, Places
      <4>2. \A i \in DOMAIN queue : queue'[i] = queue[i]
        BY <1>1, <2>1, <3>1, Appended, Places
      <4> QED
        BY <4>1, <4>2
    <3>5. Holding(queue', worker', future')
      BY <1>1, <3>1, <3>2, <3>3, <3>4 DEF Holding
    <3> QED
      BY <1>0, <1>1, <2>1, <3>1, <3>2, <3>5 DEF Working
  <2>2. CASE UNCHANGED queue /\ (Goto("delay") \/ Goto("run"))
    <3>1. /\ worker.pc = "thermal" /\ worker'.pc \in {"delay", "run"} /\ worker'.job = worker.job
          /\ worker' \in [pc : {"get", "thermal", "pause", "delay", "run", "cool"}, job : Jobs \cup {NoJob}]
      BY <1>1, <1>3, <2>2 DEF ReadThermal, At, Goto
    <3> QED
      BY <1>1, <1>3, <2>2, <3>1 DEF ReadThermal, Holding, Working
  <2> QED
    BY <1>3, <2>1, <2>2 DEF ReadThermal, PutBack
<1>4. CASE Paused \/ Delayed \/ Cooled
  <2>1. /\ UNCHANGED <<queue, future>>
        /\ worker' \in [pc : {"get", "thermal", "pause", "delay", "run", "cool"}, job : Jobs \cup {NoJob}]
        /\ \/ worker.pc \in {"pause", "cool"} /\ worker'.pc = "get" /\ worker'.job = NoJob
           \/ worker.pc = "delay" /\ worker'.pc = "run" /\ worker'.job = worker.job
    BY <1>1, <1>4 DEF Paused, Delayed, Cooled, At, Goto, Working
  <2> QED
    BY <1>1, <1>4, <2>1 DEF Paused, Delayed, Cooled, Holding, Working
<1>5. CASE Answer
  <2>1. PICK answer \in {"ok", "failed"} : future' = [future EXCEPT ![worker.job] = answer]
    BY <1>5 DEF Answer
  <2>2. /\ UNCHANGED queue /\ worker.pc = "run" /\ worker'.pc = "cool" /\ worker'.job = worker.job
        /\ worker' \in [pc : {"get", "thermal", "pause", "delay", "run", "cool"}, job : Jobs \cup {NoJob}]
        /\ worker.job \in Jobs
    BY <1>1, <1>5 DEF Answer, At, Goto, Working
  <2>3. \A j \in Jobs : future'[j] = IF j = worker.job THEN answer ELSE future[j]
    BY <1>1, <2>1
  <2>4. Holding(queue', worker', future') /\ future[worker.job] = "pending"
    BY <1>1, <2>2, <2>3 DEF Holding, Working
  <2> QED
    BY <1>1, <1>5, <2>1, <2>2, <2>3, <2>4 DEF Answer, Working
<1>6. CASE ThermalFails
  <2>1. /\ future' = [future EXCEPT ![worker.job] = "failed"] /\ UNCHANGED queue
        /\ worker.pc = "thermal" /\ worker.job \in Jobs
        /\ worker' = [pc |-> "get", job |-> NoJob]
    BY <1>1, <1>6 DEF ThermalFails, At, Working
  <2>2. /\ worker'.pc = "get" /\ worker'.job = NoJob
        /\ worker' \in [pc : {"get", "thermal", "pause", "delay", "run", "cool"}, job : Jobs \cup {NoJob}]
    BY <2>1
  <2>3. /\ future' \in [Jobs -> {"none", "pending", "ok", "failed"}]
        /\ \A j \in Jobs : future'[j] = IF j = worker.job THEN "failed" ELSE future[j]
    BY <1>1, <2>1
  <2>4. Holding(queue', worker', future') /\ future[worker.job] = "pending"
    BY <1>1, <2>1, <2>2, <2>3 DEF Holding, Working
  <2>5. Working'
    BY <1>1, <2>1, <2>2 DEF Working
  <2> QED
    BY <1>0, <1>1, <2>1, <2>2, <2>3, <2>4, <2>5
<1> QED
  BY <1>2, <1>3, <1>4, <1>5, <1>6 DEF Work

\* Every step keeps the invariant.
LEMMA Step == IInv /\ [Next]_vars => IInv'
<1> SUFFICES ASSUME IInv, [Next]_vars PROVE IInv'
  OBVIOUS
<1> USE InferenceConstants DEF NoFlight, Unavailable
<1>1. ASSUME NEW j \in Jobs, AskDebrief(j) \/ AskTask(j) \/ InferBackground(j) PROVE IInv'
  <2>1. Submit(j) /\ UNCHANGED <<worker, board, row, debrief, flights, heats, crossed>>
    BY <1>1 DEF AskDebrief, AskTask, InferBackground
  <2>2. /\ queue' \in Seq(Jobs) /\ future' \in [Jobs -> {"none", "pending", "ok", "failed"}]
        /\ asks' \in Nat /\ Holding(queue', worker', future') /\ Working'
        /\ future' = [future EXCEPT ![j] = "pending"]
    BY <2>1, Submits
  <2>3. subject' \in [Jobs -> 0..MaxFlights] /\ Asked'
    <3>1. \/ UNCHANGED subject
          \/ j \in User /\ subject' = [subject EXCEPT ![j] = row]
      BY <1>1 DEF AskDebrief, AskTask, InferBackground
    <3>2. subject' \in [Jobs -> 0..MaxFlights]
      BY <3>1 DEF IInv, TypeOK
    <3> QED
      <4>1. future[j] = "none" /\ UNCHANGED <<row, crossed>>
        BY <2>1 DEF Submit
      <4>2. \A k \in Jobs :
              /\ future'[k] = IF k = j THEN "pending" ELSE future[k]
              /\ subject'[k] = subject[k] \/ (k = j /\ k \in User /\ subject'[k] = row)
        BY <2>2, <3>1 DEF IInv, TypeOK
      <4>3. Asked'
        BY <4>1, <4>2 DEF IInv, Asked
      <4> QED
        BY <3>2, <4>3
  <2> QED
    BY <2>1, <2>2, <2>3 DEF IInv, TypeOK, Holding, Numbered, DebriefOfItsFlight
<1>2. CASE Work
  <2>1. /\ UNCHANGED <<subject, board, row, debrief, flights, asks, heats, crossed>>
        /\ Holding(queue', worker', future') /\ Working'
        /\ \A j \in Jobs : future'[j] = "none" <=> future[j] = "none"
    BY <1>2, Works
  <2>2. TypeOK'
    <3>1. /\ queue' \in Seq(Jobs) /\ future' \in [Jobs -> {"none", "pending", "ok", "failed"}]
          /\ worker' \in [pc : {"get", "thermal", "pause", "delay", "run", "cool"},
                          job : Jobs \cup {NoJob}]
      BY <1>2, Works
    <3>2. TypeOK /\ Holding(queue', worker', future')
      BY <2>1 DEF IInv
    <3> QED
      BY <2>1, <3>1, <3>2 DEF TypeOK, Holding
  <2>3. (Asked /\ Numbered /\ DebriefOfItsFlight)'
    BY <2>1 DEF IInv, Asked, Numbered, DebriefOfItsFlight
  <2> QED
    BY <2>1, <2>2, <2>3 DEF IInv, Holding
<1>3. ASSUME NEW j \in Jobs, Wake(j) PROVE IInv'
  <2>1. /\ UNCHANGED <<queue, worker, board, row, flights, asks, heats, crossed>>
        /\ future[j] \in {"ok", "failed"} /\ future' = [future EXCEPT ![j] = "none"]
        /\ subject' = [subject EXCEPT ![j] = NoFlight]
    BY <1>3 DEF Wake
  <2>2. /\ future' \in [Jobs -> {"none", "pending", "ok", "failed"}]
        /\ subject' \in [Jobs -> 0..MaxFlights] /\ Asked'
        /\ \A k \in Jobs : future'[k] = "pending" <=> future[k] = "pending"
    BY <2>1 DEF IInv, TypeOK, Asked
  <2>3. debrief' \in 0..Unavailable /\ DebriefOfItsFlight'
    BY <1>3 DEF Wake, Saved, Text, IInv, TypeOK, Asked, DebriefOfItsFlight
  <2> QED
    BY <2>1, <2>2, <2>3 DEF IInv, TypeOK, Working, Numbered
<1>4. CASE DeleteSession \/ StartSession
  <2>1. UNCHANGED <<queue, worker, future, subject, board, asks, heats>>
    BY <1>4 DEF DeleteSession, StartSession
  <2>2. /\ row' \in 0..MaxFlights /\ debrief' \in 0..Unavailable /\ flights' \in Nat /\ crossed' \in BOOLEAN
        /\ Numbered'
    <3>1. CASE DeleteSession
      BY <3>1 DEF DeleteSession, IInv, TypeOK, Numbered
    <3>2. CASE StartSession
      BY <3>2 DEF StartSession, IInv, TypeOK, Numbered
    <3> QED
      BY <1>4, <3>1, <3>2
  <2>3. Asked' /\ DebriefOfItsFlight'
    BY <1>4 DEF DeleteSession, StartSession, IInv, TypeOK, Asked, Numbered, DebriefOfItsFlight
  <2> QED
    BY <2>1, <2>2, <2>3 DEF IInv, TypeOK, Working
<1>5. CASE Heat
  BY <1>5 DEF Heat, IInv, TypeOK, Working, Asked, Numbered, DebriefOfItsFlight
<1>6. CASE UNCHANGED vars
  BY <1>6 DEF vars, IInv, TypeOK, Working, Asked, Numbered, DebriefOfItsFlight
<1> QED
  BY <1>1, <1>2, <1>3, <1>4, <1>5, <1>6 DEF Next

\* The inductive invariant is one.
THEOREM Inductive == Spec => []IInv
BY Initially, Step, PTL DEF Spec

\* Every variable has its type; the queue and the worker hold each job that waits exactly once.
THEOREM TypeCorrect == Spec => []TypeOK
BY Inductive, PTL DEF IInv

\* A saved debrief describes the flight of its row, unless the row went away while it was asked for.
THEOREM DebriefCorrect == Spec => []DebriefOfItsFlight
BY Inductive, PTL DEF IInv

-----------------------------------------------------------------------------
(* The job board.                                                          *)

\* What waits on the board is in the queue or is the job whose turn it is.
LEMMA Waiting ==
  ASSUME IInv, NEW j \in Jobs
  PROVE  /\ boardStatus[j] = "waiting" <=>
              (\E i \in DOMAIN queue : queue[i] = j) \/ (worker.pc = "thermal" /\ worker.job = j)
         /\ boardStatus[j] = "running" <=> worker.pc \in {"delay", "run"} /\ worker.job = j
         /\ boardStatus[j] \in {"none", "ok", "failed"} <=> future[j] # "pending"
         /\ future[j] # "pending" => boardStatus[j] = future[j]
BY DEF IInv, TypeOK, Working, boardStatus, BoardStatus

\* A request that comes waits behind the users that wait.
LEMMA BoardSubmit ==
  ASSUME IInv, IInv', NEW j \in Jobs, Submit(j), UNCHANGED worker
  PROVE  Board!Submit(j)
<1>1. /\ queue \in Seq(Jobs) /\ queue' = Append(queue, j) /\ future[j] = "none"
      /\ future' = [future EXCEPT ![j] = "pending"]
  BY DEF IInv, TypeOK, Submit, Put
<1>2. boardStatus[j] = "none"
  BY <1>1, Waiting
<1>3. boardStatus' = [boardStatus EXCEPT ![j] = "waiting"]
  <2>1. \A k \in Jobs : BoardStatus(k)' = IF k = j THEN "waiting" ELSE BoardStatus(k)
    <3>1. \A k \in Jobs : future'[k] = IF k = j THEN "pending" ELSE future[k]
      BY <1>1 DEF IInv, TypeOK
    <3>2. ~(worker.job = j /\ worker.pc \in {"delay", "run"})
      BY <1>1 DEF IInv, TypeOK
    <3> QED
      BY <3>1, <3>2 DEF BoardStatus
  <2> QED
    BY <2>1 DEF boardStatus
<1>4. /\ DOMAIN queue' = DOMAIN queue \cup {Len(queue) + 1} /\ queue'[Len(queue) + 1] = j
      /\ \A i \in DOMAIN queue : queue'[i] = queue[i] /\ i \in 1..Len(queue) /\ queue[i] # j
      /\ DOMAIN queue = 1..Len(queue) /\ Len(queue) \in Nat
  <2>1. \A i \in DOMAIN queue : queue[i] # j
    <3>1. \A k \in Jobs : (\E i \in DOMAIN queue : queue[i] = k) => future[k] = "pending"
      BY DEF IInv, TypeOK
    <3>2. future[j] # "pending"
      BY <1>1
    <3> QED
      BY <3>1, <3>2
  <2>2. DOMAIN queue = 1..Len(queue) /\ Len(queue) \in Nat /\ DOMAIN queue' = 1..(Len(queue) + 1)
    BY <1>1, Appended, Places
  <2> QED
    BY <1>1, <2>1, <2>2, Appended
<1>5. ASSUME NEW k \in Jobs, k # j PROVE Ahead(k)' = Ahead(k)
  BY <1>4, <1>5 DEF Ahead, At
<1>6. CASE j \in User
  <2>1. Ahead(j)' = {k \in User : boardStatus[k] = "waiting"}
    <3>1. ASSUME NEW k \in User
          PROVE  k \in Ahead(j)' <=>
                   (worker.pc = "thermal" /\ worker.job = k) \/ (\E h \in 1..Len(queue) : queue[h] = k)
      BY <1>4, <1>6 DEF Ahead, At
    <3>2. ASSUME NEW k \in User
          PROVE  boardStatus[k] = "waiting" <=>
                   (\E h \in 1..Len(queue) : queue[h] = k) \/ (worker.pc = "thermal" /\ worker.job = k)
      BY <1>4, Waiting, InferenceConstants
    <3> QED
      BY <3>1, <3>2 DEF Ahead
  <2>2. boardAhead' = [boardAhead EXCEPT ![j] = {k \in User : boardStatus[k] = "waiting"}]
    BY <1>5, <2>1 DEF boardAhead
  <2> QED
    BY <1>2, <1>3, <1>6, <2>2 DEF Board!Submit
<1>7. CASE j \notin User
  <2>1. Ahead(j)' = Ahead(j)
    BY <1>7 DEF Ahead
  <2>2. boardAhead' = boardAhead
    BY <1>5, <2>1 DEF boardAhead
  <2> QED
    BY <1>2, <1>3, <1>7, <2>2 DEF Board!Submit
<1> QED
  BY <1>6, <1>7

\* The board does not see what changes no status and no order.
LEMMA Unseen ==
  ASSUME \A k \in Jobs : BoardStatus(k)' = BoardStatus(k) /\ Ahead(k)' = Ahead(k)
  PROVE  UNCHANGED <<boardStatus, boardAhead>>
BY DEF boardStatus, boardAhead

\* The job at the head gets its turn, in front of all that wait.
LEMMA BoardGet == ASSUME IInv, IInv', Get PROVE UNCHANGED <<boardStatus, boardAhead>>
<1>1. /\ queue \in Seq(Jobs) /\ queue # <<>> /\ queue' = Tail(queue) /\ UNCHANGED future
      /\ worker.pc = "get" /\ worker' = [pc |-> "thermal", job |-> Head(queue)]
  BY DEF Get, At, IInv, TypeOK
<1>2. /\ 1 \in DOMAIN queue /\ worker'.job = queue[1] /\ worker'.pc = "thermal"
      /\ \A i \in DOMAIN queue' : i + 1 \in DOMAIN queue /\ queue'[i] = queue[i + 1]
      /\ \A i \in DOMAIN queue : i = 1 \/ (i - 1 \in DOMAIN queue' /\ queue[i] = queue'[i - 1])
      /\ DOMAIN queue = 1..Len(queue) /\ DOMAIN queue' = 1..Len(queue') /\ Len(queue) \in Nat
      /\ Len(queue') = Len(queue) - 1
  <2>1. /\ DOMAIN queue = 1..Len(queue) /\ DOMAIN queue' = 1..Len(queue') /\ Len(queue) \in Nat
        /\ Len(queue') = Len(queue) - 1 /\ Len(queue) >= 1
    BY <1>1, Taken, Places
  <2>2. worker'.job = queue[1] /\ worker'.pc = "thermal"
    BY <1>1, Taken
  <2>3. \A i \in DOMAIN queue' : i + 1 \in DOMAIN queue /\ queue'[i] = queue[i + 1]
    BY <1>1, <2>1, Taken
  <2>4. ASSUME NEW i \in DOMAIN queue, i # 1
        PROVE  i - 1 \in DOMAIN queue' /\ queue[i] = queue'[i - 1]
    <3>1. i \in 2..Len(queue) /\ i - 1 \in 1..Len(queue')
      BY <2>1, <2>4
    <3> QED
      BY <1>1, <2>1, <3>1, Taken
  <2> QED
    BY <2>1, <2>2, <2>3, <2>4
<1>3. ASSUME NEW k \in Jobs PROVE BoardStatus(k)' = BoardStatus(k)
  BY <1>1, <1>2 DEF BoardStatus
<1>4. ASSUME NEW k \in Jobs PROVE Ahead(k)' = Ahead(k)
  <2>1. ASSUME NEW u \in User, NEW i \in DOMAIN queue', queue'[i] = k,
               u = worker'.job \/ \E h \in 1..(i - 1) : queue'[h] = u
        PROVE  queue[i + 1] = k /\ \E h \in 1..i : queue[h] = u
    <3>1. CASE u = worker'.job
      BY <1>2, <2>1, <3>1
    <3>2. CASE \E h \in 1..(i - 1) : queue'[h] = u
      <4>1. PICK h \in 1..(i - 1) : queue'[h] = u
        BY <3>2
      <4>2. h \in DOMAIN queue' /\ h + 1 \in 1..i
        BY <1>2, <4>1
      <4> QED
        BY <1>2, <2>1, <4>1, <4>2
    <3> QED
      BY <2>1, <3>1, <3>2
  <2>2. ASSUME NEW u \in User, NEW i \in DOMAIN queue, queue[i] = k, NEW h \in 1..(i - 1), queue[h] = u
        PROVE  /\ i - 1 \in DOMAIN queue' /\ queue'[i - 1] = k
               /\ u = worker'.job \/ \E g \in 1..(i - 2) : queue'[g] = u
    <3>1. i # 1 /\ i - 1 \in DOMAIN queue' /\ queue'[i - 1] = k /\ h \in DOMAIN queue
      BY <1>2, <2>2
    <3>2. CASE h = 1
      BY <1>2, <2>2, <3>1, <3>2
    <3>3. CASE h # 1
      <4>1. h - 1 \in 1..(i - 2) /\ queue'[h - 1] = u
        BY <1>2, <2>2, <3>1, <3>3
      <4> QED
        BY <3>1, <4>1
    <3> QED
      BY <3>2, <3>3
  <2>3. Ahead(k)' \subseteq Ahead(k)
    BY <1>1, <1>2, <2>1 DEF Ahead, At
  <2>4. Ahead(k) \subseteq Ahead(k)'
    BY <1>1, <1>2, <2>2 DEF Ahead, At
  <2> QED
    BY <2>3, <2>4
<1> QED
  BY <1>3, <1>4, Unseen

\* A background job that is put back stays where the board has it; any other job starts to run.
LEMMA BoardRead ==
  ASSUME IInv, IInv', ReadThermal
  PROVE  UNCHANGED <<boardStatus, boardAhead>> \/ \E j \in Jobs : Board!Run(j)
<1> DEFINE j == worker.job
<1> USE NoJobAssumption, InferenceConstants
<1>1. /\ queue \in Seq(Jobs) /\ worker.pc = "thermal" /\ j \in Jobs /\ UNCHANGED future
      /\ \A i \in DOMAIN queue : queue[i] # j
  BY DEF ReadThermal, At, IInv, TypeOK, Working
<1>2. CASE j \notin User /\ queue' = Append(queue, j) /\ worker' = [pc |-> "pause", job |-> NoJob]
  <2>1. worker'.pc = "pause" /\ worker'.job = NoJob
    BY <1>2
  <2>2. /\ DOMAIN queue = 1..Len(queue) /\ Len(queue) \in Nat /\ DOMAIN queue' = 1..(Len(queue) + 1)
        /\ queue'[Len(queue) + 1] = j /\ \A i \in DOMAIN queue : queue'[i] = queue[i]
    BY <1>1, <1>2, Appended, Places
  <2>3. \A k \in Jobs : BoardStatus(k)' = BoardStatus(k)
    BY <1>1, <2>1 DEF BoardStatus
  <2>4. ASSUME NEW k \in Jobs PROVE Ahead(k)' = Ahead(k)
    BY <1>1, <1>2, <2>1, <2>2 DEF Ahead, At
  <2> QED
    BY <2>3, <2>4, Unseen
<1>3. CASE UNCHANGED queue /\ (Goto("delay") \/ Goto("run"))
  <2>1. worker'.pc \in {"delay", "run"} /\ worker'.job = j
    BY <1>1, <1>3 DEF Goto, IInv, TypeOK
  <2>2. boardStatus[j] = "waiting" /\ \A k \in Jobs : boardStatus[k] # "running"
    BY <1>1, Waiting
  <2>3. boardStatus' = [boardStatus EXCEPT ![j] = "running"]
    <3>1. \A k \in Jobs : BoardStatus(k)' = IF k = j THEN "running" ELSE BoardStatus(k)
      BY <1>1, <2>1 DEF BoardStatus, IInv, TypeOK
    <3> QED
      BY <3>1 DEF boardStatus
  <2>4. boardAhead[j] = {}
    BY <1>1 DEF boardAhead, Ahead
  <2>5. boardAhead' = [k \in Jobs |-> boardAhead[k] \ {j}]
    <3>1. ASSUME NEW k \in Jobs PROVE Ahead(k)' = Ahead(k) \ {j}
      <4>1. \A i \in DOMAIN queue : \A h \in 1..(i - 1) : h \in DOMAIN queue
        BY <1>1, Places
      <4> QED
        BY <1>1, <1>3, <2>1, <4>1 DEF Ahead, At
    <3> QED
      BY <3>1 DEF boardAhead
  <2> QED
    BY <1>1, <2>2, <2>3, <2>4, <2>5 DEF Board!Run
<1> QED
  BY <1>1, <1>2, <1>3 DEF ReadThermal, PutBack

\* A job whose thermal state cannot be read is given up in its turn.
LEMMA BoardFails == ASSUME IInv, IInv', ThermalFails PROVE \E j \in Jobs : Board!Run(j)
<1> DEFINE j == worker.job
<1> USE NoJobAssumption, InferenceConstants
<1>1. /\ queue \in Seq(Jobs) /\ worker.pc = "thermal" /\ j \in Jobs /\ UNCHANGED queue
      /\ future' = [future EXCEPT ![j] = "failed"] /\ \A i \in DOMAIN queue : queue[i] # j
  BY DEF ThermalFails, At, IInv, TypeOK, Working
<1>2. worker'.pc = "get" /\ worker'.job = NoJob
  BY DEF ThermalFails
<1>3. boardStatus[j] = "waiting" /\ \A k \in Jobs : boardStatus[k] # "running"
  BY <1>1, Waiting
<1>4. boardStatus' = [boardStatus EXCEPT ![j] = "failed"]
  <2>1. \A k \in Jobs : future'[k] = IF k = j THEN "failed" ELSE future[k]
    BY <1>1 DEF IInv, TypeOK
  <2>2. \A k \in Jobs : BoardStatus(k)' = IF k = j THEN "failed" ELSE BoardStatus(k)
    BY <1>1, <1>2, <2>1 DEF BoardStatus
  <2> QED
    BY <2>2 DEF boardStatus
<1>5. boardAhead[j] = {}
  BY <1>1 DEF boardAhead, Ahead
<1>6. boardAhead' = [k \in Jobs |-> boardAhead[k] \ {j}]
  <2>1. ASSUME NEW k \in Jobs PROVE Ahead(k)' = Ahead(k) \ {j}
    <3>1. \A i \in DOMAIN queue : \A h \in 1..(i - 1) : h \in DOMAIN queue
      BY <1>1, Places
    <3> QED
      BY <1>1, <1>2, <3>1 DEF Ahead, At
  <2> QED
    BY <2>1 DEF boardAhead
<1> QED
  BY <1>1, <1>3, <1>4, <1>5, <1>6 DEF Board!Run

\* The answer settles the job that runs.
LEMMA BoardAnswer == ASSUME IInv, IInv', Answer PROVE \E j \in Jobs : Board!Settle(j)
<1> DEFINE j == worker.job
<1>1. PICK answer \in {"ok", "failed"} : future' = [future EXCEPT ![j] = answer]
  BY DEF Answer
<1>2. /\ worker.pc = "run" /\ j \in Jobs /\ worker'.pc = "cool" /\ worker'.job = j /\ UNCHANGED queue
  BY NoJobAssumption DEF Answer, At, Goto, IInv, TypeOK, Working
<1>3. boardStatus' = [boardStatus EXCEPT ![j] = answer]
  <2>1. \A k \in Jobs : BoardStatus(k)' = IF k = j THEN answer ELSE BoardStatus(k)
    BY <1>1, <1>2 DEF BoardStatus, IInv, TypeOK
  <2> QED
    BY <2>1 DEF boardStatus
<1>4. boardAhead' = boardAhead
  BY <1>2 DEF boardAhead, Ahead, At
<1>5. boardStatus[j] = "running"
  BY <1>2, Waiting
<1> QED
  BY <1>1, <1>2, <1>3, <1>4, <1>5 DEF Board!Settle

\* The submitter that goes on has collected its answer.
LEMMA BoardWake == ASSUME IInv, IInv', NEW j \in Jobs, Wake(j) PROVE Board!Collect(j)
<1>1. /\ UNCHANGED <<queue, worker>> /\ future[j] \in {"ok", "failed"}
      /\ future' = [future EXCEPT ![j] = "none"]
  BY DEF Wake
<1>2. boardStatus' = [boardStatus EXCEPT ![j] = "none"]
  <2>1. \A k \in Jobs : BoardStatus(k)' = IF k = j THEN "none" ELSE BoardStatus(k)
    <3>1. \A k \in Jobs : future'[k] = IF k = j THEN "none" ELSE future[k]
      BY <1>1 DEF IInv, TypeOK
    <3> QED
      BY <1>1, <3>1 DEF BoardStatus
  <2> QED
    BY <2>1 DEF boardStatus
<1>3. boardAhead' = boardAhead
  BY <1>1 DEF boardAhead, Ahead, At
<1>4. boardStatus[j] \in {"ok", "failed"}
  BY <1>1, Waiting
<1> QED
  BY <1>2, <1>3, <1>4 DEF Board!Collect

\* Every step of the scheduler is a step of the board or unseen by it.
LEMMA BoardStep == IInv /\ IInv' /\ [Next]_vars => [Board!Next]_<<boardStatus, boardAhead>>
<1> SUFFICES ASSUME IInv, IInv', [Next]_vars PROVE [Board!Next]_<<boardStatus, boardAhead>>
  OBVIOUS
<1>1. ASSUME NEW j \in Jobs, AskDebrief(j) \/ AskTask(j) \/ InferBackground(j) PROVE Board!Next
  <2>1. Submit(j) /\ UNCHANGED worker
    BY <1>1 DEF AskDebrief, AskTask, InferBackground
  <2> QED
    BY <2>1, BoardSubmit DEF Board!Next
<1>2. CASE Get
  BY <1>2, BoardGet
<1>3. CASE ReadThermal
  BY <1>3, BoardRead DEF Board!Next
<1>4. CASE Answer
  BY <1>4, BoardAnswer DEF Board!Next
<1>5. ASSUME NEW j \in Jobs, Wake(j) PROVE Board!Next
  BY <1>5, BoardWake DEF Board!Next
<1>6. CASE Paused \/ Delayed \/ Cooled
  <2>1. /\ UNCHANGED <<queue, future>> /\ worker.pc # "thermal" /\ worker'.pc # "thermal"
        /\ \/ worker.pc = "delay" /\ worker'.pc = "run" /\ worker'.job = worker.job
           \/ worker.pc \notin {"delay", "run"} /\ worker'.pc \notin {"delay", "run"}
    BY <1>6 DEF Paused, Delayed, Cooled, At, Goto, IInv, TypeOK
  <2>2. \A k \in Jobs : BoardStatus(k)' = BoardStatus(k) /\ Ahead(k)' = Ahead(k)
    BY <2>1 DEF BoardStatus, Ahead, At
  <2> QED
    BY <2>2, Unseen
<1>7. CASE DeleteSession \/ StartSession \/ Heat \/ UNCHANGED vars
  <2>1. UNCHANGED <<queue, worker, future>>
    BY <1>7 DEF DeleteSession, StartSession, Heat, vars
  <2>2. \A k \in Jobs : BoardStatus(k)' = BoardStatus(k) /\ Ahead(k)' = Ahead(k)
    BY <2>1 DEF BoardStatus, Ahead, At
  <2> QED
    BY <2>2, Unseen
<1>8. CASE ThermalFails
  BY <1>8, BoardFails DEF Board!Next
<1> QED
  BY <1>1, <1>2, <1>3, <1>4, <1>5, <1>6, <1>7, <1>8 DEF Next, Work

\* The scheduler implements the job board: one job runs at a time, no user overtakes another, every
\* job is answered once, whatever the temperatures and the sessions do.
THEOREM ImplementsBoard == Spec => IsJobBoard
<1>1. Init => Board!Init
  <2> SUFFICES ASSUME Init PROVE Board!Init
    OBVIOUS
  <2>1. DOMAIN queue = {} /\ \A k \in Jobs : future[k] = "none"
    BY DEF Init
  <2>2. \A k \in Jobs : BoardStatus(k) = "none" /\ Ahead(k) = {}
    BY <2>1 DEF BoardStatus, Ahead
  <2> QED
    BY <2>2 DEF Board!Init, boardStatus, boardAhead
<1> QED
  BY <1>1, Inductive, BoardStep, PTL DEF Spec, IsJobBoard, Board!Safety

==============================================================================
