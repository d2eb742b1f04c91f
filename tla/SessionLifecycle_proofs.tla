---------------------- MODULE SessionLifecycle_proofs ----------------------
(***************************************************************************)
(* Proofs about SessionLifecycle, for any set of threads and any bound on  *)
(* the ids.  The invariants speak of a process in which no two operations  *)
(* have overlapped; what makes them inductive is what each step of an      *)
(* operation may rely on while it has the session to itself.               *)
(***************************************************************************)
EXTENDS SessionLifecycle, TLAPS

\* The rows this process has left open.
Mine == Open \ inherited

\* No actor is inside an operation that another one is inside of.
Serial == \A a, b \in Actors : pc[a] # "idle" /\ pc[b] # "idle" => a = b

\* Only _shutdown_cleanup is at a shutdown step, and only while draining;
\* a process that has ended has nothing in memory.
Roles ==
    /\ \A a \in Actors :
        pc[a] \in {"shutdown_end", "shutdown_clear"} =>
            a = Loop /\ phase = "draining"
    /\ phase \in {"exited", "crashed"} => AllIdle /\ session_ref = NoSession

\* What an inherited row promises: it is still in the table.
InheritedPresent == \A i \in inherited : flight_sessions[i] # "absent"

\* What an operation alone in the process knows of session_ref and home.
Alone ==
    ~overlap =>
        /\ Serial
        /\ \A a \in Actors :
            /\ pc[a] \in {"insert", "publish", "finish"} =>
                session_ref = NoSession
            /\ pc[a] \in {"end", "shutdown_end"} => sid[a] = session_ref
            /\ pc[a] = "delete" => sid[a] # session_ref
            /\ pc[a] \in {"shutdown_end", "shutdown_clear"} => app_home = {}
        /\ \A s \in app_home :
            \/ s = NoSession
            \/ s = session_ref
            \/ \E a \in Actors : pc[a] = "finish"

\* Which rows are open at which step.
Held ==
    ~overlap /\ ~fault =>
        /\ \A i \in Mine :
            \/ i = session_ref
            \/ \E a \in Actors : pc[a] = "publish" /\ sid[a] = i
        /\ \A a \in Actors :
            pc[a] \in {"clear", "shutdown_clear", "finish"} =>
                /\ Mine = {}
                /\ sid[a] \in Open => sid[a] # session_ref

\* What the operator sees at which step.
Shown ==
    ~overlap /\ ~fault /\ phase \in {"up", "draining"} =>
        /\ \A a \in Actors :
            /\ pc[a] \in {"insert", "publish"} => session_state = "none"
            /\ pc[a] = "publish" => sid[a] \in Mine
            /\ pc[a] = "activate" => session_ref \in Mine
        /\ (\A a \in Actors : pc[a] \in {"idle", "delete"}) =>
            /\ session_state = "active" <=> session_ref # NoSession
            /\ session_ref # NoSession => session_ref \in Mine

IInv == Roles /\ InheritedPresent /\ Alone /\ Held /\ Shown

-----------------------------------------------------------------------------
(* Type correctness.                                                       *)

\* Every variable keeps its type: in particular session_ref and the ids in
\* the handlers' hands never leave the ids a row can have.
THEOREM TypeCorrect == Spec => []TypeOK
<1> USE LoopAssumption, MaxIdAssumption
<1>1. Init => TypeOK
  BY DEF Init, TypeOK, Ids, Actors, NoSession, Steps, Phases
<1>2. TypeOK /\ [Next]_vars => TypeOK'
  <2> SUFFICES ASSUME TypeOK, [Next]_vars
               PROVE  TypeOK'
    OBVIOUS
  <2> USE DEF TypeOK, Ids, Actors, NoSession, Steps, Phases
  <2>1. ASSUME NEW t \in Threads, StartCheck(t)  PROVE  TypeOK'
    BY <2>1 DEF StartCheck, Begin, store
  <2>2. ASSUME NEW t \in Threads, StartInsert(t)  PROVE  TypeOK'
    BY <2>2 DEF StartInsert, Begin, Goto, store, StartSession, InsertRow
  <2>3. ASSUME NEW t \in Threads, StartPublish(t)  PROVE  TypeOK'
    BY <2>3 DEF StartPublish, Goto
  <2>4. ASSUME NEW t \in Threads, StartActivate(t)  PROVE  TypeOK'
    BY <2>4 DEF StartActivate, Goto
  <2>5. ASSUME NEW t \in Threads, StopRead(t)  PROVE  TypeOK'
    BY <2>5 DEF StopRead, Begin, store
  <2>6. ASSUME NEW t \in Threads, StopEnd(t)  PROVE  TypeOK'
    BY <2>6 DEF StopEnd, Goto, EndSession, EndRow
  <2>7. ASSUME NEW t \in Threads, StopClear(t)  PROVE  TypeOK'
    BY <2>7 DEF StopClear, Goto
  <2>8. ASSUME NEW t \in Threads, StopFinish(t)  PROVE  TypeOK'
    BY <2>8 DEF StopFinish, Goto
  <2>9. ASSUME NEW t \in Threads, DeleteCommit(t)  PROVE  TypeOK'
    BY <2>9 DEF DeleteCommit, Goto, DeleteRow
  <2>10. ASSUME NEW t \in Threads, NEW i \in Ids, DeleteCheck(t, i)
         PROVE  TypeOK'
    BY <2>10 DEF DeleteCheck, Begin, store
  <2>11. CASE PostLiveHome
    BY <2>11 DEF PostLiveHome
  <2>12. CASE AutoObserve
    BY <2>12 DEF AutoObserve, store
  <2>13. CASE AutoArmed
    BY <2>13 DEF AutoArmed, Begin, store
  <2>14. CASE AutoInsert
    BY <2>14 DEF AutoInsert, StartSession, InsertRow
  <2>15. CASE AutoPublish
    BY <2>15 DEF AutoPublish, Goto
  <2>16. CASE AutoActivate
    BY <2>16 DEF AutoActivate, Goto
  <2>17. CASE AutoDisarmed
    BY <2>17 DEF AutoDisarmed, Begin, store
  <2>18. CASE AutoEnd
    BY <2>18 DEF AutoEnd, Goto, EndSession, EndRow
  <2>19. CASE AutoClear
    BY <2>19 DEF AutoClear, Goto
  <2>20. CASE AutoFinish
    BY <2>20 DEF AutoFinish, Goto
  <2>21. CASE ShutdownRequested
    BY <2>21 DEF ShutdownRequested, store
  <2>22. CASE ShutdownBegin
    <3>1. CASE session_ref # NoSession
      <4>1. /\ Begin(Loop, "shutdown_end", session_ref)
            /\ app_home' = {}
            /\ UNCHANGED <<flight_sessions, session_ref, session_state,
                           last_armed, phase, inherited, fault>>
        BY <2>22, <3>1 DEF ShutdownBegin
      <4>2. QED
        BY <4>1 DEF Begin
    <3>2. CASE session_ref = NoSession
      BY <2>22, <3>2 DEF ShutdownBegin
    <3>3. QED
      BY <3>1, <3>2
  <2>23. CASE ShutdownEnd
    BY <2>23 DEF ShutdownEnd, Goto, EndSession, EndRow
  <2>24. CASE ShutdownClear
    BY <2>24 DEF ShutdownClear, Goto
  <2>25. CASE Exit
    BY <2>25 DEF Exit, MemoryLost, EndSession, EndRow
  <2>26. CASE Crash
    BY <2>26 DEF Crash, MemoryLost, Open
  <2>27. CASE Restart
    BY <2>27 DEF Restart, MemoryLost, Open
  <2>28. CASE UNCHANGED vars
    BY <2>28 DEF vars
  <2>29. QED
    BY <2>1, <2>2, <2>3, <2>4, <2>5, <2>6, <2>7, <2>8, <2>9, <2>10, <2>11,
       <2>12, <2>13, <2>14, <2>15, <2>16, <2>17, <2>18, <2>19, <2>20, <2>21,
       <2>22, <2>23, <2>24, <2>25, <2>26, <2>27, <2>28
       DEF Next, ApiStep, LoopStep
<1>3. QED
  BY <1>1, <1>2, PTL DEF Spec

-----------------------------------------------------------------------------
(* The parts of the inductive invariant.                                   *)

\* Each step keeps the shutdown steps to the loop.
LEMMA RolesStep ==
  ASSUME TypeOK, Roles, [Next]_vars
  PROVE  Roles'
<1> USE LoopAssumption, MaxIdAssumption
<1> USE DEF TypeOK, Ids, Actors, NoSession, Steps, Phases, Roles, AllIdle,
            Ticking
<1>1. ASSUME NEW t \in Threads, StartCheck(t)  PROVE  Roles'
  BY <1>1 DEF StartCheck, Begin, store
<1>2. ASSUME NEW t \in Threads, StartInsert(t)  PROVE  Roles'
  BY <1>2 DEF StartInsert, StartSession, InsertRow
<1>3. ASSUME NEW t \in Threads, StartPublish(t)  PROVE  Roles'
  BY <1>3 DEF StartPublish, Goto
<1>4. ASSUME NEW t \in Threads, StartActivate(t)  PROVE  Roles'
  BY <1>4 DEF StartActivate, Goto
<1>5. ASSUME NEW t \in Threads, StopRead(t)  PROVE  Roles'
  BY <1>5 DEF StopRead, Begin, store
<1>6. ASSUME NEW t \in Threads, StopEnd(t)  PROVE  Roles'
  BY <1>6 DEF StopEnd, Goto, EndSession, EndRow
<1>7. ASSUME NEW t \in Threads, StopClear(t)  PROVE  Roles'
  BY <1>7 DEF StopClear, Goto
<1>8. ASSUME NEW t \in Threads, StopFinish(t)  PROVE  Roles'
  BY <1>8 DEF StopFinish, Goto
<1>9. ASSUME NEW t \in Threads, DeleteCommit(t)  PROVE  Roles'
  BY <1>9 DEF DeleteCommit, Goto, DeleteRow
<1>10. ASSUME NEW t \in Threads, NEW i \in Ids, DeleteCheck(t, i)
      PROVE  Roles'
  BY <1>10 DEF DeleteCheck, Begin, store
<1>11. CASE PostLiveHome
  BY <1>11 DEF PostLiveHome
<1>12. CASE AutoObserve
  BY <1>12 DEF AutoObserve, store
<1>13. CASE AutoArmed
  BY <1>13 DEF AutoArmed, Begin, store
<1>14. CASE AutoInsert
  BY <1>14 DEF AutoInsert, StartSession, InsertRow
<1>15. CASE AutoPublish
  BY <1>15 DEF AutoPublish, Goto
<1>16. CASE AutoActivate
  BY <1>16 DEF AutoActivate, Goto
<1>17. CASE AutoDisarmed
  BY <1>17 DEF AutoDisarmed, Begin, store
<1>18. CASE AutoEnd
  BY <1>18 DEF AutoEnd, Goto, EndSession, EndRow
<1>19. CASE AutoClear
  BY <1>19 DEF AutoClear, Goto
<1>20. CASE AutoFinish
  BY <1>20 DEF AutoFinish, Goto
<1>21. CASE ShutdownRequested
  BY <1>21 DEF ShutdownRequested, store
<1>22. CASE ShutdownBegin
  BY <1>22 DEF ShutdownBegin, Begin
<1>23. CASE ShutdownEnd
  BY <1>23 DEF ShutdownEnd, Goto, EndSession, EndRow
<1>24. CASE ShutdownClear
  BY <1>24 DEF ShutdownClear, Goto
<1>25. CASE Exit
  BY <1>25 DEF Exit, MemoryLost, EndSession, EndRow
<1>26. CASE Crash
  BY <1>26 DEF Crash, MemoryLost
<1>27. CASE Restart
  BY <1>27 DEF Restart, MemoryLost
<1>28. CASE UNCHANGED vars
  BY <1>28 DEF vars
<1>29. QED
  BY <1>1, <1>2, <1>3, <1>4, <1>5, <1>6, <1>7, <1>8, <1>9,
     <1>10, <1>11, <1>12, <1>13, <1>14, <1>15, <1>16, <1>17, <1>18,
     <1>19, <1>20, <1>21, <1>22, <1>23, <1>24, <1>25, <1>26, <1>27,
     <1>28
     DEF Next, ApiStep, LoopStep

\* Each step keeps the inherited rows in the table.
LEMMA InheritedStep ==
  ASSUME TypeOK, InheritedPresent, [Next]_vars
  PROVE  InheritedPresent'
<1> USE LoopAssumption, MaxIdAssumption
<1> USE DEF TypeOK, Ids, Actors, NoSession, Steps, Phases, InheritedPresent,
            Open
<1>1. ASSUME NEW t \in Threads, StartCheck(t)  PROVE  InheritedPresent'
  BY <1>1 DEF StartCheck, Begin, store
<1>2. ASSUME NEW t \in Threads, StartInsert(t)  PROVE  InheritedPresent'
  BY <1>2 DEF StartInsert, StartSession, InsertRow
<1>3. ASSUME NEW t \in Threads, StartPublish(t)  PROVE  InheritedPresent'
  BY <1>3 DEF StartPublish, Goto
<1>4. ASSUME NEW t \in Threads, StartActivate(t)  PROVE  InheritedPresent'
  BY <1>4 DEF StartActivate, Goto
<1>5. ASSUME NEW t \in Threads, StopRead(t)  PROVE  InheritedPresent'
  BY <1>5 DEF StopRead, Begin, store
<1>6. ASSUME NEW t \in Threads, StopEnd(t)  PROVE  InheritedPresent'
  BY <1>6 DEF StopEnd, Goto, EndSession, EndRow
<1>7. ASSUME NEW t \in Threads, StopClear(t)  PROVE  InheritedPresent'
  BY <1>7 DEF StopClear, Goto
<1>8. ASSUME NEW t \in Threads, StopFinish(t)  PROVE  InheritedPresent'
  BY <1>8 DEF StopFinish, Goto
<1>9. ASSUME NEW t \in Threads, DeleteCommit(t)  PROVE  InheritedPresent'
  BY <1>9 DEF DeleteCommit, Goto, DeleteRow
<1>10. ASSUME NEW t \in Threads, NEW i \in Ids, DeleteCheck(t, i)
      PROVE  InheritedPresent'
  BY <1>10 DEF DeleteCheck, Begin, store
<1>11. CASE PostLiveHome
  BY <1>11 DEF PostLiveHome
<1>12. CASE AutoObserve
  BY <1>12 DEF AutoObserve, store
<1>13. CASE AutoArmed
  BY <1>13 DEF AutoArmed, Begin, store
<1>14. CASE AutoInsert
  BY <1>14 DEF AutoInsert, StartSession, InsertRow
<1>15. CASE AutoPublish
  BY <1>15 DEF AutoPublish, Goto
<1>16. CASE AutoActivate
  BY <1>16 DEF AutoActivate, Goto
<1>17. CASE AutoDisarmed
  BY <1>17 DEF AutoDisarmed, Begin, store
<1>18. CASE AutoEnd
  BY <1>18 DEF AutoEnd, Goto, EndSession, EndRow
<1>19. CASE AutoClear
  BY <1>19 DEF AutoClear, Goto
<1>20. CASE AutoFinish
  BY <1>20 DEF AutoFinish, Goto
<1>21. CASE ShutdownRequested
  BY <1>21 DEF ShutdownRequested, store
<1>22. CASE ShutdownBegin
  BY <1>22 DEF ShutdownBegin, Begin
<1>23. CASE ShutdownEnd
  BY <1>23 DEF ShutdownEnd, Goto, EndSession, EndRow
<1>24. CASE ShutdownClear
  BY <1>24 DEF ShutdownClear, Goto
<1>25. CASE Exit
  BY <1>25 DEF Exit, MemoryLost, EndSession, EndRow
<1>26. CASE Crash
  BY <1>26 DEF Crash, MemoryLost
<1>27. CASE Restart
  BY <1>27 DEF Restart, MemoryLost
<1>28. CASE UNCHANGED vars
  BY <1>28 DEF vars
<1>29. QED
  BY <1>1, <1>2, <1>3, <1>4, <1>5, <1>6, <1>7, <1>8, <1>9,
     <1>10, <1>11, <1>12, <1>13, <1>14, <1>15, <1>16, <1>17, <1>18,
     <1>19, <1>20, <1>21, <1>22, <1>23, <1>24, <1>25, <1>26, <1>27,
     <1>28
     DEF Next, ApiStep, LoopStep

\* Each step hands the next one of its operation what it relies on.
LEMMA AloneStep ==
  ASSUME TypeOK, Roles, Alone, [Next]_vars
  PROVE  Alone'
<1> USE LoopAssumption, MaxIdAssumption
<1> USE DEF TypeOK, Ids, Actors, NoSession, Steps, Phases, Roles, AllIdle,
            Alone, Serial, Ticking
<1>1. ASSUME NEW t \in Threads, StartCheck(t)  PROVE  Alone'
  BY <1>1 DEF StartCheck, Begin, store
<1>2. ASSUME NEW t \in Threads, StartInsert(t)  PROVE  Alone'
  BY <1>2 DEF StartInsert, StartSession, InsertRow
<1>3. ASSUME NEW t \in Threads, StartPublish(t)  PROVE  Alone'
  BY <1>3 DEF StartPublish, Goto
<1>4. ASSUME NEW t \in Threads, StartActivate(t)  PROVE  Alone'
  BY <1>4 DEF StartActivate, Goto
<1>5. ASSUME NEW t \in Threads, StopRead(t)  PROVE  Alone'
  BY <1>5 DEF StopRead, Begin, store
<1>6. ASSUME NEW t \in Threads, StopEnd(t)  PROVE  Alone'
  BY <1>6 DEF StopEnd, Goto, EndSession, EndRow
<1>7. ASSUME NEW t \in Threads, StopClear(t)  PROVE  Alone'
  BY <1>7 DEF StopClear, Goto
<1>8. ASSUME NEW t \in Threads, StopFinish(t)  PROVE  Alone'
  BY <1>8 DEF StopFinish, Goto
<1>9. ASSUME NEW t \in Threads, DeleteCommit(t)  PROVE  Alone'
  BY <1>9 DEF DeleteCommit, Goto, DeleteRow
<1>10. ASSUME NEW t \in Threads, NEW i \in Ids, DeleteCheck(t, i)
      PROVE  Alone'
  BY <1>10 DEF DeleteCheck, Begin, store
<1>11. CASE PostLiveHome
  BY <1>11 DEF PostLiveHome
<1>12. CASE AutoObserve
  BY <1>12 DEF AutoObserve, store
<1>13. CASE AutoArmed
  BY <1>13 DEF AutoArmed, Begin, store
<1>14. CASE AutoInsert
  BY <1>14 DEF AutoInsert, StartSession, InsertRow
<1>15. CASE AutoPublish
  BY <1>15 DEF AutoPublish, Goto
<1>16. CASE AutoActivate
  BY <1>16 DEF AutoActivate, Goto
<1>17. CASE AutoDisarmed
  BY <1>17 DEF AutoDisarmed, Begin, store
<1>18. CASE AutoEnd
  BY <1>18 DEF AutoEnd, Goto, EndSession, EndRow
<1>19. CASE AutoClear
  BY <1>19 DEF AutoClear, Goto
<1>20. CASE AutoFinish
  BY <1>20 DEF AutoFinish, Goto
<1>21. CASE ShutdownRequested
  BY <1>21 DEF ShutdownRequested, store
<1>22. CASE ShutdownBegin
  <2>1. CASE session_ref # NoSession
    <3>1. /\ Begin(Loop, "shutdown_end", session_ref)
          /\ app_home' = {}
          /\ UNCHANGED <<flight_sessions, session_ref, phase>>
      BY <1>22, <2>1 DEF ShutdownBegin
    <3>2. QED
      BY <3>1 DEF Begin
  <2>2. CASE session_ref = NoSession
    BY <1>22, <2>2 DEF ShutdownBegin
  <2>3. QED
    BY <2>1, <2>2
<1>23. CASE ShutdownEnd
  BY <1>23 DEF ShutdownEnd, Goto, EndSession, EndRow
<1>24. CASE ShutdownClear
  BY <1>24 DEF ShutdownClear, Goto
<1>25. CASE Exit
  BY <1>25 DEF Exit, MemoryLost, EndSession, EndRow
<1>26. CASE Crash
  BY <1>26 DEF Crash, MemoryLost
<1>27. CASE Restart
  BY <1>27 DEF Restart, MemoryLost
<1>28. CASE UNCHANGED vars
  BY <1>28 DEF vars
<1>29. QED
  BY <1>1, <1>2, <1>3, <1>4, <1>5, <1>6, <1>7, <1>8, <1>9,
     <1>10, <1>11, <1>12, <1>13, <1>14, <1>15, <1>16, <1>17, <1>18,
     <1>19, <1>20, <1>21, <1>22, <1>23, <1>24, <1>25, <1>26, <1>27,
     <1>28
     DEF Next, ApiStep, LoopStep

\* Each step leaves the open rows where the next one looks for them.
LEMMA HeldStep ==
  ASSUME TypeOK, Roles, Alone, Held, [Next]_vars
  PROVE  Held'
<1> USE LoopAssumption, MaxIdAssumption
<1> USE DEF TypeOK, Ids, Actors, NoSession, Steps, Phases, Roles, AllIdle,
            Alone, Serial, Held, Mine, Open, Ticking
<1>1. ASSUME NEW t \in Threads, StartCheck(t)  PROVE  Held'
  BY <1>1 DEF StartCheck, Begin, store
<1>2. ASSUME NEW t \in Threads, StartInsert(t)  PROVE  Held'
  BY <1>2 DEF StartInsert, StartSession, InsertRow
<1>3. ASSUME NEW t \in Threads, StartPublish(t)  PROVE  Held'
  BY <1>3 DEF StartPublish, Goto
<1>4. ASSUME NEW t \in Threads, StartActivate(t)  PROVE  Held'
  BY <1>4 DEF StartActivate, Goto
<1>5. ASSUME NEW t \in Threads, StopRead(t)  PROVE  Held'
  <2>1. UNCHANGED <<flight_sessions, session_ref, inherited, fault>>
    BY <1>5 DEF StopRead, store
  <2>2. Begin(t, IF session_ref = NoSession THEN "clear" ELSE "end",
              session_ref)
    BY <1>5 DEF StopRead
  <2>3. ASSUME ~overlap', ~fault'
        PROVE  \A a \in Actors : pc[a] = "idle"
    BY <2>2, <2>3 DEF Begin
  <2>4. CASE session_ref = NoSession
    BY <2>1, <2>2, <2>3, <2>4 DEF Begin
  <2>5. CASE session_ref # NoSession
    BY <2>1, <2>2, <2>3, <2>5 DEF Begin
  <2>6. QED
    BY <2>4, <2>5
<1>6. ASSUME NEW t \in Threads, StopEnd(t)  PROVE  Held'
  BY <1>6 DEF StopEnd, Goto, EndSession, EndRow
<1>7. ASSUME NEW t \in Threads, StopClear(t)  PROVE  Held'
  BY <1>7 DEF StopClear, Goto
<1>8. ASSUME NEW t \in Threads, StopFinish(t)  PROVE  Held'
  BY <1>8 DEF StopFinish, Goto
<1>9. ASSUME NEW t \in Threads, DeleteCommit(t)  PROVE  Held'
  BY <1>9 DEF DeleteCommit, Goto, DeleteRow
<1>10. ASSUME NEW t \in Threads, NEW i \in Ids, DeleteCheck(t, i)
      PROVE  Held'
  BY <1>10 DEF DeleteCheck, Begin, store
<1>11. CASE PostLiveHome
  BY <1>11 DEF PostLiveHome
<1>12. CASE AutoObserve
  BY <1>12 DEF AutoObserve, store
<1>13. CASE AutoArmed
  BY <1>13 DEF AutoArmed, Begin, store
<1>14. CASE AutoInsert
  BY <1>14 DEF AutoInsert, StartSession, InsertRow
<1>15. CASE AutoPublish
  BY <1>15 DEF AutoPublish, Goto
<1>16. CASE AutoActivate
  BY <1>16 DEF AutoActivate, Goto
<1>17. CASE AutoDisarmed
  BY <1>17 DEF AutoDisarmed, Begin, store
<1>18. CASE AutoEnd
  BY <1>18 DEF AutoEnd, Goto, EndSession, EndRow
<1>19. CASE AutoClear
  BY <1>19 DEF AutoClear, Goto
<1>20. CASE AutoFinish
  BY <1>20 DEF AutoFinish, Goto
<1>21. CASE ShutdownRequested
  BY <1>21 DEF ShutdownRequested, store
<1>22. CASE ShutdownBegin
  BY <1>22 DEF ShutdownBegin, Begin
<1>23. CASE ShutdownEnd
  BY <1>23 DEF ShutdownEnd, Goto, EndSession, EndRow
<1>24. CASE ShutdownClear
  BY <1>24 DEF ShutdownClear, Goto
<1>25. CASE Exit
  BY <1>25 DEF Exit, MemoryLost, EndSession, EndRow
<1>26. CASE Crash
  BY <1>26 DEF Crash, MemoryLost
<1>27. CASE Restart
  BY <1>27 DEF Restart, MemoryLost
<1>28. CASE UNCHANGED vars
  BY <1>28 DEF vars
<1>29. QED
  BY <1>1, <1>2, <1>3, <1>4, <1>5, <1>6, <1>7, <1>8, <1>9,
     <1>10, <1>11, <1>12, <1>13, <1>14, <1>15, <1>16, <1>17, <1>18,
     <1>19, <1>20, <1>21, <1>22, <1>23, <1>24, <1>25, <1>26, <1>27,
     <1>28
     DEF Next, ApiStep, LoopStep

\* Each step keeps what the operator sees in step with the table.
LEMMA ShownStep ==
  ASSUME TypeOK, InheritedPresent, Roles, Alone, Held, Shown, [Next]_vars
  PROVE  Shown'
<1> USE LoopAssumption, MaxIdAssumption
<1> USE DEF TypeOK, Ids, Actors, NoSession, Steps, Phases, Roles, AllIdle,
            Alone, Serial, InheritedPresent, Shown, Mine, Open, Ticking
<1>1. ASSUME NEW t \in Threads, StartCheck(t)  PROVE  Shown'
  BY <1>1 DEF StartCheck, Begin, store
<1>2. ASSUME NEW t \in Threads, StartInsert(t)  PROVE  Shown'
  <2>1. /\ pc[t] = "insert"
        /\ UNCHANGED <<session_ref, session_state, phase, inherited,
                       overlap, fault>>
    BY <1>2 DEF StartInsert, StartSession
  <2>2. ASSUME NEW i \in Ids, FreshId(i), InsertRow(i),
               pc' = [pc EXCEPT ![t] = "publish"],
               sid' = [sid EXCEPT ![t] = i]
        PROVE  Shown'
    <3>1. i \notin inherited
      BY <2>2 DEF FreshId
    <3>2. QED
      BY <2>1, <2>2, <3>1 DEF InsertRow
  <2>3. ASSUME pc' = [pc EXCEPT ![t] = "idle"], UNCHANGED flight_sessions
        PROVE  Shown'
    BY <2>1, <2>3
  <2>4. QED
    BY <1>2, <2>2, <2>3 DEF StartInsert, StartSession
<1>3. ASSUME NEW t \in Threads, StartPublish(t)  PROVE  Shown'
  BY <1>3 DEF StartPublish, Goto
<1>4. ASSUME NEW t \in Threads, StartActivate(t)  PROVE  Shown'
  BY <1>4 DEF StartActivate, Goto
<1>5. ASSUME NEW t \in Threads, StopRead(t)  PROVE  Shown'
  BY <1>5 DEF StopRead, Begin, store
<1>6. ASSUME NEW t \in Threads, StopEnd(t)  PROVE  Shown'
  BY <1>6 DEF StopEnd, Goto, EndSession, EndRow
<1>7. ASSUME NEW t \in Threads, StopClear(t)  PROVE  Shown'
  BY <1>7 DEF StopClear, Goto
<1>8. ASSUME NEW t \in Threads, StopFinish(t)  PROVE  Shown'
  BY <1>8 DEF StopFinish, Goto
<1>9. ASSUME NEW t \in Threads, DeleteCommit(t)  PROVE  Shown'
  BY <1>9 DEF DeleteCommit, Goto, DeleteRow
<1>10. ASSUME NEW t \in Threads, NEW i \in Ids, DeleteCheck(t, i)
      PROVE  Shown'
  BY <1>10 DEF DeleteCheck, Begin, store
<1>11. CASE PostLiveHome
  BY <1>11 DEF PostLiveHome
<1>12. CASE AutoObserve
  BY <1>12 DEF AutoObserve, store
<1>13. CASE AutoArmed
  BY <1>13 DEF AutoArmed, Begin, store
<1>14. CASE AutoInsert
  <2>1. /\ pc[Loop] = "insert"
        /\ UNCHANGED <<session_ref, session_state, phase, inherited,
                       overlap, fault>>
    BY <1>14 DEF AutoInsert, StartSession
  <2>2. ASSUME NEW i \in Ids, FreshId(i), InsertRow(i),
               pc' = [pc EXCEPT ![Loop] = "publish"],
               sid' = [sid EXCEPT ![Loop] = i]
        PROVE  Shown'
    <3>1. i \notin inherited
      BY <2>2 DEF FreshId
    <3>2. QED
      BY <2>1, <2>2, <3>1 DEF InsertRow
  <2>3. ASSUME pc' = [pc EXCEPT ![Loop] = "idle"], UNCHANGED flight_sessions
        PROVE  Shown'
    BY <2>1, <2>3
  <2>4. QED
    BY <1>14, <2>2, <2>3 DEF AutoInsert, StartSession
<1>15. CASE AutoPublish
  BY <1>15 DEF AutoPublish, Goto
<1>16. CASE AutoActivate
  BY <1>16 DEF AutoActivate, Goto
<1>17. CASE AutoDisarmed
  BY <1>17 DEF AutoDisarmed, Begin, store
<1>18. CASE AutoEnd
  BY <1>18 DEF AutoEnd, Goto, EndSession, EndRow
<1>19. CASE AutoClear
  BY <1>19 DEF AutoClear, Goto
<1>20. CASE AutoFinish
  BY <1>20 DEF AutoFinish, Goto
<1>21. CASE ShutdownRequested
  BY <1>21 DEF ShutdownRequested, store
<1>22. CASE ShutdownBegin
  BY <1>22 DEF ShutdownBegin, Begin
<1>23. CASE ShutdownEnd
  BY <1>23 DEF ShutdownEnd, Goto, EndSession, EndRow
<1>24. CASE ShutdownClear
  BY <1>24 DEF ShutdownClear, Goto
<1>25. CASE Exit
  BY <1>25 DEF Exit, MemoryLost, EndSession, EndRow
<1>26. CASE Crash
  BY <1>26 DEF Crash, MemoryLost
<1>27. CASE Restart
  BY <1>27 DEF Restart, MemoryLost
<1>28. CASE UNCHANGED vars
  BY <1>28 DEF vars
<1>29. QED
  BY <1>1, <1>2, <1>3, <1>4, <1>5, <1>6, <1>7, <1>8, <1>9,
     <1>10, <1>11, <1>12, <1>13, <1>14, <1>15, <1>16, <1>17, <1>18,
     <1>19, <1>20, <1>21, <1>22, <1>23, <1>24, <1>25, <1>26, <1>27,
     <1>28
     DEF Next, ApiStep, LoopStep

-----------------------------------------------------------------------------
(* The theorems.                                                           *)

\* The strengthening is an invariant.
THEOREM Inductive == Spec => []IInv
<1>1. Init => IInv
  BY LoopAssumption, MaxIdAssumption
  DEF Init, IInv, Roles, AllIdle, InheritedPresent, Alone, Serial, Held, Shown,
      Mine, Open, Ids, Actors, NoSession
<1>2. TypeOK /\ IInv /\ [Next]_vars => IInv'
  BY RolesStep, InheritedStep, AloneStep, HeldStep, ShownStep DEF IInv
<1>3. QED
  BY <1>1, <1>2, TypeCorrect, PTL DEF Spec

\* Operations that do not overlap leave at most one open session, and it is
\* in somebody's hands: a row is Mine only where Held allows it, and Alone
\* says that at most one actor has something in its hands.
THEOREM OneOpen == Spec => []OneOpenSession
<1>1. TypeOK /\ IInv => OneOpenSession
  BY DEF TypeOK, IInv, Alone, Serial, Held, Mine, Open, Tracked,
         OneOpenSession, Ids, NoSession
<1>2. QED
  BY <1>1, TypeCorrect, Inductive, PTL

\* The state the operator sees, the cell and the table agree when nothing
\* is in flight.
THEOREM Agree == Spec => []StoresAgree
<1>1. TypeOK /\ IInv => StoresAgree
  BY DEF TypeOK, IInv, Shown, Mine, AllIdle, StoresAgree
<1>2. QED
  BY <1>1, TypeCorrect, Inductive, PTL

\* A home override does not outlive its session.
THEOREM FreshHome == Spec => []NoStaleHome
<1>1. IInv => NoStaleHome
  BY DEF IInv, Alone, NoStaleHome
<1>2. QED
  BY <1>1, Inductive, PTL

\* What OrphanCauses says of one row and one step.
Explained(i) ==
    Orphan(i)' /\ ~Orphan(i) =>
        \/ fault'
        \/ phase' = "crashed"
        \/ \E a \in Actors : OverwrittenBy(a, i) \/ WipedBy(a, i)

\* No step but a failed end, a crash, an overwrite or a wipe makes an orphan.
LEMMA OrphanStep ==
  ASSUME TypeOK, Roles, Alone, Held, NEW k \in Ids, [Next]_vars
  PROVE  Explained(k)
<1> USE LoopAssumption, MaxIdAssumption
<1> USE DEF TypeOK, Ids, Actors, NoSession, Steps, Phases, Roles, AllIdle,
            Alone, Serial, Held, Mine, Open,
            Orphan, Tracked, Explained, OverwrittenBy, WipedBy, Ticking
<1>1. ASSUME NEW t \in Threads, StartCheck(t)  PROVE  Explained(k)
  BY <1>1 DEF StartCheck, Begin, store
<1>2. ASSUME NEW t \in Threads, StartInsert(t)  PROVE  Explained(k)
  <2>1. CASE \E i \in Ids : /\ FreshId(i) /\ InsertRow(i) /\ pc' = [pc EXCEPT ![t] = "publish"]
                            /\ sid' = [sid EXCEPT ![t] = i]
    BY <1>2, <2>1 DEF StartInsert, StartSession, InsertRow
  <2>2. CASE /\ pc' = [pc EXCEPT ![t] = "idle"] /\ sid' = [sid EXCEPT ![t] = NoSession]
             /\ UNCHANGED flight_sessions
    BY <1>2, <2>2 DEF StartInsert, StartSession
  <2> QED
    BY <1>2, <2>1, <2>2 DEF StartInsert, StartSession
<1>3. ASSUME NEW t \in Threads, StartPublish(t)  PROVE  Explained(k)
  BY <1>3 DEF StartPublish, Goto
<1>4. ASSUME NEW t \in Threads, StartActivate(t)  PROVE  Explained(k)
  BY <1>4 DEF StartActivate, Goto
<1>5. ASSUME NEW t \in Threads, StopRead(t)  PROVE  Explained(k)
  BY <1>5 DEF StopRead, Begin, store
<1>6. ASSUME NEW t \in Threads, StopEnd(t)  PROVE  Explained(k)
  BY <1>6 DEF StopEnd, Goto, EndSession, EndRow
<1>7. ASSUME NEW t \in Threads, StopClear(t)  PROVE  Explained(k)
  BY <1>7 DEF StopClear, Goto
<1>8. ASSUME NEW t \in Threads, StopFinish(t)  PROVE  Explained(k)
  BY <1>8 DEF StopFinish, Goto
<1>9. ASSUME NEW t \in Threads, DeleteCommit(t)  PROVE  Explained(k)
  BY <1>9 DEF DeleteCommit, Goto, DeleteRow
<1>10. ASSUME NEW t \in Threads, NEW i \in Ids, DeleteCheck(t, i)
      PROVE  Explained(k)
  BY <1>10 DEF DeleteCheck, Begin, store
<1>11. CASE PostLiveHome
  BY <1>11 DEF PostLiveHome
<1>12. CASE AutoObserve
  BY <1>12 DEF AutoObserve, store
<1>13. CASE AutoArmed
  BY <1>13 DEF AutoArmed, Begin, store
<1>14. CASE AutoInsert
  BY <1>14 DEF AutoInsert, StartSession, InsertRow
<1>15. CASE AutoPublish
  BY <1>15 DEF AutoPublish, Goto
<1>16. CASE AutoActivate
  BY <1>16 DEF AutoActivate, Goto
<1>17. CASE AutoDisarmed
  BY <1>17 DEF AutoDisarmed, Begin, store
<1>18. CASE AutoEnd
  BY <1>18 DEF AutoEnd, Goto, EndSession, EndRow
<1>19. CASE AutoClear
  BY <1>19 DEF AutoClear, Goto
<1>20. CASE AutoFinish
  BY <1>20 DEF AutoFinish, Goto
<1>21. CASE ShutdownRequested
  BY <1>21 DEF ShutdownRequested, store
<1>22. CASE ShutdownBegin
  BY <1>22 DEF ShutdownBegin, Begin
<1>23. CASE ShutdownEnd
  BY <1>23 DEF ShutdownEnd, Goto, EndSession, EndRow
<1>24. CASE ShutdownClear
  BY <1>24 DEF ShutdownClear, Goto
<1>25. CASE Exit
  BY <1>25 DEF Exit, MemoryLost, EndSession, EndRow
<1>26. CASE Crash
  BY <1>26 DEF Crash, MemoryLost
<1>27. CASE Restart
  BY <1>27 DEF Restart, MemoryLost
<1>28. CASE UNCHANGED vars
  BY <1>28 DEF vars
<1>29. QED
  BY <1>1, <1>2, <1>3, <1>4, <1>5, <1>6, <1>7, <1>8, <1>9,
     <1>10, <1>11, <1>12, <1>13, <1>14, <1>15, <1>16, <1>17, <1>18,
     <1>19, <1>20, <1>21, <1>22, <1>23, <1>24, <1>25, <1>26, <1>27,
     <1>28
     DEF Next, ApiStep, LoopStep

\* Under every interleaving, a session is orphaned in four ways only.
THEOREM Orphans == Spec => OrphanCauses
<1>1. TypeOK /\ IInv /\ [Next]_vars => \A i \in Ids : Explained(i)
  BY OrphanStep DEF IInv
<1>2. QED
  BY <1>1, TypeCorrect, Inductive, PTL DEF Spec, OrphanCauses, Explained

=============================================================================
