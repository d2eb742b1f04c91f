------------------------------ MODULE Rover_proofs ------------------------------
(***************************************************************************)
(* Proofs about Rover, for any pages, requests, numbers and timeout: what  *)
(* the bridge takes is fresh, and a stop holds.                            *)
(***************************************************************************)
EXTENDS Rover, TLAPS

Stored == store # None
Cmd(c) == handler[c].msg

\* Whatever is stored, or about to be stored, has arrived.
Arrived ==
  /\ store.id <= arrived
  /\ \A c \in Fed : Cmd(c).id \in 1..arrived

\* A command stored or about to be stored arrived after every stop that has returned, and after
\* every one that has cleared the store, or was about to be stored then.
After(id, n) == id > n \/ id \in late

Surviving ==
  /\ Stored => After(store.id, stopped)
  /\ \A c \in Fed : After(Cmd(c).id, stopped)
  /\ \A r \in Callers : At(r, "cleared") =>
       /\ Stored => After(store.id, handler[r].seen)
       /\ \A c \in Fed : After(Cmd(c).id, handler[r].seen)

\* The failsafe was fed by the latest command, if it was not reset since.
FedByLatest ==
  fed # Never =>
    /\ Stored /\ store.id = arrived => store.at = fed
    /\ \A c \in Fed : Cmd(c).id = arrived => Cmd(c).at = fed

\* A command that is not the latest and about to be stored has overlapped one; one that is stored
\* has, or the latest is about to be stored.
Overtaken ==
  /\ \A c \in Fed : Cmd(c).id # arrived => Cmd(c).id \in crossed
  /\ Stored /\ store.id # arrived =>
       store.id \in crossed \/ \E c \in Fed : Cmd(c).id = arrived

\* While the bridge is between its look at the failsafe and its look at the store.
Recent(m) == bridge.at - m.at <= Timeout \/ m.id \in crossed

FreshStill ==
  bridge.pc = "fresh" =>
    /\ Stored => Recent(store) \/ \E c \in Fed : Cmd(c).id > store.id
    /\ \A c \in Fed : Recent(Cmd(c))

IInv == TypeOK /\ Arrived /\ Surviving /\ FedByLatest /\ Overtaken /\ FreshStill

-------------------------------------------------------------------------------
\* Every action keeps the types: a command that overlaps another, or that a stop finds about to
\* be stored, is one that has arrived.
LEMMA TypeStep ==
  ASSUME TypeOK, Arrived, [Next]_vars
  PROVE  TypeOK'
<1> DEFINE Handlers(n) == [pc : {"idle", "fed", "cleared"}, msg : Commands, seen : 0..n]
           Loops == {Free, Bridge} \cup {p \in Pages : At(p, "fed")}
<1> USE RoverAssumption
<1>1. /\ now \in 0..MaxNow /\ arrived \in 0..MaxMessages /\ stops \in 0..MaxStops
      /\ handler \in [Callers -> Handlers(arrived)] /\ loop \in Loops
      /\ store \in Commands /\ fed \in Never..now /\ sent \in Commands
      /\ stopped \in 0..arrived /\ crossed \cup late \subseteq 1..arrived
  BY DEF TypeOK
<1>2. None \in Commands
  BY DEF None, Commands, Never
<1>3. ASSUME NEW c \in Callers, NEW h, handler' = [handler EXCEPT ![c] = h],
             arrived <= arrived', arrived' \in Nat, h \in Handlers(arrived')
      PROVE  handler' \in [Callers -> Handlers(arrived')]
  <2>1. \A d \in Callers : handler[d] \in Handlers(arrived')
    BY <1>1, <1>3
  <2> HIDE DEF Handlers
  <2> QED
    BY <1>1, <1>3, <2>1
<1>4. ASSUME NEW c \in Callers, NEW n \in Seqs, Feed(c, n),
             (c \in Pages /\ loop' = c) \/ loop' = loop
      PROVE  TypeOK'
  <2> DEFINE m == [id |-> arrived + 1, seq |-> n, at |-> now]
             h == [handler[c] EXCEPT !.pc = "fed", !.msg = m]
  <2>1. m \in Commands
    BY <1>1, <1>4 DEF Feed, Commands, Never
  <2>2. handler' = [handler EXCEPT ![c] = h] /\ arrived' = arrived + 1
    BY <1>4 DEF Feed, Goto
  <2>3. handler[c] \in Handlers(arrived)
    BY <1>1
  <2>4. arrived <= arrived' /\ arrived' \in Nat
    BY <1>1, <2>2
  <2>5. h \in Handlers(arrived')
    <3> HIDE DEF m
    <3>1. handler[c] \in Handlers(arrived')
      BY <1>1, <2>2, <2>3
    <3> QED BY <2>1, <3>1
  <2>6. handler' \in [Callers -> Handlers(arrived')]
    <3> HIDE DEF Handlers, h
    <3> QED BY <1>1, <1>3, <2>2, <2>4, <2>5
  <2>7. loop' \in Loops'
    BY <1>1, <1>4, <2>2 DEF At, Callers
  <2>8. crossed' \cup late' \subseteq 1..arrived'
    BY <1>1, <1>4 DEF Feed, Arrived, Cmd
  <2>9. bridge' = bridge /\ sent' = sent /\ fed' = now /\ store' = store /\ now' = now
        /\ stops' = stops /\ stopped' = stopped /\ arrived' \in 0..MaxMessages
    BY <1>1, <1>4 DEF Feed, vehicle
  <2> QED
    BY <1>1, <2>2, <2>6, <2>7, <2>8, <2>9 DEF TypeOK, Never
<1>5. ASSUME NEW c \in Callers, Store(c) PROVE TypeOK'
  <2> DEFINE h == [handler[c] EXCEPT !.pc = "idle", !.msg = None]
  <2>1. handler' = [handler EXCEPT ![c] = h] /\ UNCHANGED <<now, fed, vehicle, ghosts>>
    BY <1>5 DEF Store, Goto
  <2>2. handler[c] \in Handlers(arrived)
    BY <1>1
  <2>3. h \in Handlers(arrived') /\ arrived' = arrived
    BY <1>2, <2>1, <2>2 DEF ghosts
  <2>4. handler' \in [Callers -> Handlers(arrived')]
    <3> HIDE DEF Handlers, h
    <3> QED BY <1>1, <1>3, <2>1, <2>3
  <2>5. loop' \in Loops'
    BY <1>1, <1>5, <2>1 DEF At, Callers, Store
  <2>6. store' \in Commands
    BY <2>2, <1>5 DEF Store
  <2> QED
    BY <1>1, <2>1, <2>4, <2>5, <2>6 DEF TypeOK, vehicle, ghosts
<1>6. ASSUME NEW r \in Requests, PostStop(r) PROVE TypeOK'
  <2> DEFINE h == [Quiet EXCEPT !.pc = "cleared", !.seen = arrived]
  <2>1. handler' = [handler EXCEPT ![r] = h]
        /\ UNCHANGED <<now, loop, fed, vehicle, arrived, stopped, crossed>>
    BY <1>6 DEF PostStop
  <2>2. h \in Handlers(arrived')
    <3>1. Quiet \in Handlers(arrived')
      BY <1>1, <1>2, <2>1 DEF Quiet
    <3>2. arrived \in 0..arrived'
      BY <1>1, <2>1
    <3> QED BY <3>1, <3>2
  <2>3. handler' \in [Callers -> Handlers(arrived')]
    <3> HIDE DEF Handlers, h
    <3> QED BY <1>1, <1>3, <2>1, <2>2 DEF Callers
  <2>4. loop' \in Loops'
    BY <1>1, <1>6, <2>1 DEF PostStop, At, Callers
  <2>5. late' \subseteq 1..arrived'
    BY <1>1, <1>6 DEF PostStop, Arrived, Cmd
  <2>6. store' \in Commands /\ stops' \in 0..MaxStops
    BY <1>1, <1>2, <1>6 DEF PostStop, Cleared
  <2> QED
    BY <1>1, <2>1, <2>3, <2>4, <2>5, <2>6 DEF TypeOK, vehicle
<1>7. ASSUME NEW r \in Requests, StopResets(r) PROVE TypeOK'
  <2>1. handler' = [handler EXCEPT ![r] = Quiet]
        /\ UNCHANGED <<now, loop, store, vehicle, arrived, stops, crossed, late>>
    BY <1>7 DEF StopResets
  <2>2. Quiet \in Handlers(arrived')
    BY <1>1, <1>2, <2>1 DEF Quiet
  <2>3. handler' \in [Callers -> Handlers(arrived')]
    <3> HIDE DEF Handlers
    <3> QED BY <1>1, <1>3, <2>1, <2>2 DEF Callers
  <2>4. loop' \in Loops'
    BY <1>1, <1>7, <2>1 DEF StopResets, At, Callers
  <2>5. stopped' \in 0..arrived' /\ fed' = Never
    BY <1>1, <1>7 DEF StopResets, Callers
  <2> QED
    BY <1>1, <2>1, <2>3, <2>4, <2>5 DEF TypeOK, vehicle, Never
<1>8. CASE Work
  <2> DEFINE Bridges(n) == [pc : {"asleep", "fresh", "sending"}, msg : Commands,
                            lastSeq : Seqs \cup {Never}, at : 0..n]
  <2>1. bridge \in Bridges(now) /\ now' = now /\ now \in 0..now
    BY <1>1, <1>8 DEF TypeOK, Work, BridgeWakes, BridgeReads, BridgeSends, BridgeFails
  <2>2. /\ bridge.lastSeq \in Seqs \cup {Never} /\ bridge.msg \in Commands /\ bridge.at \in 0..now
        /\ bridge.msg.seq \in Seqs \cup {Never}
    BY <2>1 DEF Commands
  <2>3. \/ bridge' = bridge
        \/ bridge' = [pc |-> "fresh", msg |-> bridge.msg, lastSeq |-> bridge.lastSeq, at |-> now]
        \/ bridge' = [pc |-> "sending", msg |-> store, lastSeq |-> bridge.lastSeq, at |-> bridge.at]
        \/ bridge' = [pc |-> "asleep", msg |-> bridge.msg, lastSeq |-> bridge.lastSeq,
                      at |-> bridge.at]
        \/ bridge' = [pc |-> "asleep", msg |-> None, lastSeq |-> bridge.msg.seq, at |-> bridge.at]
        \/ bridge' = [pc |-> "asleep", msg |-> None, lastSeq |-> bridge.lastSeq, at |-> bridge.at]
    BY <1>8, <2>1 DEF Work, BridgeWakes, BridgeReads, BridgeSends, BridgeFails, NumberKept
  <2>4. bridge' \in Bridges(now')
    BY <1>1, <1>2, <2>1, <2>2, <2>3
  <2>5. /\ UNCHANGED <<now, handler, store, fed, ghosts>>
        /\ loop' \in {loop, Free, Bridge} /\ sent' \in {sent, bridge.msg}
    BY <1>8 DEF Work, BridgeWakes, BridgeReads, BridgeSends, BridgeFails
  <2> QED
    BY <1>1, <2>2, <2>4, <2>5 DEF TypeOK, ghosts, At
<1>9. CASE Tick
  BY <1>9 DEF TypeOK, Tick, vehicle, ghosts, At
<1>10. CASE UNCHANGED vars
  BY <1>10 DEF TypeOK, vars, vehicle, ghosts, At
<1> QED
  BY <1>4, <1>5, <1>6, <1>7, <1>8, <1>9, <1>10
     DEF Next, Caller, SocketControl, PostControl, Callers

\* Every action keeps the inductive invariant. A command that arrives overlaps all that are about
\* to be stored, and a stop sees to what is stored and leaves what is about to be.
LEMMA Step ==
  ASSUME IInv, [Next]_vars
  PROVE  IInv'
<1> DEFINE Rest == Arrived /\ Surviving /\ FedByLatest /\ Overtaken /\ FreshStill
<1> USE RoverAssumption
<1>1. /\ now \in 0..MaxNow /\ arrived \in 0..MaxMessages /\ fed \in Never..now
      /\ bridge.at \in 0..now /\ stopped \in 0..arrived
      /\ store \in Commands /\ DOMAIN handler = Callers
      /\ \A c \in Callers : handler[c].msg \in Commands /\ handler[c].seen \in 0..arrived
  BY DEF IInv, TypeOK
<1>2. Rest
  BY DEF IInv
<1>3. ASSUME NEW c \in Callers, NEW n \in Seqs, Feed(c, n) PROVE Rest'
  <2>1. /\ Fed' = Fed \cup {c} /\ c \notin Fed
        /\ Cmd(c)'.id = arrived + 1 /\ Cmd(c)'.at = now
        /\ \A d \in Fed : Cmd(d)' = Cmd(d)
        /\ \A r \in Callers :
             At(r, "cleared")' => At(r, "cleared") /\ handler'[r].seen = handler[r].seen
    BY <1>1, <1>3 DEF Feed, Goto, Fed, At, Cmd
  <2>2. /\ arrived' = arrived + 1 /\ fed' = now
        /\ UNCHANGED <<now, store, bridge, stopped, late>> /\ crossed \subseteq crossed'
        /\ Fed # {} => \A d \in Fed' : Cmd(d)'.id \in crossed'
    BY <1>3, <2>1 DEF Feed, vehicle, Cmd
  <2>3. Arrived'
    BY <1>1, <1>2, <2>1, <2>2 DEF Arrived, Commands
  <2>4. Surviving'
    BY <1>1, <1>2, <2>1, <2>2 DEF Surviving, After, Stored
  <2>5. FedByLatest'
    BY <1>1, <1>2, <2>1, <2>2 DEF FedByLatest, Arrived, Stored, Commands
  <2>6. Overtaken'
    BY <1>1, <1>2, <2>1, <2>2 DEF Overtaken, Stored
  <2>7. FreshStill'
    BY <1>1, <1>2, <2>1, <2>2 DEF FreshStill, Recent, Stored
  <2> QED
    BY <2>3, <2>4, <2>5, <2>6, <2>7
<1>4. ASSUME NEW c \in Callers, Store(c) PROVE Rest'
  <2>1. /\ Fed' = Fed \ {c} /\ c \in Fed
        /\ \A d \in Fed' : Cmd(d)' = Cmd(d)
        /\ \A r \in Callers :
             At(r, "cleared")' => At(r, "cleared") /\ handler'[r].seen = handler[r].seen
    BY <1>1, <1>4 DEF Store, Goto, Fed, At, Cmd
  <2>2. store' = Cmd(c) /\ UNCHANGED <<now, fed, bridge, arrived, stopped, crossed, late>>
    BY <1>4 DEF Store, vehicle, ghosts, Cmd
  <2>3. Arrived'
    BY <1>1, <1>2, <2>1, <2>2 DEF Arrived
  <2>4. Surviving'
    BY <1>2, <2>1, <2>2 DEF Surviving, After
  <2>5. FedByLatest'
    BY <1>2, <2>1, <2>2 DEF FedByLatest
  <2>6. Overtaken'
    BY <1>2, <2>1, <2>2 DEF Overtaken
  <2>7. FreshStill'
    BY <1>2, <2>1, <2>2 DEF FreshStill, Recent
  <2> QED
    BY <2>3, <2>4, <2>5, <2>6, <2>7
<1>5. ASSUME NEW r \in Requests, PostStop(r) PROVE Rest'
  <2>1. /\ Fed' = Fed /\ \A d \in Fed : Cmd(d)' = Cmd(d)
        /\ \A q \in Callers : At(q, "cleared")' =>
             \/ handler'[q].seen = arrived
             \/ At(q, "cleared") /\ handler'[q].seen = handler[q].seen
    BY <1>1, <1>5 DEF PostStop, Quiet, Fed, At, Cmd, Callers
  <2>2. /\ store' = None /\ UNCHANGED <<now, fed, bridge, arrived, stopped, crossed>>
        /\ late \subseteq late' /\ \A d \in Fed : Cmd(d).id \in late'
    BY <1>5 DEF PostStop, Cleared, vehicle, Cmd
  <2>3. Arrived'
    BY <1>1, <1>2, <2>1, <2>2 DEF Arrived, None
  <2>4. Surviving'
    BY <1>2, <2>1, <2>2 DEF Surviving, After, Stored
  <2>5. FedByLatest'
    BY <1>2, <2>1, <2>2 DEF FedByLatest, Stored
  <2>6. Overtaken'
    BY <1>2, <2>1, <2>2 DEF Overtaken, Stored
  <2>7. FreshStill'
    BY <1>2, <2>1, <2>2 DEF FreshStill, Recent, Stored
  <2> QED
    BY <2>3, <2>4, <2>5, <2>6, <2>7
<1>6. ASSUME NEW r \in Requests, StopResets(r) PROVE Rest'
  <2>1. /\ Fed' = Fed /\ \A d \in Fed : Cmd(d)' = Cmd(d)
        /\ r \in Callers /\ At(r, "cleared")
        /\ \A q \in Callers : At(q, "cleared")' => At(q, "cleared") /\ handler'[q].seen = handler[q].seen
    BY <1>1, <1>6 DEF StopResets, Quiet, Fed, At, Cmd, Callers
  <2>2. /\ fed' = Never /\ stopped' \in {stopped, handler[r].seen}
        /\ UNCHANGED <<now, store, bridge, arrived, crossed, late>>
    BY <1>6 DEF StopResets, vehicle
  <2>3. Arrived'
    BY <1>2, <2>1, <2>2 DEF Arrived
  <2>4. Surviving'
    BY <1>2, <2>1, <2>2 DEF Surviving, After, Stored
  <2>5. FedByLatest'
    BY <2>2 DEF FedByLatest
  <2>6. Overtaken'
    BY <1>2, <2>1, <2>2 DEF Overtaken, Stored
  <2>7. FreshStill'
    BY <1>2, <2>1, <2>2 DEF FreshStill, Recent, Stored
  <2> QED
    BY <2>3, <2>4, <2>5, <2>6, <2>7
<1>7. ASSUME BridgeWakes PROVE Rest'
  <2>1. /\ fed # Never /\ now - fed <= Timeout /\ bridge'.at = now
        /\ UNCHANGED <<now, handler, store, fed, ghosts>>
    BY <1>1, <1>7 DEF BridgeWakes, Stale, TypeOK, IInv, Never
  <2>2. Fed' = Fed /\ \A d \in Callers : Cmd(d)' = Cmd(d)
    BY <2>1 DEF Fed, At, Cmd
  <2>3. (Arrived /\ Surviving /\ FedByLatest /\ Overtaken)'
    BY <1>2, <2>1 DEF Arrived, Surviving, FedByLatest, Overtaken, Stored, After, At, Fed, Cmd, ghosts
  <2>4. \A d \in Fed : Recent(Cmd(d))'
    BY <1>1, <1>2, <2>1, <2>2 DEF Recent, FedByLatest, Overtaken, ghosts, Fed
  <2>5. Stored => Recent(store)' \/ \E d \in Fed : Cmd(d).id > store.id
    BY <1>1, <1>2, <2>1 DEF Recent, FedByLatest, Overtaken, Arrived, Commands, Stored, ghosts
  <2>6. FreshStill'
    BY <2>1, <2>2, <2>4, <2>5 DEF FreshStill, Stored, Fed
  <2> QED
    BY <2>3, <2>6
<1>8. ASSUME BridgeReads \/ BridgeSends \/ BridgeFails PROVE Rest'
  <2>1. UNCHANGED <<now, handler, store, fed, ghosts>> /\ bridge'.pc # "fresh"
    BY <1>8 DEF BridgeReads, BridgeSends, BridgeFails, IInv, TypeOK
  <2> QED
    BY <1>2, <2>1 DEF Arrived, Surviving, FedByLatest, Overtaken, FreshStill, Stored, After, At,
                      Fed, Cmd, ghosts
<1>9. ASSUME Tick \/ UNCHANGED vars PROVE Rest'
  <2>1. UNCHANGED <<handler, store, fed, bridge, ghosts>>
    BY <1>9 DEF Tick, vars, vehicle
  <2> QED
    BY <1>2, <2>1 DEF Arrived, Surviving, FedByLatest, Overtaken, FreshStill, Recent, Stored,
                      After, At, Fed, Cmd, ghosts
<1>10. Rest'
  BY <1>3, <1>4, <1>5, <1>6, <1>7, <1>8, <1>9
     DEF IInv, Next, Caller, Work, SocketControl, PostControl, Callers
<1> QED
  BY <1>10, TypeStep DEF IInv

-------------------------------------------------------------------------------
\* The inductive invariant holds throughout: the program starts with nothing stored, nothing about
\* to be stored and no stop, and every action keeps it.
THEOREM Inductive == Spec => []IInv
<1>1. Init => IInv
  <2> SUFFICES ASSUME Init PROVE IInv
    OBVIOUS
  <2> USE RoverAssumption
  <2>1. TypeOK
    BY DEF Init, TypeOK, Quiet, Commands, None, Never, Free, Bridge, At
  <2>2. Fed = {}
    BY DEF Init, Fed, At, Quiet
  <2>3. store = None /\ fed = Never /\ bridge.pc = "asleep" /\ arrived = 0
        /\ \A r \in Callers : ~At(r, "cleared")
    BY DEF Init, At, Quiet
  <2> QED
    BY <2>1, <2>2, <2>3
       DEF IInv, Arrived, Surviving, FedByLatest, Overtaken, FreshStill, Stored, None
<1> QED
  BY <1>1, Step, PTL DEF Spec

\* Whatever the threads and the loop do, the types hold.
THEOREM TypeCorrect == Spec => []TypeOK
<1>1. IInv => TypeOK
  BY DEF IInv
<1> QED
  BY <1>1, Inductive, PTL

\* A stop holds: the bridge takes nothing that had arrived before it and was stored when it
\* cleared the store, for any number of pages and threads.
THEOREM StopsHold == Spec => StopHolds
<1>1. IInv /\ [Next]_vars => [Takes => bridge'.msg.id > stopped \/ bridge'.msg.id \in late]_vars
  <2> SUFFICES ASSUME IInv, [Next]_vars, Takes, vars' # vars
               PROVE  bridge'.msg.id > stopped \/ bridge'.msg.id \in late
    OBVIOUS
  <2>1. Stored /\ bridge'.msg = store
    BY DEF Takes, Next, Caller, Work, SocketControl, PostControl, Feed, Store, PostStop,
           StopResets, BridgeWakes, BridgeReads, BridgeSends, BridgeFails, Tick, vars,
           vehicle, ghosts, Stored, IInv, TypeOK
  <2> QED
    BY <2>1 DEF IInv, Surviving, After
<1> QED
  BY <1>1, Inductive, PTL DEF Spec, StopHolds

\* What the bridge takes is fresh, or overtaken, or its handler overlapped another's.
THEOREM Fresh == Spec => FreshWhenTaken
<1> DEFINE Good == \/ bridge'.at - bridge'.msg.at <= Timeout
                   \/ bridge'.msg.id \in crossed
                   \/ \E c \in Fed : handler[c].msg.id > bridge'.msg.id
<1>1. IInv /\ [Next]_vars => [Takes => Good]_vars
  <2> SUFFICES ASSUME IInv, [Next]_vars, Takes, vars' # vars
               PROVE  Good
    OBVIOUS
  <2>1. Stored /\ bridge'.msg = store /\ bridge'.at = bridge.at /\ bridge.pc = "fresh"
    BY DEF Takes, Next, Caller, Work, SocketControl, PostControl, Feed, Store, PostStop,
           StopResets, BridgeWakes, BridgeReads, BridgeSends, BridgeFails, Tick, vars,
           vehicle, ghosts, Stored, IInv, TypeOK
  <2> QED
    BY <2>1 DEF IInv, FreshStill, Recent, Cmd
<1> QED
  BY <1>1, Inductive, PTL DEF Spec, FreshWhenTaken
================================================================================
