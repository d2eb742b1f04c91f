--------------------------------- MODULE Rover ---------------------------------
\* Rover control: pages that drive over the socket, REST requests that drive or
\* stop, the control store and the advisory failsafe they write, and the bridge
\* that reads both and forwards commands to the vehicle.
\*
\* REST handlers are `def` functions and run in threads: every call that takes a
\* lock is a step. The socket's handler and the bridge run on the event loop, one
\* at a time, and threads run between their steps. A tick of the clock is longer
\* than the bridge's poll interval and shorter than the failsafe's timeout.
EXTENDS Integers

CONSTANTS
  Pages,        \* dashboards connected by the socket
  Requests,     \* threads that serve REST requests
  Timeout,      \* COMMAND_TIMEOUT_SEC in ticks
  Seqs,         \* sequence numbers that clients give their commands
  MaxMessages,  \* bound on the commands sent
  MaxStops,     \* bound on the stops requested
  MaxNow        \* bound on the clock

ASSUME RoverAssumption ==
  /\ Pages \cap Requests = {}
  /\ Seqs \subseteq Nat
  /\ Timeout \in Nat /\ MaxMessages \in Nat /\ MaxStops \in Nat /\ MaxNow \in Nat

Callers == Pages \cup Requests
Free == "free"
Bridge == "bridge"
Never == -1  \* earlier than any time, and no sequence number
None == [id |-> 0, seq |-> Never, at |-> Never]

VARIABLES
  now,
  handler,  \* each caller's handler: pc, the command it carries, and for a stop
            \* how many commands had arrived when it cleared the store
  loop,     \* what occupies the event loop
  store,    \* _last_control
  fed,      \* _last_valid_at, or Never
  bridge,   \* the bridge: pc, the command it has read, its last_seq, and when it
            \* looked at the failsafe
  arrived,  \* commands validated so far
  stops,    \* stops requested so far
  stopped,  \* commands 1..stopped had arrived when a stop that has returned began
  crossed,  \* commands whose handlers overlapped another command's
  late,     \* commands that had not been stored when a stop cleared the store
  sent      \* the command forwarded last

vehicle == <<bridge, sent>>
ghosts == <<arrived, stops, stopped, crossed, late>>
vars == <<now, handler, loop, store, fed, vehicle, ghosts>>

Quiet == [pc |-> "idle", msg |-> None, seen |-> 0]

Init ==
  /\ now = 0
  /\ handler = [c \in Callers |-> Quiet]
  /\ loop = Free
  /\ store = None
  /\ fed = Never
  /\ bridge = [pc |-> "asleep", msg |-> None, lastSeq |-> Never, at |-> 0]
  /\ arrived = 0 /\ stops = 0 /\ stopped = 0 /\ crossed = {} /\ late = {}
  /\ sent = None

At(c, pc) == handler[c].pc = pc
Goto(c, pc, msg) == handler' = [handler EXCEPT ![c] = [@ EXCEPT !.pc = pc, !.msg = msg]]
Fed == {c \in Callers : At(c, "fed")}

-------------------------------------------------------------------------------
\* The failsafe

\* Mutant: only a reset makes the last command stale.
StaleAfterReset == fed = Never

\* is_stale: nothing valid since the start or the last stop, or not for the timeout.
Stale == fed = Never \/ now - fed > Timeout

-------------------------------------------------------------------------------
\* The store

\* Mutant: a stop resets the failsafe and leaves the command.
ClearedNot == store

\* clear_control.
Cleared == None

\* A valid command feeds the failsafe; its handler has still to store it.
Feed(c, n) ==
  /\ At(c, "idle") /\ arrived < MaxMessages
  /\ arrived' = arrived + 1
  /\ fed' = now
  /\ Goto(c, "fed", [id |-> arrived + 1, seq |-> n, at |-> now])
  /\ crossed' = IF Fed = {} THEN crossed
                ELSE crossed \cup {arrived + 1} \cup {handler[d].msg.id : d \in Fed}
  /\ UNCHANGED <<now, store, vehicle, stops, stopped, late>>

\* update_control under the store's lock.
Store(c) ==
  /\ At(c, "fed")
  /\ store' = handler[c].msg
  /\ Goto(c, "idle", None)
  /\ loop' = IF loop = c THEN Free ELSE loop
  /\ UNCHANGED <<now, fed, vehicle, ghosts>>

\* A page's command arrives on the socket: its handler occupies the loop.
SocketControl(p) ==
  /\ loop = Free
  /\ loop' = p
  /\ \E n \in Seqs : Feed(p, n)

PostControl(r) ==
  /\ \E n \in Seqs : Feed(r, n)
  /\ UNCHANGED loop

\* A stop clears the store and then resets the failsafe.
PostStop(r) ==
  /\ At(r, "idle") /\ stops < MaxStops
  /\ stops' = stops + 1
  /\ store' = Cleared
  /\ handler' = [handler EXCEPT ![r] = [Quiet EXCEPT !.pc = "cleared", !.seen = arrived]]
  /\ late' = late \cup {handler[c].msg.id : c \in Fed}
  /\ UNCHANGED <<now, loop, fed, vehicle, arrived, stopped, crossed>>

\* reset() of the failsafe; the stop returns.
StopResets(r) ==
  /\ At(r, "cleared")
  /\ fed' = Never
  /\ stopped' = IF handler[r].seen > stopped THEN handler[r].seen ELSE stopped
  /\ handler' = [handler EXCEPT ![r] = Quiet]
  /\ UNCHANGED <<now, loop, store, vehicle, arrived, stops, crossed, late>>

-------------------------------------------------------------------------------
\* The bridge

\* The bridge compares with the number it forwarded last, and with no other.
IsNew(m) == m.seq # bridge.lastSeq

\* run_bridge, awake: is_stale, get_last_control and send_command, then the sleep.
BridgeWakes ==
  /\ loop = Free /\ bridge.pc = "asleep" /\ ~Stale
  /\ loop' = Bridge
  /\ bridge' = [bridge EXCEPT !.pc = "fresh", !.at = now]
  /\ UNCHANGED <<now, handler, store, fed, sent, ghosts>>

BridgeReads ==
  /\ bridge.pc = "fresh"
  /\ IF store # None /\ IsNew(store)
     THEN bridge' = [bridge EXCEPT !.pc = "sending", !.msg = store] /\ UNCHANGED loop
     ELSE bridge' = [bridge EXCEPT !.pc = "asleep"] /\ loop' = Free
  /\ UNCHANGED <<now, handler, store, fed, sent, ghosts>>

BridgeSends ==
  /\ bridge.pc = "sending"
  /\ sent' = bridge.msg
  /\ bridge' = [bridge EXCEPT !.pc = "asleep", !.msg = None, !.lastSeq = bridge.msg.seq]
  /\ loop' = Free
  /\ UNCHANGED <<now, handler, store, fed, ghosts>>

\* Mutant: the number is remembered before the send.
NumberTaken == bridge.msg.seq

\* last_seq is assigned after the send.
NumberKept == bridge.lastSeq

\* The backend raises: the error is logged, and the loop goes on after the sleep.
BridgeFails ==
  /\ bridge.pc = "sending"
  /\ bridge' = [bridge EXCEPT !.pc = "asleep", !.msg = None, !.lastSeq = NumberKept]
  /\ loop' = Free
  /\ UNCHANGED <<now, handler, store, fed, sent, ghosts>>

Tick ==
  /\ now < MaxNow
  /\ now' = now + 1
  /\ UNCHANGED <<handler, loop, store, fed, vehicle, ghosts>>

-------------------------------------------------------------------------------
Caller ==
  \/ \E p \in Pages : SocketControl(p)
  \/ \E r \in Requests : PostControl(r) \/ PostStop(r) \/ StopResets(r)
  \/ \E c \in Callers : Store(c)

Work == BridgeWakes \/ BridgeReads \/ BridgeSends \/ BridgeFails

Next == Caller \/ Work \/ Tick

\* The loop resumes a bridge whose sleep is over and threads are scheduled. Weak
\* fairness is enough for the bridge, which shares the loop with the sockets: every
\* handler on the loop ends, and the loop serves its queue in order. A backend that is
\* tried again and again takes a command some time.
Fairness == WF_vars(BridgeWakes) /\ WF_vars(BridgeReads) /\ SF_vars(BridgeSends)
            /\ \A c \in Callers : WF_vars(Store(c))

Spec == Init /\ [][Next]_vars /\ Fairness

-------------------------------------------------------------------------------
Commands == [id : 0..MaxMessages, seq : Seqs \cup {Never}, at : Never..MaxNow]

\* Whoever occupies the loop is at work on it, the bridge holds a command only
\* while it sends it, and no more has been stopped than has arrived.
TypeOK ==
  /\ now \in 0..MaxNow /\ arrived \in 0..MaxMessages /\ stops \in 0..MaxStops
  /\ handler \in [Callers -> [pc : {"idle", "fed", "cleared"}, msg : Commands, seen : 0..arrived]]
  /\ loop \in {Free, Bridge} \cup {p \in Pages : At(p, "fed")}
  /\ store \in Commands /\ fed \in Never..now /\ sent \in Commands
  /\ bridge \in [pc : {"asleep", "fresh", "sending"}, msg : Commands,
                 lastSeq : Seqs \cup {Never}, at : 0..now]
  /\ stopped \in 0..arrived /\ crossed \cup late \subseteq 1..arrived

Takes == bridge.pc = "fresh" /\ bridge'.pc = "sending"

\* What the bridge takes to forward was no older than the timeout when the bridge
\* looked at the failsafe, unless a newer command has fed the failsafe and is not
\* stored yet, or the two handlers overlapped and stored in the other order.
FreshWhenTaken ==
  [][Takes =>
       \/ bridge'.at - bridge'.msg.at <= Timeout
       \/ bridge'.msg.id \in crossed
       \/ \E c \in Fed : handler[c].msg.id > bridge'.msg.id]_vars

\* After a stop has returned, the bridge does not take a command that had arrived
\* before the stop, unless that command's handler was still to store it.
StopHolds ==
  [][Takes => bridge'.msg.id > stopped \/ bridge'.msg.id \in late]_vars

\* A stored command with a number above the one forwarded last reaches the vehicle, however often the
\* backend fails and whatever is stored and stopped meanwhile, unless another one or a stop replaces it,
\* it grows stale, or a command that the bridge had read before it brings its number (run_bridge).
Delivered ==
  \A id \in 1..MaxMessages :
    store.id = id /\ store.seq > sent.seq ~>
      sent.id = id \/ store.id # id \/ Stale \/ store.seq <= sent.seq
================================================================================
