---------------------------- MODULE ModbusServer ----------------------------
(***************************************************************************)
(* The session layer of simpleics_pot/server.py: connections with a limit  *)
(* on how many are active, an idle and an incomplete-request timer each, a *)
(* bounded receive buffer, a bounded queue of decoded requests and one     *)
(* task that drains it.                                                    *)
(*                                                                         *)
(* Everything runs in one asyncio event loop.  A callback is one action:   *)
(* connection_made, connection_lost, data_received with the decoding it    *)
(* calls, a timer's callback.  The drain task is one action per stretch    *)
(* between two awaits.  PyModbus and the transport are external: a TCP     *)
(* delivery is the sequence of frames it completes and the bytes it leaves *)
(* over.                                                                   *)
(***************************************************************************)
EXTENDS Integers, Sequences, FiniteSets

CONSTANTS
  Handlers,          \* ContextAwareRequestHandler objects, reused when garbage
  MaxActive,         \* max_active_connections
  MaxPending,        \* MAX_PENDING_REQUESTS
  MaxBytes,          \* MAX_PENDING_REQUEST_BYTES
  FrameBytes,        \* bytes of one complete frame
  IdleTimeout, IncompleteTimeout,  \* idle_/incomplete_request_timeout_seconds
  Deliveries,        \* what one TCP delivery completes: sequences of frame kinds
  MaxTail,           \* bound of the model: bytes a delivery leaves over
  MaxRequests        \* bound of the model: request frames of one connection

(* What the decoder makes of a complete frame: a request for the queue, a  *)
(* frame it uses up without queueing one (no PDU, or a single-coil write   *)
(* of an undefined value, refused on the spot), or an exception.           *)
Kinds == {"request", "skipped", "undecodable"}

ASSUME LimitsAssumption ==
  /\ IsFiniteSet(Handlers)
  /\ MaxActive \in Nat \ {0}     \* refused by __init__ otherwise
  /\ IdleTimeout \in Nat \ {0} /\ IncompleteTimeout \in Nat \ {0}
  /\ MaxPending \in Nat /\ MaxBytes \in Nat /\ FrameBytes \in Nat \ {0}
  /\ MaxTail \in Nat /\ MaxRequests \in Nat
  /\ Deliveries \subseteq Seq(Kinds)

NoTimer == -1

VARIABLES
  phase,             \* the transport: "none", "open", "closing" or "lost"
  active,            \* server._active_connections
  registered,        \* _registered
  idle_timer, incomplete_timer,  \* time left of the two TimerHandles, or NoTimer
  recv_buffer,       \* bytes of recv_buffer
  pending,           \* _pending_requests, as the requests' numbers of arrival
  tasks,             \* drain tasks that are not done()
  inflight,          \* requests inside _execute_request
  started,           \* the request popped last
  received,          \* request frames delivered so far
  partial_age        \* history: how long the frame now in the buffer is there

connections == <<phase, active, registered>>
timers == <<idle_timer, incomplete_timer>>
queues == <<pending, tasks, inflight, started>>
vars == <<connections, timers, queues, recv_buffer, received, partial_age>>

Init ==
  /\ phase = [h \in Handlers |-> "none"]
  /\ active = {}
  /\ registered = [h \in Handlers |-> FALSE]
  /\ idle_timer = [h \in Handlers |-> NoTimer]
  /\ incomplete_timer = [h \in Handlers |-> NoTimer]
  /\ recv_buffer = [h \in Handlers |-> 0]
  /\ pending = [h \in Handlers |-> <<>>]
  /\ tasks = [h \in Handlers |-> 0]
  /\ inflight = [h \in Handlers |-> {}]
  /\ started = [h \in Handlers |-> 0]
  /\ received = [h \in Handlers |-> 0]
  /\ partial_age = [h \in Handlers |-> 0]

-----------------------------------------------------------------------------
(* Faulty variants of the definitions below, for the properties to notice. *)
UnregisterForgets(h) ==
  /\ registered' = [registered EXCEPT ![h] = FALSE]
  /\ UNCHANGED active
OverflowsNever(h, fs) == FALSE
IncompleteAfterRearmed(h, left) == IF left = 0 THEN NoTimer ELSE IncompleteTimeout
ArmIdleTimerNot(h) == idle_timer' = [idle_timer EXCEPT ![h] = NoTimer]
TasksAfterAlways(h, queue) == IF queue # <<>> THEN tasks[h] + 1 ELSE tasks[h]
TasksAfterOnce(h, queue) ==
  IF queue # <<>> /\ tasks[h] = 0 /\ started[h] = 0 THEN 1 ELSE tasks[h]

-----------------------------------------------------------------------------
(* callback_new_connection: a new handler starts from empty fields.  The   *)
(* name of one whose connection is lost and whose task is done is free.    *)
Fresh(h) ==
  /\ phase[h] \in {"none", "lost"} /\ tasks[h] = 0
  /\ recv_buffer' = [recv_buffer EXCEPT ![h] = 0]
  /\ pending' = [pending EXCEPT ![h] = <<>>]
  /\ started' = [started EXCEPT ![h] = 0]
  /\ received' = [received EXCEPT ![h] = 0]
  /\ partial_age' = [partial_age EXCEPT ![h] = 0]
  /\ UNCHANGED <<tasks, inflight>>

(* register_connection.                                                    *)
SlotFree == Cardinality(active) < MaxActive

(* connection_made, with a slot and without one.                           *)
Accept(h) ==
  /\ SlotFree
  /\ Fresh(h)
  /\ phase' = [phase EXCEPT ![h] = "open"]
  /\ active' = active \cup {h}
  /\ registered' = [registered EXCEPT ![h] = TRUE]
  /\ idle_timer' = [idle_timer EXCEPT ![h] = IdleTimeout]
  /\ incomplete_timer' = [incomplete_timer EXCEPT ![h] = NoTimer]

Refuse(h) ==
  /\ ~SlotFree
  /\ Fresh(h)
  /\ phase' = [phase EXCEPT ![h] = "closing"]
  /\ UNCHANGED <<active, registered, timers>>

(* _cancel_timers.                                                         *)
CancelTimers(h) ==
  /\ idle_timer' = [idle_timer EXCEPT ![h] = NoTimer]
  /\ incomplete_timer' = [incomplete_timer EXCEPT ![h] = NoTimer]

(* _unregister: only a registered handler gives its slot back.             *)
Unregister(h) ==
  /\ active' = IF registered[h] THEN active \ {h} ELSE active
  /\ registered' = [registered EXCEPT ![h] = FALSE]

(* The transport stops reading, and the buffer is dropped with it.         *)
CloseTransport(h) ==
  /\ phase' = [phase EXCEPT ![h] = "closing"]
  /\ recv_buffer' = [recv_buffer EXCEPT ![h] = 0]
  /\ partial_age' = [partial_age EXCEPT ![h] = 0]

(* close: the queue and its task are left as they are.                     *)
Close(h) ==
  /\ CancelTimers(h)
  /\ Unregister(h)
  /\ CloseTransport(h)
  /\ UNCHANGED queues

(* connection_lost: the peer went away, or a close came to its end.        *)
ConnectionLost(h) ==
  /\ phase[h] \in {"open", "closing"}
  /\ CancelTimers(h)
  /\ Unregister(h)
  /\ phase' = [phase EXCEPT ![h] = "lost"]
  /\ recv_buffer' = [recv_buffer EXCEPT ![h] = 0]
  /\ partial_age' = [partial_age EXCEPT ![h] = 0]
  /\ UNCHANGED <<queues, received>>

-----------------------------------------------------------------------------
(* A delivery of new bytes completes the frames fs, the first of them with *)
(* the bytes already buffered, and leaves tail bytes of the next one.  A   *)
(* tail of FrameBytes or more is a frame that announces a larger length;   *)
(* such a frame is never completed here, it ends by deadline or by limit.  *)
Requests(fs) == {i \in DOMAIN fs : fs[i] = "request"}
Size(fs, tail) == Len(fs) * FrameBytes + tail

Delivery(h, fs, tail) ==
  /\ phase[h] = "open"
  /\ fs # <<>> => recv_buffer[h] < FrameBytes
  /\ Size(fs, tail) > recv_buffer[h]
  /\ received[h] + Cardinality(Requests(fs)) <= MaxRequests
  /\ received' = [received EXCEPT ![h] = @ + Cardinality(Requests(fs))]

(* callback_data stops at the first frame whose decoding raises.           *)
Raises(fs) == \E i \in DOMAIN fs : fs[i] = "undecodable"
Decoded(fs) == {i \in Requests(fs) : \A j \in 1..i : fs[j] # "undecodable"}

(* The decoded requests, numbered in the order of arrival.                 *)
Numbered(h, fs) == [i \in 1..Cardinality(Decoded(fs)) |-> received[h] + i]
QueuedAnew(h, fs) == Numbered(h, fs)  \* faulty variant: the queue is replaced
Queued(h, fs) == pending[h] \o Numbered(h, fs)

Oversized(fs, tail) == Size(fs, tail) > MaxBytes
Overflows(h, fs) == Len(Queued(h, fs)) > MaxPending

(* data_received after the decoding: the idle timer starts again, the      *)
(* incomplete timer runs exactly while bytes are left over.                *)
ArmIdleTimer(h) == idle_timer' = [idle_timer EXCEPT ![h] = IdleTimeout]
IncompleteAfter(h, left) ==
  IF left = 0 THEN NoTimer
  ELSE IF incomplete_timer[h] = NoTimer THEN IncompleteTimeout
  ELSE incomplete_timer[h]

KeepTail(h, fs, left) ==
  /\ ArmIdleTimer(h)
  /\ recv_buffer' = [recv_buffer EXCEPT ![h] = left]
  /\ incomplete_timer' = [incomplete_timer EXCEPT ![h] = IncompleteAfter(h, left)]
  /\ partial_age' = [partial_age EXCEPT ![h] =
                       IF fs = <<>> /\ recv_buffer[h] > 0 THEN @ ELSE 0]

(* data_received refuses a delivery that would overfill the buffer.        *)
DeliverOversized(h, fs, tail) ==
  /\ Delivery(h, fs, tail)
  /\ Oversized(fs, tail)
  /\ Close(h)

(* One request too many for the queue: it is emptied and the connection    *)
(* closed; data_received goes on and arms the idle timer of the closed     *)
(* handler.                                                                *)
DeliverOverflow(h, fs, tail) ==
  /\ Delivery(h, fs, tail)
  /\ ~Oversized(fs, tail)
  /\ Overflows(h, fs)
  /\ pending' = [pending EXCEPT ![h] = <<>>]
  /\ Unregister(h)
  /\ CloseTransport(h)
  /\ ArmIdleTimer(h)
  /\ incomplete_timer' = [incomplete_timer EXCEPT ![h] = NoTimer]
  /\ UNCHANGED <<tasks, inflight, started>>

(* An exception of the decoder is answered, the rest of the delivery is    *)
(* thrown away, and callback_data returns before it starts a drain task.   *)
DeliverUndecodable(h, fs, tail) ==
  /\ Delivery(h, fs, tail)
  /\ ~Oversized(fs, tail)
  /\ ~Overflows(h, fs)
  /\ Raises(fs)
  /\ pending' = [pending EXCEPT ![h] = Queued(h, fs)]
  /\ KeepTail(h, fs, 0)
  /\ UNCHANGED <<connections, tasks, inflight, started>>

(* A drain task is started when there is work and none is running.         *)
TasksAfter(h, queue) ==
  IF queue # <<>> /\ tasks[h] = 0 THEN tasks[h] + 1 ELSE tasks[h]

DeliverDecoded(h, fs, tail) ==
  /\ Delivery(h, fs, tail)
  /\ ~Oversized(fs, tail)
  /\ ~Overflows(h, fs)
  /\ ~Raises(fs)
  /\ pending' = [pending EXCEPT ![h] = Queued(h, fs)]
  /\ tasks' = [tasks EXCEPT ![h] = TasksAfter(h, Queued(h, fs))]
  /\ KeepTail(h, fs, tail)
  /\ UNCHANGED <<connections, inflight, started>>

-----------------------------------------------------------------------------
(* _drain_requests: a task between two requests pops the next one and      *)
(* executes it up to its await, or ends when the queue is empty.           *)
PopNext(h) ==
  IF pending[h] = <<>>
  THEN tasks' = [tasks EXCEPT ![h] = @ - 1] /\ UNCHANGED <<pending, started>>
  ELSE /\ pending' = [pending EXCEPT ![h] = Tail(@)]
       /\ started' = [started EXCEPT ![h] = Head(pending[h])]
       /\ UNCHANGED tasks

Popped(h) == IF pending[h] = <<>> THEN {} ELSE {Head(pending[h])}

(* A task that was created and has not run yet.                            *)
StartDrain(h) ==
  /\ tasks[h] > Cardinality(inflight[h])
  /\ PopNext(h)
  /\ inflight' = [inflight EXCEPT ![h] = @ \cup Popped(h)]
  /\ UNCHANGED <<connections, timers, recv_buffer, received, partial_age>>

(* _execute_request returns: its answer is handed to the transport, which  *)
(* drops it when closed, and the loop goes on to the next request.         *)
FinishRequest(h) ==
  /\ \E r \in inflight[h] :
       inflight' = [inflight EXCEPT ![h] = (@ \ {r}) \cup Popped(h)]
  /\ PopNext(h)
  /\ UNCHANGED <<connections, timers, recv_buffer, received, partial_age>>

-----------------------------------------------------------------------------
(* _close_idle_connection and _close_incomplete_request.                   *)
FireIdle(h) ==
  /\ idle_timer[h] = 0
  /\ Close(h)
  /\ UNCHANGED received

FireIncomplete(h) ==
  /\ incomplete_timer[h] = 0
  /\ Close(h)
  /\ UNCHANGED received

(* Time passes for every armed timer; a timer that is due runs before more *)
(* time passes, but data that arrived may be handled before it.            *)
Due(h) == idle_timer[h] = 0 \/ incomplete_timer[h] = 0
Elapse(timer) == [h \in Handlers |-> IF timer[h] > 0 THEN timer[h] - 1 ELSE timer[h]]

Advance ==
  /\ \A h \in Handlers : ~Due(h)
  /\ idle_timer' = Elapse(idle_timer)
  /\ incomplete_timer' = Elapse(incomplete_timer)
  /\ partial_age' = [h \in Handlers |->
       IF recv_buffer[h] > 0 /\ partial_age[h] < IncompleteTimeout
       THEN partial_age[h] + 1 ELSE partial_age[h]]
  /\ UNCHANGED <<connections, queues, recv_buffer, received>>

-----------------------------------------------------------------------------
Deliver(h) ==
  \E fs \in Deliveries, tail \in 0..MaxTail :
    \/ DeliverOversized(h, fs, tail)
    \/ DeliverOverflow(h, fs, tail)
    \/ DeliverUndecodable(h, fs, tail)
    \/ DeliverDecoded(h, fs, tail)

Step(h) ==
  \/ Accept(h) \/ Refuse(h) \/ ConnectionLost(h)
  \/ Deliver(h)
  \/ StartDrain(h) \/ FinishRequest(h)
  \/ FireIdle(h) \/ FireIncomplete(h)

Next == Advance \/ \E h \in Handlers : Step(h)

Spec == Init /\ [][Next]_vars

(* The event loop runs due timers and ready tasks, and time passes; clients*)
(* owe nothing.                                                            *)
Fairness ==
  /\ WF_vars(Advance)
  /\ \A h \in Handlers :
       /\ WF_vars(StartDrain(h)) /\ WF_vars(FinishRequest(h))
       /\ WF_vars(FireIdle(h)) /\ WF_vars(FireIncomplete(h))

FairSpec == Spec /\ Fairness

-----------------------------------------------------------------------------
Timer(limit) == {NoTimer} \cup 0..limit

(* The type invariant of a handler's fields.                               *)
TypeOK ==
  /\ phase \in [Handlers -> {"none", "open", "closing", "lost"}]
  /\ active \subseteq Handlers
  /\ registered \in [Handlers -> BOOLEAN]
  /\ idle_timer \in [Handlers -> Timer(IdleTimeout)]
  /\ incomplete_timer \in [Handlers -> Timer(IncompleteTimeout)]
  /\ recv_buffer \in [Handlers -> Nat]
  /\ pending \in [Handlers -> Seq(Nat)]
  /\ tasks \in [Handlers -> Nat]
  /\ inflight \in [Handlers -> SUBSET Nat]
  /\ started \in [Handlers -> Nat]
  /\ received \in [Handlers -> Nat]
  /\ partial_age \in [Handlers -> 0..IncompleteTimeout]

(* No slot leaks and none is given out twice: whichever way connections    *)
(* end (peer, timers, limits, or several of them on the same connection),  *)
(* the active set is the set of open connections and keeps its limit       *)
(* (register_connection, unregister_connection, _unregister).              *)
SlotsMatchConnections ==
  /\ active = {h \in Handlers : phase[h] = "open"}
  /\ active = {h \in Handlers : registered[h]}
  /\ Cardinality(active) <= MaxActive

(* Every open connection has an idle deadline; it has an incomplete-       *)
(* request deadline exactly while bytes of a frame wait, and that deadline *)
(* leaves no frame more than the timeout from its first byte; a connection *)
(* that is gone has no timer (_arm_idle_timer, _cancel_timers,             *)
(* data_received).                                                         *)
TimersGuardConnections ==
  \A h \in Handlers :
    /\ phase[h] = "open" =>
         /\ idle_timer[h] # NoTimer
         /\ recv_buffer[h] = 0 => incomplete_timer[h] = NoTimer
         /\ recv_buffer[h] > 0 =>
              /\ incomplete_timer[h] # NoTimer
              /\ partial_age[h] + incomplete_timer[h] <= IncompleteTimeout
    /\ phase[h] # "open" => incomplete_timer[h] = NoTimer /\ recv_buffer[h] = 0
    /\ phase[h] \in {"none", "lost"} => idle_timer[h] = NoTimer

(* The deadline belongs to the buffer, not to a frame: it is armed when    *)
(* the buffer stops being empty, and while bytes wait nothing sets it back *)
(* or takes it away, not even a delivery that completes one frame and      *)
(* begins the next.  A client that pipelines gets one timeout for all of   *)
(* its frames (data_received).                                             *)
DeadlineRunsOn ==
  [][\A h \in Handlers :
       phase[h] = "open" /\ phase'[h] = "open" /\ recv_buffer'[h] > 0 =>
         IF recv_buffer[h] = 0
         THEN incomplete_timer'[h] = IncompleteTimeout
         ELSE incomplete_timer'[h] \in {incomplete_timer[h], incomplete_timer[h] - 1}]_vars

(* A client cannot make a session hold more than the two limits, however   *)
(* deliveries and the drain task interleave (data_received, callback_data).*)
SessionBounded ==
  \A h \in Handlers : Len(pending[h]) <= MaxPending /\ recv_buffer[h] <= MaxBytes

\* seq ascends strictly, above low and up to high.
Ascending(seq, low, high) ==
  /\ \A i \in 1..Len(seq) : low < seq[i] /\ seq[i] <= high
  /\ \A i, j \in 1..Len(seq) : i < j => seq[i] < seq[j]

(* Requests of a connection are executed one at a time, each at most once, *)
(* in the order of arrival, also while deliveries go on, after a decoder   *)
(* exception and after a close (callback_data, _drain_requests).           *)
InOrder ==
  \A h \in Handlers :
    /\ inflight[h] \subseteq {started[h]}
    /\ Cardinality(inflight[h]) <= tasks[h] /\ tasks[h] <= 1
    /\ started[h] <= received[h]
    /\ Ascending(pending[h], started[h], received[h])

(* As the comment of callback_data has it, every complete ADU of a         *)
(* delivery is decoded into the queue: on an open connection each request  *)
(* received so far has been started or is still queued.                    *)
NoRequestLost ==
  \A h \in Handlers : phase[h] = "open" =>
    /\ \A i \in DOMAIN pending[h] : pending[h][i] = started[h] + i
    /\ started[h] + Len(pending[h]) = received[h]

(* A client that falls silent loses its connection, and with it its slot.  *)
SilentConnectionCloses ==
  \A h \in Handlers : []<>(phase[h] # "open") \/ []<><<Deliver(h)>>_vars

(* No client holds a connection with an incomplete request for good, not   *)
(* even one that goes on sending bytes.                                    *)
IncompleteConnectionCloses ==
  \A h \in Handlers : []<>~(phase[h] = "open" /\ recv_buffer[h] > 0)

(* Whatever is queued is drained, also when the connection is closed       *)
(* meanwhile: no request waits for a task that nobody started              *)
(* (callback_data, _drain_requests).                                       *)
QueueDrains == \A h \in Handlers : pending[h] # <<>> ~> pending[h] = <<>>
=============================================================================
