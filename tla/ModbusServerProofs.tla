------------------------- MODULE ModbusServerProofs -------------------------
(***************************************************************************)
(* Proofs about the session layer: for every number of handlers, every     *)
(* limit and timeout and every delivery the clients make.                  *)
(***************************************************************************)
EXTENDS ModbusServer, FiniteSetTheorems, SequenceTheorems, TLAPS

-----------------------------------------------------------------------------
(* The requests a delivery decodes are some of those it brings.            *)
LEMMA RequestCounts ==
  ASSUME NEW fs \in Seq(Kinds)
  PROVE  /\ Cardinality(Requests(fs)) \in Nat
         /\ Cardinality(Decoded(fs)) \in Nat
         /\ Cardinality(Decoded(fs)) <= Cardinality(Requests(fs))
<1>1. IsFiniteSet(DOMAIN fs)
  <2>1. DOMAIN fs = 1..Len(fs) /\ Len(fs) \in Nat
    BY LenProperties
  <2> QED
    BY <2>1, FS_Interval
<1>2. Requests(fs) \in SUBSET DOMAIN fs /\ Decoded(fs) \in SUBSET Requests(fs)
  BY DEF Requests, Decoded
<1>3. IsFiniteSet(Requests(fs))
  BY <1>1, <1>2, FS_Subset
<1>4. IsFiniteSet(Decoded(fs)) /\ Cardinality(Decoded(fs)) <= Cardinality(Requests(fs))
  BY <1>2, <1>3, FS_Subset
<1> QED
  BY <1>3, <1>4, FS_CardinalityType

(* What a delivery appends to the queue: the old queue, then the numbers   *)
(* that follow the last one received.                                      *)
LEMMA QueuedShape ==
  ASSUME TypeOK, NEW h \in Handlers, NEW fs \in Seq(Kinds)
  PROVE  /\ Queued(h, fs) \in Seq(Nat)
         /\ Len(Queued(h, fs)) = Len(pending[h]) + Cardinality(Decoded(fs))
         /\ \A i \in 1..Len(Queued(h, fs)) :
              Queued(h, fs)[i] = IF i <= Len(pending[h])
                                 THEN pending[h][i]
                                 ELSE received[h] + (i - Len(pending[h]))
<1> DEFINE n == Cardinality(Decoded(fs))
<1>1. n \in Nat
  BY RequestCounts
<1>2. received[h] \in Nat /\ pending[h] \in Seq(Nat)
  BY DEF TypeOK
<1> HIDE DEF n
<1>3. /\ Numbered(h, fs) \in Seq(Nat)
      /\ Len(Numbered(h, fs)) = n
      /\ \A i \in 1..n : Numbered(h, fs)[i] = received[h] + i
  <2>1. Numbered(h, fs) = [i \in 1..n |-> received[h] + i]
    BY DEF Numbered, n
  <2> QED
    BY <1>1, <1>2, <2>1
<1>4. Len(pending[h]) \in Nat
  BY <1>2, LenProperties
<1> DEFINE q == Numbered(h, fs)
           p == pending[h]
<1> HIDE DEF p, q
<1>5. /\ p \o q \in Seq(Nat)
      /\ Len(p \o q) = Len(p) + Len(q)
      /\ \A i \in 1..Len(p) + Len(q) :
           (p \o q)[i] = IF i <= Len(p) THEN p[i] ELSE q[i - Len(p)]
  BY <1>2, <1>3, ConcatProperties DEF p, q
<1>6. \A i \in 1..Len(p) + Len(q) :
        (p \o q)[i] = IF i <= Len(p) THEN p[i] ELSE received[h] + (i - Len(p))
  <2> TAKE i \in 1..Len(p) + Len(q)
  <2>1. CASE i <= Len(p)
    BY <1>5, <2>1
  <2>2. CASE ~(i <= Len(p))
    <3>1. i - Len(p) \in 1..n
      BY <1>1, <1>3, <1>4, <2>2 DEF p, q
    <3> QED
      BY <1>3, <1>5, <2>2, <3>1 DEF q
  <2> QED
    BY <2>1, <2>2
<1>7. Queued(h, fs) = p \o q
  BY DEF Queued, p, q
<1> QED
  BY <1>3, <1>5, <1>6, <1>7 DEF p, q, n

LEMMA SizeNat ==
  ASSUME NEW fs \in Seq(Kinds), NEW tail \in Nat
  PROVE  Size(fs, tail) \in Nat /\ tail <= Size(fs, tail)
<1>1. Len(fs) \in Nat
  BY LenProperties
<1> QED
  BY <1>1, LimitsAssumption DEF Size

-----------------------------------------------------------------------------
(* The type invariant, one lemma per group of actions.                     *)
LEMMA TypeInit == Init => TypeOK
BY LimitsAssumption DEF Init, TypeOK, Timer, NoTimer

LEMMA TypeLeave ==
  ASSUME TypeOK, NEW h \in Handlers, CancelTimers(h), Unregister(h)
  PROVE  /\ idle_timer' \in [Handlers -> Timer(IdleTimeout)]
         /\ incomplete_timer' \in [Handlers -> Timer(IncompleteTimeout)]
         /\ active' \subseteq Handlers
         /\ registered' \in [Handlers -> BOOLEAN]
<1>1. /\ idle_timer' \in [Handlers -> Timer(IdleTimeout)]
      /\ incomplete_timer' \in [Handlers -> Timer(IncompleteTimeout)]
  BY DEF TypeOK, CancelTimers, Timer
<1>2. active' \subseteq Handlers
  BY DEF TypeOK, Unregister
<1>3. registered' \in [Handlers -> BOOLEAN]
  BY DEF TypeOK, Unregister
<1> QED
  BY <1>1, <1>2, <1>3

LEMMA TypeConnection ==
  ASSUME TypeOK, NEW h \in Handlers,
         Accept(h) \/ Refuse(h) \/ ConnectionLost(h)
  PROVE  TypeOK'
<1>1. CASE Accept(h)
  BY <1>1, LimitsAssumption DEF Accept, Fresh, TypeOK, Timer, NoTimer
<1>2. CASE Refuse(h)
  BY <1>2, LimitsAssumption DEF Refuse, Fresh, timers, TypeOK
<1>3. CASE ConnectionLost(h)
  <2>1. /\ phase' \in [Handlers -> {"none", "open", "closing", "lost"}]
        /\ recv_buffer' \in [Handlers -> Nat]
        /\ partial_age' \in [Handlers -> 0..IncompleteTimeout]
    BY <1>3, LimitsAssumption DEF TypeOK, ConnectionLost
  <2>2. CancelTimers(h) /\ Unregister(h) /\ UNCHANGED <<queues, received>>
    BY <1>3 DEF ConnectionLost
  <2> QED
    BY <2>1, <2>2, TypeLeave DEF TypeOK, queues
<1> QED
  BY <1>1, <1>2, <1>3

LEMMA TypeClose ==
  ASSUME TypeOK, NEW h \in Handlers, Close(h), received' \in [Handlers -> Nat]
  PROVE  TypeOK'
<1>1. /\ phase' \in [Handlers -> {"none", "open", "closing", "lost"}]
      /\ recv_buffer' \in [Handlers -> Nat]
      /\ partial_age' \in [Handlers -> 0..IncompleteTimeout]
  BY LimitsAssumption DEF TypeOK, Close, CloseTransport
<1> QED
  BY <1>1, TypeLeave DEF TypeOK, Close, queues

LEMMA TypeDeliver ==
  ASSUME TypeOK, NEW h \in Handlers, Deliver(h)
  PROVE  TypeOK'
<1> PICK fs \in Deliveries, tail \in 0..MaxTail :
      \/ DeliverOversized(h, fs, tail) \/ DeliverOverflow(h, fs, tail)
      \/ DeliverUndecodable(h, fs, tail) \/ DeliverDecoded(h, fs, tail)
  BY DEF Deliver
<1>1. fs \in Seq(Kinds) /\ tail \in Nat
  BY LimitsAssumption
<1>2. Delivery(h, fs, tail)
  BY DEF DeliverOversized, DeliverOverflow, DeliverUndecodable, DeliverDecoded
<1>3. received' \in [Handlers -> Nat]
  BY <1>1, <1>2, RequestCounts DEF Delivery, TypeOK
<1>4. Queued(h, fs) \in Seq(Nat)
  BY <1>1, QueuedShape
<1>5. ASSUME NEW left \in Nat
      PROVE  IncompleteAfter(h, left) \in Timer(IncompleteTimeout)
  BY LimitsAssumption DEF IncompleteAfter, Timer, TypeOK
<1>6. ASSUME NEW left \in Nat, KeepTail(h, fs, left)
      PROVE  /\ idle_timer' \in [Handlers -> Timer(IdleTimeout)]
             /\ incomplete_timer' \in [Handlers -> Timer(IncompleteTimeout)]
             /\ recv_buffer' \in [Handlers -> Nat]
             /\ partial_age' \in [Handlers -> 0..IncompleteTimeout]
  BY <1>5, <1>6, LimitsAssumption DEF KeepTail, ArmIdleTimer, TypeOK, Timer
<1>7. CASE DeliverOversized(h, fs, tail)
  BY <1>3, <1>7, TypeClose DEF DeliverOversized
<1>8. CASE DeliverOverflow(h, fs, tail)
  BY <1>3, <1>8, LimitsAssumption
     DEF DeliverOverflow, Unregister, CloseTransport, ArmIdleTimer, TypeOK, Timer
<1>9. CASE DeliverUndecodable(h, fs, tail)
  BY <1>3, <1>4, <1>6, <1>9 DEF DeliverUndecodable, TypeOK, connections
<1>10. CASE DeliverDecoded(h, fs, tail)
  BY <1>1, <1>3, <1>4, <1>6, <1>10 DEF DeliverDecoded, TasksAfter, TypeOK, connections
<1> QED
  BY <1>7, <1>8, <1>9, <1>10

(* The task that runs is the only one, and the request it executes next is *)
(* the only one in flight.                                                 *)
LEMMA DrainAlone ==
  ASSUME TypeOK, InOrder, NEW h \in Handlers, StartDrain(h) \/ FinishRequest(h)
  PROVE  tasks[h] = 1 /\ inflight'[h] = Popped(h)
<1>1. inflight[h] \subseteq {started[h]} /\ tasks[h] \in Nat
      /\ Cardinality(inflight[h]) <= tasks[h] /\ tasks[h] <= 1
  BY DEF InOrder, TypeOK
<1>2. CASE StartDrain(h)
  <2>1. IsFiniteSet(inflight[h])
    <3>1. IsFiniteSet({started[h]})
      BY FS_Singleton
    <3> QED
      BY <1>1, <3>1, FS_Subset
  <2>2. Cardinality(inflight[h]) \in Nat
    BY <2>1, FS_CardinalityType
  <2>3. tasks[h] = 1 /\ Cardinality(inflight[h]) = 0
    BY <1>1, <1>2, <2>2 DEF StartDrain
  <2>4. inflight[h] = {}
    BY <2>1, <2>3, FS_EmptySet
  <2> QED
    BY <1>2, <2>3, <2>4 DEF StartDrain, TypeOK
<1>3. CASE FinishRequest(h)
  <2>1. inflight[h] = {started[h]}
    BY <1>1, <1>3 DEF FinishRequest
  <2>2. Cardinality(inflight[h]) = 1
    BY <2>1, FS_Singleton
  <2>3. inflight'[h] = Popped(h)
    BY <1>3, <2>1 DEF FinishRequest, TypeOK
  <2> QED
    BY <1>1, <2>2, <2>3
<1> QED
  BY <1>2, <1>3

LEMMA TypeDrain ==
  ASSUME TypeOK, InOrder, NEW h \in Handlers, StartDrain(h) \/ FinishRequest(h)
  PROVE  TypeOK'
<1>1. pending[h] # <<>> => Head(pending[h]) \in Nat /\ Tail(pending[h]) \in Seq(Nat)
  BY HeadTailProperties DEF TypeOK
<1>2. Popped(h) \subseteq Nat
  BY <1>1 DEF Popped
<1>3. inflight' \in [Handlers -> SUBSET Nat]
  BY <1>2 DEF StartDrain, FinishRequest, TypeOK
<1>4. tasks[h] > 0
  BY DrainAlone
<1>5. PopNext(h)
  BY DEF StartDrain, FinishRequest
<1>6. /\ tasks' \in [Handlers -> Nat] /\ started' \in [Handlers -> Nat]
      /\ pending' \in [Handlers -> Seq(Nat)]
  <2>1. CASE pending[h] = <<>>
    <3>1. tasks' = [tasks EXCEPT ![h] = @ - 1] /\ UNCHANGED <<pending, started>>
      BY <1>5, <2>1 DEF PopNext
    <3> QED
      BY <1>4, <3>1 DEF TypeOK
  <2>2. CASE pending[h] # <<>>
    <3>1. /\ pending' = [pending EXCEPT ![h] = Tail(@)]
          /\ started' = [started EXCEPT ![h] = Head(pending[h])]
          /\ UNCHANGED tasks
      BY <1>5, <2>2 DEF PopNext
    <3> QED
      BY <1>1, <2>2, <3>1 DEF TypeOK
  <2> QED
    BY <2>1, <2>2
<1> QED
  BY <1>3, <1>6 DEF StartDrain, FinishRequest, TypeOK, connections, timers

LEMMA TypeTime ==
  ASSUME TypeOK,
         Advance \/ \E h \in Handlers : FireIdle(h) \/ FireIncomplete(h)
  PROVE  TypeOK'
<1>1. CASE Advance
  <2>1. ASSUME NEW limit \in Nat, NEW timer \in [Handlers -> Timer(limit)]
        PROVE  Elapse(timer) \in [Handlers -> Timer(limit)]
    BY DEF Elapse, Timer, NoTimer
  <2>2. /\ idle_timer' \in [Handlers -> Timer(IdleTimeout)]
        /\ incomplete_timer' \in [Handlers -> Timer(IncompleteTimeout)]
    BY <1>1, <2>1, LimitsAssumption DEF Advance, TypeOK
  <2>3. partial_age' \in [Handlers -> 0..IncompleteTimeout]
    BY <1>1, LimitsAssumption DEF Advance, TypeOK
  <2> QED
    BY <1>1, <2>2, <2>3 DEF Advance, TypeOK, connections, queues
<1>2. ASSUME NEW h \in Handlers, FireIdle(h) \/ FireIncomplete(h)
      PROVE  TypeOK'
  <2>1. Close(h) /\ received' \in [Handlers -> Nat]
    BY <1>2 DEF FireIdle, FireIncomplete, TypeOK
  <2> QED
    BY <2>1, TypeClose
<1> QED
  BY <1>1, <1>2

LEMMA TypeStep == TypeOK /\ InOrder /\ [Next]_vars => TypeOK'
<1> SUFFICES ASSUME TypeOK, InOrder, [Next]_vars PROVE TypeOK'
  OBVIOUS
<1>1. CASE UNCHANGED vars
  BY <1>1 DEF vars, connections, timers, queues, TypeOK
<1> QED
  BY <1>1, TypeConnection, TypeDeliver, TypeDrain, TypeTime DEF Next, Step

-----------------------------------------------------------------------------
(* The queue discipline of one handler, and the fields it is about.        *)
OrderedAt(h) ==
  /\ inflight[h] \subseteq {started[h]}
  /\ Cardinality(inflight[h]) <= tasks[h] /\ tasks[h] <= 1
  /\ started[h] <= received[h]
  /\ Ascending(pending[h], started[h], received[h])

QueueOf(h) == <<inflight[h], tasks[h], started[h], received[h], pending[h]>>

LEMMA OrderedFrame ==
  ASSUME NEW h \in Handlers, OrderedAt(h), QueueOf(h)' = QueueOf(h)
  PROVE  OrderedAt(h)'
<1>1. /\ inflight'[h] = inflight[h] /\ tasks'[h] = tasks[h]
      /\ started'[h] = started[h] /\ received'[h] = received[h]
      /\ pending'[h] = pending[h]
  BY DEF QueueOf
<1> QED
  BY <1>1 DEF OrderedAt

(* A step of one handler leaves the queues of the others alone.            *)
LEMMA OthersUntouched ==
  ASSUME TypeOK, NEW h \in Handlers, Step(h), NEW g \in Handlers, g # h
  PROVE  QueueOf(g)' = QueueOf(g)
<1> USE DEF TypeOK, QueueOf, queues, connections
<1>1. CASE Accept(h) \/ Refuse(h) \/ ConnectionLost(h)
  BY <1>1 DEF Accept, Refuse, ConnectionLost, Fresh
<1>2. CASE Deliver(h)
  BY <1>2 DEF Deliver, DeliverOversized, DeliverOverflow, DeliverUndecodable,
              DeliverDecoded, Delivery, Close
<1>3. CASE StartDrain(h) \/ FinishRequest(h)
  BY <1>3 DEF StartDrain, FinishRequest, PopNext
<1>4. CASE FireIdle(h) \/ FireIncomplete(h)
  BY <1>4 DEF FireIdle, FireIncomplete, Close
<1> QED
  BY <1>1, <1>2, <1>3, <1>4 DEF Step

(* Facts about ascending sequences: a higher upper bound, a tail, and the  *)
(* numbers after high appended.                                            *)
LEMMA AscendingWiden ==
  ASSUME NEW p \in Seq(Nat), NEW low \in Nat, NEW high \in Nat, NEW more \in Nat,
         Ascending(p, low, high)
  PROVE  Ascending(p, low, high + more)
<1>1. \A i \in 1..Len(p) : p[i] \in Nat
  BY ElementOfSeq
<1> QED
  BY <1>1 DEF Ascending

LEMMA AscendingTail ==
  ASSUME NEW p \in Seq(Nat), p # <<>>, NEW low \in Nat, NEW high \in Nat,
         Ascending(p, low, high)
  PROVE  /\ Head(p) \in Nat /\ low < Head(p) /\ Head(p) <= high
         /\ Ascending(Tail(p), Head(p), high)
<1>1. /\ Tail(p) \in Seq(Nat) /\ Len(Tail(p)) = Len(p) - 1
      /\ \A i \in 1..Len(Tail(p)) : Tail(p)[i] = p[i + 1]
  BY HeadTailProperties
<1>2. Len(p) \in Nat \ {0}
  BY EmptySeq
<1>3. Head(p) = p[1] /\ 1 \in 1..Len(p)
  BY <1>2
<1>4. \A i \in 1..Len(p) : p[i] \in Nat
  BY ElementOfSeq
<1>5. \A i \in 1..Len(Tail(p)) : i + 1 \in 1..Len(p) /\ 1 < i + 1
  BY <1>1, <1>2
<1>6. \A i \in 1..Len(Tail(p)) : Head(p) < Tail(p)[i] /\ Tail(p)[i] <= high
  BY <1>1, <1>3, <1>5 DEF Ascending
<1>7. \A i, j \in 1..Len(Tail(p)) : i < j => Tail(p)[i] < Tail(p)[j]
  <2> TAKE i, j \in 1..Len(Tail(p))
  <2> HAVE i < j
  <2>1. i + 1 \in 1..Len(p) /\ j + 1 \in 1..Len(p) /\ i + 1 < j + 1
    BY <1>1, <1>2
  <2>2. p[i + 1] < p[j + 1]
    BY <2>1 DEF Ascending
  <2> QED
    BY <1>1, <2>2
<1> QED
  BY <1>3, <1>4, <1>6, <1>7 DEF Ascending

LEMMA AscendingAppend ==
  ASSUME NEW p \in Seq(Nat), NEW q \in Seq(Nat), NEW low \in Nat, NEW high \in Nat,
         NEW n \in Nat, NEW d \in Nat, d <= n, low <= high,
         Ascending(p, low, high),
         Len(q) = Len(p) + d,
         \A i \in 1..Len(q) : q[i] = IF i <= Len(p) THEN p[i] ELSE high + (i - Len(p))
  PROVE  Ascending(q, low, high + n)
<1>1. Len(p) \in Nat /\ \A i \in 1..Len(p) : p[i] \in Nat
  BY ElementOfSeq, LenProperties
<1>2. ASSUME NEW i \in 1..Len(q)
      PROVE  low < q[i] /\ q[i] <= high + n
  <2>1. CASE i <= Len(p)
    <3>1. i \in 1..Len(p)
      BY <1>1, <2>1
    <3>2. q[i] = p[i] /\ low < p[i] /\ p[i] <= high /\ p[i] \in Nat
      BY <1>1, <2>1, <3>1 DEF Ascending
    <3> QED
      BY <3>2
  <2>2. CASE ~(i <= Len(p))
    BY <1>1, <2>2
  <2> QED
    BY <2>1, <2>2
<1>3. ASSUME NEW i \in 1..Len(q), NEW j \in 1..Len(q), i < j
      PROVE  q[i] < q[j]
  <2>1. CASE j <= Len(p)
    <3>1. i \in 1..Len(p) /\ j \in 1..Len(p) /\ i <= Len(p)
      BY <1>1, <1>3, <2>1
    <3> QED
      BY <1>3, <2>1, <3>1 DEF Ascending
  <2>2. CASE i <= Len(p) /\ ~(j <= Len(p))
    <3>1. i \in 1..Len(p)
      BY <1>1, <2>2
    <3>2. q[i] = p[i] /\ p[i] <= high /\ p[i] \in Nat
      BY <1>1, <2>2, <3>1 DEF Ascending
    <3>3. q[j] = high + (j - Len(p)) /\ j - Len(p) > 0
      BY <1>1, <2>2
    <3> QED
      BY <1>1, <3>2, <3>3
  <2>3. CASE ~(i <= Len(p)) /\ ~(j <= Len(p))
    BY <1>1, <1>3, <2>3
  <2> QED
    BY <1>1, <1>3, <2>1, <2>2, <2>3
<1> QED
  BY <1>2, <1>3 DEF Ascending

(* Appending decoded requests keeps the order: their numbers come after    *)
(* everything received before.                                             *)
LEMMA OrderedDeliver ==
  ASSUME TypeOK, NEW h \in Handlers, OrderedAt(h), Deliver(h)
  PROVE  OrderedAt(h)'
<1> PICK fs \in Deliveries, tail \in 0..MaxTail :
      \/ DeliverOversized(h, fs, tail) \/ DeliverOverflow(h, fs, tail)
      \/ DeliverUndecodable(h, fs, tail) \/ DeliverDecoded(h, fs, tail)
  BY DEF Deliver
<1>1. fs \in Seq(Kinds)
  BY LimitsAssumption
<1> DEFINE n == Cardinality(Requests(fs))
           d == Cardinality(Decoded(fs))
<1>2. n \in Nat /\ d \in Nat /\ d <= n
  BY <1>1, RequestCounts
<1>3. received'[h] = received[h] + n
  BY DEF DeliverOversized, DeliverOverflow, DeliverUndecodable, DeliverDecoded,
         Delivery, TypeOK
<1>4. /\ inflight'[h] = inflight[h] /\ started'[h] = started[h]
      /\ tasks'[h] = tasks[h] \/ (tasks[h] = 0 /\ tasks'[h] = 1)
      /\ pending'[h] \in {pending[h], <<>>, Queued(h, fs)}
  BY DEF DeliverOversized, DeliverOverflow, DeliverUndecodable, DeliverDecoded,
         Close, queues, TasksAfter, TypeOK
<1>5. /\ received[h] \in Nat /\ started[h] \in Nat /\ tasks[h] \in Nat
      /\ pending[h] \in Seq(Nat) /\ Len(pending[h]) \in Nat
      /\ DOMAIN pending[h] = 1..Len(pending[h])
  BY LenProperties DEF TypeOK
<1>6. Cardinality(inflight'[h]) <= tasks'[h] /\ tasks'[h] <= 1
  <2>1. CASE tasks'[h] = tasks[h]
    BY <1>4, <2>1 DEF OrderedAt
  <2>2. CASE tasks[h] = 0 /\ tasks'[h] = 1
    <3>1. IsFiniteSet(inflight[h])
      <4>1. IsFiniteSet({started[h]})
        BY FS_Singleton
      <4> QED
        BY <4>1, FS_Subset DEF OrderedAt
    <3>2. Cardinality(inflight[h]) \in Nat
      BY <3>1, FS_CardinalityType
    <3> QED
      BY <1>4, <2>2, <3>2 DEF OrderedAt
  <2> QED
    BY <1>4, <2>1, <2>2
<1>7. Ascending(pending'[h], started[h], received[h] + n)
  <2>1. CASE pending'[h] = <<>>
    BY <2>1 DEF Ascending
  <2>2. CASE pending'[h] = pending[h]
    BY <1>2, <1>5, <2>2, AscendingWiden DEF OrderedAt
  <2>3. CASE pending'[h] = Queued(h, fs)
    <3>1. /\ Queued(h, fs) \in Seq(Nat)
          /\ Len(Queued(h, fs)) = Len(pending[h]) + d
          /\ \A i \in 1..Len(Queued(h, fs)) :
               Queued(h, fs)[i] = IF i <= Len(pending[h])
                                  THEN pending[h][i]
                                  ELSE received[h] + (i - Len(pending[h]))
      BY <1>1, QueuedShape
    <3> HIDE DEF n, d
    <3> QED
      BY <1>2, <1>5, <2>3, <3>1, AscendingAppend DEF OrderedAt
  <2> QED
    BY <1>4, <2>1, <2>2, <2>3
<1>8. started'[h] <= received'[h]
  BY <1>2, <1>3, <1>4, <1>5 DEF OrderedAt
<1> QED
  BY <1>3, <1>4, <1>6, <1>7, <1>8 DEF OrderedAt

LEMMA OrderedConnection ==
  ASSUME TypeOK, NEW h \in Handlers, OrderedAt(h),
         Accept(h) \/ Refuse(h) \/ ConnectionLost(h)
  PROVE  OrderedAt(h)'
<1>1. CASE Accept(h) \/ Refuse(h)
  <2>1. /\ tasks[h] = 0 /\ tasks'[h] = 0 /\ inflight'[h] = inflight[h]
        /\ started'[h] = 0 /\ received'[h] = 0 /\ pending'[h] = <<>>
    BY <1>1 DEF Accept, Refuse, Fresh, TypeOK
  <2>2. inflight[h] = {}
    <3>1. IsFiniteSet({started[h]})
      BY FS_Singleton
    <3>2. IsFiniteSet(inflight[h])
      BY <3>1, FS_Subset DEF OrderedAt
    <3>3. Cardinality(inflight[h]) \in Nat
      BY <3>2, FS_CardinalityType
    <3>4. Cardinality(inflight[h]) = 0
      BY <2>1, <3>3 DEF OrderedAt
    <3> QED
      BY <3>2, <3>4, FS_EmptySet
  <2>3. Cardinality({}) = 0
    BY FS_EmptySet
  <2> QED
    BY <2>1, <2>2, <2>3 DEF OrderedAt, Ascending
<1>2. CASE ConnectionLost(h)
  <2>1. QueueOf(h)' = QueueOf(h)
    BY <1>2 DEF ConnectionLost, queues, QueueOf
  <2> QED
    BY <2>1, OrderedFrame
<1> QED
  BY <1>1, <1>2

LEMMA OrderedDrain ==
  ASSUME TypeOK, InOrder, NEW h \in Handlers, StartDrain(h) \/ FinishRequest(h)
  PROVE  OrderedAt(h)'
<1>1. tasks[h] = 1 /\ inflight'[h] = Popped(h)
  BY DrainAlone
<1>2. PopNext(h) /\ received'[h] = received[h]
  BY DEF StartDrain, FinishRequest
<1>3. /\ pending[h] \in Seq(Nat) /\ started[h] \in Nat /\ received[h] \in Nat
      /\ started[h] <= received[h]
      /\ Ascending(pending[h], started[h], received[h])
  BY DEF TypeOK, InOrder
<1>4. CASE pending[h] = <<>>
  <2>1. /\ tasks'[h] = 0 /\ inflight'[h] = {}
        /\ pending'[h] = pending[h] /\ started'[h] = started[h]
    BY <1>1, <1>2, <1>4 DEF PopNext, Popped, TypeOK
  <2>2. Cardinality({}) = 0
    BY FS_EmptySet
  <2> QED
    BY <1>2, <1>3, <2>1, <2>2 DEF OrderedAt
<1>5. CASE pending[h] # <<>>
  <2>1. /\ tasks'[h] = 1 /\ inflight'[h] = {Head(pending[h])}
        /\ pending'[h] = Tail(pending[h]) /\ started'[h] = Head(pending[h])
    BY <1>1, <1>2, <1>5 DEF PopNext, Popped, TypeOK
  <2>2. Cardinality({Head(pending[h])}) = 1
    BY FS_Singleton
  <2>3. /\ Head(pending[h]) <= received[h]
        /\ Ascending(Tail(pending[h]), Head(pending[h]), received[h])
    BY <1>3, <1>5, AscendingTail
  <2> QED
    BY <1>2, <2>1, <2>2, <2>3 DEF OrderedAt
<1> QED
  BY <1>4, <1>5

LEMMA OrderStep == TypeOK /\ InOrder /\ [Next]_vars => InOrder'
<1> SUFFICES ASSUME TypeOK, InOrder, [Next]_vars, NEW g \in Handlers
             PROVE  OrderedAt(g)'
  BY DEF InOrder, OrderedAt
<1>1. OrderedAt(g)
  BY DEF InOrder, OrderedAt
<1>2. CASE UNCHANGED vars \/ Advance
  <2>1. QueueOf(g)' = QueueOf(g)
    BY <1>2 DEF vars, Advance, queues, QueueOf
  <2> QED
    BY <1>1, <2>1, OrderedFrame
<1>3. ASSUME NEW h \in Handlers, Step(h)
      PROVE  OrderedAt(g)'
  <2>1. CASE g # h
    BY <1>1, <1>3, <2>1, OthersUntouched, OrderedFrame
  <2>2. CASE g = h
    <3>1. CASE Accept(g) \/ Refuse(g) \/ ConnectionLost(g)
      BY <1>1, <3>1, OrderedConnection
    <3>2. CASE Deliver(g)
      BY <1>1, <3>2, OrderedDeliver
    <3>3. CASE StartDrain(g) \/ FinishRequest(g)
      BY <3>3, OrderedDrain
    <3>4. CASE FireIdle(g) \/ FireIncomplete(g)
      <4>1. QueueOf(g)' = QueueOf(g)
        BY <3>4 DEF FireIdle, FireIncomplete, Close, queues, QueueOf
      <4> QED
        BY <1>1, <4>1, OrderedFrame
    <3> QED
      BY <1>3, <2>2, <3>1, <3>2, <3>3, <3>4 DEF Step
  <2> QED
    BY <2>1, <2>2
<1> QED
  BY <1>2, <1>3 DEF Next

LEMMA OrderInit == Init => InOrder
<1>1. Cardinality({}) = 0
  BY FS_EmptySet
<1> QED
  BY <1>1 DEF Init, InOrder, Ascending

(* Type correctness of the session layer.  A task count is a natural       *)
(* number only because at most one drain task runs, so the invariant is    *)
(* proved together with InOrder.                                           *)
THEOREM TypeCorrect == Spec => []TypeOK
BY TypeInit, OrderInit, TypeStep, OrderStep, PTL DEF Spec

(* One drain task per connection, one request at a time, each at most      *)
(* once, in the order of arrival: whatever the deliveries, the timers and  *)
(* the closes do in between.                                               *)
THEOREM RequestsInOrder == Spec => []InOrder
BY TypeInit, OrderInit, TypeStep, OrderStep, PTL DEF Spec

-----------------------------------------------------------------------------
(* A connection that leaves gives back its slot, once.                     *)
LEMMA SlotsLeave ==
  ASSUME TypeOK, SlotsMatchConnections, NEW h \in Handlers, Unregister(h),
         NEW p \in {"closing", "lost"}, phase' = [phase EXCEPT ![h] = p]
  PROVE  SlotsMatchConnections'
<1>1. active' = active \ {h}
  BY DEF Unregister, SlotsMatchConnections, TypeOK
<1>2. active' = {g \in Handlers : phase'[g] = "open"}
  BY <1>1 DEF SlotsMatchConnections, TypeOK
<1>3. active' = {g \in Handlers : registered'[g]}
  BY <1>1 DEF Unregister, SlotsMatchConnections, TypeOK
<1>4. Cardinality(active') <= MaxActive
  <2>1. IsFiniteSet(active)
    BY LimitsAssumption, FS_Subset DEF TypeOK
  <2>2. /\ Cardinality(active) \in Nat /\ Cardinality(active \ {h}) \in Nat
        /\ Cardinality(active \ {h}) <= Cardinality(active)
    BY <2>1, FS_CardinalityType, FS_Subset
  <2> QED
    BY <1>1, <2>2, LimitsAssumption DEF SlotsMatchConnections
<1> QED
  BY <1>2, <1>3, <1>4 DEF SlotsMatchConnections

LEMMA SlotsAccept ==
  ASSUME TypeOK, SlotsMatchConnections, NEW h \in Handlers, Accept(h)
  PROVE  SlotsMatchConnections'
<1>1. h \notin active
  BY DEF Accept, Fresh, SlotsMatchConnections
<1>2. active' = {g \in Handlers : phase'[g] = "open"}
  BY DEF Accept, SlotsMatchConnections, TypeOK
<1>3. active' = {g \in Handlers : registered'[g]}
  BY DEF Accept, SlotsMatchConnections, TypeOK
<1>4. Cardinality(active') <= MaxActive
  <2>1. IsFiniteSet(active)
    BY LimitsAssumption, FS_Subset DEF TypeOK
  <2>2. /\ Cardinality(active) \in Nat
        /\ Cardinality(active \cup {h}) = Cardinality(active) + 1
    BY <1>1, <2>1, FS_CardinalityType, FS_AddElement
  <2>3. active' = active \cup {h} /\ Cardinality(active) < MaxActive
    BY DEF Accept, SlotFree
  <2> QED
    BY <2>2, <2>3, LimitsAssumption
<1> QED
  BY <1>2, <1>3, <1>4 DEF SlotsMatchConnections

LEMMA SlotsRefuse ==
  ASSUME TypeOK, SlotsMatchConnections, NEW h \in Handlers, Refuse(h)
  PROVE  SlotsMatchConnections'
<1>1. /\ phase[h] # "open" /\ phase' = [phase EXCEPT ![h] = "closing"]
      /\ active' = active /\ registered' = registered
  BY DEF Refuse, Fresh
<1>2. {g \in Handlers : phase'[g] = "open"} = {g \in Handlers : phase[g] = "open"}
  BY <1>1 DEF TypeOK
<1> QED
  BY <1>1, <1>2 DEF SlotsMatchConnections

(* A step that leaves the connections alone leaves the slots alone.        *)
LEMMA SlotsFrame ==
  ASSUME SlotsMatchConnections, UNCHANGED connections
  PROVE  SlotsMatchConnections'
BY DEF SlotsMatchConnections, connections

LEMMA SlotsDeliver ==
  ASSUME TypeOK, SlotsMatchConnections, NEW h \in Handlers, Deliver(h)
  PROVE  SlotsMatchConnections'
<1> PICK fs \in Deliveries, tail \in 0..MaxTail :
      \/ DeliverOversized(h, fs, tail) \/ DeliverOverflow(h, fs, tail)
      \/ DeliverUndecodable(h, fs, tail) \/ DeliverDecoded(h, fs, tail)
  BY DEF Deliver
<1>1. CASE DeliverOversized(h, fs, tail) \/ DeliverOverflow(h, fs, tail)
  <2>1. Unregister(h) /\ phase' = [phase EXCEPT ![h] = "closing"]
    BY <1>1 DEF DeliverOversized, DeliverOverflow, Close, CloseTransport
  <2> QED
    BY <2>1, SlotsLeave
<1>2. CASE DeliverUndecodable(h, fs, tail) \/ DeliverDecoded(h, fs, tail)
  <2>1. UNCHANGED connections
    BY <1>2 DEF DeliverUndecodable, DeliverDecoded
  <2> QED
    BY <2>1, SlotsFrame
<1> QED
  BY <1>1, <1>2

LEMMA SlotsStep ==
  TypeOK /\ SlotsMatchConnections /\ [Next]_vars => SlotsMatchConnections'
<1> SUFFICES ASSUME TypeOK, SlotsMatchConnections, [Next]_vars
             PROVE  SlotsMatchConnections'
  OBVIOUS
<1>1. CASE UNCHANGED vars \/ Advance
  BY <1>1, SlotsFrame DEF vars, Advance
<1>2. ASSUME NEW h \in Handlers, Step(h)
      PROVE  SlotsMatchConnections'
  <2>1. CASE ConnectionLost(h)
    BY <2>1, SlotsLeave DEF ConnectionLost
  <2>2. CASE StartDrain(h) \/ FinishRequest(h)
    BY <2>2, SlotsFrame DEF StartDrain, FinishRequest
  <2>3. CASE FireIdle(h) \/ FireIncomplete(h)
    <3>1. Unregister(h) /\ phase' = [phase EXCEPT ![h] = "closing"]
      BY <2>3 DEF FireIdle, FireIncomplete, Close, CloseTransport
    <3> QED
      BY <3>1, SlotsLeave
  <2> QED
    BY <1>2, <2>1, <2>2, <2>3, SlotsAccept, SlotsRefuse, SlotsDeliver DEF Step
<1> QED
  BY <1>1, <1>2 DEF Next

(* Connection slots neither leak nor run over: the active set is the set   *)
(* of open connections and has at most max_active_connections members, for *)
(* every limit and every way in which connections end.                     *)
THEOREM SlotsNeverLeak == Spec => []SlotsMatchConnections
<1>1. Init => SlotsMatchConnections
  <2>1. Cardinality({}) = 0
    BY FS_EmptySet
  <2> QED
    BY <2>1, LimitsAssumption DEF Init, SlotsMatchConnections
<1> QED
  BY <1>1, SlotsStep, TypeCorrect, PTL DEF Spec

-----------------------------------------------------------------------------
(* The two limits of one session, and the fields they are about.           *)
BoundedAt(h) == Len(pending[h]) <= MaxPending /\ recv_buffer[h] <= MaxBytes

LEMMA BoundedDeliver ==
  ASSUME TypeOK, NEW h \in Handlers, BoundedAt(h), Deliver(h)
  PROVE  BoundedAt(h)'
<1> PICK fs \in Deliveries, tail \in 0..MaxTail :
      \/ DeliverOversized(h, fs, tail) \/ DeliverOverflow(h, fs, tail)
      \/ DeliverUndecodable(h, fs, tail) \/ DeliverDecoded(h, fs, tail)
  BY DEF Deliver
<1>1. fs \in Seq(Kinds) /\ tail \in Nat
  BY LimitsAssumption
<1>2. Len(Queued(h, fs)) \in Nat
  BY <1>1, QueuedShape, LenProperties
<1>3. CASE DeliverOversized(h, fs, tail)
  <2>1. pending'[h] = pending[h] /\ recv_buffer'[h] = 0
    BY <1>3 DEF DeliverOversized, Close, CloseTransport, queues, TypeOK
  <2> QED
    BY <2>1, LimitsAssumption DEF BoundedAt
<1>4. CASE DeliverOverflow(h, fs, tail)
  <2>1. pending'[h] = <<>> /\ recv_buffer'[h] = 0
    BY <1>4 DEF DeliverOverflow, CloseTransport, TypeOK
  <2> QED
    BY <2>1, LimitsAssumption DEF BoundedAt
<1>5. CASE DeliverUndecodable(h, fs, tail) \/ DeliverDecoded(h, fs, tail)
  <2>1. pending'[h] = Queued(h, fs) /\ recv_buffer'[h] \in {0, tail}
    BY <1>5 DEF DeliverUndecodable, DeliverDecoded, KeepTail, TypeOK
  <2>2. Len(Queued(h, fs)) <= MaxPending
    BY <1>2, <1>5, LimitsAssumption DEF DeliverUndecodable, DeliverDecoded, Overflows
  <2>3. tail <= MaxBytes
    BY <1>1, <1>5, SizeNat, LimitsAssumption
       DEF DeliverUndecodable, DeliverDecoded, Oversized
  <2> QED
    BY <2>1, <2>2, <2>3, LimitsAssumption DEF BoundedAt
<1> QED
  BY <1>3, <1>4, <1>5

LEMMA BoundedStep ==
  TypeOK /\ InOrder /\ SessionBounded /\ [Next]_vars => SessionBounded'
<1> SUFFICES ASSUME TypeOK, InOrder, SessionBounded, [Next]_vars, NEW g \in Handlers
             PROVE  BoundedAt(g)'
  BY DEF SessionBounded, BoundedAt
<1>1. BoundedAt(g)
  BY DEF SessionBounded, BoundedAt
<1>2. ASSUME pending'[g] = pending[g], recv_buffer'[g] \in {0, recv_buffer[g]}
      PROVE  BoundedAt(g)'
  BY <1>1, <1>2, LimitsAssumption DEF BoundedAt
<1>3. CASE UNCHANGED vars \/ Advance
  BY <1>2, <1>3 DEF vars, Advance, queues
<1>4. ASSUME NEW h \in Handlers, Step(h)
      PROVE  BoundedAt(g)'
  <2>1. CASE Accept(h) \/ Refuse(h)
    <3>1. /\ pending'[g] = pending[g] \/ pending'[g] = <<>>
          /\ recv_buffer'[g] \in {0, recv_buffer[g]}
      BY <2>1 DEF Accept, Refuse, Fresh, TypeOK
    <3> QED
      BY <1>1, <3>1, LimitsAssumption DEF BoundedAt
  <2>2. CASE ConnectionLost(h) \/ FireIdle(h) \/ FireIncomplete(h)
    BY <1>2, <2>2 DEF ConnectionLost, FireIdle, FireIncomplete, Close,
                      CloseTransport, queues, TypeOK
  <2>3. CASE Deliver(h)
    <3>1. CASE g = h
      BY <1>1, <2>3, <3>1, BoundedDeliver
    <3>2. CASE g # h
      <4>1. pending'[g] = pending[g] /\ recv_buffer'[g] = recv_buffer[g]
        BY <2>3, <3>2 DEF Deliver, DeliverOversized, DeliverOverflow,
             DeliverUndecodable, DeliverDecoded, Close, CloseTransport, KeepTail,
             queues, TypeOK
      <4> QED
        BY <1>2, <4>1
    <3> QED
      BY <3>1, <3>2
  <2>4. CASE StartDrain(h) \/ FinishRequest(h)
    <3>1. PopNext(h) /\ recv_buffer'[g] = recv_buffer[g]
      BY <2>4 DEF StartDrain, FinishRequest
    <3>2. CASE g # h \/ pending[h] = <<>>
      <4>1. pending'[g] = pending[g]
        BY <3>1, <3>2 DEF PopNext, TypeOK
      <4> QED
        BY <1>2, <3>1, <4>1
    <3>3. CASE g = h /\ pending[h] # <<>>
      <4>1. pending'[g] = Tail(pending[g])
        BY <3>1, <3>3 DEF PopNext, TypeOK
      <4>2. Len(Tail(pending[g])) = Len(pending[g]) - 1 /\ Len(pending[g]) \in Nat
        BY <3>3, HeadTailProperties, LenProperties DEF TypeOK
      <4> QED
        BY <1>1, <3>1, <4>1, <4>2, LimitsAssumption DEF BoundedAt
    <3> QED
      BY <3>2, <3>3
  <2> QED
    BY <1>4, <2>1, <2>2, <2>3, <2>4 DEF Step
<1> QED
  BY <1>3, <1>4 DEF Next

(* No client makes a session hold more than MAX_PENDING_REQUESTS decoded   *)
(* requests or MAX_PENDING_REQUEST_BYTES buffered bytes.                   *)
THEOREM SessionsBounded == Spec => []SessionBounded
<1>1. Init => SessionBounded
  BY LimitsAssumption DEF Init, SessionBounded
<1> QED
  BY <1>1, BoundedStep, TypeCorrect, RequestsInOrder, PTL DEF Spec

-----------------------------------------------------------------------------
(* The timers of one handler, and the fields they are about.               *)
GuardedAt(h) ==
  /\ phase[h] = "open" =>
       /\ idle_timer[h] # NoTimer
       /\ recv_buffer[h] = 0 => incomplete_timer[h] = NoTimer
       /\ recv_buffer[h] > 0 =>
            /\ incomplete_timer[h] # NoTimer
            /\ partial_age[h] + incomplete_timer[h] <= IncompleteTimeout
  /\ phase[h] # "open" => incomplete_timer[h] = NoTimer /\ recv_buffer[h] = 0
  /\ phase[h] \in {"none", "lost"} => idle_timer[h] = NoTimer

TimersOf(h) == <<phase[h], idle_timer[h], incomplete_timer[h], recv_buffer[h],
                 partial_age[h]>>

LEMMA GuardedFrame ==
  ASSUME NEW h \in Handlers, GuardedAt(h), TimersOf(h)' = TimersOf(h)
  PROVE  GuardedAt(h)'
<1>1. /\ phase'[h] = phase[h] /\ idle_timer'[h] = idle_timer[h]
      /\ incomplete_timer'[h] = incomplete_timer[h]
      /\ recv_buffer'[h] = recv_buffer[h] /\ partial_age'[h] = partial_age[h]
  BY DEF TimersOf
<1> QED
  BY <1>1 DEF GuardedAt

LEMMA OthersTimers ==
  ASSUME TypeOK, NEW h \in Handlers, Step(h), NEW g \in Handlers, g # h
  PROVE  TimersOf(g)' = TimersOf(g)
<1> USE DEF TypeOK, TimersOf, connections, timers
<1>1. CASE Accept(h) \/ Refuse(h)
  BY <1>1 DEF Accept, Refuse, Fresh
<1>2. CASE ConnectionLost(h)
  BY <1>2 DEF ConnectionLost, CancelTimers
<1>3. CASE Deliver(h)
  BY <1>3 DEF Deliver, DeliverOversized, DeliverOverflow, DeliverUndecodable,
              DeliverDecoded, Close, CancelTimers, CloseTransport, KeepTail,
              ArmIdleTimer
<1>4. CASE StartDrain(h) \/ FinishRequest(h)
  BY <1>4 DEF StartDrain, FinishRequest
<1>5. CASE FireIdle(h) \/ FireIncomplete(h)
  BY <1>5 DEF FireIdle, FireIncomplete, Close, CancelTimers, CloseTransport
<1> QED
  BY <1>1, <1>2, <1>3, <1>4, <1>5 DEF Step

(* A handler that is closed or lost has neither timer nor buffer.          *)
LEMMA GuardedGone ==
  ASSUME NEW h \in Handlers, phase'[h] # "open", incomplete_timer'[h] = NoTimer,
         recv_buffer'[h] = 0,
         phase'[h] \in {"none", "lost"} => idle_timer'[h] = NoTimer
  PROVE  GuardedAt(h)'
BY DEF GuardedAt

LEMMA GuardedClose ==
  ASSUME TypeOK, NEW h \in Handlers, Close(h)
  PROVE  GuardedAt(h)'
<1>1. /\ phase'[h] = "closing" /\ incomplete_timer'[h] = NoTimer
      /\ recv_buffer'[h] = 0
  BY DEF Close, CancelTimers, CloseTransport, TypeOK
<1> QED
  BY <1>1, GuardedGone

(* The incomplete timer that data_received leaves behind: none for an      *)
(* empty buffer, a full one for a new frame, and for a frame that was      *)
(* already waiting the one that was running.                               *)
LEMMA GuardedTail ==
  ASSUME TypeOK, NEW h \in Handlers, GuardedAt(h), phase[h] = "open", phase' = phase,
         NEW fs \in Seq(Kinds), NEW left \in Nat, KeepTail(h, fs, left)
  PROVE  GuardedAt(h)'
<1>1. /\ phase'[h] = "open" /\ idle_timer'[h] = IdleTimeout
      /\ recv_buffer'[h] = left
      /\ incomplete_timer'[h] = IncompleteAfter(h, left)
      /\ partial_age'[h] = IF fs = <<>> /\ recv_buffer[h] > 0 THEN partial_age[h] ELSE 0
  BY DEF KeepTail, ArmIdleTimer, TypeOK
<1>2. /\ incomplete_timer[h] \in Timer(IncompleteTimeout)
      /\ partial_age[h] \in 0..IncompleteTimeout
      /\ recv_buffer[h] \in Nat
  BY DEF TypeOK
<1>3. idle_timer'[h] # NoTimer
  BY <1>1, LimitsAssumption DEF NoTimer
<1>4. CASE left = 0
  BY <1>1, <1>3, <1>4 DEF IncompleteAfter, GuardedAt
<1>5. CASE left > 0
  <2>1. CASE incomplete_timer[h] = NoTimer
    <3>1. recv_buffer[h] = 0
      BY <1>2, <2>1 DEF GuardedAt
    <3>2. incomplete_timer'[h] = IncompleteTimeout /\ partial_age'[h] = 0
      BY <1>1, <1>5, <2>1, <3>1 DEF IncompleteAfter
    <3> QED
      BY <1>1, <1>3, <1>5, <3>2, LimitsAssumption DEF GuardedAt, NoTimer
  <2>2. CASE incomplete_timer[h] # NoTimer
    <3>1. incomplete_timer'[h] = incomplete_timer[h]
      BY <1>1, <1>5, <2>2 DEF IncompleteAfter
    <3>2. incomplete_timer[h] \in 0..IncompleteTimeout
      BY <1>2, <2>2 DEF Timer
    <3>3. recv_buffer[h] > 0
      BY <1>2, <2>2 DEF GuardedAt
    <3>4. partial_age'[h] + incomplete_timer'[h] <= IncompleteTimeout
      BY <1>1, <1>2, <3>1, <3>2, <3>3, LimitsAssumption DEF GuardedAt
    <3> QED
      BY <1>1, <1>3, <1>5, <2>2, <3>1, <3>4 DEF GuardedAt
  <2> QED
    BY <2>1, <2>2
<1> QED
  BY <1>4, <1>5

LEMMA GuardedDeliver ==
  ASSUME TypeOK, NEW h \in Handlers, GuardedAt(h), Deliver(h)
  PROVE  GuardedAt(h)'
<1> PICK fs \in Deliveries, tail \in 0..MaxTail :
      \/ DeliverOversized(h, fs, tail) \/ DeliverOverflow(h, fs, tail)
      \/ DeliverUndecodable(h, fs, tail) \/ DeliverDecoded(h, fs, tail)
  BY DEF Deliver
<1>1. fs \in Seq(Kinds) /\ tail \in Nat /\ phase[h] = "open"
  BY LimitsAssumption DEF DeliverOversized, DeliverOverflow, DeliverUndecodable,
     DeliverDecoded, Delivery
<1>2. CASE DeliverOversized(h, fs, tail)
  BY <1>2, GuardedClose DEF DeliverOversized
<1>3. CASE DeliverOverflow(h, fs, tail)
  <2>1. /\ phase'[h] = "closing" /\ incomplete_timer'[h] = NoTimer
        /\ recv_buffer'[h] = 0
    BY <1>3 DEF DeliverOverflow, CloseTransport, TypeOK
  <2> QED
    BY <2>1, GuardedGone
<1>4. CASE DeliverUndecodable(h, fs, tail)
  BY <1>1, <1>4, GuardedTail DEF DeliverUndecodable, connections
<1>5. CASE DeliverDecoded(h, fs, tail)
  BY <1>1, <1>5, GuardedTail DEF DeliverDecoded, connections
<1> QED
  BY <1>2, <1>3, <1>4, <1>5

LEMMA GuardedConnection ==
  ASSUME TypeOK, NEW h \in Handlers, GuardedAt(h),
         Accept(h) \/ Refuse(h) \/ ConnectionLost(h)
  PROVE  GuardedAt(h)'
<1>1. CASE Accept(h)
  <2>1. /\ idle_timer'[h] = IdleTimeout /\ incomplete_timer'[h] = NoTimer
        /\ recv_buffer'[h] = 0 /\ phase'[h] = "open"
    BY <1>1 DEF Accept, Fresh, TypeOK
  <2> QED
    BY <2>1, LimitsAssumption DEF GuardedAt, NoTimer
<1>2. CASE Refuse(h)
  <2>1. /\ phase[h] # "open" /\ phase'[h] = "closing"
        /\ incomplete_timer'[h] = incomplete_timer[h] /\ recv_buffer'[h] = 0
    BY <1>2 DEF Refuse, Fresh, timers, TypeOK
  <2> QED
    BY <2>1, GuardedGone DEF GuardedAt
<1>3. CASE ConnectionLost(h)
  <2>1. /\ phase'[h] = "lost" /\ incomplete_timer'[h] = NoTimer
        /\ recv_buffer'[h] = 0 /\ idle_timer'[h] = NoTimer
    BY <1>3 DEF ConnectionLost, CancelTimers, TypeOK
  <2> QED
    BY <2>1, GuardedGone
<1> QED
  BY <1>1, <1>2, <1>3

(* While time passes the frame in the buffer ages as its timer runs down.  *)
LEMMA GuardedAdvance ==
  ASSUME TypeOK, NEW h \in Handlers, GuardedAt(h), Advance
  PROVE  GuardedAt(h)'
<1>1. /\ idle_timer[h] \in Timer(IdleTimeout) /\ idle_timer[h] # 0
      /\ incomplete_timer[h] \in Timer(IncompleteTimeout) /\ incomplete_timer[h] # 0
      /\ partial_age[h] \in 0..IncompleteTimeout
  BY DEF Advance, Due, TypeOK
<1>2. /\ phase'[h] = phase[h] /\ recv_buffer'[h] = recv_buffer[h]
      /\ idle_timer'[h] = IF idle_timer[h] > 0 THEN idle_timer[h] - 1 ELSE idle_timer[h]
      /\ incomplete_timer'[h] = IF incomplete_timer[h] > 0
                               THEN incomplete_timer[h] - 1 ELSE incomplete_timer[h]
      /\ partial_age'[h] \in {partial_age[h], partial_age[h] + 1}
  BY DEF Advance, Elapse, connections
<1>3. /\ idle_timer'[h] = NoTimer <=> idle_timer[h] = NoTimer
      /\ incomplete_timer'[h] = NoTimer <=> incomplete_timer[h] = NoTimer
  BY <1>1, <1>2, LimitsAssumption DEF Timer, NoTimer
<1>4. ASSUME phase[h] = "open", recv_buffer[h] > 0
      PROVE  partial_age'[h] + incomplete_timer'[h] <= IncompleteTimeout
  <2>1. /\ incomplete_timer[h] > 0 /\ incomplete_timer[h] \in Nat
        /\ partial_age[h] + incomplete_timer[h] <= IncompleteTimeout
    BY <1>1, <1>4, LimitsAssumption DEF GuardedAt, Timer, NoTimer
  <2> QED
    BY <1>1, <1>2, <2>1, LimitsAssumption
<1> QED
  BY <1>2, <1>3, <1>4 DEF GuardedAt

LEMMA TimersStep ==
  TypeOK /\ TimersGuardConnections /\ [Next]_vars => TimersGuardConnections'
<1> SUFFICES ASSUME TypeOK, TimersGuardConnections, [Next]_vars, NEW g \in Handlers
             PROVE  GuardedAt(g)'
  BY DEF TimersGuardConnections, GuardedAt
<1>1. GuardedAt(g)
  BY DEF TimersGuardConnections, GuardedAt
<1>2. CASE UNCHANGED vars
  <2>1. TimersOf(g)' = TimersOf(g)
    BY <1>2 DEF vars, connections, timers, TimersOf
  <2> QED
    BY <1>1, <2>1, GuardedFrame
<1>3. CASE Advance
  BY <1>1, <1>3, GuardedAdvance
<1>4. ASSUME NEW h \in Handlers, Step(h)
      PROVE  GuardedAt(g)'
  <2>1. CASE g # h
    BY <1>1, <1>4, <2>1, OthersTimers, GuardedFrame
  <2>2. CASE g = h
    <3>1. CASE StartDrain(g) \/ FinishRequest(g)
      <4>1. TimersOf(g)' = TimersOf(g)
        BY <3>1 DEF StartDrain, FinishRequest, connections, timers, TimersOf
      <4> QED
        BY <1>1, <4>1, GuardedFrame
    <3>2. CASE FireIdle(g) \/ FireIncomplete(g)
      BY <3>2, GuardedClose DEF FireIdle, FireIncomplete
    <3> QED
      BY <1>1, <1>4, <2>2, <3>1, <3>2, GuardedConnection, GuardedDeliver DEF Step
  <2> QED
    BY <2>1, <2>2
<1> QED
  BY <1>2, <1>3, <1>4 DEF Next

(* Every open connection has an idle deadline, an incomplete request a     *)
(* deadline no later than the timeout from its first byte, and a           *)
(* connection that is gone has no timer left.                              *)
THEOREM TimersAlwaysGuard == Spec => []TimersGuardConnections
<1>1. Init => TimersGuardConnections
  BY DEF Init, TimersGuardConnections
<1> QED
  BY <1>1, TimersStep, TypeCorrect, PTL DEF Spec
-----------------------------------------------------------------------------
(* What a step may do to the deadline of an open connection.               *)
RunsOnAt(h) ==
  phase[h] = "open" /\ phase'[h] = "open" /\ recv_buffer'[h] > 0 =>
    IF recv_buffer[h] = 0
    THEN incomplete_timer'[h] = IncompleteTimeout
    ELSE incomplete_timer'[h] \in {incomplete_timer[h], incomplete_timer[h] - 1}

LEMMA RunsOnFrame ==
  ASSUME TypeOK, NEW h \in Handlers, TimersOf(h)' = TimersOf(h)
  PROVE  RunsOnAt(h)
<1>1. /\ incomplete_timer'[h] = incomplete_timer[h] /\ recv_buffer'[h] = recv_buffer[h]
      /\ recv_buffer[h] \in Nat
  BY DEF TimersOf, TypeOK
<1> QED
  BY <1>1 DEF RunsOnAt

LEMMA RunsOnTail ==
  ASSUME TypeOK, NEW h \in Handlers, GuardedAt(h), phase[h] = "open",
         NEW fs \in Seq(Kinds), NEW left \in Nat, KeepTail(h, fs, left)
  PROVE  RunsOnAt(h)
<1>1. recv_buffer'[h] = left /\ incomplete_timer'[h] = IncompleteAfter(h, left)
  BY DEF KeepTail, TypeOK
<1>2. recv_buffer[h] \in Nat
  BY DEF TypeOK
<1> QED
  BY <1>1, <1>2 DEF RunsOnAt, GuardedAt, IncompleteAfter

LEMMA RunsOnDeliver ==
  ASSUME TypeOK, NEW h \in Handlers, GuardedAt(h), Deliver(h)
  PROVE  RunsOnAt(h)
<1> PICK fs \in Deliveries, tail \in 0..MaxTail :
      \/ DeliverOversized(h, fs, tail) \/ DeliverOverflow(h, fs, tail)
      \/ DeliverUndecodable(h, fs, tail) \/ DeliverDecoded(h, fs, tail)
  BY DEF Deliver
<1>1. fs \in Seq(Kinds) /\ tail \in Nat /\ phase[h] = "open"
  BY LimitsAssumption DEF DeliverOversized, DeliverOverflow, DeliverUndecodable,
     DeliverDecoded, Delivery
<1>2. CASE DeliverOversized(h, fs, tail) \/ DeliverOverflow(h, fs, tail)
  BY <1>2 DEF DeliverOversized, DeliverOverflow, Close, CloseTransport, RunsOnAt, TypeOK
<1>3. CASE DeliverUndecodable(h, fs, tail)
  BY <1>1, <1>3, RunsOnTail DEF DeliverUndecodable
<1>4. CASE DeliverDecoded(h, fs, tail)
  BY <1>1, <1>4, RunsOnTail DEF DeliverDecoded
<1> QED
  BY <1>2, <1>3, <1>4

LEMMA RunsOnStep ==
  ASSUME TypeOK, TimersGuardConnections, [Next]_vars, NEW g \in Handlers
  PROVE  RunsOnAt(g)
<1>1. GuardedAt(g)
  BY DEF TimersGuardConnections, GuardedAt
<1>2. CASE UNCHANGED vars
  BY <1>2, RunsOnFrame DEF vars, connections, timers, TimersOf
<1>3. CASE Advance
  <2>1. /\ recv_buffer'[g] = recv_buffer[g] /\ recv_buffer[g] \in Nat
        /\ incomplete_timer'[g] \in {incomplete_timer[g], incomplete_timer[g] - 1}
    BY <1>3 DEF Advance, Elapse, TypeOK
  <2> QED
    BY <2>1 DEF RunsOnAt
<1>4. ASSUME NEW h \in Handlers, Step(h)
      PROVE  RunsOnAt(g)
  <2>1. CASE g # h
    BY <1>4, <2>1, OthersTimers, RunsOnFrame
  <2>2. CASE g = h
    <3>1. CASE StartDrain(g) \/ FinishRequest(g)
      BY <3>1, RunsOnFrame DEF StartDrain, FinishRequest, connections, timers, TimersOf
    <3>2. CASE FireIdle(g) \/ FireIncomplete(g)
      BY <3>2 DEF FireIdle, FireIncomplete, Close, CloseTransport, RunsOnAt, TypeOK
    <3>3. CASE Accept(g) \/ Refuse(g) \/ ConnectionLost(g)
      BY <3>3 DEF Accept, Refuse, Fresh, ConnectionLost, RunsOnAt, TypeOK
    <3> QED
      BY <1>1, <1>4, <2>2, <3>1, <3>2, <3>3, RunsOnDeliver DEF Step
  <2> QED
    BY <2>1, <2>2
<1> QED
  BY <1>2, <1>3, <1>4 DEF Next

(* The deadline of the bytes that wait is armed once and only runs down,   *)
(* whatever a client delivers meanwhile: no delivery buys more time.       *)
THEOREM DeadlineNeverSetBack == Spec => DeadlineRunsOn
<1>1. TypeOK /\ TimersGuardConnections /\ [Next]_vars => \A h \in Handlers : RunsOnAt(h)
  BY RunsOnStep
<1> QED
  BY <1>1, TypeCorrect, TimersAlwaysGuard, PTL DEF Spec, DeadlineRunsOn, RunsOnAt
-----------------------------------------------------------------------------
(* No request of any delivery lies behind a frame whose decoding raises.   *)
NoneBehindUndecodable == \A fs \in Deliveries : Decoded(fs) = Requests(fs)

(* The queue and the request started last account for all that came in.    *)
KeptAt(h) ==
  phase[h] = "open" =>
    /\ \A i \in 1..Len(pending[h]) : pending[h][i] = started[h] + i
    /\ started[h] + Len(pending[h]) = received[h]

LEMMA KeptFrame ==
  ASSUME NEW h \in Handlers, KeptAt(h),
         phase'[h] = "open" => phase[h] = "open",
         QueueOf(h)' = QueueOf(h)
  PROVE  KeptAt(h)'
<1>1. /\ started'[h] = started[h] /\ received'[h] = received[h]
      /\ pending'[h] = pending[h]
  BY DEF QueueOf
<1> QED
  BY <1>1 DEF KeptAt

LEMMA KeptDeliver ==
  ASSUME NoneBehindUndecodable, TypeOK, NEW h \in Handlers, KeptAt(h), Deliver(h)
  PROVE  KeptAt(h)'
<1> PICK fs \in Deliveries, tail \in 0..MaxTail :
      \/ DeliverOversized(h, fs, tail) \/ DeliverOverflow(h, fs, tail)
      \/ DeliverUndecodable(h, fs, tail) \/ DeliverDecoded(h, fs, tail)
  BY DEF Deliver
<1>1. CASE DeliverOversized(h, fs, tail) \/ DeliverOverflow(h, fs, tail)
  <2>1. phase'[h] = "closing"
    BY <1>1 DEF DeliverOversized, DeliverOverflow, Close, CloseTransport, TypeOK
  <2> QED
    BY <2>1 DEF KeptAt
<1>2. CASE DeliverUndecodable(h, fs, tail) \/ DeliverDecoded(h, fs, tail)
  <2> DEFINE p == pending[h]
             q == Queued(h, fs)
             n == Cardinality(Requests(fs))
  <2>1. fs \in Seq(Kinds)
    BY LimitsAssumption
  <2>2. n \in Nat /\ Cardinality(Decoded(fs)) = n
    BY <2>1, RequestCounts DEF NoneBehindUndecodable
  <2>3. /\ phase[h] = "open" /\ started'[h] = started[h] /\ pending'[h] = q
        /\ received'[h] = received[h] + n
    BY <1>2 DEF DeliverUndecodable, DeliverDecoded, Delivery, TypeOK
  <2>4. /\ started[h] \in Nat /\ received[h] \in Nat /\ Len(p) \in Nat
    BY LenProperties DEF TypeOK
  <2>5. /\ Len(q) = Len(p) + n
        /\ \A i \in 1..Len(q) :
             q[i] = IF i <= Len(p) THEN p[i] ELSE received[h] + (i - Len(p))
    BY <2>1, <2>2, QueuedShape
  <2>6. /\ \A i \in 1..Len(p) : p[i] = started[h] + i
        /\ started[h] + Len(p) = received[h]
    BY <2>3 DEF KeptAt
  <2> HIDE DEF n, p, q
  <2>7. \A i \in 1..Len(q) : q[i] = started[h] + i
    BY <2>2, <2>4, <2>5, <2>6
  <2>8. started[h] + Len(q) = received[h] + n
    BY <2>2, <2>4, <2>5, <2>6
  <2> QED
    BY <2>3, <2>7, <2>8 DEF KeptAt
<1> QED
  BY <1>1, <1>2

LEMMA KeptDrain ==
  ASSUME TypeOK, NEW h \in Handlers, KeptAt(h), StartDrain(h) \/ FinishRequest(h)
  PROVE  KeptAt(h)'
<1>1. PopNext(h) /\ phase'[h] = phase[h] /\ received'[h] = received[h]
  BY DEF StartDrain, FinishRequest, connections
<1>2. CASE pending[h] = <<>>
  <2>1. pending'[h] = pending[h] /\ started'[h] = started[h]
    BY <1>1, <1>2 DEF PopNext
  <2> QED
    BY <1>1, <2>1 DEF KeptAt
<1>3. CASE pending[h] # <<>>
  <2> DEFINE p == pending[h]
  <2>1. pending'[h] = Tail(p) /\ started'[h] = Head(p)
    BY <1>1, <1>3 DEF PopNext, TypeOK
  <2>2. /\ p \in Seq(Nat) /\ p # <<>> /\ started[h] \in Nat /\ received[h] \in Nat
    BY <1>3 DEF TypeOK
  <2> HIDE DEF p
  <2>3. /\ Len(Tail(p)) = Len(p) - 1 /\ Len(p) \in Nat \ {0}
        /\ \A i \in 1..Len(Tail(p)) : Tail(p)[i] = p[i + 1]
        /\ Head(p) = p[1]
    BY <2>2, HeadTailProperties, EmptySeq, LenProperties
  <2>4. SUFFICES ASSUME phase[h] = "open"
                 PROVE  /\ \A i \in 1..Len(Tail(p)) : Tail(p)[i] = Head(p) + i
                        /\ Head(p) + Len(Tail(p)) = received[h]
    BY <1>1, <2>1 DEF KeptAt
  <2>5. /\ \A i \in 1..Len(p) : p[i] = started[h] + i
        /\ started[h] + Len(p) = received[h]
    BY <2>4 DEF KeptAt, p
  <2>6. Head(p) = started[h] + 1
    BY <2>3, <2>5
  <2>7. \A i \in 1..Len(Tail(p)) : Tail(p)[i] = Head(p) + i
    <3> TAKE i \in 1..Len(Tail(p))
    <3>1. i + 1 \in 1..Len(p)
      BY <2>3
    <3>2. Tail(p)[i] = started[h] + (i + 1)
      BY <2>3, <2>5, <3>1
    <3>3. i \in Int /\ started[h] \in Int
      BY <2>2
    <3>4. started[h] + (i + 1) = (started[h] + 1) + i
      BY <3>3
    <3> QED
      BY <2>6, <3>2, <3>4
  <2>8. Head(p) + Len(Tail(p)) = received[h]
    BY <2>2, <2>3, <2>5, <2>6
  <2> QED
    BY <2>7, <2>8
<1> QED
  BY <1>2, <1>3

LEMMA KeptStep ==
  ASSUME NoneBehindUndecodable, TypeOK, InOrder, NoRequestLost, [Next]_vars
  PROVE  NoRequestLost'
<1> SUFFICES ASSUME NEW g \in Handlers PROVE KeptAt(g)'
  <2>1. TypeOK'
    BY TypeStep
  <2>2. \A h \in Handlers : DOMAIN pending'[h] = 1..Len(pending'[h])
    BY <2>1, LenProperties DEF TypeOK
  <2> QED
    BY <2>2 DEF KeptAt, NoRequestLost
<1>1. KeptAt(g)
  <2>1. DOMAIN pending[g] = 1..Len(pending[g])
    BY LenProperties DEF TypeOK
  <2> QED
    BY <2>1 DEF KeptAt, NoRequestLost
<1>2. CASE UNCHANGED vars \/ Advance
  <2>1. QueueOf(g)' = QueueOf(g) /\ phase'[g] = phase[g]
    BY <1>2 DEF vars, Advance, queues, connections, QueueOf
  <2> QED
    BY <1>1, <2>1, KeptFrame
<1>3. ASSUME NEW h \in Handlers, Step(h)
      PROVE  KeptAt(g)'
  <2>1. CASE g # h
    <3>1. phase'[g] = phase[g]
      BY <1>3, <2>1, OthersTimers DEF TimersOf
    <3> QED
      BY <1>1, <1>3, <2>1, <3>1, OthersUntouched, KeptFrame
  <2>2. CASE g = h
    <3>1. CASE Accept(g)
      <4>1. pending'[g] = <<>> /\ started'[g] = 0 /\ received'[g] = 0
        BY <3>1 DEF Accept, Fresh, TypeOK
      <4> QED
        BY <4>1 DEF KeptAt
    <3>2. CASE Refuse(g) \/ ConnectionLost(g) \/ FireIdle(g) \/ FireIncomplete(g)
      <4>1. phase'[g] # "open"
        BY <3>2 DEF Refuse, ConnectionLost, FireIdle, FireIncomplete, Close,
                    CloseTransport, TypeOK
      <4> QED
        BY <4>1 DEF KeptAt
    <3> QED
      BY <1>1, <1>3, <2>2, <3>1, <3>2, KeptDeliver, KeptDrain DEF Step
  <2> QED
    BY <2>1, <2>2
<1> QED
  BY <1>2, <1>3 DEF Next

(* As long as no client puts a request behind a frame the decoder refuses, *)
(* an open connection loses none: what was received is what was started    *)
(* and what is queued, in one unbroken run of numbers, for every limit and *)
(* every interleaving of deliveries, timers and the drain task             *)
(* (callback_data, data_received, _drain_requests). With such a delivery   *)
(* it does not hold: the rest is thrown away.                              *)
THEOREM RequestsKept ==
  ASSUME NoneBehindUndecodable
  PROVE  Spec => []NoRequestLost
<1>1. Init => NoRequestLost
  BY DEF Init, NoRequestLost
<1>2. TypeOK /\ InOrder /\ NoRequestLost /\ [Next]_vars => NoRequestLost'
  BY KeptStep
<1> QED
  BY <1>1, <1>2, TypeCorrect, RequestsInOrder, PTL DEF Spec

-----------------------------------------------------------------------------
(* Whatever waits has a task that will come to it.                         *)
Attended == \A h \in Handlers : pending[h] # <<>> => tasks[h] = 1

LEMMA AttendedStep ==
  ASSUME \A fs \in Deliveries : ~Raises(fs), TypeOK, InOrder, Attended, [Next]_vars
  PROVE  Attended'
<1> SUFFICES ASSUME NEW g \in Handlers, pending'[g] # <<>>
             PROVE  tasks'[g] = 1
  BY DEF Attended
<1>1. pending[g] # <<>> => tasks[g] = 1
  BY DEF Attended
<1>2. CASE QueueOf(g)' = QueueOf(g)
  BY <1>1, <1>2 DEF QueueOf
<1>3. CASE UNCHANGED vars \/ Advance
  BY <1>2, <1>3 DEF vars, Advance, queues, QueueOf
<1>4. ASSUME NEW h \in Handlers, Step(h)
      PROVE  tasks'[g] = 1
  <2>1. CASE g # h
    BY <1>2, <1>4, <2>1, OthersUntouched
  <2>2. CASE g = h
    <3>1. CASE Accept(g) \/ Refuse(g)
      BY <3>1 DEF Accept, Refuse, Fresh, TypeOK
    <3>2. CASE ConnectionLost(g) \/ FireIdle(g) \/ FireIncomplete(g)
      BY <1>1, <3>2 DEF ConnectionLost, FireIdle, FireIncomplete, Close, queues
    <3>3. CASE Deliver(g)
      <4> PICK fs \in Deliveries, tail \in 0..MaxTail :
            \/ DeliverOversized(g, fs, tail) \/ DeliverOverflow(g, fs, tail)
            \/ DeliverUndecodable(g, fs, tail) \/ DeliverDecoded(g, fs, tail)
        BY <3>3 DEF Deliver
      <4>1. tasks[g] \in {0, 1}
        BY DEF TypeOK, InOrder
      <4>2. CASE DeliverDecoded(g, fs, tail)
        BY <4>1, <4>2 DEF DeliverDecoded, TasksAfter, TypeOK
      <4>3. ~DeliverUndecodable(g, fs, tail)
        BY DEF DeliverUndecodable
      <4>4. CASE DeliverOversized(g, fs, tail)
        BY <1>1, <4>4 DEF DeliverOversized, Close, queues
      <4>5. CASE DeliverOverflow(g, fs, tail)
        BY <4>5 DEF DeliverOverflow, TypeOK
      <4> QED
        BY <4>2, <4>3, <4>4, <4>5
    <3>4. CASE StartDrain(g) \/ FinishRequest(g)
      <4>1. PopNext(g) /\ tasks[g] = 1
        BY <3>4, DrainAlone DEF StartDrain, FinishRequest
      <4> QED
        BY <4>1 DEF PopNext
    <3> QED
      BY <1>4, <2>2, <3>1, <3>2, <3>3, <3>4 DEF Step
  <2> QED
    BY <2>1, <2>2
<1> QED
  BY <1>3, <1>4 DEF Next

(* The safety half of QueueDrains: with frames that all decode, a queue    *)
(* that is not empty has its one drain task, also after the connection is  *)
(* gone, so the wait for it is only for the event loop (callback_data      *)
(* starts the task, _drain_requests ends it only on an empty queue).       *)
THEOREM QueueAttended ==
  ASSUME \A fs \in Deliveries : ~Raises(fs)
  PROVE  Spec => []Attended
<1>1. Init => Attended
  BY DEF Init, Attended
<1>2. TypeOK /\ InOrder /\ Attended /\ [Next]_vars => Attended'
  BY AttendedStep
<1> QED
  BY <1>1, <1>2, TypeCorrect, RequestsInOrder, PTL DEF Spec
=============================================================================
