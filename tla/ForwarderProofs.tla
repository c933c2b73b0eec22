-------------------------- MODULE ForwarderProofs --------------------------
(***************************************************************************)
(* Proofs about the forwarder: for every rate, clock resolution, connect   *)
(* timeout and summary interval, for logs of any length.                   *)
(***************************************************************************)
EXTENDS Forwarder, SequenceTheorems, TLAPS

-----------------------------------------------------------------------------
LEMMA CapacityNat == rate \in Nat => Capacity \in Nat
BY ForwarderAssumption DEF Capacity

(* What _take_token finds in the bucket after the refill: no more than the *)
(* capacity, and no more than time has brought.                            *)
LEMMA RefillBounds ==
  ASSUME TypeOK
  PROVE  /\ Refill \in 0..Capacity
         /\ Refill <= tokens + (now - refilled) * rate
<1>1. /\ Capacity \in Nat /\ tokens \in 0..Capacity
      /\ now \in Nat /\ refilled \in 0..now /\ rate \in Nat
  BY CapacityNat DEF TypeOK
<1>2. (now - refilled) * rate \in Nat
  BY <1>1
<1> QED
  BY <1>1, <1>2 DEF Refill

(* A step takes a token, is refused one or leaves the bucket alone, and    *)
(* the clock does not go back.                                             *)
LEMMA BucketStep ==
  ASSUME TypeOK, [Next]_vars
  PROVE  /\ UNCHANGED arguments
         /\ now' \in Nat /\ now' >= now
         /\ UNCHANGED bucket \/ TakeToken \/ RefuseToken
<1>0. now \in Nat
  BY DEF TypeOK
<1>1. ASSUME Connect PROVE now' \in Nat /\ now' >= now
  BY <1>0, <1>1, ForwarderAssumption DEF Connect, ConnectTimes
<1>2. CASE HugeLine \/ OtherLine \/ DropRateLimited \/ DropOversized \/ WriteStream
  BY <1>0, <1>2 DEF HugeLine, OtherLine, DropRateLimited, DropOversized, WriteStream,
     NextLine, TakeLine
<1>3. CASE SendWhole \/ ConnectFails \/ SendFails
  BY <1>1, <1>3 DEF SendWhole, ConnectFails, SendFails, NextLine, TakeLine
<1>4. CASE BrokenPipe \/ End \/ Wait
  BY <1>0, <1>4 DEF BrokenPipe, End, Wait, TakeLine
<1>5. CASE UNCHANGED vars
  BY <1>0, <1>5 DEF vars
<1> QED
  BY <1>2, <1>3, <1>4, <1>5 DEF Next

-----------------------------------------------------------------------------
(* The names of the counters, and what counting does to them.              *)
Names == {"forwarded", "dropped_unreachable", "dropped_oversized",
          "dropped_rate_limited", "ignored_non_event"}

LEMMA CounterNames == DOMAIN NoCounts = Names /\ NoCounts \in [Names -> Nat]
BY DEF NoCounts, Names

LEMMA Counting ==
  ASSUME TypeOK, NEW c \in Names, Count(c)
  PROVE  /\ counters' \in [Names -> Nat]
         /\ counters'[c] = counters[c] + 1
         /\ \A d \in Names \ {c} : counters'[d] = counters[d]
BY CounterNames DEF TypeOK, Count

(* Every step counts one line in one counter, or nothing.                  *)
LEMMA CountersStep ==
  ASSUME TypeOK, [Next]_vars
  PROVE  UNCHANGED counters \/ \E c \in Names : Count(c)
<1>1. CASE HugeLine \/ OtherLine \/ DropRateLimited \/ DropOversized \/ WriteStream
  BY <1>1 DEF HugeLine, OtherLine, DropRateLimited, DropOversized, WriteStream, Names
<1>2. CASE SendWhole \/ ConnectFails \/ SendFails
  BY <1>2 DEF SendWhole, ConnectFails, SendFails, CountUnreachable, Names
<1>3. CASE BrokenPipe \/ End \/ Wait \/ UNCHANGED vars
  BY <1>3 DEF BrokenPipe, End, Wait, vars
<1> QED
  BY <1>1, <1>2, <1>3 DEF Next

LEMMA TypeInit == Init => TypeOK
<1> SUFFICES ASSUME Init PROVE TypeOK
  OBVIOUS
<1>1. Capacity \in Nat
  BY CapacityNat, ForwarderAssumption DEF Init
<1>2. counters \in [DOMAIN NoCounts -> Nat] /\ printed \in [DOMAIN NoCounts -> Nat]
  BY CounterNames DEF Init
<1> QED
  BY <1>1, <1>2, ForwarderAssumption DEF Init, TypeOK

LEMMA TypeStep == TypeOK /\ [Next]_vars => TypeOK'
<1> SUFFICES ASSUME TypeOK, [Next]_vars PROVE TypeOK'
  OBVIOUS
<1>1. /\ UNCHANGED arguments /\ now' \in Nat /\ now' >= now
      /\ UNCHANGED bucket \/ TakeToken \/ RefuseToken
  BY BucketStep
<1>2. transport' \in {"udp", "tcp", "dry"} /\ rate' \in Nat /\ Capacity' = Capacity
  BY <1>1 DEF TypeOK, arguments, Capacity
<1>3. tokens' \in 0..Capacity' /\ refilled' \in 0..now' /\ granted' \in Seq(Nat)
  <2>0. /\ now \in Nat /\ refilled \in 0..now /\ tokens \in 0..Capacity
        /\ granted \in Seq(Nat) /\ rate \in Nat /\ Capacity \in Nat
    BY CapacityNat DEF TypeOK
  <2>1. CASE UNCHANGED bucket
    BY <1>1, <1>2, <2>0, <2>1 DEF bucket
  <2>2. CASE TakeToken
    <3>1. tokens' \in 0..Capacity
      BY <2>0, <2>2, RefillBounds, ForwarderAssumption DEF TakeToken
    <3> QED
      BY <1>1, <1>2, <2>0, <2>2, <3>1 DEF TakeToken
  <2>3. CASE RefuseToken
    BY <1>1, <1>2, <2>0, <2>3, RefillBounds DEF RefuseToken
  <2> QED
    BY <1>1, <2>1, <2>2, <2>3
<1>4. counters' \in [Names -> Nat]
  BY CountersStep, Counting, CounterNames DEF TypeOK
<1>5. printed' \in [Names -> Nat] /\ last_summary' \in 0..now'
  <2>0. printed \in [Names -> Nat] /\ last_summary \in 0..now /\ now \in Nat
    BY CounterNames DEF TypeOK
  <2>1. CASE Summarise
    BY <1>1, <1>4, <2>0, <2>1 DEF Summarise, reports
  <2>2. CASE UNCHANGED reports
    BY <1>1, <2>0, <2>2 DEF reports
  <2>3. CASE End
    BY <1>1, <1>4, <2>0, <2>3 DEF End
  <2>4. Summarise \/ UNCHANGED reports \/ End
    BY DEF Next, HugeLine, OtherLine, DropRateLimited, DropOversized, WriteStream,
       SendWhole, ConnectFails, SendFails, BrokenPipe, Wait, vars
  <2> QED
    BY <2>1, <2>2, <2>3, <2>4
<1>6. socket' \in {"none", "open"} /\ wire' \in Seq({"whole", "part"})
  <2>0. socket \in {"none", "open"} /\ wire \in Seq({"whole", "part"})
    BY DEF TypeOK
  <2>1. OnWire \in Seq({"whole", "part"})
    BY <2>0 DEF OnWire
  <2>2. CASE SendWhole
    BY <2>1, <2>2 DEF SendWhole
  <2>3. CASE ConnectFails
    BY <2>0, <2>3 DEF ConnectFails, Reset
  <2>4. CASE SendFails
    <3>1. PICK remains \in Remains : wire' = OnWire \o remains
      BY <2>4 DEF SendFails
    <3>2. remains \in Seq({"whole", "part"})
      <4>1. remains = <<>> \/ remains = <<"part">>
        BY DEF Remains
      <4>2. <<>> \in Seq({"whole", "part"}) /\ <<"part">> \in Seq({"whole", "part"})
        OBVIOUS
      <4> QED
        BY <4>1, <4>2
    <3> QED
      BY <2>1, <2>4, <3>1, <3>2 DEF SendFails, Reset
  <2>5. CASE UNCHANGED connection
    BY <2>0, <2>5 DEF connection
  <2>6. SendWhole \/ ConnectFails \/ SendFails \/ UNCHANGED connection
    BY DEF Next, HugeLine, OtherLine, DropRateLimited, DropOversized, WriteStream,
       BrokenPipe, End, Wait, vars
  <2> QED
    BY <2>2, <2>3, <2>4, <2>5, <2>6
<1>7. read' \in Nat /\ status' \in {"running", "finished", "killed"}
  <2>0. read \in Nat /\ status \in {"running", "finished", "killed"}
    BY DEF TypeOK
  <2>1. CASE NextLine
    BY <2>0, <2>1 DEF NextLine, TakeLine
  <2>2. CASE BrokenPipe \/ End \/ Wait \/ UNCHANGED vars
    BY <2>0, <2>2 DEF BrokenPipe, TakeLine, End, Wait, vars
  <2> QED
    BY <2>1, <2>2 DEF Next, HugeLine, OtherLine, DropRateLimited, DropOversized,
       WriteStream, SendWhole, ConnectFails, SendFails
<1> QED
  BY <1>1, <1>2, <1>3, <1>4, <1>5, <1>6, <1>7, CounterNames DEF TypeOK

(* Type correctness: the bucket holds between nothing and its capacity,    *)
(* and its clock is never ahead of the time (_take_token).                 *)
THEOREM TypeCorrect == Spec => []TypeOK
BY TypeInit, TypeStep, PTL DEF Spec

-----------------------------------------------------------------------------
(* The arithmetic of the bucket.                                           *)
LEMMA Distributes ==
  ASSUME NEW r \in Nat, NEW a \in Int, NEW b \in Int, NEW c \in Int
  PROVE  r * (c - a) = r * (b - a) + (c - b) * r
OBVIOUS

LEMMA OneMore ==
  ASSUME NEW k \in Int, NEW one \in Int
  PROVE  (k + 1) * one = k * one + one
OBVIOUS

LEMMA ProductInt == ASSUME NEW a \in Int, NEW b \in Int PROVE a * b \in Int
OBVIOUS

\* e: the events since one; w, d: what time brought up to the last refill and
\* since.
LEMMA RefillPays ==
  ASSUME NEW e \in Int, NEW left \in Int, NEW full \in Int, NEW cap \in Int,
         NEW w \in Int, NEW d \in Int,
         e + left <= cap + w, full <= left + d
  PROVE  e + full <= cap + (w + d)
OBVIOUS

(* Why the rate holds: for every event let through, the events since then  *)
(* and the tokens that are left are paid for by one full bucket and by the *)
(* time until the last refill.  RateBounded alone is not inductive: it     *)
(* does not say what is in the bucket.                                     *)
Paid ==
  rate > 0 =>
    \A i \in DOMAIN granted :
      /\ granted[i] <= refilled
      /\ (Len(granted) - i + 1) * One + tokens
           <= Capacity + rate * (refilled - granted[i])

LEMMA PaidStep == TypeOK /\ Paid /\ [Next]_vars => Paid'
<1> SUFFICES ASSUME TypeOK, Paid, [Next]_vars, rate' > 0, NEW i \in DOMAIN granted'
             PROVE  /\ granted'[i] <= refilled'
                    /\ (Len(granted') - i + 1) * One + tokens'
                         <= Capacity' + rate' * (refilled' - granted'[i])
  BY DEF Paid
<1>1. /\ UNCHANGED arguments
      /\ UNCHANGED bucket \/ TakeToken \/ RefuseToken
  BY BucketStep
<1>2. rate' = rate /\ rate > 0 /\ Capacity' = Capacity
  BY <1>1 DEF arguments, Capacity
<1>3. /\ rate \in Nat /\ now \in Nat /\ refilled \in 0..now /\ Capacity \in Nat
      /\ tokens \in 0..Capacity /\ granted \in Seq(Nat) /\ One \in Nat
  BY CapacityNat, ForwarderAssumption DEF TypeOK
<1>4. Len(granted) \in Nat /\ DOMAIN granted = 1..Len(granted)
  BY <1>3
<1>5. /\ Refill \in 0..Capacity /\ Refill <= tokens + (now - refilled) * rate
      /\ (now - refilled) * rate \in Int
  <2>1. now - refilled \in Int
    BY <1>3
  <2> QED
    BY <1>3, <2>1, ProductInt, RefillBounds
<1>6. ASSUME i \in DOMAIN granted
      PROVE  /\ granted[i] \in Nat /\ granted[i] <= now /\ granted[i] <= refilled
             /\ (Len(granted) - i + 1) * One \in Int
             /\ (Len(granted) - i + 1) * One + tokens
                  <= Capacity + rate * (refilled - granted[i])
             /\ (Len(granted) - i + 1) * One + Refill
                  <= Capacity + rate * (now - granted[i])
  <2>1. granted[i] \in Nat /\ Len(granted) - i + 1 \in Int
    BY <1>3, <1>4, <1>6
  <2>2. rate * (now - granted[i])
          = rate * (refilled - granted[i]) + (now - refilled) * rate
    BY <1>3, <2>1, Distributes
  <2>3. (Len(granted) - i + 1) * One \in Int
    BY <1>3, <2>1, ProductInt
  <2>4. rate * (refilled - granted[i]) \in Int
    <3>1. refilled - granted[i] \in Int
      BY <1>3, <2>1
    <3> QED
      BY <1>3, <3>1, ProductInt
  <2>5. /\ granted[i] <= refilled
        /\ (Len(granted) - i + 1) * One + tokens
             <= Capacity + rate * (refilled - granted[i])
    BY <1>2, <1>6 DEF Paid
  <2>6. (Len(granted) - i + 1) * One + Refill
          <= Capacity + (rate * (refilled - granted[i]) + (now - refilled) * rate)
    <3>1. tokens \in Int /\ Refill \in Int /\ Capacity \in Int
      BY <1>3, <1>5
    <3> QED
      BY <1>5, <2>3, <2>4, <2>5, <3>1, RefillPays
  <2>7. granted[i] <= now
    BY <1>3, <2>1, <2>5
  <2> QED
    BY <2>1, <2>2, <2>3, <2>5, <2>6, <2>7
<1>7. CASE UNCHANGED bucket
  BY <1>2, <1>6, <1>7 DEF bucket
<1>8. CASE RefuseToken
  BY <1>2, <1>6, <1>8 DEF RefuseToken
<1>9. CASE TakeToken
  <2>1. /\ tokens' = Refill - One /\ refilled' = now
        /\ granted' = Append(granted, now)
    BY <1>2, <1>9 DEF TakeToken
  <2>2. /\ Len(granted') = Len(granted) + 1
        /\ i \in 1..Len(granted) + 1
        /\ granted'[i] = IF i <= Len(granted) THEN granted[i] ELSE now
    BY <1>3, <1>4, <2>1
  <2>3. CASE i \in DOMAIN granted
    <3> DEFINE k == Len(granted) - i + 1
    <3>1. k \in Int /\ Len(granted') - i + 1 = k + 1
      BY <1>4, <2>2, <2>3
    <3>2. (k + 1) * One = k * One + One
      BY <1>3, <3>1, OneMore
    <3>3. k * One \in Int
      BY <1>3, <3>1
    <3>4. k * One + Refill <= Capacity + rate * (now - granted[i])
      BY <1>6, <2>3
    <3>5. granted'[i] = granted[i] /\ granted[i] <= now
      BY <1>4, <1>6, <2>2, <2>3
    <3>6. (k + 1) * One + tokens' = k * One + Refill
      <4> HIDE DEF k
      <4>1. Refill \in Int
        BY <1>3, <1>5
      <4> QED
        BY <1>3, <2>1, <3>2, <3>3, <4>1
    <3> HIDE DEF k
    <3> QED
      BY <1>2, <2>1, <3>1, <3>4, <3>5, <3>6
  <2>4. CASE i \notin DOMAIN granted
    <3>1. i = Len(granted) + 1 /\ granted'[i] = now
      BY <1>4, <2>2, <2>4
    <3>2. Len(granted') - i + 1 = 1 /\ refilled' - granted'[i] = 0
      BY <1>3, <1>4, <2>1, <2>2, <3>1
    <3>3. 1 * One = One /\ rate * 0 = 0
      BY <1>3
    <3> QED
      BY <1>2, <1>3, <1>5, <2>1, <3>1, <3>2, <3>3
  <2> QED
    BY <2>3, <2>4
<1> QED
  BY <1>1, <1>7, <1>8, <1>9

(* The rate limit holds over every interval and for every rate: between    *)
(* any two events let through, both included, there are no more than one   *)
(* burst plus what the rate gives for the time between (_take_token).      *)
THEOREM RateLimitHolds == Spec => []RateBounded
<1>1. Init => Paid /\ RateBounded
  BY DEF Init, Paid, RateBounded
<1>2. TypeOK /\ Paid /\ RateBounded /\ [Next]_vars => RateBounded'
  <2> SUFFICES ASSUME TypeOK, Paid, RateBounded, [Next]_vars, rate' > 0,
                      NEW i \in DOMAIN granted', NEW j \in DOMAIN granted', i <= j
               PROVE  (j - i + 1) * One <= Capacity' + rate' * (granted'[j] - granted'[i])
    BY DEF RateBounded
  <2>1. /\ UNCHANGED arguments
        /\ UNCHANGED bucket \/ TakeToken \/ RefuseToken
    BY BucketStep
  <2>2. rate' = rate /\ rate > 0 /\ Capacity' = Capacity
    BY <2>1 DEF arguments, Capacity
  <2>3. /\ granted \in Seq(Nat) /\ now \in Nat /\ DOMAIN granted = 1..Len(granted)
        /\ Len(granted) \in Nat
    BY DEF TypeOK
  <2>4. CASE granted' = granted
    BY <2>2, <2>4 DEF RateBounded
  <2>5. CASE TakeToken
    <3>1. granted' = Append(granted, now) /\ refilled' = now
      BY <2>2, <2>5 DEF TakeToken
    <3>2. /\ Len(granted') = Len(granted) + 1
          /\ DOMAIN granted' = 1..Len(granted) + 1
          /\ \A n \in 1..Len(granted) : granted'[n] = granted[n]
          /\ granted'[Len(granted) + 1] = now
      BY <2>3, <3>1
    <3>3. CASE j \in DOMAIN granted
      <4>1. i \in DOMAIN granted
        BY <2>3, <3>2, <3>3
      <4> QED
        BY <2>2, <2>3, <3>2, <3>3, <4>1 DEF RateBounded
    <3>4. CASE j \notin DOMAIN granted
      <4>1. j = Len(granted') /\ granted'[j] = refilled'
        BY <2>3, <3>1, <3>2, <3>4
      <4>2. TypeOK' /\ Paid'
        BY TypeStep, PaidStep
      <4>3. (Len(granted') - i + 1) * One + tokens'
              <= Capacity' + rate' * (refilled' - granted'[i])
        BY <4>2 DEF Paid
      <4>4. tokens' \in Nat /\ Capacity' \in Nat /\ One \in Nat /\ rate \in Nat
        BY <2>2, <4>2, CapacityNat, ForwarderAssumption DEF TypeOK
      <4>5. granted'[i] \in Nat /\ refilled' \in Nat /\ i \in Nat
        BY <2>3, <3>1, <3>2
      <4>6. /\ (Len(granted') - i + 1) * One \in Int
            /\ rate' * (refilled' - granted'[i]) \in Int
        BY <2>2, <2>3, <3>2, <4>4, <4>5
      <4> QED
        BY <4>1, <4>3, <4>4, <4>6
    <3> QED
      BY <3>3, <3>4
  <2> QED
    BY <2>1, <2>4, <2>5 DEF bucket, RefuseToken
<1> QED
  BY <1>1, <1>2, PaidStep, TypeCorrect, PTL DEF Spec

-----------------------------------------------------------------------------
(* Taking a token adds one to the events let through.                      *)
LEMMA TokenTaken ==
  ASSUME TypeOK, TakeToken
  PROVE  Len(granted') = Len(granted) + 1 /\ Len(granted) \in Nat
BY DEF TypeOK, TakeToken

(* Every line read is in exactly one counter, and every event that took a  *)
(* token in one of three, but for the line that kills the process; the     *)
(* last summary shows the final counters (run, send).                      *)
THEOREM EveryLineAccounted == Spec => []LinesAccounted
<1>1. Init => LinesAccounted
  BY DEF Init, LinesAccounted, Uncounted, NoCounts
<1>2. TypeOK /\ LinesAccounted /\ [Next]_vars => LinesAccounted'
  <2> SUFFICES ASSUME TypeOK, LinesAccounted, [Next]_vars PROVE LinesAccounted'
    OBVIOUS
  <2>0. /\ read \in Nat /\ Len(granted) \in Nat
        /\ counters.forwarded \in Nat /\ counters.dropped_unreachable \in Nat
        /\ counters.dropped_oversized \in Nat /\ counters.dropped_rate_limited \in Nat
        /\ counters.ignored_non_event \in Nat
    BY CounterNames DEF TypeOK, Names
  <2>1. ASSUME NEW c \in {"ignored_non_event", "dropped_rate_limited"},
               NextLine, Count(c), UNCHANGED granted
        PROVE  LinesAccounted'
    <3>1. /\ status = "running" /\ status' = "running" /\ read' = read + 1
          /\ Uncounted = 0 /\ Uncounted' = 0
      BY <2>1 DEF NextLine, TakeLine, Uncounted
    <3>2. /\ counters'[c] = counters[c] + 1
          /\ \A d \in Names \ {c} : counters'[d] = counters[d]
      BY <2>1, Counting DEF Names
    <3>3. CASE c = "ignored_non_event"
      BY <2>0, <2>1, <3>1, <3>2, <3>3 DEF LinesAccounted, Names
    <3>4. CASE c = "dropped_rate_limited"
      BY <2>0, <2>1, <3>1, <3>2, <3>4 DEF LinesAccounted, Names
    <3> QED
      BY <3>3, <3>4
  <2>2. ASSUME NEW c \in {"forwarded", "dropped_unreachable", "dropped_oversized"},
               NextLine, Count(c), TakeToken
        PROVE  LinesAccounted'
    <3>1. /\ status = "running" /\ status' = "running" /\ read' = read + 1
          /\ Uncounted = 0 /\ Uncounted' = 0
      BY <2>2 DEF NextLine, TakeLine, Uncounted
    <3>2. /\ counters'[c] = counters[c] + 1
          /\ \A d \in Names \ {c} : counters'[d] = counters[d]
      BY <2>2, Counting DEF Names
    <3>3. Len(granted') = Len(granted) + 1
      BY <2>2, TokenTaken
    <3> DEFINE events == counters.forwarded + counters.dropped_unreachable
                         + counters.dropped_oversized
               others == counters.dropped_rate_limited + counters.ignored_non_event
    <3>4. events \in Nat /\ others \in Nat
      BY <2>0
    <3>5. others' = others
      BY <3>2 DEF Names
    <3>6. events' = events + 1
      <4>1. \A d \in Names : counters'[d] = IF d = c THEN counters[d] + 1 ELSE counters[d]
        BY <3>2
      <4> QED
        BY <2>0, <4>1 DEF Names
    <3>7. read = events + others /\ Len(granted) = events
      BY <2>0, <3>1 DEF LinesAccounted
    <3>8. /\ counters'.forwarded \in Nat /\ counters'.dropped_unreachable \in Nat
          /\ counters'.dropped_oversized \in Nat
          /\ counters'.dropped_rate_limited \in Nat /\ counters'.ignored_non_event \in Nat
      BY <2>2, Counting DEF Names
    <3>9. read' = events' + others' /\ Len(granted') = events'
      <4> HIDE DEF events, others
      <4> QED
        BY <3>1, <3>3, <3>4, <3>5, <3>6, <3>7
    <3> QED
      BY <3>1, <3>8, <3>9 DEF LinesAccounted
  <2>3. CASE HugeLine \/ OtherLine \/ DropRateLimited
    BY <2>1, <2>3 DEF HugeLine, OtherLine, DropRateLimited, RefuseToken, bucket
  <2>4. CASE DropOversized \/ WriteStream \/ SendWhole \/ ConnectFails \/ SendFails
    BY <2>2, <2>4 DEF DropOversized, WriteStream, SendWhole, ConnectFails, SendFails,
       CountUnreachable
  <2>5. CASE BrokenPipe
    BY <2>0, <2>5, TokenTaken DEF BrokenPipe, TakeLine, LinesAccounted, Uncounted
  <2>6. CASE End
    BY <2>6 DEF End, LinesAccounted, Uncounted, bucket
  <2>7. CASE Wait
    BY <2>7 DEF Wait, LinesAccounted, Uncounted, bucket, reports
  <2>8. CASE UNCHANGED vars
    BY <2>8 DEF vars, LinesAccounted, Uncounted, bucket, reports
  <2> QED
    BY <2>3, <2>4, <2>5, <2>6, <2>7, <2>8 DEF Next
<1> QED
  BY <1>1, <1>2, TypeCorrect, PTL DEF Spec

(* A message cut short on a TCP connection is the last one on it: the      *)
(* collector never reads two events as one (send, _reset).                 *)
THEOREM FramingIsKept == Spec => []FramingKept
<1>1. Init => FramingKept
  BY DEF Init, FramingKept
<1>2. TypeOK /\ FramingKept /\ [Next]_vars => FramingKept'
  <2> SUFFICES ASSUME TypeOK, FramingKept, [Next]_vars PROVE FramingKept'
    OBVIOUS
  <2>1. /\ OnWire \in Seq({"whole", "part"})
        /\ \A i \in DOMAIN OnWire : OnWire[i] # "part"
    BY DEF TypeOK, FramingKept, OnWire
  <2>2. CASE SendWhole
    <3>1. wire' = Append(OnWire, "whole")
      BY <2>2 DEF SendWhole
    <3>2. \A i \in DOMAIN wire' : wire'[i] # "part"
      BY <2>1, <3>1
    <3> QED
      BY <3>2 DEF FramingKept
  <2>3. CASE ConnectFails
    BY <2>3 DEF ConnectFails, Reset, FramingKept
  <2>4. CASE SendFails
    <3>1. socket' = "none"
      BY <2>4 DEF SendFails, Reset
    <3>2. wire' = OnWire \o <<>> \/ wire' = OnWire \o <<"part">>
      BY <2>4 DEF SendFails, Remains
    <3>3. OnWire \o <<>> = OnWire /\ OnWire \o <<"part">> = Append(OnWire, "part")
      BY <2>1
    <3>4. CASE wire' = OnWire
      BY <2>1, <3>4 DEF FramingKept
    <3>5. CASE wire' = Append(OnWire, "part")
      BY <2>1, <3>1, <3>5 DEF FramingKept
    <3> QED
      BY <3>2, <3>3, <3>4, <3>5
  <2>5. CASE UNCHANGED connection
    BY <2>5 DEF connection, FramingKept
  <2> QED
    BY <2>2, <2>3, <2>4, <2>5 DEF Next, HugeLine, OtherLine, DropRateLimited,
       DropOversized, WriteStream, BrokenPipe, End, Wait, vars
<1> QED
  BY <1>1, <1>2, TypeCorrect, PTL DEF Spec
=============================================================================
