------------------------------ MODULE Forwarder ------------------------------
(***************************************************************************)
(* tools/forward_events.py: the process beside the pot that reads its log  *)
(* and sends every event to a collector, or drops it and counts the drop.  *)
(*                                                                         *)
(* The process is sequential: handling one line of the log is one action.  *)
(* The collector and the network are the environment: a connection may be  *)
(* refused or time out or be closed by the collector, a send may fail,     *)
(* over TCP with a part of the message already on the wire.  Tokens are    *)
(* counted in parts, One of them for an event; the clock counts time       *)
(* units, Second of them in a second.                                      *)
(***************************************************************************)
EXTENDS Integers, Sequences

CONSTANTS
  Transports,        \* "udp", "tcp" (--protocol) and "dry" (--dry-run)
  Rates,             \* --max-events-per-second, as parts of a token per time unit
  One,               \* the parts of one token
  Second,            \* the time units of one second
  ConnectTimeout,    \* the settimeout(5) of a TCP connect
  SummarySeconds,    \* --summary-seconds, 0 disables
  MaxLines, MaxTime  \* bounds of the model: lines read, and the clock

ASSUME ForwarderAssumption ==
  /\ Transports \subseteq {"udp", "tcp", "dry"}
  /\ Rates \subseteq Nat
  /\ One \in Nat \ {0} /\ Second \in Nat \ {0}
  /\ ConnectTimeout \in Nat /\ SummarySeconds \in Nat
  /\ MaxLines \in Nat /\ MaxTime \in Nat

VARIABLES
  transport, rate,   \* the arguments, fixed for a run
  now,               \* time.monotonic()
  tokens, refilled,  \* _tokens, _refilled
  socket,            \* _socket: "none" or "open"
  counters,          \* Counters
  printed,           \* the counters printed last
  last_summary,      \* when, in run()
  status,            \* "running", "finished" at the end of the log, or "killed"
  read,              \* history: lines read
  granted,           \* history: when each event that took a token took it
  wire               \* history: messages on the connection opened last

arguments == <<transport, rate>>
bucket == <<tokens, refilled, granted>>
connection == <<socket, wire>>
reports == <<printed, last_summary>>
vars == <<arguments, now, bucket, connection, counters, reports, status, read>>

(* _capacity: a burst of one second, and of one event at least.            *)
Capacity ==
  IF rate = 0 THEN 0 ELSE IF rate * Second > One THEN rate * Second ELSE One

NoCounts == [forwarded |-> 0, dropped_unreachable |-> 0, dropped_oversized |-> 0,
             dropped_rate_limited |-> 0, ignored_non_event |-> 0]

Init ==
  /\ transport \in Transports
  /\ rate \in Rates
  /\ now = 0
  /\ tokens = Capacity
  /\ refilled = 0
  /\ socket = "none"
  /\ counters = NoCounts
  /\ printed = NoCounts
  /\ last_summary = 0
  /\ status = "running"
  /\ read = 0
  /\ granted = <<>>
  /\ wire = <<>>

-----------------------------------------------------------------------------
Count(counter) == counters' = [counters EXCEPT ![counter] = @ + 1]

(* run: after a line the counters are printed if the last time is long ago.*)
Summarise ==
  IF SummarySeconds > 0 /\ now' - last_summary >= SummarySeconds
  THEN printed' = counters' /\ last_summary' = now'
  ELSE UNCHANGED reports

TakeLine ==
  /\ status = "running" /\ read < MaxLines
  /\ read' = read + 1
  /\ UNCHANGED arguments

NextLine == TakeLine /\ UNCHANGED status

(* A line over MAX_LINE_BYTES is counted and skipped, summary and all.     *)
HugeLine ==
  /\ NextLine
  /\ Count("ignored_non_event")
  /\ UNCHANGED <<now, bucket, connection, reports>>

(* parse_event finds no event in the line.                                 *)
OtherLine ==
  /\ NextLine
  /\ Count("ignored_non_event")
  /\ UNCHANGED <<now, bucket, connection>>
  /\ Summarise

-----------------------------------------------------------------------------
\* Faulty variant: tokens pile up without a limit.
RefillUncapped == tokens + (now - refilled) * rate

(* _take_token.                                                            *)
Refill ==
  LET full == tokens + (now - refilled) * rate
  IN  IF full > Capacity THEN Capacity ELSE full

\* Faulty variant: the time of the last refill is not kept.
TakeTokenKeepsClock ==
  /\ rate > 0 => Refill >= One
  /\ tokens' = IF rate > 0 THEN Refill - One ELSE tokens
  /\ granted' = Append(granted, now)
  /\ UNCHANGED refilled

TakeToken ==
  /\ rate > 0 => Refill >= One
  /\ tokens' = IF rate > 0 THEN Refill - One ELSE tokens
  /\ refilled' = IF rate > 0 THEN now ELSE refilled
  /\ granted' = Append(granted, now)

RefuseToken ==
  /\ rate > 0 /\ Refill < One
  /\ tokens' = Refill
  /\ refilled' = now
  /\ UNCHANGED granted

(* send: over the rate the event is dropped.                               *)
DropRateLimited ==
  /\ NextLine
  /\ RefuseToken
  /\ Count("dropped_rate_limited")
  /\ UNCHANGED <<now, connection>>
  /\ Summarise

(* send: so is a message over MAX_DATAGRAM_BYTES, after it took a token.   *)
DropOversized ==
  /\ NextLine
  /\ TakeToken
  /\ Count("dropped_oversized")
  /\ UNCHANGED <<now, connection>>
  /\ Summarise

(* send with --dry-run: the message is printed.                            *)
WriteStream ==
  /\ transport = "dry"
  /\ NextLine
  /\ TakeToken
  /\ Count("forwarded")
  /\ UNCHANGED <<now, connection>>
  /\ Summarise

(* _connect: how long it may take.  Only a TCP connect waits, and only     *)
(* without a socket.                                                       *)
ConnectTimes ==
  IF transport = "tcp" /\ socket = "none" THEN 0..ConnectTimeout ELSE {0}

Connect == \E seconds \in ConnectTimes : now' = now + seconds

(* The messages of the connection that is used: a new one has none yet.    *)
OnWire == IF socket = "none" THEN <<>> ELSE wire

SendWhole ==
  /\ transport # "dry"
  /\ NextLine
  /\ TakeToken
  /\ Connect
  /\ socket' = "open"
  /\ wire' = Append(OnWire, "whole")
  /\ Count("forwarded")
  /\ Summarise

\* Faulty variants: the socket is kept after a failure; the drop is counted
\* as forwarded as well.
ResetNot == socket' = "open"
CountUnreachableBoth ==
  counters' = [counters EXCEPT !.dropped_unreachable = @ + 1, !.forwarded = @ + 1]

(* _reset.                                                                 *)
Reset == socket' = "none"
CountUnreachable == Count("dropped_unreachable")

(* The connect fails, or times out.                                        *)
ConnectFails ==
  /\ transport = "tcp" /\ socket = "none"
  /\ NextLine
  /\ TakeToken
  /\ Connect
  /\ Reset
  /\ CountUnreachable
  /\ UNCHANGED wire
  /\ Summarise

(* sendto fails, or sendall does: the buffer of the non-blocking socket    *)
(* takes nothing of the message, or over TCP a part of it.                 *)
Remains == IF transport = "tcp" THEN {<<>>, <<"part">>} ELSE {<<>>}

SendFails ==
  /\ transport # "dry"
  /\ NextLine
  /\ TakeToken
  /\ Connect
  /\ \E remains \in Remains : wire' = OnWire \o remains
  /\ Reset
  /\ CountUnreachable
  /\ Summarise

(* main gives SIGPIPE its default action, so a send on a connection that   *)
(* the collector has closed ends the process before it raises: the event   *)
(* is not counted and nothing is printed.                                  *)
BrokenPipe ==
  /\ transport = "tcp" /\ socket = "open"
  /\ TakeLine
  /\ TakeToken
  /\ status' = "killed"
  /\ UNCHANGED <<now, connection, counters, reports>>

-----------------------------------------------------------------------------
(* The log ends; run prints the counters.                                  *)
End ==
  /\ status = "running"
  /\ status' = "finished"
  /\ printed' = counters
  /\ UNCHANGED <<arguments, now, bucket, connection, counters, last_summary, read>>

Wait ==
  /\ status = "running" /\ now < MaxTime
  /\ now' = now + 1
  /\ UNCHANGED <<arguments, bucket, connection, counters, reports, status, read>>

Next ==
  \/ HugeLine \/ OtherLine
  \/ DropRateLimited \/ DropOversized \/ WriteStream
  \/ SendWhole \/ ConnectFails \/ SendFails \/ BrokenPipe
  \/ End \/ Wait

Spec == Init /\ [][Next]_vars

-----------------------------------------------------------------------------
(* The type invariant.                                                     *)
TypeOK ==
  /\ transport \in {"udp", "tcp", "dry"} /\ rate \in Nat
  /\ now \in Nat /\ last_summary \in 0..now
  /\ tokens \in 0..Capacity /\ refilled \in 0..now
  /\ socket \in {"none", "open"}
  /\ status \in {"running", "finished", "killed"}
  /\ counters \in [DOMAIN NoCounts -> Nat] /\ printed \in [DOMAIN NoCounts -> Nat]
  /\ read \in Nat
  /\ granted \in Seq(Nat)
  /\ wire \in Seq({"whole", "part"})

\* The line that killed the process.
Uncounted == IF status = "killed" THEN 1 ELSE 0

(* No line is lost without being counted and none is counted twice, and    *)
(* the last summary tells all of it: the counters add up to the lines read,*)
(* those that took a token to the events that were not rate limited; only  *)
(* the line that kills the process is in no counter (run, send).           *)
LinesAccounted ==
  /\ read - Uncounted
       = counters.forwarded + counters.dropped_unreachable
         + counters.dropped_oversized + counters.dropped_rate_limited
         + counters.ignored_non_event
  /\ Len(granted) - Uncounted
       = counters.forwarded + counters.dropped_unreachable + counters.dropped_oversized
  /\ status = "finished" => printed = counters

(* As the documents have it, a collector that is down costs dropped        *)
(* events, counted and reported: it never ends the forwarder.              *)
OutageSurvived == status # "killed"

(* In every stretch of time, from any event let through to any later one,  *)
(* no more events pass than one burst and the rate allow (_take_token).    *)
RateBounded ==
  rate > 0 =>
    \A i, j \in DOMAIN granted :
      i <= j => (j - i + 1) * One <= Capacity + rate * (granted[j] - granted[i])

(* A message cut short is the last of its connection: the collector never  *)
(* gets another one glued to it (send, _reset).                            *)
FramingKept ==
  \A i \in DOMAIN wire : wire[i] = "part" => i = Len(wire) /\ socket = "none"
=============================================================================
