------------------------------ MODULE IfQueue -------------------------------
(***************************************************************************)
(* class Queue: the FIFO packet queue of an interface, kept in a circular   *)
(* array that doubles when it is full and closes up when a packet is taken  *)
(* from its middle.  Source: if_queue.cpp.                                  *)
(*                                                                         *)
(* A message that has left the queue may be inserted again: the set of      *)
(* messages is finite, not the traffic.  Of the statistics the module keeps *)
(* the delays; time is a bounded counter.                                   *)
(***************************************************************************)
EXTENDS Integers, Sequences

CONSTANTS
  Msg,         \* the messages
  Size,        \* MESSAGE_ReturnPacketSize
  Limit,       \* queueSizeInBytes
  NoMsg,       \* the null message
  InitialMax,  \* entries of the first array: Limit / DEFAULT_ETHERNET_MTU, at least 2
  MaxTime      \* bound: clock readings

ASSUME QueueAssumption ==
  /\ Size \in [Msg -> Nat \ {0}]
  /\ Limit \in Nat
  /\ NoMsg \notin Msg
  /\ InitialMax \in Nat \ {0, 1}
  /\ MaxTime \in Nat

VARIABLES
  arr,        \* packetArray
  head, tail, \* headIndex, tailIndex
  num, max,   \* numPackets, maxPackets
  used,       \* bytesUsed
  suspended,  \* queueSuspended
  out,        \* the message the last call gave back
  now,        \* getSimTime
  delays,     \* totalDelays
  waited      \* history: the time the packets taken had really spent in the queue

ring == <<arr, head, tail, num, max>>
vars == <<arr, head, tail, num, max, used, suspended, out, now, delays, waited>>

Entry == [msg : Msg \cup {NoMsg}, time : 0 .. MaxTime]
NoEntry == [msg |-> NoMsg, time |-> 0]

\* Queue::RetriveArrayIndex
RetriveArrayIndex(i) == (head + i) % max

Contents == [i \in 1 .. num |-> arr[RetriveArrayIndex(i - 1)].msg]
Queued == {Contents[i] : i \in 1 .. num}

\* Queue::SetupQueue
Init ==
  /\ arr = [i \in 0 .. InitialMax - 1 |-> NoEntry]
  /\ head = 1 /\ tail = 0
  /\ num = 0 /\ max = InitialMax
  /\ used = 0
  /\ suspended = FALSE
  /\ out = NoMsg
  /\ now = 0 /\ delays = 0 /\ waited = 0

-----------------------------------------------------------------------------
(* Queue::insert *)

HasRoom(m) == Size[m] <= Limit - used

\* The array after the two memcpy: the part from the head on, then the rest.
Doubled ==
  [i \in 0 .. 2 * max - 1 |->
     IF i < max - head THEN arr[head + i]
     ELSE IF i < max THEN arr[i - (max - head)]
     ELSE NoEntry]

TailDrop(m) ==
  /\ ~HasRoom(m)
  /\ out' = m
  /\ UNCHANGED <<arr, head, tail, num, max, used>>

\* Mutant of InsertGrowing: the array is copied without being unrolled.
InsertGrowingRolled(m, currentTime) ==
  /\ HasRoom(m) /\ num = max
  /\ arr' = [i \in 0 .. 2 * max - 1 |->
               IF i < max THEN arr[i]
               ELSE IF i = max THEN [msg |-> m, time |-> currentTime]
               ELSE NoEntry]
  /\ head' = 0 /\ tail' = max /\ max' = 2 * max
  /\ num' = num + 1
  /\ used' = used + Size[m]
  /\ out' = NoMsg

\* Mutant of InsertGrowing: the tail is left where it was.
InsertGrowingShort(m, currentTime) ==
  /\ HasRoom(m) /\ num = max
  /\ arr' = [Doubled EXCEPT ![max] = [msg |-> m, time |-> currentTime]]
  /\ head' = 0 /\ tail' = tail + 1 /\ max' = 2 * max
  /\ num' = num + 1
  /\ used' = used + Size[m]
  /\ out' = NoMsg

\* numPackets == maxPackets: the array is unrolled into one of twice the size.
InsertGrowing(m, currentTime) ==
  /\ HasRoom(m) /\ num = max
  /\ arr' = [Doubled EXCEPT ![max] = [msg |-> m, time |-> currentTime]]
  /\ head' = 0 /\ tail' = max /\ max' = 2 * max
  /\ num' = num + 1
  /\ used' = used + Size[m]
  /\ out' = NoMsg

InsertInPlace(m, currentTime) ==
  /\ HasRoom(m) /\ num # max
  /\ tail' = IF tail + 1 = max THEN 0 ELSE tail + 1
  /\ arr' = [arr EXCEPT ![tail'] = [msg |-> m, time |-> currentTime]]
  /\ num' = num + 1
  /\ used' = used + Size[m]
  /\ out' = NoMsg
  /\ UNCHANGED <<head, max>>

insert(m, currentTime) ==
  /\ m \in Msg /\ m \notin Queued
  /\ TailDrop(m) \/ InsertGrowing(m, currentTime) \/ InsertInPlace(m, currentTime)
  /\ UNCHANGED <<suspended, now, delays, waited>>

-----------------------------------------------------------------------------
(* Queue::retrieve *)

CanRetrieve(index) == num > index /\ ~suspended

\* tailIndex-- with the wrap at -1
TailBack == tail' = IF tail = 0 THEN max - 1 ELSE tail - 1

TakeHead ==
  /\ head' = IF head + 1 = max THEN 0 ELSE head + 1
  /\ UNCHANGED <<arr, tail>>

TakeTail(a) ==
  /\ a = tail
  /\ TailBack
  /\ UNCHANGED <<arr, head>>

\* One memmove brings the entries up to the tail one place forward.
TakeBeforeTail(a) ==
  /\ a < tail
  /\ arr' = [i \in DOMAIN arr |-> IF a <= i /\ i < tail THEN arr[i + 1] ELSE arr[i]]
  /\ TailBack
  /\ UNCHANGED head

\* The queue runs over the end of the array behind the packet: three memmoves.
TakeAcrossEnd(a) ==
  /\ tail < a
  /\ arr' = [i \in DOMAIN arr |->
               IF a <= i /\ i < max - 1 THEN arr[i + 1]
               ELSE IF i = max - 1 THEN arr[0]
               ELSE IF i < tail THEN arr[i + 1]
               ELSE arr[i]]
  /\ TailBack
  /\ UNCHANGED head

\* UpdateQueueDelayStats looks at the entry of the array when the entries have
\* already been moved.
QueueDelay(a) == now - arr'[a].time

\* DEQUEUE_PACKET, DROP_PACKET and DISCARD_PACKET remove the packet alike; a
\* discarded packet does not count for the delays.
Take(index, counted) ==
  LET a == RetriveArrayIndex(index) IN
  /\ CanRetrieve(index)
  /\ \/ index = 0 /\ TakeHead
     \/ index > 0 /\ (TakeTail(a) \/ TakeBeforeTail(a) \/ TakeAcrossEnd(a))
  /\ out' = arr[a].msg
  /\ num' = num - 1
  /\ used' = used - Size[arr[a].msg]
  /\ delays' = IF counted THEN delays + QueueDelay(a) ELSE delays
  /\ waited' = IF counted THEN waited + now - arr[a].time ELSE waited
  /\ UNCHANGED <<max, suspended, now>>

PeekAtNextPacket(index) ==
  /\ CanRetrieve(index)
  /\ out' = arr[RetriveArrayIndex(index)].msg
  /\ UNCHANGED <<arr, head, tail, num, max, used, suspended, now, delays, waited>>

RetrieveNothing(index) ==
  /\ ~CanRetrieve(index)
  /\ out' = NoMsg
  /\ UNCHANGED <<arr, head, tail, num, max, used, suspended, now, delays, waited>>

setQueueBehavior(suspend) ==
  /\ suspended' = suspend
  /\ UNCHANGED <<arr, head, tail, num, max, used, out, now, delays, waited>>

Tick ==
  /\ now < MaxTime
  /\ now' = now + 1
  /\ UNCHANGED <<arr, head, tail, num, max, used, suspended, out, delays, waited>>

\* Callers ask for a position in the queue, or for one past its end.
Next ==
  \/ \E m \in Msg : insert(m, now)
  \/ \E index \in 0 .. num :
       \/ \E counted \in BOOLEAN : Take(index, counted)
       \/ PeekAtNextPacket(index)
       \/ RetrieveNothing(index)
  \/ \E suspend \in BOOLEAN : setQueueBehavior(suspend)
  \/ Tick

Spec == Init /\ [][Next]_vars

-----------------------------------------------------------------------------
TypeOK ==
  /\ max \in Nat \ {0, 1} /\ num \in 0 .. max
  /\ arr \in [0 .. max - 1 -> Entry]
  /\ head \in 0 .. max - 1 /\ tail \in 0 .. max - 1
  /\ used \in 0 .. Limit
  /\ suspended \in BOOLEAN
  /\ out \in Msg \cup {NoMsg}
  /\ now \in 0 .. MaxTime
  /\ delays \in Int /\ waited \in Int

\* The tail is num - 1 places after the head, around the end of the array.
TailFollowsHead ==
  \E turn \in {-1, 0, 1} : tail + 1 = head + num + turn * max

\* The queue behaves as a first-in first-out list bounded in bytes.
Fifo == INSTANCE PacketFifo WITH fifo <- Contents
ImplementsFifo == Fifo!Spec

-----------------------------------------------------------------------------
(* What a comment or an assertion of the code says and its actions do not keep. *)

\* The delay statistics are said to be those of the packet that was taken.
DelaysAreTrue == delays = waited
=============================================================================
