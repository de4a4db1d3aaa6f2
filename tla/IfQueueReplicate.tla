-------------------------- MODULE IfQueueReplicate --------------------------
(***************************************************************************)
(* Queue::replicate: a new queue takes over the packets of an old one, one  *)
(* by one.  The new queue has the size of the old.  Nothing else happens    *)
(* while the packets are being copied.  Source: if_queue.cpp.               *)
(***************************************************************************)
EXTENDS IfQueue

VARIABLES
  old,     \* the queue being replicated: its array, head, number and behaviour
  copied   \* packets already taken over, -1 when no replication is under way

replicateVars == <<vars, old, copied>>

NoQueue == [arr |-> <<>>, head |-> 0, num |-> 0, max |-> 1, suspended |-> FALSE]

\* The entry of the old queue that holds its i-th packet.
OldEntry(i) == old.arr[(old.head + i) % old.max]

ReplicateInit == Init /\ old = NoQueue /\ copied = -1

\* SetupQueue of the new queue, and the replication begins.
Replicate ==
  /\ copied = -1
  /\ old' = [arr |-> arr, head |-> head, num |-> num, max |-> max, suspended |-> suspended]
  /\ copied' = 0
  /\ arr' = [i \in 0 .. InitialMax - 1 |-> NoEntry]
  /\ head' = 1 /\ tail' = 0 /\ num' = 0 /\ max' = InitialMax
  /\ used' = 0 /\ suspended' = FALSE
  /\ UNCHANGED <<out, now, delays, waited>>

\* Mutant of PeekedMsg: the packet, too, is looked up from the start of the array.
PeekedMsgRaw(i) ==
  IF old.suspended THEN NoMsg ELSE old.arr[i].msg

\* PEEK_AT_NEXT_PACKET of the old queue gives nothing when it is suspended.
PeekedMsg(i) ==
  IF old.suspended THEN NoMsg ELSE OldEntry(i).msg

\* The time comes from packetArray[i], counted from the start of the array.
CopyPacket ==
  /\ 0 <= copied /\ copied < old.num
  /\ PeekedMsg(copied) # NoMsg
  /\ insert(PeekedMsg(copied), old.arr[copied].time)
  /\ copied' = copied + 1
  /\ UNCHANGED old

Replicated ==
  /\ copied >= 0 /\ copied = old.num
  /\ copied' = -1
  /\ old' = NoQueue
  /\ UNCHANGED vars

ReplicateNext ==
  \/ copied = -1 /\ Next /\ UNCHANGED <<old, copied>>
  \/ Replicate
  \/ CopyPacket
  \/ Replicated

ReplicateSpec == ReplicateInit /\ [][ReplicateNext]_replicateVars

-----------------------------------------------------------------------------
\* The new queue has the packets of the old one, in their order.
OrderKept ==
  copied >= 0 => \A i \in 0 .. copied - 1 :
                   /\ i < num
                   /\ arr[RetriveArrayIndex(i)].msg = OldEntry(i).msg

-----------------------------------------------------------------------------
(* What a comment or an assertion of the code says and its actions do not keep. *)

\* "As if it had been the operative queue all along": every packet keeps the time
\* it was inserted at.
TimesKept ==
  copied >= 0 => \A i \in 0 .. copied - 1 :
                   arr[RetriveArrayIndex(i)].time = OldEntry(i).time

\* The assertion in the loop: the old queue gives a message for each index below
\* its number of packets.
MsgIsThere ==
  0 <= copied /\ copied < old.num => PeekedMsg(copied) # NoMsg
=============================================================================
