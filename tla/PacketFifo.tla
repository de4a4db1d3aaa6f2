----------------------------- MODULE PacketFifo -----------------------------
(***************************************************************************)
(* What an interface queue promises its scheduler: a first-in first-out     *)
(* list bounded in bytes, that drops at the tail, can give or remove the    *)
(* packet at any position and gives nothing while suspended.  IfQueue is    *)
(* the circular array that implements it.                                   *)
(***************************************************************************)
EXTENDS Integers, Sequences

CONSTANTS
  Msg,    \* the messages
  Size,   \* MESSAGE_ReturnPacketSize
  Limit   \* queueSizeInBytes

SizeAssumption == Size \in [Msg -> Nat \ {0}]
LimitAssumption == Limit \in Nat

CONSTANT NoMsg   \* the null message
NoMsgAssumption == NoMsg \notin Msg

VARIABLES
  fifo,       \* the messages in the queue, the oldest first
  used,       \* their bytes
  suspended,
  out         \* what the last call returned: the message, if any

vars == <<fifo, used, suspended, out>>

Init ==
  /\ fifo = <<>>
  /\ used = 0
  /\ suspended = FALSE
  /\ out = NoMsg

Queued == {fifo[i] : i \in 1 .. Len(fifo)}

\* The queue without its k-th message.
Without(k) ==
  [i \in 1 .. Len(fifo) - 1 |-> IF i < k THEN fifo[i] ELSE fifo[i + 1]]

Accept(m) ==
  /\ m \notin Queued
  /\ used + Size[m] <= Limit
  /\ fifo' = Append(fifo, m)
  /\ used' = used + Size[m]
  /\ out' = NoMsg
  /\ UNCHANGED suspended

\* Tail drop: the message comes back to the caller.
Refuse(m) ==
  /\ m \notin Queued
  /\ used + Size[m] > Limit
  /\ out' = m
  /\ UNCHANGED <<fifo, used, suspended>>

Take(k) ==
  /\ ~suspended
  /\ k \in 1 .. Len(fifo)
  /\ out' = fifo[k]
  /\ fifo' = Without(k)
  /\ used' = used - Size[fifo[k]]
  /\ UNCHANGED suspended

Peek(k) ==
  /\ ~suspended
  /\ k \in 1 .. Len(fifo)
  /\ out' = fifo[k]
  /\ UNCHANGED <<fifo, used, suspended>>

\* A suspended queue, or one without that many packets, gives nothing.
Nothing(k) ==
  /\ suspended \/ k > Len(fifo)
  /\ out' = NoMsg
  /\ UNCHANGED <<fifo, used, suspended>>

Suspend(b) ==
  /\ suspended' = b
  /\ UNCHANGED <<fifo, used, out>>

Next ==
  \/ \E m \in Msg : Accept(m) \/ Refuse(m)
  \/ \E k \in 1 .. Len(fifo) + 1 : Take(k) \/ Peek(k) \/ Nothing(k)
  \/ \E b \in BOOLEAN : Suspend(b)

Spec == Init /\ [][Next]_vars
=============================================================================
