----------------------------- MODULE AsdcsLink ------------------------------
(***************************************************************************)
(* The TCP connection between the ASDCS client and its server: two reliable *)
(* FIFO streams.  TCP itself is not under test, so it is modelled by what   *)
(* the application relies on: a segment is handed up in order, some time    *)
(* after it was sent, at a moment when the receiver's radio listens to the  *)
(* sender's channel.                                                        *)
(***************************************************************************)
EXTENDS Dot11Mac

VARIABLES
  c2s,   \* packets on their way to the server
  s2c    \* packets on their way to the client

\* PROBE_PKT and CHANGE_PKT go to the server, the others to the client.
\* channel is used by CHANGE_PKT only.  round is history: the number of the
\* probing round a packet belongs to; it is not in the packet.
ServerPacket == [type : {"PROBE_PKT", "CHANGE_PKT"}, channel : Channel, round : Nat]
ClientPacket == [type : {"PROBE_ACK", "CHANGE_ACK", "VERIFY_ACK", "NODE_LIST"},
                 channel : Channel, round : Nat]

Packet(type, channel, round) == [type |-> type, channel |-> channel, round |-> round]

LinkTypeOK == c2s \in Seq(ServerPacket) /\ s2c \in Seq(ClientPacket)
LinkInit == c2s = <<>> /\ s2c = <<>>

\* Nothing is sent on a session the sender has seen closed.
Transmit(queue, closed, packet) == IF closed THEN queue ELSE Append(queue, packet)

\* The first packet of the stream reaches the application of node "to".
ToServer(type) == c2s # <<>> /\ Head(c2s).type = type /\ CanHear(Tx, Rx) /\ Quiet(Rx)
ToClient(type) == s2c # <<>> /\ Head(s2c).type = type /\ CanHear(Rx, Tx) /\ Quiet(Tx)
=============================================================================
