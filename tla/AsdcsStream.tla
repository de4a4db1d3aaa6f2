---------------------------- MODULE AsdcsStream ----------------------------
(***************************************************************************)
(* The bytes between the ASDCS client and its server (app_chanswitch.cpp). *)
(* TCP is a stream: what it hands up at once need not be what one call     *)
(* wrote.  Both ends look at the first byte of what they are handed, and   *)
(* the client takes the rest for the node list it expects.                 *)
(*                                                                         *)
(* A unit is a field of a packet: its type, a byte of the node count, one  *)
(* entry of the list, a channel.  The timers run on in their states; their *)
(* races, and the radio, are in module Asdcs.                              *)
(***************************************************************************)
EXTENDS Integers, Sequences, SequencesExt

CONSTANTS
    TxAddr,
    Channels,
    Lists,        \* node lists of the server, [addr, channel, strength] each
    Base,         \* one byte counts 0 .. Base - 1; 256 in the code
    MaxSegment,   \* units in a segment
    Coalesce,     \* several packets may be handed up at once
    Leftover,     \* what an int that is not initialised holds above its low byte
    MaxRounds     \* bound: probes of the client

StreamAssumption ==
    /\ Base \in Nat \ {0} /\ MaxSegment \in Nat \ {0} /\ MaxRounds \in Nat
    /\ Coalesce \in BOOLEAN
    /\ \A l \in Lists : Len(l) < Base * Base

VARIABLES
    client,   \* state, node list and channels of the client
    read,     \* history: the node list after it was parsed, and what the server had sent
    server,
    c2s, s2c, \* the two streams of units
    writes,   \* number of the writes so far
    rounds

vars == <<client, read, server, c2s, s2c, writes, rounds>>

-----------------------------------------------------------------------------
(* TCP.                                                                    *)

Unit(k, v) == [k |-> k, v |-> v]
Written(stream, packet) ==
    stream \o [i \in DOMAIN packet |-> [k |-> packet[i].k, v |-> packet[i].v, w |-> writes]]

\* Lengths of what may be handed up: to the end of a write, or a full segment.
Deliveries(stream) ==
    {n \in 1 .. Len(stream) :
        /\ n <= MaxSegment
        /\ Coalesce \/ stream[n].w = stream[1].w
        /\ n = MaxSegment \/ n = Len(stream) \/ stream[n].w # stream[n + 1].w}

\* The first byte, as a type; the middle of a list may look like any.
Types == {"PROBE_PKT", "CHANGE_PKT", "PROBE_ACK", "CHANGE_ACK", "VERIFY_ACK", "NODE_LIST"}
FirstByte(data) == IF data[1].k = "type" THEN {data[1].v} ELSE Types \cup {"other"}

-----------------------------------------------------------------------------
(* Packets.                                                                *)

Ack(type) == <<Unit("type", type)>>
ChangePacket(c) == <<Unit("type", "CHANGE_PKT"), Unit("channel", c)>>

\* AppChanswitchServerSendVisibleNodeList; the count is two bytes.
VisibleNodeList(l) ==
    <<Unit("type", "NODE_LIST"), Unit("low", Len(l) % Base), Unit("high", Len(l) \div Base)>>
        \o [i \in DOMAIN l |-> Unit("entry", l[i])]

\* A field that is not in the data is read from the memory behind it.
Junk == [addr |-> "junk", channel |-> 99, strength |-> 0]
Field(data, i, k, memory) ==
    IF i <= Len(data) /\ data[i].k = k THEN data[i].v ELSE memory

\* AppChanswitchClientParseRxNodeList. One byte of the packet is copied into an int
\* that nobody has set: the bytes "left" above the channel are those of all entries.
\* A new entry goes to the front; the client's own is not kept.
ParseRxNodeList(c, data, left) ==
    LET count == Field(data, 2, "low", 1) + Base * Field(data, 3, "high", 0)
        entry(i) == LET e == Field(data, 3 + i, "entry", Junk)
                    IN  [e EXCEPT !.channel = @ + 256 * left]
        all == [i \in 1 .. count |-> entry(i)]
        own == SelectSeq(all, LAMBDA e : e.addr = TxAddr)
    IN  [c EXCEPT !.got = TRUE,
                  !.list = Reverse(SelectSeq(all, LAMBDA e : e.addr # TxAddr)) \o @,
                  !.atRx = IF own = <<>> THEN @ ELSE Last(own).strength]

-----------------------------------------------------------------------------
(* The client.                                                             *)

SendProbeInit ==
    /\ rounds < MaxRounds /\ rounds' = rounds + 1
    /\ client.state = "TX_IDLE"
    /\ client' = [client EXCEPT !.state = "TX_PROBE_WFACK"]
    /\ c2s' = Written(c2s, Ack("PROBE_PKT")) /\ writes' = writes + 1
    /\ UNCHANGED <<read, server, s2c>>

\* AppChanswitchClientChangeInit: the list is evaluated and dropped. A hidden node
\* is counted under its channel; when that is none, the counter lies outside the
\* array, and the program may end. What else is there to overwrite is left out.
ChangeInit(c) ==
    \/ \E best \in Channels :
        /\ client' = [c EXCEPT !.state = "TX_CHANGE_WFACK", !.next = best, !.list = <<>>]
        /\ \/ best = c.cur /\ UNCHANGED <<c2s, writes>>
           \/ best # c.cur /\ c2s' = Written(c2s, ChangePacket(best)) /\ writes' = writes + 1
    \/ /\ \E i \in DOMAIN c.list : c.list[i].channel \notin Channels
       /\ client' = [c EXCEPT !.state = "failed"] /\ UNCHANGED <<c2s, writes>>

\* MSG_APP_FromMacTxScanFinished
TxScanFinished ==
    /\ client.state = "TX_PROBING"
    /\ \/ client.got /\ ChangeInit(client)
       \/ /\ ~client.got
          /\ client' = [client EXCEPT !.state = "TX_PROBE_WFRX"]
          /\ UNCHANGED <<c2s, writes>>
    /\ UNCHANGED <<read, server, s2c, rounds>>

\* MSG_APP_TxProbeWfAckTimeout, MSG_APP_TxChangeWfAckTimeout, MSG_APP_TxVerifyWfAckTimeout
ClientTimeout ==
    /\ \/ /\ client.state = "TX_PROBE_WFACK"
          /\ client' = [client EXCEPT !.state = "TX_PROBING", !.got = FALSE]
       \/ /\ client.state = "TX_CHANGE_WFACK" /\ client.next # client.cur
          /\ client' = [client EXCEPT !.state = "TX_VERIFY_WFACK"]
       \/ /\ client.state = "TX_VERIFY_WFACK"
          /\ client' = [client EXCEPT !.state = "TX_CHANGE_WFACK"]
    /\ UNCHANGED <<read, server, c2s, s2c, writes, rounds>>

\* MSG_APP_FromTransDataReceived at the client, by the first byte.
ProbeAckReceived ==
    /\ client.state \in {"TX_IDLE", "TX_PROBE_WFACK"}
    /\ client' = [client EXCEPT !.state = "TX_PROBING", !.got = FALSE]
    /\ UNCHANGED <<read, c2s, writes>>

\* A change or its verification is acknowledged.
ChangeDone(state) ==
    /\ client.state = state
    /\ client' = [client EXCEPT !.state = "TX_IDLE", !.cur = client.next]
    /\ UNCHANGED <<read, c2s, writes>>

NodeListReceived(data) ==
    /\ client.state \in {"TX_PROBING", "TX_PROBE_WFRX"}
    /\ \E left \in Leftover :
        LET c == ParseRxNodeList(client, data, left) IN
        /\ read' = [list |-> c.list, atRx |-> c.atRx, of |-> server.sent]
        /\ \/ /\ client.state = "TX_PROBING" /\ client' = c
              /\ UNCHANGED <<c2s, writes>>
           \/ client.state = "TX_PROBE_WFRX" /\ ChangeInit(c)

ClientReacts(type, data) ==
    \/ type = "PROBE_ACK" /\ ProbeAckReceived
    \/ type = "CHANGE_ACK" /\ ChangeDone("TX_CHANGE_WFACK")
    \/ type = "VERIFY_ACK" /\ ChangeDone("TX_VERIFY_WFACK")
    \/ type = "NODE_LIST" /\ NodeListReceived(data)

Expected(type) ==
    CASE type = "PROBE_ACK" -> {"TX_IDLE", "TX_PROBE_WFACK"}
      [] type = "CHANGE_ACK" -> {"TX_CHANGE_WFACK"}
      [] type = "VERIFY_ACK" -> {"TX_VERIFY_WFACK"}
      [] type = "NODE_LIST" -> {"TX_PROBING", "TX_PROBE_WFRX"}
      [] OTHER -> {}

\* What the state does not expect is dropped, and so is all that follows it in
\* the same data.
ClientReceives ==
    /\ \E n \in Deliveries(s2c) : \E type \in FirstByte(s2c) :
        /\ s2c' = SubSeq(s2c, n + 1, Len(s2c))
        /\ \/ ClientReacts(type, SubSeq(s2c, 1, n))
           \/ client.state \notin Expected(type) /\ UNCHANGED <<client, read, c2s, writes>>
    /\ UNCHANGED <<server, rounds>>

-----------------------------------------------------------------------------
(* The server.                                                             *)

Serves(s) == server.state = s /\ UNCHANGED <<client, read, rounds>>

\* MSG_APP_FromTransDataReceived at the server; a packet it does not know ends
\* the program.
Served(type, data) ==
    CASE type = "PROBE_PKT" -> [server EXCEPT !.state = "RX_PROBE_ACK"]
      [] type = "CHANGE_PKT" -> [server EXCEPT !.state = "RX_CHANGE_ACK",
                                               !.next = Field(data, 2, "channel", 0)]
      [] OTHER -> [server EXCEPT !.state = "failed"]

AckOf(type) == IF type = "PROBE_PKT" THEN "PROBE_ACK" ELSE "CHANGE_ACK"

ServerReacts(type, data) ==
    /\ server' = Served(type, data)
    /\ s2c' = Written(s2c, Ack(AckOf(type))) /\ writes' = writes + 1

ServerReceives ==
    /\ \E n \in Deliveries(c2s) : \E type \in FirstByte(c2s) :
        /\ c2s' = SubSeq(c2s, n + 1, Len(c2s))
        /\ \/ server.state = "RX_IDLE" /\ ServerReacts(type, SubSeq(c2s, 1, n))
           \/ server.state # "RX_IDLE" /\ UNCHANGED <<server, s2c, writes>>
    /\ UNCHANGED <<client, read, rounds>>

\* MSG_APP_FromMacRxScanFinished, after MSG_APP_RxProbeAckDelay and the scan.
RxScanFinished ==
    /\ Serves("RX_PROBE_ACK")
    /\ \E l \in Lists :
        /\ server' = [server EXCEPT !.state = "RX_IDLE", !.sent = l]
        /\ s2c' = Written(s2c, VisibleNodeList(l)) /\ writes' = writes + 1
    /\ UNCHANGED c2s

\* MSG_APP_RxChangeAckDelay
RxChangeAckDelay ==
    /\ Serves("RX_CHANGE_ACK")
    /\ server' = [server EXCEPT !.state = "RX_IDLE", !.cur = server.next]
    /\ s2c' = Written(s2c, Ack("VERIFY_ACK")) /\ writes' = writes + 1
    /\ UNCHANGED c2s

-----------------------------------------------------------------------------
Init ==
    /\ client \in [state : {"TX_IDLE"}, got : {FALSE}, list : {<<>>}, atRx : {0},
                   cur : {0}, next : {0}]
    /\ server = [state |-> "RX_IDLE", sent |-> <<>>, cur |-> 0, next |-> 0]
    /\ read = [list |-> <<>>, atRx |-> 0, of |-> <<>>]
    /\ c2s = <<>> /\ s2c = <<>>
    /\ writes = 0 /\ rounds = 0

Running == client.state # "failed" /\ server.state # "failed"
Stopped == UNCHANGED vars

Next ==
    \/ Running /\ (SendProbeInit \/ TxScanFinished \/ ClientTimeout \/ ClientReceives)
    \/ Running /\ (ServerReceives \/ RxScanFinished \/ RxChangeAckDelay)
    \/ Stopped

Spec == Init /\ [][Next]_vars

-----------------------------------------------------------------------------
OthersOf(l) == Reverse(SelectSeq(l, LAMBDA e : e.addr # TxAddr))
OwnOf(l) == SelectSeq(l, LAMBDA e : e.addr = TxAddr)

\* The client has the list the server sent, no entry lost, invented or kept from
\* the probe before, and how well the server hears it ("save RX's node list",
\* app_chanswitch.cpp:1201). Of a channel only the byte that was sent is right, but
\* whatever is above it, nodes are on one channel there if and only if they are.
ListAsSent ==
    LET sent == OthersOf(read.of)
        got == read.list
    IN  /\ Len(got) = Len(sent)
        /\ \A i \in DOMAIN sent :
             /\ got[i].addr = sent[i].addr /\ got[i].strength = sent[i].strength
             /\ got[i].channel % 256 = sent[i].channel
        /\ \A i, j \in DOMAIN sent :
             got[i].channel = got[j].channel <=> sent[i].channel = sent[j].channel
        /\ OwnOf(read.of) # <<>> => read.atRx = OwnOf(read.of)[1].strength

\* Both ends change to the same channel: the server goes where the client asked.
ChangesAgree ==
    /\ server.state = "RX_CHANGE_ACK" => server.next = client.next
    /\ client.state = "TX_IDLE" /\ server.state = "RX_IDLE" /\ c2s = <<>> =>
           client.cur = server.cur

\* The server knows the type of every packet.
KnownPackets == server.state # "failed"

-----------------------------------------------------------------------------
(* What a comment or an assertion of the code says and its actions do not keep. *)

\* The channels in the list are channels: they index the counters of the evaluation
\* ("HN count per channel", app_chanswitch.cpp:727). It holds for Leftover = {0}.
ChannelsRead == \A i \in DOMAIN read.list : read.list[i].channel \in Channels

\* A client that waits for the node list, having scanned, gets it and goes on.
ListHeard == client.state = "TX_PROBE_WFRX" ~> client.state # "TX_PROBE_WFRX"
=============================================================================
