---------------------------- MODULE QueueTrigger ----------------------------
(***************************************************************************)
(* One node whose transmission queue asks its ASDCS application for a new    *)
(* channel: the priority queues of the interface, the edge-triggered wake-up *)
(* of the MAC, the zero-delay messages between queue, applications and MAC,  *)
(* and the one connectionId and one management timer that all sessions of    *)
(* the node share in the MAC.  Source: network_ip.cpp, if_scheduler.cpp,     *)
(* app_chanswitch.cpp, mac_dot11.cpp, mac_dot11-mgmt.cpp.                    *)
(*                                                                         *)
(* A round after its address reply is one step here: Asdcs models it.        *)
(***************************************************************************)
EXTENDS Integers, Sequences

CONSTANTS
  Client, Server,  \* the ASDCS sessions of the node; a session is its connection id
  NoConn,          \* the connection id -1
  NumPriorities,   \* IP-QUEUE-NUM-PRIORITIES
  Tos,             \* precedences (tos >> 5) of the packets sent
  QueueSize,       \* bytes a priority queue holds, in packets of one length
  Threshold,       \* MAC-DOT11-CHANSWITCH-THRESHOLD, per cent
  MaxPending       \* bound: zero-delay messages under way

Session == Client \cup Server

TriggerAssumption ==
  /\ NoConn \notin Session
  /\ Client \cap Server = {}
  /\ NumPriorities \in Nat \ {0}
  /\ Tos \subseteq Nat
  /\ QueueSize \in Nat \ {0}
  /\ MaxPending \in Nat

VARIABLES
  queue,    \* [Priority -> packets waiting]
  awake,    \* the MAC holds a packet or is about to fetch one
  app,      \* [Session -> opened, state, initBackoff]
  conn,     \* dot11->connectionId
  pending,  \* the zero-delay messages of the node, in the order they were sent
  crashed   \* a handler dereferenced the null pointer its lookup returned

vars == <<queue, awake, app, conn, pending, crashed>>

Priority == 0 .. NumPriorities - 1

\* live says, of a management timer, that its sequence number is the newest.
Message == [type : {"InitiateScan", "AddrRequest", "Timer", "AddrReply"},
            id : Session \cup {NoConn}, live : BOOLEAN]
Msg(type, id) == [type |-> type, id |-> id, live |-> TRUE]

AppData == [opened : BOOLEAN, state : {"IDLE", "PROBE_INIT", "ROUND"}, initBackoff : BOOLEAN]

Init ==
  /\ queue = [p \in Priority |-> 0]
  /\ awake = FALSE
  /\ app = [s \in Session |-> [opened |-> FALSE, state |-> "IDLE", initBackoff |-> FALSE]]
  /\ conn = NoConn
  /\ pending = <<>>
  /\ crashed = FALSE

\* Events of the same instant, packets and timers too, may come between the
\* sending of a zero-delay message and its handling.
Running == ~crashed
Room(n) == Len(pending) + n <= MaxPending
Consume(ms) == pending' = Tail(pending) \o ms
Nxt(type) == pending # <<>> /\ Head(pending).type = type /\ Running

-----------------------------------------------------------------------------
(* The queue *)

Empty(q) == \A p \in Priority : q[p] = 0

\* GenericPacketClassifier: the queues are 0 .. NumPriorities - 1.
GenericPacketClassifier(tos) == IF tos < NumPriorities THEN tos ELSE NumPriorities - 1

\* bytesInQueue(0) is read before the insertion, whatever the packet's priority.
Filled == 100 * queue[0] > Threshold * QueueSize

ScanRequest == IF Filled THEN <<Msg("InitiateScan", conn)>> ELSE <<>>

\* The MAC is told when a packet comes to a queue that was empty.
Wakes(q) == Empty(queue) /\ ~Empty(q)

\* The queues with a packet inserted at p, or dropped because p is full.
Inserted(p) == IF queue[p] < QueueSize THEN [queue EXCEPT ![p] = @ + 1] ELSE queue

\* QueueUpIpFragmentForMacLayer; packets of the same instant may trigger again
\* before the first request is handled.
QueueUpIpFragment(tos) ==
  LET q == Inserted(GenericPacketClassifier(tos)) IN
  /\ Running /\ Room(1)
  /\ queue' = q
  /\ awake' = (awake \/ Wakes(q))
  /\ pending' = pending \o ScanRequest
  /\ UNCHANGED <<app, conn, crashed>>

\* The address of the next hop is not known: ARP keeps the packet.
Unresolved ==
  /\ Running /\ Room(1) /\ Filled
  /\ pending' = pending \o ScanRequest
  /\ UNCHANGED <<queue, awake, app, conn, crashed>>

\* The MAC is done with a packet and fetches the next, the highest priority first.
MacFetches ==
  /\ Running /\ awake
  /\ \/ /\ Empty(queue)
        /\ awake' = FALSE
        /\ UNCHANGED queue
     \/ \E p \in Priority :
          /\ queue[p] > 0
          /\ \A h \in Priority : h > p => queue[h] = 0
          /\ queue' = [queue EXCEPT ![p] = @ - 1]
          /\ UNCHANGED awake
  /\ UNCHANGED <<app, conn, pending, crashed>>

-----------------------------------------------------------------------------
(* The applications *)

StartProbeInit(c) ==
  app' = [app EXCEPT ![c] = [opened |-> TRUE, state |-> "PROBE_INIT", initBackoff |-> TRUE]]

\* MSG_APP_FromTransOpenResult at a client.  The connections of two sessions may
\* open in the same instant.
OpenResult(c) ==
  /\ Running /\ Room(1) /\ ~app[c].opened
  /\ StartProbeInit(c)
  /\ pending' = Append(pending, Msg("AddrRequest", c))
  /\ UNCHANGED <<queue, awake, conn, crashed>>

\* The clients the lookup by connection id can return: an unopened client has id -1.
Found(id) ==
  IF id = NoConn THEN {c \in Client : ~app[c].opened}
  ELSE {c \in Client : app[c].opened /\ c = id}

Idle(c) == app[c].state = "IDLE" /\ ~app[c].initBackoff /\ app[c].opened

\* MSG_APP_InitiateChannelScanRequest
InitiateChannelScan ==
  LET found == Found(Head(pending).id) IN
  /\ Nxt("InitiateScan")
  /\ \/ /\ found = {}
        /\ crashed' = TRUE
        /\ UNCHANGED <<app, pending>>
     \/ \E c \in found :
          /\ Idle(c)
          /\ StartProbeInit(c)
          /\ Consume(<<Msg("AddrRequest", c)>>)
          /\ UNCHANGED crashed
     \/ \E c \in found :
          /\ ~Idle(c)
          /\ Consume(<<>>)
          /\ UNCHANGED <<app, crashed>>
  /\ UNCHANGED <<queue, awake, conn>>

\* MSG_APP_FromMac_MACAddressRequest: the client probes, the server scans.
AddressReply ==
  LET id == Head(pending).id IN
  /\ Nxt("AddrReply")
  /\ app' = [app EXCEPT ![id].state = "ROUND"]
  /\ Consume(<<>>)
  /\ UNCHANGED <<queue, awake, conn, crashed>>

\* The round is over, in one of the ways Asdcs models.
RoundEnds(s) ==
  /\ Running /\ app[s].state = "ROUND"
  /\ app' = [app EXCEPT ![s].state = "IDLE"]
  /\ UNCHANGED <<queue, awake, conn, pending, crashed>>

\* Mutant of ChannelSelectionTimeout: the flag stays.
ChannelSelectionTimeoutKeeps(c) ==
  /\ Running /\ app[c].initBackoff
  /\ UNCHANGED vars

\* MSG_APP_TxChannelSelectionTimeout
ChannelSelectionTimeout(c) ==
  /\ Running /\ app[c].initBackoff
  /\ app' = [app EXCEPT ![c].initBackoff = FALSE]
  /\ UNCHANGED <<queue, awake, conn, pending, crashed>>

\* MSG_APP_RxProbeAckDelay: a server session that took a probe in RX_IDLE asks the
\* MAC for its address when the delay after its acknowledgement is over.
ProbeReceived(s) ==
  /\ Running /\ Room(1) /\ app[s].state = "IDLE"
  /\ app' = [app EXCEPT ![s].opened = TRUE, ![s].state = "PROBE_INIT"]
  /\ pending' = Append(pending, Msg("AddrRequest", s))
  /\ UNCHANGED <<queue, awake, conn, crashed>>

-----------------------------------------------------------------------------
(* The MAC *)

Stale(m) == [m EXCEPT !.live = FALSE]

\* MSG_MAC_FromAppMACAddressRequest: a new timer makes the older one stale.
MACAddressRequest ==
  /\ Nxt("AddrRequest")
  /\ conn' = Head(pending).id
  /\ pending' = [i \in 1 .. Len(pending) - 1 |->
                   IF pending[i + 1].type = "Timer" THEN Stale(pending[i + 1])
                   ELSE pending[i + 1]]
                \o <<Msg("Timer", NoConn)>>
  /\ UNCHANGED <<queue, awake, app, crashed>>

\* MSG_MAC_DOT11_MACAddressRequest: only the newest timer is handled, and the
\* reply goes to dot11->connectionId.
ManagementTimer ==
  /\ Nxt("Timer")
  /\ Consume(IF Head(pending).live THEN <<Msg("AddrReply", conn)>> ELSE <<>>)
  /\ UNCHANGED <<queue, awake, app, conn, crashed>>

-----------------------------------------------------------------------------
Traffic == (\E t \in Tos : QueueUpIpFragment(t)) \/ Unresolved
Handlers ==
  InitiateChannelScan \/ AddressReply \/ MACAddressRequest \/ ManagementTimer

Next ==
  \/ Traffic
  \/ MacFetches
  \/ \E c \in Client : OpenResult(c) \/ ChannelSelectionTimeout(c)
  \/ \E s \in Server : ProbeReceived(s)
  \/ \E s \in Session : RoundEnds(s)
  \/ Handlers

Spec == Init /\ [][Next]_vars

\* Zero-delay messages and timers are events of the simulator and are handled;
\* nothing makes packets come.
FairSpec ==
  /\ Spec
  /\ WF_vars(Handlers)
  /\ \A c \in Client : WF_vars(ChannelSelectionTimeout(c))
  /\ \A s \in Session : WF_vars(RoundEnds(s))

-----------------------------------------------------------------------------
TypeOK ==
  /\ queue \in [Priority -> 0 .. QueueSize]
  /\ awake \in BOOLEAN
  /\ app \in [Session -> AppData]
  /\ conn \in Session \cup {NoConn}
  /\ \A i \in 1 .. Len(pending) : pending[i] \in Message
  /\ crashed \in BOOLEAN

\* The wake-up of the MAC is edge-triggered: a packet must never wait in a queue
\* while the MAC sleeps, since the next insertion would find the queue not empty
\* and not wake it either.
BacklogIsServed == ~Empty(queue) => awake

InFlight(s) ==
  {i \in 1 .. Len(pending) :
     \/ pending[i].type \in {"AddrRequest", "AddrReply"} /\ pending[i].id = s
     \/ pending[i].type = "Timer" /\ pending[i].live /\ conn = s}

\* A session that waits for its MAC address has its request, the timer of it or
\* the answer under way: no other event would take it on.
AskedIsAnswered == \A s \in Session : app[s].state = "PROBE_INIT" => InFlight(s) # {}

\* However many packets of one instant find the queue over the threshold, one
\* round is started: a session never has two address requests under way.
OneRequest ==
  \A s \in Session : app[s].opened =>
    \A i, j \in InFlight(s) : i = j

-----------------------------------------------------------------------------
(* What a comment or an assertion of the code says and its actions do not keep. *)

\* The lookup of the scan request finds a client, as the lookups of the sibling
\* handlers assert.
TriggerFindsClient == ~crashed

\* A packet queued while a queue of the interface holds more than the threshold
\* asks for a scan.
FullQueueTriggers ==
  [][ \A p \in Priority :
        queue'[p] > queue[p] /\ 100 * queue[p] > Threshold * QueueSize
          => Len(pending') > Len(pending) ]_vars
=============================================================================
