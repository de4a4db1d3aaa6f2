----------------------------- MODULE OutputQueues -----------------------------
(***************************************************************************)
(* What the MAC of an interface sees of the packets that wait for it: the   *)
(* ARP queue, and the priority queues behind it (network_ip.cpp), through   *)
(* the functions that look at the top packet, take one, or ask whether      *)
(* there is any (main/mac.cpp); and what comes back up: frames that were    *)
(* received, and packets that were dropped.                                 *)
(*                                                                         *)
(* ARP, LLC, MPLS and the strict-priority scheduler are external.  The      *)
(* hardware address beside the next hop is in MacSetup, the array of a      *)
(* queue in IfQueue, the wake-up of the MAC in QueueTrigger.  A frame        *)
(* arrives at a neighbour configured as this node is.                       *)
(***************************************************************************)
EXTENDS Integers, Sequences, FiniteSets, SequencesExt

CONSTANTS
  Packets,    \* [id, kind, tos, hop, dest]: kind is the ether type IP, ARP or MPLS
  Hops,       \* the next hops
  AnyIp,      \* ANY_IP, and ALL_PRIORITIES
  None,
  QueueSize,  \* packets a priority queue holds
  Configs     \* of the interface: arp, llc, defaultLlc, mpls, mac, queues, phb, diffserv

QueuesAssumption ==
  /\ \A p \in Packets : p.kind \in {"IP", "ARP", "MPLS"} /\ p.tos \in 0 .. 255 /\ p.hop \in Hops
  /\ \A c \in Configs :
       /\ c.queues \in Nat \ {0}
       /\ c.arp => c.llc \/ c.mac = "802.3"   \* asserted by NetworkIpQueueInsert
       /\ c.mpls => c.llc

VARIABLES
  config,
  enabled,    \* of the interface, and of the neighbour
  queues,     \* of the CPU, the input and the output scheduler, by priority
  arpQueue,
  known,      \* next hops whose hardware address ARP has
  place,      \* where each packet is
  header      \* LLC headers it has
queueVars == <<config, enabled, queues, arpQueue, known, place, header>>

Schedulers == {"cpu", "input", "output"}
Priorities == 0 .. config.queues - 1
Uniform == config.llc = config.defaultLlc   \* DEFAULT_INTERFACE is asked in place of this one

-----------------------------------------------------------------------------
(* The priority of a packet, and its queue. *)

\* An entry for the code point, the best-effort one with DiffServ, or the precedence.
ReturnPriorityForPHB(tos) ==
  LET of(ds) == {x \in config.phb : x.ds = ds}
  IN  CASE of(tos \div 4) # {} -> (CHOOSE x \in of(tos \div 4) : TRUE).priority
        [] of(tos \div 4) = {} /\ config.diffserv /\ of(0) # {} -> (CHOOSE x \in of(0) : TRUE).priority
        [] OTHER -> tos \div 32

\* GenericPacketClassifier: the queues have the priorities 0, 1, ...
Classified(tos) ==
  LET priority == ReturnPriorityForPHB(tos)
  IN  IF priority < config.queues THEN priority ELSE config.queues - 1

\* What the statistics and the trace of a packet that leaves say its queue was.
GetQueuePriorityFromUserTos(tos) ==
  LET under == {i \in Priorities : i <= ReturnPriorityForPHB(tos)}
  IN  IF under = {} THEN 0 ELSE CHOOSE i \in under : \A j \in under : j <= i

\* Scheduler::retrieve: the packet at an index of one queue, or of all of them, the
\* highest priority first.
All(s) == FlattenSeq([i \in 1 .. config.queues |-> queues[s][config.queues - i]])
retrieve(s, priority, i) ==
  LET q == CASE priority = AnyIp -> All(s)
             [] priority \in Priorities -> queues[s][priority]
             [] OTHER -> <<>>
  IN  IF i < Len(q) THEN q[i + 1] ELSE None
QueueOf(s, p) == CHOOSE k \in Priorities : p \in ToSet(queues[s][k])
Without(s, p) == [queues EXCEPT ![s][QueueOf(s, p)] = Remove(@, p)]

-----------------------------------------------------------------------------
(* NetworkIpQueueInsert *)

Unresolved(s, p) == s = "output" /\ config.arp /\ p.hop \notin known
HasRoom(s, p) == Len(queues[s][Classified(p.tos)]) < QueueSize
LlcHeader(s) == IF s = "output" /\ config.llc THEN 1 ELSE 0

\* Of a packet that ARP keeps the caller is told that the queue was not full.
QueueInsert(s, p) ==
  /\ place' = [place EXCEPT ![p] =
       CASE Unresolved(s, p) -> "waits for ARP"
         [] ~Unresolved(s, p) /\ HasRoom(s, p) -> "queued"
         [] OTHER -> "refused"]
  /\ header' = [header EXCEPT ![p] = IF Unresolved(s, p) THEN @ ELSE @ + LlcHeader(s)]
  /\ queues' = IF Unresolved(s, p) \/ ~HasRoom(s, p) THEN queues
               ELSE [queues EXCEPT ![s][Classified(p.tos)] = Append(@, p)]

\* The CPU and the input queues do not ask ARP and have no frames.
CpuQueueInsert(p) == QueueInsert("cpu", p)
InputQueueInsert(p) == QueueInsert("input", p)

\* A wormhole sends nothing of its own.
OutputQueueInsert(p) ==
  IF config.mac = "WORMHOLE"
  THEN place' = [place EXCEPT ![p] = "refused"] /\ UNCHANGED <<queues, header>>
  ELSE QueueInsert("output", p)

Inserts(p) ==
  /\ place[p] = "new" /\ p.kind = "IP"
  /\ CpuQueueInsert(p) \/ InputQueueInsert(p) \/ OutputQueueInsert(p)
  /\ UNCHANGED <<config, enabled, arpQueue, known>>

-----------------------------------------------------------------------------
(* What the layers beside IP do (external). *)

\* MPLS puts a labelled packet with its own LLC header into the same queues.
MplsInserts(p) ==
  /\ place[p] = "new" /\ p.kind = "MPLS" /\ config.mpls /\ HasRoom("output", p)
  /\ queues' = [queues EXCEPT !["output"][Classified(p.tos)] = Append(@, p)]
  /\ place' = [place EXCEPT ![p] = "queued"]
  /\ header' = [header EXCEPT ![p] = 1]
  /\ UNCHANGED <<config, enabled, arpQueue, known>>

\* ARP sends a packet of its own.
ArpSends(p) ==
  /\ place[p] = "new" /\ p.kind = "ARP" /\ config.arp
  /\ arpQueue' = Append(arpQueue, p)
  /\ place' = [place EXCEPT ![p] = "in the ARP queue"]
  /\ header' = [header EXCEPT ![p] = IF config.llc THEN 1 ELSE 0]
  /\ UNCHANGED <<config, enabled, queues, known>>

\* ARP learns an address and sends what has waited for it again.
ArpResolves(h) ==
  /\ config.arp /\ h \notin known
  /\ known' = known \cup {h}
  /\ place' = [p \in Packets |-> IF place[p] = "waits for ARP" /\ p.hop = h THEN "new" ELSE place[p]]
  /\ UNCHANGED <<config, enabled, queues, arpQueue, header>>

-----------------------------------------------------------------------------
(* Looking.  A packet, and the priority that is reported with it. *)

Found(p, priority) == [packet |-> p, priority |-> priority]
Nothing == Found(None, None)
ArpTop == IF config.arp /\ arpQueue # <<>> THEN Head(arpQueue) ELSE None

\* NetworkIpQueueTopPacket: the priority is the one of the queue.
QueueTopPacket(s, i) ==
  LET p == retrieve(s, AnyIp, i) IN IF p = None THEN Nothing ELSE Found(p, QueueOf(s, p))
OutputQueueTopPacket(i) == QueueTopPacket("output", i)
OutputQueueTopPacketForAPriority(priority, i) ==
  LET p == retrieve("output", priority, i) IN IF p = None THEN Nothing ELSE Found(p, priority)

\* NetworkIpQueuePeekWithIndex, and before it the ARP queue whatever the index.
QueuePeekWithIndex(i) ==
  LET p == retrieve("output", AnyIp, i) IN IF p = None THEN Nothing ELSE Found(p, QueueOf("output", p))
MAC_OutputQueuePeekByIndex(i) == IF ArpTop # None THEN Found(ArpTop, None) ELSE QueuePeekWithIndex(i)

\* With MPLS the indices are tried until one gives a packet.  The peek overwrites the
\* priority that was asked for, and its index is used within that queue.
Indices == 0 .. Len(All("output")) - 1
FirstIndex(S) == CHOOSE i \in S : \A j \in S : i <= j
MplsTopPacket == IF Indices = {} THEN Nothing ELSE OutputQueueTopPacket(FirstIndex(Indices))
MplsTopPacketForAPriority ==
  LET hits == {i \in Indices : OutputQueueTopPacketForAPriority(QueuePeekWithIndex(i).priority, i) # Nothing}
  IN  IF hits = {} THEN Nothing
      ELSE OutputQueueTopPacketForAPriority(QueuePeekWithIndex(FirstIndex(hits)).priority, FirstIndex(hits))

MAC_OutputQueueTopPacket ==
  CASE ArpTop # None -> Found(ArpTop, None)
    [] ArpTop = None /\ config.mpls -> MplsTopPacket
    [] OTHER -> OutputQueueTopPacket(0)
MAC_OutputQueueTopPacketForAPriority(priority) ==
  CASE ArpTop # None -> Found(ArpTop, priority)
    [] ArpTop = None /\ config.mpls -> MplsTopPacketForAPriority
    [] OTHER -> OutputQueueTopPacketForAPriority(priority, 0)

\* The ARP queue counts with LLC or on 802.3; MPLS packets are in the same queues.
NetworkIpQueueIsEmpty(s) == All(s) = <<>>
MAC_OutputQueueIsEmpty ==
  /\ config.arp /\ (config.llc \/ config.mac = "802.3") => arpQueue = <<>>
  /\ NetworkIpQueueIsEmpty("output")

\* MAC_GetPacketsPriority: of a frame that the MAC has to send.
MAC_GetPacketsPriority(p) ==
  CASE header[p] = 1 /\ config.defaultLlc -> IF p.kind = "ARP" THEN 6 ELSE p.tos \div 32
    [] header[p] = 0 /\ ~config.defaultLlc /\ p.kind # "ARP" -> p.tos \div 32
    [] OTHER -> None

-----------------------------------------------------------------------------
(* Taking. *)

\* NetworkIpQueueDequeuePacket: the priority is now the precedence of the packet.
QueueDequeuePacket(s, i) ==
  LET p == retrieve(s, AnyIp, i) IN IF p = None THEN Nothing ELSE Found(p, p.tos \div 32)
OutputQueueDequeuePacket(i) == QueueDequeuePacket("output", i)

OutputQueueDequeuePacketForAPriority(priority, i) ==
  LET p == retrieve("output", priority, i) IN IF p = None THEN Nothing ELSE Found(p, priority)

MplsDequeuePacket == IF Indices = {} THEN Nothing ELSE OutputQueueDequeuePacket(FirstIndex(Indices))
MplsDequeuePacketForAPriority ==
  LET hits == {i \in Indices : OutputQueueDequeuePacketForAPriority(QueuePeekWithIndex(i).priority, i) # Nothing}
  IN  IF hits = {} THEN Nothing
      ELSE OutputQueueDequeuePacketForAPriority(QueuePeekWithIndex(FirstIndex(hits)).priority, FirstIndex(hits))

MAC_OutputQueueDequeuePacket ==
  CASE ArpTop # None -> Found(ArpTop, None)
    [] ArpTop = None /\ config.mpls -> MplsDequeuePacket
    [] OTHER -> OutputQueueDequeuePacket(0)
MAC_OutputQueueDequeuePacketForAPriority(priority) ==
  CASE ArpTop # None -> Found(ArpTop, priority)
    [] ArpTop = None /\ config.mpls -> MplsDequeuePacketForAPriority
    [] OTHER -> OutputQueueDequeuePacketForAPriority(priority, 0)

\* The form that reports the type of the packet looks at the top first, which tells it
\* the priority to ask for.
TypedDequeueForAPriority ==
  CASE ArpTop # None -> Found(ArpTop, None)
    [] ArpTop = None /\ MAC_OutputQueueTopPacket = Nothing -> Nothing
    [] ArpTop = None /\ MAC_OutputQueueTopPacket # Nothing /\ config.mpls -> MplsDequeuePacketForAPriority
    [] OTHER -> OutputQueueDequeuePacketForAPriority(MAC_OutputQueueTopPacket.priority, 0)

OutputQueueDequeuePacketWithIndex(i) == Found(retrieve("output", AnyIp, i), None)
MAC_OutputQueueDequeuePacketWithIndex(i) ==
  IF ArpTop # None THEN Found(ArpTop, None) ELSE OutputQueueDequeuePacketWithIndex(i)

\* The packet leaves the queue it is in.  The LLC header is taken off for the trace and
\* put back.
Leaves(p, to) ==
  /\ p # None
  /\ IF ArpTop = p THEN arpQueue' = Tail(arpQueue) /\ UNCHANGED queues
     ELSE queues' = Without("output", p) /\ UNCHANGED arpQueue
  /\ place' = [place EXCEPT ![p] = to]

MacTakes ==
  /\ enabled[1]
  /\ \/ Leaves(MAC_OutputQueueDequeuePacket.packet, "MAC")
     \/ \E k \in Priorities : Leaves(MAC_OutputQueueDequeuePacketForAPriority(k).packet, "MAC")
     \/ Leaves(TypedDequeueForAPriority.packet, "MAC")
     \/ \E i \in Indices : Leaves(MAC_OutputQueueDequeuePacketWithIndex(i).packet, "MAC")
  /\ UNCHANGED <<config, enabled, known, header>>

\* From the CPU and the input queue a packet crosses the backplane to an output queue.
CpuQueueDequeuePacket == QueueDequeuePacket("cpu", 0)
InputQueueDequeuePacket == QueueDequeuePacket("input", 0)
Crosses(s, p) ==
  /\ p # None
  /\ queues' = Without(s, p)
  /\ place' = [place EXCEPT ![p] = "new"]
CrossesBackplane ==
  /\ Crosses("cpu", CpuQueueDequeuePacket.packet) \/ Crosses("input", InputQueueDequeuePacket.packet)
  /\ UNCHANGED <<config, enabled, arpQueue, known, header>>

-----------------------------------------------------------------------------
(* Dropping. *)

\* MAC_NotificationOfPacketDrop: the LLC header comes off, if the default interface has
\* LLC, and its ether type says who is told; without it the version of the IP header
\* does, or what is in its place.
LlcRead(p) == config.defaultLlc /\ header[p] = 1
DropTold(p) ==
  CASE config.mac = "WORMHOLE" -> "freed"
    [] LlcRead(p) /\ p.kind = "ARP" -> "told ARP"
    [] LlcRead(p) /\ p.kind = "MPLS" /\ config.mpls -> "told MPLS"
    [] LlcRead(p) /\ p.kind = "IP" -> "told IP"
    [] header[p] = 0 /\ p.kind = "IP" -> "told IP"
    [] OTHER -> "misread"
NotificationOfPacketDrop(p) ==
  /\ place' = [place EXCEPT ![p] = DropTold(p)]
  /\ header' = [header EXCEPT ![p] = IF LlcRead(p) THEN 0 ELSE @]

\* The MAC gives up a packet it has taken.
MacDrops(p) ==
  /\ place[p] = "MAC"
  /\ NotificationOfPacketDrop(p)
  /\ UNCHANGED <<config, enabled, queues, arpQueue, known>>

\* NetworkIpOutputQueueDropPacket: a packet for an interface that is down.
DropsTop ==
  LET p == retrieve("output", AnyIp, 0)
  IN  /\ ~enabled[1] /\ p # None
      /\ queues' = Without("output", p)
      /\ NotificationOfPacketDrop(p)
      /\ UNCHANGED <<config, enabled, arpQueue, known>>

\* NetworkIpDeleteOutboundPacketsToANode: the index moves on past a packet that stays.
Matches(p, hop, dest) == hop \in {AnyIp, p.hop} /\ dest \in {AnyIp, p.dest}
Scan(q, hop, dest) ==
  FoldLeft(LAMBDA st, x :
      IF Matches(st.q[st.i + 1], hop, dest) THEN [st EXCEPT !.q = RemoveAt(@, st.i + 1)]
      ELSE [st EXCEPT !.i = @ + 1],
    [q |-> q, i |-> 0], q).q
DeleteOutboundPacketsToANode(hop, dest, back) ==
  LET left == Scan(All("output"), hop, dest)
      gone == ToSet(All("output")) \ ToSet(left)
  IN  /\ ~config.mpls /\ gone # {}
      /\ queues' = [queues EXCEPT !["output"] = [k \in Priorities |-> SelectSeq(@[k], LAMBDA p : p \notin gone)]]
      /\ place' = [p \in Packets |-> IF p \in gone THEN (IF back THEN "told routing" ELSE "freed") ELSE place[p]]
      /\ UNCHANGED <<config, enabled, arpQueue, known, header>>

-----------------------------------------------------------------------------
(* Receiving: at the neighbour. *)

\* MAC_HandOffSuccessfullyReceivedPacket; with a message type, a frame without LLC goes to
\* ARP where there is one.
HandedTo(p, typed) ==
  CASE ~enabled[2] -> "freed"
    [] enabled[2] /\ config.llc /\ p.kind = "ARP" -> "up to ARP"
    [] enabled[2] /\ config.llc /\ p.kind = "MPLS" -> IF config.mpls THEN "up to MPLS" ELSE "lost"
    [] enabled[2] /\ config.llc /\ p.kind = "IP" -> "up to IP"
    [] OTHER -> IF typed /\ config.arp THEN "up to ARP" ELSE "up to IP"
HandOff(p) ==
  /\ place[p] = "MAC"
  /\ place' = [place EXCEPT ![p] = HandedTo(p, config.mac = "802.3")]
  /\ header' = [header EXCEPT ![p] = IF enabled[2] /\ config.llc THEN @ - 1 ELSE @]
  /\ UNCHANGED <<config, enabled, queues, arpQueue, known>>

\* MAC_SneakPeekAtMacPacket: of a frame to another node.  The headers are put back,
\* except when nobody is interested.
SneakPeek(p) ==
  CASE config.llc /\ (~enabled[2] \/ config.mpls) -> [to |-> None, header |-> header[p] - 1]
    [] config.llc /\ enabled[2] /\ ~config.mpls -> [to |-> p.kind, header |-> header[p]]
    [] OTHER -> [to |-> p.kind, header |-> header[p]]

Switches(x) ==
  /\ enabled' = [enabled EXCEPT ![x] = ~@]
  /\ UNCHANGED <<config, queues, arpQueue, known, place, header>>

-----------------------------------------------------------------------------
Init ==
  /\ config \in Configs
  /\ enabled = <<TRUE, TRUE>>
  /\ queues = [s \in Schedulers |-> [k \in Priorities |-> <<>>]]
  /\ arpQueue = <<>>
  /\ known = {}
  /\ place = [p \in Packets |-> "new"]
  /\ header = [p \in Packets |-> 0]

Next ==
  \/ \E p \in Packets : Inserts(p) \/ MplsInserts(p) \/ ArpSends(p) \/ MacDrops(p) \/ HandOff(p)
  \/ \E h \in Hops : ArpResolves(h)
  \/ MacTakes \/ CrossesBackplane \/ DropsTop
  \/ \E h \in Hops \cup {AnyIp}, d \in {p.dest : p \in Packets} \cup {AnyIp}, b \in BOOLEAN :
       DeleteOutboundPacketsToANode(h, d, b)
  \/ \E x \in {1, 2} : Switches(x)

-----------------------------------------------------------------------------
(* Properties. *)

\* The MAC is told that nothing waits exactly when it would find nothing, and what it
\* is shown is what it then takes, by any of the functions.
TopIsTaken ==
  /\ MAC_OutputQueueIsEmpty <=> MAC_OutputQueueTopPacket.packet = None
  /\ MAC_OutputQueueTopPacket.packet = MAC_OutputQueueDequeuePacket.packet
  /\ MAC_OutputQueueTopPacket.packet = TypedDequeueForAPriority.packet
  /\ \A k \in Priorities :
       MAC_OutputQueueTopPacketForAPriority(k) = MAC_OutputQueueDequeuePacketForAPriority(k)
  /\ \A i \in Indices :
       MAC_OutputQueuePeekByIndex(i).packet = MAC_OutputQueueDequeuePacketWithIndex(i).packet

\* The priority reported with the top packet is one under which it is taken.
TopPriorityWorks ==
  MAC_OutputQueueTopPacket.packet # None =>
    \E k \in Priorities :
      /\ MAC_OutputQueueTopPacket.priority \in {k, None}
      /\ MAC_OutputQueueDequeuePacketForAPriority(k).packet = MAC_OutputQueueTopPacket.packet

\* A packet waits in one place only, in the queue that the statistics of its departure
\* will name, and the queues hold nothing that has gone elsewhere.
WaitsOnce ==
  /\ \A s \in Schedulers : \A k \in Priorities : \A i \in DOMAIN queues[s][k] :
       LET p == queues[s][k][i]
       IN  place[p] = "queued" /\ GetQueuePriorityFromUserTos(p.tos) = k
  /\ \A p \in Packets :
       /\ place[p] = "queued" =>
            Cardinality({<<s, k>> \in Schedulers \X Priorities : p \in ToSet(queues[s][k])}) = 1
       /\ place[p] = "in the ARP queue" <=> p \in ToSet(arpQueue)
  /\ \A s \in Schedulers : \A k \in Priorities : IsInjective(queues[s][k])

\* With LLC a frame reaches the layer its ether type names, without a header left; a
\* packet that is dropped is told to the layer it is from, if LLC runs on the default
\* interface as it does here.
ReachesItsLayer ==
  \A p \in Packets :
    /\ config.llc =>
         /\ place[p] = "up to IP" => p.kind = "IP" /\ header[p] = 0
         /\ place[p] = "up to ARP" => p.kind = "ARP" /\ header[p] = 0
         /\ place[p] = "MAC" => header[p] = 1 /\ SneakPeek(p).to \in {None, p.kind}
    /\ Uniform /\ p.kind = "IP" => place[p] # "misread"
    /\ Uniform /\ place[p] = "MAC" /\ p.kind = "IP" => MAC_GetPacketsPriority(p) = p.tos \div 32

\* Deleting the packets to a node leaves exactly the others, in their order.
DeletesExactly ==
  \A h \in Hops \cup {AnyIp}, d \in {p.dest : p \in Packets} \cup {AnyIp} :
    Scan(All("output"), h, d) = SelectSeq(All("output"), LAMBDA p : ~Matches(p, h, d))

QueuesSound == TopIsTaken /\ TopPriorityWorks /\ WaitsOnce /\ ReachesItsLayer /\ DeletesExactly
=============================================================================
