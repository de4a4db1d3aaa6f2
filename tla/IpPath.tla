------------------------------- MODULE IpPath -------------------------------
(***************************************************************************)
(* The path of packets through the IP layers of a network                  *)
(* (network_ip.cpp): a packet is originated, routed, crosses the backplane *)
(* of the node, is carried to its next hop, and is delivered or forwarded; *)
(* multicast groups are joined and left, multicast rows are written.       *)
(*                                                                         *)
(* Addresses are the interfaces themselves.  The next hops do not change   *)
(* while packets travel and may contain loops (ForwardingTable has the     *)
(* table), fragments are in IpFragment, the output queue is in IfQueue:    *)
(* here the queue and the MAC carry each frame to each receiver in any     *)
(* order, or lose it.                                                      *)
(***************************************************************************)
EXTENDS Integers, Sequences, FiniteSets, Bags, SequencesExt

CONSTANTS
    Nodes,
    Nics,          \* interfaces, and their addresses
    Owner,         \* node of each interface
    Subnets,       \* subnets, and their broadcast addresses
    SubnetOf,      \* subnet of each interface
    Groups,        \* multicast addresses
    AnyDest,       \* ANY_DEST
    Cpu,           \* CPU_INTERFACE
    None,          \* no next hop, or no event
    Routers,       \* nodes with IP-FORWARDING
    Routes,        \* possible next hops of all nodes
    Central,       \* ROUTER-BACKPLANE-TYPE CENTRAL
    Unlimited,     \* ROUTER-BACKPLANE-THROUGHPUT UNLIMITED
    QueueSize,     \* packets of an input or CPU queue
    Lossy,         \* whether frames are lost
    Ttl,           \* time to live of a new packet
    Sends,         \* packets to originate: source, destination, source route
    Apps,          \* applications that join and leave
    AppNode, AppGroup,
    MaxUpdates     \* bound: changes of multicast rows

PathAssumption ==
    /\ Owner \in [Nics -> Nodes] /\ SubnetOf \in [Nics -> Subnets]
    /\ Routers \subseteq Nodes
    /\ Routes \subseteq [Nodes \X (Nics \cup Subnets) -> (Nics \X Nics) \cup {None}]
    /\ {Central, Unlimited, Lossy} \subseteq BOOLEAN
    /\ {QueueSize, Ttl} \subseteq Nat \ {0} /\ MaxUpdates \in Nat
    /\ \A s \in Sends : /\ s.src \in Nics /\ s.path \in Seq(Nics)
                        /\ s.dst \in Nics \cup Subnets \cup Groups \cup {AnyDest}
                        /\ s.path # <<>> => Last(s.path) = s.dst
    /\ LET kinds == <<Nodes, Nics, Subnets, Groups, {AnyDest}, {Cpu}>>
       IN  \A i, j \in 1 .. 6 : i # j => kinds[i] \cap kinds[j] = {}
    /\ None \notin [in : Nics \cup {Cpu}, hop : Nics \cup {AnyDest}]
    /\ IsFiniteSet(Nics) /\ IsFiniteSet(Apps)
    /\ AppNode \in [Apps -> Nodes] /\ AppGroup \in [Apps -> Groups]

VARIABLES
    route,        \* next hop of each node for each destination
    multicast,    \* multicastForwardingTable: [node, src, dst, out]
    updates,
    member,       \* memberCount of each node and group
    app,          \* what the timers of each application have done
    unsent,       \* of Sends
    backplane,    \* packets in each CPU and input queue
    busy,         \* backplaneStatus of each is BUSY
    event,        \* MSG_NETWORK_Backplane under way, NetworkIpBackplaneInfo
    air,          \* bag of frames that output queues and MACs carry
    delivered     \* (packet, node, hop it came over) given to the layer above

tables == <<route, multicast, updates, member, app>>
flow == <<backplane, busy, event, air, delivered>>
vars == <<tables, unsent, flow>>

NicsOf(n) == {i \in Nics : Owner[i] = n}
Peers(i) == {j \in Nics : SubnetOf[j] = SubnetOf[i] /\ j # i}
QueueIds == Nodes \cup Nics

-----------------------------------------------------------------------------
(* The backplane.  The operators take and return the state of the flow.    *)

\* The queue a packet goes through, and whose status it waits for.
QueueFor(n, in) == IF in = Cpu \/ Central THEN n ELSE in

\* DeliverPacket
DeliverPacket(s, n, pkt, hop) ==
    [s EXCEPT !.delivered = @ \cup {[id |-> pkt.id, at |-> n, hop |-> hop]}]

\* QueueUpIpFragmentForMacLayer: to one neighbour, or to all on the subnet.
QueueUp(s, pkt, out, hop) ==
    LET to == IF hop = AnyDest THEN Peers(out) ELSE Peers(out) \cap {hop}
    IN  [s EXCEPT !.air = @ (+) SetToBag({[pkt |-> pkt, from |-> out, to |-> j] : j \in to})]

\* NetworkIpUseBackplaneIfPossible
UseBackplaneIfPossible(s, n, in) ==
    LET q == QueueFor(n, in) IN
    IF s.busy[q] \/ s.backplane[q] = <<>> THEN s
    ELSE [s EXCEPT !.busy[q] = TRUE,
                   !.event[q] = [in |-> in, hop |-> Head(s.backplane[q]).hop]]

\* NetworkIpSendOnBackplane
SendOnBackplane(s, n, pkt, in, out, hop) ==
    LET q == QueueFor(n, in)
        entry == [pkt |-> pkt, in |-> in, out |-> out, hop |-> hop]
    IN  IF Unlimited
        THEN IF out = Cpu THEN DeliverPacket(s, n, pkt, hop) ELSE QueueUp(s, pkt, out, hop)
        ELSE IF Len(s.backplane[q]) = QueueSize THEN s
        ELSE UseBackplaneIfPossible([s EXCEPT !.backplane[q] = Append(@, entry)], n, in)

-----------------------------------------------------------------------------
(* Routing.                                                                *)

IsPartOfMulticastGroup(n, g) == g \in Groups /\ member[n][g] > 0

IsMyPacket(n, dst) ==
    \/ dst = AnyDest
    \/ IsPartOfMulticastGroup(n, dst)
    \/ \E i \in NicsOf(n) : dst \in {i, SubnetOf[i]}

\* RouteThePacketUsingMulticastForwardingTable: to every interface of the row,
\* the one the packet came from included.
RouteByMulticastTable(s, n, pkt, in) ==
    LET outs == {r.out : r \in {m \in multicast :
                    m.node = n /\ m.src = pkt.src /\ m.dst = pkt.dst}}
        sent[os \in SUBSET outs] ==
            IF os = {} THEN s
            ELSE LET out == CHOOSE out \in os : TRUE
                 IN  SendOnBackplane(sent[os \ {out}], n, pkt, in, out, AnyDest)
    IN  sent[outs]

\* SourceRouteThePacket: the next address of the option; as if sent by the CPU.
SourceRoute(s, n, pkt) ==
    LET next == Head(pkt.path) IN
    IF \E i \in NicsOf(n) : SubnetOf[i] = SubnetOf[next]
    THEN LET out == CHOOSE i \in NicsOf(n) : SubnetOf[i] = SubnetOf[next]
         IN  SendOnBackplane(s, n, [pkt EXCEPT !.path = Tail(@)], Cpu, out, next)
    ELSE s

\* RoutePacketAndSendToMac
RoutePacketAndSendToMac(s, n, pkt, in, out) ==
    CASE pkt.dst = AnyDest -> SendOnBackplane(s, n, pkt, in, out, AnyDest)
      [] \E i \in NicsOf(n) : SubnetOf[i] = pkt.dst ->
            LET i == CHOOSE i \in NicsOf(n) : SubnetOf[i] = pkt.dst
            IN  SendOnBackplane(s, n, pkt, in, i, AnyDest)
      [] pkt.dst \in Groups -> RouteByMulticastTable(s, n, pkt, in)
      [] pkt.path # <<>> -> SourceRoute(s, n, pkt)
      [] OTHER ->
            IF route[n, pkt.dst] = None THEN s
            ELSE SendOnBackplane(s, n, pkt, in, route[n, pkt.dst][1], route[n, pkt.dst][2])

\* Mutant of ForwardPacket: the TTL is checked one hop too early.
ForwardShort(s, n, pkt, in) ==
    IF n \notin Routers \/ pkt.ttl <= 2 \/ (pkt.dst \in Groups /\ pkt.src = in) THEN s
    ELSE RoutePacketAndSendToMac(s, n, [pkt EXCEPT !.ttl = @ - 1], in, None)

\* ForwardPacket, and what it drops
ForwardPacket(s, n, pkt, in) ==
    IF n \notin Routers \/ pkt.ttl <= 1 \/ (pkt.dst \in Groups /\ pkt.src = in) THEN s
    ELSE RoutePacketAndSendToMac(s, n, [pkt EXCEPT !.ttl = @ - 1], in, None)

\* Mutant of ReceivePacket: what is for the node itself is forwarded as well.
ReceiveDoubled(s, n, pkt, prev, in) ==
    IF ~IsMyPacket(n, pkt.dst) THEN ForwardPacket(s, n, pkt, in)
    ELSE LET t == SendOnBackplane(s, n, pkt, in, Cpu, prev)
         IN  IF pkt.dst # AnyDest THEN ForwardPacket(t, n, pkt, in) ELSE t

\* NetworkIpReceivePacket
ReceivePacket(s, n, pkt, prev, in) ==
    IF ~IsMyPacket(n, pkt.dst) THEN ForwardPacket(s, n, pkt, in)
    ELSE LET t == SendOnBackplane(s, n, pkt, in, Cpu, prev)
         IN  IF pkt.dst \in Groups THEN ForwardPacket(t, n, pkt, in) ELSE t

-----------------------------------------------------------------------------
Flow == [backplane |-> backplane, busy |-> busy, event |-> event, air |-> air,
         delivered |-> delivered]
FlowBecomes(s) ==
    /\ backplane' = s.backplane /\ busy' = s.busy /\ event' = s.event
    /\ air' = s.air /\ delivered' = s.delivered

\* NetworkIpSendRawMessage, from a transport or a routing protocol.
SendRawMessage(send) ==
    /\ send \in unsent
    /\ unsent' = unsent \ {send}
    /\ LET pkt == [id |-> send, src |-> send.src, dst |-> send.dst,
                   path |-> send.path, ttl |-> Ttl]
       IN  FlowBecomes(RoutePacketAndSendToMac(Flow, Owner[send.src], pkt, Cpu, send.src))
    /\ UNCHANGED tables

\* A frame reaches one of its receivers.
Receive(f) ==
    /\ BagIn(f, air)
    /\ FlowBecomes(ReceivePacket([Flow EXCEPT !.air = @ (-) SetToBag({f})],
                                 Owner[f.to], f.pkt, f.from, f.to))
    /\ UNCHANGED <<tables, unsent>>

\* The MAC gives it up, or it is dropped from the output queue.
Lose(f) ==
    /\ Lossy
    /\ BagIn(f, air)
    /\ air' = air (-) SetToBag({f})
    /\ UNCHANGED <<tables, unsent, backplane, busy, event, delivered>>

NodeOf(q) == IF q \in Nodes THEN q ELSE Owner[q]

\* Mutant of ReceiveFromBackplane: the next packet is not started.
BackplaneStops(q) ==
    /\ event[q] # None
    /\ LET e == Head(backplane[q])
           s == [Flow EXCEPT !.backplane[q] = Tail(@), !.busy[q] = FALSE, !.event[q] = None]
           t == IF e.out = Cpu THEN DeliverPacket(s, NodeOf(q), e.pkt, event[q].hop)
                ELSE QueueUp(s, e.pkt, e.out, event[q].hop)
       IN  FlowBecomes(t)
    /\ UNCHANGED <<tables, unsent>>

\* NetworkIpReceiveFromBackplane
ReceiveFromBackplane(q) ==
    /\ event[q] # None
    /\ LET e == Head(backplane[q])
           s == [Flow EXCEPT !.backplane[q] = Tail(@), !.busy[q] = FALSE, !.event[q] = None]
           t == IF e.out = Cpu THEN DeliverPacket(s, NodeOf(q), e.pkt, event[q].hop)
                ELSE QueueUp(s, e.pkt, e.out, event[q].hop)
       IN  FlowBecomes(UseBackplaneIfPossible(t, NodeOf(q), event[q].in))
    /\ UNCHANGED <<tables, unsent>>

-----------------------------------------------------------------------------
(* Multicast groups and rows.                                              *)

\* MSG_NETWORK_JoinGroup, NetworkIpAddToMulticastGroupList
AddToMulticastGroupList(a) ==
    /\ app[a] = "out"
    /\ app' = [app EXCEPT ![a] = "joined"]
    /\ member' = [member EXCEPT ![AppNode[a]][AppGroup[a]] = @ + 1]
    /\ UNCHANGED <<route, multicast, updates, unsent, flow>>

\* MSG_NETWORK_LeaveGroup, NetworkIpRemoveFromMulticastGroupList
RemoveFromMulticastGroupList(a) ==
    /\ app[a] = "joined"
    /\ app' = [app EXCEPT ![a] = "left"]
    /\ member' = [member EXCEPT ![AppNode[a]][AppGroup[a]] = IF @ > 0 THEN @ - 1 ELSE 0]
    /\ UNCHANGED <<route, multicast, updates, unsent, flow>>

\* NetworkUpdateMulticastForwardingTable
UpdateMulticastForwardingTable ==
    /\ updates < MaxUpdates /\ updates' = updates + 1
    /\ \E send \in Sends, i \in Nics :
        /\ send.dst \in Groups
        /\ multicast' = multicast \cup
            {[node |-> Owner[i], src |-> send.src, dst |-> send.dst, out |-> i]}
    /\ UNCHANGED <<route, member, app, unsent, flow>>

\* NetworkEmptyMulticastForwardingTable
EmptyMulticastForwardingTable ==
    /\ updates < MaxUpdates /\ updates' = updates + 1
    /\ \E n \in Nodes : multicast' = {m \in multicast : m.node # n}
    /\ UNCHANGED <<route, member, app, unsent, flow>>

Finished ==
    /\ unsent = {} /\ air = EmptyBag /\ \A q \in QueueIds : event[q] = None
    /\ UNCHANGED vars

Init ==
    /\ route \in Routes
    /\ multicast = {} /\ updates = 0
    /\ member = [n \in Nodes |-> [g \in Groups |-> 0]]
    /\ app = [a \in Apps |-> "out"]
    /\ unsent = Sends
    /\ backplane = [q \in QueueIds |-> <<>>]
    /\ busy = [q \in QueueIds |-> FALSE]
    /\ event = [q \in QueueIds |-> None]
    /\ air = EmptyBag /\ delivered = {}

Groupwise ==
    \/ \E a \in Apps : AddToMulticastGroupList(a) \/ RemoveFromMulticastGroupList(a)
    \/ UpdateMulticastForwardingTable
    \/ EmptyMulticastForwardingTable

Carry == \E f \in BagToSet(air) : Receive(f) \/ Lose(f)

Next ==
    \/ \E send \in Sends : SendRawMessage(send)
    \/ \E q \in QueueIds : ReceiveFromBackplane(q)
    \/ Carry
    \/ Groupwise
    \/ Finished

Spec == Init /\ [][Next]_vars

\* Events of the simulator are due: backplanes finish, frames arrive or are lost.
FairSpec == Spec /\ WF_vars(Carry) /\ \A q \in QueueIds : WF_vars(ReceiveFromBackplane(q))

-----------------------------------------------------------------------------
\* Parts of the state have the values the operations give them.
TypeOK ==
    /\ member \in [Nodes -> [Groups -> Nat]]
    /\ busy \in [QueueIds -> BOOLEAN]
    /\ \A q \in QueueIds : Len(backplane[q]) <= QueueSize
    /\ \A f \in BagToSet(air) : f.pkt.ttl \in 1 .. Ttl /\ f.to \in Peers(f.from)

\* A packet in a queue is always on its way (no wakeup of
\* NetworkIpUseBackplaneIfPossible is missed), and the event that takes it out
\* finds it, with the status BUSY the code asserts.
BackplaneMoves == \A q \in QueueIds :
    (backplane[q] # <<>>) = (event[q] # None) /\ (event[q] # None) = busy[q]

\* The hop address of the event, read when the packet was on top of the queue,
\* is still that of the packet that is dequeued when the event fires.
HopOfPacket == \A q \in QueueIds :
    event[q] # None => event[q].hop = Head(backplane[q]).hop

\* The copies of a packet in the network.
InQueues(id) == {x \in QueueIds \X (1 .. QueueSize) :
    x[2] <= Len(backplane[x[1]]) /\ backplane[x[1]][x[2]].pkt.id = id}
InAir(id) == UNION {{f} \X (1 .. air[f]) : f \in {f \in BagToSet(air) : f.pkt.id = id}}
Deliveries(id) == {d \in delivered : d.id = id}

\* A unicast packet is never doubled, whatever the routes: it is in one queue,
\* or one frame, or delivered at its destination, and nowhere else.
UnicastOnce == \A send \in Sends : send.dst \in Nics =>
    /\ Cardinality(InQueues(send)) + Cardinality(InAir(send)) + Cardinality(Deliveries(send)) <= 1
    /\ \A d \in Deliveries(send) : d.at = Owner[send.dst]

\* The nodes a packet is for: of a directed broadcast a router to the subnet.
For(send) ==
    CASE send.dst \in Nics -> {{Owner[send.dst]}}
      [] send.dst \in Subnets -> {{Owner[i]} : i \in {j \in Nics : SubnetOf[j] = send.dst}}
      [] OTHER -> {{Owner[i] : i \in Peers(send.src)}}

\* Over routes that lead to it, with a TTL of just the number of hops, with no
\* frame lost and no queue full, every packet reaches the nodes it is for.
Arrived(send) == \E ns \in For(send) : ns \subseteq {d.at : d \in Deliveries(send)}

\* A node counts the applications that have joined a group and not left it.
MemberCount == \A n \in Nodes, g \in Groups :
    member[n][g] = Cardinality({a \in Apps :
        AppNode[a] = n /\ AppGroup[a] = g /\ app[a] = "joined"})

-----------------------------------------------------------------------------
(* What a comment or an assertion of the code says and its actions do not keep. *)

\* So is the interface the packet came in by, which the traffic conditioner of
\* an edge router gets.
IncomingOfPacket == \A q \in QueueIds :
    event[q] # None => event[q].in = Head(backplane[q]).in

\* "Self originating packet should not be forwarded": a node does not put its
\* own multicast packet on the air again when it comes back.
OwnNotForwarded == \A f \in BagToSet(air) :
    f.pkt.dst \in Groups /\ Owner[f.from] = Owner[f.pkt.src] => f.pkt.ttl = Ttl
=============================================================================
