------------------------------ MODULE IpProtocols ------------------------------
(***************************************************************************)
(* The protocols of the network layer of one node (network_ip.cpp): what   *)
(* the configuration asks of the node and of its interfaces, the instances *)
(* that are created and shared, the tables that give them events and       *)
(* packets, the order in which they are asked to route a packet, and their *)
(* end.                                                                    *)
(*                                                                         *)
(* The protocols themselves are external: the initialisation of one leaves *)
(* an instance and a router function at its interface, and a router        *)
(* function routes a packet or leaves it to the next stage.  IpPath has    *)
(* the packets, AppLayer the routing protocols of the application layer.   *)
(***************************************************************************)
EXTENDS Integers, Sequences, FiniteSets, FiniteSetsExt

CONSTANTS
    Libraries,    \* the simulator is built with
    Interfaces,   \* 0, 1, ...
    Nodes,        \* configurations of a node
    Sent,         \* packets to route: [from, out, dest, mine, route, control, qos, big]
    None

IpAssumption == Interfaces # {} /\ Interfaces \subseteq Nat

VARIABLES
    phase,        \* "start", "parse", "eplrs", "routing", "services", "run", "end"; "stopped" by an error
    node,         \* its configuration
    at,           \* interface parsed or initialised next
    unicast,      \* routingProtocolType of each interface
    multicast,    \* multicastProtocolType
    routing,      \* routingProtocol: the interface whose instance it is
    groupRouting, \* multicastRoutingProtocol
    settings,     \* backplane, IP-FORWARDING, ...: None while they are not read
    begun,        \* <<protocol, interface>> initialised, interface -1 for the node
    igmpTold,     \* interfaces whose multicast protocol IGMP was told of
    last,         \* an event or packet and who was given it, at which interface.  They change
                  \* nothing else: the bound is one of them
    ended         \* <<protocol, interface>> finalised

ipVars == <<phase, node, at, unicast, multicast, routing, groupRouting, settings, begun, igmpTold, last, ended>>
tables == <<unicast, multicast, routing, groupRouting, igmpTold>>

Has(library) == library \in Libraries \cup {""}
V4(i) == node.version[i] \in {"v4", "dual"}
WholeNode == -1
Cpu == -1           \* CPU_INTERFACE

-----------------------------------------------------------------------------
(* The words of the configuration. *)

\* ROUTING-PROTOCOL: words with the library that knows them.
WirelessWords ==
    {"LAR1", "AODV", "DYMO", "DSR", "FSRL", "STAR", "IARP", "ZRP", "IERP"} \X {"WIRELESS"}
EnterpriseWords == {"OSPFv2", "IGRP", "EIGRP"} \X {"ENTERPRISE"}
OtherWords ==
    ({"ODR", "SDR"} \X {"MILITARY"}) \cup {<<"ANODR", "NETSEC">>}
    \cup ({"FISHEYE", "OLSR-INRIA", "OLSRv2-NIIGATA"} \X {"WIRELESS"})
    \cup ({"BELLMANFORD", "RIP", "NONE"} \X {""})
UnicastWords == WirelessWords \cup EnterpriseWords \cup OtherWords

\* MULTICAST-PROTOCOL.
MulticastWords ==
    ({"DVMRP", "MOSPF", "PIM"} \X {"ENTERPRISE"})
    \cup {<<"ODMRP", "WIRELESS">>, <<"MAODV", "MAODV">>, <<"NONE", "">>}

Known(words, word) == \E w \in words : w[1] = word
Missing(words, word) == \E w \in words : w[1] = word /\ ~Has(w[2])

\* A word that nothing knows leaves the default, Bellman-Ford, with a warning.
UnicastOf(word) == IF Known(UnicastWords, word) THEN word ELSE "BELLMANFORD"

\* MOSPF needs OSPFv2 and starts it where there is no unicast protocol.
ParseFails(word, group) ==
    \/ Missing(UnicastWords, word)
    \/ group # None /\ (Missing(MulticastWords, group) \/ ~Known(MulticastWords, group))
    \/ group = "MOSPF" /\ UnicastOf(word) \notin {"NONE", "OSPFv2"}

-----------------------------------------------------------------------------
(* Initialisation. *)

Stop ==
    /\ phase' = "stopped"
    /\ UNCHANGED <<node, at, tables, settings, begun, last, ended>>

\* ROUTER-BACKPLANE-TYPE is compared even when it is absent: with whatever the array holds.
BackplaneTypes == IF node.type = None THEN {"CENTRAL", "DISTRIBUTED", "word"} ELSE {node.type}
Limited == node.throughput \notin {None, 0}
Share == node.throughput \div (Cardinality(Interfaces) + 1)

\* Errors of NetworkIpInit before the routing protocols are read.
InitFails ==
    \/ Limited /\ node.throughput < 0
    \/ "word" \in {node.forwarding, node.ipsec}
    \/ Has("NETSEC") /\ \E i \in Interfaces : node.isakmp[i] = "word"
    \/ Has("ENTERPRISE") /\ \E i \in Interfaces : node.mpls[i] = "word"
    \/ node.unit # None /\ node.unit \notin 64..65535

Settings(type) ==
    [capacity |-> CASE ~Limited -> None
                    [] Limited /\ type = "CENTRAL" -> node.throughput
                    [] OTHER -> Share,
     type |-> IF Limited /\ type = "CENTRAL" THEN "CENTRAL" ELSE "DISTRIBUTED",
     unit |-> node.unit,
     forwarding |-> node.forwarding # "NO",
     gateway |-> node.gateway]

\* Key exchange and MPLS of each interface.
InterfaceServices ==
    {<<"ISAKMP", i>> : i \in {j \in Interfaces : Has("NETSEC") /\ node.isakmp[j] = "YES"}}
    \cup {<<"MPLS", i>> : i \in {j \in Interfaces : Has("ENTERPRISE") /\ node.mpls[j] = "YES"}}

NetworkIpInit ==
    /\ phase = "start"
    /\ \E type \in BackplaneTypes :
         IF InitFails \/ (Limited /\ type = "word") THEN Stop
         ELSE /\ settings' = Settings(type)
              /\ begun' = InterfaceServices \cup (IF node.ipsec = "YES" THEN {<<"IPSEC", WholeNode>>} ELSE {})
              /\ phase' = "parse"
              /\ UNCHANGED <<node, at, tables, last, ended>>

\* The first interface that is left, or the next phase.
Advance(next) ==
    IF at = Max(Interfaces) THEN phase' = next /\ at' = Min(Interfaces)
    ELSE at' = at + 1 /\ UNCHANGED phase

\* NetworkIpParseAndSetRoutingProtocolType for one interface; EPLRS follows the last.
ParseProtocols ==
    /\ phase = "parse"
    /\ LET word == IF node.unicast[at] = None THEN "BELLMANFORD" ELSE node.unicast[at]
           group == node.multicast[at]
       IN  IF V4(at) /\ ParseFails(word, group) THEN Stop
           ELSE /\ IF V4(at) THEN
                     /\ unicast' = [unicast EXCEPT ![at] = IF group = "MOSPF" THEN "OSPFv2" ELSE UnicastOf(word)]
                     /\ multicast' = [multicast EXCEPT ![at] = IF group = None THEN @ ELSE group]
                     /\ begun' = begun \cup (IF node.group[at] = "IGMP" THEN {<<"IGMP", WholeNode>>} ELSE {})
                   ELSE UNCHANGED <<unicast, multicast, begun>>
                /\ Advance("eplrs")
                /\ UNCHANGED <<node, routing, groupRouting, settings, igmpTold, last, ended>>

EplrsInit ==
    /\ phase = "eplrs"
    /\ begun' = begun \cup {<<"EPLRS", i>> : i \in {j \in Interfaces : Has("MILITARY") /\ node.inc[j] = "EPLRS"}}
    /\ phase' = "routing"
    /\ UNCHANGED <<node, at, tables, settings, last, ended>>

\* Protocols that IpRoutingInit starts; those of the application layer are left to it.
AdHocInits == {"LAR1", "AODV", "DYMO", "DSR", "FSRL", "STAR"} \X {"WIRELESS"}
ZoneInits == {"IARP", "ZRP", "IERP"} \X {"WIRELESS"}
EnterpriseInits == {"OSPFv2", "IGRP", "EIGRP"} \X {"ENTERPRISE"}
OtherInits == ({"ODR", "SDR"} \X {"MILITARY"}) \cup {<<"ANODR", "NETSEC">>}
UnicastInits == AdHocInits \cup ZoneInits \cup EnterpriseInits \cup OtherInits
\* Those that IGMP tells of members, and others.
MemberProtocols == {"DVMRP", "MOSPF", "PIM"}
GroupInits == MemberProtocols \X {"ENTERPRISE"}
MeshInits == {<<"ODMRP", "WIRELESS">>, <<"MAODV", "MAODV">>}
MulticastInits == GroupInits \cup MeshInits
Case(cases, type) == \E c \in cases : c[1] = type /\ Has(c[2])

\* NetworkIpGetRoutingProtocol: what the first interface with that type has.
RoutingOf(type) == routing[Min({i \in Interfaces : V4(i) /\ unicast[i] = type})]
MulticastRoutingOf(type) == groupRouting[Min({i \in Interfaces : multicast[i] = type})]

\* NetworkIpUpdateUnicastRoutingProtocolAndRouterFunction copies the first one's.
InitUnicast(i) ==
    IF ~Case(UnicastInits, unicast[i]) THEN routing
    ELSE [routing EXCEPT ![i] = IF RoutingOf(unicast[i]) = None THEN i ELSE RoutingOf(unicast[i])]

InitMulticast(i) ==
    IF ~Case(MulticastInits, multicast[i]) THEN groupRouting
    ELSE [groupRouting EXCEPT ![i] =
            IF MulticastRoutingOf(multicast[i]) = None THEN i ELSE MulticastRoutingOf(multicast[i])]

IpRoutingInit ==
    /\ phase = "routing"
    /\ IF V4(at) THEN
         /\ routing' = InitUnicast(at)
         /\ groupRouting' = InitMulticast(at)
         /\ begun' = begun \cup (IF routing'[at] = at THEN {<<unicast[at], at>>} ELSE {})
                           \cup (IF groupRouting'[at] = at THEN {<<multicast[at], at>>} ELSE {})
         /\ igmpTold' = IF <<"IGMP", WholeNode>> \in begun /\ groupRouting'[at] # None
                            /\ multicast[at] \in MemberProtocols
                        THEN igmpTold \cup {at} ELSE igmpTold
       ELSE UNCHANGED <<routing, groupRouting, begun, igmpTold>>
    /\ Advance("services")
    /\ UNCHANGED <<node, unicast, multicast, settings, last, ended>>

\* The rest of IpRoutingInit: what the node has once.
InitServices ==
    /\ phase = "services"
    /\ IF Has("ENTERPRISE") /\ node.edge = "word" THEN Stop
       ELSE /\ begun' = begun \cup
                 {<<s, WholeNode>> : s \in
                    {x \in {"ICMP", "STATIC", "MOBILE_IP", "EDGE", "NEIGHBOR"} :
                       \/ x = "ICMP" /\ node.icmp = "YES"
                       \/ x = "STATIC" /\ node.static = "YES"
                       \/ x = "MOBILE_IP" /\ Has("ENTERPRISE") /\ node.mobile
                       \/ x = "EDGE" /\ Has("ENTERPRISE") /\ node.edge = "YES"
                       \/ x = "NEIGHBOR" /\ Has("NETSEC") /\ node.neighbor}}
            /\ phase' = "run"
            /\ UNCHANGED <<node, at, tables, settings, last, ended>>


-----------------------------------------------------------------------------
(* Events and packets: each has a table of its own. *)

Begun(protocol) == \E b \in begun : b[1] = protocol

CommonEvents ==
    {<<"IGMP", "">>, <<"ICMP", "">>, <<"AODV", "WIRELESS">>, <<"DYMO", "WIRELESS">>, <<"DSR", "WIRELESS">>,
     <<"FSRL", "WIRELESS">>, <<"LAR1", "WIRELESS">>, <<"ODMRP", "WIRELESS">>, <<"ZRP", "WIRELESS">>,
     <<"IARP", "WIRELESS">>, <<"IERP", "WIRELESS">>}
LibraryEvents ==
    ({"MOBILE_IP", "OSPFv2", "DVMRP", "PIM", "IGRP", "EIGRP"} \X {"ENTERPRISE"})
    \cup ({"ODR", "EPLRS", "SDR"} \X {"MILITARY"}) \cup ({"ISAKMP", "ANODR", "NEIGHBOR"} \X {"NETSEC"})
    \cup {<<"MAODV", "MAODV">>}
\* Events of IP itself, what they do is in IpPath.
IpEvents ==
    ({"BACKPLANE", "TRANSPORT", "ADAPTATION", "DELAYED", "JOIN", "LEAVE", "IPSEC"} \X {""})
    \cup {<<"ACCESS_LIST", "ENTERPRISE">>}
\* No case: these are assumed to ask for no event of the network layer.
NoEvents == {"STAR", "MOSPF", "MPLS", "STATIC", "EDGE"}

\* NetworkIpCheckMulticastRoutingProtocol for ANY_INTERFACE.
RunsAnywhere(protocol) == \E i \in Interfaces : multicast[i] = protocol

NetworkIpLayer(protocol) ==
    /\ phase = "run" /\ last = None /\ protocol \notin NoEvents
    /\ Begun(protocol) \/ Case(IpEvents, protocol)
    /\ last' = [what |-> "event", at |-> None,
                to |-> IF Case(CommonEvents \cup LibraryEvents \cup IpEvents, protocol) THEN protocol ELSE "error",
                also |-> IF protocol \in {"JOIN", "LEAVE"} /\ Has("WIRELESS") /\ RunsAnywhere("ODMRP")
                         THEN "ODMRP" ELSE None]
    /\ UNCHANGED <<phase, node, at, tables, settings, begun, ended>>

\* Packets that are given up unless the interface they came by runs their protocol ...
AdHocPackets == {"AODV", "DYMO", "DSR", "FSRL"} \X {"WIRELESS"}
OtherAdHocPackets == {"LAR1", "STAR"} \X {"WIRELESS"}
EnterprisePackets == {"OSPFv2", "IGRP"} \X {"ENTERPRISE"}
MilitaryPackets == {"ODR", "SDR"} \X {"MILITARY"}
SecurityPackets == {<<"ANODR", "NETSEC">>}
GuardedPackets == AdHocPackets \cup OtherAdHocPackets \cup EnterprisePackets \cup MilitaryPackets \cup SecurityPackets
\* ... or unless the node does ...
IcmpPackets == {<<"ICMP", "">>}
NeighborPackets == {<<"NEIGHBOR", "NETSEC">>}
FlaggedPackets == IcmpPackets \cup NeighborPackets
\* ... and packets that are handed on whatever runs.
TransportPackets == {"UDP", "TCP", "IGMP"} \X {""}
ZonePackets == {"BRP", "IARP", "ZRP", "IERP", "ODMRP", "NDP"} \X {"WIRELESS"}
MobilePackets == {"RSVP", "IPIP", "MOBILE_IP"} \X {"ENTERPRISE"}
RouterPackets == {"PIM", "EIGRP"} \X {"ENTERPRISE"}
LayerPackets ==
    {<<"ISAKMP", "NETSEC">>, <<"MAODV", "MAODV">>, <<"DOT16", "ADVANCED">>, <<"EXTERNAL", "">>,
     <<"GSM", "CELLULAR">>, <<"CELLULAR", "CELLULAR">>, <<"CELLULAR", "UMTS">>}
OpenPackets == TransportPackets \cup ZonePackets \cup MobilePackets \cup RouterPackets \cup LayerPackets
FreedPackets == {"ESP", "AH"} \X {"NETSEC"}
OtherPackets == {<<"IPIP_ODR", "MILITARY">>, <<"IPV6", "">>}
AllPackets == GuardedPackets \cup FlaggedPackets \cup OpenPackets \cup FreedPackets \cup OtherPackets

Guard(protocol, i) == V4(i) /\ unicast[i] = protocol

DeliverPacket(protocol, i) ==
    /\ phase = "run" /\ last = None /\ Case(AllPackets, protocol)
    /\ last' = [what |-> "packet", at |-> i,
                to |-> CASE Case(GuardedPackets, protocol) -> IF Guard(protocol, i) THEN protocol ELSE "freed"
                         [] Case(FlaggedPackets, protocol) ->
                              IF <<protocol, WholeNode>> \in begun THEN protocol ELSE "freed"
                         [] Case(FreedPackets, protocol) -> "freed"
                         [] protocol = "IPIP_ODR" -> "receive"
                         [] protocol = "IPV6" ->
                              IF \E j \in Interfaces : node.version[j] = "dual" THEN "tunnel" ELSE "freed"
                         [] OTHER -> protocol]
    /\ UNCHANGED <<phase, node, at, tables, settings, begun, ended>>

-----------------------------------------------------------------------------
(* RoutePacketAndSendToMac: who takes a packet, in the order they are asked.  *)
(* yes is the set of those that take it when they are asked.                 *)

\* The interface whose protocols are asked.
EntryOf(pk) == IF pk.from = Cpu THEN pk.out ELSE pk.from

\* A cellular gateway has what is for its own network before all others.
GatewayTakes(pk, yes) == (Has("CELLULAR") \/ Has("UMTS")) /\ node.cellular /\ "gateway" \in yes

PolicyTakes(pk, yes) ==
    /\ Has("ENTERPRISE") /\ ~pk.control /\ pk.dest # "loopback" /\ "policy" \in yes
    /\ IF pk.from = Cpu THEN pk.mine /\ node.localPolicy ELSE ~pk.mine /\ node.policy[pk.from]

LoopbackTakes(pk) ==
    /\ node.loopback /\ pk.from = Cpu /\ pk.dest \in {"own", "loopback"}
    /\ ~(Has("NETSEC") /\ Begun("IPSEC"))

Eplrs(i) == <<"EPLRS", i>> \in begun

MulticastTakers(pk, yes) ==
    LET i == EntryOf(pk)
    IN  CASE groupRouting[i] # None /\ "multicast" \in yes -> <<multicast[i]>>
          [] ~(groupRouting[i] # None /\ "multicast" \in yes) /\ Eplrs(i) -> <<"EPLRS">>
          [] OTHER -> <<"multicast table">>

QosTakers(pk, yes) ==
    IF ~(Has("ENTERPRISE") /\ unicast[EntryOf(pk)] = "OSPFv2" /\ pk.qos) THEN <<>>
    ELSE CASE pk.route -> <<"source route">>
           [] ~pk.route /\ "qos" \in yes -> <<"QOSPF">>
           [] OTHER -> <<>>

\* okToSendThruMpls: a packet that may not be cut and is too big with a label is kept.
FitsMpls(pk) ==
    ~(Has("ENTERPRISE") /\ pk.dest \in {"host", "own", "loopback"} /\ ~pk.route
      /\ Begun("MPLS") /\ (node.edgeLsr \/ pk.mine) /\ pk.big)

\* Nobody looks whether the packet has been routed already.
MplsTakers(pk, yes) ==
    IF Begun("MPLS") /\ FitsMpls(pk) /\ ~pk.route /\ (node.edgeLsr \/ pk.mine) /\ "mpls" \in yes
    THEN <<"MPLS">> ELSE <<>>

RouterTakers(pk, yes) ==
    IF routing[EntryOf(pk)] # None /\ "router" \in yes THEN <<unicast[EntryOf(pk)]>> ELSE <<>>

\* EPLRS at any interface, the source route or the forwarding table.
LastTakers(pk) ==
    CASE \E i \in Interfaces : Eplrs(i) -> <<"EPLRS">>
      [] ~(\E i \in Interfaces : Eplrs(i)) /\ pk.route -> <<"source route">>
      [] OTHER -> <<"table">>

UnicastTakers(pk, yes) ==
    LET early == QosTakers(pk, yes) \o MplsTakers(pk, yes)
    IN  CASE early # <<>> -> early
          [] early = <<>> /\ RouterTakers(pk, yes) # <<>> -> RouterTakers(pk, yes)
          [] OTHER -> LastTakers(pk)

Takers(pk, yes) ==
    CASE GatewayTakes(pk, yes) -> <<"gateway">>
      [] ~GatewayTakes(pk, yes) /\ PolicyTakes(pk, yes) -> <<"policy">>
      [] OTHER ->
           CASE LoopbackTakes(pk) -> <<"loopback">>
             [] ~LoopbackTakes(pk) /\ pk.dest = "any" -> <<"interface">>
             [] ~LoopbackTakes(pk) /\ pk.dest = "broadcast" -> <<"subnet">>
             [] ~LoopbackTakes(pk) /\ pk.dest = "group" -> MulticastTakers(pk, yes)
             [] OTHER -> UnicastTakers(pk, yes)

Deciders == {"gateway", "policy", "multicast", "qos", "mpls", "router"}
RoutePacket(pk) ==
    /\ phase = "run" /\ last = None
    /\ \E yes \in SUBSET Deciders :
         last' = [what |-> "route", at |-> EntryOf(pk), takers |-> Takers(pk, yes)]
    /\ UNCHANGED <<phase, node, at, tables, settings, begun, ended>>

-----------------------------------------------------------------------------
(* NetworkIpFinalize. *)

NodeEnds ==
    {<<"EPLRS", "MILITARY">>, <<"IGMP", "">>, <<"ICMP", "">>, <<"EDGE", "ENTERPRISE">>, <<"MOBILE_IP", "ENTERPRISE">>,
     <<"NEIGHBOR", "NETSEC">>, <<"IPSEC", "">>}
WirelessEnds == {"LAR1", "AODV", "DYMO", "DSR", "FSRL", "STAR", "ZRP", "IARP", "IERP"} \X {"WIRELESS"}
OtherEnds ==
    ({"OSPFv2", "IGRP", "EIGRP"} \X {"ENTERPRISE"}) \cup {<<"ODR", "MILITARY">>, <<"ANODR", "NETSEC">>}
GroupEnds ==
    {<<"ODMRP", "WIRELESS">>, <<"MAODV", "MAODV">>} \cup ({"DVMRP", "MOSPF", "PIM"} \X {"ENTERPRISE"})

NetworkIpFinalize ==
    /\ phase = "run" /\ phase' = "end"
    /\ ended' = {<<c[1], WholeNode>> : c \in {x \in NodeEnds : Has(x[2]) /\ Begun(x[1])}}
         \cup {<<"SDR", WholeNode>> : i \in {j \in Interfaces : Begun("SDR") /\ routing[j] = j}}
         \cup {<<unicast[i], i>> : i \in {j \in Interfaces : V4(j) /\ Case(WirelessEnds \cup OtherEnds, unicast[j])}}
         \cup {<<multicast[i], i>> : i \in {j \in Interfaces : Case(GroupEnds, multicast[j])}}
         \cup {<<"ISAKMP", i>> : i \in {j \in Interfaces : <<"ISAKMP", j>> \in begun}}
    /\ UNCHANGED <<node, at, tables, settings, begun, last>>

-----------------------------------------------------------------------------
Init ==
    /\ phase = "start" /\ node \in Nodes /\ at = Min(Interfaces)
    /\ unicast = [i \in Interfaces |-> "NONE"] /\ multicast = [i \in Interfaces |-> "NONE"]
    /\ routing = [i \in Interfaces |-> None] /\ groupRouting = [i \in Interfaces |-> None]
    /\ settings = None /\ begun = {} /\ igmpTold = {} /\ last = None /\ ended = {}

Next ==
    \/ NetworkIpInit \/ ParseProtocols \/ EplrsInit \/ IpRoutingInit \/ InitServices \/ NetworkIpFinalize
    \/ \E p \in {b[1] : b \in begun} \cup {e[1] : e \in IpEvents} : NetworkIpLayer(p)
    \/ \E p \in {x[1] : x \in AllPackets}, i \in Interfaces : DeliverPacket(p, i)
    \/ \E pk \in Sent : RoutePacket(pk)

-----------------------------------------------------------------------------
(* Properties. *)

Ready == phase \in {"run", "end"}
Same(types, i, j) == types[i] = types[j] /\ V4(i) /\ V4(j)

\* Interfaces with the same protocol share one instance, which one of them created; IGMP
\* was told of every multicast protocol that asks it for members; MOSPF has its OSPFv2.
InstancesShared ==
    Ready => /\ \A i, j \in Interfaces :
                  /\ Same(unicast, i, j) => routing[i] = routing[j]
                  /\ Same(multicast, i, j) => groupRouting[i] = groupRouting[j]
             /\ \A i \in Interfaces :
                  /\ routing[i] # None => <<unicast[i], routing[i]>> \in begun
                  /\ groupRouting[i] # None => <<multicast[i], groupRouting[i]>> \in begun
                  /\ multicast[i] = "MOSPF" => <<"OSPFv2", routing[i]>> \in begun
             /\ Begun("IGMP") => {i \in Interfaces : multicast[i] \in MemberProtocols} \subseteq igmpTold

\* Every event finds its protocol's handler, and a packet whose protocol is asked for at the
\* interface finds an instance of it there.
HandlersReady ==
    /\ last # None /\ last.what = "event" => last.to # "error" /\ (last.also # None => Begun(last.also))
    /\ last # None /\ last.what = "packet" =>
         /\ Case(GuardedPackets, last.to) => <<last.to, routing[last.at]>> \in begun
         /\ Case(FlaggedPackets, last.to) => <<last.to, WholeNode>> \in begun

\* Exactly one stage takes a packet, but for a packet with a demand for quality of service
\* at a node with OSPFv2 and MPLS, which both may take.
TakenOnce ==
    last # None /\ last.what = "route" => Len(last.takers) = 1 \/ last.takers = <<"QOSPF", "MPLS">>

\* What was begun is ended, MPLS by others and the static multicast routes never.
AllEnded ==
    phase = "end" => {b[1] : b \in begun} \ {"MPLS", "STATIC"} = {e[1] : e \in ended}

ProtocolsSound == InstancesShared /\ HandlersReady /\ TakenOnce /\ AllEnded
=============================================================================
