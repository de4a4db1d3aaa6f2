------------------------------ MODULE MCNode -------------------------------
(***************************************************************************)
(* The network layer of a node and what the node sets up before its first   *)
(* event, on small instances explored side by side: the initial state       *)
(* chooses the part whose steps the behaviour takes.                        *)
(***************************************************************************)
EXTENDS Integers, Sequences, FiniteSets, TLC

CONSTANTS
  None,   \* the variables of a part that is not chosen; no message, no next hop
  AnyIp   \* any next hop and any priority of the output queues

VARIABLE part   \* the component whose steps this behaviour takes, and its instance

VARIABLES arr, head, tail, num, max, used, suspended, out, now, delays,
          waited, old, copied
queueVars == <<arr, head, tail, num, max, used, suspended, out, now, delays,
               waited, old, copied>>

VARIABLES clock, packetIdCounter, size, net, copies, fragmentList, inBuff,
          delivered, history
fragmentVars == <<clock, packetIdCounter, size, net, copies, fragmentList,
                  inBuff, delivered, history>>

VARIABLES row, enabled, faultCount, staticFault, randomFault, numLinkfault,
          queue, sending, tunnel
tableVars == <<row, enabled, faultCount, staticFault, randomFault,
               numLinkfault, queue, sending, tunnel>>

VARIABLES route, multicast, updates, member, app, unsent, backplane, busy,
          event, air, handedUp
pathVars == <<route, multicast, updates, member, app, unsent, backplane,
              busy, event, air, handedUp>>

VARIABLES file, pc, skipped, again, runs, serves, sessOld, sessFailed,
          restarts
sessVars == <<file, pc, skipped, again, runs, serves, sessOld, sessFailed,
              restarts>>

VARIABLES config, phase, layerNext, daemons, olsr, apps, finalised,
          layerFailed
layerVars == <<config, phase, layerNext, daemons, olsr, apps, finalised,
               layerFailed>>

VARIABLES setup, pos, count, nic, members, siteCounter, faults, exited
setupVars == <<setup, pos, count, nic, members, siteCounter, faults, exited>>

VARIABLES queueConfig, queueUp, queues, arpQueue, known, place, header
queuesVars == <<queueConfig, queueUp, queues, arpQueue, known, place,
                header>>

VARIABLES macNic, macUp, where, awake, lastCall, endedBy
macsVars == <<macNic, macUp, where, awake, lastCall, endedBy>>

VARIABLES ipPhase, ipNode, ipAt, ipUnicast, ipMulticast, ipRouting,
          ipGroupRouting, ipSettings, ipBegun, ipIgmpTold, ipLast, ipEnded
ipVars == <<ipPhase, ipNode, ipAt, ipUnicast, ipMulticast, ipRouting,
            ipGroupRouting, ipSettings, ipBegun, ipIgmpTold, ipLast,
            ipEnded>>

vars == <<part, queueVars, fragmentVars, tableVars, pathVars, sessVars,
          layerVars, setupVars, queuesVars, macsVars, ipVars>>

-----------------------------------------------------------------------------
(* The instances. *)

\* Static routes are trusted more than those of a protocol, the default ones least.
AdminDistance == [static |-> 1, ospf |-> 110, default |-> 255]

\* Three nodes in a row, b between the others with an interface in each subnet.
MCNics == {"a1", "b1", "b2", "c2"}
MCOwner == [a1 |-> "a", b1 |-> "b", b2 |-> "b", c2 |-> "c"]
MCSubnetOf == [a1 |-> "net1", b1 |-> "net1", b2 |-> "net2", c2 |-> "net2"]

\* Next hops that lead to the destination, and some that loop or are missing.
Dest == MCNics \cup {"net1", "net2"}
Good == [x \in {"a", "b", "c"} \X Dest |->
    LET d == x[2] IN
    CASE x[1] = "a" -> <<"a1", IF d = "a1" THEN "a1" ELSE "b1">>
      [] x[1] = "c" -> <<"c2", IF d = "c2" THEN "c2" ELSE "b2">>
      [] x[1] = "b" /\ d \in {"a1", "net1"} -> <<"b1", "a1">>
      [] OTHER -> <<"b2", "c2">>]
AnyRoutes == {Good, [Good EXCEPT !["b", "c2"] = <<"b1", "a1">>], [Good EXCEPT !["b", "c2"] = None]}

\* Packets to originate: to a node, along a source route, to everybody, to a subnet
\* and to a group.
S(i, src, dst, path) == [nr |-> i, src |-> src, dst |-> dst, path |-> path]
MCSends == {S(1, "a1", "c2", <<>>), S(2, "c2", "a1", <<"b2", "a1">>), S(3, "a1", "AnyDest", <<>>),
            S(4, "a1", "c2", <<"b1", "c2">>), S(5, "a1", "net2", <<>>)}
MCPairs == {S(1, "a1", "c2", <<>>), S(2, "c2", "a1", <<>>), S(3, "a1", "net2", <<>>)}
MCGroupSends == {S(1, "a1", "g", <<>>), S(2, "b2", "g", <<>>)}
NoApp == [x \in {} |-> ""]

\* Three nodes, c in a partition of its own; a and b are told apart by what they signal.
MCPartition == [a |-> 1, b |-> 1, c |-> 2]
MCSignalling == [a |-> "SIP", b |-> "H323", c |-> "H323"]
MCLibraries == {"ENTERPRISE", "NGCNMS", "MESSENGER", "UMTS", "CELLULAR", "MGEN3", "MILITARY", "ALE"}
Line(type, src, dst, to, values, option) ==
  [app |-> type, src |-> src, dst |-> dst, to |-> to, values |-> values, option |-> option]

\* How many values a line of each application may have, and its option.
Forms ==
  [FTP |-> {<<4, "">>, <<3, "">>}, CHANSWITCH |-> {<<6, "">>, <<4, "">>},
   CHANSWITCH_SINR |-> {<<4, "">>, <<2, "">>}, TELNET |-> {<<4, "">>}, WBEST |-> {<<2, "">>},
   VIDEO |-> {<<10, "">>, <<2, "">>, <<0, "">>}, mgen |-> {<<2, "">>}, mgen3 |-> {<<1, "">>},
   drec |-> {<<1, "">>}, HTTP |-> {<<5, "">>, <<3, "">>, <<0, "">>}, HTTPD |-> {<<1, "">>},
   ALE |-> {<<4, "">>, <<3, "">>, <<0, "">>, <<4, "bad">>}, GSM |-> {<<4, "">>, <<4, "late">>},
   VOIP |-> {<<5, "">>, <<6, "REJECT">>, <<7, "CALL-STATUS REJECT">>, <<8, "">>},
   VBR |-> {<<6, "">>, <<8, "tos">>, <<7, "">>}, LOOKUP |-> {<<9, "">>, <<11, "tos">>, <<11, "bad">>},
   MCBR |-> {<<7, "">>, <<9, "tos">>, <<7, "mixed">>},
   CBR |-> {<<7, "">>, <<7, "mixed">>, <<8, "RSVP-TE">>, <<8, "tos">>, <<9, "tos">>, <<9, "RSVP-TE tos">>,
            <<10, "tos RSVP-TE">>, <<6, "">>}]
  @@ ("FTP/GENERIC" :> {<<6, "">>, <<8, "tos">>, <<7, "">>}) @@ ("L16-CBR" :> {<<7, "">>})
  @@ ("MESSENGER-APP" :> {<<9, "UNRELIABLE">>, <<10, "UNRELIABLE VOICE">>, <<9, "RELIABLE">>})
  @@ ("CELLULAR-ABSTRACT-APP" :> {<<6, "">>, <<6, "late">>}) @@ ("PHONE-CALL" :> {<<5, "">>})
  @@ [type \in {"INTERFACETUTORIAL", "TRAFFIC-GEN", "TRAFFIC-TRACE", "SUPER-APPLICATION", "THREADED-APP", "X"} |->
        {<<2, "">>}]

\* Every line alone, and pairs of lines of what meets when nodes restart.
Ends == {<<"a", "node">>, <<"c", "node">>, <<None, "loopback">>, <<None, "group">>, <<None, "all">>}
Alone == UNION {{<<Line(type, src, d[1], d[2], f[1], f[2])>> : src \in {"a", "b", "c"}, d \in Ends, f \in Forms[type]} :
                type \in DOMAIN Forms}
First == {Line("CBR", "b", "c", "node", 7, ""), Line("VOIP", "b", "c", "node", 5, ""),
          Line("SUPER-APPLICATION", "b", "a", "node", 2, ""), Line("CBR", "b", "a", "node", 7, "")}
Second == {Line("FTP", "b", "c", "node", 4, ""), Line("CBR", "c", "a", "node", 7, ""),
           Line("CBR", "a", "b", "node", 7, ""), Line("SUPER-APPLICATION", "a", "c", "node", 2, ""),
           Line("MCBR", "a", None, "group", 7, "")}
MCFiles == Alone \cup {<<x, y>> : x \in First, y \in Second}

\* What the configuration says of a node with two interfaces.
Node(version, v4, v6, static, hsrp, bgp, mpls, rsvp) ==
  [version |-> version, v4 |-> v4, v6 |-> v6, static |-> static, hsrp |-> hsrp, bgp |-> bgp, mpls |-> mpls,
   rsvp |-> rsvp]
Twice(P) == {<<x, y>> : x, y \in P}
Nothing == <<"NONE", "NONE">>
MCConfigs ==
  {Node(<<"v4", "v4">>, x, Nothing, {"STATIC"}, {}, FALSE, <<"none", "none">>, FALSE) :
     x \in Twice({"BELLMANFORD", "RIP", "FISHEYE", "OLSR_INRIA", "OLSRv2_NIIGATA", "STATIC", "NONE"})}
  \cup {Node(<<"dual", w>>, <<x, x>>, <<y, y>>, {}, {}, FALSE, <<"none", "none">>, FALSE) : w \in {"v4", "v6"},
     x \in {"OLSR_INRIA", "OLSRv2_NIIGATA", "RIP"}, y \in {"RIPNG", "OLSR_INRIA", "OLSRv2_NIIGATA", "NONE"}}
  \cup {Node(<<"v4", "dual">>, <<"RIP", "NONE">>, Nothing, {}, {1}, b, m, r) : b \in BOOLEAN,
     m \in Twice({"none", "LDP", "RSVP-TE"}), r \in BOOLEAN}

\* Configurations: three lines in any order, every MAC and PHY in a subnet, links whose
\* ends differ, options of an interface, and fault files.
OwnHw(from, arp, length, null) == [from |-> from, arp |-> arp, length |-> length, null |-> null]
PlainNic == [type |-> "IPV4_ONLY", mac |-> "MACDOT11", phy |-> "PHY_CHANSWITCH", hw |-> OwnHw("default", FALSE, 6, FALSE),
             words |-> TRUE, audit |-> "NO", certificate |-> "NO", vlan |-> "none", security |-> "NO", link |-> None]
Same(x) == <<x, x, x>>
NicsOf(x, y, z) == [a |-> Same(x), b |-> Same(y), c |-> Same(z)]
Plain == NicsOf(PlainNic, PlainNic, PlainNic)
SetupOf(lines, nics, faultLines) ==
  [lines |-> lines, nics |-> nics, faults |-> faultLines, switch |-> [n \in {"a", "b", "c"} |-> None]]
OnNet(kind, ends) == [kind |-> kind, ends |-> ends, v4 |-> TRUE, v6 |-> FALSE]
ManyLines == {OnNet("SUBNET", <<"a", "b">>), OnNet("SUBNET", <<"c", "b">>), OnNet("LINK", <<"a", "c">>),
              OnNet("LINK", <<"c", "b">>)}
SomeTypes == {"IPV4_ONLY", "IPV6_ONLY", "DUAL_IP", "CELLULAR"}
Typed(t) == [PlainNic EXCEPT !.type = t, !.phy = "PHY802.11b"]
OrdersSetups == {SetupOf(ls, NicsOf(Typed(t), Typed(u), Typed(u)), <<>>) :
                   ls \in [1..3 -> ManyLines], t \in {"IPV4_ONLY", "IPV6_ONLY", "DUAL_IP"}, u \in {"IPV4_ONLY", "DUAL_IP"}}
MacAddressed == {"MAC802.3", "MACDOT11", "ALOHA", "TDMA", "GENERICMAC", "MAC802.16", "SWITCHED-ETHERNET", "SATCOM", "ALE",
   "GSM", "ANE", "SATELLITE-BENTPIPE", "MAC802.11", "CELLULAR-MAC", "MAC-WORMHOLE", "USAP", "MAC-LINK-16"}
PhyModels == {"PHY802.11a", "PHY802.11b", "PHY_CHANSWITCH", "PHY-GSM", "PHY-CELLULAR", "PHY-ABSTRACT", "PHY-SPAWAR-LINK16",
   "SATELLITE-RSV", "PHY802.16", "PHY-JTRS-WNW", "PHY-JAMMING", "PHY802.15.4"}
MacNames == MacAddressed \cup {"MAC802.15.4", "X", None}
PhyNames == PhyModels \cup {"FCSC-PHY", None}
OneSubnet(x) == {SetupOf(<<OnNet("SUBNET", e)>>, NicsOf(x, x, x), <<>>) : e \in {<<"a", "b">>, <<"b", "a", "c">>, <<"c">>}}
MacSetups == UNION {OneSubnet([PlainNic EXCEPT !.mac = m, !.phy = "PHY802.11b", !.type = t]) : m \in MacNames, t \in {"IPV4_ONLY", "IPV6_ONLY"}}
  \cup UNION {OneSubnet([PlainNic EXCEPT !.phy = x, !.type = t]) : x \in PhyNames, t \in {"IPV4_ONLY", "IPV6_ONLY"}}
Hws == {OwnHw("default", FALSE, 6, FALSE), OwnHw("parameter", TRUE, 6, FALSE), OwnHw("file", TRUE, 4, FALSE),
        OwnHw("parameter", FALSE, 6, FALSE), OwnHw("file", TRUE, 6, TRUE), OwnHw("file of others", FALSE, 6, FALSE)}
LinkSetups == {SetupOf(<<[kind |-> "LINK", ends |-> <<"a", "c">>, v4 |-> v, v6 |-> ~v]>>,
                       NicsOf([Typed(t) EXCEPT !.hw = h, !.link = l], PlainNic, [Typed(u) EXCEPT !.hw = g, !.link = l]), <<>>) :
                 t \in SomeTypes, u \in SomeTypes, h \in Hws, g \in Hws, l \in {None, "MAC802.3"}, v \in BOOLEAN}
OptionSetups == UNION {OneSubnet(x) : x \in
   {[PlainNic EXCEPT !.words = FALSE], [PlainNic EXCEPT !.audit = "word"], [PlainNic EXCEPT !.certificate = "expired"],
    [PlainNic EXCEPT !.certificate = "absent"], [PlainNic EXCEPT !.vlan = "range"], [PlainNic EXCEPT !.vlan = "7"],
    [PlainNic EXCEPT !.security = "word"], [PlainNic EXCEPT !.security = "CCMP"]}}
FaultAt(what, entries, at, random, start, end, card) ==
  [what |-> what, entries |-> entries, at |-> at, random |-> random, start |-> start, end |-> end, card |-> card]
FaultLinesOf == {FaultAt("INTERFACE-FAULT", 4, at, r, 2, e, "no") : at \in {<<"a", 0>>, <<"c", 0>>, <<"c", 1>>, None}, r \in BOOLEAN, e \in {0, 1, 3}}
  \cup {FaultAt("INTERFACE-FAULT", 6, <<"a", 0>>, FALSE, 2, 3, card) : card \in {"own", "null"}}
  \cup {FaultAt("FAULT", 4, <<"a", 0>>, FALSE, 2, 3, "no"), FaultAt("INTERFACE-FAULT", 3, <<"a", 0>>, FALSE, 2, 3, "no")}
FaultSetups == {SetupOf(<<OnNet("SUBNET", <<"a", "b", "c">>)>>, Plain, <<x, y>>) : x, y \in FaultLinesOf}
  \cup {[SetupOf(<<OnNet("SUBNET", <<"a", "b", "c">>)>>, Plain, <<>>) EXCEPT !.switch["b"] = w] : w \in {"YES", "word"}}
MCSetups == OrdersSetups \cup MacSetups \cup LinkSetups \cup OptionSetups \cup FaultSetups
  \cup {SetupOf(<<[OnNet("SUBNET", <<"a", "b">>) EXCEPT !.v4 = FALSE]>>, Plain, <<>>), SetupOf(Same(OnNet("LINK", <<"a", "c">>)) \o <<OnNet("LINK", <<"a", "b">>)>>, Plain, <<>>)}

\* A node with two interfaces: every pair of words with one, and the settings of the node.
Twins(x, y) == [i \in {0, 1} |-> IF i = 0 THEN x ELSE y]
PlainIp ==
  [version |-> Twins("v4", "v4"), unicast |-> Twins(None, None), multicast |-> Twins(None, None),
   group |-> Twins(None, None), isakmp |-> Twins(None, None), mpls |-> Twins(None, None), inc |-> Twins(None, None),
   policy |-> Twins(FALSE, FALSE), localPolicy |-> FALSE, throughput |-> None, type |-> None, unit |-> None,
   forwarding |-> None, gateway |-> FALSE, ipsec |-> None, icmp |-> None, static |-> None, edge |-> None,
   mobile |-> FALSE, neighbor |-> FALSE, cellular |-> FALSE, loopback |-> TRUE, edgeLsr |-> FALSE]
IpLibraries == {"WIRELESS", "ENTERPRISE", "MILITARY", "NETSEC", "UMTS"}
UnicastNames == {"LAR1", "AODV", "DYMO", "DSR", "FSRL", "STAR", "IARP", "ZRP", "IERP", "OSPFv2", "IGRP", "EIGRP", "ODR",
  "SDR", "ANODR", "FISHEYE", "RIP", "NONE", "X"}
MulticastNames == {"DVMRP", "MOSPF", "PIM", "ODMRP", "NONE", "X", "MAODV"}
MCIpNodes ==
  {[PlainIp EXCEPT !.unicast = Twins(x, y)] : x \in UnicastNames, y \in {"AODV", "OSPFv2"}}
  \cup {[PlainIp EXCEPT !.unicast = Twins(x, x), !.version = Twins("dual", v)] : x \in UnicastNames, v \in {"v4", "v6"}}
  \cup {[PlainIp EXCEPT !.unicast = Twins(u, "OSPFv2"), !.multicast = Twins(x, y), !.group = Twins(None, "IGMP")] :
          u \in {"NONE", "RIP", "OSPFv2"}, x \in MulticastNames, y \in {"MOSPF", "PIM", "ODMRP", None}}
  \cup {[PlainIp EXCEPT !.throughput = t, !.type = x] : t \in {-1, 0, 9}, x \in {"CENTRAL", "DISTRIBUTED", "word", None}}
  \cup {[PlainIp EXCEPT !.forwarding = x, !.ipsec = y, !.unit = z] : x, y \in {"YES", "NO", "word"}, z \in {63, 64, None}}
  \cup {[PlainIp EXCEPT !.isakmp = Twins("YES", x), !.mpls = Twins(y, "NO"), !.edgeLsr = z, !.unicast = Twins("OSPFv2", "RIP")] :
          x, y \in {"YES", "word", None}, z \in BOOLEAN}
  \cup {[PlainIp EXCEPT !.icmp = x, !.static = x, !.edge = y, !.mobile = z, !.neighbor = z, !.gateway = z] :
          x \in {"YES", "NO"}, y \in {"YES", "NO", "word"}, z \in BOOLEAN}
  \cup {[PlainIp EXCEPT !.inc = Twins(None, x), !.cellular = y, !.policy = Twins(z, FALSE), !.localPolicy = z, !.loopback = y,
          !.multicast = Twins("PIM", None), !.unicast = Twins("AODV", "OSPFv2")] :
          x \in {"EPLRS", None}, y, z \in BOOLEAN}
Routed(from, dest, mine, source, control, qos, big) ==
  [from |-> from, out |-> 0, dest |-> dest, mine |-> mine, route |-> source, control |-> control, qos |-> qos, big |-> big]
MCRouted ==
  {Routed(f, d, f = -1, FALSE, c, FALSE, FALSE) : f \in {-1, 1}, c \in BOOLEAN,
     d \in {"any", "broadcast", "group", "own", "loopback"}}
  \cup {Routed(f, "host", f = -1, r, FALSE, q, b) : f \in {-1, 1}, r, q, b \in BOOLEAN}

\* Packets of each ether type, to two next hops, and interfaces with and without ARP,
\* LLC, MPLS and an entry for a code point.
PacketOf(i, kind, tos, hop, dest) == [id |-> i, kind |-> kind, tos |-> tos, hop |-> hop, dest |-> dest]
MCQueued == {PacketOf(1, "IP", 40, "h1", "d1"), PacketOf(2, "IP", 184, "h2", "d1"), PacketOf(3, "IP", 184, "h1", "d2"),
             PacketOf(4, "ARP", 0, "h1", "d1"), PacketOf(5, "MPLS", 40, "h1", "d2")}
QueuesOf(arp, llc, defaultLlc, mpls, mac, n, phb, diffserv) ==
  [arp |-> arp, llc |-> llc, defaultLlc |-> defaultLlc, mpls |-> mpls, mac |-> mac, queues |-> n, phb |-> phb,
   diffserv |-> diffserv]
Phb == {[ds |-> 46, priority |-> 2], [ds |-> 0, priority |-> 1]}
MCQueueConfigs ==
  {QueuesOf(FALSE, FALSE, FALSE, FALSE, "802.11", 3, {}, FALSE), QueuesOf(TRUE, TRUE, TRUE, FALSE, "802.11", 3, Phb, TRUE),
   QueuesOf(TRUE, FALSE, FALSE, FALSE, "802.3", 1, {}, FALSE), QueuesOf(FALSE, TRUE, TRUE, TRUE, "802.11", 2, Phb, FALSE),
   QueuesOf(TRUE, TRUE, FALSE, FALSE, "802.11", 2, {}, FALSE), QueuesOf(FALSE, FALSE, TRUE, FALSE, "WORMHOLE", 2, {}, FALSE)}

\* An interface of every MAC that the set-up starts on radios, and the wired ones.
RadioMacs == {"MACDOT11", "CSMA", "MACA", "TDMA", "ALOHA", "GENERICMAC", "MACDOT11e", "MAC802.16", "MAC802.15.4",
   "MAC-LINK-11", "MAC-LINK-16", "USAP", "SATELLITE-BENTPIPE", "CELLULAR-MAC", "MAC-WORMHOLE", "GSM", "ALE",
   "MAC-SPAWAR-LINK16"}
InterfaceOf(name, radio) ==
  [mac |-> name, radio |-> radio, wormhole |-> name = "MAC-WORMHOLE",
   security |-> IF name = "MACDOT11" THEN {"WEP"} ELSE {}, fault |-> name \in {"CSMA", "ABSTRACT"},
   traffic |-> name = "ABSTRACT", switch |-> name \in {"MAC802.3", "ABSTRACT"}, mpls |-> name \in {"ABSTRACT", "MACDOT11"}]
MacLibraries == {"WIRELESS", "ENTERPRISE", "NETSEC", "MILITARY", "ADVANCED", "SATELLITE", "SENSOR", "UMTS", "CELLULAR",
   "ALE", "LINK16"}
MCInterfaces == {InterfaceOf(name, TRUE) : name \in RadioMacs}
  \cup {InterfaceOf(name, FALSE) : name \in {"MAC802.3", "ABSTRACT", "SATCOM", "SWITCHED-ETHERNET", "ANE"}}

\* Three messages, one of them twice as long.
Replica == INSTANCE IfQueueReplicate WITH
  Msg <- {"m1", "m2", "m3"}, Size <- [m1 |-> 1, m2 |-> 1, m3 |-> 2],
  Limit <- 4, NoMsg <- None, InitialMax <- 2, MaxTime <- 0

\* Fragments in any order, and a network that keeps their order.
Fragment == INSTANCE IpFragment WITH
  now <- clock, Sizes <- {1, 3, 5}, SenderUnit <- 4, RouterUnit <- 2,
  IdSpace <- 16, HoldTime <- 2, InOrder <- FALSE, MaxPackets <- 2,
  MaxTime <- 3, MaxCopies <- 1

InOrder == INSTANCE IpFragment WITH
  now <- clock, Sizes <- {2, 5}, SenderUnit <- 2, RouterUnit <- 1,
  IdSpace <- 16, HoldTime <- 2, InOrder <- TRUE, MaxPackets <- 2,
  MaxTime <- 3, MaxCopies <- 1

\* Addresses of two bits; routes of three kinds, and faults with packets waiting.
Routing == INSTANCE ForwardingTable WITH
  Width <- 2, Interfaces <- {0, 1}, Hops <- {"router", "unreachable"},
  Unreachable <- "unreachable",
  Announced <- {<<0, 0>>, <<0, 1>>, <<2, 1>>, <<2, 2>>},
  Types <- {"static", "default", "ospf"}, Fixed <- {"static", "default"},
  QueueSize <- 0, Repetition <- 0, MaxRows <- 3

Faults == INSTANCE ForwardingTable WITH
  Width <- 2, Interfaces <- {0, 1}, Hops <- {"router", "unreachable"},
  Unreachable <- "unreachable", AdminDistance <- [static |-> 1],
  Announced <- {<<0, 0>>, <<2, 1>>}, Types <- {"static"},
  Fixed <- {"static"}, QueueSize <- 2, Repetition <- 2, MaxRows <- 2

\* Any routes, a queue at its limit and frames that are lost: unicast, multicast, and
\* the one backplane of a central router.
Unicast == INSTANCE IpPath WITH
  delivered <- handedUp, Nodes <- {"a", "b", "c"}, Nics <- MCNics,
  Owner <- MCOwner, Subnets <- {"net1", "net2"}, SubnetOf <- MCSubnetOf,
  Groups <- {"g"}, AnyDest <- "AnyDest", Cpu <- "Cpu", Routers <- {"a", "b"},
  Routes <- AnyRoutes, Central <- FALSE, Unlimited <- FALSE, QueueSize <- 2,
  Lossy <- TRUE, Ttl <- 4, Sends <- MCSends, Apps <- {}, AppNode <- NoApp,
  AppGroup <- NoApp, MaxUpdates <- 0

Multicast == INSTANCE IpPath WITH
  delivered <- handedUp, Nodes <- {"a", "b", "c"}, Nics <- MCNics,
  Owner <- MCOwner, Subnets <- {"net1", "net2"}, SubnetOf <- MCSubnetOf,
  Groups <- {"g"}, AnyDest <- "AnyDest", Cpu <- "Cpu",
  Routers <- {"a", "b", "c"}, Routes <- AnyRoutes, Central <- FALSE,
  Unlimited <- FALSE, QueueSize <- 2, Lossy <- TRUE, Ttl <- 4,
  Sends <- MCGroupSends, Apps <- {"x", "y"},
  AppNode <- [x \in {"x", "y"} |-> "b"],
  AppGroup <- [x \in {"x", "y"} |-> "g"], MaxUpdates <- 2

Shared == INSTANCE IpPath WITH
  delivered <- handedUp, Nodes <- {"a", "b", "c"}, Nics <- MCNics,
  Owner <- MCOwner, Subnets <- {"net1", "net2"}, SubnetOf <- MCSubnetOf,
  Groups <- {"g"}, AnyDest <- "AnyDest", Cpu <- "Cpu", Routers <- {"a", "b"},
  Routes <- AnyRoutes, Central <- TRUE, Unlimited <- FALSE, QueueSize <- 2,
  Lossy <- TRUE, Ttl <- 4, Sends <- MCPairs, Apps <- {}, AppNode <- NoApp,
  AppGroup <- NoApp, MaxUpdates <- 0

\* The application file, read by two partitions, and restarts of nodes.
Sessions == INSTANCE AppSessions WITH
  old <- sessOld, failed <- sessFailed, Nodes <- {"a", "b", "c"},
  NoNode <- None, Partitions <- {1, 2}, PartitionOf <- MCPartition,
  Loopback <- {"a", "c"}, Routers <- {"c"}, Signalling <- MCSignalling,
  Gatekeepers <- {"c"}, Cellular <- {"a"}, Libraries <- MCLibraries,
  Ipv6Only <- FALSE, Files <- MCFiles, MaxRestarts <- 2

\* The daemons of a node.
Layer == INSTANCE AppLayer WITH
  next <- layerNext, failed <- layerFailed, Interfaces <- {1, 2},
  Configs <- MCConfigs, Libraries <- {"WIRELESS", "ENTERPRISE"},
  AppTypes <- {"CBR", "VOIP_CALL_INITIATOR"}

\* The interfaces of three nodes, two of them in one partition.
Setup == INSTANCE MacSetup WITH
  Nodes <- {"a", "b", "c"}, Partitions <- {1, 2}, PartitionOf <- MCPartition,
  Libraries <- {"WIRELESS", "ENTERPRISE", "NETSEC", "MILITARY", "ADVANCED", "SATELLITE", "SENSOR", "UMTS"},
  MaxInterfaces <- 2, Unset <- None, Setups <- MCSetups

\* The queues of an interface as its MAC sees them.
Queues == INSTANCE OutputQueues WITH
  config <- queueConfig, enabled <- queueUp, Packets <- MCQueued,
  Hops <- {"h1", "h2"}, QueueSize <- 2, Configs <- MCQueueConfigs

\* The MACs of the set-up, with the libraries they are in.
Macs == INSTANCE MacLayer WITH
  nic <- macNic, enabled <- macUp, last <- lastCall, ended <- endedBy,
  Libraries <- MacLibraries, Interfaces <- MCInterfaces,
  Packets <- {"p1", "p2"}

\* The protocols of a node with two interfaces.
Protocols == INSTANCE IpProtocols WITH
  phase <- ipPhase, node <- ipNode, at <- ipAt, unicast <- ipUnicast,
  multicast <- ipMulticast, routing <- ipRouting,
  groupRouting <- ipGroupRouting, settings <- ipSettings, begun <- ipBegun,
  igmpTold <- ipIgmpTold, last <- ipLast, ended <- ipEnded,
  Libraries <- IpLibraries, Interfaces <- {0, 1}, Nodes <- MCIpNodes,
  Sent <- MCRouted

-----------------------------------------------------------------------------
(* Only the component chosen at the start takes steps; the others stay None. *)

queueIdle ==
  /\ arr = None /\ head = None /\ tail = None /\ num = None
  /\ max = None /\ used = None /\ suspended = None /\ out = None
  /\ now = None /\ delays = None /\ waited = None /\ old = None
  /\ copied = None
fragmentIdle ==
  /\ clock = None /\ packetIdCounter = None /\ size = None
  /\ net = None /\ copies = None /\ fragmentList = None /\ inBuff = None
  /\ delivered = None /\ history = None
tableIdle ==
  /\ row = None /\ enabled = None /\ faultCount = None
  /\ staticFault = None /\ randomFault = None /\ numLinkfault = None
  /\ queue = None /\ sending = None /\ tunnel = None
pathIdle ==
  /\ route = None /\ multicast = None /\ updates = None
  /\ member = None /\ app = None /\ unsent = None /\ backplane = None
  /\ busy = None /\ event = None /\ air = None /\ handedUp = None
sessIdle ==
  /\ file = None /\ pc = None /\ skipped = None /\ again = None
  /\ runs = None /\ serves = None /\ sessOld = None /\ sessFailed = None
  /\ restarts = None
layerIdle ==
  /\ config = None /\ phase = None /\ layerNext = None
  /\ daemons = None /\ olsr = None /\ apps = None /\ finalised = None
  /\ layerFailed = None
setupIdle ==
  /\ setup = None /\ pos = None /\ count = None /\ nic = None
  /\ members = None /\ siteCounter = None /\ faults = None /\ exited = None
queuesIdle ==
  /\ queueConfig = None /\ queueUp = None /\ queues = None
  /\ arpQueue = None /\ known = None /\ place = None /\ header = None
macsIdle ==
  /\ macNic = None /\ macUp = None /\ where = None
  /\ awake = None /\ lastCall = None /\ endedBy = None
ipIdle ==
  /\ ipPhase = None /\ ipNode = None /\ ipAt = None
  /\ ipUnicast = None /\ ipMulticast = None /\ ipRouting = None
  /\ ipGroupRouting = None /\ ipSettings = None /\ ipBegun = None
  /\ ipIgmpTold = None /\ ipLast = None /\ ipEnded = None

Init ==
  /\ part \in {"replicate", "fragment", "fragment_order", "routes", "faults",
                 "unicast", "multicast", "central", "sessions", "layer",
                 "setup", "queues", "macs", "protocols"}
  /\ IF part = "replicate" THEN Replica!ReplicateInit ELSE queueIdle
  /\ CASE part = "fragment" -> Fragment!Init
       [] part = "fragment_order" -> InOrder!Init
       [] OTHER -> fragmentIdle
  /\ CASE part = "routes" -> Routing!Init
       [] part = "faults" -> Faults!Init
       [] OTHER -> tableIdle
  /\ CASE part = "unicast" -> Unicast!Init
       [] part = "multicast" -> Multicast!Init
       [] part = "central" -> Shared!Init
       [] OTHER -> pathIdle
  /\ IF part = "sessions" THEN Sessions!Init ELSE sessIdle
  /\ IF part = "layer" THEN Layer!Init ELSE layerIdle
  /\ IF part = "setup" THEN Setup!Init ELSE setupIdle
  /\ IF part = "queues" THEN Queues!Init ELSE queuesIdle
  /\ IF part = "macs" THEN Macs!Init ELSE macsIdle
  /\ IF part = "protocols" THEN Protocols!Init ELSE ipIdle

queueRest == <<part, fragmentVars, tableVars, pathVars, sessVars, layerVars,
               setupVars, queuesVars, macsVars, ipVars>>
fragmentRest == <<part, queueVars, tableVars, pathVars, sessVars, layerVars,
                  setupVars, queuesVars, macsVars, ipVars>>
tableRest == <<part, queueVars, fragmentVars, pathVars, sessVars, layerVars,
               setupVars, queuesVars, macsVars, ipVars>>
pathRest == <<part, queueVars, fragmentVars, tableVars, sessVars, layerVars,
              setupVars, queuesVars, macsVars, ipVars>>
sessRest == <<part, queueVars, fragmentVars, tableVars, pathVars, layerVars,
              setupVars, queuesVars, macsVars, ipVars>>
layerRest == <<part, queueVars, fragmentVars, tableVars, pathVars, sessVars,
               setupVars, queuesVars, macsVars, ipVars>>
setupRest == <<part, queueVars, fragmentVars, tableVars, pathVars, sessVars,
               layerVars, queuesVars, macsVars, ipVars>>
queuesRest == <<part, queueVars, fragmentVars, tableVars, pathVars, sessVars,
                layerVars, setupVars, macsVars, ipVars>>
macsRest == <<part, queueVars, fragmentVars, tableVars, pathVars, sessVars,
              layerVars, setupVars, queuesVars, ipVars>>
ipRest == <<part, queueVars, fragmentVars, tableVars, pathVars, sessVars,
            layerVars, setupVars, queuesVars, macsVars>>

Next ==
  \/ part = "replicate" /\ Replica!ReplicateNext /\ UNCHANGED queueRest
  \/ part = "fragment" /\ Fragment!Next /\ UNCHANGED fragmentRest
  \/ part = "fragment_order" /\ InOrder!Next /\ UNCHANGED fragmentRest
  \/ part = "routes" /\ Routing!Next /\ UNCHANGED tableRest
  \/ part = "faults" /\ Faults!Next /\ UNCHANGED tableRest
  \/ part = "unicast" /\ Unicast!Next /\ UNCHANGED pathRest
  \/ part = "multicast" /\ Multicast!Next /\ UNCHANGED pathRest
  \/ part = "central" /\ Shared!Next /\ UNCHANGED pathRest
  \/ part = "sessions" /\ Sessions!Next /\ UNCHANGED sessRest
  \/ part = "layer" /\ Layer!Next /\ UNCHANGED layerRest
  \/ part = "setup" /\ Setup!Next /\ UNCHANGED setupRest
  \/ part = "queues" /\ Queues!Next /\ UNCHANGED queuesRest
  \/ part = "macs" /\ Macs!Next /\ UNCHANGED macsRest
  \/ part = "protocols" /\ Protocols!Next /\ UNCHANGED ipRest

Spec == Init /\ [][Next]_vars

ASSUME Assumptions ==
  /\ Fragment!FragmentAssumption /\ InOrder!FragmentAssumption
  /\ Routing!TableAssumption /\ Faults!TableAssumption
  /\ Unicast!PathAssumption /\ Multicast!PathAssumption /\ Shared!PathAssumption
  /\ Setup!SetupAssumption /\ Queues!QueuesAssumption /\ Protocols!IpAssumption
  /\ RadioMacs = {x[1] : x \in Setup!Macs4}

-----------------------------------------------------------------------------
(* The properties of each part, where it is the one that runs.  What is said *)
(* of several parts is the same promise made by each.                        *)

\* A queue that replaces another has its packets, in their order.  Whatever waits for an
\* interface, what its MAC is shown is what it then takes, with the layer it belongs to.
OrderKept ==
  /\ part = "replicate" => Replica!OrderKept
  /\ part = "queues" => Queues!QueuesSound

\* What the reassembly hands up is one datagram, whole and in order, however it was
\* cut, cut again, repeated, reordered or lost; over a network that keeps the order
\* a datagram that came in time is handed up.  The buffered fragments are counted.
DatagramsWhole ==
  /\ part = "fragment" => Fragment!DeliveredWhole /\ Fragment!BufferCounted
  /\ part = "fragment_order" => InOrder!CompleteIsDelivered

\* The first row that matches is the longest prefix, and of those the most trusted
\* protocol, whatever order the rows were written in.  Overlapping faults keep an
\* interface down until the last one ends; its static routes are off exactly then,
\* and no packet waits where nobody would fetch it.
RoutesFollow ==
  /\ part = "routes" => Routing!LookupIsBest /\ Routing!StaticRoutesFollow
  /\ part = "faults" => Faults!DownWhileFaulty /\ Faults!NothingStranded

\* A packet in a queue of a router is always on its way, and the event that takes it
\* out finds it and its next hop, with the status the code asserts.
BackplaneMoves ==
  /\ part = "unicast" => Unicast!BackplaneMoves /\ Unicast!HopOfPacket
  /\ part = "multicast" => Multicast!BackplaneMoves /\ Multicast!HopOfPacket
  /\ part = "central" => Shared!BackplaneMoves /\ Shared!HopOfPacket

\* A unicast packet is never doubled, whatever the routes; a node counts the
\* applications that have joined a group and not left it.
UnicastOnce ==
  /\ part = "unicast" => Unicast!UnicastOnce
  /\ part = "multicast" => Multicast!MemberCount

\* What the partitions create from the application file is what one partition that
\* has all nodes would, and every session whose two ends can exist has both.  They
\* count the interfaces of all nodes alike, and a member of a subnet or the other end
\* of a link is the interface its own partition has built, with its address.
SessionsWhole ==
  /\ part = "sessions" => Sessions!SplitDoesNotMatter /\ Sessions!SessionsWhole
  /\ part = "setup" => Setup!SetupIsWhole

\* A node that restarts creates only sessions of its own.
RestartIsLocal == part = "sessions" => Sessions!RestartIsLocal

\* Whatever the configuration, a node ends each protocol it began and no other, hands
\* every event to one that is there, and serves one version of IP with OLSR.  Every MAC
\* that the set-up starts has a case in each table of the MAC layer it can reach, is
\* told of every packet that waits for it, and is ended.  The protocols of the network
\* layer are shared, reached and ended so too, and each packet is taken by one of them.
EndsWhatItBegan ==
  /\ part = "layer" => Layer!EndsWhatItBegan /\ Layer!OlsrServesOneVersion /\ Layer!AllHandled
  /\ part = "macs" => Macs!MacLayerSound
  /\ part = "protocols" => Protocols!ProtocolsSound
=============================================================================
