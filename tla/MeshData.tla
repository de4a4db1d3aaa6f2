------------------------------- MODULE MeshData -------------------------------
(***************************************************************************)
(* The data frames of a mesh (mac_dot11s.cpp): broadcasts are flooded with *)
(* the help of a list of frames seen, unicasts follow the active path      *)
(* protocol, access points relay between their stations and the mesh, and  *)
(* portals hand up what is for a destination they are the proxy of.        *)
(*                                                                         *)
(* A transmission is one step in which every receiver handles the frame:   *)
(* the handlers change nothing but their own node.  The links between mesh *)
(* points are established (MeshPeering) and do not change.                 *)
(***************************************************************************)
EXTENDS Integers, Sequences, FiniteSets

CONSTANTS
  MPs, MAPs, Portals,  \* the mesh points; those with stations; those with isMpp
  Stations,
  AnyMac,              \* ANY_MAC802
  NoHop,
  Links,               \* pairs of mesh points with an established link
  InRange,             \* pairs of mesh points that hear one another
  Homes,               \* where the stations may be associated at first
  NextHop,             \* of the path protocol: mesh point and destination
  ProxyOf,             \* proxy of each destination outside the mesh: a portal
  TtlMax,
  SeqLimit,            \* 0xFFFF + 1
  HandUp,              \* DOT11s_MAP_HANDOFF_BC_TO_NETWORK_LAYER
  Lossy,
  Sends,               \* what may be sent: source and destination
  MaxSends, MaxRoams

\* Mesh points, stations, the group address and the destinations outside the mesh are
\* different addresses, and a proxy is a portal.
DataAssumption ==
  LET ends == MPs \cup Stations
      dests == ends \cup {AnyMac} \cup DOMAIN ProxyOf
  IN
  /\ IsFiniteSet(MPs) /\ MAPs \cup Portals \subseteq MPs
  /\ MPs \cap Stations = {} /\ AnyMac \notin ends /\ NoHop \notin MPs \cup {AnyMac}
  /\ DOMAIN ProxyOf \cap (ends \cup {AnyMac}) = {} /\ \A d \in DOMAIN ProxyOf : ProxyOf[d] \in Portals
  /\ \A n \in MPs, d \in dests \ {AnyMac} : NextHop[n, d] \in MPs \cup {NoHop}
  /\ Homes \subseteq [Stations -> MAPs] /\ Sends \subseteq ends \X dests
  /\ TtlMax \in Nat /\ MaxSends \in Nat /\ SeqLimit \in Nat \ {0} /\ {HandUp, Lossy} \subseteq BOOLEAN

\* No frame uses its life up on a way that meets nobody twice.
LongLife == TtlMax >= Cardinality(MPs) - 1

VARIABLES
  mp,        \* of each mesh point: dataQueue, dataSeenList and e2eList
  stations,  \* stationList of each access point
  home,      \* the access point that a station is associated with
  got,       \* packets handed to the upper layer of a node or station: how often
  sent,      \* the packets so far: source and destination
  roams

vars == <<mp, stations, home, got, sent, roams>>

Frame(type, ra, ta, da, sa, seq, ttl, id) ==
  [type |-> type, RA |-> ra, TA |-> ta, DA |-> da, SA |-> sa, seq |-> seq, ttl |-> ttl, id |-> id]

\* What the list of frames seen compares.
Key(f) == <<f.DA, f.SA, f.seq>>

IsAssociatedNeighbor(n, m) == <<n, m>> \in Links
AssociatedNeighborCount(n) == Cardinality({m \in MPs : IsAssociatedNeighbor(n, m)})
IsSelfOrBssStationAddr(n, a) == a = n \/ (n \in MAPs /\ a \in stations[n])

-----------------------------------------------------------------------------
(* What a handler does with the state s of its node n; up collects the packets *)
(* that it hands to the upper layer.                                           *)

EnqueuePacket(s, f) == [s EXCEPT !.queue = Append(@, f)]

\* Mutant of SendDataFrameToMesh: the frame is not entered in the list of frames seen.
SendUnlisted(s, f) == EnqueuePacket(s, [f EXCEPT !.type = "mesh"])
SendDataFrameToMesh(s, f) ==
  [EnqueuePacket(s, [f EXCEPT !.type = "mesh"]) EXCEPT !.seen = @ \cup {Key(f)}]
SendFrameToBss(s, f) == EnqueuePacket(s, [f EXCEPT !.type = "data", !.ttl = 0])
SendFrameToUpperLayer(s, f) == [s EXCEPT !.up = Append(@, f.id)]

\* The router function queues the frame for the next hop of its destination, if any.
SendFrameToRoutingFunction(n, s, f) ==
  IF NextHop[n, f.DA] = NoHop THEN s
  ELSE EnqueuePacket(s, [f EXCEPT !.type = "mesh", !.RA = NextHop[n, f.DA], !.TA = n])

\* Dot11sE2eList_NextSeqNo: counted for each destination by the node itself.
NextSeqNo(s, da) == (s.e2e[da] + 1) % SeqLimit
Numbered(s, da) == [s EXCEPT !.e2e[da] = NextSeqNo(s, da)]

\* A copy for the mesh and one for the stations, as there are some.
Both(s, f, toMesh, toBss) ==
  LET t == IF toMesh THEN SendDataFrameToMesh(s, f) ELSE s
  IN IF toBss THEN SendFrameToBss(t, f) ELSE t

\* Dot11s_ReceiveDataBroadcast.
ReceiveDataBroadcast(n, s, f) ==
  LET t == IF n \in MAPs /\ ~ HandUp THEN s ELSE SendFrameToUpperLayer(s, f)
      toMesh == f.ttl > 0 /\ AssociatedNeighborCount(n) > 1
      out == [f EXCEPT !.TA = n, !.ttl = IF toMesh THEN @ - 1 ELSE @]
  IN IF \/ ~ IsAssociatedNeighbor(n, f.TA)
        \/ Key(f) \in s.seen
        \/ IsSelfOrBssStationAddr(n, f.SA)
     THEN s
     ELSE Both(t, out, toMesh, n \in MAPs /\ stations[n] # {})

\* A broadcast of a station is numbered by its access point and keeps its address.
BroadcastFromBss(n, s, f) ==
  LET t == IF HandUp \/ n \in Portals THEN SendFrameToUpperLayer(s, f) ELSE s
      toMesh == AssociatedNeighborCount(n) > 0
      out == [f EXCEPT !.RA = AnyMac, !.TA = n, !.ttl = TtlMax, !.seq = NextSeqNo(s, AnyMac)]
  IN Both(IF toMesh THEN Numbered(t, AnyMac) ELSE t, out, toMesh, Cardinality(stations[n]) > 1)

\* A unicast that leaves the BSS: a portal looks first for the proxy of its destination,
\* and sends to that of another portal without asking the path protocol.
LeaveBss(n, s, f) ==
  LET out == [f EXCEPT !.TA = n, !.ttl = TtlMax, !.seq = NextSeqNo(s, f.DA)] IN
  IF n \notin Portals \/ f.DA \notin DOMAIN ProxyOf
  THEN SendFrameToRoutingFunction(n, Numbered(s, f.DA), out)
  ELSE IF ProxyOf[f.DA] = n THEN SendFrameToUpperLayer(s, f)
  ELSE SendDataFrameToMesh(Numbered(s, f.DA), [out EXCEPT !.RA = NextHop[n, ProxyOf[f.DA]]])

UnicastFromBss(n, s, f) ==
  IF f.DA = n THEN SendFrameToUpperLayer(s, f)
  ELSE IF f.DA \in stations[n] THEN SendFrameToBss(s, [f EXCEPT !.RA = f.DA, !.TA = n])
  ELSE LeaveBss(n, s, f)

\* A portal that is not the proxy of the destination sends on whatever the TTL is.
UnicastFromMesh(n, s, f) ==
  LET proxied == n \in Portals /\ f.DA \in DOMAIN ProxyOf IN
  CASE ~ IsAssociatedNeighbor(n, f.TA) -> s
    [] IsAssociatedNeighbor(n, f.TA) /\ f.DA = n -> SendFrameToUpperLayer(s, f)
    [] IsAssociatedNeighbor(n, f.TA) /\ f.DA # n /\ IsSelfOrBssStationAddr(n, f.DA) ->
         SendFrameToBss(s, [f EXCEPT !.RA = f.DA, !.TA = n])
    [] OTHER ->
         IF proxied /\ ProxyOf[f.DA] = n THEN SendFrameToUpperLayer(s, f)
         ELSE IF ~ proxied /\ f.ttl <= 1 THEN s
         ELSE SendFrameToRoutingFunction(n, s, [f EXCEPT !.ttl = @ - 1])

ReceiveDataUnicast(n, s, f) ==
  IF f.type = "mesh" THEN UnicastFromMesh(n, s, f)
  ELSE IF f.DA = AnyMac THEN BroadcastFromBss(n, s, f) ELSE UnicastFromBss(n, s, f)

\* A portal sends towards the proxy of the destination, if that has one.
LeaveNode(n, t, f) ==
  IF n \in Portals /\ f.DA \in DOMAIN ProxyOf
  THEN SendDataFrameToMesh(t, [f EXCEPT !.RA = NextHop[n, ProxyOf[f.DA]]])
  ELSE SendFrameToRoutingFunction(n, t, f)

\* Dot11s_ReceiveNetworkLayerPacket: a packet of the node itself.
ReceiveNetworkLayerPacket(n, s, dst, id) ==
  LET t == Numbered(s, dst)
      f == Frame("mesh", dst, n, dst, n, t.e2e[dst], TtlMax, id)
  IN CASE dst = AnyMac -> Both(t, f, AssociatedNeighborCount(n) > 0, n \in MAPs /\ stations[n] # {})
       [] dst # AnyMac /\ IsSelfOrBssStationAddr(n, dst) -> SendFrameToBss(t, f)
       [] OTHER -> LeaveNode(n, t, f)

-----------------------------------------------------------------------------

Ids == 1 .. MaxSends
Dests == MPs \cup Stations \cup {AnyMac} \cup DOMAIN ProxyOf
Ends == MPs \cup Stations

Init ==
  /\ home \in Homes
  /\ stations = [m \in MAPs |-> {s \in Stations : home[s] = m}]
  /\ mp = [n \in MPs |-> [queue |-> <<>>, seen |-> {}, e2e |-> [d \in Dests |-> 0], up |-> <<>>]]
  /\ got = [x \in Ends |-> [i \in Ids |-> 0]] /\ sent = <<>> /\ roams = 0

\* The new states of the mesh points, with what they hand up counted.
Count(q, i) == Cardinality({k \in DOMAIN q : q[k] = i})
Become(new, heard) ==
  /\ mp' = [n \in MPs |-> [new[n] EXCEPT !.up = <<>>]]
  /\ got' = [x \in Ends |-> [i \in Ids |->
       got[x][i] + (IF x \in MPs THEN Count(new[x].up, i)
                    ELSE IF \E f \in heard : f[1] = x /\ f[2] = i THEN 1 ELSE 0)]]

FromNetwork(n, dst) ==
  /\ Len(sent) < MaxSends /\ <<n, dst>> \in Sends
  /\ sent' = Append(sent, <<n, dst>>)
  /\ Become([mp EXCEPT ![n] = ReceiveNetworkLayerPacket(n, @, dst, Len(sent) + 1)], {})
  /\ UNCHANGED <<stations, home, roams>>

\* A station sends everything to its access point, which acknowledges it.
FromStation(s, dst) ==
  LET n == home[s]
      f == Frame("data", n, s, dst, s, 0, 0, Len(sent) + 1)
  IN
  /\ Len(sent) < MaxSends /\ <<s, dst>> \in Sends
  /\ sent' = Append(sent, <<s, dst>>)
  /\ Become([mp EXCEPT ![n] = ReceiveDataUnicast(n, @, f)], {})
  /\ UNCHANGED <<stations, home, roams>>

\* The MAC sends the first frame of the queue; it may be lost to some or to all.
Transmit(n) ==
  LET f == Head(mp[n].queue)
      sender == [mp EXCEPT ![n].queue = Tail(@)]
      near == IF f.type = "data" THEN {} ELSE
              IF f.RA = AnyMac THEN {m \in MPs : <<n, m>> \in InRange} ELSE {f.RA} \cap {m \in MPs : <<n, m>> \in InRange}
      own == IF f.type = "data" THEN {s \in Stations : home[s] = n /\ f.RA \in {AnyMac, s}} ELSE {}
  IN
  /\ mp[n].queue # <<>>
  /\ \E lost \in IF Lossy THEN {{}} \cup {{x} : x \in near \cup own} ELSE {{}} :
       Become([m \in MPs |->
                 IF m \notin near \ lost THEN sender[m]
                 ELSE IF f.RA = AnyMac THEN ReceiveDataBroadcast(m, sender[m], f)
                 ELSE ReceiveDataUnicast(m, sender[m], f)],
              {<<s, f.id>> : s \in own \ lost})
  /\ UNCHANGED <<stations, home, sent, roams>>

\* Dot11s_DeletePacketsToNode: the path protocol gives a next hop or a destination up.
IsTo(f, hop, dst) == (hop = AnyMac \/ f.RA = hop) /\ (dst = AnyMac \/ f.DA = dst)

\* The frames of a queue that do not go there, in their order.
Without(q, hop, dst) ==
  LET kept[k \in 0 .. Len(q)] ==
        IF k = 0 THEN <<>>
        ELSE IF IsTo(q[k], hop, dst) THEN kept[k - 1] ELSE Append(kept[k - 1], q[k])
  IN  kept[Len(q)]

DeletePacketsToNode(n, hop, dst) ==
  /\ Lossy /\ {hop, dst} # {AnyMac}
  /\ Without(mp[n].queue, hop, dst) # mp[n].queue
  /\ mp' = [mp EXCEPT ![n].queue = Without(@, hop, dst)]
  /\ UNCHANGED <<stations, home, got, sent, roams>>

\* The oldest frames of the queue are dropped, and entries of the list of frames seen
\* that are older than any copy of the frame can be.
AgeQueue(n) ==
  /\ Lossy /\ mp[n].queue # <<>>
  /\ mp' = [mp EXCEPT ![n].queue = Tail(@)]
  /\ UNCHANGED <<stations, home, got, sent, roams>>
AgeSeen(n) ==
  \E key \in mp[n].seen :
    /\ \A m \in MPs : \A k \in DOMAIN mp[m].queue : Key(mp[m].queue[k]) # key
    /\ mp' = [mp EXCEPT ![n].seen = @ \ {key}]
    /\ UNCHANGED <<stations, home, got, sent, roams>>

\* A station associates with another access point; the one before keeps it in its list.
StationAssociateEvent(s, m) ==
  /\ roams < MaxRoams /\ home[s] # m /\ m \in MAPs
  /\ home' = [home EXCEPT ![s] = m]
  /\ stations' = [stations EXCEPT ![m] = @ \cup {s}]
  /\ roams' = roams + 1
  /\ UNCHANGED <<mp, got, sent>>

Quiet == \A n \in MPs : mp[n].queue = <<>>
Over == Quiet /\ Len(sent) = MaxSends /\ UNCHANGED vars

Next ==
  \/ \E x \in Sends : x[1] \in MPs /\ FromNetwork(x[1], x[2])
  \/ \E x \in Sends : x[1] \in Stations /\ FromStation(x[1], x[2])
  \/ \E n \in MPs : Transmit(n) \/ AgeQueue(n) \/ AgeSeen(n)
  \/ \E n \in MPs, hop, dst \in Dests : DeletePacketsToNode(n, hop, dst)
  \/ \E s \in Stations, m \in MAPs : StationAssociateEvent(s, m)
  \/ Over

Spec == Init /\ [][Next]_vars

-----------------------------------------------------------------------------
(* What is promised. *)

Frames == UNION {{mp[n].queue[k] : k \in DOMAIN mp[n].queue} : n \in MPs}

TypeOK ==
  /\ \A n \in MPs : mp[n].up = <<>> /\ mp[n].e2e \in [Dests -> 0 .. SeqLimit - 1]
  /\ \A f \in Frames : /\ f.type \in {"mesh", "data"} /\ f.ttl \in 0 .. TtlMax
                       /\ f.id \in 1 .. Len(sent) /\ f.TA \in MPs
  /\ home \in [Stations -> MAPs] /\ \A s \in Stations : s \in stations[home[s]]
  /\ got \in [Ends -> [Ids -> Nat]]

\* The nodes that a packet is for: of a broadcast everybody else who listens, of one for
\* a destination outside the mesh its proxy.
For(i) ==
  LET src == sent[i][1]
      dst == sent[i][2]
  IN IF dst = AnyMac THEN {x \in Ends \ {src} : x \in MAPs => HandUp}
     ELSE IF dst \in DOMAIN ProxyOf THEN {ProxyOf[dst]} ELSE {dst}

\* Nobody gets a packet that is not for him or gets one twice, whatever copies go round
\* the mesh, as long as no copy uses up its life: the one that does is handed up without
\* being entered in the list of frames seen.  The sender of a broadcast may hear itself in
\* its own BSS, and a station that moves hears the broadcast of either access point.
NeverTwice ==
  \A i \in 1 .. Len(sent), x \in Ends :
    /\ got[x][i] <= 1 \/ (x \in Stations /\ roams > 0)
    /\ got[x][i] > 0 => x \in For(i) \/ (sent[i][2] = AnyMac /\ x \in Stations \cup Portals)

\* If nothing is lost and no station has moved, then everybody gets what is for him.
AllReached ==
  Quiet /\ ~ Lossy /\ roams = 0 => \A i \in 1 .. Len(sent) : \A x \in For(i) : got[x][i] = 1

=============================================================================
