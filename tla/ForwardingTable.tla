-------------------------- MODULE ForwardingTable --------------------------
(***************************************************************************)
(* The forwarding table of a router and the faults of its interfaces       *)
(* (network_ip.cpp, mac.cpp): routing protocols write rows, a fault of an  *)
(* interface switches rows off and drains the output queue, packets look   *)
(* their route up and wake the MAC.                                        *)
(*                                                                         *)
(* An address has Width bits; a prefix is a pair of an address and the     *)
(* number of its leading bits.  Packets are counted.  ARP, loopback and    *)
(* the backplane are off, the MAC takes one packet at a time.              *)
(***************************************************************************)
EXTENDS Integers, Sequences, FiniteSets, SequencesExt

CONSTANTS
    Width,          \* bits of an address, 32 in the program
    Announced,       \* destinations the routing protocols announce
    Types,          \* routing protocols
    AdminDistance,  \* of each type, NetworkRoutingGetAdminDistance
    Fixed,          \* ROUTING_PROTOCOL_STATIC and ROUTING_PROTOCOL_DEFAULT
    Interfaces,
    Hops,           \* next hops, among them Unreachable
    Unreachable,    \* NETWORK_UNREACHABLE
    QueueSize,      \* packets of the output queue
    Repetition,     \* faults of the random kind, randFaultPtr->repetition
    MaxRows         \* bound: rows of the table

\* The number of values of so many bits.
Values[bits \in 0 .. Width] == IF bits = 0 THEN 1 ELSE 2 * Values[bits - 1]

\* A prefix has no bit behind its length.
Mask(address, length) ==
    (address \div Values[Width - length]) * Values[Width - length]

TableAssumption ==
    /\ Width \in Nat
    /\ Announced \subseteq (0 .. Values[Width] - 1) \X (0 .. Width)
    /\ \A p \in Announced : Mask(p[1], p[2]) = p[1]
    /\ AdminDistance \in [Types -> Nat]
    /\ Fixed \subseteq Types
    /\ Unreachable \in Hops
    /\ {QueueSize, Repetition, MaxRows} \subseteq Nat

VARIABLES
    row,           \* ip->forwardTable, rows in their order
    enabled,       \* macData[i]->interfaceIsEnabled
    faultCount,    \* macData[i]->faultCount
    staticFault,   \* the pair of events of FAULT-CONFIG-FILE: what comes next
    randomFault,   \* the event of the random fault: what it is next
    numLinkfault,  \* randFault->numLinkfault
    queue,         \* packets in the output queue
    sending,       \* whether the MAC has a packet
    tunnel         \* what tunnels were last told of the interface

tableVars == <<row>>
queueVars == <<queue, sending>>
faultVars == <<enabled, faultCount, staticFault, randomFault, numLinkfault, tunnel>>
vars == <<row, enabled, faultCount, staticFault, randomFault, numLinkfault,
          queue, sending, tunnel>>

-----------------------------------------------------------------------------
Distance(type) == AdminDistance[type]

SameKey(r, s) == r.prefix = s.prefix /\ r.type = s.type

\* Mutant of Precedes: the protocol does not count.
PrecedesAnyType(r, s) ==
    \/ r.prefix[1] > s.prefix[1]
    \/ r.prefix[1] = s.prefix[1] /\ r.prefix[2] > s.prefix[2]

\* The rows descend by address, mask, and the trust in the protocol.
Precedes(r, s) ==
    \/ r.prefix[1] > s.prefix[1]
    \/ r.prefix[1] = s.prefix[1] /\ r.prefix[2] > s.prefix[2]
    \/ r.prefix = s.prefix /\ Distance(r.type) < Distance(s.type)

\* A row of the same key is overwritten, a new one moves up to its place.
Written(r) ==
    IF \E k \in DOMAIN row : SameKey(row[k], r)
    THEN [k \in DOMAIN row |-> IF SameKey(row[k], r) THEN r ELSE row[k]]
    ELSE LET behind == {k \in DOMAIN row : \A j \in k .. Len(row) : Precedes(r, row[j])}
         IN  InsertAt(row, Len(row) + 1 - Cardinality(behind), r)

Usable(r) == r.hop # Unreachable /\ r.enabled

Matching(dest) == {k \in DOMAIN row :
    Mask(dest, row[k].prefix[2]) = row[k].prefix[1] /\ Usable(row[k])}

\* NetworkGetInterfaceAndNextHopFromForwardingTable: the first row that fits.
Lookup(dest) == CHOOSE k \in Matching(dest) : \A j \in Matching(dest) : k <= j

-----------------------------------------------------------------------------
\* NetworkUpdateForwardingTable, from a routing protocol.
UpdateForwardingTable ==
    /\ \E p \in Announced, t \in Types, h \in Hops, i \in Interfaces :
        LET r == [prefix |-> p, type |-> t, hop |-> h, interface |-> i,
                  enabled |-> enabled[i]]
        IN  row' = Written(r)
    /\ Len(row') <= MaxRows
    /\ UNCHANGED <<faultVars, queueVars>>

\* The rows without those of a protocol: the ones behind move down.
Without(type) ==
    LET kept[n \in 0 .. Len(row)] ==
            IF n = 0 THEN <<>>
            ELSE IF row[n].type = type THEN kept[n - 1] ELSE Append(kept[n - 1], row[n])
    IN  kept[Len(row)]

EmptyForwardingTable ==
    /\ \E t \in Types : row' = Without(t)
    /\ UNCHANGED <<faultVars, queueVars>>

-----------------------------------------------------------------------------
\* MAC_NetworkLayerHasPacketToSend with n > 0 packets in the queue: on an
\* interface that is down one of them is dropped.
MacTold(i, n) ==
    IF ~enabled[i] THEN queue' = [queue EXCEPT ![i] = n - 1] /\ UNCHANGED sending
    ELSE IF sending[i] THEN queue' = [queue EXCEPT ![i] = n] /\ UNCHANGED sending
    ELSE /\ queue' = [queue EXCEPT ![i] = n - 1]
         /\ sending' = [sending EXCEPT ![i] = TRUE]

\* QueueUpIpFragmentForMacLayer: only an empty queue tells the MAC.
QueueUpIpFragmentForMacLayer(i) ==
    CASE queue[i] = QueueSize -> UNCHANGED queueVars
      [] queue[i] = 0 /\ queue[i] < QueueSize -> MacTold(i, 1)
      [] OTHER -> queue' = [queue EXCEPT ![i] = @ + 1] /\ UNCHANGED sending

\* RouteThePacketUsingLookupTable; without a route the packet is dropped.
RouteThePacketUsingLookupTable ==
    /\ \E dest \in 0 .. Values[Width] - 1 :
        /\ Matching(dest) # {}
        /\ QueueUpIpFragmentForMacLayer(row[Lookup(dest)].interface)
    /\ UNCHANGED <<tableVars, faultVars>>

\* The MAC is done with a packet and looks for the next one.
MacDone ==
    /\ \E i \in Interfaces :
        /\ sending[i]
        /\ IF queue[i] > 0 THEN queue' = [queue EXCEPT ![i] = @ - 1] /\ UNCHANGED sending
           ELSE sending' = [sending EXCEPT ![i] = FALSE] /\ UNCHANGED queue
    /\ UNCHANGED <<tableVars, faultVars>>

-----------------------------------------------------------------------------
\* MAC_InformInterfaceStatusHandler: tunnels are told that the interface is
\* down, whatever happens to it.
Informed(i) == [tunnel EXCEPT ![i] = FALSE]

\* Rows of the static kinds through the interface follow it.
RowsSwitched(i, on) ==
    [k \in DOMAIN row |->
        IF row[k].type \in Fixed /\ row[k].interface = i
        THEN [row[k] EXCEPT !.enabled = on] ELSE row[k]]

\* MAC_ProcessDisableInterface: only the first of overlapping faults acts.
ProcessDisableInterface(i) ==
    /\ faultCount' = [faultCount EXCEPT ![i] = @ + 1]
    /\ IF faultCount[i] > 0 THEN UNCHANGED <<enabled, row, queue, tunnel>>
       ELSE /\ enabled' = [enabled EXCEPT ![i] = FALSE]
            /\ row' = RowsSwitched(i, FALSE)
            /\ queue' = [queue EXCEPT ![i] = 0]
            /\ tunnel' = Informed(i)

\* MAC_ProcessEnableInterface: the last of them.
ProcessEnableInterface(i) ==
    /\ faultCount' = [faultCount EXCEPT ![i] = @ - 1]
    /\ IF faultCount[i] > 1 THEN UNCHANGED <<enabled, row, tunnel, queueVars>>
       ELSE /\ enabled' = [enabled EXCEPT ![i] = TRUE]
            /\ row' = RowsSwitched(i, TRUE)
            /\ tunnel' = Informed(i)
            /\ IF queue[i] = 0 \/ sending[i] THEN UNCHANGED queueVars
               ELSE /\ queue' = [queue EXCEPT ![i] = @ - 1]
                    /\ sending' = [sending EXCEPT ![i] = TRUE]

\* MAC_ProcessEvent of a line of the fault file: one start, one end.
StaticFaultStarts ==
    \E i \in Interfaces :
        /\ staticFault[i] = "start"
        /\ staticFault' = [staticFault EXCEPT ![i] = "end"]
        /\ ProcessDisableInterface(i)
        /\ UNCHANGED <<randomFault, numLinkfault, sending>>

StaticFaultEnds ==
    \E i \in Interfaces :
        /\ staticFault[i] = "end"
        /\ staticFault' = [staticFault EXCEPT ![i] = "over"]
        /\ ProcessEnableInterface(i)
        /\ UNCHANGED <<randomFault, numLinkfault>>

\* The one event of a random fault turns from start to end and back.
RandomFaultStarts ==
    \E i \in Interfaces :
        /\ randomFault[i] = "start"
        /\ UNCHANGED <<staticFault, sending>>
        /\ IF Repetition > 0 /\ Repetition = numLinkfault[i]
           THEN /\ randomFault' = [randomFault EXCEPT ![i] = "over"]
                /\ UNCHANGED <<enabled, faultCount, row, queue, tunnel, numLinkfault>>
           ELSE /\ randomFault' = [randomFault EXCEPT ![i] = "end"]
                /\ numLinkfault' = [numLinkfault EXCEPT ![i] = @ + 1]
                /\ ProcessDisableInterface(i)

RandomFaultEnds ==
    \E i \in Interfaces :
        /\ randomFault[i] = "end"
        /\ randomFault' = [randomFault EXCEPT ![i] = "start"]
        /\ ProcessEnableInterface(i)
        /\ UNCHANGED <<staticFault, numLinkfault>>

-----------------------------------------------------------------------------
\* MAC_RandFaultInit; without a repetition there is no random fault here.
FirstRandomFault ==
    [i \in Interfaces |-> IF Repetition = 0 THEN "over" ELSE "start"]

Init ==
    /\ row = <<>>
    /\ enabled = [i \in Interfaces |-> TRUE]
    /\ faultCount = [i \in Interfaces |-> 0]
    /\ staticFault = [i \in Interfaces |-> "start"]
    /\ randomFault = FirstRandomFault
    /\ numLinkfault = [i \in Interfaces |-> 0]
    /\ queue = [i \in Interfaces |-> 0]
    /\ sending = [i \in Interfaces |-> FALSE]
    /\ tunnel = [i \in Interfaces |-> TRUE]

Next ==
    \/ UpdateForwardingTable \/ EmptyForwardingTable
    \/ RouteThePacketUsingLookupTable \/ MacDone
    \/ StaticFaultStarts \/ StaticFaultEnds
    \/ RandomFaultStarts \/ RandomFaultEnds

Spec == Init /\ [][Next]_vars

-----------------------------------------------------------------------------
Open(i) == (IF staticFault[i] = "end" THEN 1 ELSE 0)
             + (IF randomFault[i] = "end" THEN 1 ELSE 0)

\* A protocol has one row for a prefix, and the counts stay in their range.
TypeOK ==
    /\ \A j, k \in DOMAIN row : SameKey(row[j], row[k]) => j = k
    /\ \A i \in Interfaces :
        /\ queue[i] \in 0 .. QueueSize
        /\ faultCount[i] = Open(i)
        /\ numLinkfault[i] \in 0 .. Repetition

\* "Do a lookup on the routing table ... to obtain a route"
\* (network_ip.cpp:8213): the first match is the longest prefix, and of those
\* the most trusted protocol, whatever order the rows were written in.
LookupIsBest ==
    \A dest \in 0 .. Values[Width] - 1 : \A k \in Matching(dest) :
        LET found == row[Lookup(dest)]
        IN  \/ found.prefix[2] > row[k].prefix[2]
            \/ /\ found.prefix = row[k].prefix
               /\ Distance(found.type) <= Distance(row[k].type)

\* Overlapping faults keep an interface down until the last one ends.
DownWhileFaulty == \A i \in Interfaces : enabled[i] <=> Open(i) = 0

\* No route of the static kinds is used through an interface that is down, and
\* none is lost when it comes back.
StaticRoutesFollow ==
    \A k \in DOMAIN row :
        row[k].type \in Fixed => (row[k].enabled <=> enabled[row[k].interface])

\* Nothing waits on an interface that is down, and what waits on another one is
\* waited for by the MAC, which is not told a second time.
NothingStranded ==
    \A i \in Interfaces : queue[i] > 0 => enabled[i] /\ sending[i]

-----------------------------------------------------------------------------
(* What a comment or an assertion of the code says and its actions do not keep. *)

\* "Call the interface handler functions when interface goes up and down"
\* (mac.cpp:6019): tunnels know whether the interface is up.
TunnelFollows == \A i \in Interfaces : tunnel[i] <=> enabled[i]
=============================================================================
