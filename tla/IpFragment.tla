----------------------------- MODULE IpFragment -----------------------------
(***************************************************************************)
(* Fragmentation and reassembly of IPv4 (network_ip.cpp): a sender and a   *)
(* router cut datagrams to their fragmentation units, the destination      *)
(* keeps one sorted list of fragments per datagram and joins it when the   *)
(* fragment without the more-fragments flag comes.                         *)
(*                                                                         *)
(* Lengths count units of eight octets behind the header; the last unit    *)
(* may be shorter.  A unit is the pair of its datagram and its place.  All *)
(* datagrams have one source and destination.  The length checks on what   *)
(* is received never fail on what IpFragmentPacket builds.                 *)
(***************************************************************************)
EXTENDS Integers, Sequences, FiniteSets, SequencesExt

CONSTANTS
    Sizes,       \* lengths of the datagrams sent
    SenderUnit,  \* units that fit into IP-FRAGMENTATION-UNIT of the sender
    RouterUnit,  \* and of the router behind it
    IdSpace,     \* values of ip_id, 65536 in the program
    HoldTime,    \* ip->ipFragHoldTime
    InOrder,     \* whether the network keeps the order of the fragments
    MaxPackets,  \* bound: datagrams
    MaxTime,     \* bound: the clock
    MaxCopies    \* bound: fragments the network delivers twice

FragmentAssumption ==
    /\ Sizes \subseteq Nat \ {0}
    /\ {SenderUnit, RouterUnit, IdSpace} \subseteq Nat \ {0}
    /\ {HoldTime, MaxPackets, MaxTime, MaxCopies} \subseteq Nat
    /\ InOrder \in BOOLEAN

VARIABLES
    now,              \* the clock
    packetIdCounter,  \* of the sender, modulo IdSpace
    size,             \* lengths of the datagrams sent so far
    net,              \* fragments under way
    copies,
    fragmentList,     \* the queues of the destination, ip->fragmentListFirst
    inBuff,           \* stats.ipFragsInBuff
    delivered,        \* the payloads handed up
    history           \* per datagram: units arrived, first arrival, lateness

vars == <<now, packetIdCounter, size, net, copies, fragmentList, inBuff,
          delivered, history>>

-----------------------------------------------------------------------------
Datagram(d, n, id) ==
    [id |-> id, off |-> 0, more |-> FALSE, units |-> [i \in 1 .. n |-> <<d, i>>]]

\* The pieces of f, each but the last of the full length.  The first one
\* always promises more; the last one as much as f did.
IpFragmentPacket(f, unit) ==
    LET n == Len(f.units)
        pieces == (n + unit - 1) \div unit
    IN  [k \in 1 .. pieces |->
            LET last == k * unit >= n
            IN  [id |-> f.id, off |-> f.off + (k - 1) * unit,
                 more |-> k = 1 \/ ~last \/ f.more,
                 units |-> SubSeq(f.units, (k - 1) * unit + 1,
                                  IF last THEN n ELSE k * unit)]]

\* NetworkIpSendPacketOnInterface: what is longer than the unit is cut.
SendOnInterface(f, unit) ==
    IF Len(f.units) > unit THEN IpFragmentPacket(f, unit) ELSE <<f>>

\* Every header that is added takes an id, those of the fragments are replaced.
HeadersAdded(n) == 1 + (IF n > SenderUnit THEN (n + SenderUnit - 1) \div SenderUnit ELSE 0)

Route(f) == FlattenSeq([k \in DOMAIN SendOnInterface(f, SenderUnit) |->
                            SendOnInterface(SendOnInterface(f, SenderUnit)[k], RouterUnit)])

-----------------------------------------------------------------------------
\* The queues before the one of this datagram lose those that expired.
Position(id) ==
    LET found == {q \in DOMAIN fragmentList : fragmentList[q].id = id}
    IN  IF found = {} THEN Len(fragmentList) + 1
        ELSE CHOOSE q \in found : \A r \in found : q <= r

Expired(queue) == now >= queue.holdTime
Fresh(queue) == ~Expired(queue)
Before(id) == SelectSeq(SubSeq(fragmentList, 1, Position(id) - 1), Fresh)
After(id) == SubSeq(fragmentList, Position(id) + 1, Len(fragmentList))

Total(queues) ==
    FoldLeft(LAMBDA n, queue : n + Len(queue.frags), 0, queues)

\* Fragments of a queue stay sorted by offset.
Insert(frags, f) ==
    LET lower == SelectSeq(frags, LAMBDA g : g.off < f.off)
        higher == SelectSeq(frags, LAMBDA g : g.off > f.off)
    IN  lower \o <<f>> \o higher

Duplicate(frags, f) == \E g \in Range(frags) : g.off = f.off

\* Mutant of Complete: gaps are not looked for.
CompleteAnyway(frags) == frags[1].off = 0 /\ ~frags[Len(frags)].more

\* IpFragementReassamble: offsets without a gap from zero, the end at the end.
Complete(frags) ==
    /\ frags[1].off = 0
    /\ \A i \in 2 .. Len(frags) :
        frags[i].off = frags[i - 1].off + Len(frags[i - 1].units)
    /\ ~frags[Len(frags)].more

Joined(frags) == FlattenSeq([i \in DOMAIN frags |-> frags[i].units])

-----------------------------------------------------------------------------
\* The history counts a datagram's units from the first that arrives.
Note(f) ==
    LET d == f.units[1][1]
        h == history[d]
        since == IF h.units = {} THEN now ELSE h.since
    IN  [history EXCEPT ![d] =
            [units |-> @.units \union Range(f.units), since |-> since,
             late |-> @.late \/ now >= since + HoldTime]]

\* DeliverPacket hands up what is whole and gives a fragment to IpFragmentInput.
IpFragmentInput(f) ==
    LET before == Before(f.id)
        here == Position(f.id) <= Len(fragmentList)
        queue == IF here THEN fragmentList[Position(f.id)]
                 ELSE [id |-> f.id, frags |-> <<>>, holdTime |-> now + HoldTime]
        frags == Insert(queue.frags, f)
        gone == Total(fragmentList) - Total(before) - Total(After(f.id))
                  - Len(queue.frags)
    IN  CASE f.off = 0 /\ ~f.more ->
                /\ delivered' = Append(delivered, f.units)
                /\ UNCHANGED <<fragmentList, inBuff>>
          [] Duplicate(queue.frags, f) ->
                /\ fragmentList' = before \o <<queue>> \o After(f.id)
                /\ inBuff' = inBuff - gone
                /\ UNCHANGED delivered
          [] f.more ->
                /\ fragmentList' = before \o <<[queue EXCEPT !.frags = frags]>>
                                     \o After(f.id)
                /\ inBuff' = inBuff - gone + 1
                /\ UNCHANGED delivered
          [] OTHER ->
                /\ fragmentList' = before \o After(f.id)
                /\ inBuff' = inBuff - gone + 1 - Len(frags)
                /\ delivered' = IF Complete(frags)
                                THEN Append(delivered, Joined(frags)) ELSE delivered

-----------------------------------------------------------------------------
Send ==
    /\ Len(size) < MaxPackets
    /\ \E n \in Sizes :
        LET d == Len(size) + 1
        IN  /\ size' = Append(size, n)
            /\ net' = net \o Route(Datagram(d, n, packetIdCounter))
            /\ packetIdCounter' = (packetIdCounter + HeadersAdded(n)) % IdSpace
    /\ UNCHANGED <<now, copies, fragmentList, inBuff, delivered, history>>

Arrivals == IF InOrder THEN {1} \intersect DOMAIN net ELSE DOMAIN net

Receive ==
    \E i \in Arrivals :
        /\ \/ net' = RemoveAt(net, i) /\ UNCHANGED copies
           \/ copies < MaxCopies /\ copies' = copies + 1 /\ UNCHANGED net
        /\ IpFragmentInput(net[i])
        /\ history' = Note(net[i])
        /\ UNCHANGED <<now, packetIdCounter, size>>

Lose ==
    /\ \E i \in Arrivals : net' = RemoveAt(net, i)
    /\ UNCHANGED <<now, packetIdCounter, size, copies, fragmentList, inBuff,
                   delivered, history>>

Tick ==
    /\ now < MaxTime
    /\ now' = now + 1
    /\ UNCHANGED <<packetIdCounter, size, net, copies, fragmentList, inBuff,
                   delivered, history>>

Init ==
    /\ now = 0
    /\ packetIdCounter = 0
    /\ size = <<>>
    /\ net = <<>>
    /\ copies = 0
    /\ fragmentList = <<>>
    /\ inBuff = 0
    /\ delivered = <<>>
    /\ history = [d \in 1 .. MaxPackets |->
                    [units |-> {}, since |-> 0, late |-> FALSE]]

Next == Send \/ Receive \/ Lose \/ Tick

Spec == Init /\ [][Next]_vars

-----------------------------------------------------------------------------
Payload(d) == [i \in 1 .. size[d] |-> <<d, i>>]

\* Queues hold fragments of one id, sorted, without two at one offset.
TypeOK ==
    /\ now \in 0 .. MaxTime /\ packetIdCounter \in 0 .. IdSpace - 1
    /\ copies \in 0 .. MaxCopies
    /\ \A q \in DOMAIN fragmentList :
        LET queue == fragmentList[q]
        IN  /\ queue.frags # <<>>
            /\ \A f \in Range(queue.frags) : f.id = queue.id
            /\ \A i \in 2 .. Len(queue.frags) :
                queue.frags[i - 1].off < queue.frags[i].off
            /\ \A r \in DOMAIN fragmentList :
                r # q => fragmentList[r].id # queue.id

\* The count of buffered fragments is exact over duplicates, expiry and joins.
BufferCounted == inBuff = Total(fragmentList)

\* What is handed up is one datagram, whole and in order, however it was cut,
\* cut again, repeated, reordered or lost, as long as ids do not come round.
DeliveredWhole == \A k \in DOMAIN delivered : \E d \in DOMAIN size :
                    delivered[k] = Payload(d)

\* A datagram whose fragments all came within the hold time was handed up.
CompleteIsDelivered ==
    \A d \in DOMAIN size :
        (history[d].units = Range(Payload(d)) /\ ~history[d].late)
            => \E k \in DOMAIN delivered : delivered[k] = Payload(d)

-----------------------------------------------------------------------------
(* What a comment or an assertion of the code says and its actions do not keep. *)

\* "Delete all the fragmented packets whose time has expired"
\* (network_ip.cpp:16191): no fragment is added to an expired queue.
ExpiredNotUsed ==
    [][\A q \in DOMAIN fragmentList, r \in DOMAIN fragmentList' :
        (fragmentList[q].id = fragmentList'[r].id /\ Expired(fragmentList[q]))
            => fragmentList'[r].frags = fragmentList[q].frags]_vars
=============================================================================
