------------------------------ MODULE MeshPortal ------------------------------
(***************************************************************************)
(* Portal announcements of a mesh (mac_dot11s.cpp).  A portal announces    *)
(* itself with ascending sequence numbers; who hears an announcement that  *)
(* is new records the neighbour it came from and repeats it after a delay, *)
(* as long as it has life left and there is somebody else to hear it.      *)
(* Metrics are left out: an announcement with the number of the last one   *)
(* is discarded before they are compared.                                  *)
(***************************************************************************)
EXTENDS Integers, Sequences, FiniteSets

CONSTANTS
  MPs, Portals,
  Links,      \* pairs of mesh points with an established link
  InRange,    \* pairs of mesh points that hear one another
  NoHop,
  TtlMax,
  Lossy,
  MaxSeq      \* announcements of each portal

\* A portal is a mesh point; the ttl is an unsigned char.
Byte == 256
PortalAssumption == Portals \subseteq MPs /\ TtlMax \in 0 .. Byte - 1 /\ Lossy \in BOOLEAN

VARIABLES
  queue,    \* mgmtQueue of each mesh point
  item,     \* portalList: the last announcement, its neighbour, and isActive
  timers,   \* propagation timers under way: how many for each portal
  seqNo     \* portalSeqNo

vars == <<queue, item, timers, seqNo>>

Pann(p, seq, hops, ttl) == [portal |-> p, seq |-> seq, hops |-> hops, ttl |-> ttl]
AssociatedNeighborCount(n) == Cardinality({m \in MPs : <<n, m>> \in Links})

NoItem == [seq |-> 0, hops |-> 0, ttl |-> 0, nextHop |-> NoHop, isActive |-> FALSE]

Init ==
  /\ queue = [n \in MPs |-> <<>>]
  /\ item = [n \in MPs |-> [p \in Portals |-> NoItem]]
  /\ timers = [n \in MPs |-> [p \in Portals |-> 0]]
  /\ seqNo = [p \in Portals |-> 0]

\* Dot11sMgmtQueue_EnqueuePacket.
EnqueuePacket(n, pann) == queue' = [queue EXCEPT ![n] = Append(@, pann)]

PannEvent(p) ==
  /\ seqNo[p] < MaxSeq
  /\ seqNo' = [seqNo EXCEPT ![p] = @ + 1]
  /\ EnqueuePacket(p, Pann(p, seqNo[p] + 1, 0, TtlMax))
  /\ UNCHANGED <<item, timers>>

\* Mutant of IsNew: the announcement that is known already is taken again.
IsNewOrSame(n, pann) == pann.portal # n /\ pann.hops <= TtlMax /\ pann.seq >= item[n][pann.portal].seq
\* What a mesh point records, and whether it will repeat the announcement.
IsNew(n, pann) ==
  /\ pann.portal # n
  /\ pann.hops <= TtlMax
  /\ pann.seq > item[n][pann.portal].seq
Record(pann, ta) ==
  [seq |-> pann.seq, hops |-> pann.hops + 1, ttl |-> (pann.ttl - 1) % Byte, nextHop |-> ta, isActive |-> TRUE]

\* The frame at the head of the queue is sent; each neighbour that hears it handles it.
ReceivePann(n, hearers, pann) ==
  LET takes == {m \in hearers : <<m, n>> \in Links /\ IsNew(m, pann)} IN
  /\ item' = [m \in MPs |->
       IF m \in takes THEN [item[m] EXCEPT ![pann.portal] = Record(pann, n)] ELSE item[m]]
  /\ timers' = [m \in MPs |->
       IF m \in takes /\ (pann.ttl - 1) % Byte >= 1 THEN [timers[m] EXCEPT ![pann.portal] = @ + 1] ELSE timers[m]]

Transmit(n) ==
  LET near == {m \in MPs : <<n, m>> \in InRange} IN
  /\ queue[n] # <<>>
  /\ queue' = [queue EXCEPT ![n] = Tail(@)]
  /\ \E lost \in IF Lossy THEN SUBSET near ELSE {{}} : ReceivePann(n, near \ lost, Head(queue[n]))
  /\ UNCHANGED seqNo

\* The last announcement is repeated, be it the one that started the timer or a newer.
PannPropagationEvent(n, p) ==
  LET last == item[n][p] IN
  /\ timers[n][p] > 0
  /\ timers' = [timers EXCEPT ![n][p] = @ - 1]
  /\ IF AssociatedNeighborCount(n) > 1
     THEN EnqueuePacket(n, Pann(p, last.seq, last.hops, last.ttl))
     ELSE UNCHANGED queue
  /\ UNCHANGED <<item, seqNo>>

\* Dot11sPortalList_AgeItems: nothing was heard of the portal for portalTimeout.
AgePortal(n, p) ==
  /\ item[n][p].isActive
  /\ item' = [item EXCEPT ![n][p].isActive = FALSE]
  /\ UNCHANGED <<queue, timers, seqNo>>

\* Dot11sMgmtQueue_AgeItems: the oldest frame is dropped.
AgeQueue(n) ==
  /\ Lossy /\ queue[n] # <<>>
  /\ queue' = [queue EXCEPT ![n] = Tail(@)]
  /\ UNCHANGED <<item, timers, seqNo>>

Quiet == \A n \in MPs : queue[n] = <<>> /\ \A p \in Portals : timers[n][p] = 0
Over == Quiet /\ (\A p \in Portals : seqNo[p] = MaxSeq) /\ UNCHANGED vars

Next ==
  \/ \E p \in Portals : PannEvent(p)
  \/ \E n \in MPs : Transmit(n) \/ AgeQueue(n)
  \/ \E n \in MPs, p \in Portals : PannPropagationEvent(n, p) \/ AgePortal(n, p)
  \/ Over

Spec == Init /\ [][Next]_vars

-----------------------------------------------------------------------------
(* What is promised. *)

Panns == UNION {{queue[n][k] : k \in DOMAIN queue[n]} : n \in MPs}

TypeOK ==
  /\ \A f \in Panns : f.portal \in Portals /\ f.seq \in 1 .. MaxSeq /\ f.hops \in 0 .. TtlMax /\ f.ttl \in 1 .. TtlMax
  /\ \A n \in MPs, p \in Portals : item[n][p].nextHop \in MPs \cup {NoHop} /\ timers[n][p] \in 0 .. MaxSeq
  /\ seqNo \in [Portals -> 0 .. MaxSeq]

\* Following the next hops leads to the portal: each is the portal or knows a later
\* announcement of it, or the same one nearer to it.  So they never go in a circle.
LeadsToPortal ==
  \A n \in MPs, p \in Portals :
    LET m == item[n][p].nextHop IN
    m \notin {NoHop, p} => \/ item[m][p].seq > item[n][p].seq
                            \/ (/\ item[m][p].seq = item[n][p].seq
                                /\ item[m][p].hops < item[n][p].hops)

\* If nothing is lost, then when all is quiet whoever has the announcement of a portal,
\* with life left and neighbours to tell, has brought it to every neighbour that hears
\* it, be it this one or a later.  It does not follow that an announcement comes as far as
\* its life: who heard of it the long way round has less of it left.
SpreadsOn ==
  Quiet /\ ~ Lossy =>
    \A p \in Portals, n \in MPs, m \in MPs :
      m # p /\ <<m, n>> \in Links /\ <<n, m>> \in InRange =>
        /\ n = p => item[m][p].seq >= seqNo[p]
        /\ item[n][p].hops < TtlMax /\ AssociatedNeighborCount(n) > 1 => item[m][p].seq >= item[n][p].seq

=============================================================================
