--------------------------- MODULE AsdcsNodeProof ---------------------------
(***************************************************************************)
(* Theorems about the sides an ASDCS application has in its own node: the   *)
(* transmission queue that asks it for a channel and the MAC that gives it  *)
(* its address (QueueTrigger), the MAC that several applications of a node  *)
(* share (SharedMac), the video that it pauses (VideoPause), and the list   *)
(* of nodes that the MAC keeps for it (VisibleNodes).  For every number of  *)
(* sessions, queues, packets, stations and scans.                           *)
(***************************************************************************)
EXTENDS QueueTrigger, SequenceTheorems, NaturalsInduction, WellFoundedInduction, TLAPS

(* The messages under way. *)

\* The place i of the messages ms holds what takes session s on, k being the
\* session the MAC serves.
Takes(ms, k, s, i) ==
  \/ ms[i].type \in {"AddrRequest", "AddrReply"} /\ ms[i].id = s
  \/ ms[i].type = "Timer" /\ ms[i].live /\ k = s

\* No two messages take session s on, and none does that is not waiting for it.
OnceAt(ms, k, a, s) ==
  /\ \A i, j \in 1 .. Len(ms) : Takes(ms, k, s, i) /\ Takes(ms, k, s, j) => i = j
  /\ a[s].state # "PROBE_INIT" => \A i \in 1 .. Len(ms) : ~ Takes(ms, k, s, i)

\* What the handlers rely on: requests and replies are addressed to sessions, and
\* a live timer is that of a session.
Addressed(ms, k) ==
  \A i \in 1 .. Len(ms) :
    /\ ms[i].type \in {"AddrRequest", "AddrReply"} => ms[i].id \in Session
    /\ ms[i].type = "Timer" /\ ms[i].live => k \in Session

TriggerTypes ==
  /\ queue \in [Priority -> 0 .. QueueSize]
  /\ awake \in BOOLEAN
  /\ app \in [Session -> AppData]
  /\ conn \in Session \cup {NoConn}
  /\ pending \in Seq(Message)
  /\ crashed \in BOOLEAN

\* The inductive invariant.
TriggerInv ==
  /\ TriggerTypes
  /\ Addressed(pending, conn)
  /\ \A s \in Session : OnceAt(pending, conn, app, s)
  /\ \A s \in Session : ~ app[s].opened => app[s].state = "IDLE"
  /\ BacklogIsServed

\* One message at the end.
LEMMA OneMore ==
  ASSUME NEW ms \in Seq(Message), NEW m \in Message
  PROVE  /\ Append(ms, m) \in Seq(Message) /\ Len(Append(ms, m)) = Len(ms) + 1
         /\ \A i \in 1 .. Len(ms) + 1 :
              Append(ms, m)[i] = IF i \in 1 .. Len(ms) THEN ms[i] ELSE m
BY SMT

\* The first message is taken and a list of at most one added.
LEMMA FirstGone ==
  ASSUME NEW ms \in Seq(Message), ms # <<>>
  PROVE  /\ Tail(ms) \in Seq(Message) /\ Len(Tail(ms)) = Len(ms) - 1
         /\ Len(ms) \in Nat \ {0} /\ Head(ms) = ms[1] /\ ms[1] \in Message
         /\ Tail(ms) \o <<>> = Tail(ms)
         /\ \A m : Tail(ms) \o <<m>> = Append(Tail(ms), m)
         /\ \A i \in 1 .. Len(ms) - 1 : Tail(ms)[i] = ms[i + 1] /\ i + 1 \in 1 .. Len(ms)
<1>1. /\ Tail(ms) \in Seq(Message) /\ Len(Tail(ms)) = Len(ms) - 1
      /\ Len(ms) \in Nat \ {0} /\ Head(ms) = ms[1] /\ ms[1] \in Message
      /\ \A i \in 1 .. Len(ms) - 1 : Tail(ms)[i] = ms[i + 1] /\ i + 1 \in 1 .. Len(ms)
  BY SMT
<1>2. Tail(ms) \o <<>> = Tail(ms)
  BY <1>1, SMT
<1>3. \A m : Tail(ms) \o <<m>> = Append(Tail(ms), m)
  BY <1>1, SMT
<1> QED BY <1>1, <1>2, <1>3

\* A message that takes nobody on is added.
LEMMA IdleMore ==
  ASSUME NEW ms \in Seq(Message), NEW m \in Message, NEW k, NEW a,
         m.type \notin {"AddrRequest", "AddrReply"}, m.type = "Timer" => ~ m.live,
         Addressed(ms, k), \A s \in Session : OnceAt(ms, k, a, s)
  PROVE  Addressed(Append(ms, m), k) /\ \A s \in Session : OnceAt(Append(ms, m), k, a, s)
<1> DEFINE ns == Append(ms, m)
<1>1. /\ Len(ns) = Len(ms) + 1
      /\ \A i \in 1 .. Len(ms) + 1 : ns[i] = IF i \in 1 .. Len(ms) THEN ms[i] ELSE m
  BY OneMore
<1> HIDE DEF ns
<1>2. Addressed(ns, k)
  BY <1>1 DEF Addressed
<1>3. \A s \in Session : \A i \in 1 .. Len(ns) :
        Takes(ns, k, s, i) => i \in 1 .. Len(ms) /\ Takes(ms, k, s, i)
  BY <1>1 DEF Takes
<1>4. \A s \in Session : OnceAt(ns, k, a, s)
  BY <1>3 DEF OnceAt
<1> QED BY <1>2, <1>4 DEF ns

\* The first message is taken: nothing else takes on the session that it was for.
LEMMA OneLess ==
  ASSUME NEW ms \in Seq(Message), ms # <<>>, NEW k, NEW a,
         Addressed(ms, k), \A s \in Session : OnceAt(ms, k, a, s)
  PROVE  /\ Addressed(Tail(ms), k) /\ \A s \in Session : OnceAt(Tail(ms), k, a, s)
         /\ \A s \in Session : Takes(ms, k, s, 1) =>
              \A i \in 1 .. Len(Tail(ms)) : ~ Takes(Tail(ms), k, s, i)
<1> DEFINE ns == Tail(ms)
<1>1. /\ Len(ns) = Len(ms) - 1 /\ Len(ms) \in Nat \ {0} /\ ns \in Seq(Message)
      /\ \A i \in 1 .. Len(ms) - 1 : ns[i] = ms[i + 1] /\ i + 1 \in 1 .. Len(ms)
  BY FirstGone
<1> HIDE DEF ns
<1>2. Addressed(ns, k)
  BY <1>1 DEF Addressed
<1>3. \A s \in Session : \A i \in 1 .. Len(ns) :
        Takes(ns, k, s, i) => i + 1 \in 1 .. Len(ms) /\ Takes(ms, k, s, i + 1)
  BY <1>1 DEF Takes
<1>4. ASSUME NEW s \in Session PROVE OnceAt(ns, k, a, s)
  <2>1. \A i, j \in 1 .. Len(ns) : i + 1 = j + 1 => i = j
    BY <1>1, SMT
  <2> QED BY <1>3, <2>1 DEF OnceAt
<1>5. ASSUME NEW s \in Session, Takes(ms, k, s, 1), NEW i \in 1 .. Len(ns)
      PROVE  ~ Takes(ns, k, s, i)
  <2>1. 1 \in 1 .. Len(ms) /\ i + 1 # 1
    BY <1>1, SMT
  <2> QED BY <1>3, <1>5, <2>1 DEF OnceAt
<1> QED BY <1>2, <1>4, <1>5 DEF ns

\* A session that has nothing under way, and is not waiting, asks for its address.
LEMMA AskMore ==
  ASSUME NEW ms \in Seq(Message), NEW c \in Session, NEW k, NEW a, NEW b,
         Addressed(ms, k), \A s \in Session : OnceAt(ms, k, a, s),
         a[c].state # "PROBE_INIT", b[c].state = "PROBE_INIT",
         \A s \in Session \ {c} : b[s] = a[s]
  PROVE  /\ Addressed(Append(ms, Msg("AddrRequest", c)), k)
         /\ \A s \in Session : OnceAt(Append(ms, Msg("AddrRequest", c)), k, b, s)
<1> DEFINE m == Msg("AddrRequest", c)
           ns == Append(ms, m)
<1>1. m \in Message /\ m.type = "AddrRequest" /\ m.id = c
  BY DEF Msg, Message
<1>2. /\ Len(ns) = Len(ms) + 1 /\ Len(ms) \in Nat
      /\ \A i \in 1 .. Len(ms) + 1 : ns[i] = IF i \in 1 .. Len(ms) THEN ms[i] ELSE m
  BY <1>1, OneMore
<1> HIDE DEF ns, m
<1>3. Addressed(ns, k)
  BY <1>1, <1>2 DEF Addressed
<1>4. \A s \in Session : \A i \in 1 .. Len(ns) :
        Takes(ns, k, s, i) => IF i \in 1 .. Len(ms) THEN Takes(ms, k, s, i) ELSE s = c
  BY <1>1, <1>2 DEF Takes
<1>5. OnceAt(ns, k, b, c)
  <2>1. \A i \in 1 .. Len(ms) : ~ Takes(ms, k, c, i)
    BY DEF OnceAt
  <2>2. \A i, j \in 1 .. Len(ns) : i \notin 1 .. Len(ms) /\ j \notin 1 .. Len(ms) => i = j
    BY <1>2, SMT
  <2> QED BY <1>4, <2>1, <2>2 DEF OnceAt
<1>6. ASSUME NEW s \in Session \ {c} PROVE OnceAt(ns, k, b, s)
  <2>1. \A i \in 1 .. Len(ns) : Takes(ns, k, s, i) => i \in 1 .. Len(ms) /\ Takes(ms, k, s, i)
    BY <1>4
  <2> QED BY <2>1 DEF OnceAt
<1> QED BY <1>3, <1>5, <1>6 DEF ns, m

-----------------------------------------------------------------------------
(* The steps. *)

LEMMA TriggerInit == TriggerAssumption /\ Init => TriggerInv
<1> SUFFICES ASSUME TriggerAssumption, Init PROVE TriggerInv
  OBVIOUS
<1>1. TriggerTypes
  <2>1. queue \in [Priority -> 0 .. QueueSize]
    BY SMT DEF Init, TriggerAssumption
  <2>2. app \in [Session -> AppData]
    BY DEF Init, AppData
  <2>3. pending \in Seq(Message)
    BY DEF Init
  <2> QED BY <2>1, <2>2, <2>3 DEF Init, TriggerTypes
<1>2. 1 .. Len(pending) = {}
  BY SMT DEF Init
<1>3. BacklogIsServed
  BY DEF Init, BacklogIsServed, Empty
<1>4. Addressed(pending, conn)
  BY <1>2 DEF Addressed
<1>5. \A s \in Session : OnceAt(pending, conn, app, s)
  BY <1>2 DEF OnceAt
<1>6. \A s \in Session : app[s].state = "IDLE"
  BY DEF Init
<1> QED BY <1>1, <1>3, <1>4, <1>5, <1>6 DEF TriggerInv

\* A packet that finds the queue too full asks once more, and wakes the MAC.
LEMMA TrafficStep ==
  ASSUME TriggerAssumption, TriggerInv, Traffic
  PROVE  TriggerInv'
<1>1. /\ TriggerTypes /\ Addressed(pending, conn) /\ \A s \in Session : OnceAt(pending, conn, app, s)
  BY DEF TriggerInv
<1>2. app' = app /\ conn' = conn /\ crashed' = crashed /\ pending' = pending \o ScanRequest
  BY DEF Traffic, QueueUpIpFragment, Unresolved
<1>3. pending' \in Seq(Message) /\ Addressed(pending', conn)
      /\ \A s \in Session : OnceAt(pending', conn, app, s)
  <2> DEFINE m == Msg("InitiateScan", conn)
  <2>1. m \in Message /\ m.type = "InitiateScan"
    BY <1>1 DEF Msg, Message, TriggerTypes
  <2>2. CASE ScanRequest = <<>>
    <3>1. pending \o <<>> = pending
      BY <1>1, SMT DEF TriggerTypes
    <3> QED BY <1>1, <1>2, <2>2, <3>1 DEF TriggerTypes
  <2>3. CASE ScanRequest = <<m>>
    <3> HIDE DEF m
    <3>1. pending \o <<m>> = Append(pending, m)
      BY <1>1, <2>1, SMT DEF TriggerTypes
    <3>2. Append(pending, m) \in Seq(Message)
      BY <1>1, <2>1, OneMore DEF TriggerTypes
    <3> QED BY <1>1, <1>2, <2>1, <2>3, <3>1, <3>2, IdleMore DEF TriggerTypes
  <2> QED BY <2>2, <2>3 DEF ScanRequest
<1>4. ASSUME NEW tos \in Tos, QueueUpIpFragment(tos)
      PROVE  queue' \in [Priority -> 0 .. QueueSize] /\ awake' \in BOOLEAN /\ BacklogIsServed'
  <2> DEFINE p == GenericPacketClassifier(tos)
  <2>1. p \in Priority
    BY SMT DEF TriggerAssumption, GenericPacketClassifier, Priority
  <2>2. queue' = Inserted(p) /\ awake' = (awake \/ Wakes(queue'))
    BY <1>4 DEF QueueUpIpFragment
  <2> HIDE DEF p
  <2>3. queue' \in [Priority -> 0 .. QueueSize]
    <3>1. queue[p] < QueueSize => queue[p] + 1 \in 0 .. QueueSize
      BY <1>1, <2>1, SMT DEF TriggerTypes, TriggerAssumption
    <3> QED BY <1>1, <2>1, <2>2, <3>1 DEF Inserted, TriggerTypes
  <2>4. awake' \in BOOLEAN
    BY <1>1, <2>2 DEF TriggerTypes, Wakes, Empty
  <2> QED BY <2>2, <2>3, <2>4 DEF TriggerInv, BacklogIsServed, Wakes
<1>5. ASSUME Unresolved
      PROVE  queue' \in [Priority -> 0 .. QueueSize] /\ awake' \in BOOLEAN /\ BacklogIsServed'
  BY <1>1, <1>5 DEF TriggerInv, TriggerTypes, Unresolved, BacklogIsServed
<1>6. queue' \in [Priority -> 0 .. QueueSize] /\ awake' \in BOOLEAN /\ BacklogIsServed'
  BY <1>4, <1>5 DEF Traffic
<1> QED BY <1>1, <1>2, <1>3, <1>6 DEF TriggerInv, TriggerTypes

LEMMA FetchStep ==
  ASSUME TriggerAssumption, TriggerInv, MacFetches
  PROVE  TriggerInv'
<1>1. UNCHANGED <<app, conn, pending, crashed>> /\ awake
  BY DEF MacFetches
<1>2. TriggerTypes
  BY DEF TriggerInv
<1>3. CASE Empty(queue) /\ awake' = FALSE /\ queue' = queue
  BY <1>1, <1>2, <1>3 DEF TriggerInv, TriggerTypes, BacklogIsServed
<1>4. ASSUME NEW p \in Priority, queue[p] > 0, queue' = [queue EXCEPT ![p] = @ - 1], awake' = awake
      PROVE  TriggerInv'
  <2>1. queue[p] - 1 \in 0 .. QueueSize
    BY <1>2, <1>4, SMT DEF TriggerTypes, TriggerAssumption
  <2>2. queue' \in [Priority -> 0 .. QueueSize]
    BY <1>2, <1>4, <2>1 DEF TriggerTypes
  <2> QED BY <1>1, <1>2, <1>4, <2>2 DEF TriggerInv, TriggerTypes, BacklogIsServed
<1> QED BY <1>3, <1>4 DEF MacFetches

\* What a step of an application leaves to show when it does not touch the queue.
LEMMA AppStep ==
  ASSUME TriggerInv, UNCHANGED <<queue, awake>>,
         app' \in [Session -> AppData], crashed' \in BOOLEAN,
         conn' \in Session \cup {NoConn},
         pending' \in Seq(Message), Addressed(pending', conn'),
         \A s \in Session : OnceAt(pending', conn', app', s),
         \A s \in Session : ~ app'[s].opened => app'[s].state = "IDLE"
  PROVE  TriggerInv'
BY DEF TriggerInv, TriggerTypes, BacklogIsServed

\* A session whose state does not come to be or cease to be the one that waits.
LEMMA SameWaiting ==
  ASSUME NEW ms, NEW k, NEW a, NEW b, \A s \in Session : OnceAt(ms, k, a, s),
         \A s \in Session : a[s].state # b[s].state => b[s].state = "IDLE" /\ a[s].state = "ROUND"
  PROVE  \A s \in Session : OnceAt(ms, k, b, s)
BY DEF OnceAt

LEMMA OpenStep ==
  ASSUME TriggerInv, NEW c \in Client, OpenResult(c)
  PROVE  TriggerInv'
<1> DEFINE m == Msg("AddrRequest", c)
<1>1. /\ TriggerTypes /\ Addressed(pending, conn) /\ \A s \in Session : OnceAt(pending, conn, app, s)
      /\ c \in Session /\ app[c].state # "PROBE_INIT"
  BY DEF TriggerInv, OpenResult, Session
<1>2. /\ app' = [app EXCEPT ![c] = [opened |-> TRUE, state |-> "PROBE_INIT", initBackoff |-> TRUE]]
      /\ pending' = Append(pending, m)
      /\ UNCHANGED <<queue, awake, conn, crashed>>
  BY DEF OpenResult, StartProbeInit
<1>3. m \in Message
  BY <1>1 DEF Msg, Message
<1>4. pending' \in Seq(Message)
  BY <1>1, <1>2, <1>3, OneMore DEF TriggerTypes
<1>5. /\ app' \in [Session -> AppData] /\ app'[c].state = "PROBE_INIT" /\ app'[c].opened
      /\ \A s \in Session \ {c} : app'[s] = app[s]
  BY <1>1, <1>2 DEF TriggerTypes, AppData
<1>6. Addressed(pending', conn) /\ \A s \in Session : OnceAt(pending', conn, app', s)
  BY <1>1, <1>2, <1>5, AskMore DEF TriggerTypes
<1>7. \A s \in Session : ~ app'[s].opened => app'[s].state = "IDLE"
  BY <1>5 DEF TriggerInv
<1> QED BY <1>1, <1>2, <1>4, <1>5, <1>6, <1>7, AppStep DEF TriggerTypes

LEMMA ProbeStep ==
  ASSUME TriggerInv, NEW c \in Server, ProbeReceived(c)
  PROVE  TriggerInv'
<1> DEFINE m == Msg("AddrRequest", c)
<1>1. /\ TriggerTypes /\ Addressed(pending, conn) /\ \A s \in Session : OnceAt(pending, conn, app, s)
      /\ c \in Session /\ app[c].state # "PROBE_INIT"
  BY DEF TriggerInv, ProbeReceived, Session
<1>2. /\ app' = [app EXCEPT ![c].opened = TRUE, ![c].state = "PROBE_INIT"]
      /\ pending' = Append(pending, m)
      /\ UNCHANGED <<queue, awake, conn, crashed>>
  BY DEF ProbeReceived
<1>3. m \in Message
  BY <1>1 DEF Msg, Message
<1>4. pending' \in Seq(Message)
  BY <1>1, <1>2, <1>3, OneMore DEF TriggerTypes
<1>5. /\ app' \in [Session -> AppData] /\ app'[c].state = "PROBE_INIT" /\ app'[c].opened
      /\ \A s \in Session \ {c} : app'[s] = app[s]
  BY <1>1, <1>2 DEF TriggerTypes, AppData
<1>6. Addressed(pending', conn) /\ \A s \in Session : OnceAt(pending', conn, app', s)
  BY <1>1, <1>2, <1>5, AskMore DEF TriggerTypes
<1>7. \A s \in Session : ~ app'[s].opened => app'[s].state = "IDLE"
  BY <1>5 DEF TriggerInv
<1> QED BY <1>1, <1>2, <1>4, <1>5, <1>6, <1>7, AppStep DEF TriggerTypes

LEMMA TimeoutStep ==
  ASSUME TriggerInv,
         \/ \E c \in Client : ChannelSelectionTimeout(c)
         \/ \E s \in Session : RoundEnds(s)
  PROVE  TriggerInv'
<1>1. /\ TriggerTypes /\ Addressed(pending, conn) /\ \A s \in Session : OnceAt(pending, conn, app, s)
  BY DEF TriggerInv
<1>2. UNCHANGED <<queue, awake, conn, pending, crashed>>
  BY DEF ChannelSelectionTimeout, RoundEnds
<1>3. ASSUME NEW c \in Client, ChannelSelectionTimeout(c)
      PROVE  /\ app' \in [Session -> AppData]
             /\ \A s \in Session : app'[s].state = app[s].state /\ app'[s].opened = app[s].opened
  BY <1>1, <1>3 DEF ChannelSelectionTimeout, TriggerTypes, AppData, Session
<1>4. ASSUME NEW c \in Session, RoundEnds(c)
      PROVE  /\ app' \in [Session -> AppData]
             /\ \A s \in Session : /\ app'[s].opened = app[s].opened
                                   /\ \/ app'[s].state = app[s].state
                                      \/ app'[s].state = "IDLE" /\ app[s].state = "ROUND"
  BY <1>1, <1>4 DEF RoundEnds, TriggerTypes, AppData
<1>5. /\ app' \in [Session -> AppData]
      /\ \A s \in Session : /\ app'[s].opened = app[s].opened
                            /\ \/ app'[s].state = app[s].state
                               \/ app'[s].state = "IDLE" /\ app[s].state = "ROUND"
  BY <1>3, <1>4
<1>6. \A s \in Session : OnceAt(pending, conn, app', s)
  BY <1>1, <1>5, SameWaiting
<1>7. \A s \in Session : ~ app'[s].opened => app'[s].state = "IDLE"
  BY <1>5 DEF TriggerInv
<1> QED BY <1>1, <1>2, <1>5, <1>6, <1>7, AppStep DEF TriggerTypes

\* The request of the queue is handled: an idle client starts a round.
LEMMA ScanRequestStep ==
  ASSUME TriggerInv, InitiateChannelScan
  PROVE  TriggerInv'
<1>1. /\ TriggerTypes /\ Addressed(pending, conn) /\ \A s \in Session : OnceAt(pending, conn, app, s)
      /\ pending # <<>> /\ UNCHANGED <<queue, awake, conn>>
  BY DEF TriggerInv, InitiateChannelScan, Nxt
<1>2. /\ Tail(pending) \in Seq(Message) /\ Tail(pending) \o <<>> = Tail(pending)
      /\ \A m : Tail(pending) \o <<m>> = Append(Tail(pending), m)
  BY <1>1, FirstGone DEF TriggerTypes
<1>3. Addressed(Tail(pending), conn) /\ \A s \in Session : OnceAt(Tail(pending), conn, app, s)
  BY <1>1, OneLess DEF TriggerTypes
<1>4. CASE crashed' = TRUE /\ UNCHANGED <<app, pending>>
  <2>1. \A s \in Session : ~ app'[s].opened => app'[s].state = "IDLE"
    BY <1>4 DEF TriggerInv
  <2> QED BY <1>1, <1>4, <2>1, AppStep DEF TriggerTypes
<1>5. ASSUME NEW c \in Client, Idle(c), StartProbeInit(c), Consume(<<Msg("AddrRequest", c)>>),
             UNCHANGED crashed
      PROVE  TriggerInv'
  <2> DEFINE m == Msg("AddrRequest", c)
  <2>1. c \in Session /\ app[c].state # "PROBE_INIT" /\ m \in Message
    BY <1>5 DEF Idle, Session, Msg, Message
  <2>2. /\ app' = [app EXCEPT ![c] = [opened |-> TRUE, state |-> "PROBE_INIT", initBackoff |-> TRUE]]
        /\ pending' = Append(Tail(pending), m)
    BY <1>2, <1>5 DEF StartProbeInit, Consume
  <2>3. pending' \in Seq(Message)
    BY <1>2, <2>1, <2>2, OneMore
  <2>4. /\ app' \in [Session -> AppData] /\ app'[c].state = "PROBE_INIT" /\ app'[c].opened
        /\ \A s \in Session \ {c} : app'[s] = app[s]
    BY <1>1, <2>1, <2>2 DEF TriggerTypes, AppData
  <2>5. Addressed(pending', conn) /\ \A s \in Session : OnceAt(pending', conn, app', s)
    BY <1>2, <1>3, <2>1, <2>2, <2>4, AskMore
  <2>6. \A s \in Session : ~ app'[s].opened => app'[s].state = "IDLE"
    BY <2>4 DEF TriggerInv
  <2> QED BY <1>1, <1>5, <2>3, <2>4, <2>5, <2>6, AppStep DEF TriggerTypes
<1>6. CASE Consume(<<>>) /\ UNCHANGED <<app, crashed>>
  <2>1. pending' = Tail(pending)
    BY <1>2, <1>6 DEF Consume
  <2>2. \A s \in Session : ~ app'[s].opened => app'[s].state = "IDLE"
    BY <1>6 DEF TriggerInv
  <2> QED BY <1>1, <1>2, <1>3, <1>6, <2>1, <2>2, AppStep DEF TriggerTypes
<1>7. \A c \in Found(Head(pending).id) : c \in Client
  BY DEF Found
<1> QED BY <1>4, <1>5, <1>6, <1>7 DEF InitiateChannelScan

\* The address arrives: the session that waited goes on, and nothing else does.
LEMMA ReplyStep ==
  ASSUME TriggerInv, AddressReply
  PROVE  TriggerInv'
<1> DEFINE id == Head(pending).id
<1>1. /\ TriggerTypes /\ Addressed(pending, conn) /\ \A s \in Session : OnceAt(pending, conn, app, s)
      /\ pending # <<>> /\ UNCHANGED <<queue, awake, conn, crashed>>
      /\ Head(pending).type = "AddrReply"
      /\ app' = [app EXCEPT ![id].state = "ROUND"] /\ Consume(<<>>)
  BY DEF TriggerInv, AddressReply, Nxt
<1>2. /\ Tail(pending) \in Seq(Message) /\ Tail(pending) \o <<>> = Tail(pending)
      /\ Head(pending) = pending[1] /\ 1 \in 1 .. Len(pending)
  BY <1>1, FirstGone, SMT DEF TriggerTypes
<1>3. pending' = Tail(pending)
  BY <1>1, <1>2 DEF Consume
<1>4. id \in Session /\ Takes(pending, conn, id, 1)
  BY <1>1, <1>2 DEF Addressed, Takes
<1> HIDE DEF id
<1>5. /\ Addressed(pending', conn) /\ \A s \in Session : OnceAt(pending', conn, app, s)
      /\ \A i \in 1 .. Len(pending') : ~ Takes(pending', conn, id, i)
  BY <1>1, <1>3, <1>4, OneLess DEF TriggerTypes
<1>6. /\ app' \in [Session -> AppData]
      /\ \A s \in Session \ {id} : app'[s] = app[s]
      /\ app'[id].state = "ROUND" /\ app'[id].opened = app[id].opened
  BY <1>1, <1>4 DEF TriggerTypes, AppData
<1>7. \A s \in Session : OnceAt(pending', conn, app', s)
  BY <1>5, <1>6 DEF OnceAt
<1>8. app[id].opened
  <2>1. app[id].state = "PROBE_INIT"
    BY <1>1, <1>2, <1>4 DEF OnceAt
  <2> QED BY <1>1, <1>4, <2>1 DEF TriggerInv, TriggerTypes, AppData
<1>9. \A s \in Session : ~ app'[s].opened => app'[s].state = "IDLE"
  BY <1>6, <1>8 DEF TriggerInv
<1> QED BY <1>1, <1>2, <1>3, <1>5, <1>6, <1>7, <1>9, AppStep DEF TriggerTypes

\* The messages when the MAC takes a request: the older timers are out of date and
\* a new one runs.
LEMMA Requested ==
  ASSUME TriggerTypes, MACAddressRequest
  PROVE  /\ pending' \in Seq(Message) /\ Len(pending') = Len(pending) /\ Len(pending) \in Nat \ {0}
         /\ pending'[Len(pending)] = Msg("Timer", NoConn)
         /\ \A i \in 1 .. Len(pending) - 1 :
              /\ i + 1 \in 1 .. Len(pending) /\ i \in 1 .. Len(pending)
              /\ pending[i + 1].type # "Timer" => pending'[i] = pending[i + 1]
              /\ pending[i + 1].type = "Timer" =>
                   pending'[i].type = "Timer" /\ ~ pending'[i].live
<1> DEFINE n == Len(pending)
           m == Msg("Timer", NoConn)
           older == [i \in 1 .. n - 1 |-> IF pending[i + 1].type = "Timer" THEN Stale(pending[i + 1])
                                          ELSE pending[i + 1]]
<1>1. pending # <<>> /\ pending' = older \o <<m>> /\ pending \in Seq(Message)
  BY DEF MACAddressRequest, Nxt, TriggerTypes
<1>2. n \in Nat \ {0} /\ n - 1 \in Nat
      /\ \A i \in 1 .. n - 1 : pending[i + 1] \in Message /\ i + 1 \in 1 .. n /\ i \in 1 .. n
  BY <1>1, SMT
<1>3. m \in Message
  BY DEF Msg, Message
<1>4. \A x \in Message : /\ Stale(x) \in Message /\ Stale(x).type = x.type /\ ~ Stale(x).live
  BY DEF Stale, Message
<1>5. older \in [1 .. n - 1 -> Message]
  BY <1>2, <1>4
<1>6. \A i \in 1 .. n - 1 : older[i] = IF pending[i + 1].type = "Timer" THEN Stale(pending[i + 1])
                                       ELSE pending[i + 1]
  OBVIOUS
<1> HIDE DEF m, older
<1>7. older \in Seq(Message) /\ Len(older) = n - 1
  BY <1>2, <1>5, SMT
<1>8. older \o <<m>> = Append(older, m)
  BY <1>3, <1>7, SMT
<1>9. /\ pending' \in Seq(Message) /\ Len(pending') = (n - 1) + 1
      /\ \A i \in 1 .. (n - 1) + 1 : pending'[i] = IF i \in 1 .. n - 1 THEN older[i] ELSE m
  BY <1>1, <1>3, <1>7, <1>8, OneMore
<1>10. (n - 1) + 1 = n /\ n \in 1 .. n /\ n \notin 1 .. n - 1
  BY <1>2, SMT
<1>11. pending'[n] = m /\ \A i \in 1 .. n - 1 : pending'[i] = older[i]
  BY <1>2, <1>9, <1>10
<1> QED BY <1>2, <1>4, <1>6, <1>9, <1>10, <1>11 DEF m

\* Whoever asks last is served; what ran for another session is out of date.
LEMMA RequestStep ==
  ASSUME TriggerInv, MACAddressRequest
  PROVE  TriggerInv'
<1> DEFINE n == Len(pending)
           c == Head(pending).id
<1>1. /\ TriggerTypes /\ Addressed(pending, conn) /\ \A s \in Session : OnceAt(pending, conn, app, s)
      /\ pending # <<>> /\ UNCHANGED <<queue, awake, app, crashed>>
      /\ Head(pending).type = "AddrRequest" /\ conn' = c
  BY DEF TriggerInv, MACAddressRequest, Nxt
<1>2. Head(pending) = pending[1] /\ 1 \in 1 .. n
  BY <1>1, FirstGone, SMT DEF TriggerTypes
<1>3. c \in Session /\ Takes(pending, conn, c, 1)
  BY <1>1, <1>2 DEF Addressed, Takes
<1> HIDE DEF c
<1>4. /\ pending' \in Seq(Message) /\ Len(pending') = n /\ n \in Nat \ {0}
      /\ pending'[n] = Msg("Timer", NoConn)
      /\ \A i \in 1 .. n - 1 :
           /\ i + 1 \in 1 .. n /\ i \in 1 .. n
           /\ pending[i + 1].type # "Timer" => pending'[i] = pending[i + 1]
           /\ pending[i + 1].type = "Timer" => pending'[i].type = "Timer" /\ ~ pending'[i].live
  BY <1>1, Requested
<1>5. \A i \in 1 .. n : i \in 1 .. n - 1 \/ i = n
  BY <1>4, SMT
<1>6. Msg("Timer", NoConn).type = "Timer" /\ Msg("Timer", NoConn).live
  BY DEF Msg
<1> DEFINE ns == pending'
<1>7. Addressed(ns, c)
  <2> SUFFICES ASSUME NEW i \in 1 .. n
               PROVE  /\ ns[i].type \in {"AddrRequest", "AddrReply"} => ns[i].id \in Session
                      /\ ns[i].type = "Timer" /\ ns[i].live => c \in Session
    BY <1>4 DEF Addressed
  <2>1. CASE i = n
    BY <1>3, <1>4, <1>6, <2>1
  <2>2. CASE i \in 1 .. n - 1
    <3>1. i + 1 \in 1 .. n /\ (pending[i + 1].type # "Timer" => ns[i] = pending[i + 1])
          /\ (pending[i + 1].type = "Timer" => ns[i].type = "Timer" /\ ~ ns[i].live)
      BY <1>4, <2>2
    <3> QED BY <1>1, <1>3, <3>1 DEF Addressed
  <2> QED BY <1>5, <2>1, <2>2
<1>8. \A s \in Session : \A i \in 1 .. n - 1 : Takes(ns, c, s, i) => Takes(pending, conn, s, i + 1)
  <2> SUFFICES ASSUME NEW s \in Session, NEW i \in 1 .. n - 1, Takes(ns, c, s, i)
               PROVE  Takes(pending, conn, s, i + 1)
    OBVIOUS
  <2>1. pending[i + 1].type # "Timer" /\ ns[i] = pending[i + 1]
    BY <1>4 DEF Takes
  <2> QED BY <2>1 DEF Takes
<1>9. \A s \in Session : Takes(ns, c, s, n) => s = c
  BY <1>4, <1>6 DEF Takes
<1>10. \A i, j \in 1 .. n - 1 : (i + 1 = j + 1 => i = j) /\ i + 1 # 1
  BY <1>4, SMT
<1> HIDE DEF ns
<1>11. OnceAt(ns, c, app, c)
  <2>1. \A i \in 1 .. n - 1 : ~ Takes(ns, c, c, i)
    BY <1>1, <1>2, <1>3, <1>4, <1>8, <1>10 DEF OnceAt
  <2>2. app[c].state = "PROBE_INIT"
    BY <1>1, <1>2, <1>3 DEF OnceAt
  <2>3. \A i \in 1 .. Len(ns) : Takes(ns, c, c, i) => i = n
    BY <1>4, <1>5, <2>1 DEF ns
  <2> QED BY <2>2, <2>3 DEF OnceAt
<1>12. ASSUME NEW s \in Session \ {c} PROVE OnceAt(ns, c, app, s)
  <2>1. \A i \in 1 .. Len(ns) : Takes(ns, c, s, i) =>
          i \in 1 .. n - 1 /\ i + 1 \in 1 .. n /\ Takes(pending, conn, s, i + 1)
    BY <1>4, <1>5, <1>8, <1>9 DEF ns
  <2> QED BY <1>1, <1>10, <2>1 DEF OnceAt
<1>13. \A s \in Session : OnceAt(ns, c, app, s)
  BY <1>11, <1>12
<1>14. \A s \in Session : ~ app'[s].opened => app'[s].state = "IDLE"
  BY <1>1 DEF TriggerInv
<1> QED BY <1>1, <1>3, <1>4, <1>7, <1>13, <1>14, AppStep DEF TriggerTypes, ns

\* The newest timer gives the session that is served its reply; an older one nothing.
LEMMA TimerStep ==
  ASSUME TriggerInv, ManagementTimer
  PROVE  TriggerInv'
<1>1. /\ TriggerTypes /\ Addressed(pending, conn) /\ \A s \in Session : OnceAt(pending, conn, app, s)
      /\ pending # <<>> /\ UNCHANGED <<queue, awake, app, conn, crashed>>
      /\ Head(pending).type = "Timer"
      /\ Consume(IF Head(pending).live THEN <<Msg("AddrReply", conn)>> ELSE <<>>)
  BY DEF TriggerInv, ManagementTimer, Nxt
<1>2. /\ Tail(pending) \in Seq(Message) /\ Tail(pending) \o <<>> = Tail(pending)
      /\ \A m : Tail(pending) \o <<m>> = Append(Tail(pending), m)
      /\ Head(pending) = pending[1] /\ 1 \in 1 .. Len(pending)
  BY <1>1, FirstGone, SMT DEF TriggerTypes
<1>3. /\ Addressed(Tail(pending), conn) /\ \A s \in Session : OnceAt(Tail(pending), conn, app, s)
      /\ \A s \in Session : Takes(pending, conn, s, 1) =>
           \A i \in 1 .. Len(Tail(pending)) : ~ Takes(Tail(pending), conn, s, i)
  BY <1>1, OneLess DEF TriggerTypes
<1>4. \A s \in Session : ~ app'[s].opened => app'[s].state = "IDLE"
  BY <1>1 DEF TriggerInv
<1>5. CASE ~ Head(pending).live
  <2>1. pending' = Tail(pending)
    BY <1>1, <1>2, <1>5 DEF Consume
  <2> QED BY <1>1, <1>2, <1>3, <1>4, <2>1, AppStep DEF TriggerTypes
<1>6. CASE Head(pending).live
  <2> DEFINE ms == Tail(pending)
             m == Msg("AddrReply", conn)
             ns == Append(ms, m)
  <2>1. conn \in Session /\ Takes(pending, conn, conn, 1)
    BY <1>1, <1>2, <1>6 DEF Addressed, Takes
  <2>2. m \in Message /\ m.type = "AddrReply" /\ m.id = conn
    BY <2>1 DEF Msg, Message
  <2>3. pending' = ns
    BY <1>1, <1>2, <1>6 DEF Consume
  <2>4. /\ ns \in Seq(Message) /\ Len(ns) = Len(ms) + 1 /\ Len(ms) \in Nat
        /\ \A i \in 1 .. Len(ms) + 1 : ns[i] = IF i \in 1 .. Len(ms) THEN ms[i] ELSE m
    BY <1>2, <2>2, OneMore
  <2>5. app[conn].state = "PROBE_INIT"
    BY <1>1, <1>2, <2>1 DEF OnceAt
  <2>6. Addressed(ms, conn) /\ \A s \in Session : OnceAt(ms, conn, app, s)
        /\ \A i \in 1 .. Len(ms) : ~ Takes(ms, conn, conn, i)
    BY <1>3, <2>1
  <2> HIDE DEF ns, ms, m
  <2>7. Addressed(ns, conn)
    BY <2>1, <2>2, <2>4, <2>6 DEF Addressed
  <2>8. \A s \in Session : \A i \in 1 .. Len(ns) :
          Takes(ns, conn, s, i) => IF i \in 1 .. Len(ms) THEN Takes(ms, conn, s, i) ELSE s = conn
    BY <2>2, <2>4 DEF Takes
  <2>9. OnceAt(ns, conn, app, conn)
    <3>1. \A i, j \in 1 .. Len(ns) : i \notin 1 .. Len(ms) /\ j \notin 1 .. Len(ms) => i = j
      BY <2>4, SMT
    <3> QED BY <2>1, <2>5, <2>6, <2>8, <3>1 DEF OnceAt
  <2>10. ASSUME NEW s \in Session \ {conn} PROVE OnceAt(ns, conn, app, s)
    <3>1. \A i \in 1 .. Len(ns) : Takes(ns, conn, s, i) => i \in 1 .. Len(ms) /\ Takes(ms, conn, s, i)
      BY <2>8
    <3> QED BY <2>6, <3>1 DEF OnceAt
  <2>11. \A s \in Session : OnceAt(ns, conn, app, s)
    BY <2>9, <2>10
  <2> QED BY <1>1, <1>4, <2>3, <2>4, <2>7, <2>11, AppStep DEF TriggerTypes
<1> QED BY <1>5, <1>6

LEMMA TriggerStep == TriggerAssumption /\ TriggerInv /\ [Next]_vars => TriggerInv'
<1> SUFFICES ASSUME TriggerAssumption, TriggerInv, [Next]_vars PROVE TriggerInv'
  OBVIOUS
<1>1. CASE UNCHANGED vars
  BY <1>1 DEF vars, TriggerInv, TriggerTypes, BacklogIsServed
<1>2. CASE Next
  BY <1>2, TrafficStep, FetchStep, OpenStep, ProbeStep, TimeoutStep, ScanRequestStep, ReplyStep,
     RequestStep, TimerStep
  DEF Next, Handlers
<1> QED BY <1>1, <1>2

LEMMA TriggerInductive ==
  ASSUME TriggerAssumption
  PROVE  Spec => []TriggerInv
BY TriggerInit, TriggerStep, PTL DEF Spec

-----------------------------------------------------------------------------
(* The theorems about the queue and the MAC. *)

\* The queues of the interface, the applications and the messages between them are
\* well typed: a reply is always for a session, although the timer it comes from
\* reads the connection id of the MAC only when it falls due.
THEOREM TriggerTypeCorrect ==
  ASSUME TriggerAssumption
  PROVE  Spec => []TypeOK
<1>1. TriggerInv => TypeOK
  <2> SUFFICES ASSUME TriggerInv PROVE TypeOK
    OBVIOUS
  <2>1. \A i \in 1 .. Len(pending) : pending[i] \in Message
    BY SMT DEF TriggerInv, TriggerTypes
  <2> QED BY <2>1 DEF TriggerInv, TriggerTypes, TypeOK
<1> QED BY <1>1, TriggerInductive, PTL

\* However many packets of one instant find the queue over the threshold, and
\* however many sessions the node has, no session has two requests for its address
\* under way (MSG_APP_InitiateChannelScanRequest, MSG_MAC_FromAppMACAddressRequest).
THEOREM TriggerAsksOnce ==
  ASSUME TriggerAssumption
  PROVE  Spec => []OneRequest
<1>1. TriggerInv => OneRequest
  <2> SUFFICES ASSUME TriggerInv, NEW s \in Session, NEW i \in InFlight(s), NEW j \in InFlight(s)
               PROVE  i = j
    BY DEF OneRequest
  <2>1. /\ i \in 1 .. Len(pending) /\ Takes(pending, conn, s, i)
        /\ j \in 1 .. Len(pending) /\ Takes(pending, conn, s, j)
    BY DEF InFlight, Takes
  <2>2. OnceAt(pending, conn, app, s)
    BY DEF TriggerInv
  <2> QED BY <2>1, <2>2 DEF OnceAt
<1> QED BY <1>1, TriggerInductive, PTL

\* No packet waits in the queues of the interface while its MAC sleeps, although
\* the MAC is told only of a packet that comes to empty queues
\* (QueueUpIpFragmentForMacLayer).
THEOREM TriggerServesBacklog ==
  ASSUME TriggerAssumption
  PROVE  Spec => []BacklogIsServed
<1>1. TriggerInv => BacklogIsServed
  BY DEF TriggerInv
<1> QED BY <1>1, TriggerInductive, PTL

-----------------------------------------------------------------------------
(* Several sessions share the MAC.  The constants and variables of module     *)
(* SharedMac that have names of the above stand for its own here.             *)

CONSTANT MaxProbes
VARIABLES timers, probes, dwell

Shared == INSTANCE SharedMac

\* The message at place i of ms leads to an answer to session s, k being the
\* session that the MAC serves.
Leads(ms, k, s, i) ==
  \/ ms[i].type \in {"FromAppMACAddressRequest", "MACAddressReply"} /\ ms[i].id = s
  \/ ms[i].type = "MACAddressRequest" /\ ms[i].live /\ k = s

\* A session that waits has asked after whatever else it wants from the MAC.
AskedLast(s) ==
  app[s] = "TX_PROBE_INIT" =>
    \A i \in 1 .. Len(pending) :
      pending[i].type \in {"FromAppChanswitchRequest", "FromAppChangeChannelRequest"}
      /\ pending[i].id = s =>
        \E k \in 1 .. Len(pending) :
          k > i /\ pending[k].type = "FromAppMACAddressRequest" /\ pending[k].id = s

\* The inductive invariant.
SharedInv == Shared!TypeOK /\ Shared!OwnAnswer /\ \A s \in Shared!Session : AskedLast(s)

\* ns are the messages ms without the first d of them, with perhaps m at the end;
\* timers may be out of date that were not.
Follows(ms, ns, d, m) ==
  /\ ns \in Seq(Shared!Message)
  /\ Len(ns) \in {Len(ms) - d, Len(ms) - d + 1}
  /\ \A i \in 1 .. Len(ms) - d :
       /\ i + d \in 1 .. Len(ms) /\ i \in 1 .. Len(ns)
       /\ ns[i].type = ms[i + d].type /\ ns[i].id = ms[i + d].id
       /\ ns[i].live => ms[i + d].live
  /\ Len(ns) = Len(ms) - d + 1 => ns[Len(ns)] = m

\* No timer is out of date that was not.
Alive(ms, ns, d) == \A i \in 1 .. Len(ms) - d : ms[i + d].live => ns[i].live

LEMMA SharedAppend ==
  ASSUME NEW ms \in Seq(Shared!Message), NEW m \in Shared!Message
  PROVE  /\ Append(ms, m) \in Seq(Shared!Message) /\ Len(Append(ms, m)) = Len(ms) + 1
         /\ \A i \in 1 .. Len(ms) + 1 :
              Append(ms, m)[i] = IF i \in 1 .. Len(ms) THEN ms[i] ELSE m
BY SMT

\* A message is sent.
LEMMA SharedSent ==
  ASSUME NEW ms \in Seq(Shared!Message), NEW m \in Shared!Message
  PROVE  /\ Follows(ms, Append(ms, m), 0, m) /\ Alive(ms, Append(ms, m), 0)
         /\ Len(Append(ms, m)) = Len(ms) + 1
<1>1. /\ Append(ms, m) \in Seq(Shared!Message) /\ Len(Append(ms, m)) = Len(ms) + 1
      /\ \A i \in 1 .. Len(ms) + 1 :
           Append(ms, m)[i] = IF i \in 1 .. Len(ms) THEN ms[i] ELSE m
  BY SharedAppend
<1>2. /\ Len(ms) \in Nat /\ Len(ms) + 1 \in 1 .. Len(ms) + 1 /\ Len(ms) + 1 \notin 1 .. Len(ms)
      /\ Len(ms) - 0 = Len(ms)
      /\ \A i \in 1 .. Len(ms) : i \in 1 .. Len(ms) + 1 /\ i + 0 = i
  BY SMT
<1> DEFINE ns == Append(ms, m)
<1>3. ns[Len(ms) + 1] = m /\ \A i \in 1 .. Len(ms) : ns[i] = ms[i]
  BY <1>1, <1>2
<1> HIDE DEF ns
<1>4. Follows(ms, ns, 0, m) /\ Alive(ms, ns, 0)
  BY <1>1, <1>2, <1>3 DEF Follows, Alive, ns
<1> QED BY <1>1, <1>4 DEF ns

\* Nothing is sent or handled; timers may get out of date.
LEMMA SharedSame ==
  ASSUME NEW ms \in Seq(Shared!Message), NEW ns \in Seq(Shared!Message), NEW m,
         Len(ns) = Len(ms),
         \A i \in 1 .. Len(ms) :
           /\ ns[i].type = ms[i].type /\ ns[i].id = ms[i].id
           /\ ns[i].live => ms[i].live
  PROVE  Follows(ms, ns, 0, m) /\ (ns = ms => Alive(ms, ns, 0))
<1>1. /\ Len(ms) \in Nat /\ Len(ms) - 0 = Len(ms) /\ Len(ms) # Len(ms) + 1
      /\ \A i \in 1 .. Len(ms) : i + 0 = i
  BY SMT
<1>2. \A i \in 1 .. Len(ms) - 0 :
        /\ i + 0 \in 1 .. Len(ms) /\ i \in 1 .. Len(ns)
        /\ ns[i].type = ms[i + 0].type /\ ns[i].id = ms[i + 0].id
        /\ ns[i].live => ms[i + 0].live
  BY <1>1
<1>3. Follows(ms, ns, 0, m)
  BY <1>1, <1>2 DEF Follows
<1>4. ns = ms => Alive(ms, ns, 0)
  BY <1>1 DEF Alive
<1> QED BY <1>3, <1>4

\* A message is handled.
LEMMA SharedTaken ==
  ASSUME NEW ms \in Seq(Shared!Message), ms # <<>>, NEW m
  PROVE  /\ Follows(ms, Tail(ms), 1, m) /\ Alive(ms, Tail(ms), 1)
         /\ Len(Tail(ms)) = Len(ms) - 1 /\ Len(ms) \in Nat \ {0}
         /\ Head(ms) = ms[1] /\ 1 \in 1 .. Len(ms)
<1>1. /\ Tail(ms) \in Seq(Shared!Message) /\ Len(Tail(ms)) = Len(ms) - 1
      /\ Len(ms) \in Nat \ {0} /\ Head(ms) = ms[1] /\ 1 \in 1 .. Len(ms)
      /\ \A i \in 1 .. Len(ms) - 1 : Tail(ms)[i] = ms[i + 1] /\ i + 1 \in 1 .. Len(ms)
      /\ Len(ms) - 1 # Len(ms) - 1 + 1
  BY SMT
<1> QED BY <1>1 DEF Follows, Alive

\* A message is handled and another sent.
LEMMA SharedAnswered ==
  ASSUME NEW ms \in Seq(Shared!Message), ms # <<>>, NEW m \in Shared!Message
  PROVE  /\ Follows(ms, Append(Tail(ms), m), 1, m) /\ Alive(ms, Append(Tail(ms), m), 1)
         /\ Len(Append(Tail(ms), m)) = Len(ms)
<1> DEFINE ts == Tail(ms)
<1>1. ts \in Seq(Shared!Message) /\ Follows(ms, ts, 1, m) /\ Alive(ms, ts, 1)
      /\ Len(ts) = Len(ms) - 1 /\ Len(ms) \in Nat \ {0}
  BY SharedTaken DEF Follows
<1> HIDE DEF ts
<1>2. /\ Append(ts, m) \in Seq(Shared!Message) /\ Len(Append(ts, m)) = Len(ts) + 1
      /\ \A i \in 1 .. Len(ts) + 1 :
           Append(ts, m)[i] = IF i \in 1 .. Len(ts) THEN ts[i] ELSE m
  BY <1>1, SharedAppend
<1>3. /\ Len(ts) + 1 = Len(ms) /\ Len(ms) \notin 1 .. Len(ms) - 1 /\ Len(ms) \in 1 .. Len(ms)
      /\ Len(ms) - 1 + 1 = Len(ms)
      /\ \A i \in 1 .. Len(ms) - 1 : i \in 1 .. Len(ms)
  BY <1>1, SMT
<1> DEFINE ns == Append(ts, m)
<1>4. ns[Len(ms)] = m /\ \A i \in 1 .. Len(ms) - 1 : ns[i] = ts[i]
  BY <1>1, <1>2, <1>3
<1> HIDE DEF ns
<1>5. Follows(ms, ns, 1, m) /\ Alive(ms, ns, 1)
  BY <1>1, <1>2, <1>3, <1>4 DEF Follows, Alive, ns
<1> QED BY <1>2, <1>3, <1>5 DEF ns, ts

\* A newer management timer is started: what it puts out of date.
LEMMA SharedOutdated ==
  ASSUME NEW ms \in Seq(Shared!Message)
  PROVE  /\ Shared!Outdated(ms) \in Seq(Shared!Message) /\ Len(Shared!Outdated(ms)) = Len(ms)
         /\ \A i \in 1 .. Len(ms) :
              /\ Shared!Outdated(ms)[i].type = ms[i].type /\ Shared!Outdated(ms)[i].id = ms[i].id
              /\ Shared!Outdated(ms)[i].live => ms[i].live
              /\ ms[i].type = "MACAddressRequest" => ~ Shared!Outdated(ms)[i].live
<1> DEFINE n == Len(ms)
           old(i) == IF ms[i].type \in Shared!ManagementTimer THEN [ms[i] EXCEPT !.live = FALSE]
                     ELSE ms[i]
<1>1. n \in Nat /\ DOMAIN ms = 1 .. n /\ \A i \in 1 .. n : ms[i] \in Shared!Message
  BY SMT
<1>2. \A i \in 1 .. n :
        /\ old(i) \in Shared!Message /\ old(i).type = ms[i].type /\ old(i).id = ms[i].id
        /\ old(i).live => ms[i].live
        /\ ms[i].type = "MACAddressRequest" => ~ old(i).live
  BY <1>1 DEF Shared!Message, Shared!ManagementTimer
<1>3. Shared!Outdated(ms) = [i \in 1 .. n |-> old(i)]
  BY <1>1 DEF Shared!Outdated
<1> HIDE DEF old, n
<1> DEFINE ns == [i \in 1 .. n |-> old(i)]
<1>4. ns \in [1 .. n -> Shared!Message] /\ \A i \in 1 .. n : ns[i] = old(i)
  BY <1>2
<1> HIDE DEF ns
<1>5. ns \in Seq(Shared!Message) /\ Len(ns) = n
  BY <1>1, <1>4, SMT
<1>6. Shared!Outdated(ms) = ns
  BY <1>3 DEF ns
<1>7. Len(ms) = n
  BY DEF n
<1> QED BY <1>2, <1>4, <1>5, <1>6, <1>7

\* A request is taken that starts a timer.
LEMMA SharedStarted ==
  ASSUME NEW ms \in Seq(Shared!Message), ms # <<>>, NEW m \in Shared!Message,
         NEW ns, ns = Append(Shared!Outdated(Tail(ms)), m)
  PROVE  /\ Follows(ms, ns, 1, m) /\ Len(ns) = Len(ms) /\ Len(ms) \in 1 .. Len(ns)
         /\ ns[Len(ns)] = m /\ \A i \in 1 .. Len(ns) : i = Len(ns) \/ i \in 1 .. Len(ns) - 1
         /\ \A i \in 1 .. Len(ns) - 1 : ns[i].type = "MACAddressRequest" => ~ ns[i].live
<1> DEFINE ts == Tail(ms)
           os == Shared!Outdated(ts)
<1>1. ts \in Seq(Shared!Message) /\ Follows(ms, ts, 1, m)
      /\ Len(ts) = Len(ms) - 1 /\ Len(ms) \in Nat \ {0}
  BY SharedTaken DEF Follows
<1> HIDE DEF ts
<1>2. /\ os \in Seq(Shared!Message) /\ Len(os) = Len(ts)
      /\ \A i \in 1 .. Len(ts) :
           /\ os[i].type = ts[i].type /\ os[i].id = ts[i].id
           /\ os[i].live => ts[i].live
           /\ ts[i].type = "MACAddressRequest" => ~ os[i].live
  BY <1>1, SharedOutdated
<1>3. ns = Append(os, m)
  BY DEF ts
<1> HIDE DEF os
<1>4. /\ Append(os, m) \in Seq(Shared!Message) /\ Len(Append(os, m)) = Len(os) + 1
      /\ \A i \in 1 .. Len(os) + 1 :
           Append(os, m)[i] = IF i \in 1 .. Len(os) THEN os[i] ELSE m
  BY <1>2, SharedAppend
<1>5. /\ Len(os) + 1 = Len(ms) /\ Len(ms) \notin 1 .. Len(ms) - 1 /\ Len(ms) \in 1 .. Len(ms)
      /\ Len(ms) - 1 + 1 = Len(ms) /\ Len(os) = Len(ms) - 1
      /\ \A i \in 1 .. Len(ms) - 1 : i \in 1 .. Len(ms)
      /\ \A i \in 1 .. Len(ms) : i = Len(ms) \/ i \in 1 .. Len(ms) - 1
  BY <1>1, <1>2, SMT
<1>6. /\ ns \in Seq(Shared!Message) /\ Len(ns) = Len(ms) /\ ns[Len(ms)] = m
      /\ \A i \in 1 .. Len(ms) - 1 : ns[i] = os[i]
  <2>1. Len(ns) = Len(ms) /\ ns \in Seq(Shared!Message)
    BY <1>3, <1>4, <1>5
  <2>2. \A i \in 1 .. Len(ms) : ns[i] = IF i \in 1 .. Len(ms) - 1 THEN os[i] ELSE m
    BY <1>3, <1>4, <1>5
  <2> QED BY <1>5, <2>1, <2>2
<1>7. \A i \in 1 .. Len(ms) - 1 :
        /\ ns[i].type = ts[i].type /\ ns[i].id = ts[i].id /\ (ns[i].live => ts[i].live)
        /\ ns[i].type = "MACAddressRequest" => ~ ns[i].live
  BY <1>1, <1>2, <1>5, <1>6
<1>8. Follows(ms, ns, 1, m)
  BY <1>1, <1>5, <1>6, <1>7 DEF Follows
<1> QED BY <1>5, <1>6, <1>7, <1>8

\* What was under way is so still: nothing of it was taken, or put out of date.
LEMMA StillUnderWay ==
  ASSUME NEW s, Shared!UnderWay(s), pending \in Seq(Shared!Message),
         NEW d \in {0, 1}, NEW m, Follows(pending, pending', d, m),
         Alive(pending, pending', d), conn' = conn,
         d = 1 => ~ Leads(pending, conn, s, 1)
  PROVE  Shared!UnderWay(s)'
<1>1. PICK i \in 1 .. Len(pending) : Leads(pending, conn, s, i)
  BY DEF Shared!UnderWay, Leads
<1>2. i # 1 \/ d = 0
  BY <1>1
<1>3. i - d \in 1 .. Len(pending) - d /\ (i - d) + d = i
  <2>1. Len(pending) \in Nat
    BY SMT
  <2> QED BY <1>2, <2>1, SMT
<1>4. Leads(pending', conn', s, i - d) /\ i - d \in 1 .. Len(pending')
  BY <1>1, <1>3 DEF Leads, Follows, Alive
<1> QED BY <1>4 DEF Shared!UnderWay, Leads

\* What takes session s on is the last message.
LEMMA LastUnderWay ==
  ASSUME NEW s, pending' # <<>>, pending' \in Seq(Shared!Message), Leads(pending', conn', s, Len(pending'))
  PROVE  Shared!UnderWay(s)'
<1>1. Len(pending') \in 1 .. Len(pending')
  BY SMT
<1> QED BY <1>1 DEF Shared!UnderWay, Leads

\* What waits goes on having asked last.
LEMMA StillAskedLast ==
  ASSUME NEW s, AskedLast(s), pending \in Seq(Shared!Message),
         NEW d \in {0, 1}, NEW m, Follows(pending, pending', d, m),
         app'[s] = "TX_PROBE_INIT" =>
           \/ app[s] = "TX_PROBE_INIT" /\ m.type \notin {"FromAppChanswitchRequest", "FromAppChangeChannelRequest"}
           \/ app[s] = "TX_PROBE_INIT" /\ m.id # s
           \/ /\ Len(pending') = Len(pending) - d + 1
              /\ m.type = "FromAppMACAddressRequest" /\ m.id = s
  PROVE  AskedLast(s)'
<1> DEFINE n == Len(pending)
           Other(ms, i) == ms[i].type \in {"FromAppChanswitchRequest", "FromAppChangeChannelRequest"}
                           /\ ms[i].id = s
           Ask(ms, i) == ms[i].type = "FromAppMACAddressRequest" /\ ms[i].id = s
<1> SUFFICES ASSUME app'[s] = "TX_PROBE_INIT", NEW i \in 1 .. Len(pending'), Other(pending', i)
             PROVE  \E k \in 1 .. Len(pending') : k > i /\ Ask(pending', k)
  BY DEF AskedLast
<1>1. /\ n \in Nat /\ Len(pending') \in {n - d, n - d + 1} /\ n - d \in Int
      /\ \A j \in 1 .. n - d :
           /\ j + d \in 1 .. n /\ j \in 1 .. Len(pending')
           /\ Other(pending', j) => Other(pending, j + d)
           /\ Ask(pending, j + d) => Ask(pending', j)
  <2>1. n \in Nat
    BY SMT
  <2>2. n - d \in Int
    BY <2>1, SMT
  <2> QED BY <2>1, <2>2 DEF Follows
<1>2. CASE /\ Len(pending') = n - d + 1
           /\ m.type = "FromAppMACAddressRequest" /\ m.id = s
  <2>1. Ask(pending', Len(pending')) /\ ~ Other(pending', Len(pending'))
    BY <1>2 DEF Follows
  <2>2. Len(pending') \in 1 .. Len(pending') /\ (i # Len(pending') => Len(pending') > i)
    BY <1>1, SMT
  <2> HIDE DEF Other, Ask
  <2> QED BY <2>1, <2>2
<1>3. CASE /\ app[s] = "TX_PROBE_INIT"
           /\ m.type \notin {"FromAppChanswitchRequest", "FromAppChangeChannelRequest"} \/ m.id # s
  <2>1. i \in 1 .. n - d
    <3>1. Len(pending') = n - d + 1 => ~ Other(pending', Len(pending'))
      BY <1>3 DEF Follows
    <3> HIDE DEF Other, n
    <3> QED BY <1>1, <3>1, SMT
  <2>2. i + d \in 1 .. n /\ Other(pending, i + d)
    BY <1>1, <2>1
  <2>3. PICK k \in 1 .. n : k > i + d /\ Ask(pending, k)
    BY <1>3, <2>2 DEF AskedLast
  <2>4. k - d \in 1 .. n - d /\ k - d > i /\ (k - d) + d = k
    BY <1>1, <2>1, <2>3, SMT
  <2> QED BY <1>1, <2>3, <2>4
<1> QED BY <1>2, <1>3

\* What a step of session t does to the messages: it takes one that is its own, or
\* none, and may send a request; when it begins to wait, the one for its address.
SessionStep(t, d, m) ==
  /\ Follows(pending, pending', d, m) /\ Alive(pending, pending', d)
  /\ m.type \in Shared!Request /\ m.id = t
  /\ d = 1 => /\ pending[1].id = t /\ pending[1].type \in {"MACAddressReply", "ScanFinished"}
              /\ pending[1].type = "MACAddressReply" => Shared!Answered(t)
  /\ app'[t] = "TX_PROBE_INIT" =>
       /\ m.type = "FromAppMACAddressRequest"
       /\ app[t] = "TX_PROBE_INIT" \/ Len(pending') = Len(pending) - d + 1

SessionActs(t) ==
  (t \in Client /\ Shared!ClientNext(t)) \/ (t \in Server /\ Shared!ServerNext(t))

LEMMA SessionStates ==
  ASSUME Shared!SharedAssumption, Shared!TypeOK, NEW t \in Shared!Session, SessionActs(t)
  PROVE  /\ UNCHANGED <<conn, probes, dwell>>
         /\ timers' \subseteq Shared!Session \X Shared!Kind
         /\ app' \in [Shared!Session -> Shared!ClientState \cup Shared!ServerState]
         /\ \A s \in Shared!Session \ {t} : app'[s] = app[s]
         /\ t \in Client => app'[t] \in Shared!ClientState
         /\ t \in Server => app'[t] \in Shared!ServerState
<1> DEFINE Stays == app' = app
           Goes(S) == \E x \in S : Shared!Goes(t, x)
           Timers(k) == timers' \in {timers, timers \cup {<<t, k>>}, timers \ {<<t, k>>}}
<1>1. /\ app \in [Shared!Session -> Shared!ClientState \cup Shared!ServerState]
      /\ \A c \in Client : app[c] \in Shared!ClientState
      /\ \A s \in Server : app[s] \in Shared!ServerState
      /\ timers \subseteq Shared!Session \X Shared!Kind
      /\ Client \cap Server = {}
  BY DEF Shared!TypeOK, Shared!SharedAssumption
<1>2. CASE t \in Client /\ Shared!ClientNext(t)
  <2>1. UNCHANGED <<conn, probes, dwell>>
    BY <1>2, Zenon DEF Shared!ClientNext, Shared!Asks, Shared!ChannelSelectionTimeout,
      Shared!ClientMACAddress, Shared!StartProbing, Shared!TxScanFinished, Shared!Advances,
      Shared!ChangeChannels, Shared!VerifyWfAckTimeout, Shared!macVars
  <2>2. \E k \in Shared!Kind : Timers(k)
    BY <1>2 DEF Shared!ClientNext, Shared!Asks, Shared!ChannelSelectionTimeout,
      Shared!ClientMACAddress, Shared!StartProbing, Shared!TxScanFinished, Shared!Advances,
      Shared!ChangeChannels, Shared!VerifyWfAckTimeout, Shared!Starts, Shared!Expires, Shared!Kind
  <2>3. Stays \/ Goes(Shared!ClientState)
    BY <1>2 DEF Shared!ClientNext, Shared!Asks, Shared!ChannelSelectionTimeout,
      Shared!ClientMACAddress, Shared!StartProbing, Shared!TxScanFinished, Shared!Advances,
      Shared!ChangeChannels, Shared!VerifyWfAckTimeout, Shared!ClientState
  <2>4. t \notin Server
    BY <1>1, <1>2
  <2> QED BY <1>1, <1>2, <2>1, <2>2, <2>3, <2>4 DEF Shared!Goes
<1>3. CASE t \in Server /\ Shared!ServerNext(t)
  <2>1. UNCHANGED <<conn, probes, dwell>>
    BY <1>3, Zenon DEF Shared!ServerNext, Shared!PacketReceived, Shared!RxProbeAckDelay,
      Shared!ServerMACAddress, Shared!RxScanFinished, Shared!RxChangeAckDelay, Shared!macVars
  <2>2. \E k \in Shared!Kind : Timers(k)
    BY <1>3 DEF Shared!ServerNext, Shared!PacketReceived, Shared!RxProbeAckDelay,
      Shared!ServerMACAddress, Shared!RxScanFinished, Shared!RxChangeAckDelay,
      Shared!Starts, Shared!Expires, Shared!Kind
  <2>3. Stays \/ Goes(Shared!ServerState)
    BY <1>3 DEF Shared!ServerNext, Shared!PacketReceived, Shared!RxProbeAckDelay,
      Shared!ServerMACAddress, Shared!RxScanFinished, Shared!RxChangeAckDelay, Shared!ServerState
  <2>4. t \notin Client
    BY <1>1, <1>3
  <2> QED BY <1>1, <1>3, <2>1, <2>2, <2>3, <2>4 DEF Shared!Goes
<1> QED BY <1>2, <1>3 DEF SessionActs

LEMMA SessionMessages ==
  ASSUME Shared!SharedAssumption, Shared!TypeOK, NEW t \in Shared!Session, SessionActs(t)
  PROVE  \E d \in {0, 1}, m \in Shared!Message : SessionStep(t, d, m)
<1> DEFINE Goal == \E d \in {0, 1}, m \in Shared!Message : SessionStep(t, d, m)
           New == app[t] # "TX_PROBE_INIT" /\ app'[t] = "TX_PROBE_INIT"
           ask == Shared!Msg("FromAppMACAddressRequest", t)
<1> SUFFICES Goal
  OBVIOUS
<1>1. pending \in Seq(Shared!Message) /\ app \in [Shared!Session -> Shared!ClientState \cup Shared!ServerState]
      /\ \A s \in Server : app[s] \in Shared!ServerState
  BY DEF Shared!TypeOK
<1>2. \A r \in Shared!Request : /\ Shared!Msg(r, t) \in Shared!Message
                                /\ Shared!Msg(r, t).type = r /\ Shared!Msg(r, t).id = t
  BY DEF Shared!Msg, Shared!Message, Shared!Request
<1>3. "FromAppMACAddressRequest" \in Shared!Request /\ "FromAppChanswitchRequest" \in Shared!Request
      /\ "FromAppChangeChannelRequest" \in Shared!Request
  BY DEF Shared!Request
<1>4. ask \in Shared!Message /\ ask.type = "FromAppMACAddressRequest" /\ ask.id = t
  BY <1>2, <1>3
<1> HIDE DEF ask
<1>5. ASSUME NEW r \in Shared!Request, Shared!Sends(r, t),
             r = "FromAppMACAddressRequest" \/ app'[t] # "TX_PROBE_INIT"
      PROVE  Goal
  <2> DEFINE m == Shared!Msg(r, t)
  <2>1. m \in Shared!Message /\ m.type = r /\ m.id = t /\ pending' = Append(pending, m)
    BY <1>2, <1>5 DEF Shared!Sends
  <2> HIDE DEF m
  <2>2. Follows(pending, pending', 0, m) /\ Alive(pending, pending', 0)
        /\ Len(pending') = Len(pending) - 0 + 1
    <3>1. Len(pending) \in Nat
      BY <1>1, SMT
    <3>2. Len(pending) - 0 + 1 = Len(pending) + 1
      BY <3>1, SMT
    <3> QED BY <1>1, <2>1, <3>2, SharedSent
  <2>3. SessionStep(t, 0, m)
    BY <1>5, <2>1, <2>2 DEF SessionStep
  <2> QED BY <2>1, <2>3
<1>6. ASSUME pending' = pending, ~ New
      PROVE  Goal
  <2>1. Follows(pending, pending', 0, ask) /\ Alive(pending, pending', 0)
    BY <1>1, <1>6, SharedSame
  <2>2. SessionStep(t, 0, ask)
    BY <1>3, <1>4, <1>6, <2>1 DEF SessionStep
  <2> QED BY <1>4, <2>2
<1>7. ASSUME NEW g \in {"MACAddressReply", "ScanFinished"}, Shared!Gets(g, t), Shared!Consumed,
             g = "MACAddressReply" => Shared!Answered(t), ~ New
      PROVE  Goal
  <2>1. pending # <<>> /\ Head(pending).type = g /\ Head(pending).id = t /\ pending' = Tail(pending)
    BY <1>7 DEF Shared!Gets, Shared!Consumed
  <2>2. Follows(pending, pending', 1, ask) /\ Alive(pending, pending', 1) /\ Head(pending) = pending[1]
    BY <1>1, <2>1, SharedTaken
  <2>3. SessionStep(t, 1, ask)
    BY <1>3, <1>4, <1>7, <2>1, <2>2 DEF SessionStep
  <2> QED BY <1>4, <2>3
<1>8. ASSUME NEW g \in {"MACAddressReply", "ScanFinished"}, NEW r \in Shared!Request,
             Shared!Gets(g, t), Shared!Answers(r, t),
             g = "MACAddressReply" => Shared!Answered(t), app'[t] # "TX_PROBE_INIT"
      PROVE  Goal
  <2> DEFINE m == Shared!Msg(r, t)
  <2>1. /\ m \in Shared!Message /\ m.type = r /\ m.id = t
        /\ pending # <<>> /\ Head(pending).type = g /\ Head(pending).id = t
        /\ pending' = Append(Tail(pending), m)
    BY <1>2, <1>8 DEF Shared!Gets, Shared!Answers
  <2> HIDE DEF m
  <2>2. Follows(pending, pending', 1, m) /\ Alive(pending, pending', 1) /\ Head(pending) = pending[1]
    BY <1>1, <2>1, SharedTaken, SharedAnswered
  <2>3. SessionStep(t, 1, m)
    BY <1>8, <2>1, <2>2 DEF SessionStep
  <2> QED BY <2>1, <2>3
<1>9. ASSUME NEW x, Shared!Goes(t, x), x # "TX_PROBE_INIT" PROVE app'[t] # "TX_PROBE_INIT"
  BY <1>1, <1>9 DEF Shared!Goes
<1> HIDE DEF Goal
<1>10. CASE t \in Client /\ Shared!ClientNext(t)
  <2>1. CASE Shared!Asks(t)
    BY <1>3, <1>5, <2>1 DEF Shared!Asks
  <2>2. CASE Shared!ChannelSelectionTimeout(t)
    BY <1>6, <2>2 DEF Shared!ChannelSelectionTimeout
  <2>3. CASE Shared!ClientMACAddress(t)
    <3>1. Shared!Answered(t)
      BY <1>10, <2>3 DEF Shared!Answered
    <3>2. app'[t] # "TX_PROBE_INIT" /\ Shared!Gets("MACAddressReply", t) /\ Shared!Consumed
      BY <1>9, <2>3 DEF Shared!ClientMACAddress
    <3> QED BY <1>7, <3>1, <3>2
  <2>4. CASE Shared!StartProbing(t)
    BY <1>3, <1>5, <1>9, <2>4 DEF Shared!StartProbing
  <2>5. CASE Shared!TxScanFinished(t)
    <3>1. Shared!Gets("ScanFinished", t)
      BY <2>5 DEF Shared!TxScanFinished
    <3>2. CASE Shared!Goes(t, "TX_PROBE_WFRX") /\ Shared!Answers("FromAppChangeChannelRequest", t)
      BY <1>3, <1>8, <1>9, <3>1, <3>2
    <3>3. CASE Shared!Goes(t, "TX_CHANGE_WFACK") /\ Shared!Consumed
      BY <1>7, <1>9, <3>1, <3>3
    <3>4. CASE Shared!Consumed /\ UNCHANGED app
      BY <1>7, <3>1, <3>4
    <3> QED BY <2>5, <3>2, <3>3, <3>4 DEF Shared!TxScanFinished
  <2>6. CASE Shared!Advances(t)
    BY <1>6, <1>9, <2>6 DEF Shared!Advances
  <2>7. CASE Shared!ChangeChannels(t)
    BY <1>3, <1>5, <1>9, <2>7 DEF Shared!ChangeChannels
  <2>8. CASE Shared!VerifyWfAckTimeout(t)
    BY <1>3, <1>5, <1>9, <2>8 DEF Shared!VerifyWfAckTimeout
  <2> QED BY <1>10, <2>1, <2>2, <2>3, <2>4, <2>5, <2>6, <2>7, <2>8 DEF Shared!ClientNext
<1>11. CASE t \in Server /\ Shared!ServerNext(t)
  <2>1. app[t] # "TX_PROBE_INIT"
    BY <1>1, <1>11 DEF Shared!ServerState
  <2>2. app'[t] # "TX_PROBE_INIT"
    BY <1>9, <1>11, <2>1 DEF Shared!ServerNext, Shared!PacketReceived, Shared!RxProbeAckDelay,
      Shared!ServerMACAddress, Shared!RxScanFinished, Shared!RxChangeAckDelay
  <2>3. CASE Shared!PacketReceived(t)
    BY <1>6, <2>2, <2>3 DEF Shared!PacketReceived
  <2>4. CASE Shared!RxProbeAckDelay(t)
    BY <1>3, <1>5, <2>4 DEF Shared!RxProbeAckDelay
  <2>5. CASE Shared!ServerMACAddress(t)
    <3>1. Shared!Answered(t)
      BY <1>11, <2>5 DEF Shared!Answered
    <3>2. Shared!Gets("MACAddressReply", t) /\ Shared!Answers("FromAppChanswitchRequest", t)
      BY <2>5 DEF Shared!ServerMACAddress
    <3> QED BY <1>3, <1>8, <2>2, <3>1, <3>2
  <2>6. CASE Shared!RxScanFinished(t)
    <3>1. Shared!Gets("ScanFinished", t) /\ Shared!Answers("FromAppChangeChannelRequest", t)
      BY <2>6 DEF Shared!RxScanFinished
    <3> QED BY <1>3, <1>8, <2>2, <3>1
  <2>7. CASE Shared!RxChangeAckDelay(t)
    BY <1>3, <1>5, <2>2, <2>7 DEF Shared!RxChangeAckDelay
  <2> QED BY <1>11, <2>3, <2>4, <2>5, <2>6, <2>7 DEF Shared!ServerNext
<1> QED BY <1>10, <1>11 DEF SessionActs

\* No client gets another's answer, while the MAC serves the session it served.
LEMMA OwnKept ==
  ASSUME Shared!OwnAnswer, pending \in Seq(Shared!Message), conn' = conn,
         NEW d \in {0, 1}, NEW m, Follows(pending, pending', d, m), m.type # "MACAddressRequest"
  PROVE  Shared!OwnAnswer'
<1> SUFFICES ASSUME NEW i \in 1 .. Len(pending'), pending'[i].type = "MACAddressRequest",
                    pending'[i].live, conn \in Client
             PROVE  pending'[i].id = conn
  BY DEF Shared!OwnAnswer
<1>1. i # Len(pending) - d + 1 \/ Len(pending') # Len(pending) - d + 1
  BY DEF Follows
<1>2. Len(pending) \in Nat /\ Len(pending') \in {Len(pending) - d, Len(pending) - d + 1}
  BY SMT DEF Follows
<1>3. i \in 1 .. Len(pending) - d
  BY <1>1, <1>2, SMT
<1> QED BY <1>3 DEF Follows, Shared!OwnAnswer

\* A step of a session: only the answer it takes itself is gone.
LEMMA SessionKeeps ==
  ASSUME Shared!SharedAssumption, SharedInv, NEW t \in Shared!Session, SessionActs(t)
  PROVE  SharedInv' /\ Shared!AnswerStep
<1>1. Shared!TypeOK /\ Shared!OwnAnswer /\ pending \in Seq(Shared!Message)
  BY DEF SharedInv, Shared!TypeOK
<1>2. PICK d \in {0, 1}, m \in Shared!Message : SessionStep(t, d, m)
  BY <1>1, SessionMessages
<1>3. Follows(pending, pending', d, m) /\ Alive(pending, pending', d) /\ m.type # "MACAddressRequest"
      /\ m.id = t
  BY <1>2 DEF SessionStep, Shared!Request
<1>4. /\ conn' = conn /\ probes' = probes /\ dwell' = dwell
      /\ timers' \subseteq Shared!Session \X Shared!Kind
      /\ app' \in [Shared!Session -> Shared!ClientState \cup Shared!ServerState]
      /\ \A s \in Shared!Session \ {t} : app'[s] = app[s]
      /\ t \in Client => app'[t] \in Shared!ClientState
      /\ t \in Server => app'[t] \in Shared!ServerState
  BY <1>1, SessionStates
<1>5. Shared!TypeOK'
  <2>1. \A c \in Client : app'[c] \in Shared!ClientState
    BY <1>1, <1>4 DEF Shared!TypeOK, Shared!Session
  <2>2. \A s \in Server : app'[s] \in Shared!ServerState
    BY <1>1, <1>4 DEF Shared!TypeOK, Shared!Session
  <2> QED BY <1>1, <1>3, <1>4, <2>1, <2>2 DEF Shared!TypeOK, Follows
<1>6. Shared!OwnAnswer'
  BY <1>1, <1>3, <1>4, OwnKept
<1>7. ASSUME NEW s \in Shared!Session PROVE AskedLast(s)'
  <2>1. app'[s] = "TX_PROBE_INIT" =>
          \/ app[s] = "TX_PROBE_INIT"
             /\ m.type \notin {"FromAppChanswitchRequest", "FromAppChangeChannelRequest"}
          \/ app[s] = "TX_PROBE_INIT" /\ m.id # s
          \/ /\ Len(pending') = Len(pending) - d + 1
             /\ m.type = "FromAppMACAddressRequest" /\ m.id = s
    <3>1. CASE s = t
      BY <1>2, <3>1 DEF SessionStep
    <3>2. CASE s # t
      BY <1>3, <1>4, <3>2
    <3> QED BY <3>1, <3>2
  <2>2. AskedLast(s)
    BY DEF SharedInv
  <2> QED BY <1>1, <1>3, <2>1, <2>2, StillAskedLast
<1>8. ASSUME NEW s \in Shared!Session, Shared!UnderWay(s), ~ Shared!UnderWay(s)'
      PROVE  Shared!Answered(s)
  <2>1. d = 1 /\ Leads(pending, conn, s, 1)
    BY <1>1, <1>3, <1>4, <1>8, StillUnderWay
  <2> QED BY <1>2, <2>1 DEF SessionStep, Leads
<1> QED BY <1>1, <1>5, <1>6, <1>7, <1>8 DEF SharedInv, Shared!AnswerStep

\* A step of the MAC leaves the states of the sessions alone.
LEMMA MacKeeps ==
  ASSUME SharedInv, UNCHANGED <<app, timers>>, conn' \in Shared!Session \cup {NoConn},
         probes' \in Nat, dwell' \in BOOLEAN, Shared!OwnAnswer', Shared!AnswerStep,
         NEW d \in {0, 1}, NEW m, Follows(pending, pending', d, m), m.type \notin Shared!Request
  PROVE  SharedInv' /\ Shared!AnswerStep
<1>1. Shared!TypeOK'
  BY DEF SharedInv, Shared!TypeOK, Follows
<1>2. ASSUME NEW s \in Shared!Session PROVE AskedLast(s)'
  <2>1. AskedLast(s) /\ pending \in Seq(Shared!Message)
    BY DEF SharedInv, Shared!TypeOK
  <2>2. m.type \notin {"FromAppChanswitchRequest", "FromAppChangeChannelRequest"}
    BY DEF Shared!Request
  <2> QED BY <2>1, <2>2, StillAskedLast
<1> QED BY <1>1, <1>2 DEF SharedInv

\* A request is taken: what served another session is out of date; a session that
\* waits has asked after what it overtakes itself with.
LEMMA RequestOvertakes ==
  ASSUME SharedInv, NEW t \in Shared!Session, Shared!TakesRequest(t),
         pending # <<>>, pending[1].id = t, pending[1].type \in Shared!Request,
         pending[1].type = "FromAppMACAddressRequest" => Shared!UnderWay(t)',
         NEW m, Follows(pending, pending', 1, m),
         NEW s \in Shared!Session, Shared!UnderWay(s), ~ Shared!UnderWay(s)'
  PROVE  Shared!Overtaken(s)
<1> DEFINE n == Len(pending)
           Asks(i) == pending[i].type \in {"FromAppMACAddressRequest", "MACAddressReply"}
                      /\ pending[i].id = s
<1>1. n \in Nat \ {0}
  BY SMT DEF SharedInv, Shared!TypeOK
<1>2. \A i \in 2 .. n : i - 1 \in 1 .. n - 1 /\ (i - 1) + 1 = i
  BY <1>1, SMT
<1>3. \A i \in 2 .. n : ~ Asks(i)
  <2> SUFFICES ASSUME NEW i \in 2 .. n, Asks(i) PROVE FALSE
    OBVIOUS
  <2>1. i - 1 \in 1 .. Len(pending') /\ pending'[i - 1].type = pending[i].type
        /\ pending'[i - 1].id = pending[i].id
    BY <1>2 DEF Follows
  <2> QED BY <2>1 DEF Shared!UnderWay
<1>4. \A i \in 1 .. n : i = 1 \/ i \in 2 .. n
  BY <1>1, SMT
<1>5. ~ Asks(1)
  BY DEF Shared!Request
<1>6. PICK i \in 1 .. n : Leads(pending, conn, s, i)
  BY DEF Shared!UnderWay, Leads
<1>7. conn = s
  BY <1>3, <1>4, <1>5, <1>6 DEF Leads
<1>8. t = s => app[s] # "TX_PROBE_INIT"
  <2> SUFFICES ASSUME t = s, app[s] = "TX_PROBE_INIT" PROVE FALSE
    OBVIOUS
  <2>1. pending[1].type \in {"FromAppChanswitchRequest", "FromAppChangeChannelRequest"}
    BY DEF Shared!Request
  <2>2. AskedLast(s) /\ 1 \in 1 .. n
    BY <1>1, SMT DEF SharedInv
  <2>3. PICK k \in 1 .. n : k > 1 /\ Asks(k)
    BY <2>1, <2>2 DEF AskedLast
  <2>4. k \in 2 .. n
    BY <1>1, <2>3, SMT
  <2> QED BY <1>3, <2>3, <2>4
<1> QED BY <1>7, <1>8 DEF Shared!Overtaken

LEMMA RequestKeeps ==
  ASSUME Shared!SharedAssumption, SharedInv, NEW t \in Shared!Session, Shared!TakesRequest(t)
  PROVE  SharedInv' /\ Shared!AnswerStep
<1> DEFINE r == Head(pending).type
<1>1. /\ pending \in Seq(Shared!Message) /\ Client \cap Server = {} /\ probes \in Nat /\ dwell \in BOOLEAN
      /\ "FromAppMACAddressRequest" # "FromAppChanswitchRequest"
  BY DEF SharedInv, Shared!TypeOK, Shared!SharedAssumption
<1>2. /\ pending # <<>> /\ Head(pending).id = t /\ r \in Shared!Request
      /\ conn' = t /\ UNCHANGED <<app, timers, probes>>
  BY DEF Shared!TakesRequest, Shared!FromAppMACAddressRequest, Shared!FromAppChanswitchRequest,
    Shared!FromAppChangeChannelRequest, Shared!Gets, Shared!Request
<1>3. Head(pending) = pending[1]
  BY <1>1, <1>2, SharedTaken
<1>4. ASSUME NEW type \in Shared!ManagementTimer, Shared!StartTimer(type, t),
             r = "FromAppMACAddressRequest" => type = "MACAddressRequest"
      PROVE  SharedInv' /\ Shared!AnswerStep
  <2> DEFINE m == Shared!Msg(type, t)
  <2>1. /\ m \in Shared!Message /\ m.type = type /\ m.id = t /\ m.live
        /\ m.type \notin Shared!Request
        /\ pending' = Append(Shared!Outdated(Tail(pending)), m) /\ dwell' = FALSE
    BY <1>4 DEF Shared!StartTimer, Shared!Msg, Shared!Message, Shared!ManagementTimer, Shared!Request
  <2> HIDE DEF m
  <2>2. /\ Follows(pending, pending', 1, m) /\ Len(pending) \in 1 .. Len(pending')
        /\ Len(pending') = Len(pending) /\ pending'[Len(pending')] = m
        /\ \A i \in 1 .. Len(pending') : i = Len(pending') \/ i \in 1 .. Len(pending') - 1
        /\ \A i \in 1 .. Len(pending') - 1 : pending'[i].type = "MACAddressRequest" => ~ pending'[i].live
    BY <1>1, <1>2, <2>1, SharedStarted
  <2>3. Shared!OwnAnswer'
    <3> SUFFICES ASSUME NEW i \in 1 .. Len(pending'), pending'[i].type = "MACAddressRequest",
                        pending'[i].live
                 PROVE  pending'[i].id = t
      BY <1>2 DEF Shared!OwnAnswer
    <3> QED BY <2>1, <2>2
  <2>4. r = "FromAppMACAddressRequest" => Shared!UnderWay(t)'
    <3>1. Leads(pending', t, t, Len(pending')) \/ r # "FromAppMACAddressRequest"
      BY <1>4, <2>1, <2>2 DEF Leads
    <3> QED BY <1>2, <2>2, <3>1 DEF Leads, Shared!UnderWay
  <2>5. ASSUME NEW s \in Shared!Session, Shared!UnderWay(s), ~ Shared!UnderWay(s)'
        PROVE  Shared!Overtaken(s)
    BY <1>2, <1>3, <2>2, <2>4, <2>5, RequestOvertakes
  <2>6. Shared!AnswerStep
    BY <2>5 DEF Shared!AnswerStep
  <2> QED BY <1>1, <1>2, <2>1, <2>2, <2>3, <2>6, MacKeeps
<1>5. CASE t \in Server /\ Shared!Consumed /\ UNCHANGED dwell /\ r = "FromAppChangeChannelRequest"
  <2> DEFINE m == Shared!Msg("MACAddressReply", t)
  <2>1. Follows(pending, pending', 1, m) /\ m.type \notin Shared!Request
    BY <1>1, <1>2, <1>5, SharedTaken DEF Shared!Consumed, Shared!Msg, Shared!Request
  <2> HIDE DEF m
  <2>2. Shared!OwnAnswer'
    BY <1>1, <1>2, <1>5 DEF Shared!OwnAnswer
  <2>3. ASSUME NEW s \in Shared!Session, Shared!UnderWay(s), ~ Shared!UnderWay(s)'
        PROVE  Shared!Overtaken(s)
    BY <1>2, <1>3, <1>5, <2>1, <2>3, RequestOvertakes
  <2>4. Shared!AnswerStep
    BY <2>3 DEF Shared!AnswerStep
  <2> QED BY <1>1, <1>2, <1>5, <2>1, <2>2, <2>4, MacKeeps
<1>6. CASE Shared!FromAppMACAddressRequest(t)
  BY <1>4, <1>6 DEF Shared!FromAppMACAddressRequest, Shared!ManagementTimer
<1>7. CASE Shared!FromAppChanswitchRequest(t)
  BY <1>1, <1>4, <1>7 DEF Shared!FromAppChanswitchRequest, Shared!ManagementTimer, Shared!Gets
<1>8. CASE Shared!FromAppChangeChannelRequest(t)
  BY <1>4, <1>5, <1>8 DEF Shared!FromAppChangeChannelRequest, Shared!ManagementTimer, Shared!Gets
<1> QED BY <1>6, <1>7, <1>8 DEF Shared!TakesRequest

\* The timer of an address request: the answer goes to the session that is served.
LEMMA AddressTimerKeeps ==
  ASSUME SharedInv, NEW t \in Shared!Session, Shared!MACAddressTimer(t)
  PROVE  SharedInv' /\ Shared!AnswerStep
<1> DEFINE m == Shared!Msg("MACAddressReply", conn)
<1>1. /\ pending \in Seq(Shared!Message) /\ probes \in Nat /\ dwell \in BOOLEAN
      /\ conn \in Shared!Session \cup {NoConn} /\ Shared!OwnAnswer
  BY DEF SharedInv, Shared!TypeOK
<1>2. /\ pending # <<>> /\ Head(pending).type = "MACAddressRequest"
      /\ UNCHANGED <<app, timers, conn, probes, dwell>>
  BY DEF Shared!MACAddressTimer, Shared!Gets, Shared!macVars
<1>3. m \in Shared!Message /\ m.type = "MACAddressReply" /\ m.id = conn /\ m.type \notin Shared!Request
  BY <1>1 DEF Shared!Msg, Shared!Message, Shared!Request
<1>4. \/ Head(pending).live /\ pending' = Append(Tail(pending), m)
      \/ ~ Head(pending).live /\ pending' = Tail(pending)
  BY DEF Shared!MACAddressTimer, Shared!Answers, Shared!Consumed
<1> HIDE DEF m
<1>5. /\ Follows(pending, pending', 1, m) /\ Alive(pending, pending', 1)
      /\ Head(pending) = pending[1]
      /\ Head(pending).live => Len(pending') = Len(pending) - 1 + 1 /\ pending' # <<>>
  <2>1. Len(pending) \in Nat \ {0} /\ Head(pending) = pending[1]
    BY <1>1, <1>2, SharedTaken
  <2>2. Len(pending) - 1 + 1 = Len(pending)
    BY <2>1, SMT
  <2>3. CASE Head(pending).live
    <3>1. /\ Follows(pending, pending', 1, m) /\ Alive(pending, pending', 1)
          /\ Len(pending') = Len(pending)
      BY <1>1, <1>2, <1>3, <1>4, <2>3, SharedAnswered
    <3>2. pending' # <<>>
      BY <2>1, <3>1, SMT
    <3> QED BY <2>1, <2>2, <2>3, <3>1, <3>2
  <2>4. CASE ~ Head(pending).live
    BY <1>1, <1>2, <1>4, <2>1, <2>4, SharedTaken
  <2> QED BY <2>3, <2>4
<1>6. Shared!OwnAnswer'
  BY <1>1, <1>2, <1>3, <1>5, OwnKept
<1>7. ASSUME NEW s \in Shared!Session, Shared!UnderWay(s) PROVE Shared!UnderWay(s)'
  <2>1. CASE Leads(pending, conn, s, 1)
    <3>1. Head(pending).live /\ conn = s
      BY <1>2, <1>5, <2>1 DEF Leads
    <3>2. Leads(pending', conn', s, Len(pending'))
      BY <1>2, <1>3, <1>5, <3>1 DEF Leads, Follows
    <3> QED BY <1>5, <3>1, <3>2, LastUnderWay DEF Follows
  <2>2. CASE ~ Leads(pending, conn, s, 1)
    BY <1>1, <1>2, <1>5, <1>7, <2>2, StillUnderWay
  <2> QED BY <2>1, <2>2
<1>8. Shared!AnswerStep
  BY <1>7 DEF Shared!AnswerStep
<1> QED BY <1>1, <1>2, <1>3, <1>5, <1>6, <1>8, MacKeeps

\* What does not concern the addresses: no request for one is lost.
LEMMA ScanKeeps ==
  ASSUME SharedInv, UNCHANGED <<app, timers, conn>>, probes' \in Nat, dwell' \in BOOLEAN,
         NEW d \in {0, 1}, NEW m, Follows(pending, pending', d, m), Alive(pending, pending', d),
         m.type \notin Shared!Request \cup {"MACAddressRequest"},
         d = 1 => pending[1].type \in {"ChanswitchRequest", "ChangeChannelRequest"}
  PROVE  SharedInv' /\ Shared!AnswerStep
<1>1. /\ pending \in Seq(Shared!Message) /\ conn \in Shared!Session \cup {NoConn} /\ Shared!OwnAnswer
  BY DEF SharedInv, Shared!TypeOK
<1>2. Shared!OwnAnswer'
  BY <1>1, OwnKept
<1>3. ASSUME NEW s \in Shared!Session, Shared!UnderWay(s) PROVE Shared!UnderWay(s)'
  <2>1. d = 1 => ~ Leads(pending, conn, s, 1)
    BY DEF Leads
  <2> QED BY <1>1, <1>3, <2>1, StillUnderWay
<1>4. Shared!AnswerStep
  BY <1>3 DEF Shared!AnswerStep
<1> QED BY <1>1, <1>2, <1>4, MacKeeps

LEMMA OtherMacKeeps ==
  ASSUME Shared!SharedAssumption, SharedInv,
         \/ \E t \in Shared!Session : Shared!ChanswitchTimer(t) \/ Shared!ChangeChannelTimer(t)
         \/ Shared!ChannelScanned
         \/ UNCHANGED Shared!vars
  PROVE  SharedInv' /\ Shared!AnswerStep
<1> DEFINE m == Shared!Msg("ScanFinished", conn)
<1>1. /\ pending \in Seq(Shared!Message) /\ probes \in Nat /\ dwell \in BOOLEAN
      /\ conn \in Shared!Session \cup {NoConn}
  BY DEF SharedInv, Shared!TypeOK
<1>2. m \in Shared!Message /\ m.type \notin Shared!Request \cup {"MACAddressRequest"}
  BY <1>1 DEF Shared!Msg, Shared!Message, Shared!Request
<1>3. pending' = pending => Follows(pending, pending', 0, m) /\ Alive(pending, pending', 0)
  BY <1>1, SharedSame
<1>4. ASSUME NEW t \in Shared!Session, Shared!ChanswitchTimer(t) \/ Shared!ChangeChannelTimer(t)
      PROVE  SharedInv' /\ Shared!AnswerStep
  <2>1. /\ pending # <<>> /\ Head(pending).type \in {"ChanswitchRequest", "ChangeChannelRequest"}
        /\ pending' = Tail(pending) /\ UNCHANGED <<app, timers, conn, dwell>> /\ probes' \in Nat
    BY <1>1, <1>4 DEF Shared!ChanswitchTimer, Shared!ChangeChannelTimer, Shared!Gets, Shared!Consumed,
      Shared!macVars
  <2>2. Follows(pending, pending', 1, m) /\ Alive(pending, pending', 1) /\ Head(pending) = pending[1]
    BY <1>1, <2>1, SharedTaken
  <2> QED BY <1>1, <1>2, <2>1, <2>2, ScanKeeps
<1>5. CASE Shared!ChannelScanned
  <2>1. UNCHANGED <<app, timers, conn>> /\ dwell' \in BOOLEAN
    BY <1>5 DEF Shared!ChannelScanned
  <2>2. probes' \in Nat
    BY <1>1, <1>5 DEF Shared!ChannelScanned
  <2>3. pending' = pending \/ pending' = Append(pending, m)
    BY <1>5 DEF Shared!ChannelScanned, Shared!Sends
  <2>4. Follows(pending, pending', 0, m) /\ Alive(pending, pending', 0)
    BY <1>1, <1>2, <1>3, <2>3, SharedSent
  <2> QED BY <1>2, <2>1, <2>2, <2>4, ScanKeeps
<1>6. CASE UNCHANGED Shared!vars
  <2>1. UNCHANGED <<app, timers, conn, probes, dwell, pending>>
    BY <1>6 DEF Shared!vars
  <2> QED BY <1>1, <1>2, <1>3, <2>1, ScanKeeps
<1> QED BY <1>4, <1>5, <1>6

\* A scan goes on: the timers of the requests are out of date.
LEMMA ProbeKeeps ==
  ASSUME SharedInv, Shared!ProbeRequestTransmitted
  PROVE  SharedInv' /\ Shared!AnswerStep
<1> DEFINE m == Shared!Msg("ScanFinished", conn)
<1>1. /\ pending \in Seq(Shared!Message) /\ conn \in Shared!Session \cup {NoConn} /\ Shared!OwnAnswer
      /\ pending' = Shared!Outdated(pending) /\ UNCHANGED <<app, timers, conn>>
      /\ probes' \in Nat /\ dwell' = TRUE
  <2>1. probes \in Nat /\ probes > 0 /\ probes' = probes - 1
    BY DEF SharedInv, Shared!TypeOK, Shared!ProbeRequestTransmitted
  <2>2. probes' \in Nat
    BY <2>1, SMT
  <2> QED BY <2>2 DEF SharedInv, Shared!TypeOK, Shared!ProbeRequestTransmitted
<1>2. m.type \notin Shared!Request /\ m.type # "MACAddressRequest"
  BY DEF Shared!Msg, Shared!Request
<1> HIDE DEF m
<1>3. /\ pending' \in Seq(Shared!Message) /\ Len(pending') = Len(pending)
      /\ \A i \in 1 .. Len(pending) :
           pending'[i].type = pending[i].type /\ pending'[i].id = pending[i].id
           /\ (pending'[i].live => pending[i].live)
  BY <1>1, SharedOutdated
<1>4. Follows(pending, pending', 0, m)
  BY <1>1, <1>3, SharedSame
<1>5. Shared!OwnAnswer'
  BY <1>1, <1>2, <1>4, OwnKept
<1>6. ASSUME NEW s \in Shared!Session, Shared!UnderWay(s), ~ Shared!UnderWay(s)'
      PROVE  Shared!Overtaken(s)
  <2>1. PICK i \in 1 .. Len(pending) : Leads(pending, conn, s, i)
    BY <1>6 DEF Shared!UnderWay, Leads
  <2>2. conn = s
    BY <1>3, <1>6, <2>1 DEF Leads, Shared!UnderWay
  <2> QED BY <2>2 DEF Shared!Overtaken
<1>7. Shared!AnswerStep
  BY <1>6 DEF Shared!AnswerStep
<1> QED BY <1>1, <1>2, <1>4, <1>5, <1>7, MacKeeps

LEMMA SharedInit == Shared!SharedAssumption /\ Shared!Init => SharedInv
<1> SUFFICES ASSUME Shared!SharedAssumption, Shared!Init PROVE SharedInv
  OBVIOUS
<1>1. pending \in Seq(Shared!Message) /\ \A i \in 1 .. Len(pending) : FALSE
  BY SMT DEF Shared!Init
<1>2. Shared!TypeOK
  BY <1>1 DEF Shared!Init, Shared!TypeOK, Shared!SharedAssumption, Shared!Session,
    Shared!ClientState, Shared!ServerState
<1>3. Shared!OwnAnswer /\ \A s \in Shared!Session : AskedLast(s)
  BY <1>1 DEF Shared!OwnAnswer, AskedLast
<1> QED BY <1>2, <1>3 DEF SharedInv

LEMMA SharedStep ==
  Shared!SharedAssumption /\ SharedInv /\ [Shared!Next]_(Shared!vars) => SharedInv' /\ Shared!AnswerStep
<1> SUFFICES ASSUME Shared!SharedAssumption, SharedInv, [Shared!Next]_(Shared!vars)
             PROVE  SharedInv' /\ Shared!AnswerStep
  OBVIOUS
<1>1. ASSUME NEW t \in Shared!Session, SessionActs(t) PROVE SharedInv' /\ Shared!AnswerStep
  BY <1>1, SessionKeeps
<1>2. CASE (\E c \in Client : Shared!ClientNext(c)) \/ \E s \in Server : Shared!ServerNext(s)
  BY <1>1, <1>2 DEF SessionActs, Shared!Session
<1>3. CASE Shared!MacNext
  BY <1>3, RequestKeeps, AddressTimerKeeps, OtherMacKeeps, ProbeKeeps DEF Shared!MacNext
<1>4. CASE UNCHANGED Shared!vars
  BY <1>4, OtherMacKeeps
<1> QED BY <1>2, <1>3, <1>4 DEF Shared!Next

\* With any number of clients and servers in one node, no client is handed the
\* address that another session has asked for, and whatever leads to an answer does
\* so in the end, unless the MAC, while it serves that session, goes on with a scan or
\* takes a later request; a session that only waits does not overtake itself
\* (MSG_MAC_FromAppMACAddressRequest, MacDot11ManagementHandleTimeout).
THEOREM AnsweredUnlessOvertaken ==
  ASSUME Shared!SharedAssumption
  PROVE  Shared!Spec => []Shared!OwnAnswer /\ [][Shared!AnswerStep]_(Shared!vars)
<1>1. SharedInv => Shared!OwnAnswer
  BY DEF SharedInv
<1> QED BY <1>1, SharedInit, SharedStep, PTL DEF Shared!Spec

-----------------------------------------------------------------------------
(* The video that the application pauses. *)

CONSTANTS FramePeriod, Backoff, LastStart, MaxRequests
VARIABLES start, frames, paused, over, inbox, client, since

Playback == INSTANCE VideoPause

\* The timers of frames are in the order they fall due, and none is further away
\* than what is left, since the pause, of the last frame's period.
FramesEnd ==
  /\ frames \in Seq(0 .. FramePeriod)
  /\ \A i, j \in 1 .. Len(frames) : i <= j => frames[i] <= frames[j]
  /\ paused => \A i \in 1 .. Len(frames) : frames[i] + since <= FramePeriod

\* The timers of the back-off are in the order they fall due as well.
BackoffOrder ==
  \A i, j \in 1 .. Len(client.backoff) : i <= j => client.backoff[i] <= client.backoff[j]

VideoTypes ==
  /\ start \in Seq(0 .. LastStart) /\ Len(start) <= 1
  /\ paused \in BOOLEAN /\ over \in BOOLEAN
  /\ inbox \in Seq({"PausePlayback", "ResumePlayback"})
  /\ client \in [opened : BOOLEAN, initBackoff : BOOLEAN, backoff : Seq(0 .. Backoff),
                 requests : 0 .. MaxRequests]
  /\ since \in 0 .. FramePeriod + 1

\* The inductive invariant.
VideoInv == VideoTypes /\ FramesEnd /\ BackoffOrder /\ Playback!NeverStalls

\* Timers in the order they fall due, none longer than d.
Timers(ts, d) ==
  /\ ts \in Seq(0 .. d)
  /\ \A i, j \in 1 .. Len(ts) : i <= j => ts[i] <= ts[j]

\* A timer of the full duration is started.
LEMMA StartTimer ==
  ASSUME NEW d \in Nat, NEW ts, Timers(ts, d)
  PROVE  Timers(Playback!Start(ts, d), d) /\ Playback!Start(ts, d) # <<>>
<1>1. /\ Append(ts, d) \in Seq(0 .. d) /\ Len(Append(ts, d)) = Len(ts) + 1 /\ Len(ts) \in Nat
      /\ \A i \in 1 .. Len(ts) + 1 :
           Append(ts, d)[i] = IF i \in 1 .. Len(ts) THEN ts[i] ELSE d
      /\ Append(ts, d) # <<>>
  <2>1. d \in 0 .. d /\ ts \in Seq(0 .. d)
    BY SMT DEF Timers
  <2>2. /\ Append(ts, d) \in Seq(0 .. d) /\ Len(Append(ts, d)) = Len(ts) + 1 /\ Len(ts) \in Nat
        /\ \A i \in 1 .. Len(ts) + 1 :
             Append(ts, d)[i] = IF i \in 1 .. Len(ts) THEN ts[i] ELSE d
    BY <2>1, SMT
  <2>3. Len(Append(ts, d)) # 0
    BY <2>2, SMT
  <2> QED BY <2>2, <2>3
<1>2. \A i \in 1 .. Len(ts) : ts[i] \in 0 .. d
  BY SMT DEF Timers
<1>3. ASSUME NEW i \in 1 .. Len(ts) + 1, NEW j \in 1 .. Len(ts) + 1, i <= j
      PROVE  Append(ts, d)[i] <= Append(ts, d)[j]
  <2>1. CASE j \in 1 .. Len(ts)
    <3>1. i \in 1 .. Len(ts)
      BY <1>1, <1>3, <2>1, SMT
    <3> QED BY <1>1, <1>3, <2>1, <3>1 DEF Timers
  <2>2. CASE j \notin 1 .. Len(ts)
    <3>1. Append(ts, d)[j] = d /\ Append(ts, d)[i] \in 0 .. d
      BY <1>1, <1>2, <2>2, SMT
    <3> QED BY <3>1, SMT
  <2> QED BY <2>1, <2>2
<1> QED BY <1>1, <1>3 DEF Timers, Playback!Start

\* A timer falls due, and the others are still in order.
LEMMA TakeTimer ==
  ASSUME NEW d \in Nat, NEW ts, Timers(ts, d), ts # <<>>
  PROVE  /\ Timers(Tail(ts), d) /\ Len(Tail(ts)) = Len(ts) - 1
         /\ \A i \in 1 .. Len(Tail(ts)) : Tail(ts)[i] = ts[i + 1] /\ i + 1 \in 1 .. Len(ts)
<1>1. /\ Tail(ts) \in Seq(0 .. d) /\ Len(Tail(ts)) = Len(ts) - 1
      /\ \A i \in 1 .. Len(Tail(ts)) : Tail(ts)[i] = ts[i + 1] /\ i + 1 \in 1 .. Len(ts)
  BY SMT DEF Timers
<1>2. \A i, j \in 1 .. Len(Tail(ts)) : i <= j => i + 1 <= j + 1
  BY <1>1, SMT DEF Timers
<1> QED BY <1>1, <1>2 DEF Timers

\* Time passes: no timer was due, so each has one unit less to go.
LEMMA PassTimers ==
  ASSUME NEW d \in Nat, NEW ts, Timers(ts, d), ~ Playback!Due(ts)
  PROVE  /\ Timers(Playback!Pass(ts), d) /\ Len(Playback!Pass(ts)) = Len(ts)
         /\ \A i \in 1 .. Len(ts) : /\ Playback!Pass(ts)[i] = ts[i] - 1 /\ ts[i] \in 1 .. d
<1>1. ASSUME NEW i \in 1 .. Len(ts) PROVE ts[i] \in 1 .. d /\ ts[i] - 1 \in 0 .. d
  <2>1. /\ ts # <<>> /\ 1 \in 1 .. Len(ts) /\ 1 <= i /\ Head(ts) = ts[1]
        /\ ts[1] \in 0 .. d /\ ts[i] \in 0 .. d
    BY SMT DEF Timers
  <2>2. ts[1] # 0 /\ ts[1] <= ts[i]
    BY <2>1 DEF Timers, Playback!Due
  <2> QED BY <2>1, <2>2, SMT
<1> DEFINE ps == [i \in DOMAIN ts |-> ts[i] - 1]
<1>2. DOMAIN ts = 1 .. Len(ts) /\ Len(ts) \in Nat
  BY SMT DEF Timers
<1>3. ps \in [1 .. Len(ts) -> 0 .. d] /\ \A i \in 1 .. Len(ts) : ps[i] = ts[i] - 1
  BY <1>1, <1>2
<1> HIDE DEF ps
<1>4. ps \in Seq(0 .. d) /\ Len(ps) = Len(ts)
  BY <1>2, <1>3, SMT
<1>5. ASSUME NEW i \in 1 .. Len(ts), NEW j \in 1 .. Len(ts), i <= j PROVE ps[i] <= ps[j]
  <2>1. ts[i] <= ts[j] /\ ts[i] \in 1 .. d /\ ts[j] \in 1 .. d
    BY <1>1, <1>5 DEF Timers
  <2> QED BY <1>3, <2>1, SMT
<1> QED BY <1>1, <1>3, <1>4, <1>5 DEF ps, Timers, Playback!Pass

\* What the actions rely on.
LEMMA VideoFacts ==
  ASSUME Playback!VideoAssumption, VideoInv
  PROVE  /\ FramePeriod \in Nat \ {0} /\ Backoff \in Nat \ {0} /\ LastStart \in Nat \ {0}
         /\ Timers(frames, FramePeriod) /\ Timers(client.backoff, Backoff)
         /\ Timers(start, LastStart)
<1>1. FramePeriod \in Nat \ {0} /\ Backoff \in Nat \ {0} /\ LastStart \in Nat \ {0}
  BY DEF Playback!VideoAssumption
<1>2. \A i, j \in 1 .. Len(start) : i = j
  BY SMT DEF VideoInv, VideoTypes
<1>3. \A i \in 1 .. Len(start) : start[i] <= start[i]
  BY <1>1, SMT DEF VideoInv, VideoTypes
<1>4. \A i, j \in 1 .. Len(start) : start[i] <= start[j]
  BY <1>2, <1>3
<1> QED BY <1>1, <1>4 DEF VideoInv, VideoTypes, FramesEnd, BackoffOrder, Timers

\* What is left to show of a step: the timers of the frames, and those of the rest.
LEMMA VideoStepTypes ==
  ASSUME FramePeriod \in Nat, Timers(frames', FramePeriod), Timers(client.backoff', Backoff),
         paused' => \A i \in 1 .. Len(frames') : frames'[i] + since' <= FramePeriod,
         VideoTypes', Playback!NeverStalls'
  PROVE  VideoInv'
BY DEF VideoInv, FramesEnd, BackoffOrder, Timers

\* The application opens, starts a round or ends it: the frames go on.
LEMMA ClientSideStep ==
  ASSUME Playback!VideoAssumption, VideoInv,
         Playback!ClientOpen \/ Playback!InitiateChannelScan \/ Playback!ChannelSelectionTimeout
  PROVE  VideoInv'
<1>1. /\ FramePeriod \in Nat /\ Backoff \in Nat /\ VideoTypes /\ FramesEnd
      /\ Timers(frames, FramePeriod) /\ Timers(client.backoff, Backoff)
  BY VideoFacts DEF VideoInv
<1>2. start' = start /\ frames' = frames /\ paused' = paused /\ over' = over /\ since' = since
  BY DEF Playback!ClientOpen, Playback!InitiateChannelScan, Playback!ChannelSelectionTimeout,
         Playback!Video
<1>3. Playback!NeverStalls' /\ (paused' => \A i \in 1 .. Len(frames') : frames'[i] + since' <= FramePeriod)
  BY <1>1, <1>2 DEF VideoInv, FramesEnd, Playback!NeverStalls
<1>4. \A m \in {"PausePlayback", "ResumePlayback"} :
        Append(inbox, m) \in Seq({"PausePlayback", "ResumePlayback"})
  BY <1>1, SMT DEF VideoTypes
<1>5. CASE Playback!ClientOpen
  <2>1. /\ client' = [client EXCEPT !.opened = TRUE, !.initBackoff = TRUE,
                                    !.backoff = Playback!Start(@, Backoff)]
        /\ inbox' = Append(inbox, "PausePlayback")
    BY <1>5 DEF Playback!ClientOpen
  <2>2. Timers(Playback!Start(client.backoff, Backoff), Backoff)
    BY <1>1, StartTimer
  <2>3. /\ client.backoff' = Playback!Start(client.backoff, Backoff)
        /\ client' \in [opened : BOOLEAN, initBackoff : BOOLEAN, backoff : Seq(0 .. Backoff),
                        requests : 0 .. MaxRequests]
    BY <1>1, <2>1, <2>2 DEF VideoTypes, Timers
  <2>4. VideoTypes'
    BY <1>1, <1>2, <1>4, <2>1, <2>3 DEF VideoTypes
  <2> QED BY <1>1, <1>2, <1>3, <2>2, <2>3, <2>4, VideoStepTypes
<1>6. CASE Playback!InitiateChannelScan
  <2>1. /\ client' = [client EXCEPT !.initBackoff = TRUE, !.backoff = Playback!Start(@, Backoff),
                                    !.requests = @ + 1]
        /\ inbox' = inbox /\ client.requests < MaxRequests
    BY <1>6 DEF Playback!InitiateChannelScan
  <2>2. Timers(Playback!Start(client.backoff, Backoff), Backoff)
    BY <1>1, StartTimer
  <2>3. client.requests + 1 \in 0 .. MaxRequests
    <3>1. client.requests \in 0 .. MaxRequests /\ MaxRequests \in Nat
      BY <1>1 DEF VideoTypes, Playback!VideoAssumption
    <3> QED BY <2>1, <3>1, SMT
  <2>4. /\ client.backoff' = Playback!Start(client.backoff, Backoff)
        /\ client' \in [opened : BOOLEAN, initBackoff : BOOLEAN, backoff : Seq(0 .. Backoff),
                        requests : 0 .. MaxRequests]
    BY <1>1, <2>1, <2>2, <2>3 DEF VideoTypes, Timers
  <2>5. VideoTypes'
    BY <1>1, <1>2, <2>1, <2>4 DEF VideoTypes
  <2> QED BY <1>1, <1>2, <1>3, <2>2, <2>4, <2>5, VideoStepTypes
<1>7. CASE Playback!ChannelSelectionTimeout
  <2>1. /\ client' = [client EXCEPT !.initBackoff = FALSE, !.backoff = Tail(@)]
        /\ inbox' = Append(inbox, "ResumePlayback") /\ client.backoff # <<>>
    BY <1>7 DEF Playback!ChannelSelectionTimeout, Playback!Due
  <2>2. Timers(Tail(client.backoff), Backoff)
    BY <1>1, <2>1, TakeTimer
  <2>3. /\ client.backoff' = Tail(client.backoff)
        /\ client' \in [opened : BOOLEAN, initBackoff : BOOLEAN, backoff : Seq(0 .. Backoff),
                        requests : 0 .. MaxRequests]
    BY <1>1, <2>1, <2>2 DEF VideoTypes, Timers
  <2>4. VideoTypes'
    BY <1>1, <1>2, <1>4, <2>1, <2>3 DEF VideoTypes
  <2> QED BY <1>1, <1>2, <1>3, <2>2, <2>3, <2>4, VideoStepTypes
<1> QED BY <1>5, <1>6, <1>7

\* The video takes a message: what is paused has no frame further away than one
\* period, what is resumed has a frame to come.
LEMMA DeliverStep ==
  ASSUME Playback!VideoAssumption, VideoInv, Playback!Deliver
  PROVE  VideoInv'
<1>1. /\ FramePeriod \in Nat /\ VideoTypes /\ FramesEnd
      /\ Timers(frames, FramePeriod) /\ Timers(client.backoff, Backoff)
  BY VideoFacts DEF VideoInv
<1>2. /\ start' = start /\ over' = over /\ client' = client
      /\ inbox # <<>> /\ inbox' = Tail(inbox)
  BY DEF Playback!Deliver, Playback!PausePlayback, Playback!ResumePlayback
<1>3. inbox' \in Seq({"PausePlayback", "ResumePlayback"})
  BY <1>1, <1>2, SMT DEF VideoTypes
<1>4. CASE Playback!PausePlayback
  <2>1. paused' = TRUE /\ since' = 0 /\ frames' = frames
    BY <1>4 DEF Playback!PausePlayback
  <2>2. \A i \in 1 .. Len(frames) : frames[i] + 0 <= FramePeriod
    BY <1>1, SMT DEF Timers
  <2>3. 0 \in 0 .. FramePeriod + 1
    BY <1>1, SMT
  <2>4. VideoTypes' /\ Playback!NeverStalls'
    BY <1>1, <1>2, <1>3, <2>1, <2>3 DEF VideoTypes, Playback!NeverStalls
  <2> QED BY <1>1, <1>2, <2>1, <2>2, <2>4, VideoStepTypes
<1>5. CASE Playback!ResumePlayback
  <2>1. paused' = FALSE /\ since' = since /\ frames' = Playback!Start(frames, FramePeriod)
    BY <1>5 DEF Playback!ResumePlayback
  <2>2. Timers(frames', FramePeriod) /\ frames' # <<>>
    BY <1>1, <2>1, StartTimer
  <2>3. VideoTypes' /\ Playback!NeverStalls'
    BY <1>1, <1>2, <1>3, <2>1, <2>2 DEF VideoTypes, Playback!NeverStalls
  <2> QED BY <1>1, <1>2, <2>1, <2>2, <2>3, VideoStepTypes
<1> QED BY <1>4, <1>5 DEF Playback!Deliver

\* A frame is sent: a paused video starts no further timer.
LEMMA FrameStep ==
  ASSUME Playback!VideoAssumption, VideoInv,
         Playback!FirstFrame \/ Playback!Frame \/ Playback!LastFrame
  PROVE  VideoInv'
<1>1. /\ FramePeriod \in Nat /\ VideoTypes /\ FramesEnd
      /\ Timers(frames, FramePeriod) /\ Timers(client.backoff, Backoff)
  BY VideoFacts DEF VideoInv
<1>2. paused' = paused /\ inbox' = inbox /\ client' = client /\ since' = since
  BY DEF Playback!FirstFrame, Playback!Frame, Playback!LastFrame
<1>3. ASSUME NEW ts, Timers(ts, FramePeriod),
             paused => \A i \in 1 .. Len(ts) : ts[i] + since <= FramePeriod,
             frames' = Playback!Continue(ts)
      PROVE  /\ Timers(frames', FramePeriod)
             /\ paused' => \A i \in 1 .. Len(frames') : frames'[i] + since' <= FramePeriod
             /\ ~ paused' => frames' # <<>>
  BY <1>1, <1>2, <1>3, StartTimer DEF Playback!Continue
<1>4. ASSUME frames # <<>>
      PROVE  /\ Timers(Tail(frames), FramePeriod)
             /\ paused => \A i \in 1 .. Len(Tail(frames)) : Tail(frames)[i] + since <= FramePeriod
  BY <1>1, <1>4, TakeTimer DEF FramesEnd
<1>5. CASE Playback!FirstFrame
  <2>1. start' = <<>> /\ frames' = Playback!Continue(frames) /\ over' = over
    BY <1>5 DEF Playback!FirstFrame
  <2>2. start' \in Seq(0 .. LastStart) /\ Len(start') <= 1
    BY <2>1, SMT
  <2>3. VideoTypes'
    BY <1>1, <1>2, <2>1, <2>2 DEF VideoTypes
  <2> QED BY <1>1, <1>2, <1>3, <2>1, <2>3, VideoStepTypes DEF FramesEnd, Playback!NeverStalls
<1>6. CASE Playback!Frame
  <2>1. start' = start /\ frames' = Playback!Continue(Tail(frames)) /\ over' = over /\ frames # <<>>
    BY <1>6 DEF Playback!Frame, Playback!Due
  <2>2. VideoTypes'
    BY <1>1, <1>2, <2>1 DEF VideoTypes
  <2> QED BY <1>1, <1>2, <1>3, <1>4, <2>1, <2>2, VideoStepTypes DEF Playback!NeverStalls
<1>7. CASE Playback!LastFrame
  <2>1. start' = start /\ frames' = Tail(frames) /\ over' = TRUE /\ frames # <<>>
    BY <1>7 DEF Playback!LastFrame, Playback!Due
  <2>2. VideoTypes'
    BY <1>1, <1>2, <2>1 DEF VideoTypes
  <2> QED BY <1>1, <1>2, <1>4, <2>1, <2>2, VideoStepTypes DEF Playback!NeverStalls
<1> QED BY <1>5, <1>6, <1>7

\* Time passes: what a frame of a paused video has left shrinks as the pause grows.
LEMMA VideoTick ==
  ASSUME Playback!VideoAssumption, VideoInv, Playback!Tick
  PROVE  VideoInv'
<1>1. /\ FramePeriod \in Nat /\ Backoff \in Nat /\ LastStart \in Nat /\ VideoTypes /\ FramesEnd
      /\ Timers(frames, FramePeriod) /\ Timers(client.backoff, Backoff) /\ Timers(start, LastStart)
  BY VideoFacts DEF VideoInv
<1>2. /\ ~ Playback!Due(start) /\ ~ Playback!Due(frames) /\ ~ Playback!Due(client.backoff)
      /\ start' = Playback!Pass(start) /\ frames' = Playback!Pass(frames)
      /\ client' = [client EXCEPT !.backoff = Playback!Pass(@)]
      /\ since' = IF since > FramePeriod THEN since ELSE since + 1
      /\ paused' = paused /\ over' = over /\ inbox' = inbox
  BY DEF Playback!Tick
<1>3. /\ Timers(frames', FramePeriod) /\ Len(frames') = Len(frames)
      /\ \A i \in 1 .. Len(frames) : frames'[i] = frames[i] - 1 /\ frames[i] \in 1 .. FramePeriod
  BY <1>1, <1>2, PassTimers
<1>4. Timers(start', LastStart) /\ Len(start') = Len(start)
  BY <1>1, <1>2, PassTimers
<1>5. Timers(Playback!Pass(client.backoff), Backoff)
  BY <1>1, <1>2, PassTimers
<1>6. /\ client.backoff' = Playback!Pass(client.backoff)
      /\ client' \in [opened : BOOLEAN, initBackoff : BOOLEAN, backoff : Seq(0 .. Backoff),
                      requests : 0 .. MaxRequests]
  BY <1>1, <1>2, <1>5 DEF VideoTypes, Timers
<1>7. since \in 0 .. FramePeriod + 1 /\ since' \in 0 .. FramePeriod + 1 /\ since' <= since + 1
  BY <1>1, <1>2, SMT DEF VideoTypes
<1>8. VideoTypes'
  BY <1>1, <1>2, <1>4, <1>6, <1>7 DEF VideoTypes, Timers
<1>9. ASSUME paused', NEW i \in 1 .. Len(frames') PROVE frames'[i] + since' <= FramePeriod
  <2>1. frames[i] + since <= FramePeriod /\ frames[i] \in 1 .. FramePeriod /\ frames'[i] = frames[i] - 1
    BY <1>1, <1>2, <1>3, <1>9 DEF FramesEnd
  <2> QED BY <1>1, <1>7, <2>1, SMT
<1>10. \A d \in Nat : \A ts : Timers(ts, d) => (ts = <<>> <=> Len(ts) = 0)
  BY SMT DEF Timers
<1>11. (frames' = <<>> <=> frames = <<>>) /\ (start' = <<>> <=> start = <<>>)
  BY <1>1, <1>3, <1>4, <1>10
<1>12. Playback!NeverStalls'
  BY <1>2, <1>11 DEF VideoInv, Playback!NeverStalls
<1> QED BY <1>1, <1>3, <1>5, <1>6, <1>8, <1>9, <1>12, VideoStepTypes

LEMMA VideoInductive ==
  ASSUME Playback!VideoAssumption
  PROVE  Playback!Spec => []VideoInv
<1>1. Playback!Init => VideoInv
  <2> SUFFICES ASSUME Playback!Init PROVE VideoInv
    OBVIOUS
  <2>1. PICK time \in 0 .. LastStart : start = <<time>>
    BY DEF Playback!Init
  <2>2. start \in Seq(0 .. LastStart) /\ Len(start) <= 1 /\ start # <<>>
    BY <2>1, SMT
  <2>3. 0 \in 0 .. FramePeriod + 1 /\ 0 \in 0 .. MaxRequests
    BY SMT DEF Playback!VideoAssumption
  <2>4. client \in [opened : BOOLEAN, initBackoff : BOOLEAN, backoff : Seq(0 .. Backoff),
                    requests : 0 .. MaxRequests]
    BY <2>3 DEF Playback!Init
  <2>5. 1 .. Len(frames) = {} /\ 1 .. Len(client.backoff) = {}
    BY SMT DEF Playback!Init
  <2>6. frames \in Seq(0 .. FramePeriod) /\ inbox \in Seq({"PausePlayback", "ResumePlayback"})
    BY DEF Playback!Init
  <2>7. VideoTypes
    BY <2>2, <2>3, <2>4, <2>6 DEF Playback!Init, VideoTypes
  <2>8. FramesEnd /\ BackoffOrder
    BY <2>5, <2>6 DEF FramesEnd, BackoffOrder
  <2> QED BY <2>2, <2>7, <2>8 DEF VideoInv, Playback!NeverStalls
<1>2. VideoInv /\ [Playback!Next]_(Playback!vars) => VideoInv'
  <2> SUFFICES ASSUME VideoInv, [Playback!Next]_(Playback!vars) PROVE VideoInv'
    OBVIOUS
  <2>1. CASE UNCHANGED Playback!vars
    BY <2>1 DEF Playback!vars, VideoInv, VideoTypes, FramesEnd, BackoffOrder, Playback!NeverStalls
  <2>2. CASE Playback!Next
    BY <2>2, ClientSideStep, DeliverStep, FrameStep, VideoTick DEF Playback!Next, Playback!Timeout
  <2> QED BY <2>1, <2>2
<1> QED BY <1>1, <1>2, PTL DEF Playback!Spec

\* A pause longer than the period of a frame stops the video, whatever timers were
\* running and whenever the first frame falls due (AppLayerVideoClient).
THEOREM VideoPauseStops ==
  ASSUME Playback!VideoAssumption
  PROVE  Playback!Spec => []Playback!PauseStops
<1>1. VideoInv => Playback!PauseStops
  <2> SUFFICES ASSUME VideoInv, paused, since > FramePeriod PROVE frames = <<>>
    BY DEF Playback!PauseStops
  <2>1. FramePeriod \in Nat /\ since \in Nat /\ frames \in Seq(0 .. FramePeriod)
    BY SMT DEF VideoInv, VideoTypes, FramesEnd, Playback!VideoAssumption
  <2>2. ASSUME frames # <<>> PROVE FALSE
    <3>1. 1 \in 1 .. Len(frames) /\ frames[1] \in Nat
      BY <2>1, <2>2, SMT
    <3>2. frames[1] + since <= FramePeriod
      BY <3>1 DEF VideoInv, FramesEnd
    <3> QED BY <2>1, <3>1, <3>2, SMT
  <2> QED BY <2>2
<1> QED BY <1>1, VideoInductive, PTL

\* A video that is not paused has its next frame to come until the stream is over,
\* whatever pauses and resumptions came before, and wherever they fell between two
\* frames (MSG_APP_FromChanswitchResumePlayback starts the chain again).
THEOREM VideoNeverStalls ==
  ASSUME Playback!VideoAssumption
  PROVE  Playback!Spec => []Playback!NeverStalls
<1>1. VideoInv => Playback!NeverStalls
  BY DEF VideoInv
<1> QED BY <1>1, VideoInductive, PTL

\* The timers of the video and of the application are well typed: none is below
\* zero, since those of one kind fall due in the order they were started.
THEOREM VideoTypeCorrect ==
  ASSUME Playback!VideoAssumption
  PROVE  Playback!Spec => []Playback!TypeOK
<1>1. VideoInv => Playback!TypeOK
  BY DEF VideoInv, VideoTypes, FramesEnd, Playback!TypeOK
<1> QED BY <1>1, VideoInductive, PTL

-----------------------------------------------------------------------------
(***************************************************************************)
(* The list of visible nodes.                                              *)
(***************************************************************************)

CONSTANTS NumChannels, Station, AccessPoint, Home, MaxMoves, MaxScans
VARIABLES at, tuned, left, apList, visible, given, current, moved, moves, scans

Nodes == INSTANCE VisibleNodes

NodeList == Seq(Nodes!Entry)
ApEntry == [bss : Station, channel : Nodes!Channel]

\* Every station once.
EachOnce(list) ==
  \A i, j \in 1 .. Len(list) : list[i].bss = list[j].bss => i = j

\* What list says of a station that has never moved is true.
TrueNow(list) ==
  \A i \in 1 .. Len(list) : list[i].bss \notin moved => list[i].channel = at[list[i].bss]

\* The list has grown: its stations are where they were, and access points are still ones.
Grown(list, longer) ==
  /\ Len(longer) >= Len(list)
  /\ \A i \in 1 .. Len(list) :
       longer[i].bss = list[i].bss /\ (list[i].isAP => longer[i].isAP)

NodesTypes ==
  /\ at \in [Station -> Nodes!Channel] /\ tuned \in Nodes!Channel
  /\ left \in -1 .. NumChannels - 1
  /\ apList \in Seq(ApEntry) /\ visible \in NodeList
  /\ given \in 0 .. Len(visible)
  /\ current \subseteq Station \X Nodes!Channel
  /\ moved \subseteq Station
  /\ moves \in 0 .. MaxMoves /\ scans \in 0 .. MaxScans

\* The inductive invariant: whoever was heard in a scan that is not over is in one of the
\* two lists, the list is only lent out between scans, and both lists are true.
NodesInv ==
  /\ NodesTypes
  /\ EachOnce(visible)
  /\ TrueNow(visible) /\ TrueNow(apList)
  /\ given > 0 => left = -1 /\ {h[1] : h \in current} \subseteq Nodes!Known(visible)
  /\ left >= 0 => {h[1] : h \in current} \subseteq Nodes!Known(visible) \cup Nodes!Known(apList)

-----------------------------------------------------------------------------
\* What AddVisibleNode makes of a list.
LEMMA AddedOne ==
  ASSUME NEW list \in NodeList, NEW s \in Station, NEW c \in Nodes!Channel, NEW ap \in BOOLEAN,
         NEW r, r = Nodes!AddVisibleNode(list, s, c, ap)
  PROVE  /\ r \in NodeList /\ Grown(list, r)
         /\ Nodes!Known(r) = Nodes!Known(list) \cup {s}
         /\ EachOnce(list) => EachOnce(r)
         /\ TrueNow(list) /\ (s \notin moved => c = at[s]) => TrueNow(r)
         /\ ~ ap => \A i \in 1 .. Len(list) : r[i] = list[i]
<1> DEFINE e == [bss |-> s, channel |-> c, isAP |-> ap]
<1>1. e \in Nodes!Entry /\ e.bss = s /\ e.channel = c /\ e.isAP = ap BY DEF Nodes!Entry
<1>2. Len(list) \in Nat /\ \A i \in 1 .. Len(list) : list[i] \in Nodes!Entry
  BY DEF NodeList
<1>3. CASE s \in Nodes!Known(list)
  <2>1. r = [i \in 1 .. Len(list) |->
               IF list[i].bss = s /\ ~ list[i].isAP /\ ap THEN e ELSE list[i]]
    BY <1>3 DEF Nodes!AddVisibleNode, Nodes!Indices
  <2> HIDE DEF e
  <2>2. r \in NodeList /\ Len(r) = Len(list)
    BY <1>1, <1>2, <2>1, SMT DEF NodeList
  <2>3. \A i \in 1 .. Len(list) :
          /\ r[i] = IF list[i].bss = s /\ ~ list[i].isAP /\ ap THEN e ELSE list[i]
          /\ r[i].bss = list[i].bss /\ (list[i].isAP => r[i].isAP)
    BY <1>1, <2>1
  <2>4. Nodes!Known(r) = Nodes!Known(list)
    BY <2>2, <2>3 DEF Nodes!Known, Nodes!Indices
  <2>5. EachOnce(list) => EachOnce(r) BY <2>2, <2>3 DEF EachOnce
  <2>6. TrueNow(list) /\ (s \notin moved => c = at[s]) => TrueNow(r)
    BY <1>1, <2>2, <2>3 DEF TrueNow
  <2>7. Grown(list, r) BY <1>2, <2>2, <2>3 DEF Grown
  <2>8. ~ ap => \A i \in 1 .. Len(list) : r[i] = list[i] BY <2>3
  <2> QED BY <1>3, <2>2, <2>4, <2>5, <2>6, <2>7, <2>8
<1>4. CASE s \notin Nodes!Known(list)
  <2>1. r = Append(list, e) BY <1>4 DEF Nodes!AddVisibleNode
  <2> HIDE DEF e
  <2>2. r \in NodeList /\ Len(r) = Len(list) + 1 BY <1>1, <2>1, SMT DEF NodeList
  <2>3. r[Len(list) + 1] = e /\ \A i \in 1 .. Len(list) : r[i] = list[i]
    BY <1>1, <1>2, <2>1, SMT DEF NodeList
  <2>4. \A i \in 1 .. Len(r) : i \in 1 .. Len(list) \/ i = Len(list) + 1
    BY <1>2, <2>2, SMT
  <2>5. \A i \in 1 .. Len(list) : i \in 1 .. Len(r) /\ list[i].bss # s
    <3>1. \A i \in 1 .. Len(list) : i \in 1 .. Len(r) BY <1>2, <2>2, SMT
    <3> QED BY <1>4, <3>1 DEF Nodes!Known, Nodes!Indices
  <2>6. Len(list) + 1 \in 1 .. Len(r) BY <1>2, <2>2, SMT
  <2>7. Nodes!Known(r) = Nodes!Known(list) \cup {s}
    <3>1. \A x \in Nodes!Known(r) : x \in Nodes!Known(list) \cup {s}
      BY <1>1, <2>3, <2>4 DEF Nodes!Known, Nodes!Indices
    <3>2. \A x \in Nodes!Known(list) : x \in Nodes!Known(r)
      BY <2>3, <2>5 DEF Nodes!Known, Nodes!Indices
    <3>3. s \in Nodes!Known(r)
      BY <1>1, <2>3, <2>6 DEF Nodes!Known, Nodes!Indices
    <3> QED BY <3>1, <3>2, <3>3
  <2>8. EachOnce(list) => EachOnce(r)
    <3> SUFFICES ASSUME EachOnce(list), NEW i \in 1 .. Len(r), NEW j \in 1 .. Len(r),
                        r[i].bss = r[j].bss
                 PROVE  i = j
      BY DEF EachOnce
    <3> QED BY <1>1, <2>3, <2>4, <2>5 DEF EachOnce
  <2>9. TrueNow(list) /\ (s \notin moved => c = at[s]) => TrueNow(r)
    BY <1>1, <2>3, <2>4 DEF TrueNow
  <2>10. Grown(list, r) BY <1>2, <2>2, <2>3, SMT DEF Grown
  <2> QED BY <2>2, <2>3, <2>7, <2>8, <2>9, <2>10
<1> QED BY <1>3, <1>4

-----------------------------------------------------------------------------
(* FindBestAp walks the list of access points from its head, which is the last element. *)

\* A set of numbers that is not empty has a least one.
LEMMA LeastOf ==
  ASSUME NEW T, T \subseteq Nat, T # {}
  PROVE  \E m \in T : \A k \in T : m <= k
<1> DEFINE Less == {ss \in Nat \X Nat : ss[1] < ss[2]}
<1>1. IsWellFoundedOn(Less, Nat) BY NatLessThanWellFounded DEF OpToRel
<1> HIDE DEF Less
<1>2. PICK x \in T : \A y \in T : ~ (<<y, x>> \in Less) BY <1>1, WFMin
<1>3. \A y \in T : x <= y
  <2> SUFFICES ASSUME NEW y \in T PROVE x <= y OBVIOUS
  <2>1. x \in Nat /\ y \in Nat OBVIOUS
  <2>2. <<y, x>> \in Nat \X Nat /\ <<y, x>>[1] = y /\ <<y, x>>[2] = x BY <2>1
  <2>3. ~ (y < x) BY <1>2, <2>2 DEF Less
  <2> QED BY <2>1, <2>3, SMT
<1> QED BY <1>3

\* The equation of the walk over the first n of them.
Step(g, k) ==
  LET i == Len(apList) + 1 - k IN
  Nodes!AddVisibleNode(g, apList[i].bss, Nodes!ApChannel(i), TRUE)
IsWalk(g, n) == g = [k \in 0 .. n |-> IF k = 0 THEN visible ELSE Step(g[k - 1], k)]

\* There is a function with this equation.
LEMMA WalkExists ==
  ASSUME NEW n \in Nat
  PROVE  \E g : IsWalk(g, n)
<1> DEFINE T == {k \in Nat : ~ \E g : IsWalk(g, k)}
<1> SUFFICES ASSUME T # {} PROVE FALSE OBVIOUS
<1>1. T \subseteq Nat OBVIOUS
<1> HIDE DEF T
<1>2. PICK m \in T : \A k \in T : m <= k BY <1>1, LeastOf
<1>3. m \in Nat /\ ~ \E g : IsWalk(g, m) BY <1>2 DEF T
<1>4. CASE m = 0
  <2> DEFINE g == [k \in 0 .. 0 |-> visible]
  <2>1. g = [k \in 0 .. 0 |-> IF k = 0 THEN visible ELSE Step(g[k - 1], k)] BY SMT
  <2> QED BY <1>3, <1>4, <2>1 DEF IsWalk
<1>5. CASE m # 0
  <2>1. m - 1 \in Nat /\ ~ (m <= m - 1) BY <1>3, <1>5, SMT
  <2>2. m - 1 \notin T BY <1>2, <2>1
  <2>3. PICK h : IsWalk(h, m - 1) BY <2>1, <2>2 DEF T
  <2> DEFINE g == [k \in 0 .. m |-> IF k = m THEN Step(h[m - 1], m) ELSE h[k]]
  <2>4. \A k \in 0 .. m : g[k] = IF k = 0 THEN visible ELSE Step(g[k - 1], k)
    <3> SUFFICES ASSUME NEW k \in 0 .. m
                 PROVE  g[k] = IF k = 0 THEN visible ELSE Step(g[k - 1], k)
      OBVIOUS
    <3>1. CASE k = m
      <4>1. m - 1 \in 0 .. m /\ m - 1 # m BY <1>3, <2>1, SMT
      <4>2. g[k] = Step(h[m - 1], m) /\ g[m - 1] = h[m - 1] BY <3>1, <4>1
      <4> QED BY <1>5, <3>1, <4>2
    <3>2. CASE k # m /\ k = 0
      <4>1. 0 \in 0 .. m - 1 BY <2>1, SMT
      <4>2. h[0] = visible BY <2>3, <4>1 DEF IsWalk
      <4> QED BY <3>2, <4>2
    <3>3. CASE k # m /\ k # 0
      <4>1. k \in 0 .. m - 1 /\ k - 1 \in 0 .. m /\ k - 1 # m BY <1>3, <3>3, SMT
      <4>2. h[k] = Step(h[k - 1], k) BY <2>3, <3>3, <4>1 DEF IsWalk
      <4>3. g[k] = h[k] /\ g[k - 1] = h[k - 1] BY <3>3, <4>1
      <4> QED BY <3>3, <4>2, <4>3
    <3> QED BY <3>1, <3>2, <3>3
  <2>5. g = [k \in 0 .. m |-> g[k]] OBVIOUS
  <2> HIDE DEF g
  <2>6. IsWalk(g, m) BY <2>4, <2>5 DEF IsWalk
  <2> QED BY <1>3, <2>6
<1> QED BY <1>4, <1>5

\* The function of the model is one.
LEMMA AddApsIsWalk ==
  ASSUME apList \in Seq(ApEntry)
  PROVE  IsWalk(Nodes!AddAps, Len(apList))
<1>1. Len(apList) \in Nat OBVIOUS
<1>2. \E g : IsWalk(g, Len(apList)) BY <1>1, WalkExists
<1>3. Nodes!AddAps = CHOOSE g : IsWalk(g, Len(apList))
  BY Zenon DEF Nodes!AddAps, IsWalk, Step
<1> QED BY <1>2, <1>3

\* What a scan leaves in the list: everybody in the list of access points is in it.
LEMMA ApsAdded ==
  ASSUME NodesTypes, EachOnce(visible), TrueNow(visible), TrueNow(apList),
         NEW r, r = Nodes!AddAps[Len(apList)]
  PROVE  /\ r \in NodeList /\ EachOnce(r) /\ TrueNow(r) /\ Grown(visible, r)
         /\ Nodes!Known(visible) \cup Nodes!Known(apList) \subseteq Nodes!Known(r)
<1> DEFINE n == Len(apList)
           g == Nodes!AddAps
           OK(k) == /\ g[k] \in NodeList /\ EachOnce(g[k]) /\ TrueNow(g[k]) /\ Grown(visible, g[k])
                    /\ Nodes!Known(visible) \subseteq Nodes!Known(g[k])
                    /\ \A i \in n + 1 - k .. n : apList[i].bss \in Nodes!Known(g[k])
           T == {k \in 0 .. n : ~ OK(k)}
<1>1. n \in Nat /\ apList \in Seq(ApEntry) BY DEF NodesTypes
<1>2. /\ g[0] = visible
      /\ \A k \in 1 .. n : g[k] = Step(g[k - 1], k)
  <2>1. IsWalk(g, n) BY <1>1, AddApsIsWalk
  <2>2. 0 \in 0 .. n /\ \A k \in 1 .. n : k \in 0 .. n /\ k # 0 BY <1>1, SMT
  <2> HIDE DEF g, n
  <2> QED BY <2>1, <2>2 DEF IsWalk
<1> HIDE DEF g
<1>3. T = {}
  <2> SUFFICES ASSUME T # {} PROVE FALSE OBVIOUS
  <2>1. T \subseteq Nat BY <1>1, SMT
  <2>2. PICK m \in T : \A k \in T : m <= k
    <3> HIDE DEF T
    <3> QED BY <2>1, LeastOf
  <2>3. m \in 0 .. n /\ ~ OK(m) OBVIOUS
  <2>4. m # 0
    <3> SUFFICES ASSUME m = 0 PROVE FALSE OBVIOUS
    <3>1. n + 1 - 0 .. n = {} BY <1>1, SMT
    <3>2. Grown(visible, visible) BY DEF Grown, NodesTypes, NodeList
    <3> QED BY <1>2, <2>3, <3>1, <3>2 DEF NodesTypes
  <2>5. m \in 1 .. n /\ m - 1 \in 0 .. n /\ ~ (m <= m - 1) BY <1>1, <2>3, <2>4, SMT
  <2>6. OK(m - 1)
    <3>1. m - 1 \notin T BY <2>2, <2>5
    <3> QED BY <2>5, <3>1
  <2> DEFINE i == n + 1 - m
             s == apList[i].bss
             c == Nodes!ApChannel(i)
  <2>7. i \in 1 .. n /\ i \in n + 1 - m .. n BY <1>1, <2>5, SMT
  <2>8. s \in Station /\ c \in Nodes!Channel /\ (s \notin moved => c = at[s])
    <3>1. apList[i] \in ApEntry BY <1>1, <2>7
    <3>2. Nodes!ApChannel(i) = apList[i].channel BY DEF Nodes!ApChannel
    <3>3. s \notin moved => apList[i].channel = at[s] BY <2>7 DEF TrueNow
    <3> QED BY <3>1, <3>2, <3>3 DEF ApEntry
  <2>9. g[m] = Nodes!AddVisibleNode(g[m - 1], s, c, TRUE) BY <1>2, <2>5 DEF Step
  <2> HIDE DEF s, c
  <2>10. /\ g[m] \in NodeList /\ Grown(g[m - 1], g[m])
         /\ Nodes!Known(g[m]) = Nodes!Known(g[m - 1]) \cup {s}
         /\ EachOnce(g[m]) /\ TrueNow(g[m])
    <3>1. g[m - 1] \in NodeList /\ EachOnce(g[m - 1]) /\ TrueNow(g[m - 1]) BY <2>6
    <3> DEFINE yes == TRUE
               b == g[m - 1]
               t == g[m]
    <3>2. yes \in BOOLEAN OBVIOUS
    <3>3. b \in NodeList /\ EachOnce(b) /\ TrueNow(b) /\ t = Nodes!AddVisibleNode(b, s, c, yes)
      BY <2>9, <3>1
    <3> HIDE DEF yes, b, t, g
    <3>4. /\ t \in NodeList /\ Grown(b, t) /\ Nodes!Known(t) = Nodes!Known(b) \cup {s}
          /\ EachOnce(t) /\ TrueNow(t)
      BY <2>8, <3>2, <3>3, AddedOne
    <3> QED BY <3>4 DEF b, t
  <2>11. Grown(visible, g[m])
    <3>1. Len(visible) \in Nat /\ Len(g[m - 1]) \in Nat /\ Len(g[m]) \in Nat
      BY <2>6, <2>10 DEF NodesTypes, NodeList
    <3>2. Len(g[m]) >= Len(visible) /\ \A j \in 1 .. Len(visible) : j \in 1 .. Len(g[m - 1])
      BY <2>6, <2>10, <3>1, SMT DEF Grown
    <3> QED BY <2>6, <2>10, <3>2 DEF Grown
  <2>12. \A j \in n + 1 - m .. n : apList[j].bss \in Nodes!Known(g[m])
    <3> SUFFICES ASSUME NEW j \in n + 1 - m .. n PROVE apList[j].bss \in Nodes!Known(g[m])
      OBVIOUS
    <3>1. j = i \/ j \in n + 1 - (m - 1) .. n BY <1>1, <2>5, SMT
    <3>2. CASE j = i BY <2>10, <3>2 DEF s
    <3>3. CASE j \in n + 1 - (m - 1) .. n BY <2>6, <2>10, <3>3
    <3> QED BY <3>1, <3>2, <3>3
  <2> QED BY <2>3, <2>6, <2>10, <2>11, <2>12
<1>4. OK(n)
  <2>1. n \in 0 .. n BY <1>1, SMT
  <2> QED BY <1>3, <2>1
<1>5. Nodes!Known(apList) \subseteq Nodes!Known(g[n])
  <2>1. n + 1 - n .. n = 1 .. n BY <1>1, SMT
  <2> QED BY <1>4, <2>1 DEF Nodes!Known, Nodes!Indices
<1> QED BY <1>4, <1>5 DEF g

-----------------------------------------------------------------------------
(* The invariant. *)

\* Whoever is heard in a scan is known when it is over.
Heeded ==
  /\ given > 0 => left = -1 /\ {h[1] : h \in current} \subseteq Nodes!Known(visible)
  /\ left >= 0 => {h[1] : h \in current} \subseteq Nodes!Known(visible) \cup Nodes!Known(apList)

\* The stations heard when s is heard too.
LEMMA HeardToo ==
  ASSUME NodesTypes, NEW s \in Station, Nodes!Heard(s)
  PROVE  /\ current' \subseteq Station \X Nodes!Channel
         /\ left < 0 => current' = current
         /\ {h[1] : h \in current'} \subseteq {h[1] : h \in current} \cup {s}
<1>1. left \in Int BY DEF NodesTypes
<1>2. CASE left >= 0
  <2>1. current' = {h \in current : h[1] # s} \cup {<<s, tuned>>}
    BY <1>2 DEF Nodes!Heard, Nodes!Scanning
  <2>2. ~ (left < 0) BY <1>1, <1>2, SMT
  <2>3. current' \subseteq Station \X Nodes!Channel
    BY <2>1, SMT DEF NodesTypes
  <2>4. {h[1] : h \in current'} \subseteq {h[1] : h \in current} \cup {s}
    <3> SUFFICES ASSUME NEW h \in current' PROVE h[1] \in {x[1] : x \in current} \cup {s}
      OBVIOUS
    <3>1. CASE h \in current BY <3>1
    <3>2. CASE h = <<s, tuned>> BY <3>2
    <3> QED BY <2>1, <3>1, <3>2
  <2> QED BY <2>2, <2>3, <2>4
<1>3. CASE ~ (left >= 0)
  <2>1. current' = current BY <1>3 DEF Nodes!Heard, Nodes!Scanning
  <2> QED BY <2>1 DEF NodesTypes
<1> QED BY <1>2, <1>3

\* A frame overheard, in a scan or outside it, only adds.
LEMMA FrameHeard ==
  ASSUME NodesInv, NEW s \in Station, Nodes!HearFrame(s)
  PROVE  NodesInv' /\ Nodes!ReadStable /\ Nodes!NeverDemoted
<1>1. /\ s \notin moved => tuned = at[s]
      /\ tuned \in Nodes!Channel /\ FALSE \in BOOLEAN /\ visible \in NodeList
      /\ visible' = Nodes!AddVisibleNode(visible, s, tuned, FALSE)
      /\ Nodes!Heard(s) /\ NodesTypes
      /\ UNCHANGED <<at, tuned, left, apList, given, moved, moves, scans>>
  BY DEF Nodes!HearFrame, NodesInv, NodesTypes
<1>2. /\ visible' \in NodeList /\ Grown(visible, visible')
      /\ Nodes!Known(visible') = Nodes!Known(visible) \cup {s}
      /\ EachOnce(visible) => EachOnce(visible')
      /\ TrueNow(visible) => TrueNow(visible')
      /\ \A i \in 1 .. Len(visible) : visible'[i] = visible[i]
  <2>1. ~ FALSE OBVIOUS
  <2> QED BY <1>1, <2>1, AddedOne, ZenonT(60)
<1>3. /\ Len(visible) \in Nat /\ Len(visible') \in Nat /\ Len(visible') >= Len(visible)
      /\ \A i \in 1 .. given : i \in 1 .. Len(visible)
  <2>1. Len(visible) \in Nat /\ given \in 0 .. Len(visible)
    BY <1>1 DEF NodesTypes, NodeList
  <2>2. Len(visible') \in Nat BY <1>2 DEF NodeList
  <2> QED BY <1>2, <2>1, <2>2, SMT DEF Grown
<1>4. /\ current' \subseteq Station \X Nodes!Channel
      /\ left < 0 => current' = current
      /\ {h[1] : h \in current'} \subseteq {h[1] : h \in current} \cup {s}
  BY <1>1, HeardToo
<1>5. NodesTypes'
  <2>1. given' \in 0 .. Len(visible')
    <3>1. given \in 0 .. Len(visible) /\ given' = given BY <1>1 DEF NodesTypes
    <3> QED BY <1>3, <3>1, SMT
  <2> QED BY <1>1, <1>2, <1>4, <2>1 DEF NodesTypes, Nodes!Channel
<1>6. Heeded'
  <2>1. left \in Int BY <1>1 DEF NodesTypes
  <2>2. left = -1 => current' = current BY <1>4, <2>1, SMT
  <2>3. Heeded BY DEF NodesInv, Heeded
  <2>4. Nodes!Known(visible)' = Nodes!Known(visible')
    BY DEF Nodes!Known, Nodes!Indices
  <2>5. Nodes!Known(apList)' = Nodes!Known(apList) BY <1>1 DEF Nodes!Known, Nodes!Indices
  <2>6. given' > 0 => left' = -1 /\ {h[1] : h \in current'} \subseteq Nodes!Known(visible')
    BY <1>1, <1>2, <2>2, <2>3 DEF Heeded
  <2>7. left' >= 0 => {h[1] : h \in current'} \subseteq Nodes!Known(visible') \cup Nodes!Known(apList)
    BY <1>1, <1>2, <1>4, <2>3 DEF Heeded
  <2> QED BY <2>4, <2>5, <2>6, <2>7 DEF Heeded
<1>7. EachOnce(visible)' /\ TrueNow(visible)' /\ TrueNow(apList)'
  <2>1. EachOnce(visible) /\ TrueNow(visible) /\ TrueNow(apList) BY DEF NodesInv
  <2> QED BY <1>1, <1>2, <2>1 DEF EachOnce, TrueNow
<1>8. Nodes!ReadStable BY <1>2, <1>3 DEF Nodes!ReadStable
<1>9. Nodes!NeverDemoted BY <1>2 DEF Nodes!NeverDemoted, Grown, Nodes!Indices
<1> QED BY <1>5, <1>6, <1>7, <1>8, <1>9 DEF NodesInv, Heeded

\* A beacon or a probe response is noted in the list of access points.
LEMMA ApHeard ==
  ASSUME NodesInv, NEW s \in Station, Nodes!HearAp(s)
  PROVE  NodesInv' /\ UNCHANGED <<visible, given>>
<1>1. /\ s \notin moved => tuned = at[s]
      /\ tuned \in Nodes!Channel /\ left >= 0 /\ given = 0
      /\ Nodes!Heard(s) /\ NodesTypes /\ Heeded
      /\ UNCHANGED <<at, tuned, left, visible, given, moved, moves, scans>>
  <2>1. left \in Int /\ given \in Nat
    <3>1. Len(visible) \in Nat BY DEF NodesInv, NodesTypes, NodeList
    <3> QED BY <3>1 DEF NodesInv, NodesTypes
  <2>2. left >= 0 BY DEF Nodes!HearAp, Nodes!Scanning
  <2>3. given = 0 BY <2>1, <2>2, SMT DEF NodesInv
  <2> QED BY <2>2, <2>3 DEF Nodes!HearAp, NodesInv, NodesTypes, Heeded
<1> DEFINE e == [bss |-> s, channel |-> tuned]
<1>2. apList \in Seq(ApEntry) /\ e \in ApEntry /\ TrueNow(apList)
  BY <1>1 DEF NodesTypes, ApEntry, NodesInv
<1>3. apList' \in Seq(ApEntry) /\ TrueNow(apList')
      /\ Nodes!Known(apList) \cup {s} \subseteq Nodes!Known(apList')
  <2>1. CASE s \in Nodes!Known(apList)
    <3>1. apList' = [i \in 1 .. Len(apList) |->
             IF apList[i].bss = s THEN [apList[i] EXCEPT !.channel = tuned] ELSE apList[i]]
      BY <2>1 DEF Nodes!HearAp, Nodes!Indices
    <3>2. Len(apList) \in Nat /\ \A i \in 1 .. Len(apList) :
            /\ apList[i] \in ApEntry
            /\ [apList[i] EXCEPT !.channel = tuned] \in ApEntry
            /\ [apList[i] EXCEPT !.channel = tuned].bss = apList[i].bss
            /\ [apList[i] EXCEPT !.channel = tuned].channel = tuned
      <4>1. \A x \in ApEntry :
              /\ [x EXCEPT !.channel = tuned] \in ApEntry
              /\ [x EXCEPT !.channel = tuned].bss = x.bss
              /\ [x EXCEPT !.channel = tuned].channel = tuned
        BY <1>1 DEF ApEntry
      <4>2. Len(apList) \in Nat /\ \A i \in 1 .. Len(apList) : apList[i] \in ApEntry
        BY <1>2
      <4> QED BY <4>1, <4>2
    <3>3. apList' \in Seq(ApEntry) /\ Len(apList') = Len(apList)
      BY <3>1, <3>2, SMT
    <3>4. \A i \in 1 .. Len(apList) :
            /\ apList'[i].bss = apList[i].bss
            /\ apList'[i].channel = IF apList[i].bss = s THEN tuned ELSE apList[i].channel
      BY <3>1, <3>2
    <3>5. TrueNow(apList') BY <1>1, <1>2, <3>3, <3>4 DEF TrueNow
    <3>6. Nodes!Known(apList') = Nodes!Known(apList)
      BY <3>3, <3>4 DEF Nodes!Known, Nodes!Indices
    <3> QED BY <2>1, <3>3, <3>5, <3>6
  <2>2. CASE s \notin Nodes!Known(apList)
    <3>1. apList' = Append(apList, e) BY <2>2 DEF Nodes!HearAp
    <3>2. e.bss = s /\ e.channel = tuned OBVIOUS
    <3> HIDE DEF e
    <3>3. /\ apList' \in Seq(ApEntry) /\ Len(apList) \in Nat /\ Len(apList') = Len(apList) + 1
          /\ apList'[Len(apList) + 1] = e /\ \A i \in 1 .. Len(apList) : apList'[i] = apList[i]
      BY <1>2, <3>1, SMT
    <3>4. /\ \A i \in 1 .. Len(apList') : i \in 1 .. Len(apList) \/ i = Len(apList) + 1
          /\ Len(apList) + 1 \in 1 .. Len(apList')
          /\ \A i \in 1 .. Len(apList) : i \in 1 .. Len(apList')
      BY <3>3, SMT
    <3>5. TrueNow(apList')
      <4> SUFFICES ASSUME NEW i \in 1 .. Len(apList'), apList'[i].bss \notin moved
                   PROVE  apList'[i].channel = at[apList'[i].bss]
        BY DEF TrueNow
      <4>1. CASE i \in 1 .. Len(apList) BY <1>2, <3>3, <4>1 DEF TrueNow
      <4>2. CASE i = Len(apList) + 1 BY <1>1, <3>2, <3>3, <4>2
      <4> QED BY <3>4, <4>1, <4>2
    <3>6. \A x \in Nodes!Known(apList) : x \in Nodes!Known(apList')
      BY <3>3, <3>4 DEF Nodes!Known, Nodes!Indices
    <3>7. s \in Nodes!Known(apList')
      BY <3>2, <3>3, <3>4 DEF Nodes!Known, Nodes!Indices
    <3> QED BY <3>3, <3>5, <3>6, <3>7
  <2> QED BY <2>1, <2>2
<1>4. /\ current' \subseteq Station \X Nodes!Channel
      /\ {h[1] : h \in current'} \subseteq {h[1] : h \in current} \cup {s}
  BY <1>1, HeardToo
<1>5. NodesTypes' BY <1>1, <1>3, <1>4 DEF NodesTypes, Nodes!Channel
<1>6. Heeded'
  <2>1. Nodes!Known(visible)' = Nodes!Known(visible) /\ Nodes!Known(apList)' = Nodes!Known(apList')
    BY <1>1 DEF Nodes!Known, Nodes!Indices
  <2>2. {h[1] : h \in current'} \subseteq Nodes!Known(visible) \cup Nodes!Known(apList')
    BY <1>1, <1>3, <1>4 DEF Heeded
  <2>3. ~ (given' > 0) BY <1>1, SMT
  <2> QED BY <1>1, <2>1, <2>2, <2>3 DEF Heeded
<1>7. EachOnce(visible)' /\ TrueNow(visible)' /\ TrueNow(apList)'
  BY <1>1, <1>3 DEF EachOnce, TrueNow, NodesInv
<1> QED BY <1>1, <1>5, <1>6, <1>7 DEF NodesInv, Heeded

\* The scan is over: the access points are entered, and the list is lent out.
LEMMA ScanOver ==
  ASSUME Nodes!ListAssumption, NodesInv, Nodes!ScanCompleted
  PROVE  NodesInv' /\ Nodes!ReadStable /\ Nodes!NeverDemoted
<1>1. /\ NodesTypes /\ Heeded /\ EachOnce(visible) /\ TrueNow(visible) /\ TrueNow(apList)
      /\ left = 0 /\ left' = -1 /\ visible' = Nodes!AddAps[Len(apList)]
      /\ given' = Len(visible') /\ tuned' = Home
      /\ UNCHANGED <<at, apList, current, moved, moves, scans>>
  BY DEF Nodes!ScanCompleted, NodesInv, Heeded
<1>2. /\ visible' \in NodeList /\ EachOnce(visible') /\ TrueNow(visible')
      /\ Grown(visible, visible')
      /\ Nodes!Known(visible) \cup Nodes!Known(apList) \subseteq Nodes!Known(visible')
  BY <1>1, ApsAdded
<1>3. Len(visible') \in Nat BY <1>2 DEF NodeList
<1>4. NodesTypes'
  <2>1. given' \in 0 .. Len(visible') BY <1>1, <1>3, SMT
  <2>2. NumChannels \in Nat \ {0} /\ Home \in Nodes!Channel
    BY DEF Nodes!ListAssumption, Nodes!Channel
  <2>3. left' \in -1 .. NumChannels - 1 BY <1>1, <2>2, SMT
  <2> QED BY <1>1, <1>2, <2>1, <2>2, <2>3 DEF NodesTypes, Nodes!Channel
<1>5. Heeded'
  <2>1. Nodes!Known(visible)' = Nodes!Known(visible') BY DEF Nodes!Known, Nodes!Indices
  <2>2. {h[1] : h \in current} \subseteq Nodes!Known(visible) \cup Nodes!Known(apList)
    BY <1>1 DEF Heeded
  <2>3. ~ (left' >= 0) BY <1>1, SMT
  <2> QED BY <1>1, <1>2, <2>1, <2>2, <2>3 DEF Heeded
<1>6. EachOnce(visible)' /\ TrueNow(visible)' /\ TrueNow(apList)'
  BY <1>1, <1>2 DEF EachOnce, TrueNow
<1>7. Nodes!ReadStable
  <2>1. ~ (given > 0) BY <1>1 DEF Heeded
  <2> QED BY <2>1 DEF Nodes!ReadStable
<1>8. Nodes!NeverDemoted BY <1>2 DEF Nodes!NeverDemoted, Grown, Nodes!Indices
<1> QED BY <1>4, <1>5, <1>6, <1>7, <1>8 DEF NodesInv, Heeded

\* All that changes neither list.
LEMMA ListsRest ==
  ASSUME NodesTypes, UNCHANGED visible
  PROVE  Nodes!ReadStable /\ Nodes!NeverDemoted
<1>1. Len(visible) \in Nat BY DEF NodesTypes, NodeList
<1> QED BY <1>1 DEF Nodes!ReadStable, Nodes!NeverDemoted

\* Every step.
LEMMA NodesStep ==
  ASSUME Nodes!ListAssumption, NodesInv, [Nodes!Next]_Nodes!vars
  PROVE  NodesInv' /\ [Nodes!ReadStable /\ Nodes!NeverDemoted]_Nodes!vars
<1>0. NodesTypes BY DEF NodesInv
<1>1. CASE \E s \in Station : Nodes!HearFrame(s) BY <1>1, FrameHeard
<1>2. CASE \E s \in AccessPoint : Nodes!HearAp(s)
  BY <1>0, <1>2, ApHeard, ListsRest DEF Nodes!ListAssumption
<1>3. ASSUME NEW s \in Station, NEW c \in Nodes!Channel, Nodes!Move(s, c)
      PROVE  NodesInv' /\ UNCHANGED visible
  <2>1. /\ at' = [at EXCEPT ![s] = c] /\ moved' = moved \cup {s} /\ moves' = moves + 1
        /\ moves < MaxMoves
        /\ UNCHANGED <<tuned, left, apList, visible, given, current, scans>>
    BY <1>3 DEF Nodes!Move
  <2>2. NodesTypes'
    <3>1. moves' \in 0 .. MaxMoves
      BY <1>0, <2>1, SMT DEF NodesTypes, Nodes!ListAssumption
    <3>2. at' \in [Station -> Nodes!Channel] BY <1>0, <2>1 DEF NodesTypes
    <3> QED BY <1>0, <2>1, <3>1, <3>2 DEF NodesTypes, Nodes!Channel
  <2>3. \A x \in Station : x \notin moved' => x \notin moved /\ at'[x] = at[x]
    BY <1>0, <2>1 DEF NodesTypes
  <2>4. /\ \A i \in 1 .. Len(visible) : visible[i].bss \in Station
        /\ \A i \in 1 .. Len(apList) : apList[i].bss \in Station
    <3>1. \A i \in 1 .. Len(visible) : visible[i] \in Nodes!Entry
      BY <1>0 DEF NodesTypes, NodeList
    <3>2. \A i \in 1 .. Len(apList) : apList[i] \in ApEntry
      BY <1>0 DEF NodesTypes
    <3> QED BY <3>1, <3>2 DEF Nodes!Entry, ApEntry
  <2>5. EachOnce(visible)' /\ TrueNow(visible)' /\ TrueNow(apList)'
    BY <2>1, <2>3, <2>4 DEF EachOnce, TrueNow, NodesInv
  <2>6. Heeded' BY <2>1 DEF Heeded, NodesInv, Nodes!Known, Nodes!Indices
  <2> QED BY <2>1, <2>2, <2>5, <2>6 DEF NodesInv, Heeded
<1>4. CASE Nodes!ScanStart
  <2>1. /\ left' = NumChannels - 1 /\ scans' = scans + 1 /\ current' = {} /\ given = 0
        /\ scans < MaxScans
        /\ UNCHANGED <<at, tuned, apList, visible, given, moved, moves>>
    BY <1>4 DEF Nodes!ScanStart
  <2>2. NodesTypes'
    <3>1. scans' \in 0 .. MaxScans /\ left' \in -1 .. NumChannels - 1
      BY <1>0, <2>1, SMT DEF NodesTypes, Nodes!ListAssumption
    <3> QED BY <1>0, <2>1, <3>1 DEF NodesTypes, Nodes!Channel
  <2>3. EachOnce(visible)' /\ TrueNow(visible)' /\ TrueNow(apList)'
    BY <2>1 DEF EachOnce, TrueNow, NodesInv
  <2>4. Heeded'
    <3>1. ~ (given' > 0) /\ {h[1] : h \in current'} = {} BY <2>1, SMT
    <3> QED BY <3>1 DEF Heeded
  <2>5. NodesInv' BY <2>2, <2>3, <2>4 DEF NodesInv, Heeded
  <2> QED BY <1>0, <2>1, <2>5, ListsRest
<1>5. CASE Nodes!ScanNextChannel
  <2>1. /\ left > 0 /\ tuned' = (tuned + 1) % NumChannels /\ left' = left - 1
        /\ UNCHANGED <<at, apList, visible, given, current, moved, moves, scans>>
    BY <1>5 DEF Nodes!ScanNextChannel
  <2>2. NodesTypes'
    <3>1. tuned' \in Nodes!Channel /\ left' \in -1 .. NumChannels - 1
      BY <1>0, <2>1, SMT DEF NodesTypes, Nodes!Channel, Nodes!ListAssumption
    <3> QED BY <1>0, <2>1, <3>1 DEF NodesTypes, Nodes!Channel
  <2>3. EachOnce(visible)' /\ TrueNow(visible)' /\ TrueNow(apList)'
    BY <2>1 DEF EachOnce, TrueNow, NodesInv
  <2>4. Heeded'
    <3>1. left \in Int /\ ~ (left = -1) /\ left >= 0 BY <1>0, <2>1, SMT DEF NodesTypes
    <3>2. Nodes!Known(visible)' = Nodes!Known(visible) /\ Nodes!Known(apList)' = Nodes!Known(apList)
      BY <2>1 DEF Nodes!Known, Nodes!Indices
    <3> QED BY <2>1, <3>1, <3>2 DEF Heeded, NodesInv
  <2>5. NodesInv' BY <2>2, <2>3, <2>4 DEF NodesInv, Heeded
  <2> QED BY <1>0, <2>1, <2>5, ListsRest
<1>6. CASE Nodes!ScanCompleted BY <1>6, ScanOver
<1>7. CASE Nodes!Evaluated
  <2>1. /\ given' = 0
        /\ UNCHANGED <<at, tuned, left, apList, visible, current, moved, moves, scans>>
    BY <1>7 DEF Nodes!Evaluated
  <2>2. Len(visible) \in Nat BY <1>0 DEF NodesTypes, NodeList
  <2>3. NodesTypes'
    <3>1. given' \in 0 .. Len(visible') BY <2>1, <2>2, SMT
    <3> QED BY <1>0, <2>1, <3>1 DEF NodesTypes, Nodes!Channel
  <2>4. EachOnce(visible)' /\ TrueNow(visible)' /\ TrueNow(apList)'
    BY <2>1 DEF EachOnce, TrueNow, NodesInv
  <2>5. Heeded'
    <3>1. ~ (given' > 0) BY <2>1, SMT
    <3>2. Nodes!Known(visible)' = Nodes!Known(visible) /\ Nodes!Known(apList)' = Nodes!Known(apList)
      BY <2>1 DEF Nodes!Known, Nodes!Indices
    <3> QED BY <2>1, <3>1, <3>2 DEF Heeded, NodesInv
  <2>6. NodesInv' BY <2>3, <2>4, <2>5 DEF NodesInv, Heeded
  <2> QED BY <1>0, <2>1, <2>6, ListsRest
<1>8. CASE UNCHANGED Nodes!vars
  <2>1. UNCHANGED <<at, tuned, left, apList, visible, given, current, moved, moves, scans>>
    BY <1>8 DEF Nodes!vars
  <2>2. NodesTypes' BY <1>0, <2>1 DEF NodesTypes, Nodes!Channel
  <2>3. EachOnce(visible)' /\ TrueNow(visible)' /\ TrueNow(apList)'
    BY <2>1 DEF EachOnce, TrueNow, NodesInv
  <2>4. Heeded' BY <2>1 DEF Heeded, NodesInv, Nodes!Known, Nodes!Indices
  <2> QED BY <1>8, <2>2, <2>3, <2>4 DEF NodesInv, Heeded
<1>9. CASE \E s \in Station, c \in Nodes!Channel : Nodes!Move(s, c) BY <1>0, <1>3, <1>9, ListsRest
<1> QED BY <1>1, <1>2, <1>4, <1>5, <1>6, <1>7, <1>8, <1>9 DEF Nodes!Next

\* It holds always.
LEMMA NodesAlways ==
  ASSUME Nodes!ListAssumption
  PROVE  Nodes!Spec => []NodesInv /\ [][Nodes!ReadStable /\ Nodes!NeverDemoted]_Nodes!vars
<1>1. Nodes!Init => NodesInv
  <2> SUFFICES ASSUME Nodes!Init PROVE NodesInv OBVIOUS
  <2>1. NumChannels \in Nat \ {0} /\ Home \in Nodes!Channel /\ MaxMoves \in Nat /\ MaxScans \in Nat
    BY DEF Nodes!ListAssumption, Nodes!Channel
  <2>2. NodesTypes BY <2>1, SMT DEF Nodes!Init, NodesTypes, NodeList
  <2> QED BY <2>2, SMT DEF Nodes!Init, NodesInv, EachOnce, TrueNow
<1>2. NodesInv /\ [Nodes!Next]_Nodes!vars =>
        NodesInv' /\ [Nodes!ReadStable /\ Nodes!NeverDemoted]_Nodes!vars
  BY NodesStep
<1> QED BY <1>1, <1>2, PTL DEF Nodes!Spec

\* The list of visible nodes counts a station once, is right about every station that never
\* changed channel, and has whoever was heard in the scan it is handed over after: what
\* MacDot11ManagementAddVisibleNode and FindBestAp make of it, however frames, beacons, moves
\* and scans are interleaved.
THEOREM NodeListIsTrue ==
  ASSUME Nodes!ListAssumption
  PROVE  Nodes!Spec => [](Nodes!CountedOnce /\ Nodes!TrueOfTheStill /\ Nodes!ScanReported)
<1>1. NodesInv => Nodes!CountedOnce /\ Nodes!TrueOfTheStill /\ Nodes!ScanReported
  BY DEF NodesInv, EachOnce, TrueNow, Nodes!CountedOnce, Nodes!TrueOfTheStill, Nodes!ScanReported,
         Nodes!Indices
<1> QED BY <1>1, NodesAlways, PTL

\* What the application was given of the list does not change before it is done with it,
\* though the MAC goes on adding to the list that it points into; and no access point is
\* taken for an ordinary station again.
THEOREM LentListIsStable ==
  ASSUME Nodes!ListAssumption
  PROVE  Nodes!Spec => [][Nodes!ReadStable /\ Nodes!NeverDemoted]_Nodes!vars
BY NodesAlways, PTL
=============================================================================
