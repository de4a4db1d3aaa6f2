----------------------------- MODULE SinrProof ------------------------------
(***************************************************************************)
(* Theorems about SinrSwitch, for a session whose radios start on a channel *)
(* that may be switched to.  There is one scan in the life of a session; it *)
(* goes around the switchable channels and ends on the channel it began on. *)
(***************************************************************************)
EXTENDS SinrSwitch, SequenceTheorems, TLAPS

(* Types. *)

\* The channels, and the fields of the records.
LEMMA ChannelFacts ==
  ASSUME SinrAssumption
  PROVE  /\ NumChannels \in Nat /\ NumChannels > 0
         /\ 0 \in Channel /\ FirstChannel \in Channel /\ Switchable \subseteq Channel
         /\ Tx \in Node /\ Rx \in Node /\ Tx # Rx
         /\ \A a \in Nat : a % NumChannels \in Channel
BY DEF SinrAssumption, Channel, Node

\* A message under way in a node.
LEMMA MsgType ==
  ASSUME NEW type \in {"none", "MACAddressRequest", "MACAddressReply", "ChangeChannelRequest",
                       "InitiateSinrScan", "ScanFinished"},
         NEW old \in Channel, NEW new \in Channel, NEW initial \in BOOLEAN
  PROVE  Msg(type, old, new, initial) \in Message
BY DEF Msg, Message

ClientData ==
  [state : {"TX_S_IDLE", "TX_SCAN_INIT"}, opened : BOOLEAN, closed : BOOLEAN, cur : Channel,
   next : Channel, initBackoff : BOOLEAN, backoffTimers : Nat, ackDelays : Nat]
ServerData ==
  [state : {"RX_S_IDLE", "RX_SCANNING", "RX_CHANGE_WFACK", "RX_VERIFY_WFACK"},
   opened : BOOLEAN, closed : BOOLEAN, cur : Channel, next : Channel,
   avg : [Channel -> Levels \cup {0}], changeTimers : Nat, verifyTimers : Nat]
ScanData ==
  [probing : BOOLEAN, timer : BOOLEAN, checked : SUBSET Channel,
   avg : [Channel -> Levels \cup {0}]]
PhyData == [tx : Channel, listening : SUBSET Channel]
Request == {"TX_SCAN_PKT", "TX_CHANGE_ACK", "TX_VERIFY_ACK"}

\* The type invariant, with its sets named.
Typed ==
  /\ pending \in [Node -> Message] /\ phy \in [Node -> PhyData] /\ scan \in ScanData
  /\ c2s \in Seq(Request) /\ s2c \in Seq(Channel)
  /\ client \in ClientData /\ server \in ServerData /\ aborted \in BOOLEAN

\* What waits in a stream, and the rest of it.
LEMMA QueueType ==
  ASSUME NEW S, NEW q \in Seq(S)
  PROVE  /\ q # <<>> => (Head(q) \in S /\ Tail(q) \in Seq(S))
         /\ \A p \in S : \A closed : Append(q, p) \in Seq(S) /\ Send(q, closed, p) \in Seq(S)
BY DEF Send

\* A step of the client.
LEMMA TypesOfClientStep ==
  ASSUME SinrAssumption, Typed,
         \/ ClientOpen \/ InitiateChannelScan \/ ClientClose \/ ChangePktReceived \/ ClientEvent
  PROVE  Typed'
<1>0. /\ pending \in [Node -> Message] /\ phy \in [Node -> PhyData] /\ scan \in ScanData
      /\ c2s \in Seq(Request) /\ s2c \in Seq(Channel) /\ client \in ClientData
      /\ server \in ServerData /\ aborted \in BOOLEAN
  BY DEF Typed
<1>1. pending[Tx] \in Message /\ pending[Tx].new \in Channel
  BY <1>0, ChannelFacts DEF Message
<1>2. \A m \in Message : Post(Tx, m) => pending' \in [Node -> Message]
  BY <1>0, ChannelFacts DEF Post
<1>3. /\ NoMsg \in Message
      /\ \A initial \in BOOLEAN : Msg("MACAddressRequest", 0, 0, initial) \in Message
      /\ ChangeChannels(client.cur, client.next) \in Message
  BY <1>0, ChannelFacts, MsgType DEF NoMsg, ChangeChannels, ClientData
<1>4. \A p \in Request : /\ Append(c2s, p) \in Seq(Request)
                         /\ Send(c2s, client.closed, p) \in Seq(Request)
  BY <1>0, QueueType
<1> USE DEF Typed
<1>a. /\ client.backoffTimers \in Nat /\ client.backoffTimers + 1 \in Nat
      /\ client.backoffTimers > 0 => client.backoffTimers - 1 \in Nat
      /\ client.ackDelays \in Nat /\ client.ackDelays + 1 \in Nat
      /\ client.ackDelays > 0 => client.ackDelays - 1 \in Nat
  BY <1>0 DEF ClientData
<1>5. CASE ClientOpen \/ InitiateChannelScan
  <2>1. client' \in ClientData
    BY <1>0, <1>a, <1>5 DEF ClientOpen, InitiateChannelScan, ClientData
  <2> QED BY <1>0, <1>2, <1>3, <1>5, <2>1 DEF ClientOpen, InitiateChannelScan, ServerSide
<1>6. CASE ClientMACAddress
  <2>1. c2s' \in Seq(Request) BY <1>0, <1>4, <1>6 DEF ClientMACAddress, Request
  <2>2. client' \in ClientData BY <1>0, <1>1, <1>6 DEF ClientMACAddress, ClientData
  <2> QED BY <1>0, <1>2, <1>3, <1>6, <2>1, <2>2 DEF ClientMACAddress, ServerSide
<1>7. CASE ChangePktReceived
  <2>1. s2c # <<>> BY <1>7 DEF ChangePktReceived, ToClient
  <2>2. Head(s2c) \in Channel /\ Tail(s2c) \in Seq(Channel) BY <1>0, <2>1, QueueType
  <2>3. c2s' \in Seq(Request) BY <1>4, <1>7 DEF ChangePktReceived, Request
  <2>4. client' \in ClientData
    BY <1>0, <1>a, <1>7, <2>2 DEF ChangePktReceived, ClientData
  <2> QED BY <1>0, <1>7, <2>2, <2>3, <2>4 DEF ChangePktReceived
<1>8. CASE ChangeAckDelay
  <2>1. c2s' \in Seq(Request) BY <1>4, <1>8 DEF ChangeAckDelay, Request
  <2>2. client' \in ClientData BY <1>0, <1>a, <1>8 DEF ChangeAckDelay, ClientData
  <2> QED BY <1>0, <1>2, <1>3, <1>8, <2>1, <2>2 DEF ChangeAckDelay, ServerSide
<1>9. CASE ChannelSelectionTimeout \/ ClientClose
  <2>1. client' \in ClientData
    BY <1>0, <1>a, <1>9 DEF ChannelSelectionTimeout, ClientClose, ClientData
  <2> QED BY <1>0, <1>9, <2>1 DEF ChannelSelectionTimeout, ClientClose, ServerSide
<1> QED BY <1>5, <1>6, <1>7, <1>8, <1>9 DEF ClientEvent

\* A step of the server.
LEMMA TypesOfServerStep ==
  ASSUME SinrAssumption, Typed,
         ServerOpen \/ ServerClose \/ ServerReceives \/ ServerEvent
  PROVE  Typed'
<1>0. /\ pending \in [Node -> Message] /\ phy \in [Node -> PhyData] /\ scan \in ScanData
      /\ c2s \in Seq(Request) /\ s2c \in Seq(Channel) /\ client \in ClientData
      /\ server \in ServerData /\ aborted \in BOOLEAN
  BY DEF Typed
<1>1. /\ pending[Rx] \in Message /\ pending[Rx].new \in Channel
      /\ scan.avg \in [Channel -> Levels \cup {0}]
  BY <1>0, ChannelFacts DEF Message, ScanData
<1>2. \A m \in Message : Post(Rx, m) => pending' \in [Node -> Message]
  BY <1>0, ChannelFacts DEF Post
<1>3. /\ NoMsg \in Message /\ Msg("InitiateSinrScan", 0, 0, FALSE) \in Message
      /\ ChangeChannels(server.cur, server.next) \in Message
  BY <1>0, ChannelFacts, MsgType DEF NoMsg, ChangeChannels, ServerData
<1>4. c2s # <<>> => Tail(c2s) \in Seq(Request) BY <1>0, QueueType
<1>5. \A type : ToServer(type) => c2s # <<>> BY DEF ToServer
<1>6. \A cur \in Channel : EvaluateChannels(cur) \in Channel
  BY ChannelFacts DEF EvaluateChannels, Channel
<1> USE DEF Typed
<1>a. /\ server.changeTimers \in Nat /\ server.changeTimers + 1 \in Nat
      /\ server.changeTimers > 0 => server.changeTimers - 1 \in Nat
      /\ server.verifyTimers \in Nat /\ server.verifyTimers + 1 \in Nat
      /\ server.verifyTimers > 0 => server.verifyTimers - 1 \in Nat
  BY <1>0 DEF ServerData
<1>7. CASE ServerOpen \/ ServerClose
  BY <1>0, <1>7 DEF ServerOpen, ServerClose, ClientSide, ServerData
<1>8. CASE ScanPktReceived
  BY <1>0, <1>2, <1>3, <1>4, <1>5, <1>8 DEF ScanPktReceived, ClientSide, ServerData
<1>9. CASE ChangeAckReceived
  BY <1>0, <1>2, <1>3, <1>4, <1>5, <1>9 DEF ChangeAckReceived, ClientSide, ServerData
<1>10. CASE VerifyAckReceived
  BY <1>0, <1>4, <1>5, <1>10 DEF VerifyAckReceived, ClientSide, ServerData
<1>11. CASE ServerIgnores
  BY <1>0, <1>4, <1>5, <1>11 DEF ServerIgnores, ClientSide
<1>12. CASE RxScanFinished
  <2>1. server' \in ServerData
    BY <1>0, <1>1, <1>6, <1>a, <1>12 DEF RxScanFinished, ServerData
  <2>2. s2c' \in Seq(Channel) BY <1>0, <1>1, <1>6, <1>12, QueueType DEF RxScanFinished
  <2> QED BY <1>0, <1>2, <1>3, <1>12, <2>1, <2>2 DEF RxScanFinished, ClientSide
<1>13. CASE ChangeWfAckTimeout
  <2>1. server' \in ServerData BY <1>0, <1>a, <1>13 DEF ChangeWfAckTimeout, ServerData
  <2>2. pending' \in [Node -> Message] BY <1>0, <1>2, <1>3, <1>13 DEF ChangeWfAckTimeout
  <2> QED BY <1>0, <1>13, <2>1, <2>2 DEF ChangeWfAckTimeout, ClientSide
<1>14. CASE VerifyTimerMisdelivered
  <2>1. server' \in ServerData BY <1>0, <1>a, <1>14 DEF VerifyTimerMisdelivered, ServerData
  <2> QED BY <1>0, <1>14, <2>1 DEF VerifyTimerMisdelivered, ClientSide
<1> QED
  BY <1>7, <1>8, <1>9, <1>10, <1>11, <1>12, <1>13, <1>14 DEF ServerReceives, ServerEvent

\* A step of a MAC.
LEMMA TypesOfMacStep ==
  ASSUME SinrAssumption, Typed, MacEvent
  PROVE  Typed'
<1>0. /\ pending \in [Node -> Message] /\ phy \in [Node -> PhyData] /\ scan \in ScanData
      /\ c2s \in Seq(Request) /\ s2c \in Seq(Channel) /\ client \in ClientData
      /\ server \in ServerData /\ aborted \in BOOLEAN
  BY DEF Typed
<1>1. /\ \A n \in Node : pending[n] \in Message /\ pending[n].new \in Channel
      /\ pending[Tx].initial \in BOOLEAN
      /\ \A n \in Node : phy[n].tx \in Channel /\ phy[n].listening \in SUBSET Channel
  BY <1>0, ChannelFacts DEF Message, PhyData
<1>2. \A n \in Node, m \in Message : Post(n, m) => pending' \in [Node -> Message]
  BY <1>0 DEF Post
<1>3. /\ NoMsg \in Message
      /\ \A new \in Channel : Msg("ScanFinished", 0, new, FALSE) \in Message
      /\ Msg("MACAddressReply", 0, phy[Tx].tx, pending[Tx].initial) \in Message
  BY <1>1, ChannelFacts, MsgType DEF NoMsg
<1>4. \A n \in Node : \A old, new : new \in Channel => Retuned(n, old, new) \in PhyData
  BY <1>1 DEF Retuned, PhyData
<1> USE DEF Typed
<1>5. CASE FromAppMACAddressRequest
  BY <1>0, <1>2, <1>3, <1>5, ChannelFacts DEF FromAppMACAddressRequest, Applications
<1>6. ASSUME NEW n \in Node, FromAppChangeChannelRequest(n) PROVE Typed'
  BY <1>0, <1>1, <1>2, <1>3, <1>4, <1>6 DEF FromAppChangeChannelRequest, Applications
<1>7. CASE InterferenceScan
  BY <1>0, <1>1, <1>2, <1>3, <1>7, ChannelFacts DEF InterferenceScan, Applications, ScanData
<1>8. \A level \in Levels : Sampled(level) \in [Channel -> Levels \cup {0}]
  BY <1>0, <1>1, ChannelFacts DEF Sampled, ScanData
<1>9. \A k \in 1 .. NumChannels : (phy[Rx].tx + k) % NumChannels \in Channel
  <2>1. phy[Rx].tx \in Channel BY <1>1, ChannelFacts
  <2>0. NumChannels \in Nat BY ChannelFacts
  <2>2. \A k \in 1 .. NumChannels : phy[Rx].tx + k \in Nat BY <2>0, <2>1 DEF Channel
  <2> QED BY <2>2, ChannelFacts
<1>10. CASE ProbeNextChannel
  <2>1. PICK k \in 1 .. NumChannels, level \in Levels :
          LET new == (phy[Rx].tx + k) % NumChannels IN
          /\ scan' = [scan EXCEPT !.checked = @ \cup {phy[Rx].tx},
                                  !.avg = [Sampled(level) EXCEPT ![new] = 0]]
          /\ phy' = [phy EXCEPT ![Rx] = Retuned(Rx, phy[Rx].tx, new)]
    BY <1>10 DEF ProbeNextChannel
  <2>2. (phy[Rx].tx + k) % NumChannels \in Channel BY <1>9
  <2>3. [Sampled(level) EXCEPT ![(phy[Rx].tx + k) % NumChannels] = 0]
          \in [Channel -> Levels \cup {0}]
    BY <1>8, <2>2
  <2>4. scan' \in ScanData BY <1>0, <1>1, <2>1, <2>3, ChannelFacts DEF ScanData
  <2>5. phy' \in [Node -> PhyData] BY <1>0, <1>4, <2>1, <2>2, ChannelFacts
  <2> QED BY <1>0, <1>10, <2>4, <2>5 DEF ProbeNextChannel, Applications
<1>11. CASE ProbeCompleted
  <2>1. PICK k \in 1 .. NumChannels, level \in Levels :
          LET new == (phy[Rx].tx + k) % NumChannels IN
          /\ scan' = [scan EXCEPT !.checked = @ \cup {phy[Rx].tx}, !.avg = Sampled(level),
                                  !.probing = FALSE, !.timer = FALSE]
          /\ phy' = [phy EXCEPT ![Rx] = Retuned(Rx, phy[Rx].tx, new)]
          /\ Post(Rx, Msg("ScanFinished", 0, new, FALSE))
    BY <1>11 DEF ProbeCompleted
  <2>2. (phy[Rx].tx + k) % NumChannels \in Channel BY <1>9
  <2>3. scan' \in ScanData BY <1>0, <1>1, <1>8, <2>1, ChannelFacts DEF ScanData
  <2>4. phy' \in [Node -> PhyData] BY <1>0, <1>4, <2>1, <2>2, ChannelFacts
  <2>5. pending' \in [Node -> Message] BY <1>2, <1>3, <2>1, <2>2, ChannelFacts
  <2> QED BY <1>0, <1>11, <2>3, <2>4, <2>5 DEF ProbeCompleted, Applications
<1> QED BY <1>5, <1>6, <1>7, <1>10, <1>11 DEF MacEvent

\* The types are kept.
LEMMA TypesKept ==
  ASSUME SinrAssumption
  PROVE  Spec => []Typed
<1>1. Init => Typed
  <2> SUFFICES ASSUME Init PROVE Typed OBVIOUS
  <2>1. pending \in [Node -> Message] BY ChannelFacts, MsgType DEF Init, NoMsg
  <2>2. phy \in [Node -> PhyData] BY ChannelFacts DEF Init, PhyData
  <2>3. scan \in ScanData /\ c2s \in Seq(Request) /\ s2c \in Seq(Channel)
    BY DEF Init, ScanData
  <2>4. client \in ClientData BY ChannelFacts DEF Init, ClientData
  <2>5. server \in ServerData BY ChannelFacts DEF Init, ServerData
  <2> QED BY <2>1, <2>2, <2>3, <2>4, <2>5 DEF Typed, Init
<1>2. Typed /\ [Next]_vars => Typed'
  <2> SUFFICES ASSUME Typed, [Next]_vars PROVE Typed' OBVIOUS
  <2>1. CASE UNCHANGED vars BY <2>1 DEF vars, Typed
  <2> QED BY <2>1, TypesOfClientStep, TypesOfServerStep, TypesOfMacStep DEF Next
<1> QED BY <1>1, <1>2, PTL DEF Spec

\* Every variable has its type.
THEOREM SinrTypes ==
  ASSUME SinrAssumption
  PROVE  Spec => []TypeOK
<1>1. Typed => TypeOK
  BY DEF Typed, TypeOK, ClientData, ServerData, ScanData, PhyData, Request
<1> QED BY <1>1, TypesKept, PTL

-----------------------------------------------------------------------------
(* The phases of a session. *)

\* The channels after the first one, in the order of the scan.
Around(d) == (FirstChannel + d) % NumChannels

\* A radio that sends and listens on one channel only, and the one both start on.
Tuned(c) == [tx |-> c, listening |-> {c}]
Home == Tuned(FirstChannel)

\* Nothing is under way in a node but an order to change from the first channel to itself.
AtMostAChange(n) ==
  Quiet(n) \/ pending[n] = ChangeChannels(FirstChannel, FirstChannel)

\* The four phases of the server.  Before the request:
Untimed == server.changeTimers = 0 /\ server.verifyTimers = 0
Unmeasured ==
  ~scan.probing /\ ~scan.timer /\ scan.checked = {} /\ phy[Rx] = Home
Before == server.state = "RX_S_IDLE" /\ Untimed /\ Quiet(Rx) /\ Unmeasured

\* ... during the scan, which is asked for, under way, d channels after the first
\* one, or reported;
Probing(d) ==
  /\ phy[Rx] = Tuned(Around(d)) /\ Around(d) \in Switchable
  /\ scan.checked = {c \in Switchable : \E j \in 0 .. d - 1 : c = Around(j)}
Measured ==
  ~scan.probing /\ ~scan.timer /\ Switchable \subseteq scan.checked /\ phy[Rx] = Home
Scanning ==
  /\ server.state = "RX_SCANNING" /\ Untimed
  /\ \/ Has(Rx, "InitiateSinrScan") /\ Unmeasured
     \/ /\ Quiet(Rx) /\ scan.probing /\ scan.timer
        /\ \E d \in 0 .. NumChannels - 1 : Probing(d)
     \/ Has(Rx, "ScanFinished") /\ pending[Rx].new = FirstChannel /\ Measured

\* ... while it waits for the client, and once it has heard from it.
Chosen ==
  /\ Measured /\ AtMostAChange(Rx)
  /\ server.cur = FirstChannel /\ server.next = FirstChannel
  /\ server.changeTimers + server.verifyTimers <= 1
Deciding == server.state \in {"RX_CHANGE_WFACK", "RX_VERIFY_WFACK"} /\ Chosen
Decided == server.state = "RX_S_IDLE" /\ Chosen

\* The client before its request is sent, and from then on.
Starting ==
  /\ client.ackDelays = 0
  /\ \/ Quiet(Tx)
     \/ /\ client.opened /\ client.state = "TX_SCAN_INIT"
        /\ \/ Has(Tx, "MACAddressRequest")
           \/ Has(Tx, "MACAddressReply") /\ pending[Tx].new = FirstChannel
Asked ==
  /\ client.opened /\ client.state = "TX_SCAN_INIT" /\ client.cur = FirstChannel
  /\ AtMostAChange(Tx)
Acknowledged == Asked /\ client.next = FirstChannel

\* A stream holds at most two packets.
Empty == <<>>
One(x) == <<x>>
Two(x, y) == <<x, y>>

\* What the two streams hold at each stage of the session, with the phases the
\* client and the server can be in then.
Stage1 == c2s = Empty /\ s2c = Empty /\ Starting /\ Before
Stage2 == c2s = One("TX_SCAN_PKT") /\ s2c = Empty /\ Asked /\ client.ackDelays = 0 /\ Before
Stage3 ==
  c2s = Empty /\ s2c = Empty /\ Asked /\ client.ackDelays = 0 /\ (Scanning \/ Deciding)
Stage4 ==
  c2s = Empty /\ s2c = One(FirstChannel) /\ Asked /\ client.ackDelays = 0 /\ Deciding
Stage5 ==
  /\ c2s \in {Empty, One("TX_CHANGE_ACK")} /\ s2c = Empty
  /\ Acknowledged /\ client.ackDelays = 1 /\ (Deciding \/ Decided)
Stage6 ==
  /\ c2s \in {Empty, One("TX_CHANGE_ACK"), One("TX_VERIFY_ACK"),
              Two("TX_CHANGE_ACK", "TX_VERIFY_ACK")}
  /\ s2c = Empty /\ Acknowledged /\ client.ackDelays = 0 /\ (Deciding \/ Decided)

Session ==
  /\ phy[Tx] = Home
  /\ Stage1 \/ Stage2 \/ Stage3 \/ Stage4 \/ Stage5 \/ Stage6

-----------------------------------------------------------------------------
(* What each part of the session needs to stay as it is. *)

\* Reading and extending a stream.
LEMMA Short ==
  /\ \A x : /\ Head(One(x)) = x /\ Tail(One(x)) = Empty /\ Append(Empty, x) = One(x)
            /\ One(x) # Empty
  /\ \A x, y : /\ Head(Two(x, y)) = x /\ Tail(Two(x, y)) = One(y)
               /\ Append(One(x), y) = Two(x, y) /\ Two(x, y) # Empty
<1>1. ASSUME NEW x
      PROVE  /\ Head(One(x)) = x /\ Tail(One(x)) = Empty /\ Append(Empty, x) = One(x)
             /\ One(x) # Empty
  <2>1. Append(<<>>, x) = <<x>> OBVIOUS
  <2> QED BY <2>1 DEF One, Empty
<1>2. ASSUME NEW x, NEW y
      PROVE  /\ Head(Two(x, y)) = x /\ Tail(Two(x, y)) = One(y)
             /\ Append(One(x), y) = Two(x, y) /\ Two(x, y) # Empty
  <2>1. Append(<<x>>, y) = <<x, y>>
    <3>1. <<x, y>> \in Seq({x, y}) /\ Len(<<x, y>>) = 2 OBVIOUS
    <3>2. Append(<<x>>, y) \in Seq({x, y}) /\ Len(Append(<<x>>, y)) = 2 OBVIOUS
    <3>3. \A i \in 1 .. 2 : <<x, y>>[i] = Append(<<x>>, y)[i] OBVIOUS
    <3> QED BY <3>1, <3>2, <3>3, SeqEqual
  <2>2. <<x, y>> # <<>> /\ Head(<<x, y>>) = x /\ Tail(<<x, y>>) = <<y>> OBVIOUS
  <2> QED BY <2>1, <2>2, Zenon DEF One, Two, Empty
<1> QED BY <1>1, <1>2

\* A stage is kept by a step that leaves the streams alone and keeps every phase.
LEMMA SessionKept ==
  ASSUME Session, UNCHANGED <<c2s, s2c>>, phy'[Tx] = phy[Tx],
         client'.ackDelays = client.ackDelays,
         Starting => Starting', Asked => Asked', Acknowledged => Acknowledged',
         Before => Before', Scanning => Scanning', Deciding => Deciding', Decided => Decided'
  PROVE  Session'
<1>1. Stage1 => Stage1' BY DEF Stage1
<1>2. Stage2 => Stage2' BY DEF Stage2
<1>3. Stage3 => Stage3' BY DEF Stage3
<1>4. Stage4 => Stage4' BY DEF Stage4
<1>5. Stage5 => Stage5' BY DEF Stage5
<1>6. Stage6 => Stage6' BY DEF Stage6
<1> QED BY <1>1, <1>2, <1>3, <1>4, <1>5, <1>6 DEF Session

\* The phases of the client speak of a few of its fields and of the message under way.
LEMMA ClientKept ==
  ASSUME client'.opened = client.opened, client'.state = client.state,
         client'.cur = client.cur, client'.next = client.next,
         client'.ackDelays = client.ackDelays, pending'[Tx] = pending[Tx]
  PROVE  /\ Starting => Starting'
         /\ Asked => Asked'
         /\ Acknowledged => Acknowledged'
         /\ client'.ackDelays = client.ackDelays
BY DEF Starting, Asked, Acknowledged, AtMostAChange, Quiet, Has

\* The phases of the server: the same, with its radio and the scan.
LEMMA ServerKept ==
  ASSUME server'.state = server.state, server'.cur = server.cur, server'.next = server.next,
         server'.changeTimers = server.changeTimers,
         server'.verifyTimers = server.verifyTimers,
         UNCHANGED scan, phy'[Rx] = phy[Rx], pending'[Rx] = pending[Rx]
  PROVE  /\ Before => Before'
         /\ Scanning => Scanning'
         /\ Deciding => Deciding'
         /\ Decided => Decided'
<1>1. Before => Before' BY DEF Before, Untimed, Unmeasured, Quiet, Has
<1>2. Measured => Measured' BY DEF Measured
<1>3. Chosen => Chosen' BY <1>2 DEF Chosen, AtMostAChange, Quiet, Has
<1>4. \A d : Probing(d) => Probing(d)' BY DEF Probing
<1>5. Scanning => Scanning' BY <1>2, <1>4 DEF Scanning, Untimed, Unmeasured, Quiet, Has
<1> QED BY <1>1, <1>3, <1>5 DEF Deciding, Decided

\* A step that leaves the server, its scan and its radio alone.
LEMMA ServerUntouched ==
  ASSUME UNCHANGED <<phy, scan, server>>, pending'[Rx] = pending[Rx]
  PROVE  /\ Before => Before'
         /\ Scanning => Scanning'
         /\ Deciding => Deciding'
         /\ Decided => Decided'
<1>1. /\ server'.state = server.state /\ server'.cur = server.cur
      /\ server'.next = server.next /\ server'.changeTimers = server.changeTimers
      /\ server'.verifyTimers = server.verifyTimers /\ phy'[Rx] = phy[Rx]
  OBVIOUS
<1> QED BY <1>1, ServerKept

\* What is handed to one node says nothing to the other.
LEMMA Posted ==
  ASSUME SinrAssumption, Typed
  PROVE  /\ \A m : Post(Tx, m) => pending'[Tx] = m /\ pending'[Rx] = pending[Rx]
         /\ \A m : Post(Rx, m) => pending'[Rx] = m /\ pending'[Tx] = pending[Tx]
         /\ NoMsg.type = "none" /\ \A m : m = NoMsg => m.type = "none"
         /\ \A old, new : /\ ChangeChannels(old, new).type = "ChangeChannelRequest"
                          /\ ChangeChannels(old, new).old = old
                          /\ ChangeChannels(old, new).new = new
BY ChannelFacts DEF Post, Typed, NoMsg, ChangeChannels, Msg

\* A radio that sends and listens on one channel does so on the next one too.
LEMMA RetunedTuned ==
  ASSUME NEW n, NEW a, NEW b, phy[n] = Tuned(a)
  PROVE  Retuned(n, a, b) = Tuned(b)
BY DEF Retuned, Tuned

-----------------------------------------------------------------------------
(* The steps of the client. *)

\* What the phases of the client say of the message under way at its node.
LEMMA ClientWaits ==
  ASSUME SinrAssumption, Session
  PROVE  /\ Has(Tx, "MACAddressRequest") \/ Has(Tx, "MACAddressReply")
              \/ ~client.opened \/ client.state = "TX_S_IDLE" => Stage1
         /\ Has(Tx, "ChangeChannelRequest") =>
              ~Stage1 /\ pending[Tx] = ChangeChannels(FirstChannel, FirstChannel)
BY DEF Session, Stage1, Stage2, Stage3, Stage4, Stage5, Stage6, Starting, Asked, Acknowledged,
       AtMostAChange, Quiet, Has, ChangeChannels, Msg

\* The client asks its MAC for an address.
LEMMA SessionOfRequest ==
  ASSUME SinrAssumption, Typed, Session, ClientOpen \/ InitiateChannelScan
  PROVE  Session'
<1>1. Stage1 BY ClientWaits DEF ClientOpen, InitiateChannelScan
<1>2. /\ \E initial \in BOOLEAN : Post(Tx, Msg("MACAddressRequest", 0, 0, initial))
      /\ UNCHANGED <<c2s, ServerSide>>
  BY DEF ClientOpen, InitiateChannelScan
<1>3. pending'[Tx].type = "MACAddressRequest" /\ pending'[Rx] = pending[Rx]
  BY <1>2, Posted DEF Msg
<1>4. /\ client'.opened /\ client'.state = "TX_SCAN_INIT"
      /\ client'.ackDelays = client.ackDelays
  BY DEF ClientOpen, InitiateChannelScan, Typed, ClientData
<1>5. Before' BY <1>1, <1>2, <1>3, ServerUntouched DEF Stage1, ServerSide
<1>6. Starting' BY <1>1, <1>3, <1>4 DEF Stage1, Starting, Has
<1> QED BY <1>1, <1>2, <1>5, <1>6 DEF Stage1, Session, ServerSide

\* The client has its address, and asks the server for a scan.
LEMMA SessionOfAddress ==
  ASSUME SinrAssumption, Typed, Session, ClientMACAddress
  PROVE  Session'
<1>1. Stage1 /\ pending[Tx].new = FirstChannel /\ client.opened
  BY ClientWaits DEF ClientMACAddress, Stage1, Starting, Quiet, Has
<1>2. Post(Tx, NoMsg) /\ UNCHANGED ServerSide BY DEF ClientMACAddress
<1>3. pending'[Tx] = NoMsg /\ Quiet(Tx)' /\ pending'[Rx] = pending[Rx]
  BY <1>2, Posted DEF Quiet, Has
<1>4. Before' BY <1>1, <1>2, <1>3, ServerUntouched DEF Stage1, ServerSide
<1>5. /\ client'.opened /\ client'.ackDelays = 0 /\ client'.cur = FirstChannel
      /\ phy'[Tx] = Home /\ s2c' = Empty
  BY <1>1, <1>2 DEF ClientMACAddress, Typed, ClientData, Stage1, Starting, Session, ServerSide
<1>6. Starting' BY <1>3, <1>5 DEF Starting
<1>7. CASE c2s' = c2s BY <1>1, <1>4, <1>5, <1>6, <1>7 DEF Stage1, Session
<1>8. CASE /\ client'.state = "TX_SCAN_INIT"
           /\ c2s' = Send(c2s, client.closed, "TX_SCAN_PKT") /\ c2s' # c2s
  <2>1. c2s' = One("TX_SCAN_PKT") BY <1>1, <1>8, Short DEF Send, Stage1
  <2>2. Asked' BY <1>3, <1>5, <1>8 DEF Asked, AtMostAChange
  <2> QED BY <1>4, <1>5, <2>1, <2>2 DEF Stage2, Session
<1> QED BY <1>7, <1>8 DEF ClientMACAddress, Typed, ClientData

\* The proposed channel reaches the client.
LEMMA SessionOfChange ==
  ASSUME SinrAssumption, Typed, Session, ChangePktReceived
  PROVE  Session'
<1>1. Stage4
  BY DEF ChangePktReceived, ToClient, Session, Stage1, Stage2, Stage3, Stage5, Stage6, Empty
<1>2. Head(s2c) = FirstChannel /\ s2c' = Empty /\ c2s' = One("TX_CHANGE_ACK")
  BY <1>1, Short DEF ChangePktReceived, Stage4
<1>3. /\ client'.opened = client.opened /\ client'.state = client.state
      /\ client'.cur = client.cur /\ client'.next = FirstChannel /\ client'.ackDelays = 1
  BY <1>1, <1>2 DEF ChangePktReceived, Stage4, Typed, ClientData
<1>4. Acknowledged'
  BY <1>1, <1>3 DEF ChangePktReceived, Stage4, Acknowledged, Asked, AtMostAChange, Quiet, Has
<1>5. Deciding' BY <1>1, ServerUntouched DEF ChangePktReceived, Stage4
<1>6. phy'[Tx] = Home BY DEF ChangePktReceived, Session
<1> QED BY <1>2, <1>3, <1>4, <1>5, <1>6 DEF Stage5, Session

\* The client changes too, to the channel it is on.
LEMMA SessionOfDelay ==
  ASSUME SinrAssumption, Typed, Session, ChangeAckDelay
  PROVE  Session'
<1>1. Stage5
  BY DEF ChangeAckDelay, Session, Stage1, Stage2, Stage3, Stage4, Stage6, Starting
<1>2. /\ Post(Tx, ChangeChannels(FirstChannel, FirstChannel)) /\ UNCHANGED ServerSide
      /\ c2s' = Send(c2s, client.closed, "TX_VERIFY_ACK")
  BY <1>1 DEF ChangeAckDelay, Stage5, Acknowledged, Asked
<1>3. pending'[Tx] = ChangeChannels(FirstChannel, FirstChannel) /\ pending'[Rx] = pending[Rx]
  BY <1>2, Posted
<1>4. /\ client'.opened = client.opened /\ client'.state = client.state
      /\ client'.cur = client.cur /\ client'.next = client.next /\ client'.ackDelays = 0
  BY <1>1 DEF ChangeAckDelay, Stage5, Typed, ClientData
<1>5. Acknowledged' BY <1>1, <1>3, <1>4 DEF Stage5, Acknowledged, Asked, AtMostAChange
<1>6. Deciding' \/ Decided' BY <1>1, <1>2, <1>3, ServerUntouched DEF Stage5, ServerSide
<1>7. c2s' \in {Empty, One("TX_CHANGE_ACK"), One("TX_VERIFY_ACK"),
                Two("TX_CHANGE_ACK", "TX_VERIFY_ACK")}
  BY <1>1, <1>2, Short DEF Send, Stage5
<1>8. s2c' = Empty /\ phy'[Tx] = Home BY <1>1, <1>2 DEF ServerSide, Stage5, Session
<1> QED BY <1>4, <1>5, <1>6, <1>7, <1>8 DEF Stage6, Session

\* Every step of the client.
LEMMA SessionOfClientStep ==
  ASSUME SinrAssumption, Typed, Session,
         \/ ClientOpen \/ InitiateChannelScan \/ ClientClose \/ ChangePktReceived \/ ClientEvent
  PROVE  Session'
<1>1. CASE ChannelSelectionTimeout \/ ClientClose
  <2>1. /\ client'.opened = client.opened /\ client'.state = client.state
        /\ client'.cur = client.cur /\ client'.next = client.next
        /\ client'.ackDelays = client.ackDelays /\ UNCHANGED <<pending, c2s, ServerSide>>
    BY <1>1 DEF ChannelSelectionTimeout, ClientClose, Typed, ClientData
  <2> QED BY <2>1, ClientKept, ServerUntouched, SessionKept DEF ServerSide
<1> QED
  BY <1>1, SessionOfRequest, SessionOfAddress, SessionOfChange, SessionOfDelay DEF ClientEvent

-----------------------------------------------------------------------------
(* The steps of the server. *)

\* The requests of the three packets reach the server in these states.
LEMMA AwaitingStates ==
  /\ Awaiting["TX_SCAN_PKT"] = "RX_S_IDLE"
  /\ Awaiting["TX_CHANGE_ACK"] = "RX_CHANGE_WFACK"
  /\ Awaiting["TX_VERIFY_ACK"] = "RX_VERIFY_WFACK"
BY DEF Awaiting

\* What waits for the server, and what is left when it takes the first packet.
LEMMA ToServerStages ==
  ASSUME Session
  PROVE  /\ ToServer("TX_SCAN_PKT") => Stage2 /\ Tail(c2s) = Empty
         /\ \A type \in {"TX_CHANGE_ACK", "TX_VERIFY_ACK"} : ToServer(type) =>
              \/ Stage5 /\ type = "TX_CHANGE_ACK" /\ Tail(c2s) = Empty
              \/ Stage6 /\ Tail(c2s) \in {Empty, One("TX_VERIFY_ACK")}
BY Short DEF ToServer, Session, Stage1, Stage2, Stage3, Stage4, Stage5, Stage6, Empty

\* What the server's choice says of the phases.
LEMMA ServerPhases ==
  /\ Before => server.state = "RX_S_IDLE" /\ server.changeTimers = 0
               /\ server.verifyTimers = 0 /\ Quiet(Rx) /\ ~scan.timer
  /\ Scanning => server.state = "RX_SCANNING" /\ server.changeTimers = 0
                 /\ server.verifyTimers = 0
  /\ Deciding \/ Decided => ~scan.timer /\ AtMostAChange(Rx)
BY DEF Before, Scanning, Deciding, Decided, Untimed, Unmeasured, Chosen, Measured

\* The request starts the scan.
LEMMA SessionOfScanPkt ==
  ASSUME SinrAssumption, Typed, Session, ScanPktReceived
  PROVE  Session'
<1>1. Stage2 /\ c2s' = Empty /\ s2c' = Empty
  BY ToServerStages DEF ScanPktReceived, Stage2
<1>2. /\ Post(Rx, Msg("InitiateSinrScan", 0, 0, FALSE)) /\ UNCHANGED ClientSide
      /\ server' = [server EXCEPT !.state = "RX_SCANNING"]
  BY DEF ScanPktReceived
<1>3. pending'[Rx].type = "InitiateSinrScan" /\ pending'[Tx] = pending[Tx]
  BY <1>2, Posted DEF Msg
<1>4. /\ server'.state = "RX_SCANNING" /\ server'.changeTimers = 0
      /\ server'.verifyTimers = 0
  BY <1>1, <1>2, ServerPhases DEF Typed, ServerData, Stage2
<1>5. Unmeasured' BY <1>1, <1>2 DEF ClientSide, Stage2, Before, Unmeasured
<1>6. Scanning' BY <1>3, <1>4, <1>5 DEF Scanning, Untimed, Has
<1>7. Asked' /\ client'.ackDelays = 0 /\ phy'[Tx] = Home
  BY <1>1, <1>2, <1>3, ClientKept DEF ClientSide, Stage2, Session
<1> QED BY <1>1, <1>6, <1>7 DEF Stage3, Session

\* An acknowledgement ends the wait, or is ignored.
LEMMA SessionOfAck ==
  ASSUME SinrAssumption, Typed, Session,
         ChangeAckReceived \/ VerifyAckReceived \/ ServerIgnores
  PROVE  Session'
<1>1. PICK type \in {"TX_CHANGE_ACK", "TX_VERIFY_ACK"} : ToServer(type)
  <2>1. CASE ServerIgnores
    <3>1. ~ToServer("TX_SCAN_PKT") \/ server.state = Awaiting["TX_SCAN_PKT"]
      BY ToServerStages, ServerPhases, AwaitingStates DEF Stage2
    <3> QED BY <2>1, <3>1 DEF ServerIgnores
  <2> QED BY <2>1 DEF ChangeAckReceived, VerifyAckReceived
<1>2. /\ (Stage5 \/ Stage6) /\ s2c' = Empty
      /\ Stage5 => c2s' = Empty
      /\ Stage6 => c2s' \in {Empty, One("TX_VERIFY_ACK")}
      /\ UNCHANGED ClientSide
  <2>1. c2s' = Tail(c2s) /\ UNCHANGED <<s2c, ClientSide>>
    BY DEF ChangeAckReceived, VerifyAckReceived, ServerIgnores
  <2>2. Stage5 => client.ackDelays = 1 /\ s2c = Empty BY DEF Stage5
  <2>3. Stage6 => client.ackDelays = 0 /\ s2c = Empty BY DEF Stage6
  <2> QED BY <1>1, <2>1, <2>2, <2>3, ToServerStages
<1>3. Deciding \/ Decided BY <1>2 DEF Stage5, Stage6
<1>4. pending'[Tx] = pending[Tx] /\ (Deciding' \/ Decided')
  <2>1. CASE ServerIgnores
    BY <1>2, <1>3, <2>1, ServerUntouched DEF ServerIgnores, ClientSide
  <2>2. CASE ChangeAckReceived \/ VerifyAckReceived
    <3>1. /\ server'.state = "RX_S_IDLE" /\ server'.cur = FirstChannel
          /\ server'.next = FirstChannel /\ server'.changeTimers = server.changeTimers
          /\ server'.verifyTimers = server.verifyTimers
      BY <1>3, <2>2
      DEF ChangeAckReceived, VerifyAckReceived, Deciding, Decided, Chosen, Typed, ServerData
    <3>2. Measured' BY <1>2, <1>3 DEF ClientSide, Deciding, Decided, Chosen, Measured
    <3>3. pending'[Tx] = pending[Tx] /\ AtMostAChange(Rx)'
      <4>1. CASE ChangeAckReceived
        <5>1. Post(Rx, ChangeChannels(FirstChannel, FirstChannel))
          BY <1>3, <4>1 DEF ChangeAckReceived, Deciding, Decided, Chosen
        <5> QED BY <5>1, Posted DEF AtMostAChange
      <4>2. CASE VerifyAckReceived
        BY <1>3, <4>2
        DEF VerifyAckReceived, Deciding, Decided, Chosen, AtMostAChange, Quiet, Has
      <4> QED BY <2>2, <4>1, <4>2
    <3> QED BY <1>3, <3>1, <3>2, <3>3 DEF Deciding, Decided, Chosen
  <2> QED BY <2>1, <2>2
<1>5. /\ Acknowledged => Acknowledged'
      /\ client'.ackDelays = client.ackDelays
      /\ phy'[Tx] = Home
  BY <1>2, <1>4, ClientKept DEF ClientSide, Session
<1>6. Stage5 => Stage5' BY <1>2, <1>4, <1>5 DEF Stage5
<1>7. Stage6 => Stage6' BY <1>2, <1>4, <1>5 DEF Stage6
<1> QED BY <1>2, <1>5, <1>6, <1>7 DEF Session

\* The current channel is what the loop over the channels returns.
LEMMA EvaluatesToItself ==
  ASSUME SinrAssumption
  PROVE  EvaluateChannels(FirstChannel) = FirstChannel
<1>1. NumChannels \in Nat /\ NumChannels > 0 /\ FirstChannel \in 0 .. NumChannels - 1
  BY DEF SinrAssumption, Channel
<1>2. (NumChannels + FirstChannel) % NumChannels = FirstChannel BY <1>1
<1> QED BY <1>2 DEF EvaluateChannels

\* The scan is over: the server proposes its channel.
LEMMA SessionOfScanFinished ==
  ASSUME SinrAssumption, Typed, Session, RxScanFinished
  PROVE  Session'
<1>1. Has(Rx, "ScanFinished") /\ server.state = "RX_SCANNING" BY DEF RxScanFinished
<1>2. Stage3 /\ Scanning
  BY <1>1, ServerPhases
  DEF Session, Stage1, Stage2, Stage3, Stage4, Stage5, Stage6, Deciding, Decided
<1>3. pending[Rx].new = FirstChannel /\ Measured /\ Untimed
  BY <1>1, <1>2 DEF Scanning, Has, Quiet
<1>4. /\ server' = [server EXCEPT !.state = "RX_CHANGE_WFACK", !.cur = FirstChannel,
                     !.avg = scan.avg, !.next = FirstChannel, !.changeTimers = @ + 1]
      /\ s2c' = Send(s2c, server.closed, FirstChannel)
      /\ Post(Rx, NoMsg) /\ UNCHANGED <<c2s, ClientSide>>
  BY <1>3, EvaluatesToItself DEF RxScanFinished
<1>5. /\ server'.state = "RX_CHANGE_WFACK" /\ server'.cur = FirstChannel
      /\ server'.next = FirstChannel /\ server'.changeTimers + server'.verifyTimers = 1
  BY <1>3, <1>4 DEF Typed, ServerData, Untimed
<1>6. AtMostAChange(Rx)' /\ pending'[Tx] = pending[Tx]
  BY <1>4, Posted DEF AtMostAChange, Quiet, Has
<1>7. Measured' BY <1>3, <1>4 DEF ClientSide, Measured
<1>8. Deciding' BY <1>5, <1>6, <1>7 DEF Deciding, Chosen
<1>9. Asked' /\ client'.ackDelays = 0 /\ phy'[Tx] = Home /\ c2s' = Empty
  BY <1>2, <1>4, <1>6, ClientKept DEF ClientSide, Stage3, Session
<1>10. s2c' = Empty \/ s2c' = One(FirstChannel) BY <1>2, <1>4, Short DEF Send, Stage3
<1> QED BY <1>8, <1>9, <1>10 DEF Stage3, Stage4, Session

\* A timer of the server expires.
LEMMA SessionOfTimeout ==
  ASSUME SinrAssumption, Typed, Session, ChangeWfAckTimeout \/ VerifyTimerMisdelivered
  PROVE  Session'
<1>1. /\ UNCHANGED <<c2s, s2c, ClientSide>> /\ Quiet(Rx)
      /\ server.changeTimers > 0 \/ server.verifyTimers > 0
  BY DEF ChangeWfAckTimeout, VerifyTimerMisdelivered
<1>2. ~Before /\ ~Scanning BY <1>1, ServerPhases
<1>3. ASSUME Deciding \/ Decided
      PROVE  /\ pending'[Tx] = pending[Tx]
             /\ Deciding => Deciding'
             /\ Decided => Decided'
  <2>a. /\ server.cur = FirstChannel /\ server.next = FirstChannel
        /\ server.changeTimers + server.verifyTimers <= 1
        /\ server.changeTimers \in Nat /\ server.verifyTimers \in Nat
    BY <1>3 DEF Deciding, Decided, Chosen, Typed, ServerData
  <2>b. /\ server'.cur = server.cur /\ server'.next = server.next
        /\ \/ /\ server'.changeTimers = server.changeTimers - 1
              /\ server'.verifyTimers = server.verifyTimers + 1
           \/ /\ server'.changeTimers = server.changeTimers - 1
              /\ server'.verifyTimers = server.verifyTimers
           \/ /\ server'.changeTimers = server.changeTimers
              /\ server'.verifyTimers = server.verifyTimers - 1
    BY DEF ChangeWfAckTimeout, VerifyTimerMisdelivered, Typed, ServerData
  <2>1. /\ server'.cur = FirstChannel /\ server'.next = FirstChannel
        /\ server'.changeTimers + server'.verifyTimers <= 1
    BY <2>a, <2>b
  <2>2. /\ Deciding => server'.state \in {"RX_CHANGE_WFACK", "RX_VERIFY_WFACK"}
        /\ Decided => server'.state = "RX_S_IDLE"
    BY DEF ChangeWfAckTimeout, VerifyTimerMisdelivered, Deciding, Decided, Typed, ServerData
  <2>3. pending'[Tx] = pending[Tx] /\ AtMostAChange(Rx)'
    <3>1. CASE UNCHANGED pending BY <1>1, <3>1 DEF AtMostAChange, Quiet, Has
    <3>2. CASE Post(Rx, ChangeChannels(server.cur, server.next))
      <4>1. Post(Rx, ChangeChannels(FirstChannel, FirstChannel))
        BY <1>3, <3>2 DEF Deciding, Decided, Chosen
      <4> QED BY <4>1, Posted DEF AtMostAChange
    <3> QED BY <3>1, <3>2 DEF ChangeWfAckTimeout, VerifyTimerMisdelivered
  <2>4. Measured' BY <1>1, <1>3 DEF ClientSide, Deciding, Decided, Chosen, Measured
  <2> QED BY <2>1, <2>2, <2>3, <2>4 DEF Deciding, Decided, Chosen
<1>4. Deciding \/ Decided
  BY <1>2 DEF Session, Stage1, Stage2, Stage3, Stage4, Stage5, Stage6
<1>5. UNCHANGED <<phy, scan, client>> BY <1>1 DEF ClientSide
<1> QED BY <1>1, <1>2, <1>3, <1>4, <1>5, ClientKept, SessionKept

\* Every step of the server.
LEMMA SessionOfServerStep ==
  ASSUME SinrAssumption, Typed, Session,
         ServerOpen \/ ServerClose \/ ServerReceives \/ ServerEvent
  PROVE  Session'
<1>1. CASE ServerOpen \/ ServerClose
  <2>1. /\ server'.state = server.state /\ server'.cur = server.cur
        /\ server'.next = server.next /\ server'.changeTimers = server.changeTimers
        /\ server'.verifyTimers = server.verifyTimers
        /\ UNCHANGED <<pending, c2s, s2c, ClientSide>>
    BY <1>1 DEF ServerOpen, ServerClose, Typed, ServerData
  <2> QED BY <2>1, ClientKept, ServerKept, SessionKept DEF ClientSide
<1> QED
  BY <1>1, SessionOfScanPkt, SessionOfAck, SessionOfScanFinished, SessionOfTimeout
  DEF ServerReceives, ServerEvent

-----------------------------------------------------------------------------
(* The steps of the MACs. *)

\* Going around: where k steps more lead, that no channel is met twice on the way,
\* and that every one is.
LEMMA GoingAround ==
  ASSUME SinrAssumption
  PROVE  /\ Around(0) = FirstChannel /\ Around(NumChannels) = FirstChannel
         /\ \A d \in 0 .. NumChannels - 1, k \in 1 .. NumChannels :
              d + k <= NumChannels => (Around(d) + k) % NumChannels = Around(d + k)
         /\ \A i, j \in 0 .. NumChannels - 1 : Around(i) = Around(j) => i = j
         /\ \A c \in Channel : \E j \in 0 .. NumChannels - 1 : c = Around(j)
<1>1. NumChannels \in Nat /\ NumChannels > 0 /\ FirstChannel \in 0 .. NumChannels - 1
  BY DEF SinrAssumption, Channel
<1>2. \A a \in 0 .. 2 * NumChannels - 1 :
        a % NumChannels = IF a < NumChannels THEN a ELSE a - NumChannels
  BY <1>1, SMTT(30)
<1>3. \A d \in 0 .. NumChannels :
        Around(d) = IF FirstChannel + d < NumChannels THEN FirstChannel + d
                    ELSE FirstChannel + d - NumChannels
  <2> TAKE d \in 0 .. NumChannels
  <2>1. FirstChannel + d \in 0 .. 2 * NumChannels - 1 BY <1>1
  <2>2. (FirstChannel + d) % NumChannels
          = IF FirstChannel + d < NumChannels THEN FirstChannel + d
            ELSE FirstChannel + d - NumChannels
    BY <1>1, <1>2, <2>1
  <2> QED BY <2>2 DEF Around
<1>4. Around(0) = FirstChannel /\ Around(NumChannels) = FirstChannel BY <1>1, <1>3
<1>5. ASSUME NEW d \in 0 .. NumChannels - 1, NEW k \in 1 .. NumChannels, d + k <= NumChannels
      PROVE  (Around(d) + k) % NumChannels = Around(d + k)
  <2>1. d \in 0 .. NumChannels /\ d + k \in 0 .. NumChannels BY <1>1, <1>5
  <2>2. CASE FirstChannel + d < NumChannels
    <3>1. Around(d) + k = FirstChannel + (d + k) BY <1>1, <1>3, <2>1, <2>2
    <3> QED BY <3>1 DEF Around
  <2>3. CASE ~(FirstChannel + d < NumChannels)
    <3>1. Around(d) + k = FirstChannel + d - NumChannels + k BY <1>1, <1>3, <2>1, <2>3
    <3>2. /\ FirstChannel + d - NumChannels + k \in 0 .. 2 * NumChannels - 1
          /\ FirstChannel + d - NumChannels + k < NumChannels
      BY <1>1, <1>5, <2>3
    <3>3. (FirstChannel + d - NumChannels + k) % NumChannels
            = FirstChannel + d - NumChannels + k
      BY <1>2, <3>2
    <3>4. Around(d + k) = FirstChannel + (d + k) - NumChannels BY <1>1, <1>3, <1>5, <2>1, <2>3
    <3> QED BY <1>1, <3>1, <3>3, <3>4
  <2> QED BY <2>2, <2>3
<1>6. ASSUME NEW i \in 0 .. NumChannels - 1, NEW j \in 0 .. NumChannels - 1,
             Around(i) = Around(j)
      PROVE  i = j
  <2>1. i \in 0 .. NumChannels /\ j \in 0 .. NumChannels BY <1>1
  <2> QED BY <1>1, <1>3, <1>6, <2>1
<1>7. ASSUME NEW c \in Channel PROVE \E j \in 0 .. NumChannels - 1 : c = Around(j)
  <2>1. c \in 0 .. NumChannels - 1 BY DEF Channel
  <2>2. CASE c >= FirstChannel
    <3>1. c - FirstChannel \in 0 .. NumChannels - 1 /\ c - FirstChannel \in 0 .. NumChannels
      BY <1>1, <2>1, <2>2
    <3>2. c = Around(c - FirstChannel) BY <1>1, <1>3, <2>1, <3>1
    <3> QED BY <3>1, <3>2
  <2>3. CASE c < FirstChannel
    <3>1. /\ c - FirstChannel + NumChannels \in 0 .. NumChannels - 1
          /\ c - FirstChannel + NumChannels \in 0 .. NumChannels
      BY <1>1, <2>1, <2>3
    <3>2. c = Around(c - FirstChannel + NumChannels) BY <1>1, <1>3, <2>1, <3>1
    <3> QED BY <3>1, <3>2
  <2> QED BY <1>1, <2>1, <2>2, <2>3
<1> QED BY <1>4, <1>5, <1>6, <1>7

\* A step of the scan goes no further than the first channel, and what it leaves out
\* may not be switched to.
LEMMA ScanStep ==
  ASSUME SinrAssumption, FirstChannel \in Switchable, NEW d \in 0 .. NumChannels - 1,
         Probing(d), NEW k \in 1 .. NumChannels, NextSwitchable(phy[Rx].tx, k)
  PROVE  /\ d + k <= NumChannels
         /\ (phy[Rx].tx + k) % NumChannels = Around(d + k)
         /\ Around(d + k) \in Switchable
         /\ scan.checked \cup {phy[Rx].tx}
              = {c \in Switchable : \E j \in 0 .. d + k - 1 : c = Around(j)}
<1>0. NumChannels \in Nat /\ NumChannels > 0 BY ChannelFacts
<1>1. /\ phy[Rx].tx = Around(d) /\ Around(d) \in Switchable
      /\ scan.checked = {c \in Switchable : \E j \in 0 .. d - 1 : c = Around(j)}
  BY DEF Probing, Tuned
<1>2. /\ (Around(d) + k) % NumChannels \in Switchable
      /\ \A j \in 1 .. k - 1 : (Around(d) + j) % NumChannels \notin Switchable
  BY <1>1 DEF NextSwitchable
<1>3. d + k <= NumChannels
  <2> SUFFICES ASSUME d + k > NumChannels PROVE FALSE BY <1>0
  <2>1. NumChannels - d \in 1 .. k - 1 /\ NumChannels - d \in 1 .. NumChannels BY <1>0
  <2>2. d + (NumChannels - d) = NumChannels BY <1>0
  <2>3. (Around(d) + (NumChannels - d)) % NumChannels = FirstChannel
    BY <1>0, <2>1, <2>2, GoingAround
  <2> QED BY <1>2, <2>1, <2>3
<1>4. (Around(d) + k) % NumChannels = Around(d + k) BY <1>3, GoingAround
<1>5. ASSUME NEW j \in 0 .. d + k - 1, Around(j) \in Switchable
      PROVE  j \in 0 .. d
  <2> SUFFICES ASSUME j > d PROVE FALSE BY <1>0
  <2>1. j - d \in 1 .. k - 1 /\ j - d \in 1 .. NumChannels /\ d + (j - d) = j BY <1>0, <1>3
  <2>2. j <= NumChannels BY <1>0, <1>3
  <2>3. (Around(d) + (j - d)) % NumChannels = Around(j) BY <2>1, <2>2, GoingAround
  <2> QED BY <1>2, <1>5, <2>1, <2>3
<1>6. /\ \A j \in 0 .. d : j \in 0 .. d - 1 \/ j = d
      /\ \A j \in 0 .. d - 1 : j \in 0 .. d + k - 1
      /\ d \in 0 .. d + k - 1
  BY <1>0
<1>7. scan.checked \cup {phy[Rx].tx}
        = {c \in Switchable : \E j \in 0 .. d + k - 1 : c = Around(j)}
  BY <1>1, <1>5, <1>6
<1> QED BY <1>1, <1>2, <1>3, <1>4, <1>7

\* The scan goes to a channel it has not been on, or comes back to the first one with
\* every switchable channel checked.
LEMMA ScanGoesAround ==
  ASSUME SinrAssumption, FirstChannel \in Switchable, NEW d \in 0 .. NumChannels - 1,
         Probing(d), NEW k \in 1 .. NumChannels, NextSwitchable(phy[Rx].tx, k)
  PROVE  LET new == (phy[Rx].tx + k) % NumChannels
             checked == scan.checked \cup {phy[Rx].tx}
         IN /\ new \notin checked => d + k \in 0 .. NumChannels - 1
            /\ new \in checked => new = FirstChannel /\ Switchable \subseteq checked
<1>0. NumChannels \in Nat /\ NumChannels > 0 /\ Switchable \subseteq Channel BY ChannelFacts
<1> DEFINE new == (phy[Rx].tx + k) % NumChannels
<1> DEFINE checked == scan.checked \cup {phy[Rx].tx}
<1>1. /\ d + k <= NumChannels /\ new = Around(d + k) /\ Around(d + k) \in Switchable
      /\ checked = {c \in Switchable : \E j \in 0 .. d + k - 1 : c = Around(j)}
  BY ScanStep
<1> HIDE DEF new, checked
<1>2. ASSUME new \notin checked PROVE d + k \in 0 .. NumChannels - 1
  <2> SUFFICES ASSUME d + k = NumChannels PROVE FALSE BY <1>0, <1>1
  <2>1. new = Around(0) BY <1>1, GoingAround
  <2>2. 0 \in 0 .. d + k - 1 BY <1>0
  <2> QED BY <1>1, <1>2, <2>1, <2>2
<1>3. ASSUME new \in checked PROVE new = FirstChannel /\ Switchable \subseteq checked
  <2>1. PICK j \in 0 .. d + k - 1 : new = Around(j) BY <1>1, <1>3
  <2>2. d + k = NumChannels
    <3> SUFFICES ASSUME d + k < NumChannels PROVE FALSE BY <1>0, <1>1
    <3>1. d + k \in 0 .. NumChannels - 1 /\ j \in 0 .. NumChannels - 1 /\ j # d + k BY <1>0
    <3> QED BY <1>1, <2>1, <3>1, GoingAround
  <2>3. new = FirstChannel BY <1>1, <2>2, GoingAround
  <2>4. \A c \in Switchable : \E i \in 0 .. d + k - 1 : c = Around(i)
    BY <1>0, <2>2, GoingAround
  <2> QED BY <1>1, <2>3, <2>4
<1> QED BY <1>2, <1>3 DEF new, checked

\* The scan changes channels, or ends.
LEMMA SessionOfProbe ==
  ASSUME SinrAssumption, FirstChannel \in Switchable, Typed, Session,
         ProbeNextChannel \/ ProbeCompleted
  PROVE  Session'
<1>0. Quiet(Rx) /\ scan.timer /\ UNCHANGED Applications
  BY DEF ProbeNextChannel, ProbeCompleted
<1>1. Stage3 /\ Scanning
  BY <1>0, ServerPhases DEF Session, Stage1, Stage2, Stage3, Stage4, Stage5, Stage6
<1>2. PICK d \in 0 .. NumChannels - 1 : Probing(d) /\ scan.probing
  BY <1>0, <1>1 DEF Scanning, Quiet, Has
<1>3. server.state = "RX_SCANNING" /\ Untimed BY <1>1 DEF Scanning
<1>4. ASSUME NEW k \in 1 .. NumChannels, NextSwitchable(phy[Rx].tx, k)
      PROVE  /\ Retuned(Rx, phy[Rx].tx, (phy[Rx].tx + k) % NumChannels)
                  = Tuned((phy[Rx].tx + k) % NumChannels)
             /\ (phy[Rx].tx + k) % NumChannels = Around(d + k)
             /\ Around(d + k) \in Switchable
  <2>1. phy[Rx] = Tuned(Around(d)) BY <1>2 DEF Probing
  <2>2. phy[Rx].tx = Around(d) BY <2>1 DEF Tuned
  <2>3. \A new : Retuned(Rx, Around(d), new) = Tuned(new) BY <2>1, RetunedTuned
  <2>4. /\ (phy[Rx].tx + k) % NumChannels = Around(d + k)
        /\ Around(d + k) \in Switchable
    BY <1>2, <1>4, ScanStep
  <2> QED BY <2>2, <2>3, <2>4
<1>5. CASE ProbeNextChannel
  <2>1. PICK k \in 1 .. NumChannels, level \in Levels :
          LET new == (phy[Rx].tx + k) % NumChannels IN
          /\ NextSwitchable(phy[Rx].tx, k)
          /\ new \notin scan.checked \cup {phy[Rx].tx}
          /\ scan' = [scan EXCEPT !.checked = @ \cup {phy[Rx].tx},
                                  !.avg = [Sampled(level) EXCEPT ![new] = 0]]
          /\ phy' = [phy EXCEPT ![Rx] = Retuned(Rx, phy[Rx].tx, new)]
    BY <1>5 DEF ProbeNextChannel
  <2>2. d + k \in 0 .. NumChannels - 1 BY <1>2, <2>1, ScanGoesAround
  <2>3. phy'[Rx] = Tuned(Around(d + k)) /\ phy'[Tx] = phy[Tx]
    BY <1>4, <2>1, ChannelFacts DEF Typed
  <2>4. /\ scan'.probing /\ scan'.timer
        /\ scan'.checked = {c \in Switchable : \E j \in 0 .. d + k - 1 : c = Around(j)}
    BY <1>0, <1>2, <2>1, ScanStep DEF Typed, ScanData
  <2>5. Probing(d + k)' BY <1>4, <2>1, <2>3, <2>4 DEF Probing
  <2>6. UNCHANGED <<pending, Applications>> BY <1>5 DEF ProbeNextChannel
  <2>7. Scanning'
    BY <1>0, <1>3, <2>2, <2>4, <2>5, <2>6
    DEF Scanning, Untimed, Applications, Quiet, Has
  <2>8. ~Before /\ ~Deciding /\ ~Decided BY <1>0, ServerPhases
  <2> QED BY <1>1, <2>3, <2>6, <2>7, <2>8, ClientKept, SessionKept DEF Applications
<1>6. CASE ProbeCompleted
  <2>1. PICK k \in 1 .. NumChannels, level \in Levels :
          LET new == (phy[Rx].tx + k) % NumChannels IN
          /\ NextSwitchable(phy[Rx].tx, k)
          /\ new \in scan.checked \cup {phy[Rx].tx}
          /\ scan' = [scan EXCEPT !.checked = @ \cup {phy[Rx].tx}, !.avg = Sampled(level),
                                  !.probing = FALSE, !.timer = FALSE]
          /\ phy' = [phy EXCEPT ![Rx] = Retuned(Rx, phy[Rx].tx, new)]
          /\ Post(Rx, Msg("ScanFinished", 0, new, FALSE))
    BY <1>6 DEF ProbeCompleted
  <2>2. /\ (phy[Rx].tx + k) % NumChannels = FirstChannel
        /\ Switchable \subseteq scan.checked \cup {phy[Rx].tx}
    BY <1>2, <2>1, ScanGoesAround
  <2>3. phy'[Rx] = Home /\ phy'[Tx] = phy[Tx]
    BY <1>4, <2>1, <2>2, ChannelFacts DEF Typed, Home
  <2>4. /\ pending'[Rx].type = "ScanFinished" /\ pending'[Rx].new = FirstChannel
        /\ pending'[Tx] = pending[Tx]
    BY <2>1, <2>2, Posted DEF Msg
  <2>5. ~scan'.probing /\ ~scan'.timer /\ Switchable \subseteq scan'.checked
    BY <2>1, <2>2 DEF Typed, ScanData
  <2>6. Measured' BY <2>3, <2>5 DEF Measured, Home, Tuned
  <2>7. Scanning' BY <1>0, <1>3, <2>4, <2>6 DEF Scanning, Untimed, Applications, Has
  <2>8. ~Before /\ ~Deciding /\ ~Decided BY <1>0, ServerPhases
  <2> QED BY <1>0, <1>1, <2>3, <2>4, <2>7, <2>8, ClientKept, SessionKept DEF Applications
<1> QED BY <1>5, <1>6

\* Every step of a MAC.
LEMMA SessionOfMacStep ==
  ASSUME SinrAssumption, FirstChannel \in Switchable, Typed, Session, MacEvent
  PROVE  Session'
<1>1. CASE FromAppMACAddressRequest
  <2>1. Stage1 BY <1>1, ClientWaits DEF FromAppMACAddressRequest
  <2>2. /\ pending'[Tx] = Msg("MACAddressReply", 0, FirstChannel, pending[Tx].initial)
        /\ pending'[Rx] = pending[Rx] /\ UNCHANGED <<phy, scan, Applications>>
    BY <1>1, Posted DEF FromAppMACAddressRequest, Session, Home, Tuned
  <2>3. Starting'
    BY <1>1, <2>1, <2>2
    DEF FromAppMACAddressRequest, Stage1, Starting, Applications, Quiet, Has, Msg
  <2>4. Before' BY <2>1, <2>2, ServerUntouched DEF Stage1, Applications
  <2> QED BY <2>1, <2>2, <2>3, <2>4 DEF Session, Stage1, Applications
<1>2. CASE FromAppChangeChannelRequest(Tx)
  <2>1. ~Stage1 /\ pending[Tx] = ChangeChannels(FirstChannel, FirstChannel)
    BY <1>2, ClientWaits DEF FromAppChangeChannelRequest
  <2>2. pending'[Tx] = NoMsg /\ pending'[Rx] = pending[Rx] /\ UNCHANGED <<scan, Applications>>
    BY <1>2, Posted DEF FromAppChangeChannelRequest
  <2>3. phy' = [phy EXCEPT ![Tx] = Home]
    <3>1. pending[Tx].old = FirstChannel /\ pending[Tx].new = FirstChannel BY <2>1, Posted
    <3>2. Retuned(Tx, FirstChannel, FirstChannel) = Home
      BY RetunedTuned DEF Session, Home
    <3> QED BY <1>2, <3>1, <3>2 DEF FromAppChangeChannelRequest
  <2>4. phy'[Tx] = Home /\ phy'[Rx] = phy[Rx] BY <2>3, ChannelFacts DEF Typed
  <2>5. /\ Before => Before'
        /\ Scanning => Scanning'
        /\ Deciding => Deciding'
        /\ Decided => Decided'
    <3>1. UNCHANGED server BY <2>2 DEF Applications
    <3> QED BY <2>2, <2>4, <3>1, ServerKept
  <2>6. /\ Asked => Asked'
        /\ Acknowledged => Acknowledged'
    BY <2>2, Posted DEF Asked, Acknowledged, AtMostAChange, Applications, Quiet, Has
  <2>7. Stage2 => Stage2' BY <2>2, <2>5, <2>6 DEF Stage2, Applications
  <2>8. Stage3 => Stage3' BY <2>2, <2>5, <2>6 DEF Stage3, Applications
  <2>9. Stage4 => Stage4' BY <2>2, <2>5, <2>6 DEF Stage4, Applications
  <2>10. Stage5 => Stage5' BY <2>2, <2>5, <2>6 DEF Stage5, Applications
  <2>11. Stage6 => Stage6' BY <2>2, <2>5, <2>6 DEF Stage6, Applications
  <2> QED BY <2>1, <2>4, <2>7, <2>8, <2>9, <2>10, <2>11 DEF Session, Home, Tuned
<1>3. CASE FromAppChangeChannelRequest(Rx)
  <2>1. ~Before /\ ~Scanning
    BY <1>3 DEF FromAppChangeChannelRequest, Before, Scanning, Quiet, Has
  <2>2. Deciding \/ Decided
    BY <2>1 DEF Session, Stage1, Stage2, Stage3, Stage4, Stage5, Stage6
  <2>3. pending[Rx] = ChangeChannels(FirstChannel, FirstChannel) /\ Measured
    BY <1>3, <2>2
    DEF FromAppChangeChannelRequest, Deciding, Decided, Chosen, AtMostAChange, Quiet, Has
  <2>4. pending'[Rx] = NoMsg /\ pending'[Tx] = pending[Tx] /\ UNCHANGED <<scan, Applications>>
    BY <1>3, Posted DEF FromAppChangeChannelRequest
  <2>5. phy' = [phy EXCEPT ![Rx] = Home]
    <3>1. pending[Rx].old = FirstChannel /\ pending[Rx].new = FirstChannel BY <2>3, Posted
    <3>2. Retuned(Rx, FirstChannel, FirstChannel) = Home
      BY <2>3, RetunedTuned DEF Measured, Home
    <3> QED BY <1>3, <3>1, <3>2 DEF FromAppChangeChannelRequest
  <2>6. phy'[Rx] = Home /\ phy'[Tx] = phy[Tx] BY <2>5, ChannelFacts DEF Typed
  <2>7. Measured' BY <2>3, <2>4, <2>6 DEF Measured, Home, Tuned
  <2>8. AtMostAChange(Rx)' BY <2>4, Posted DEF AtMostAChange, Quiet, Has
  <2>9. /\ Deciding => Deciding'
        /\ Decided => Decided'
    BY <2>4, <2>7, <2>8 DEF Deciding, Decided, Chosen, Applications
  <2>10. UNCHANGED <<c2s, s2c, client>> BY <2>4 DEF Applications
  <2> QED BY <2>1, <2>4, <2>6, <2>9, <2>10, ClientKept, SessionKept
<1>4. CASE InterferenceScan
  <2>1. Has(Rx, "InitiateSinrScan") /\ UNCHANGED <<phy, Applications>>
    BY <1>4 DEF InterferenceScan
  <2>2. ~Before /\ ~Deciding /\ ~Decided
    BY <2>1, ServerPhases DEF AtMostAChange, Before, Quiet, Has, ChangeChannels, Msg
  <2>3. Stage3 /\ Scanning
    BY <2>2 DEF Session, Stage1, Stage2, Stage3, Stage4, Stage5, Stage6
  <2>4. Unmeasured /\ server.state = "RX_SCANNING" /\ Untimed
    BY <2>1, <2>3 DEF Scanning, Quiet, Has
  <2>5. scan'.probing /\ scan'.timer /\ scan'.checked = {}
    BY <1>4, <2>4 DEF InterferenceScan, Unmeasured, Typed, ScanData
  <2>6. pending'[Rx] = NoMsg /\ pending'[Tx] = pending[Tx]
    BY <1>4, Posted DEF InterferenceScan
  <2>7. 0 \in 0 .. NumChannels - 1 /\ 0 .. 0 - 1 = {} BY ChannelFacts
  <2>8. Probing(0)'
    BY <2>1, <2>4, <2>5, <2>7, GoingAround DEF Probing, Unmeasured, Home, Tuned, Around
  <2>9. Scanning' BY <2>1, <2>4, <2>5, <2>6, <2>7, <2>8, Posted
    DEF Scanning, Untimed, Applications, Quiet, Has
  <2> QED BY <2>1, <2>2, <2>6, <2>9, ClientKept, SessionKept DEF Applications
<1> QED BY <1>1, <1>2, <1>3, <1>4, SessionOfProbe DEF MacEvent, Node

-----------------------------------------------------------------------------
(* The theorems. *)

\* A session goes through its stages once: the request, the scan, the proposal, the
\* acknowledgement and the confirmation, while timers, closes and late packets interleave.
THEOREM SessionStages ==
  ASSUME SinrAssumption, FirstChannel \in Switchable
  PROVE  Spec => [](Typed /\ Session)
<1>1. Init => Session
  <2> SUFFICES ASSUME Init PROVE Session OBVIOUS
  <2>1. Before /\ Starting /\ phy[Tx] = Home
    BY ChannelFacts
    DEF Init, Before, Starting, Untimed, Unmeasured, Home, Tuned, NoMsg, Msg, Quiet, Has
  <2> QED BY <2>1 DEF Init, Session, Stage1, Empty
<1>2. Typed /\ Session /\ [Next]_vars => Session'
  <2> SUFFICES ASSUME Typed, Session, [Next]_vars PROVE Session' OBVIOUS
  <2>1. CASE UNCHANGED vars
    BY <2>1, ClientKept, ServerUntouched, SessionKept DEF vars
  <2> QED BY <2>1, SessionOfClientStep, SessionOfServerStep, SessionOfMacStep DEF Next
<1> QED BY <1>1, <1>2, TypesKept, PTL DEF Spec

\* The client and the server hear each other whenever no scan and no order to the MAC is
\* under way, and a scan is reported from the channel it began on.
THEOREM SinrRadiosMeet ==
  ASSUME SinrAssumption, FirstChannel \in Switchable
  PROVE  Spec => [](RadiosMeet /\ ScanEndsWhereItBegan)
<1>1. ASSUME Session, Quiet(Tx), Quiet(Rx), ~scan.probing PROVE phy[Rx] = Home
  <2>1. Before \/ Scanning \/ Deciding \/ Decided
    BY <1>1 DEF Session, Stage1, Stage2, Stage3, Stage4, Stage5, Stage6
  <2> QED BY <1>1, <2>1
        DEF Before, Unmeasured, Scanning, Quiet, Has, Deciding, Decided, Chosen, Measured
<1>2. Session => RadiosMeet
  BY <1>1 DEF Session, RadiosMeet, CanHear, Home, Tuned
<1>3. Session => ScanEndsWhereItBegan
  <2> SUFFICES ASSUME Session, Has(Rx, "ScanFinished")
               PROVE  pending[Rx].new = FirstChannel
    BY DEF ScanEndsWhereItBegan
  <2>1. Before \/ Scanning \/ Deciding \/ Decided
    BY DEF Session, Stage1, Stage2, Stage3, Stage4, Stage5, Stage6
  <2> QED BY <2>1 DEF Before, Scanning, Deciding, Decided, Chosen, AtMostAChange, Quiet, Has,
                      ChangeChannels, Msg
<1> QED BY <1>2, <1>3, SessionStages, PTL

\* The server proposes a channel only when every switchable one has been measured.
THEOREM SinrScanCovers ==
  ASSUME SinrAssumption, FirstChannel \in Switchable
  PROVE  Spec => []ChoiceAfterFullScan
<1>1. Session => ChoiceAfterFullScan
  BY DEF Session, Stage1, Stage2, Stage3, Stage4, Stage5, Stage6, ChoiceAfterFullScan,
         Before, Scanning, Deciding, Decided, Chosen, Measured
<1> QED BY <1>1, SessionStages, PTL

\* Nothing of a second request is ever under way: no packet is in its stream twice, and
\* one timer or one delay at most runs for the one change.
THEOREM SinrOneRequest ==
  ASSUME SinrAssumption, FirstChannel \in Switchable
  PROVE  Spec => []OneRequest
<1>1. ASSUME Typed, Session PROVE OneRequest
  <2>1. \A x : DOMAIN One(x) = {1} /\ Len(One(x)) = 1 BY DEF One
  <2>2. DOMAIN Empty = {} /\ Len(Empty) = 0 BY DEF Empty
  <2>3. \A x, y : DOMAIN Two(x, y) = {1, 2} /\ Two(x, y)[1] = x /\ Two(x, y)[2] = y BY DEF Two
  <2>4. \/ c2s = Empty \/ \E x : c2s = One(x) \/ c2s = Two("TX_CHANGE_ACK", "TX_VERIFY_ACK")
    BY <1>1 DEF Session, Stage1, Stage2, Stage3, Stage4, Stage5, Stage6
  <2>5. \A i, j \in DOMAIN c2s : c2s[i] = c2s[j] => i = j
    BY <2>1, <2>2, <2>3, <2>4
  <2>a. \/ s2c = Empty /\ client.ackDelays \in {0, 1}
        \/ s2c = One(FirstChannel) /\ client.ackDelays = 0
    BY <1>1 DEF Session, Stage1, Stage2, Stage3, Stage4, Stage5, Stage6, Starting
  <2>6. Len(s2c) + client.ackDelays <= 1
    <3>1. CASE s2c = Empty /\ client.ackDelays \in {0, 1}
      <4>1. Len(s2c) = 0 BY <2>2, <3>1
      <4> QED BY <3>1, <4>1
    <3>2. CASE s2c = One(FirstChannel) /\ client.ackDelays = 0
      <4>1. Len(s2c) = 1 BY <2>1, <3>2
      <4> QED BY <3>2, <4>1
    <3> QED BY <2>a, <3>1, <3>2
  <2>7. Before \/ Scanning \/ Deciding \/ Decided
    BY <1>1 DEF Session, Stage1, Stage2, Stage3, Stage4, Stage5, Stage6
  <2>8. server.changeTimers + server.verifyTimers <= 1
    BY <2>7 DEF Before, Scanning, Deciding, Decided, Untimed, Chosen
  <2> QED BY <2>5, <2>6, <2>8 DEF OneRequest
<1> QED BY <1>1, SessionStages, PTL

\* A server that stops waiting because an acknowledgement came has the client on the
\* channel it proposed, or about to go there.
THEOREM SinrAckMeansAgreed ==
  ASSUME SinrAssumption, FirstChannel \in Switchable
  PROVE  Spec => AckMeansAgreed
<1> DEFINE Waiting == server.state \in {"RX_CHANGE_WFACK", "RX_VERIFY_WFACK"}
<1>1. ASSUME Typed, Session, [Next]_vars, Waiting, server'.state = "RX_S_IDLE"
      PROVE  client.next = server.next
  <2>1. Deciding
    BY <1>1
    DEF Session, Stage1, Stage2, Stage3, Stage4, Stage5, Stage6, Before, Scanning, Decided
  <2>2. ChangeAckReceived \/ VerifyAckReceived
    BY <1>1
    DEF Next, vars, ClientEvent, ServerReceives, ServerEvent, MacEvent, Typed, ServerData,
        ClientOpen, InitiateChannelScan, ClientClose, ChangePktReceived, ClientMACAddress,
        ChangeAckDelay, ChannelSelectionTimeout, ServerSide, ServerOpen, ServerClose,
        ScanPktReceived, ServerIgnores, RxScanFinished, ChangeWfAckTimeout,
        VerifyTimerMisdelivered, FromAppMACAddressRequest, FromAppChangeChannelRequest,
        InterferenceScan, ProbeNextChannel, ProbeCompleted, Applications
  <2>3. Stage5 \/ Stage6
    BY <1>1, <2>2, ToServerStages DEF ChangeAckReceived, VerifyAckReceived
  <2> QED BY <2>1, <2>3 DEF Stage5, Stage6, Acknowledged, Deciding, Chosen
<1>2. Typed /\ Session /\ [Next]_vars =>
        [Waiting /\ server'.state = "RX_S_IDLE" => client.next = server.next]_vars
  BY <1>1
<1> QED BY <1>2, SessionStages, PTL DEF Spec, AckMeansAgreed
=============================================================================
