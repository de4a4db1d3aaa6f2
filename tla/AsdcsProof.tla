----------------------------- MODULE AsdcsProof -----------------------------
(***************************************************************************)
(* Theorems about Asdcs, for any number of channels, any set of channels    *)
(* that can be listened to or switched to, and any number of rounds.        *)
(***************************************************************************)
EXTENDS Asdcs, SequenceTheorems, TLAPS

(* Lemmas about the operators the actions are built from. *)

\* The constants are channels, and there is a channel 0 for the fields not set yet.
LEMMA ChannelFacts ==
  /\ 0 \in Channel /\ FirstChannel \in Channel
  /\ Switchable \subseteq Channel
  /\ Node = {Tx, Rx} /\ Tx \in Node /\ Rx \in Node /\ Tx # Rx
BY ChannelAssumption, ClientAssumption, NodesDiffer, SMT DEF Channel, Node

\* Stepping from one channel to another, the number wraps around.
LEMMA NextChannelIsChannel ==
  ASSUME NEW c \in Channel, NEW k \in 1 .. NumChannels
  PROVE  (c + k) % NumChannels \in Channel
BY ChannelAssumption, SMT DEF Channel

\* A message built from well-typed fields is a message.
LEMMA MsgType ==
  ASSUME NEW type \in {"none", "ScanFinished", "MACAddressReply"} \cup ZeroDelayTimer,
         NEW app \in AppType, NEW old \in Channel, NEW new \in Channel,
         NEW initial \in BOOLEAN
  PROVE  Msg(type, app, old, new, initial) \in Message
BY DEF Msg, Message

\* Every message the application or the MAC sends is a message.
LEMMA NoMsgType == NoMsg \in Message
BY ChannelFacts, MsgType DEF NoMsg, AppType

\* A message put on its way at one node leaves the type of pending.
LEMMA PendingType ==
  ASSUME pending \in [Node -> Message], NEW n \in Node, NEW m \in Message
  PROVE  [pending EXCEPT ![n] = m] \in [Node -> Message]
OBVIOUS

\* Retuning keeps the radio on channels.
LEMMA RetunedType ==
  ASSUME MacTypeOK, NEW n \in Node, NEW c \in Channel
  PROVE  Retuned(n, c) \in PhyData
BY DEF MacTypeOK, Retuned, PhyData

-----------------------------------------------------------------------------
\* The initial state is well typed.
LEMMA InitType == Init => TypeOK
<1> SUFFICES ASSUME Init PROVE TypeOK OBVIOUS
<1>1. MacTypeOK
  BY ChannelFacts, NoMsgType DEF Init, MacInit, MacTypeOK, MacData, PhyData, AppType
<1>2. LinkTypeOK
  BY DEF Init, LinkInit, LinkTypeOK
<1>3. ClientTypeOK
  BY ChannelFacts DEF Init, ClientInit, ClientTypeOK, ClientData, ClientState
<1>4. ServerTypeOK
  BY ChannelFacts DEF Init, ServerInit, ServerTypeOK, ServerData, ServerState
<1> QED BY <1>1, <1>2, <1>3, <1>4 DEF TypeOK

\* What the fields of a node are.
LEMMA NodeFacts ==
  ASSUME MacTypeOK, NEW n \in Node
  PROVE  /\ pending[n] \in Message
         /\ pending[n].app \in AppType /\ pending[n].new \in Channel
         /\ pending[n].old \in Channel /\ pending[n].initial \in BOOLEAN
         /\ mac[n].appType \in AppType /\ mac[n].firstScan \in BOOLEAN
         /\ mac[n].channel \in Channel /\ mac[n].newChannel \in Channel
         /\ mac[n].probeReqs \in Nat /\ mac[n].numResults \in Nat
         /\ mac[n].probed \subseteq Channel
         /\ phy[n].tx \in Channel /\ phy[n].listening \subseteq Channel
BY DEF MacTypeOK, MacData, PhyData, Message

\* Every step of a MAC leaves its variables well typed.
LEMMA MacStepType ==
  ASSUME TypeOK, NEW n \in Node, MacNext(n)
  PROVE  MacTypeOK'
<1>0. MacTypeOK BY DEF TypeOK
<1> USE DEF MacTypeOK
<1>1. CASE FromAppChanswitchRequest(n)
  <2>1. pending' \in [Node -> Message] BY <1>0, <1>1, NoMsgType DEF FromAppChanswitchRequest
  <2>2. pending[n].app \in AppType BY <1>0, NodeFacts
  <2>3. (mac \in [Node -> MacData])'
    BY <1>0, <1>1, <2>2 DEF FromAppChanswitchRequest, MacData, ZeroDelayTimer
  <2> QED BY <1>0, <1>1, <2>1, <2>3 DEF FromAppChanswitchRequest
<1>2. CASE FromAppChangeChannelRequest(n)
  <2>1. pending' \in [Node -> Message]
    BY <1>0, <1>2, NoMsgType DEF FromAppChangeChannelRequest
  <2>2. /\ pending[n].app \in AppType /\ "TX_CLIENT" \in AppType
        /\ pending[n].new \in Channel
        /\ (phy[n].listening \ {pending[n].old}) \cup {pending[n].new} \in SUBSET Channel
    BY <1>0, NodeFacts DEF AppType
  <2>3. CASE pending[n].app = "TX_CLIENT"
    <3>1. /\ mac' = [mac EXCEPT ![n] =
                       [@ EXCEPT !.appType = "TX_CLIENT", !.newChannel = pending[n].new,
                                 !.timer = "ChangeChannelRequest"]]
          /\ UNCHANGED phy
      BY <1>2, <2>3 DEF FromAppChangeChannelRequest
    <3>2. (mac \in [Node -> MacData])' BY <1>0, <2>2, <3>1 DEF MacData, ZeroDelayTimer
    <3> QED BY <1>0, <2>1, <3>1, <3>2
  <2>4. CASE pending[n].app # "TX_CLIENT"
    <3>0. mac' = [mac EXCEPT ![n] = [@ EXCEPT !.appType = pending[n].app,
                                              !.newChannel = pending[n].new]]
      BY <1>2, <2>4 DEF FromAppChangeChannelRequest
    <3>1. (mac \in [Node -> MacData])' BY <1>0, <2>2, <3>0 DEF MacData
    <3>2. (phy \in [Node -> PhyData])'
      BY <1>0, <1>2, <2>2, <2>4 DEF FromAppChangeChannelRequest, PhyData
    <3> QED BY <2>1, <3>1, <3>2
  <2> QED BY <2>3, <2>4
<1>3. CASE FromAppMACAddressRequest(n)
  <2>1. pending' \in [Node -> Message] BY <1>0, <1>3, NoMsgType DEF FromAppMACAddressRequest
  <2>2. pending[n].app \in AppType /\ pending[n].initial \in BOOLEAN BY <1>0, NodeFacts
  <2>3. (mac \in [Node -> MacData])'
    BY <1>0, <1>3, <2>2 DEF FromAppMACAddressRequest, MacData, ZeroDelayTimer
  <2> QED BY <1>0, <1>3, <2>1, <2>3 DEF FromAppMACAddressRequest
<1>4. CASE StartScan(n)
  <2>1. mac[n].probeReqs + 1 \in Nat BY <1>0, NodeFacts
  <2>2. (mac \in [Node -> MacData])' BY <1>0, <1>4, <2>1 DEF StartScan, MacData
  <2> QED BY <1>0, <1>4, <2>2 DEF StartScan
<1>5. CASE ChangeChannelTimer(n)
  <2>1. (mac \in [Node -> MacData])' BY <1>0, <1>5 DEF ChangeChannelTimer, MacData
  <2>2. (phy \in [Node -> PhyData])' BY <1>0, <1>5, NodeFacts, RetunedType DEF ChangeChannelTimer
  <2> QED BY <1>0, <1>5, <2>1, <2>2 DEF ChangeChannelTimer
<1>6. CASE MACAddressTimer(n)
  <2>1. Msg("MACAddressReply", mac[n].appType, 0, phy[n].tx, mac[n].firstScan) \in Message
    BY <1>0, NodeFacts, ChannelFacts, MsgType
  <2>2. (mac \in [Node -> MacData])' BY <1>0, <1>6 DEF MACAddressTimer, MacData
  <2> QED BY <1>0, <1>6, <2>1, <2>2 DEF MACAddressTimer
<1>7. CASE ProbeRequestTransmitted(n)
  <2>1. mac[n].probeReqs - 1 \in Nat /\ mac[n].probed \cup {phy[n].tx} \in SUBSET Channel
    BY <1>7, <1>0, NodeFacts DEF ProbeRequestTransmitted
  <2>2. (mac \in [Node -> MacData])' BY <1>0, <1>7, <2>1 DEF ProbeRequestTransmitted, MacData
  <2> QED BY <1>0, <1>7, <2>2 DEF ProbeRequestTransmitted
<1>8. CASE ScanNextChannel(n)
  <2>1. PICK k \in 1 .. NumChannels :
          LET c == (mac[n].channel + k) % NumChannels IN
          /\ mac' = [mac EXCEPT ![n] = [@ EXCEPT !.timer = "none", !.channel = c,
                                          !.numResults = mac[n].numResults + k, !.probeReqs = mac[n].probeReqs + 1]]
          /\ phy' = [phy EXCEPT ![n] = Retuned(n, c)]
          /\ UNCHANGED pending
    BY <1>8 DEF ScanNextChannel
  <2> DEFINE c == (mac[n].channel + k) % NumChannels
  <2>2. c \in Channel BY <1>0, NodeFacts, NextChannelIsChannel
  <2>3. mac[n].numResults + k \in Nat /\ mac[n].probeReqs + 1 \in Nat BY <1>0, NodeFacts
  <2>4. mac' = [mac EXCEPT ![n] = [@ EXCEPT !.timer = "none", !.channel = c,
                                    !.numResults = mac[n].numResults + k, !.probeReqs = mac[n].probeReqs + 1]]
    BY <2>1
  <2>5. phy' = [phy EXCEPT ![n] = Retuned(n, c)] BY <2>1
  <2> HIDE DEF c
  <2>6. (mac \in [Node -> MacData])' BY <1>0, <2>2, <2>3, <2>4 DEF MacData
  <2>7. (phy \in [Node -> PhyData])' BY <1>0, <2>2, <2>5, RetunedType
  <2> QED BY <1>0, <2>1, <2>6, <2>7
<1>9. CASE ScanCompleted(n)
  <2>1. Msg("ScanFinished", mac[n].appType, 0, 0, FALSE) \in Message
    BY <1>0, NodeFacts, ChannelFacts, MsgType
  <2>2. pending' \in [Node -> Message] BY <1>0, <1>9, <2>1 DEF ScanCompleted
  <2>3. (mac \in [Node -> MacData])' BY <1>0, <1>9 DEF ScanCompleted, MacData
  <2> QED BY <1>0, <1>9, <2>2, <2>3 DEF ScanCompleted
<1> QED
  BY <1>1, <1>2, <1>3, <1>4, <1>5, <1>6, <1>7, <1>8, <1>9 DEF MacNext

-----------------------------------------------------------------------------
(* Queues. *)

\* Sending leaves a queue a sequence over the same packets.
LEMMA TransmitType ==
  ASSUME NEW S, NEW q \in Seq(S), NEW p \in S, NEW closed
  PROVE  Transmit(q, closed, p) \in Seq(S)
BY DEF Transmit

\* Taking a packet from a queue that is not empty.
LEMMA HeadTailType ==
  ASSUME NEW S, NEW q \in Seq(S), q # <<>>
  PROVE  Head(q) \in S /\ Tail(q) \in Seq(S)
OBVIOUS

\* What the packets in flight are, and what remains once one is taken.
LEMMA LinkFacts ==
  ASSUME LinkTypeOK
  PROVE  /\ c2s # <<>> => /\ Head(c2s) \in ServerPacket /\ Tail(c2s) \in Seq(ServerPacket)
                          /\ Head(c2s).channel \in Channel /\ Head(c2s).round \in Nat
         /\ s2c # <<>> => /\ Head(s2c) \in ClientPacket /\ Tail(s2c) \in Seq(ClientPacket)
                          /\ Head(s2c).channel \in Channel /\ Head(s2c).round \in Nat
<1>1. c2s # <<>> => Head(c2s) \in ServerPacket /\ Tail(c2s) \in Seq(ServerPacket)
  BY HeadTailType DEF LinkTypeOK
<1>2. s2c # <<>> => Head(s2c) \in ClientPacket /\ Tail(s2c) \in Seq(ClientPacket)
  BY HeadTailType DEF LinkTypeOK
<1> QED BY <1>1, <1>2 DEF ServerPacket, ClientPacket

\* The packets of each direction, built from a channel and a round.
LEMMA PacketType ==
  ASSUME NEW c \in Channel, NEW r \in Nat
  PROVE  /\ \A type \in {"PROBE_PKT", "CHANGE_PKT"} : Packet(type, c, r) \in ServerPacket
         /\ \A type \in {"PROBE_ACK", "CHANGE_ACK", "VERIFY_ACK", "NODE_LIST"} :
              Packet(type, c, r) \in ClientPacket
BY DEF Packet, ServerPacket, ClientPacket

\* The requests of the application are messages.
LEMMA RequestType ==
  /\ \A app \in AppType : StartProbing(app) \in Message
  /\ \A app \in AppType, old \in Channel, new \in Channel :
       ChangeChannels(app, old, new) \in Message
  /\ \A app \in AppType, initial \in BOOLEAN : GetMyMacAddr(app, initial) \in Message
<1> USE ChannelFacts, MsgType DEF ZeroDelayTimer
<1>1. \A app \in AppType : StartProbing(app) \in Message BY DEF StartProbing
<1>2. \A app \in AppType, old \in Channel, new \in Channel :
        ChangeChannels(app, old, new) \in Message BY DEF ChangeChannels
<1>3. \A app \in AppType, initial \in BOOLEAN : GetMyMacAddr(app, initial) \in Message
  BY DEF GetMyMacAddr
<1> QED BY <1>1, <1>2, <1>3

\* What the client's type says of its fields, and of its timers one step on.
LEMMA ClientFacts ==
  ASSUME ClientTypeOK
  PROVE  /\ client.cur \in Channel /\ client.next \in Channel
         /\ client.round \in Nat /\ client.round + 1 \in Nat /\ client.listRound \in Nat
         /\ client.probeTimers \in Nat /\ client.probeTimers + 1 \in Nat
         /\ client.probeTimers > 0 => client.probeTimers - 1 \in Nat
         /\ client.backoff \in Nat /\ BackoffParts \in Nat
         /\ client.backoff > 0 => client.backoff - 1 \in Nat
         /\ client.timers \in Seq({"change", "verify", "backoff"})
         /\ Append(client.timers, "backoff") \in Seq({"change", "verify", "backoff"})
<1>1. /\ client.cur \in Channel /\ client.next \in Channel
      /\ client.round \in Nat /\ client.listRound \in Nat
      /\ client.probeTimers \in Nat /\ client.backoff \in Nat
      /\ client.timers \in Seq({"change", "verify", "backoff"})
  BY DEF ClientTypeOK, ClientData
<1> QED BY <1>1, ClientAssumption

\* The decision on a channel leaves the types of the client and of its stream.
LEMMA ChangeInitType ==
  ASSUME LinkTypeOK, NEW c \in ClientData, NEW best \in Channel, ChangeInit(c, best)
  PROVE  ClientTypeOK' /\ c2s' \in Seq(ServerPacket)
<1>1. CASE best = c.cur /\ client' = [c EXCEPT !.next = best, !.state = "TX_CHANGE_WFACK"]
           /\ UNCHANGED c2s
  BY <1>1 DEF LinkTypeOK, ClientTypeOK, ClientData, ClientState
<1>2. CASE /\ client' = [c EXCEPT !.next = best, !.state = "TX_CHANGE_WFACK",
                                  !.timers = Append(@, "change")]
           /\ c2s' = Transmit(c2s, c.closed, Packet("CHANGE_PKT", best, c.listRound))
  <2>1. c.listRound \in Nat /\ c.timers \in Seq({"change", "verify", "backoff"}) BY DEF ClientData
  <2>2. Append(c.timers, "change") \in Seq({"change", "verify", "backoff"}) BY <2>1
  <2>3. ClientTypeOK' BY <1>2, <2>2 DEF ClientTypeOK, ClientData, ClientState
  <2>4. Packet("CHANGE_PKT", best, c.listRound) \in ServerPacket BY <2>1, PacketType
  <2> QED BY <1>2, <2>3, <2>4, TransmitType DEF LinkTypeOK
<1> QED BY <1>1, <1>2 DEF ChangeInit

\* Every outcome of the channel evaluation is a channel.
LEMMA BestIsChannel ==
  ASSUME NEW c \in ClientData PROVE BestChannels(c) \subseteq Channel
BY ChannelFacts DEF BestChannels, ClientData

-----------------------------------------------------------------------------
(* A step of the client keeps the types of what it changes. *)

PendingTypeOK == pending \in [Node -> Message]

\* A request of the client leaves the type of pending.
LEMMA AskType ==
  ASSUME PendingTypeOK, NEW m \in Message, Ask(m)
  PROVE  PendingTypeOK'
BY ChannelFacts DEF PendingTypeOK, Ask

\* Every packet the client receives leaves its variables well typed.
LEMMA ClientReceivesType ==
  ASSUME TypeOK, ClientReceives
  PROVE  PendingTypeOK' /\ LinkTypeOK' /\ ClientTypeOK'
<1>0. PendingTypeOK /\ LinkTypeOK /\ ClientTypeOK /\ client \in ClientData
  BY DEF TypeOK, MacTypeOK, PendingTypeOK, ClientTypeOK
<1>1. CASE ProbeAckReceived
  <2>1. PendingTypeOK'
    BY <1>0, <1>1, AskType, RequestType DEF ProbeAckReceived, AppType
  <2>2. ClientTypeOK'
    BY <1>0, <1>1 DEF ProbeAckReceived, ClientTypeOK, ClientData, ClientState
  <2>3. LinkTypeOK' BY <1>0, <1>1, LinkFacts DEF ProbeAckReceived, ToClient, LinkTypeOK
  <2> QED BY <2>1, <2>2, <2>3
<1>2. CASE NodeListWhileProbing
  <2>1. s2c # <<>> /\ Head(s2c).round \in Nat
    BY <1>0, <1>2, LinkFacts DEF NodeListWhileProbing, ToClient
  <2>2. ClientTypeOK' BY <1>0, <1>2, <2>1 DEF NodeListWhileProbing, ClientTypeOK, ClientData
  <2>3. LinkTypeOK' BY <1>0, <1>2, <2>1, LinkFacts DEF NodeListWhileProbing, LinkTypeOK
  <2> QED BY <1>0, <1>2, <2>2, <2>3 DEF NodeListWhileProbing, PendingTypeOK
<1>3. CASE NodeListAfterProbing
  <2> DEFINE c == [client EXCEPT !.got = TRUE, !.listRound = Head(s2c).round]
  <2>1. s2c # <<>> /\ Head(s2c).round \in Nat
    BY <1>0, <1>3, LinkFacts DEF NodeListAfterProbing, ToClient
  <2>2. c \in ClientData BY <1>0, <2>1 DEF ClientData
  <2>3. PICK best \in BestChannels(client) : ChangeInit(c, best)
    BY <1>3 DEF NodeListAfterProbing
  <2>4. best \in Channel BY <1>0, BestIsChannel
  <2> HIDE DEF c
  <2>5. ClientTypeOK' /\ c2s' \in Seq(ServerPacket)
    BY <1>0, <2>2, <2>3, <2>4, ChangeInitType
  <2>6. s2c' \in Seq(ClientPacket)
    BY <1>0, <1>3, <2>1, LinkFacts DEF NodeListAfterProbing
  <2> QED BY <1>0, <1>3, <2>5, <2>6 DEF NodeListAfterProbing, PendingTypeOK, LinkTypeOK
<1>4. CASE ChangeAckReceived
  <2>1. PendingTypeOK'
    BY <1>0, <1>4, AskType, RequestType, ClientFacts DEF ChangeAckReceived, AppType
  <2>2. ClientTypeOK'
    BY <1>0, <1>4, ClientFacts DEF ChangeAckReceived, ClientTypeOK, ClientData, ClientState
  <2>3. LinkTypeOK' BY <1>0, <1>4, LinkFacts DEF ChangeAckReceived, ToClient, LinkTypeOK
  <2> QED BY <2>1, <2>2, <2>3
<1>5. CASE VerifyAckReceived
  <2>1. PendingTypeOK' BY <1>0, <1>5 DEF VerifyAckReceived, PendingTypeOK
  <2>2. ClientTypeOK'
    BY <1>0, <1>5, ClientFacts DEF VerifyAckReceived, ClientTypeOK, ClientData, ClientState
  <2>3. LinkTypeOK' BY <1>0, <1>5, LinkFacts DEF VerifyAckReceived, ToClient, LinkTypeOK
  <2> QED BY <2>1, <2>2, <2>3
<1>6. CASE ClientIgnores
  <2>1. PendingTypeOK' /\ ClientTypeOK'
    BY <1>0, <1>6 DEF ClientIgnores, PendingTypeOK, ClientTypeOK
  <2>2. LinkTypeOK' BY <1>0, <1>6, LinkFacts DEF ClientIgnores, ToClient, LinkTypeOK
  <2> QED BY <2>1, <2>2
<1> QED BY <1>1, <1>2, <1>3, <1>4, <1>5, <1>6 DEF ClientReceives

\* So does every timeout of the client.
LEMMA ClientTimeoutType ==
  ASSUME TypeOK, ClientTimeout
  PROVE  PendingTypeOK' /\ LinkTypeOK' /\ ClientTypeOK'
<1>0. PendingTypeOK /\ LinkTypeOK /\ ClientTypeOK /\ client \in ClientData
  BY DEF TypeOK, MacTypeOK, PendingTypeOK, ClientTypeOK
<1>5. LinkTypeOK'
  BY <1>0 DEF ClientTimeout, ProbeWfAckTimeout, ChangeWfAckTimeout, VerifyWfAckTimeout,
              BackoffPartOver, ChannelSelectionTimeout, LinkTypeOK
<1>1. CASE ProbeWfAckTimeout
  <2>0. client.probeTimers - 1 \in Nat BY <1>0, <1>1, ClientFacts DEF ProbeWfAckTimeout
  <2>1. PendingTypeOK'
    BY <1>0, <1>1, AskType, RequestType DEF ProbeWfAckTimeout, AppType, PendingTypeOK
  <2>2. ClientTypeOK'
    BY <1>0, <1>1, <2>0 DEF ProbeWfAckTimeout, ClientTypeOK, ClientData, ClientState
  <2> QED BY <1>5, <2>1, <2>2
<1>2. CASE ChangeWfAckTimeout
  <2>0. /\ Tail(client.timers) \in Seq({"change", "verify", "backoff"})
        /\ Append(Tail(client.timers), "verify") \in Seq({"change", "verify", "backoff"})
    BY <1>0, <1>2, ClientFacts, HeadTailType DEF ChangeWfAckTimeout, TimerExpires
  <2>1. PendingTypeOK'
    BY <1>0, <1>2, AskType, RequestType, ClientFacts
    DEF ChangeWfAckTimeout, AppType, PendingTypeOK
  <2>2. ClientTypeOK'
    BY <1>0, <1>2, <2>0 DEF ChangeWfAckTimeout, ClientTypeOK, ClientData, ClientState
  <2> QED BY <1>5, <2>1, <2>2
<1>3. CASE VerifyWfAckTimeout
  <2>0. Append(Tail(client.timers), "change") \in Seq({"change", "verify", "backoff"})
    BY <1>0, <1>3, ClientFacts, HeadTailType DEF VerifyWfAckTimeout, TimerExpires
  <2>1. PendingTypeOK'
    BY <1>0, <1>3, AskType, RequestType, ClientFacts DEF VerifyWfAckTimeout, AppType
  <2>2. ClientTypeOK'
    BY <1>0, <1>3, <2>0 DEF VerifyWfAckTimeout, ClientTypeOK, ClientData, ClientState
  <2> QED BY <1>5, <2>1, <2>2
<1>4. CASE ChannelSelectionTimeout
  <2>2. ClientTypeOK'
    BY <1>0, <1>4 DEF ChannelSelectionTimeout, ClientTypeOK, ClientData
  <2> QED BY <1>0, <1>4, <1>5, <2>2 DEF ChannelSelectionTimeout, PendingTypeOK
<1>6. CASE BackoffPartOver
  <2>0. /\ client.backoff - 1 \in Nat
        /\ Tail(client.timers) \in Seq({"change", "verify", "backoff"})
        /\ Append(Tail(client.timers), "backoff") \in Seq({"change", "verify", "backoff"})
    BY <1>0, <1>6, ClientFacts, HeadTailType DEF BackoffPartOver, TimerExpires
  <2>2. ClientTypeOK'
    BY <1>0, <1>6, <2>0 DEF BackoffPartOver, ClientTypeOK, ClientData
  <2> QED BY <1>0, <1>5, <1>6, <2>2 DEF BackoffPartOver, PendingTypeOK
<1> QED BY <1>1, <1>2, <1>3, <1>4, <1>6 DEF ClientTimeout

\* Every step of the client leaves the variables it touches well typed.
LEMMA ClientStepType ==
  ASSUME TypeOK, ClientNext
  PROVE  PendingTypeOK' /\ LinkTypeOK' /\ ClientTypeOK'
<1>0. PendingTypeOK /\ LinkTypeOK /\ ClientTypeOK /\ client \in ClientData
  BY DEF TypeOK, MacTypeOK, PendingTypeOK, ClientTypeOK
<1>1. CASE ClientOpen
  <2>1. PendingTypeOK' BY <1>0, <1>1, AskType, RequestType DEF ClientOpen, AppType
  <2>2. ClientTypeOK'
    BY <1>0, <1>1, ClientFacts, ChannelFacts DEF ClientOpen, BackingOff, ClientTypeOK, ClientData, ClientState
  <2> QED BY <1>0, <1>1, <2>1, <2>2 DEF ClientOpen, LinkTypeOK
<1>2. CASE InitiateChannelScan
  <2>1. PendingTypeOK' BY <1>0, <1>2, AskType, RequestType DEF InitiateChannelScan, AppType
  <2>2. ClientTypeOK'
    BY <1>0, <1>2, ClientFacts DEF InitiateChannelScan, BackingOff, ClientTypeOK, ClientData, ClientState
  <2> QED BY <1>0, <1>2, <2>1, <2>2 DEF InitiateChannelScan, LinkTypeOK
<1>3. CASE ClientMACAddress
  <2>0. pending[Tx].new \in Channel
    BY NodeFacts, ChannelFacts DEF TypeOK
  <2>1. PendingTypeOK' BY <1>0, <1>3, AskType, NoMsgType DEF ClientMACAddress
  <2>2. CASE /\ client' = [client EXCEPT !.cur = pending[Tx].new, !.state = "TX_PROBE_WFACK",
                                         !.probeTimers = @ + 1, !.round = @ + 1]
             /\ c2s' = Transmit(c2s, client.closed, Packet("PROBE_PKT", 0, client.round + 1))
    <3>1. ClientTypeOK'
      BY <1>0, <2>0, <2>2, ClientFacts DEF ClientTypeOK, ClientData, ClientState
    <3>2. Packet("PROBE_PKT", 0, client.round + 1) \in ServerPacket
      BY <1>0, ClientFacts, ChannelFacts, PacketType
    <3>3. c2s' \in Seq(ServerPacket) BY <1>0, <2>2, <3>2, TransmitType DEF LinkTypeOK
    <3> QED BY <1>0, <1>3, <2>1, <3>1, <3>3 DEF ClientMACAddress, LinkTypeOK
  <2>3. CASE /\ client' = [client EXCEPT !.cur = pending[Tx].new, !.state = "TX_IDLE"]
             /\ UNCHANGED c2s
    <3>1. ClientTypeOK' BY <1>0, <2>0, <2>3 DEF ClientTypeOK, ClientData, ClientState
    <3> QED BY <1>0, <1>3, <2>1, <2>3, <3>1 DEF ClientMACAddress, LinkTypeOK
  <2> QED BY <1>3, <2>2, <2>3 DEF ClientMACAddress
<1>4. CASE ClientClose
  <2>1. ClientTypeOK' BY <1>0, <1>4 DEF ClientClose, ClientTypeOK, ClientData
  <2> QED BY <1>0, <1>4, <2>1 DEF ClientClose, PendingTypeOK, LinkTypeOK
<1>5. CASE ClientReceives BY <1>5, ClientReceivesType
<1>6. CASE TxScanFinished
  <2>1. PendingTypeOK'
    BY <1>0, <1>6, AskType, NoMsgType, RequestType, ClientFacts DEF TxScanFinished, AppType
  <2>2. CASE client' = [client EXCEPT !.state = "TX_PROBE_WFRX"] /\ UNCHANGED c2s
    <3>1. ClientTypeOK' BY <1>0, <2>2 DEF ClientTypeOK, ClientData, ClientState
    <3> QED BY <1>0, <1>6, <2>1, <2>2, <3>1 DEF TxScanFinished, LinkTypeOK
  <2>3. CASE \E best \in BestChannels(client) : ChangeInit(client, best)
    <3>1. ClientTypeOK' /\ c2s' \in Seq(ServerPacket)
      BY <1>0, <2>3, BestIsChannel, ChangeInitType
    <3> QED BY <1>0, <1>6, <2>1, <3>1 DEF TxScanFinished, LinkTypeOK
  <2>4. CASE UNCHANGED <<client, c2s>>
    BY <1>0, <1>6, <2>1, <2>4 DEF TxScanFinished, LinkTypeOK, ClientTypeOK
  <2> QED BY <1>6, <2>2, <2>3, <2>4 DEF TxScanFinished
<1>7. CASE ClientTimeout BY <1>7, ClientTimeoutType
<1> QED BY <1>1, <1>2, <1>3, <1>4, <1>5, <1>6, <1>7 DEF ClientNext

-----------------------------------------------------------------------------
(* A step of the server keeps the types of what it changes. *)

\* A request of the server leaves the type of pending.
LEMMA TellType ==
  ASSUME PendingTypeOK, NEW m \in Message, Tell(m)
  PROVE  PendingTypeOK'
BY ChannelFacts DEF PendingTypeOK, Tell

\* What the server's type says of its fields.
LEMMA ServerFacts ==
  ASSUME ServerTypeOK
  PROVE  /\ server.cur \in Channel /\ server.next \in Channel /\ server.round \in Nat
         /\ server.delays \in Seq({"probe", "change"})
         /\ server.delays # <<>> => Tail(server.delays) \in Seq({"probe", "change"})
         /\ \A delay \in {"probe", "change"} :
              Append(server.delays, delay) \in Seq({"probe", "change"})
<1>1. /\ server.cur \in Channel /\ server.next \in Channel /\ server.round \in Nat
      /\ server.delays \in Seq({"probe", "change"})
  BY DEF ServerTypeOK, ServerData
<1> QED BY <1>1, HeadTailType

\* A reply of the server is a packet for the client.
LEMMA ReplyType ==
  ASSUME LinkTypeOK, ServerTypeOK,
         NEW type \in {"PROBE_ACK", "CHANGE_ACK", "VERIFY_ACK", "NODE_LIST"}, Reply(type)
  PROVE  s2c' \in Seq(ClientPacket)
<1>1. Packet(type, 0, server.round) \in ClientPacket BY ServerFacts, ChannelFacts, PacketType
<1> QED BY <1>1, TransmitType DEF Reply, LinkTypeOK

\* Every step of the server leaves the variables it touches well typed.
LEMMA ServerStepType ==
  ASSUME TypeOK, ServerNext
  PROVE  PendingTypeOK' /\ LinkTypeOK' /\ ServerTypeOK'
<1>0. PendingTypeOK /\ LinkTypeOK /\ ServerTypeOK /\ server \in ServerData
  BY DEF TypeOK, MacTypeOK, PendingTypeOK, ServerTypeOK
<1>1. CASE ServerOpen
  <2>1. ServerTypeOK' BY <1>0, <1>1 DEF ServerOpen, ServerTypeOK, ServerData
  <2> QED BY <1>0, <1>1, <2>1 DEF ServerOpen, PendingTypeOK, LinkTypeOK
<1>2. CASE ServerClose
  <2>1. ServerTypeOK' BY <1>0, <1>2 DEF ServerClose, ServerTypeOK, ServerData
  <2> QED BY <1>0, <1>2, <2>1 DEF ServerClose, PendingTypeOK, LinkTypeOK
<1>3. CASE ProbePktReceived
  <2>1. /\ Head(c2s).round \in Nat /\ Tail(c2s) \in Seq(ServerPacket)
        /\ Packet("PROBE_ACK", 0, Head(c2s).round) \in ClientPacket
    BY <1>0, <1>3, LinkFacts, PacketType, ChannelFacts DEF ProbePktReceived, ToServer
  <2>2. ServerTypeOK'
    BY <1>0, <1>3, <2>1, ServerFacts DEF ProbePktReceived, ServerTypeOK, ServerData, ServerState
  <2>3. LinkTypeOK' BY <1>0, <1>3, <2>1 DEF ProbePktReceived, LinkTypeOK
  <2> QED BY <1>0, <1>3, <2>2, <2>3 DEF ProbePktReceived, PendingTypeOK
<1>4. CASE ChangePktReceived
  <2>1. /\ Head(c2s).round \in Nat /\ Head(c2s).channel \in Channel
        /\ Tail(c2s) \in Seq(ServerPacket)
        /\ Packet("CHANGE_ACK", 0, Head(c2s).round) \in ClientPacket
    BY <1>0, <1>4, LinkFacts, PacketType, ChannelFacts DEF ChangePktReceived, ToServer
  <2>2. ServerTypeOK'
    BY <1>0, <1>4, <2>1, ServerFacts
    DEF ChangePktReceived, ServerTypeOK, ServerData, ServerState
  <2>3. LinkTypeOK' BY <1>0, <1>4, <2>1 DEF ChangePktReceived, LinkTypeOK
  <2> QED BY <1>0, <1>4, <2>2, <2>3 DEF ChangePktReceived, PendingTypeOK
<1>5. CASE PacketDropped
  <2>1. LinkTypeOK' BY <1>0, <1>5, LinkFacts DEF PacketDropped, ToServer, LinkTypeOK
  <2> QED BY <1>0, <1>5, <2>1 DEF PacketDropped, PendingTypeOK, ServerTypeOK
<1>6. CASE RxProbeAckDelay
  <2>1. PendingTypeOK' BY <1>0, <1>6, TellType, RequestType DEF RxProbeAckDelay, AppType
  <2>2. ServerTypeOK'
    BY <1>0, <1>6, ServerFacts DEF RxProbeAckDelay, DelayExpires, ServerTypeOK, ServerData
  <2> QED BY <1>0, <1>6, <2>1, <2>2 DEF RxProbeAckDelay, LinkTypeOK
<1>7. CASE RxChangeAckDelay
  <2>1. PendingTypeOK'
    BY <1>0, <1>7, TellType, RequestType, ServerFacts DEF RxChangeAckDelay, AppType
  <2>2. ServerTypeOK'
    BY <1>0, <1>7, ServerFacts
    DEF RxChangeAckDelay, DelayExpires, ServerTypeOK, ServerData, ServerState
  <2>3. LinkTypeOK' BY <1>0, <1>7, ReplyType DEF RxChangeAckDelay, LinkTypeOK
  <2> QED BY <2>1, <2>2, <2>3
<1>8. CASE ServerMACAddress
  <2>0. pending[Rx].new \in Channel
    BY NodeFacts, ChannelFacts DEF TypeOK
  <2>1. PendingTypeOK' BY <1>0, <1>8, TellType, RequestType DEF ServerMACAddress, AppType
  <2>2. ServerTypeOK' BY <1>0, <1>8, <2>0 DEF ServerMACAddress, ServerTypeOK, ServerData
  <2> QED BY <1>0, <1>8, <2>1, <2>2 DEF ServerMACAddress, LinkTypeOK
<1>9. CASE RxScanFinished
  <2>1. PendingTypeOK'
    BY <1>0, <1>9, TellType, RequestType, ServerFacts DEF RxScanFinished, AppType
  <2>2. ServerTypeOK'
    BY <1>0, <1>9 DEF RxScanFinished, ServerTypeOK, ServerData, ServerState
  <2>3. LinkTypeOK' BY <1>0, <1>9, ReplyType DEF RxScanFinished, LinkTypeOK
  <2> QED BY <2>1, <2>2, <2>3
<1> QED
  BY <1>1, <1>2, <1>3, <1>4, <1>5, <1>6, <1>7, <1>8, <1>9
  DEF ServerNext, ServerReceives, ServerTimeout

-----------------------------------------------------------------------------
\* Type correctness: in particular the channel arithmetic of the scan and the
\* counters of timers and probe requests never leave their ranges.
THEOREM TypeCorrect == Spec => []TypeOK
<1>1. Init => TypeOK BY InitType
<1>2. TypeOK /\ [Next]_vars => TypeOK'
  <2> SUFFICES ASSUME TypeOK, [Next]_vars PROVE TypeOK' OBVIOUS
  <2>1. CASE ClientStep
    <3>1. PendingTypeOK' /\ LinkTypeOK' /\ ClientTypeOK' BY <2>1, ClientStepType DEF ClientStep
    <3>2. MacTypeOK' /\ ServerTypeOK'
      BY <2>1, <3>1 DEF ClientStep, TypeOK, MacTypeOK, PendingTypeOK, ServerTypeOK
    <3> QED BY <3>1, <3>2 DEF TypeOK
  <2>2. CASE ServerStep
    <3>1. PendingTypeOK' /\ LinkTypeOK' /\ ServerTypeOK' BY <2>2, ServerStepType DEF ServerStep
    <3>2. MacTypeOK' /\ ClientTypeOK'
      BY <2>2, <3>1 DEF ServerStep, TypeOK, MacTypeOK, PendingTypeOK, ClientTypeOK
    <3> QED BY <3>1, <3>2 DEF TypeOK
  <2>3. CASE \E n \in Node : MacStep(n)
    <3>1. MacTypeOK' BY <2>3, MacStepType DEF MacStep
    <3>2. LinkTypeOK' /\ ClientTypeOK' /\ ServerTypeOK'
      BY <2>3 DEF MacStep, TypeOK, LinkTypeOK, ClientTypeOK, ServerTypeOK
    <3> QED BY <3>1, <3>2 DEF TypeOK
  <2>4. CASE UNCHANGED vars
    BY <2>4 DEF vars, TypeOK, MacTypeOK, LinkTypeOK, ClientTypeOK, ServerTypeOK
  <2> QED BY <2>1, <2>2, <2>3, <2>4 DEF Next
<1> QED BY <1>1, <1>2, PTL DEF Spec

-----------------------------------------------------------------------------
(* The phases of the server node. *)

\* A queue of one delay timer holds that timer, and none when it has expired.
LEMMA SingletonQueue ==
  ASSUME NEW x
  PROVE  /\ Tail(<<x>>) = <<>> /\ Head(<<x>>) = x /\ Append(<<>>, x) = <<x>>
         /\ Len(<<x>>) = 1 /\ Len(<<>>) = 0
OBVIOUS

\* What happens at the client's node does not touch the server's.
LEMMA ClientLeavesServerNode ==
  ASSUME TypeOK, ClientStep \/ MacStep(Tx)
  PROVE  pending'[Rx] = pending[Rx] /\ mac'[Rx] = mac[Rx] /\ server' = server
<1> USE ChannelFacts DEF TypeOK, MacTypeOK
<1>1. CASE ClientStep
  <2>1. ClientNext => pending'[Rx] = pending[Rx]
    BY DEF ClientNext, ClientOpen, InitiateChannelScan, ClientMACAddress, ClientClose,
           ClientReceives, ProbeAckReceived, NodeListWhileProbing, NodeListAfterProbing,
           ChangeAckReceived, VerifyAckReceived, ClientIgnores, TxScanFinished,
           ClientTimeout, ProbeWfAckTimeout, ChangeWfAckTimeout, VerifyWfAckTimeout,
           BackoffPartOver, ChannelSelectionTimeout, Ask
  <2> QED BY <1>1, <2>1 DEF ClientStep
<1>2. CASE MacStep(Tx)
  <2>1. MacNext(Tx) => pending'[Rx] = pending[Rx] /\ mac'[Rx] = mac[Rx]
    BY DEF MacNext, FromAppChanswitchRequest, FromAppChangeChannelRequest,
           FromAppMACAddressRequest, StartScan, ChangeChannelTimer, MACAddressTimer,
           ProbeRequestTransmitted, ScanNextChannel, ScanCompleted
  <2> QED BY <1>2, <2>1 DEF MacStep
<1> QED BY <1>1, <1>2

\* Every step of the server application takes it from phase to phase.
LEMMA ServerPhasesOfServerStep ==
  ASSUME TypeOK, ServerPhases, ServerStep
  PROVE  ServerPhases'
<1>0. /\ mac' = mac /\ pending \in [Node -> Message] /\ Rx \in Node
      /\ server \in ServerData
  BY ChannelFacts DEF ServerStep, TypeOK, MacTypeOK, ServerTypeOK
<1>1. \A m : Tell(m) => pending'[Rx] = m BY <1>0 DEF Tell
<1> USE DEF ServerPhases, RxIs, Has, Quiet
<1>2. CASE ServerOpen \/ ServerClose
  BY <1>0, <1>2 DEF ServerOpen, ServerClose, ServerData
<1>3. CASE ProbePktReceived
  <2>1. /\ server' = [server EXCEPT !.state = "RX_PROBE_ACK", !.round = Head(c2s).round,
                                    !.delays = <<"probe">>]
        /\ RxIs("RX_IDLE", <<>>, {"none"}, {"none"}, 0, FALSE) /\ UNCHANGED pending
    BY <1>0, <1>3, SingletonQueue DEF ProbePktReceived, ToServer
  <2> QED BY <1>0, <2>1 DEF ServerData
<1>4. CASE ChangePktReceived
  <2>1. /\ server' = [server EXCEPT !.state = "RX_CHANGE_ACK", !.round = Head(c2s).round,
                                    !.next = Head(c2s).channel, !.delays = <<"change">>]
        /\ RxIs("RX_IDLE", <<>>, {"none"}, {"none"}, 0, FALSE) /\ UNCHANGED pending
    BY <1>0, <1>4, SingletonQueue DEF ChangePktReceived, ToServer
  <2> QED BY <1>0, <2>1 DEF ServerData
<1>5. CASE PacketDropped
  BY <1>0, <1>5 DEF PacketDropped
<1>6. CASE RxProbeAckDelay
  BY <1>0, <1>1, <1>6
  DEF RxProbeAckDelay, DelayExpires, ServerData, GetMyMacAddr, Msg, ZeroDelayTimer
<1>7. CASE RxChangeAckDelay
  <2>1. /\ RxIs("RX_CHANGE_ACK", <<"change">>, {"none"}, {"none"}, 0, FALSE)
        /\ server' = [server EXCEPT !.delays = <<>>, !.state = "RX_IDLE"]
    BY <1>0, <1>7, SingletonQueue DEF RxChangeAckDelay, DelayExpires
  <2>2. pending'[Rx] = ChangeChannels("RX_SERVER", server.cur, server.next)
    BY <1>1, <1>7 DEF RxChangeAckDelay
  <2> QED BY <1>0, <2>1, <2>2 DEF ServerData, ChangeChannels, Msg
<1>8. CASE ServerMACAddress
  BY <1>0, <1>1, <1>8 DEF ServerMACAddress, ServerData, StartProbing, Msg
<1>9. CASE RxScanFinished
  BY <1>0, <1>1, <1>9 DEF RxScanFinished, ServerData, ChangeChannels, Msg
<1> QED
  BY <1>2, <1>3, <1>4, <1>5, <1>6, <1>7, <1>8, <1>9
  DEF ServerStep, ServerNext, ServerReceives, ServerTimeout

\* So does every step of the MAC at its node.
LEMMA ServerPhasesOfMacStep ==
  ASSUME TypeOK, ServerPhases, MacStep(Rx)
  PROVE  ServerPhases'
<1>0. /\ server' = server /\ Rx \in Node
      /\ pending \in [Node -> Message] /\ mac \in [Node -> MacData]
      /\ mac[Rx] \in MacData
  BY ChannelFacts DEF MacStep, TypeOK, MacTypeOK
<1> USE DEF ServerPhases, RxIs, Has, Quiet, ZeroDelayTimer
<1>1. CASE FromAppChanswitchRequest(Rx)
  BY <1>0, <1>1 DEF FromAppChanswitchRequest, NoMsg, Msg, MacData
<1>2. CASE FromAppChangeChannelRequest(Rx)
  <2>1. RxIs("RX_IDLE", <<>>, {"none", "ChangeChannelRequest"}, {"none"}, 0, FALSE)
        /\ pending[Rx].app = "RX_SERVER"
    BY <1>2 DEF FromAppChangeChannelRequest
  <2>2. /\ pending'[Rx].type = "none"
        /\ mac' = [mac EXCEPT ![Rx] = [@ EXCEPT !.appType = pending[Rx].app,
                                               !.newChannel = pending[Rx].new]]
    BY <1>0, <1>2, <2>1 DEF FromAppChangeChannelRequest, NoMsg, Msg
  <2> QED BY <1>0, <2>1, <2>2 DEF MacData
<1>3. CASE FromAppMACAddressRequest(Rx)
  BY <1>0, <1>3 DEF FromAppMACAddressRequest, NoMsg, Msg, MacData
<1>4. CASE StartScan(Rx)
  BY <1>0, <1>4 DEF StartScan, MacData
<1>5. CASE ChangeChannelTimer(Rx)
  BY <1>0, <1>5 DEF ChangeChannelTimer
<1>6. CASE MACAddressTimer(Rx)
  BY <1>0, <1>6 DEF MACAddressTimer, Msg, MacData
<1>7. CASE ProbeRequestTransmitted(Rx)
  BY <1>0, <1>7 DEF ProbeRequestTransmitted, MacData
<1>8. CASE ScanNextChannel(Rx)
  BY <1>0, <1>8 DEF ScanNextChannel, MacData
<1>9. CASE ScanCompleted(Rx)
  BY <1>0, <1>9 DEF ScanCompleted, Msg, MacData
<1> QED
  BY <1>1, <1>2, <1>3, <1>4, <1>5, <1>6, <1>7, <1>8, <1>9 DEF MacStep, MacNext

\* In each of its phases the server does one thing, or is idle.
LEMMA PhasesMeanSerial == ServerPhases => ServerSerial
<1> USE SingletonQueue DEF RxIs, ServerSerial, ServerActivities, Has
<1>1. RxIs("RX_IDLE", <<>>, {"none", "ChangeChannelRequest"}, {"none"}, 0, FALSE) => ServerSerial
  OBVIOUS
<1>2. RxIs("RX_PROBE_ACK", <<"probe">>, {"none"}, {"none"}, 0, FALSE) => ServerSerial
  OBVIOUS
<1>3. RxIs("RX_PROBE_ACK", <<>>,
           {"MACAddressRequest", "MACAddressReply", "ChanswitchRequest", "ScanFinished"},
           {"none"}, 0, FALSE) => ServerSerial
  OBVIOUS
<1>4. RxIs("RX_PROBE_ACK", <<>>, {"none"},
           {"MACAddressRequest", "ChanswitchRequest"}, 0, FALSE) => ServerSerial
  OBVIOUS
<1>5. RxIs("RX_PROBE_ACK", <<>>, {"none"}, {"none"}, 1, TRUE) => ServerSerial OBVIOUS
<1>6. RxIs("RX_PROBE_ACK", <<>>, {"none"}, {"ActiveScan"}, 0, TRUE) => ServerSerial OBVIOUS
<1>7. RxIs("RX_CHANGE_ACK", <<"change">>, {"none"}, {"none"}, 0, FALSE) => ServerSerial
  OBVIOUS
<1> QED BY <1>1, <1>2, <1>3, <1>4, <1>5, <1>6, <1>7 DEF ServerPhases

\* The server node is always in one of its phases.
THEOREM ServerPhasesHold == Spec => []ServerPhases
<1>1. Init => ServerPhases
  BY ChannelFacts DEF Init, MacInit, ServerInit, ServerPhases, RxIs, Has, NoMsg, Msg
<1>2. TypeOK /\ ServerPhases /\ [Next]_vars => ServerPhases'
  <2> SUFFICES ASSUME TypeOK, ServerPhases, [Next]_vars PROVE ServerPhases' OBVIOUS
  <2>1. CASE ClientStep \/ MacStep(Tx)
    BY <2>1, ClientLeavesServerNode DEF ServerPhases, RxIs, Has
  <2>2. CASE ServerStep BY <2>2, ServerPhasesOfServerStep
  <2>3. CASE MacStep(Rx) BY <2>3, ServerPhasesOfMacStep
  <2>4. CASE UNCHANGED vars BY <2>4 DEF vars, ServerPhases, RxIs, Has
  <2> QED BY <2>1, <2>2, <2>3, <2>4, ChannelFacts DEF Next
<1> QED BY <1>1, <1>2, TypeCorrect, PTL DEF Spec

\* The server does one thing at a time, and is idle exactly when it does none.
THEOREM ServerIsSerial == Spec => []ServerSerial
BY ServerPhasesHold, PhasesMeanSerial, PTL

-----------------------------------------------------------------------------
(* The client's node: its radio, and its scan. *)

\* What happens at the server's node does not touch the client's.
LEMMA ServerLeavesClientNode ==
  ASSUME TypeOK, ServerStep \/ MacStep(Rx)
  PROVE  /\ pending'[Tx] = pending[Tx] /\ mac'[Tx] = mac[Tx] /\ phy'[Tx] = phy[Tx]
         /\ client' = client
<1> USE ChannelFacts DEF TypeOK, MacTypeOK
<1>1. CASE ServerStep
  <2>1. ServerNext => pending'[Tx] = pending[Tx]
    BY DEF ServerNext, ServerOpen, ServerClose, ServerReceives, ProbePktReceived,
           ChangePktReceived, PacketDropped, ServerTimeout, RxProbeAckDelay,
           RxChangeAckDelay, ServerMACAddress, RxScanFinished, Tell
  <2> QED BY <1>1, <2>1 DEF ServerStep
<1>2. CASE MacStep(Rx)
  <2>1. MacNext(Rx) => /\ pending'[Tx] = pending[Tx] /\ mac'[Tx] = mac[Tx]
                       /\ phy'[Tx] = phy[Tx]
    BY DEF MacNext, FromAppChanswitchRequest, FromAppChangeChannelRequest,
           FromAppMACAddressRequest, StartScan, ChangeChannelTimer, MACAddressTimer,
           ProbeRequestTransmitted, ScanNextChannel, ScanCompleted
  <2> QED BY <1>2, <2>1 DEF MacStep
<1> QED BY <1>1, <1>2

-----------------------------------------------------------------------------
(* The radio. *)

\* Everything at the client's node is the client's; it is what makes
\* ClientTuned inductive, for a change asked by another would go past the
\* management variables.
ClientOwns ==
  /\ pending[Tx].app = "TX_CLIENT" /\ mac[Tx].appType = "TX_CLIENT"
  /\ ClientTuned

\* The messages of the client are its own.
LEMMA ClientMessages ==
  /\ NoMsg.app = "TX_CLIENT" /\ StartProbing("TX_CLIENT").app = "TX_CLIENT"
  /\ \A old, new : ChangeChannels("TX_CLIENT", old, new).app = "TX_CLIENT"
  /\ \A initial : GetMyMacAddr("TX_CLIENT", initial).app = "TX_CLIENT"
BY DEF NoMsg, StartProbing, ChangeChannels, GetMyMacAddr, Msg

\* The client sends nothing in another's name.
LEMMA ClientOwnsOfClientStep ==
  ASSUME TypeOK, ClientOwns, ClientStep
  PROVE  ClientOwns'
<1>0. /\ mac' = mac /\ phy' = phy /\ pending \in [Node -> Message] /\ Tx \in Node
      /\ ClientNext
  BY ChannelFacts DEF ClientStep, TypeOK, MacTypeOK
<1>1. \A m : Ask(m) => pending'[Tx] = m BY <1>0 DEF Ask
<1> DEFINE Own == pending'[Tx] = pending[Tx] \/ pending'[Tx].app = "TX_CLIENT"
<1>2. ClientOpen \/ InitiateChannelScan => Own
  BY <1>1, ClientMessages DEF ClientOpen, InitiateChannelScan
<1>3. ClientMACAddress => Own BY <1>1, ClientMessages DEF ClientMACAddress
<1>4. ClientClose => Own BY DEF ClientClose
<1>5. ClientReceives => Own
  BY <1>1, ClientMessages
  DEF ClientReceives, ProbeAckReceived, NodeListWhileProbing, NodeListAfterProbing,
      ChangeAckReceived, VerifyAckReceived, ClientIgnores
<1>6. TxScanFinished => Own BY <1>1, ClientMessages DEF TxScanFinished
<1>7. ClientTimeout => Own
  <2>1. ProbeWfAckTimeout => Own BY <1>1, ClientMessages DEF ProbeWfAckTimeout
  <2>2. ChangeWfAckTimeout => Own BY <1>1, ClientMessages DEF ChangeWfAckTimeout
  <2>3. VerifyWfAckTimeout => Own BY <1>1, ClientMessages DEF VerifyWfAckTimeout
  <2>4. BackoffPartOver \/ ChannelSelectionTimeout => Own
    BY DEF BackoffPartOver, ChannelSelectionTimeout
  <2> QED BY <2>1, <2>2, <2>3, <2>4 DEF ClientTimeout
<1>8. Own
  <2> HIDE DEF Own
  <2> QED BY <1>0, <1>2, <1>3, <1>4, <1>5, <1>6, <1>7 DEF ClientNext
<1> QED BY <1>0, <1>8 DEF ClientOwns, ClientTuned

\* The radio once retuned listens to the channel it sends on, and to no other.
LEMMA RetunedIsTuned ==
  ASSUME TypeOK, ClientTuned, NEW c \in Channel
  PROVE  Retuned(Tx, c) = [tx |-> c, listening |-> {c}]
<1>1. phy[Tx].listening = {mac[Tx].channel} BY DEF ClientTuned
<1>2. ({mac[Tx].channel} \ {mac[Tx].channel}) \cup {c} = {c} OBVIOUS
<1> QED BY <1>1, <1>2 DEF Retuned, ClientTuned

\* Its MAC tunes the radio together with its own variables.
LEMMA ClientOwnsOfMacStep ==
  ASSUME TypeOK, ClientOwns, MacStep(Tx)
  PROVE  ClientOwns'
<1>0. /\ Tx \in Node /\ pending \in [Node -> Message] /\ mac \in [Node -> MacData]
      /\ mac[Tx] \in MacData /\ phy \in [Node -> PhyData]
  BY ChannelFacts DEF TypeOK, MacTypeOK
<1> USE DEF ClientOwns, ClientTuned
<1>1. CASE FromAppChanswitchRequest(Tx)
  BY <1>0, <1>1, ClientMessages DEF FromAppChanswitchRequest, MacData
<1>2. CASE FromAppChangeChannelRequest(Tx)
  <2>1. /\ pending' = [pending EXCEPT ![Tx] = NoMsg] /\ UNCHANGED phy
        /\ mac' = [mac EXCEPT ![Tx] =
                [@ EXCEPT !.appType = "TX_CLIENT", !.newChannel = pending[Tx].new,
                          !.timer = "ChangeChannelRequest"]]
    BY <1>0, <1>2 DEF FromAppChangeChannelRequest
  <2> QED BY <1>0, <2>1, ClientMessages DEF MacData
<1>3. CASE FromAppMACAddressRequest(Tx)
  BY <1>0, <1>3, ClientMessages DEF FromAppMACAddressRequest, MacData
<1>4. CASE StartScan(Tx)
  BY <1>0, <1>4 DEF StartScan, MacData
<1>5. CASE ChangeChannelTimer(Tx)
  <2>1. mac[Tx].newChannel \in Channel BY <1>0 DEF MacData
  <2>2. Retuned(Tx, mac[Tx].newChannel)
          = [tx |-> mac[Tx].newChannel, listening |-> {mac[Tx].newChannel}]
    BY <2>1, RetunedIsTuned
  <2>3. mac'[Tx].channel = mac[Tx].newChannel /\ mac'[Tx].appType = "TX_CLIENT"
    BY <1>0, <1>5 DEF ChangeChannelTimer, MacData
  <2> QED BY <1>0, <1>5, <2>2, <2>3 DEF ChangeChannelTimer
<1>6. CASE MACAddressTimer(Tx)
  BY <1>0, <1>6 DEF MACAddressTimer, Msg, MacData
<1>7. CASE ProbeRequestTransmitted(Tx)
  BY <1>0, <1>7 DEF ProbeRequestTransmitted, MacData
<1>8. CASE ScanNextChannel(Tx)
  <2>1. PICK k \in 1 .. NumChannels :
          LET c == (mac[Tx].channel + k) % NumChannels IN
          /\ mac' = [mac EXCEPT ![Tx] = [@ EXCEPT !.timer = "none", !.channel = c,
                                          !.numResults = mac[Tx].numResults + k,
                                          !.probeReqs = mac[Tx].probeReqs + 1]]
          /\ phy' = [phy EXCEPT ![Tx] = Retuned(Tx, c)]
          /\ UNCHANGED pending
    BY <1>8 DEF ScanNextChannel
  <2> DEFINE c == (mac[Tx].channel + k) % NumChannels
  <2>2. c \in Channel BY <1>0, NextChannelIsChannel DEF MacData
  <2>3. mac' = [mac EXCEPT ![Tx] = [@ EXCEPT !.timer = "none", !.channel = c,
                                     !.numResults = mac[Tx].numResults + k,
                                     !.probeReqs = mac[Tx].probeReqs + 1]]
    BY <2>1
  <2>4. phy' = [phy EXCEPT ![Tx] = Retuned(Tx, c)] BY <2>1
  <2> HIDE DEF c
  <2>5. Retuned(Tx, c) = [tx |-> c, listening |-> {c}] BY <2>2, RetunedIsTuned
  <2>6. mac'[Tx].channel = c /\ mac'[Tx].appType = "TX_CLIENT" BY <1>0, <2>3 DEF MacData
  <2> QED BY <1>0, <2>1, <2>4, <2>5, <2>6
<1>9. CASE ScanCompleted(Tx)
  BY <1>0, <1>9 DEF ScanCompleted, Msg, MacData
<1> QED
  BY <1>1, <1>2, <1>3, <1>4, <1>5, <1>6, <1>7, <1>8, <1>9 DEF MacStep, MacNext

\* It stays so.
LEMMA ClientOwnsHolds == Spec => []ClientOwns
<1>1. Init => ClientOwns
  BY ChannelFacts, ClientMessages DEF Init, MacInit, ClientOwns, ClientTuned
<1>2. TypeOK /\ ClientOwns /\ [Next]_vars => ClientOwns'
  <2> SUFFICES ASSUME TypeOK, ClientOwns, [Next]_vars PROVE ClientOwns' OBVIOUS
  <2>1. CASE ServerStep \/ MacStep(Rx)
    BY <2>1, ServerLeavesClientNode DEF ClientOwns, ClientTuned
  <2>2. CASE ClientStep BY <2>2, ClientOwnsOfClientStep
  <2>3. CASE MacStep(Tx) BY <2>3, ClientOwnsOfMacStep
  <2>4. CASE UNCHANGED vars BY <2>4 DEF vars, ClientOwns, ClientTuned
  <2> QED BY <2>1, <2>2, <2>3, <2>4, ChannelFacts DEF Next
<1> QED BY <1>1, <1>2, TypeCorrect, PTL DEF Spec

\* The client's radio is always tuned to the one channel its MAC believes in,
\* whatever requests and scans overlap.
THEOREM ClientIsTuned == Spec => []ClientTuned
<1>1. ClientOwns => ClientTuned BY DEF ClientOwns
<1> QED BY <1>1, ClientOwnsHolds, PTL

-----------------------------------------------------------------------------
(* The scan. *)

\* The phases of the scan of a probing client: requested of the MAC, about to
\* start, probing a channel, reported.  The probe requests alternate with the
\* dwell timer, which is the only management timer running.
ScanPhase ==
  \/ Has(Tx, "ChanswitchRequest") /\ mac[Tx].timer \notin ZeroDelayTimer
  \/ Has(Tx, "none") /\ mac[Tx].timer = "ChanswitchRequest"
  \/ /\ Has(Tx, "none") /\ mac[Tx].timer \in {"none", "ActiveScan"} /\ mac[Tx].scanStarted
     /\ mac[Tx].probeReqs > 0 \/ mac[Tx].timer = "ActiveScan"
  \/ Has(Tx, "ScanFinished") /\ mac[Tx].timer = "none"

ProbingScans == client.state = "TX_PROBING" => ScanPhase

\* A client that starts to probe asks for the scan when nothing else is under
\* way at its node; one that is probing asks for nothing else.
LEMMA ProbingScansOfClientStep ==
  ASSUME TypeOK, ProbingScans, ClientStep
  PROVE  ProbingScans'
<1>0. /\ mac' = mac /\ pending \in [Node -> Message] /\ Tx \in Node
      /\ ClientNext /\ client \in ClientData
  BY ChannelFacts DEF ClientStep, TypeOK, MacTypeOK, ClientTypeOK
<1>1. \A m : Ask(m) => pending'[Tx] = m BY <1>0 DEF Ask
<1>2. Ask(StartProbing("TX_CLIENT")) /\ Quiet(Tx) => ScanPhase'
  BY <1>0, <1>1 DEF StartProbing, Msg, Quiet, ScanPhase, Has
<1> DEFINE Leaves == client'.state # "TX_PROBING"
           Stays == client'.state = client.state /\ UNCHANGED pending
           Starts == Ask(StartProbing("TX_CLIENT")) /\ Quiet(Tx)
<1>3. ClientOpen \/ InitiateChannelScan => Leaves
  BY <1>0 DEF ClientOpen, InitiateChannelScan, BackingOff, ClientData
<1>4. ClientMACAddress => Leaves BY <1>0 DEF ClientMACAddress, ClientData
<1>5. ClientClose => Stays BY <1>0 DEF ClientClose, ClientData
<1>6. ClientReceives => Leaves \/ Stays \/ Starts
  <2>1. ProbeAckReceived => Starts BY DEF ProbeAckReceived, ToClient
  <2>2. NodeListWhileProbing => Stays BY <1>0 DEF NodeListWhileProbing, ClientData
  <2>3. NodeListAfterProbing => Leaves
    BY <1>0 DEF NodeListAfterProbing, ChangeInit, ClientData
  <2>4. ChangeAckReceived \/ VerifyAckReceived => Leaves
    BY <1>0 DEF ChangeAckReceived, VerifyAckReceived, ClientData
  <2>5. ClientIgnores => Stays BY DEF ClientIgnores
  <2> QED BY <2>1, <2>2, <2>3, <2>4, <2>5 DEF ClientReceives
<1>7. TxScanFinished => Leaves
  <2>1. \A best : ChangeInit(client, best) => Leaves BY <1>0 DEF ChangeInit, ClientData
  <2>2. client' = [client EXCEPT !.state = "TX_PROBE_WFRX"] => Leaves BY <1>0 DEF ClientData
  <2>3. UNCHANGED client /\ client.state # "TX_PROBING" => Leaves OBVIOUS
  <2> HIDE DEF Leaves
  <2> QED BY <2>1, <2>2, <2>3 DEF TxScanFinished
<1>8. ClientTimeout => Leaves \/ Stays \/ Starts
  <2>1. ProbeWfAckTimeout => Stays \/ Starts BY <1>0 DEF ProbeWfAckTimeout, ClientData
  <2>2. ChangeWfAckTimeout => Leaves \/ Stays BY <1>0 DEF ChangeWfAckTimeout, ClientData
  <2>3. VerifyWfAckTimeout => Leaves BY <1>0 DEF VerifyWfAckTimeout, ClientData
  <2>4. BackoffPartOver \/ ChannelSelectionTimeout => Stays
    BY <1>0 DEF BackoffPartOver, ChannelSelectionTimeout, ClientData
  <2> QED BY <2>1, <2>2, <2>3, <2>4 DEF ClientTimeout
<1>9. Leaves \/ Stays \/ Starts
  <2> HIDE DEF Leaves, Stays, Starts
  <2> QED BY <1>0, <1>3, <1>4, <1>5, <1>6, <1>7, <1>8 DEF ClientNext
<1> QED BY <1>0, <1>2, <1>9 DEF ProbingScans, ScanPhase, Has

\* The MAC takes the scan from phase to phase.
LEMMA ProbingScansOfMacStep ==
  ASSUME TypeOK, ProbingScans, MacStep(Tx)
  PROVE  ProbingScans'
<1>0. /\ Tx \in Node /\ pending \in [Node -> Message] /\ mac \in [Node -> MacData]
      /\ mac[Tx] \in MacData /\ mac[Tx].probeReqs \in Nat /\ client' = client
  BY ChannelFacts DEF MacStep, TypeOK, MacTypeOK, MacData
<1> SUFFICES ASSUME ScanPhase PROVE ScanPhase' BY <1>0 DEF ProbingScans
<1> USE DEF ScanPhase, Has, Quiet, ZeroDelayTimer
<1>1. CASE FromAppChanswitchRequest(Tx)
  BY <1>0, <1>1 DEF FromAppChanswitchRequest, NoMsg, Msg, MacData
<1>2. CASE FromAppChangeChannelRequest(Tx)
  BY <1>0, <1>2 DEF FromAppChangeChannelRequest
<1>3. CASE FromAppMACAddressRequest(Tx)
  BY <1>0, <1>3 DEF FromAppMACAddressRequest
<1>4. CASE StartScan(Tx)
  BY <1>0, <1>4 DEF StartScan, MacData
<1>5. CASE ChangeChannelTimer(Tx)
  BY <1>0, <1>5 DEF ChangeChannelTimer
<1>6. CASE MACAddressTimer(Tx)
  BY <1>0, <1>6 DEF MACAddressTimer
<1>7. CASE ProbeRequestTransmitted(Tx)
  BY <1>0, <1>7 DEF ProbeRequestTransmitted, MacData
<1>8. CASE ScanNextChannel(Tx)
  <2>1. /\ mac'[Tx].timer = "none" /\ mac'[Tx].probeReqs = mac[Tx].probeReqs + 1
        /\ mac'[Tx].scanStarted = mac[Tx].scanStarted /\ UNCHANGED pending
        /\ mac[Tx].timer = "ActiveScan"
    BY <1>0, <1>8 DEF ScanNextChannel, MacData
  <2> QED BY <1>0, <2>1
<1>9. CASE ScanCompleted(Tx)
  BY <1>0, <1>9 DEF ScanCompleted, Msg, MacData
<1> QED
  BY <1>1, <1>2, <1>3, <1>4, <1>5, <1>6, <1>7, <1>8, <1>9 DEF MacStep, MacNext

\* While the client probes its scan is under way: the one management timer it
\* depends on is never made stale by another request.
THEOREM ScanIsUnderWay == Spec => []ScanUnderWay
<1>1. Init => ProbingScans
  BY DEF Init, ClientInit, ProbingScans
<1>2. TypeOK /\ ProbingScans /\ [Next]_vars => ProbingScans'
  <2> SUFFICES ASSUME TypeOK, ProbingScans, [Next]_vars PROVE ProbingScans' OBVIOUS
  <2>1. CASE ServerStep \/ MacStep(Rx)
    BY <2>1, ServerLeavesClientNode DEF ProbingScans, ScanPhase, Has
  <2>2. CASE ClientStep BY <2>2, ProbingScansOfClientStep
  <2>3. CASE MacStep(Tx) BY <2>3, ProbingScansOfMacStep
  <2>4. CASE UNCHANGED vars BY <2>4 DEF vars, ProbingScans, ScanPhase, Has
  <2> QED BY <2>1, <2>2, <2>3, <2>4, ChannelFacts DEF Next
<1>3. ProbingScans => ScanUnderWay BY DEF ProbingScans, ScanPhase, ScanUnderWay
<1> QED BY <1>1, <1>2, <1>3, TypeCorrect, PTL DEF Spec

-----------------------------------------------------------------------------
(* Both nodes: what is in flight, and which timers run, in each state of   *)
(* the two, for any number of rounds.                                       *)

(* Short sequences.  The provers are given what Head, Tail and Append do to *)
(* them and not what they are.                                              *)

Empty == <<>>
One(x) == <<x>>
Two(x, y) == <<x, y>>
Three(x, y, z) == <<x, y, z>>

\* One element more.
LEMMA AppendToTwo ==
  ASSUME NEW x, NEW y, NEW z
  PROVE  Append(<<x>>, y) = <<x, y>> /\ Append(<<x, y>>, z) = <<x, y, z>>
<1>1. Append(<<x>>, y) = <<x, y>>
  <2>1. <<x, y>> \in Seq({x, y}) /\ Len(<<x, y>>) = 2 OBVIOUS
  <2>2. Append(<<x>>, y) \in Seq({x, y}) /\ Len(Append(<<x>>, y)) = 2 OBVIOUS
  <2>3. \A i \in 1 .. 2 : <<x, y>>[i] = Append(<<x>>, y)[i] OBVIOUS
  <2> QED BY <2>1, <2>2, <2>3, SeqEqual
<1>2. Append(<<x, y>>, z) = <<x, y, z>>
  <2>1. <<x, y, z>> \in Seq({x, y, z}) /\ Len(<<x, y, z>>) = 3 OBVIOUS
  <2>2. Append(<<x, y>>, z) \in Seq({x, y, z}) /\ Len(Append(<<x, y>>, z)) = 3 OBVIOUS
  <2>3. \A i \in 1 .. 3 : <<x, y, z>>[i] = Append(<<x, y>>, z)[i] OBVIOUS
  <2> QED BY <2>1, <2>2, <2>3, SeqEqual
<1> QED BY <1>1, <1>2

\* Taking the first element, adding a last one.
LEMMA Short ==
  /\ \A x : /\ Head(One(x)) = x /\ Tail(One(x)) = Empty /\ Append(Empty, x) = One(x)
            /\ One(x) # Empty
  /\ \A x, y : /\ Head(Two(x, y)) = x /\ Tail(Two(x, y)) = One(y)
               /\ Append(One(x), y) = Two(x, y) /\ Two(x, y) # Empty
  /\ \A x, y, z : /\ Head(Three(x, y, z)) = x /\ Tail(Three(x, y, z)) = Two(y, z)
                  /\ Append(Two(x, y), z) = Three(x, y, z) /\ Three(x, y, z) # Empty
<1>1. ASSUME NEW x
      PROVE  /\ Head(One(x)) = x /\ Tail(One(x)) = Empty /\ Append(Empty, x) = One(x)
             /\ One(x) # Empty
  <2>1. Append(<<>>, x) = <<x>> OBVIOUS
  <2> QED BY <2>1 DEF One, Empty
<1>2. ASSUME NEW x, NEW y
      PROVE  /\ Head(Two(x, y)) = x /\ Tail(Two(x, y)) = One(y)
             /\ Append(One(x), y) = Two(x, y) /\ Two(x, y) # Empty
  <2>1. <<x, y>> # <<>> OBVIOUS
  <2>2. Head(<<x, y>>) = x /\ Tail(<<x, y>>) = <<y>> OBVIOUS
  <2>3. Append(<<x>>, y) = <<x, y>> BY AppendToTwo
  <2> QED BY <2>1, <2>2, <2>3, Zenon DEF One, Two, Empty
<1>3. ASSUME NEW x, NEW y, NEW z
      PROVE  /\ Head(Three(x, y, z)) = x /\ Tail(Three(x, y, z)) = Two(y, z)
             /\ Append(Two(x, y), z) = Three(x, y, z) /\ Three(x, y, z) # Empty
  <2>1. <<x, y, z>> # <<>> OBVIOUS
  <2>2. Head(<<x, y, z>>) = x OBVIOUS
  <2>3. Tail(<<x, y, z>>) = <<y, z>> OBVIOUS
  <2>4. Append(<<x, y>>, z) = <<x, y, z>> BY AppendToTwo
  <2> QED BY <2>1, <2>2, <2>3, <2>4, Zenon DEF Two, Three, Empty
<1> QED BY <1>1, <1>2, <1>3

\* The types of the packets of a stream.
TypesOf(q) == [i \in 1 .. Len(q) |-> q[i].type]

\* A packet more is a type more.
LEMMA TypesOfAppend ==
  ASSUME NEW S, NEW q \in Seq(S), NEW p \in S
  PROVE  TypesOf(Append(q, p)) = Append(TypesOf(q), p.type)
BY DEF TypesOf

\* The types of the rest of a stream, and of its first packet.
LEMMA TypesOfTail ==
  ASSUME NEW S, NEW q \in Seq(S), q # <<>>
  PROVE  /\ TypesOf(Tail(q)) = Tail(TypesOf(q))
         /\ Head(TypesOf(q)) = Head(q).type /\ TypesOf(q) # Empty
BY DEF TypesOf, Empty

\* An empty stream has no types.
LEMMA TypesOfEmpty == TypesOf(<<>>) = Empty
BY DEF TypesOf, Empty

-----------------------------------------------------------------------------
(* The conversation.                                                        *)

Asked == TypesOf(c2s)
Answered == TypesOf(s2c)

Probing == {"TX_PROBE_WFACK", "TX_PROBING", "TX_PROBE_WFRX"}
Waiting == {"TX_CHANGE_WFACK", "TX_VERIFY_WFACK"}

Talk(asked, state, answered, clients) ==
  /\ Asked = asked /\ server.state = state
  /\ Answered \in answered /\ client.state \in clients

\* What may be in flight in each state of the server, and the states the client
\* may be in meanwhile.  A client that waits may have come there from any state, by
\* a verify timer; a client may probe before the end of its last change has
\* reached it, but not while an earlier probe is under way.
Conversation ==
  \/ Talk(Empty, "RX_IDLE", {Empty}, ClientState)
  \* a probe
  \/ Talk(One("PROBE_PKT"), "RX_IDLE", {Empty}, Probing \cup Waiting)
  \/ Talk(Empty, "RX_PROBE_ACK", {Empty, One("PROBE_ACK")}, Probing \cup Waiting)
  \/ Talk(Empty, "RX_IDLE",
          {One("PROBE_ACK"), Two("PROBE_ACK", "NODE_LIST"), One("NODE_LIST")},
          Probing \cup Waiting)
  \* a change
  \/ Talk(One("CHANGE_PKT"), "RX_IDLE", {Empty}, Waiting)
  \/ Talk(Empty, "RX_CHANGE_ACK", {One("CHANGE_ACK")}, Waiting)
  \/ Talk(Empty, "RX_IDLE", {One("CHANGE_ACK"), Two("CHANGE_ACK", "VERIFY_ACK")}, Waiting)
  \/ Talk(Empty, "RX_CHANGE_ACK", {Empty}, ClientState)
  \/ Talk(Empty, "RX_IDLE", {One("VERIFY_ACK")}, ClientState)
  \* a probe on the heels of a change
  \/ Talk(One("PROBE_PKT"), "RX_CHANGE_ACK", {Empty}, Probing)
  \/ Talk(One("PROBE_PKT"), "RX_IDLE", {One("VERIFY_ACK")}, Probing)
  \/ Talk(Empty, "RX_PROBE_ACK", {Two("VERIFY_ACK", "PROBE_ACK")}, Probing)
  \/ Talk(Empty, "RX_IDLE",
          {Two("VERIFY_ACK", "PROBE_ACK"), Three("VERIFY_ACK", "PROBE_ACK", "NODE_LIST")},
          Probing)

\* The server has taken the change, and its acknowledgements are not all received.
Acks == {One("CHANGE_ACK"), Two("CHANGE_ACK", "VERIFY_ACK"), One("VERIFY_ACK"),
         Two("VERIFY_ACK", "PROBE_ACK"), Three("VERIFY_ACK", "PROBE_ACK", "NODE_LIST")}
Taken == server.state = "RX_CHANGE_ACK" \/ Answered \in Acks
Unresolved == Taken \/ Asked = One("CHANGE_PKT")

\* The two ends mean the same by what is in flight.  The requests:
AskedContents ==
  \A i \in DOMAIN c2s : /\ c2s[i].round = client.round
                        /\ c2s[i].type = "CHANGE_PKT" => c2s[i].channel = client.next

\* the answers, of which a server that scans has one more to give,
AnsweredContents ==
  /\ \A i \in DOMAIN s2c :
       s2c[i].type \in {"CHANGE_ACK", "NODE_LIST"} => s2c[i].round = client.round
  /\ server.state = "RX_PROBE_ACK" => server.round = client.round

\* the node list, which is the end of a probe,
ListAtHand ==
  client.state = "TX_PROBING" /\ client.got =>
    /\ client.listRound = client.round
    /\ Asked = Empty /\ Answered = Empty /\ server.state = "RX_IDLE"

\* and the change.
TakenChannel == Taken => server.next = client.next

\* Nothing happens before the connection is open.
BeforeOpening ==
  ~client.opened => /\ Asked = Empty /\ Answered = Empty /\ server.state = "RX_IDLE"
                    /\ client.state = "TX_IDLE" /\ client.timers = Empty

Contents ==
  /\ AskedContents
  /\ AnsweredContents
  /\ ListAtHand
  /\ TakenChannel
  /\ BeforeOpening

-----------------------------------------------------------------------------
(* The timers.                                                              *)

\* The timers of 200 ms in the order they were started.  While a part of the backoff
\* runs they are those of one round, before and after it.
TimerQueue ==
  \/ /\ client.backoff = BackoffParts
     /\ client.timers \in
          {One("backoff"), Two("change", "backoff"), Two("verify", "backoff"),
           Two("backoff", "change"), Three("change", "backoff", "change"),
           Three("verify", "backoff", "change"), Two("backoff", "verify"),
           Three("backoff", "change", "verify"), Three("backoff", "change", "change")}
  \/ /\ client.backoff = BackoffParts - 1
     /\ client.timers \in
          {One("backoff"), Two("change", "backoff"), Two("verify", "backoff"),
           Three("change", "change", "backoff"), Three("change", "verify", "backoff"),
           Two("backoff", "change"), Two("backoff", "verify"),
           Three("change", "backoff", "verify")}
  \/ /\ client.backoff \in 1 .. BackoffParts - 2
     /\ client.timers \in
          {One("backoff"), Two("change", "backoff"), Two("verify", "backoff"),
           Two("backoff", "change"), Two("backoff", "verify")}
  \/ /\ client.backoff = 0
     /\ client.timers \in {Empty, One("change"), One("verify")}

\* No verify timer is running.
Plain == {Empty, One("change"), One("backoff"), Two("change", "backoff"),
          Two("backoff", "change"), Three("change", "backoff", "change"),
          Three("backoff", "change", "change"), Three("change", "change", "backoff")}

\* A verify timer of the round before expires at the start of a round: before the
\* client has an answer of this round's change to lose.
Timers ==
  /\ TimerQueue
  /\ ~client.initBackoff => client.backoff = 0
  /\ client.state = "TX_PROBE_INIT" => client.backoff = BackoffParts
  /\ client.state \in Probing \cup {"TX_PROBE_INIT"} =>
       \/ /\ client.backoff = BackoffParts
          /\ client.timers \in {One("backoff"), Two("change", "backoff"), Two("verify", "backoff")}
       \/ client.timers \in {One("backoff"), Empty}
  /\ client.state = "TX_CHANGE_WFACK" =>
       \/ client.timers \in Plain
       \/ /\ client.backoff = BackoffParts
          /\ client.timers \in {Two("verify", "backoff"), Three("verify", "backoff", "change")}
  /\ client.state # "TX_VERIFY_WFACK" /\ Unresolved =>
       \/ client.timers \in Plain
       \/ /\ client.backoff = BackoffParts
          /\ client.timers = Three("verify", "backoff", "change")

\* The client asks for its address in TX_PROBE_INIT and in no other state, and nothing
\* else happens at its node meanwhile.
Asking ==
  \/ /\ Has(Tx, "MACAddressRequest") \/ Has(Tx, "MACAddressReply")
     /\ mac[Tx].timer \notin ZeroDelayTimer
  \/ Has(Tx, "none") /\ mac[Tx].timer = "MACAddressRequest"

AskingAddress ==
  /\ client.state = "TX_PROBE_INIT" => Asking
  /\ \/ Has(Tx, "MACAddressRequest") \/ Has(Tx, "MACAddressReply")
     \/ mac[Tx].timer = "MACAddressRequest"
     => client.state = "TX_PROBE_INIT"

Handshake == Conversation /\ Contents /\ Timers /\ AskingAddress

-----------------------------------------------------------------------------
\* What is known of the streams, for the head that is received and the rest.
LEMMA Streams ==
  ASSUME TypeOK
  PROVE  /\ c2s \in Seq(ServerPacket) /\ s2c \in Seq(ClientPacket)
         /\ \A t : ToClient(t) => /\ Answered # Empty /\ Head(Answered) = t
                                  /\ TypesOf(Tail(s2c)) = Tail(Answered)
         /\ \A t : ToServer(t) => /\ Asked # Empty /\ Head(Asked) = t
                                  /\ TypesOf(Tail(c2s)) = Tail(Asked)
<1>1. c2s \in Seq(ServerPacket) /\ s2c \in Seq(ClientPacket) BY DEF TypeOK, LinkTypeOK
<1> QED BY <1>1, TypesOfTail DEF ToClient, ToServer, Answered, Asked

\* A packet sent, or not sent on a closed session.
LEMMA Sending ==
  ASSUME NEW S, NEW q \in Seq(S), NEW p \in S, NEW closed
  PROVE  TypesOf(Transmit(q, closed, p)) \in {TypesOf(q), Append(TypesOf(q), p.type)}
BY TypesOfAppend DEF Transmit

\* The decision on a channel is asked of the server, or nothing is.
LEMMA ChangeInitAsks ==
  ASSUME TypeOK, NEW c \in ClientData, NEW best \in Channel, ChangeInit(c, best)
  PROVE  /\ client'.state = "TX_CHANGE_WFACK"
         /\ Asked' \in {Asked, Append(Asked, "CHANGE_PKT")}
<1>1. client'.state = "TX_CHANGE_WFACK" BY DEF ChangeInit, ClientData
<1>2. CASE UNCHANGED c2s BY <1>1, <1>2 DEF Asked
<1>3. CASE c2s' = Transmit(c2s, c.closed, Packet("CHANGE_PKT", best, c.listRound))
  <2>1. /\ Packet("CHANGE_PKT", best, c.listRound) \in ServerPacket
        /\ Packet("CHANGE_PKT", best, c.listRound).type = "CHANGE_PKT"
        /\ c2s \in Seq(ServerPacket)
    BY PacketType DEF Packet, ClientData, TypeOK, LinkTypeOK
  <2> QED BY <1>1, <1>3, <2>1, Sending DEF Asked
<1> QED BY <1>2, <1>3 DEF ChangeInit

\* The answer to the address request begins a round, or does not.
LEMMA AddressAsks ==
  ASSUME TypeOK, AskingAddress, ClientMACAddress
  PROVE  /\ client.state = "TX_PROBE_INIT" /\ Answered' = Answered
         /\ \/ client'.state \in {"TX_IDLE", "TX_PROBE_WFACK"} /\ Asked' = Asked
            \/ client'.state = "TX_PROBE_WFACK" /\ Asked' = Append(Asked, "PROBE_PKT")
<1>1. client.state = "TX_PROBE_INIT" BY DEF ClientMACAddress, Has, AskingAddress
<1>2. Packet("PROBE_PKT", 0, client.round + 1) \in ServerPacket
  BY ChannelFacts, ClientFacts, PacketType DEF TypeOK
<1>3. Packet("PROBE_PKT", 0, client.round + 1).type = "PROBE_PKT" BY DEF Packet
<1>4. c2s' = Transmit(c2s, client.closed, Packet("PROBE_PKT", 0, client.round + 1))
        => Asked' \in {Asked, Append(Asked, "PROBE_PKT")}
  BY <1>2, <1>3, Streams, Sending DEF Asked
<1>5. client \in ClientData BY DEF TypeOK, ClientTypeOK
<1> QED BY <1>1, <1>4, <1>5 DEF ClientMACAddress, ClientData, Asked, Answered

-----------------------------------------------------------------------------
(* The conversation goes on.                                                *)

\* What may be received, and what then remains.
LEMMA Heard ==
  ASSUME Conversation, Answered # Empty
  PROVE  \/ Answered = One("PROBE_ACK") /\ Head(Answered) = "PROBE_ACK" /\ Tail(Answered) = Empty
         \/ /\ Answered = Two("PROBE_ACK", "NODE_LIST")
            /\ Head(Answered) = "PROBE_ACK" /\ Tail(Answered) = One("NODE_LIST")
         \/ Answered = One("NODE_LIST") /\ Head(Answered) = "NODE_LIST" /\ Tail(Answered) = Empty
         \/ Answered = One("CHANGE_ACK") /\ Head(Answered) = "CHANGE_ACK" /\ Tail(Answered) = Empty
         \/ /\ Answered = Two("CHANGE_ACK", "VERIFY_ACK")
            /\ Head(Answered) = "CHANGE_ACK" /\ Tail(Answered) = One("VERIFY_ACK")
         \/ Answered = One("VERIFY_ACK") /\ Head(Answered) = "VERIFY_ACK" /\ Tail(Answered) = Empty
         \/ /\ Answered = Two("VERIFY_ACK", "PROBE_ACK")
            /\ Head(Answered) = "VERIFY_ACK" /\ Tail(Answered) = One("PROBE_ACK")
         \/ /\ Answered = Three("VERIFY_ACK", "PROBE_ACK", "NODE_LIST")
            /\ Head(Answered) = "VERIFY_ACK" /\ Tail(Answered) = Two("PROBE_ACK", "NODE_LIST")
<1>1. Answered \in {One("PROBE_ACK"), Two("PROBE_ACK", "NODE_LIST"), One("NODE_LIST"),
                    One("CHANGE_ACK"), Two("CHANGE_ACK", "VERIFY_ACK"), One("VERIFY_ACK"),
                    Two("VERIFY_ACK", "PROBE_ACK"),
                    Three("VERIFY_ACK", "PROBE_ACK", "NODE_LIST")}
  BY DEF Conversation, Talk
<1>2. /\ Head(One("PROBE_ACK")) = "PROBE_ACK" /\ Tail(One("PROBE_ACK")) = Empty
      /\ Head(One("NODE_LIST")) = "NODE_LIST" /\ Tail(One("NODE_LIST")) = Empty
      /\ Head(One("CHANGE_ACK")) = "CHANGE_ACK" /\ Tail(One("CHANGE_ACK")) = Empty
      /\ Head(One("VERIFY_ACK")) = "VERIFY_ACK" /\ Tail(One("VERIFY_ACK")) = Empty
  BY Short
<1>3. /\ Head(Two("PROBE_ACK", "NODE_LIST")) = "PROBE_ACK"
      /\ Tail(Two("PROBE_ACK", "NODE_LIST")) = One("NODE_LIST")
      /\ Head(Two("CHANGE_ACK", "VERIFY_ACK")) = "CHANGE_ACK"
      /\ Tail(Two("CHANGE_ACK", "VERIFY_ACK")) = One("VERIFY_ACK")
      /\ Head(Two("VERIFY_ACK", "PROBE_ACK")) = "VERIFY_ACK"
      /\ Tail(Two("VERIFY_ACK", "PROBE_ACK")) = One("PROBE_ACK")
  BY Short
<1>4. /\ Head(Three("VERIFY_ACK", "PROBE_ACK", "NODE_LIST")) = "VERIFY_ACK"
      /\ Tail(Three("VERIFY_ACK", "PROBE_ACK", "NODE_LIST")) = Two("PROBE_ACK", "NODE_LIST")
  BY Short
<1> QED BY <1>1, <1>2, <1>3, <1>4

\* A step of the client.
LEMMA ConversationOfClientStep ==
  ASSUME TypeOK, Handshake, ClientStep
  PROVE  Conversation'
<1>0. /\ client \in ClientData /\ server' = server /\ ClientNext
      /\ Conversation
  BY DEF ClientStep, TypeOK, ClientTypeOK, Handshake
<1> DEFINE Rest == Asked' = Asked /\ Answered' = Answered
           Takes(t) == /\ Answered # Empty /\ Head(Answered) = t
                       /\ Answered' = Tail(Answered)
<1>1. \A t : ToClient(t) /\ s2c' = Tail(s2c) => Takes(t) BY Streams DEF Answered
<1> USE DEF Probing
<1>2. CASE ClientOpen
  <2>1. /\ client'.state = "TX_PROBE_INIT" /\ ~client.opened /\ Rest
    BY <1>0, <1>2 DEF ClientOpen, BackingOff, ClientData, Asked, Answered
  <2>2. Asked = Empty /\ Answered = Empty /\ server.state = "RX_IDLE"
    BY <2>1 DEF Handshake, Contents, BeforeOpening
  <2> QED BY <1>0, <2>1, <2>2 DEF Conversation, Talk, ClientState, Probing, Waiting
<1>3. CASE InitiateChannelScan
  <2>1. client.state = "TX_IDLE" /\ client'.state = "TX_PROBE_INIT" /\ Rest
    BY <1>0, <1>3 DEF InitiateChannelScan, BackingOff, ClientData, Asked, Answered
  <2> QED BY <1>0, <2>1 DEF Conversation, Talk, ClientState, Probing, Waiting
<1>4. CASE ClientMACAddress
  <2>1. /\ client.state = "TX_PROBE_INIT" /\ Answered' = Answered
        /\ \/ client'.state \in {"TX_IDLE", "TX_PROBE_WFACK"} /\ Asked' = Asked
           \/ client'.state = "TX_PROBE_WFACK" /\ Asked' = Append(Asked, "PROBE_PKT")
    BY <1>4, AddressAsks DEF Handshake
  <2> QED BY <1>0, <2>1, Short DEF Conversation, Talk, ClientState, Probing, Waiting
<1>5. CASE ClientClose
  <2>1. client'.state = client.state /\ Rest
    BY <1>0, <1>5 DEF ClientClose, ClientData, Asked, Answered
  <2> QED BY <1>0, <2>1 DEF Conversation, Talk, ClientState, Probing, Waiting
<1>6. CASE ProbeAckReceived
  <2>1. /\ client.state \in {"TX_IDLE", "TX_PROBE_WFACK"} /\ client'.state = "TX_PROBING"
        /\ Asked' = Asked /\ Takes("PROBE_ACK")
    BY <1>0, <1>1, <1>6 DEF ProbeAckReceived, ClientData, Asked
  <2> QED BY <1>0, <2>1, Heard, Short DEF Conversation, Talk, ClientState, Probing, Waiting
<1>7. CASE NodeListWhileProbing
  <2>1. /\ client'.state = client.state /\ client.state = "TX_PROBING" /\ Asked' = Asked
        /\ Takes("NODE_LIST")
    BY <1>0, <1>1, <1>7 DEF NodeListWhileProbing, ClientData, Asked
  <2> QED BY <1>0, <2>1, Heard, Short DEF Conversation, Talk, ClientState, Probing, Waiting
<1>8. CASE NodeListAfterProbing
  <2>1. /\ client.state = "TX_PROBE_WFRX" /\ Takes("NODE_LIST")
    BY <1>1, <1>8 DEF NodeListAfterProbing
  <2>2. /\ client'.state = "TX_CHANGE_WFACK"
        /\ Asked' \in {Asked, Append(Asked, "CHANGE_PKT")}
    <3>1. PICK best \in BestChannels(client) :
            ChangeInit([client EXCEPT !.got = TRUE, !.listRound = Head(s2c).round], best)
      BY <1>8 DEF NodeListAfterProbing
    <3>2. [client EXCEPT !.got = TRUE, !.listRound = Head(s2c).round] \in ClientData
      BY <1>0, <1>8, LinkFacts DEF NodeListAfterProbing, ToClient, TypeOK, ClientData
    <3> QED BY <1>0, <3>1, <3>2, ChangeInitAsks, BestIsChannel
  <2> QED BY <1>0, <2>1, <2>2, Heard, Short DEF Conversation, Talk, ClientState, Probing, Waiting
<1>9. CASE ChangeAckReceived
  <2>1. /\ client.state = "TX_CHANGE_WFACK" /\ client'.state = "TX_IDLE"
        /\ Asked' = Asked /\ Takes("CHANGE_ACK")
    BY <1>0, <1>1, <1>9 DEF ChangeAckReceived, ClientData, Asked
  <2> QED BY <1>0, <2>1, Heard, Short DEF Conversation, Talk, ClientState, Probing, Waiting
<1>10. CASE VerifyAckReceived
  <2>1. /\ client.state = "TX_VERIFY_WFACK" /\ client'.state = "TX_IDLE"
        /\ Asked' = Asked /\ Takes("VERIFY_ACK")
    BY <1>0, <1>1, <1>10 DEF VerifyAckReceived, ClientData, Asked
  <2> QED BY <1>0, <2>1, Heard, Short DEF Conversation, Talk, ClientState, Probing, Waiting
<1>11. CASE ClientIgnores
  <2>1. client' = client /\ Asked' = Asked BY <1>11 DEF ClientIgnores, Asked
  <2>2. CASE Takes("PROBE_ACK")
    BY <1>0, <2>1, <2>2, Heard, Short DEF Conversation, Talk, ClientState, Probing, Waiting
  <2>3. CASE Takes("NODE_LIST")
    BY <1>0, <2>1, <2>3, Heard, Short DEF Conversation, Talk, ClientState, Probing, Waiting
  <2>4. CASE Takes("CHANGE_ACK")
    <3>1. \/ Answered = One("CHANGE_ACK") /\ Answered' = Empty
          \/ /\ Answered = Two("CHANGE_ACK", "VERIFY_ACK") /\ Tail(Answered) = One("VERIFY_ACK")
             /\ Answered' = One("VERIFY_ACK")
      BY <1>0, <2>4, Heard
    <3>2. /\ Asked = Empty /\ client.state \in Waiting
          /\ \/ server.state = "RX_CHANGE_ACK" /\ Answered = One("CHANGE_ACK")
             \/ server.state = "RX_IDLE"
      BY <1>0, <3>1, <2>4, Short DEF Conversation, Talk
    <3>3. Answered = Two("CHANGE_ACK", "VERIFY_ACK") => Answered # One("CHANGE_ACK")
      BY Short
    <3> QED BY <1>0, <2>1, <3>1, <3>2, <3>3 DEF Conversation, Talk, ClientState, Waiting
  <2>5. CASE Takes("VERIFY_ACK")
    BY <1>0, <2>1, <2>5, Heard, Short DEF Conversation, Talk, ClientState, Probing, Waiting
  <2> HIDE DEF Takes
  <2> QED BY <1>1, <1>11, <2>2, <2>3, <2>4, <2>5 DEF ClientIgnores
<1>12. CASE TxScanFinished
  <2>1. CASE client.state # "TX_PROBING"
    BY <1>0, <1>12, <2>1 DEF TxScanFinished, Conversation, Talk, Asked, Answered
  <2>2. CASE client.state = "TX_PROBING" /\ ~client.got
    <3>1. client'.state = "TX_PROBE_WFRX" /\ Rest
      BY <1>0, <1>12, <2>2 DEF TxScanFinished, ClientData, Asked, Answered
    <3> QED BY <1>0, <2>2, <3>1 DEF Conversation, Talk, ClientState, Probing, Waiting
  <2>3. CASE client.state = "TX_PROBING" /\ client.got
    <3>1. Asked = Empty /\ Answered = Empty /\ server.state = "RX_IDLE"
      BY <2>3 DEF Handshake, Contents, ListAtHand
    <3>2. PICK best \in BestChannels(client) : ChangeInit(client, best)
      BY <1>12, <2>3 DEF TxScanFinished
    <3>3. /\ client'.state = "TX_CHANGE_WFACK" /\ Answered' = Answered
          /\ Asked' \in {Asked, Append(Asked, "CHANGE_PKT")}
      BY <1>0, <1>12, <3>2, ChangeInitAsks, BestIsChannel DEF TxScanFinished, Answered
    <3> QED BY <1>0, <3>1, <3>3, Short DEF Conversation, Talk, ClientState, Probing, Waiting
  <2> QED BY <2>1, <2>2, <2>3
<1>13. CASE ProbeWfAckTimeout
  <2>1. /\ Rest
        /\ \/ client'.state = client.state
           \/ client.state = "TX_PROBE_WFACK" /\ client'.state = "TX_PROBING"
    BY <1>0, <1>13 DEF ProbeWfAckTimeout, ClientData, Asked, Answered
  <2> QED BY <1>0, <2>1 DEF Conversation, Talk, ClientState, Probing, Waiting
<1>14. CASE ChangeWfAckTimeout
  <2>1. /\ Rest
        /\ \/ client'.state = client.state
           \/ client.state = "TX_CHANGE_WFACK" /\ client'.state = "TX_VERIFY_WFACK"
    BY <1>0, <1>14 DEF ChangeWfAckTimeout, ClientData, Asked, Answered
  <2> QED BY <1>0, <2>1 DEF Conversation, Talk, ClientState, Probing, Waiting
<1>15. CASE VerifyWfAckTimeout
  <2>1. Rest /\ client'.state = "TX_CHANGE_WFACK"
    BY <1>0, <1>15 DEF VerifyWfAckTimeout, ClientData, Asked, Answered
  <2>2. client.timers # Empty /\ Head(client.timers) = "verify"
    BY <1>15 DEF VerifyWfAckTimeout, TimerExpires, Empty
  <2>3. ~(client.state \in Probing /\ Unresolved)
    BY <2>2, Short DEF Handshake, Timers, Plain, Probing
  <2> QED
    BY <1>0, <2>1, <2>3 DEF Conversation, Talk, ClientState, Probing, Waiting, Unresolved, Taken, Acks
<1>16. CASE BackoffPartOver \/ ChannelSelectionTimeout
  <2>1. client'.state = client.state /\ Rest
    BY <1>0, <1>16 DEF BackoffPartOver, ChannelSelectionTimeout, ClientData, Asked, Answered
  <2> QED BY <1>0, <2>1 DEF Conversation, Talk, ClientState, Probing, Waiting
<1> QED
  BY <1>0, <1>2, <1>3, <1>4, <1>5, <1>6, <1>7, <1>8, <1>9, <1>10, <1>11, <1>12, <1>13, <1>14,
     <1>15, <1>16
  DEF ClientNext, ClientReceives, ClientTimeout

-----------------------------------------------------------------------------
\* What a step of the server takes from one stream and puts in the other.
LEMMA ServerMoves ==
  ASSUME TypeOK, ServerPhases, Conversation, ServerStep
  PROVE
  \/ /\ server'.state = server.state /\ server'.next = server.next
     /\ server'.round = server.round /\ c2s' = c2s /\ s2c' = s2c
  \/ /\ server.state = "RX_IDLE" /\ server'.state = "RX_PROBE_ACK" /\ server'.next = server.next
     /\ Asked = One("PROBE_PKT") /\ Asked' = Empty /\ c2s # <<>> /\ c2s' = Tail(c2s)
     /\ server'.round = Head(c2s).round
     /\ Answered' = Append(Answered, "PROBE_ACK")
     /\ s2c' = Append(s2c, Packet("PROBE_ACK", 0, Head(c2s).round))
  \/ /\ server.state = "RX_IDLE" /\ server'.state = "RX_CHANGE_ACK"
     /\ server'.next = Head(c2s).channel
     /\ Asked = One("CHANGE_PKT") /\ Asked' = Empty /\ c2s # <<>> /\ c2s' = Tail(c2s)
     /\ Head(c2s).type = "CHANGE_PKT"
     /\ Answered' = Append(Answered, "CHANGE_ACK")
     /\ s2c' = Append(s2c, Packet("CHANGE_ACK", 0, Head(c2s).round))
  \/ /\ server.state # "RX_IDLE" /\ server' = server /\ s2c' = s2c
     /\ Asked # Empty /\ Asked' = Empty /\ c2s # <<>> /\ c2s' = Tail(c2s)
  \/ /\ server.state = "RX_CHANGE_ACK" /\ server'.state = "RX_IDLE" /\ server'.next = server.next
     /\ c2s' = c2s /\ Answered' \in {Answered, Append(Answered, "VERIFY_ACK")}
     /\ s2c' \in {s2c, Append(s2c, Packet("VERIFY_ACK", 0, server.round))}
  \/ /\ server.state = "RX_PROBE_ACK" /\ server'.state = "RX_IDLE" /\ server'.next = server.next
     /\ c2s' = c2s /\ Answered' \in {Answered, Append(Answered, "NODE_LIST")}
     /\ s2c' \in {s2c, Append(s2c, Packet("NODE_LIST", 0, server.round))}
<1>0. /\ server \in ServerData /\ client' = client /\ ServerNext
      /\ s2c \in Seq(ClientPacket)
  BY DEF ServerStep, TypeOK, ServerTypeOK, LinkTypeOK
<1>1. \A t : ToServer(t) /\ c2s' = Tail(c2s) =>
        Asked = One(t) /\ Asked' = Empty /\ c2s # <<>> /\ Head(c2s).type = t
  <2>1. \A t : Asked # Empty /\ Head(Asked) = t => Asked = One(t) /\ Tail(Asked) = Empty
    BY Short DEF Conversation, Talk
  <2>2. \A t : ToServer(t) => c2s # <<>> /\ Head(c2s).type = t BY DEF ToServer
  <2> QED BY <2>1, <2>2, Streams DEF Asked
<1>2. ASSUME NEW t \in {"NODE_LIST", "VERIFY_ACK"}, Reply(t)
      PROVE  /\ Answered' \in {Answered, Append(Answered, t)}
             /\ s2c' \in {s2c, Append(s2c, Packet(t, 0, server.round))}
  <2>1. Packet(t, 0, server.round) \in ClientPacket /\ Packet(t, 0, server.round).type = t
    BY <1>0, ChannelFacts, PacketType DEF Packet, ServerData
  <2> QED BY <1>0, <1>2, <2>1, Sending DEF Reply, Answered, Transmit
<1>3. ASSUME NEW t \in {"PROBE_ACK", "CHANGE_ACK"}, c2s # <<>>,
             s2c' = Append(s2c, Packet(t, 0, Head(c2s).round))
      PROVE  Answered' = Append(Answered, t)
  <2>1. /\ Packet(t, 0, Head(c2s).round) \in ClientPacket
        /\ Packet(t, 0, Head(c2s).round).type = t
    BY <1>3, ChannelFacts, LinkFacts, PacketType DEF TypeOK, Packet
  <2> QED BY <1>0, <1>3, <2>1, TypesOfAppend DEF Answered
<1>4. CASE ServerOpen \/ ServerClose
  BY <1>0, <1>4 DEF ServerOpen, ServerClose, ServerData
<1>5. CASE ProbePktReceived
  <2>1. /\ server.state = "RX_IDLE" /\ server'.state = "RX_PROBE_ACK"
        /\ server'.next = server.next /\ server'.round = Head(c2s).round
        /\ ToServer("PROBE_PKT") /\ c2s' = Tail(c2s)
        /\ s2c' = Append(s2c, Packet("PROBE_ACK", 0, Head(c2s).round))
    BY <1>0, <1>5 DEF ProbePktReceived, ServerData
  <2> QED BY <1>1, <1>3, <2>1
<1>6. CASE ChangePktReceived
  <2>1. /\ server.state = "RX_IDLE" /\ server'.state = "RX_CHANGE_ACK"
        /\ server'.next = Head(c2s).channel
        /\ ToServer("CHANGE_PKT") /\ c2s' = Tail(c2s)
        /\ s2c' = Append(s2c, Packet("CHANGE_ACK", 0, Head(c2s).round))
    BY <1>0, <1>6 DEF ChangePktReceived, ServerData
  <2> QED BY <1>1, <1>3, <2>1
<1>7. CASE PacketDropped
  <2>1. One("PROBE_PKT") # Empty /\ One("CHANGE_PKT") # Empty BY Short
  <2> QED BY <1>1, <1>7, <2>1 DEF PacketDropped
<1>8. CASE RxProbeAckDelay
  BY <1>0, <1>8 DEF RxProbeAckDelay, ServerData
<1>9. CASE RxChangeAckDelay
  <2>1. server.state = "RX_CHANGE_ACK"
    BY <1>9, SingletonQueue DEF RxChangeAckDelay, DelayExpires, ServerPhases, RxIs
  <2>2. /\ server'.state = "RX_IDLE" /\ server'.next = server.next /\ c2s' = c2s
        /\ Reply("VERIFY_ACK")
    BY <1>0, <1>9 DEF RxChangeAckDelay, ServerData
  <2> QED BY <1>2, <2>1, <2>2
<1>10. CASE ServerMACAddress
  BY <1>0, <1>10 DEF ServerMACAddress, ServerData
<1>11. CASE RxScanFinished
  <2>1. server.state = "RX_PROBE_ACK"
    BY <1>11 DEF RxScanFinished, Has, ServerPhases, RxIs
  <2>2. /\ server'.state = "RX_IDLE" /\ server'.next = server.next /\ c2s' = c2s
        /\ Reply("NODE_LIST")
    BY <1>0, <1>11 DEF RxScanFinished, ServerData
  <2> QED BY <1>2, <2>1, <2>2
<1> QED
  BY <1>0, <1>4, <1>5, <1>6, <1>7, <1>8, <1>9, <1>10, <1>11
  DEF ServerNext, ServerReceives, ServerTimeout

\* The conversation goes on, and is resolved by no step of the server.
LEMMA ConversationOfServerStep ==
  ASSUME TypeOK, ServerPhases, Conversation, ServerStep
  PROVE  /\ Conversation'
         /\ Unresolved' => Unresolved
         /\ Taken' => Taken \/ server'.state = "RX_CHANGE_ACK"
<1>0. client' = client BY DEF ServerStep
<1>1. One("PROBE_PKT") # One("CHANGE_PKT") /\ Empty # One("CHANGE_PKT") BY Short
<1>2. CASE /\ server'.state = server.state /\ c2s' = c2s /\ s2c' = s2c
  <2>1. Asked' = Asked /\ Answered' = Answered BY <1>2 DEF Asked, Answered
  <2> QED BY <1>0, <1>2, <2>1 DEF Conversation, Talk, Unresolved, Taken
<1>3. CASE /\ server.state = "RX_IDLE" /\ server'.state = "RX_PROBE_ACK"
           /\ Asked = One("PROBE_PKT") /\ Asked' = Empty
           /\ Answered' = Append(Answered, "PROBE_ACK")
  <2>1. /\ Answered \in {Empty, One("VERIFY_ACK")}
        /\ Answered = Empty => client.state \in Probing \cup Waiting
        /\ Answered = One("VERIFY_ACK") => client.state \in Probing
    BY <1>3, Short DEF Conversation, Talk
  <2>2. /\ Append(Empty, "PROBE_ACK") = One("PROBE_ACK")
        /\ Append(One("VERIFY_ACK"), "PROBE_ACK") = Two("VERIFY_ACK", "PROBE_ACK")
    BY Short
  <2>3. One("PROBE_ACK") \notin Acks BY Short DEF Acks
  <2>4. One("VERIFY_ACK") \in Acks BY DEF Acks
  <2> QED BY <1>0, <1>1, <1>3, <2>1, <2>2, <2>3, <2>4 DEF Conversation, Talk, Unresolved, Taken
<1>4. CASE /\ server.state = "RX_IDLE" /\ server'.state = "RX_CHANGE_ACK"
           /\ Asked = One("CHANGE_PKT") /\ Asked' = Empty
           /\ Answered' = Append(Answered, "CHANGE_ACK")
  BY <1>0, <1>4, Short DEF Conversation, Talk, Unresolved
<1>5. CASE /\ server.state # "RX_IDLE" /\ server' = server /\ s2c' = s2c
           /\ Asked # Empty /\ Asked' = Empty
  <2>1. Answered' = Answered BY <1>5 DEF Answered
  <2>2. Answered = Empty /\ server.state = "RX_CHANGE_ACK" BY <1>5 DEF Conversation, Talk
  <2> QED BY <1>0, <1>5, <2>1, <2>2 DEF Conversation, Talk, Unresolved, Taken, Probing, ClientState
<1>6. CASE /\ server.state = "RX_CHANGE_ACK" /\ server'.state = "RX_IDLE"
           /\ c2s' = c2s /\ Answered' \in {Answered, Append(Answered, "VERIFY_ACK")}
  <2>1. Asked' = Asked BY <1>6 DEF Asked
  <2> QED BY <1>0, <1>6, <2>1, Short DEF Conversation, Talk, Unresolved, Taken
<1>7. CASE /\ server.state = "RX_PROBE_ACK" /\ server'.state = "RX_IDLE"
           /\ c2s' = c2s /\ Answered' \in {Answered, Append(Answered, "NODE_LIST")}
  <2>1. Asked' = Asked BY <1>7 DEF Asked
  <2>2. /\ Asked = Empty
        /\ \/ Answered \in {Empty, One("PROBE_ACK")} /\ client.state \in Probing \cup Waiting
           \/ Answered = Two("VERIFY_ACK", "PROBE_ACK") /\ client.state \in Probing
    BY <1>7 DEF Conversation, Talk
  <2>3. /\ Append(Empty, "NODE_LIST") = One("NODE_LIST")
        /\ Append(One("PROBE_ACK"), "NODE_LIST") = Two("PROBE_ACK", "NODE_LIST")
        /\ Append(Two("VERIFY_ACK", "PROBE_ACK"), "NODE_LIST")
             = Three("VERIFY_ACK", "PROBE_ACK", "NODE_LIST")
    BY Short
  <2>4. /\ Empty \notin Acks /\ One("NODE_LIST") \notin Acks
        /\ Two("PROBE_ACK", "NODE_LIST") \notin Acks /\ One("PROBE_ACK") \notin Acks
        /\ Two("VERIFY_ACK", "PROBE_ACK") \in Acks
    <3>1. \A q \in Acks : q # Empty /\ Head(q) \in {"CHANGE_ACK", "VERIFY_ACK"}
      BY Short DEF Acks
    <3>2. \A q \in {One("PROBE_ACK"), One("NODE_LIST"), Two("PROBE_ACK", "NODE_LIST")} :
            Head(q) \in {"PROBE_ACK", "NODE_LIST"}
      BY Short
    <3>3. Two("VERIFY_ACK", "PROBE_ACK") \in Acks BY DEF Acks
    <3> QED BY <3>1, <3>2, <3>3
  <2>5. Conversation'
    BY <1>0, <1>7, <2>1, <2>2, <2>3 DEF Conversation, Talk, Probing, Waiting, ClientState
  <2> QED BY <1>1, <1>7, <2>1, <2>2, <2>3, <2>4, <2>5 DEF Unresolved, Taken
<1> QED BY <1>2, <1>3, <1>4, <1>5, <1>6, <1>7, ServerMoves

\* The timers are the client's own.
LEMMA TimersOfServerStep ==
  ASSUME TypeOK, ServerPhases, Conversation, Timers, ServerStep
  PROVE  Timers'
<1>1. client' = client /\ (Unresolved' => Unresolved)
  BY ConversationOfServerStep DEF ServerStep
<1> QED BY <1>1 DEF Timers, TimerQueue

-----------------------------------------------------------------------------
(* The request for the address.                                             *)

\* It starts at a node that is quiet, and nothing else starts before it is answered.
LEMMA AskingOfClientStep ==
  ASSUME TypeOK, AskingAddress, ClientStep
  PROVE  AskingAddress'
<1>0. /\ mac' = mac /\ pending \in [Node -> Message] /\ Tx \in Node
      /\ ClientNext /\ client \in ClientData
  BY ChannelFacts DEF ClientStep, TypeOK, MacTypeOK, ClientTypeOK
<1>1. \A m : Ask(m) => pending'[Tx] = m BY <1>0 DEF Ask
<1> DEFINE Asks == /\ Quiet(Tx) /\ client'.state = "TX_PROBE_INIT"
                   /\ \E initial : Ask(GetMyMacAddr("TX_CLIENT", initial))
           Ends == Has(Tx, "MACAddressReply") /\ Ask(NoMsg) /\ client'.state # "TX_PROBE_INIT"
           Stays == client'.state = client.state /\ UNCHANGED pending
           Others == /\ Quiet(Tx) \/ Has(Tx, "ScanFinished")
                     /\ client'.state # "TX_PROBE_INIT"
                     /\ pending'[Tx].type \in {"none", "ChanswitchRequest", "ChangeChannelRequest"}
                          \/ UNCHANGED pending
           Warns == Has(Tx, "ScanFinished") /\ UNCHANGED client /\ Ask(NoMsg)
<1>2. Stays => AskingAddress' BY <1>0 DEF AskingAddress, Asking, Has
<1>3. Asks => AskingAddress'
  BY <1>0, <1>1 DEF AskingAddress, Asking, Has, Quiet, GetMyMacAddr, Msg, ZeroDelayTimer
<1>4. Ends => AskingAddress'
  BY <1>0, <1>1 DEF AskingAddress, Asking, Has, NoMsg, Msg, ZeroDelayTimer
<1>5. Others => AskingAddress'
  BY <1>0, <1>1 DEF AskingAddress, Asking, Has, Quiet, ZeroDelayTimer
<1>6. Warns => AskingAddress'
  BY <1>0, <1>1 DEF AskingAddress, Asking, Has, NoMsg, Msg
<1>7. /\ \A old, new : ChangeChannels("TX_CLIENT", old, new).type = "ChangeChannelRequest"
      /\ StartProbing("TX_CLIENT").type = "ChanswitchRequest" /\ NoMsg.type = "none"
  BY DEF ChangeChannels, StartProbing, NoMsg, Msg
<1>8. CASE ClientOpen \/ InitiateChannelScan
  <2>1. Asks
    BY <1>0, <1>8 DEF ClientOpen, InitiateChannelScan, BackingOff, ClientData
  <2> QED BY <1>3, <2>1
<1>9. CASE ClientMACAddress
  <2>1. Ends BY <1>0, <1>9 DEF ClientMACAddress, ClientData
  <2> QED BY <1>4, <2>1
<1>10. CASE ClientClose
  <2>1. Stays BY <1>0, <1>10 DEF ClientClose, ClientData
  <2> QED BY <1>2, <2>1
<1>11. CASE ClientReceives
  <2>1. ProbeAckReceived => Others
    BY <1>0, <1>1, <1>7 DEF ProbeAckReceived, ToClient, ClientData
  <2>2. NodeListWhileProbing \/ ClientIgnores => Stays
    BY <1>0 DEF NodeListWhileProbing, ClientIgnores, ClientData
  <2>3. NodeListAfterProbing => Others
    BY <1>0 DEF NodeListAfterProbing, ToClient, ChangeInit, ClientData
  <2>4. ChangeAckReceived => Others
    BY <1>0, <1>1, <1>7 DEF ChangeAckReceived, ToClient, ClientData
  <2>5. VerifyAckReceived => Others
    BY <1>0 DEF VerifyAckReceived, ToClient, ClientData
  <2> HIDE DEF Others, Stays
  <2> QED BY <1>2, <1>5, <1>11, <2>1, <2>2, <2>3, <2>4, <2>5 DEF ClientReceives
<1>12. CASE TxScanFinished
  <2>1. CASE client.state # "TX_PROBING"
    <3>1. Warns BY <1>12, <2>1 DEF TxScanFinished
    <3> QED BY <1>6, <3>1
  <2>2. CASE client.state = "TX_PROBING" /\ ~client.got
    <3>1. Others BY <1>0, <1>1, <1>7, <1>12, <2>2 DEF TxScanFinished, ClientData
    <3> QED BY <1>5, <3>1
  <2>3. CASE client.state = "TX_PROBING" /\ client.got
    <3>1. PICK best \in BestChannels(client) : ChangeInit(client, best)
      BY <1>12, <2>3 DEF TxScanFinished
    <3>2. client'.state = "TX_CHANGE_WFACK" BY <1>0, <3>1 DEF ChangeInit, ClientData
    <3>3. Others BY <1>1, <1>7, <1>12, <2>3, <3>2 DEF TxScanFinished
    <3> QED BY <1>5, <3>3
  <2> QED BY <2>1, <2>2, <2>3
<1>13. CASE ClientTimeout
  <2>1. ProbeWfAckTimeout => Others \/ Stays
    BY <1>0, <1>1, <1>7 DEF ProbeWfAckTimeout, ClientData
  <2>2. ChangeWfAckTimeout => Others \/ Stays
    <3>1. ASSUME ChangeWfAckTimeout, client.state = "TX_CHANGE_WFACK" PROVE Others
      <4>1. /\ Quiet(Tx) /\ Ask(ChangeChannels("TX_CLIENT", client.cur, client.next))
            /\ client' = [client EXCEPT !.state = "TX_VERIFY_WFACK",
                                        !.timers = Append(Tail(@), "verify")]
        BY <3>1 DEF ChangeWfAckTimeout, TimerExpires
      <4>2. client'.state = "TX_VERIFY_WFACK" BY <1>0, <4>1 DEF ClientData
      <4> QED BY <1>1, <1>7, <4>1, <4>2
    <3>2. ChangeWfAckTimeout /\ client.state # "TX_CHANGE_WFACK" => Stays
      BY <1>0 DEF ChangeWfAckTimeout, ClientData
    <3> QED BY <3>1, <3>2
  <2>3. VerifyWfAckTimeout => Others
    BY <1>0, <1>1, <1>7 DEF VerifyWfAckTimeout, TimerExpires, ClientData
  <2>4. BackoffPartOver \/ ChannelSelectionTimeout => Stays
    BY <1>0 DEF BackoffPartOver, ChannelSelectionTimeout, ClientData
  <2> HIDE DEF Others, Stays
  <2> QED BY <1>2, <1>5, <1>13, <2>1, <2>2, <2>3, <2>4 DEF ClientTimeout
<1> QED BY <1>0, <1>8, <1>9, <1>10, <1>11, <1>12, <1>13 DEF ClientNext

\* The MAC takes the request from message to timer to answer.
LEMMA AskingOfMacStep ==
  ASSUME TypeOK, AskingAddress, MacStep(Tx)
  PROVE  AskingAddress'
<1>0. /\ Tx \in Node /\ pending \in [Node -> Message] /\ mac \in [Node -> MacData]
      /\ mac[Tx] \in MacData /\ client' = client
  BY ChannelFacts DEF MacStep, TypeOK, MacTypeOK
<1> USE DEF AskingAddress, Asking, Has, Quiet, ZeroDelayTimer
<1>1. CASE FromAppChanswitchRequest(Tx)
  BY <1>0, <1>1 DEF FromAppChanswitchRequest, NoMsg, Msg, MacData
<1>2. CASE FromAppChangeChannelRequest(Tx)
  BY <1>0, <1>2 DEF FromAppChangeChannelRequest, NoMsg, Msg, MacData
<1>3. CASE FromAppMACAddressRequest(Tx)
  BY <1>0, <1>3 DEF FromAppMACAddressRequest, NoMsg, Msg, MacData
<1>4. CASE StartScan(Tx)
  BY <1>0, <1>4 DEF StartScan, MacData
<1>5. CASE ChangeChannelTimer(Tx)
  BY <1>0, <1>5 DEF ChangeChannelTimer, MacData
<1>6. CASE MACAddressTimer(Tx)
  BY <1>0, <1>6 DEF MACAddressTimer, Msg, MacData
<1>7. CASE ProbeRequestTransmitted(Tx)
  BY <1>0, <1>7 DEF ProbeRequestTransmitted, MacData
<1>8. CASE ScanNextChannel(Tx)
  <2>1. mac'[Tx].timer = "none" /\ UNCHANGED pending /\ mac[Tx].timer = "ActiveScan"
    BY <1>0, <1>8 DEF ScanNextChannel, MacData
  <2> QED BY <1>0, <2>1
<1>9. CASE ScanCompleted(Tx)
  BY <1>0, <1>9 DEF ScanCompleted, Msg, MacData
<1> QED
  BY <1>1, <1>2, <1>3, <1>4, <1>5, <1>6, <1>7, <1>8, <1>9 DEF MacStep, MacNext

-----------------------------------------------------------------------------
(* The timers.                                                              *)

\* What is resolved stays so until the next change is asked for.
LEMMA ResolvedStays ==
  ASSUME Conversation, server'.state = server.state,
         Asked' \in {Asked, One("PROBE_PKT")},
         Answered' = Answered \/ (Answered # Empty /\ Answered' = Tail(Answered))
  PROVE  (Taken' => Taken) /\ (Unresolved' => Unresolved)
<1>1. One("PROBE_PKT") # One("CHANGE_PKT") BY Short
<1>2. CASE Answered' = Answered BY <1>1, <1>2 DEF Unresolved, Taken
<1>3. CASE Answered # Empty /\ Answered' = Tail(Answered)
  <2>1. \A q \in Acks : q # Empty /\ Head(q) \in {"CHANGE_ACK", "VERIFY_ACK"}
    BY Short DEF Acks
  <2>2. \A q \in {One("PROBE_ACK"), One("NODE_LIST"), Two("PROBE_ACK", "NODE_LIST")} :
          Head(q) \in {"PROBE_ACK", "NODE_LIST"}
    BY Short
  <2>3. Tail(Answered) \notin {Empty, One("PROBE_ACK"), One("NODE_LIST"),
                              Two("PROBE_ACK", "NODE_LIST")} => Answered \in Acks
    BY <1>3, Heard DEF Acks
  <2>4. Answered' \in Acks => Answered \in Acks BY <1>3, <2>1, <2>2, <2>3
  <2> QED BY <1>1, <2>4 DEF Unresolved, Taken
<1> QED BY <1>2, <1>3

\* A decision starts a change timer, or leaves the change resolved.
LEMMA TimersOfDecision ==
  ASSUME BackoffParts >= 2, Timers, client.state \in Probing,
         NEW c \in ClientData, c.timers = client.timers, c.backoff = client.backoff,
         c.initBackoff = client.initBackoff,
         NEW best \in Channel, ChangeInit(c, best), UNCHANGED c2s => ~Unresolved'
  PROVE  Timers'
<1>1. /\ client'.state = "TX_CHANGE_WFACK" /\ client'.backoff = client.backoff
      /\ client'.initBackoff = client.initBackoff
      /\ \/ client'.timers = client.timers /\ ~Unresolved'
         \/ client'.timers = Append(client.timers, "change")
  BY DEF ChangeInit, ClientData
<1>2. CASE client'.timers = client.timers /\ ~Unresolved'
  BY <1>1, <1>2 DEF Timers, TimerQueue, Plain, Probing
<1>3. CASE client'.timers = Append(client.timers, "change")
  <2>1. \/ /\ client.backoff = BackoffParts
           /\ client'.timers \in {Two("backoff", "change"), Three("change", "backoff", "change"),
                                  Three("verify", "backoff", "change")}
        \/ /\ client.backoff \in 1 .. BackoffParts - 1
           /\ client'.timers = Two("backoff", "change")
        \/ client.backoff = 0 /\ client'.timers = One("change")
    <3>1. /\ Append(One("backoff"), "change") = Two("backoff", "change")
          /\ Append(Two("change", "backoff"), "change") = Three("change", "backoff", "change")
          /\ Append(Two("verify", "backoff"), "change") = Three("verify", "backoff", "change")
          /\ Append(Empty, "change") = One("change")
      BY Short
    <3>2. CASE client.timers = One("backoff")
      <4>1. client.timers \notin {Empty, One("change"), One("verify")} BY <3>2, Short
      <4> QED BY <1>3, <3>1, <3>2, <4>1, ClientAssumption DEF Timers, TimerQueue
    <3>3. CASE client.timers = Empty
      <4>1. client.backoff = 0 BY <3>3, Short DEF Timers, TimerQueue
      <4> QED BY <1>3, <3>1, <3>3, <4>1
    <3>4. CASE client.timers \in {Two("change", "backoff"), Two("verify", "backoff")}
      <4>1. client.timers \notin {Empty, One("backoff")} BY <3>4, Short
      <4> QED BY <1>3, <3>1, <3>4, <4>1 DEF Timers
    <3> QED BY <3>2, <3>3, <3>4 DEF Timers
  <2> QED BY <1>1, <2>1, ClientAssumption DEF Timers, TimerQueue, Plain, Probing
<1> QED BY <1>1, <1>2, <1>3

\* What may expire.
LEMMA Expiring ==
  ASSUME TimerQueue, client.timers # Empty
  PROVE  \/ /\ Head(client.timers) = "change"
            /\ \/ /\ client.backoff = BackoffParts
                  /\ client.timers \in {Two("change", "backoff"),
                                        Three("change", "backoff", "change")}
               \/ /\ client.backoff = BackoffParts - 1
                  /\ client.timers \in {Two("change", "backoff"),
                                        Three("change", "change", "backoff"),
                                        Three("change", "verify", "backoff"),
                                        Three("change", "backoff", "verify")}
               \/ /\ client.backoff \in 1 .. BackoffParts - 2
                  /\ client.timers = Two("change", "backoff")
               \/ client.backoff = 0 /\ client.timers = One("change")
         \/ /\ Head(client.timers) = "verify"
            /\ \/ /\ client.backoff = BackoffParts
                  /\ client.timers \in {Two("verify", "backoff"),
                                        Three("verify", "backoff", "change")}
               \/ /\ client.backoff \in {BackoffParts - 1} \cup 1 .. BackoffParts - 2
                  /\ client.timers = Two("verify", "backoff")
               \/ client.backoff = 0 /\ client.timers = One("verify")
         \/ /\ Head(client.timers) = "backoff"
            /\ \/ /\ client.backoff = BackoffParts
                  /\ client.timers \in
                       {One("backoff"), Two("backoff", "change"), Two("backoff", "verify"),
                        Three("backoff", "change", "verify"),
                        Three("backoff", "change", "change")}
               \/ /\ client.backoff \in {BackoffParts - 1} \cup 1 .. BackoffParts - 2
                  /\ client.timers \in {One("backoff"), Two("backoff", "change"),
                                        Two("backoff", "verify")}
<1>1. \A x : Head(One(x)) = x BY Short
<1>2. \A x, y : Head(Two(x, y)) = x BY Short
<1>3. \A x, y, z : Head(Three(x, y, z)) = x BY Short
<1> QED BY <1>1, <1>2, <1>3 DEF TimerQueue

\* A step of the client.
LEMMA TimersOfClientStep ==
  ASSUME BackoffParts >= 2, TypeOK, Handshake, ClientStep
  PROVE  Timers'
<1>0. /\ client \in ClientData /\ server' = server /\ ClientNext /\ Conversation /\ Timers
      /\ BackoffParts \in Nat
  BY ClientAssumption DEF ClientStep, TypeOK, ClientTypeOK, Handshake
<1> DEFINE Same == /\ client'.timers = client.timers /\ client'.backoff = client.backoff
                   /\ client'.initBackoff = client.initBackoff
           Rest == Asked' = Asked /\ Answered' = Answered
           Takes(t) == /\ Answered # Empty /\ Head(Answered) = t
                       /\ Answered' = Tail(Answered)
<1>1. \A t : ToClient(t) /\ s2c' = Tail(s2c) => Takes(t) BY Streams DEF Answered
<1>2. Asked' = Asked /\ (Answered' = Answered \/ \E t : Takes(t)) => (Unresolved' => Unresolved)
  BY <1>0, ResolvedStays
<1>3. CASE ClientOpen \/ InitiateChannelScan
  <2>1. /\ client'.state = "TX_PROBE_INIT" /\ client'.initBackoff
        /\ client'.backoff = BackoffParts
        /\ client'.timers = Append(client.timers, "backoff")
        /\ client.state # "TX_VERIFY_WFACK" /\ client.backoff = 0 /\ Rest
    <3>1. CASE ClientOpen
      <4>1. client.timers = Empty /\ client.state = "TX_IDLE"
        BY <1>0, <3>1 DEF ClientOpen, Handshake, Contents, BeforeOpening
      <4>2. client.backoff = 0 BY <1>0, <4>1, Short DEF Timers, TimerQueue
      <4> QED BY <1>0, <3>1, <4>1, <4>2 DEF ClientOpen, BackingOff, ClientData, Asked, Answered
    <3>2. CASE InitiateChannelScan
      BY <1>0, <3>2 DEF InitiateChannelScan, BackingOff, ClientData, Asked, Answered, Timers
    <3> QED BY <1>3, <3>1, <3>2
  <2>2. client.timers \in {Empty, One("change"), One("verify")} 
    BY <1>0, <2>1 DEF Timers, TimerQueue
  <2>3. client'.timers \in {One("backoff"), Two("change", "backoff"), Two("verify", "backoff")}
    <3>1. /\ Append(Empty, "backoff") = One("backoff")
          /\ Append(One("change"), "backoff") = Two("change", "backoff")
          /\ Append(One("verify"), "backoff") = Two("verify", "backoff")
      BY Short
    <3> QED BY <2>1, <2>2, <3>1
  <2>4. Unresolved' => client'.timers \in {One("backoff"), Two("change", "backoff")}
    <3>1. One("verify") \notin Plain /\ One("verify") # Three("verify", "backoff", "change")
      BY Short DEF Plain
    <3>2. Unresolved' => client.timers # One("verify")
      BY <1>0, <1>2, <2>1, <3>1 DEF Timers
    <3> QED BY <2>1, <2>2, <3>2, Short
  <2> QED BY <1>0, <2>1, <2>3, <2>4 DEF Timers, TimerQueue, Plain, Probing
<1>4. CASE ClientMACAddress
  <2>1. /\ client.state = "TX_PROBE_INIT" /\ Answered' = Answered
        /\ Asked' \in {Asked, Append(Asked, "PROBE_PKT")}
        /\ client'.state \in {"TX_IDLE", "TX_PROBE_WFACK"}
    BY <1>4, AddressAsks DEF Handshake
  <2>2. Same BY <1>0, <1>4 DEF ClientMACAddress, ClientData
  <2>3. Asked = Empty BY <1>0, <2>1 DEF Conversation, Talk, Probing, Waiting
  <2>4. Unresolved' => Unresolved BY <1>0, <2>1, <2>3, Short, ResolvedStays
  <2> QED BY <1>0, <2>1, <2>2, <2>4 DEF Timers, TimerQueue, Probing
<1>5. CASE ClientClose
  <2>1. client'.state = client.state /\ Rest /\ Same
    BY <1>0, <1>5 DEF ClientClose, ClientData, Asked, Answered
  <2> QED BY <1>0, <1>2, <2>1 DEF Timers, TimerQueue
<1>6. CASE ProbeAckReceived
  <2>1. /\ client.state \in {"TX_IDLE", "TX_PROBE_WFACK"} /\ client'.state = "TX_PROBING"
        /\ Asked' = Asked /\ Takes("PROBE_ACK") /\ Same
    BY <1>0, <1>1, <1>6 DEF ProbeAckReceived, ClientData, Asked
  <2>2. client.state = "TX_PROBE_WFACK"
    BY <1>0, <2>1, Heard, Short DEF Conversation, Talk, Probing, Waiting
  <2> QED BY <1>0, <1>2, <2>1, <2>2 DEF Timers, TimerQueue, Probing
<1>7. CASE NodeListWhileProbing
  <2>1. /\ client'.state = client.state /\ Asked' = Asked /\ Takes("NODE_LIST") /\ Same
    BY <1>0, <1>1, <1>7 DEF NodeListWhileProbing, ClientData, Asked
  <2> QED BY <1>0, <1>2, <2>1 DEF Timers, TimerQueue
<1>8. CASE NodeListAfterProbing
  <2>1. client.state = "TX_PROBE_WFRX" /\ Takes("NODE_LIST")
    BY <1>1, <1>8 DEF NodeListAfterProbing
  <2>2. Asked = Empty /\ server.state = "RX_IDLE" /\ Answered' = Empty
    BY <1>0, <2>1, Heard, Short DEF Conversation, Talk
  <2>3. UNCHANGED c2s => ~Unresolved'
    BY <1>0, <2>2, Short DEF Unresolved, Taken, Acks, Asked
  <2>4. PICK best \in BestChannels(client) :
          ChangeInit([client EXCEPT !.got = TRUE, !.listRound = Head(s2c).round], best)
    BY <1>8 DEF NodeListAfterProbing
  <2> DEFINE c == [client EXCEPT !.got = TRUE, !.listRound = Head(s2c).round]
  <2>5. /\ c \in ClientData /\ c.timers = client.timers /\ c.backoff = client.backoff
        /\ c.initBackoff = client.initBackoff
    BY <1>0, <1>8, LinkFacts DEF NodeListAfterProbing, ToClient, TypeOK, ClientData
  <2>6. ChangeInit(c, best) BY <2>4
  <2> HIDE DEF c
  <2> QED BY <1>0, <2>1, <2>3, <2>5, <2>6, TimersOfDecision, BestIsChannel DEF Probing
<1>9. CASE ChangeAckReceived
  <2>1. /\ client.state = "TX_CHANGE_WFACK" /\ client'.state = "TX_IDLE"
        /\ Asked' = Asked /\ Takes("CHANGE_ACK") /\ Same
    BY <1>0, <1>1, <1>9 DEF ChangeAckReceived, ClientData, Asked
  <2> QED BY <1>0, <1>2, <2>1 DEF Timers, TimerQueue, Probing
<1>10. CASE VerifyAckReceived
  <2>1. /\ client.state = "TX_VERIFY_WFACK" /\ client'.state = "TX_IDLE"
        /\ Asked' = Asked /\ Takes("VERIFY_ACK") /\ Same
    BY <1>0, <1>1, <1>10 DEF VerifyAckReceived, ClientData, Asked
  <2>2. Asked = Empty /\ server.state = "RX_IDLE" /\ Answered' = Empty
    BY <1>0, <2>1, Heard, Short DEF Conversation, Talk, Probing
  <2>3. Empty \notin Acks /\ Empty # One("CHANGE_PKT") BY Short DEF Acks
  <2>4. ~Unresolved' BY <1>0, <2>1, <2>2, <2>3 DEF Unresolved, Taken
  <2> QED BY <1>0, <2>1, <2>4 DEF Timers, TimerQueue, Probing
<1>11. CASE ClientIgnores
  <2>1. client' = client /\ Asked' = Asked /\ \E t : Takes(t) 
    BY <1>1, <1>11 DEF ClientIgnores, Asked
  <2> QED BY <1>0, <1>2, <2>1 DEF Timers, TimerQueue
<1>12. CASE TxScanFinished
  <2>1. CASE client.state # "TX_PROBING"
    <3>1. UNCHANGED client /\ Rest BY <1>12, <2>1 DEF TxScanFinished, Asked, Answered
    <3> QED BY <1>0, <1>2, <3>1 DEF Timers, TimerQueue
  <2>2. CASE client.state = "TX_PROBING" /\ ~client.got
    <3>1. client'.state = "TX_PROBE_WFRX" /\ Rest /\ Same
      BY <1>0, <1>12, <2>2 DEF TxScanFinished, ClientData, Asked, Answered
    <3> QED BY <1>0, <1>2, <2>2, <3>1 DEF Timers, TimerQueue, Probing
  <2>3. CASE client.state = "TX_PROBING" /\ client.got
    <3>1. Asked = Empty /\ Answered = Empty /\ server.state = "RX_IDLE"
      BY <2>3 DEF Handshake, Contents, ListAtHand
    <3>2. PICK best \in BestChannels(client) : ChangeInit(client, best)
      BY <1>12, <2>3 DEF TxScanFinished
    <3>3. UNCHANGED c2s => ~Unresolved'
      BY <1>0, <1>12, <3>1, Short DEF TxScanFinished, Unresolved, Taken, Acks, Asked, Answered
    <3> QED BY <1>0, <2>3, <3>2, <3>3, TimersOfDecision, BestIsChannel DEF Probing
  <2> QED BY <2>1, <2>2, <2>3
<1>13. CASE ProbeWfAckTimeout
  <2>1. /\ Rest /\ Same
        /\ \/ client'.state = client.state
           \/ client.state = "TX_PROBE_WFACK" /\ client'.state = "TX_PROBING"
    BY <1>0, <1>13 DEF ProbeWfAckTimeout, ClientData, Asked, Answered
  <2> QED BY <1>0, <1>2, <2>1 DEF Timers, TimerQueue, Probing
<1>14. CASE ChangeWfAckTimeout
  <2>1. client.timers # Empty /\ Head(client.timers) = "change" /\ Rest
    BY <1>14 DEF ChangeWfAckTimeout, TimerExpires, Empty, Asked, Answered
  <2>2. /\ client'.backoff = client.backoff /\ client'.initBackoff = client.initBackoff
        /\ \/ /\ client.state = "TX_CHANGE_WFACK" /\ client'.state = "TX_VERIFY_WFACK"
              /\ client'.timers = Append(Tail(client.timers), "verify")
           \/ /\ client.state # "TX_CHANGE_WFACK" /\ client'.state = client.state
              /\ client'.timers = Tail(client.timers)
    BY <1>0, <1>14 DEF ChangeWfAckTimeout, ClientData
  <2>3. client.state # "TX_PROBE_INIT"
    BY <1>14 DEF ChangeWfAckTimeout, TimerExpires, Handshake, AskingAddress, Asking, Quiet, Has,
                 ZeroDelayTimer
  <2>4. /\ Tail(Two("change", "backoff")) = One("backoff")
        /\ Tail(Three("change", "backoff", "change")) = Two("backoff", "change")
        /\ Tail(Three("change", "change", "backoff")) = Two("change", "backoff")
        /\ Tail(Three("change", "verify", "backoff")) = Two("verify", "backoff")
        /\ Tail(Three("change", "backoff", "verify")) = Two("backoff", "verify")
        /\ Tail(One("change")) = Empty
    BY Short
  <2>5. CASE client.state = "TX_CHANGE_WFACK"
    <3>1. \A q \in {Three("change", "verify", "backoff"), Three("change", "backoff", "verify")} :
            q \notin Plain \cup {Two("verify", "backoff"), Three("verify", "backoff", "change")}
      <4>1. \A x, y, z : /\ Three(x, y, z) # Empty
                         /\ \A t : Three(x, y, z) # One(t)
                         /\ \A t, u : Three(x, y, z) # Two(t, u)
                         /\ \A t, u, v : Three(x, y, z) = Three(t, u, v) => x = t /\ y = u /\ z = v
        BY DEF Empty, One, Two, Three
      <4>2. /\ Three("change", "verify", "backoff") \notin Plain
            /\ Three("change", "backoff", "verify") \notin Plain
        BY <4>1 DEF Plain
      <4>3. /\ Three("change", "verify", "backoff")
                 \notin {Two("verify", "backoff"), Three("verify", "backoff", "change")}
            /\ Three("change", "backoff", "verify")
                 \notin {Two("verify", "backoff"), Three("verify", "backoff", "change")}
        BY <4>1
      <4> QED BY <4>2, <4>3
    <3>2. /\ Append(One("backoff"), "verify") = Two("backoff", "verify")
          /\ Append(Two("backoff", "change"), "verify") = Three("backoff", "change", "verify")
          /\ Append(Two("change", "backoff"), "verify") = Three("change", "backoff", "verify")
          /\ Append(Empty, "verify") = One("verify")
      BY Short
    <3>3. TimerQueue'
      BY <1>0, <2>1, <2>2, <2>4, <2>5, <3>1, <3>2, Expiring DEF Timers, TimerQueue
    <3> QED BY <1>0, <2>2, <2>5, <3>3 DEF Timers, Probing
  <2>6. CASE client.state # "TX_CHANGE_WFACK"
    <3>1. TimerQueue' BY <1>0, <2>1, <2>2, <2>4, <2>6, Expiring DEF Timers, TimerQueue
    <3>2. client.state \in Probing =>
            /\ client'.timers = One("backoff")
            /\ client'.backoff = BackoffParts
      <4>1. Head(One("backoff")) = "backoff" /\ Head(Two("verify", "backoff")) = "verify"
        BY Short
      <4> QED BY <1>0, <2>1, <2>2, <2>4, <2>6, <4>1 DEF Timers
    <3>3. client.state # "TX_VERIFY_WFACK" /\ Unresolved => client'.timers \in Plain
      <4>1. /\ Head(One("backoff")) = "backoff" /\ Head(Two("backoff", "change")) = "backoff"
            /\ Head(Three("backoff", "change", "change")) = "backoff"
            /\ Head(Three("verify", "backoff", "change")) = "verify"
        BY Short
      <4> QED BY <1>0, <2>1, <2>2, <2>4, <2>6, <4>1 DEF Timers, Plain
    <3> QED BY <1>0, <1>2, <2>1, <2>2, <2>3, <2>6, <3>1, <3>2, <3>3 DEF Timers
  <2> QED BY <2>5, <2>6
<1>15. CASE VerifyWfAckTimeout
  <2>1. client.timers # Empty /\ Head(client.timers) = "verify"
    BY <1>15 DEF VerifyWfAckTimeout, TimerExpires, Empty
  <2>2. /\ client'.backoff = client.backoff /\ client'.initBackoff = client.initBackoff
        /\ client'.state = "TX_CHANGE_WFACK"
        /\ client'.timers = Append(Tail(client.timers), "change")
    BY <1>0, <1>15 DEF VerifyWfAckTimeout, ClientData
  <2>3. /\ Append(Tail(Two("verify", "backoff")), "change") = Two("backoff", "change")
        /\ Append(Tail(Three("verify", "backoff", "change")), "change")
             = Three("backoff", "change", "change")
        /\ Append(Tail(One("verify")), "change") = One("change")
    BY Short
  <2>4. TimerQueue' /\ client'.timers \in Plain
    BY <1>0, <2>1, <2>2, <2>3, Expiring DEF Timers, TimerQueue, Plain
  <2> QED BY <1>0, <2>2, <2>4 DEF Timers, Probing
<1>16. CASE BackoffPartOver
  <2>1. client.timers # Empty /\ Head(client.timers) = "backoff" /\ Rest
    BY <1>16 DEF BackoffPartOver, TimerExpires, Empty, Asked, Answered
  <2>2. /\ client'.backoff = client.backoff - 1 /\ client'.initBackoff = client.initBackoff
        /\ client'.state = client.state /\ client.backoff > 0
        /\ client'.timers = IF client.backoff > 1 THEN Append(Tail(client.timers), "backoff")
                                                  ELSE Tail(client.timers)
    BY <1>0, <1>16 DEF BackoffPartOver, ClientData
  <2>3. client.state # "TX_PROBE_INIT"
    BY <1>16 DEF BackoffPartOver, TimerExpires, Handshake, AskingAddress, Asking, Quiet, Has,
                 ZeroDelayTimer
  <2>4. /\ Tail(One("backoff")) = Empty /\ Tail(Two("backoff", "change")) = One("change")
        /\ Tail(Two("backoff", "verify")) = One("verify")
        /\ Append(Tail(One("backoff")), "backoff") = One("backoff")
        /\ Append(Tail(Two("backoff", "change")), "backoff") = Two("change", "backoff")
        /\ Append(Tail(Two("backoff", "verify")), "backoff") = Two("verify", "backoff")
        /\ Append(Tail(Three("backoff", "change", "verify")), "backoff")
             = Three("change", "verify", "backoff")
        /\ Append(Tail(Three("backoff", "change", "change")), "backoff")
             = Three("change", "change", "backoff")
    BY Short
  <2>5. TimerQueue'
    <3>1. client.backoff \in Nat BY <1>0 DEF ClientData
    <3>2. \/ /\ client.backoff = BackoffParts
             /\ client.timers \in
                  {One("backoff"), Two("backoff", "change"), Two("backoff", "verify"),
                   Three("backoff", "change", "verify"), Three("backoff", "change", "change")}
          \/ /\ client.backoff \in 1 .. BackoffParts - 1
             /\ client.timers \in {One("backoff"), Two("backoff", "change"),
                                   Two("backoff", "verify")}
      BY <1>0, <2>1, <2>2, <3>1, Expiring DEF Timers
    <3>3. CASE client.backoff = BackoffParts
      <4>1. client'.timers = Append(Tail(client.timers), "backoff")
        BY <1>0, <2>2, <3>3
      <4>2. client'.backoff = BackoffParts - 1 BY <2>2, <3>3
      <4>3. client'.timers \in
              {One("backoff"), Two("change", "backoff"), Two("verify", "backoff"),
               Three("change", "change", "backoff"), Three("change", "verify", "backoff")}
        <5>1. ~(client.backoff \in 1 .. BackoffParts - 1) BY <1>0, <3>3
        <5> QED BY <2>4, <3>2, <4>1, <5>1
      <4> QED BY <4>2, <4>3 DEF TimerQueue
    <3>4. CASE client.backoff # BackoffParts /\ client.backoff > 1
      <4>1. client'.backoff \in 1 .. BackoffParts - 2 BY <1>0, <2>2, <3>1, <3>2, <3>4
      <4>2. client'.timers \in {One("backoff"), Two("change", "backoff"), Two("verify", "backoff")}
        BY <2>2, <2>4, <3>2, <3>4
      <4> QED BY <4>1, <4>2 DEF TimerQueue
    <3>5. CASE client.backoff # BackoffParts /\ ~(client.backoff > 1)
      <4>1. client'.backoff = 0 BY <2>2, <3>1, <3>5
      <4>2. client'.timers \in {Empty, One("change"), One("verify")}
        BY <2>2, <2>4, <3>2, <3>5
      <4> QED BY <4>1, <4>2 DEF TimerQueue
    <3> QED BY <3>3, <3>4, <3>5
  <2>6. client.state \in Probing => client'.timers \in {One("backoff"), Empty}
    <3>1. Head(Two("change", "backoff")) = "change" /\ Head(Two("verify", "backoff")) = "verify"
      BY Short
    <3> QED BY <1>0, <2>1, <2>2, <2>4, <3>1 DEF Timers
  <2>7. client.state = "TX_CHANGE_WFACK" \/ (client.state # "TX_VERIFY_WFACK" /\ Unresolved) =>
          client'.timers \in Plain
    <3>1. /\ Head(One("change")) = "change" /\ Head(Two("change", "backoff")) = "change"
          /\ Head(Three("change", "backoff", "change")) = "change"
          /\ Head(Three("change", "change", "backoff")) = "change"
          /\ Head(Two("verify", "backoff")) = "verify"
          /\ Head(Three("verify", "backoff", "change")) = "verify"
      BY Short
    <3>2. client.state = "TX_CHANGE_WFACK" \/ (client.state # "TX_VERIFY_WFACK" /\ Unresolved) =>
            client.timers \in {One("backoff"), Two("backoff", "change"),
                               Three("backoff", "change", "change")}
      BY <1>0, <2>1, <3>1 DEF Timers, Plain
    <3>3. client.timers = Three("backoff", "change", "change") => client.backoff > 1
      <4>1. Three("backoff", "change", "change") \notin
              {One("backoff"), Two("backoff", "change"), Two("backoff", "verify")}
        BY Short
      <4> QED BY <1>0, <2>1, <3>1, <4>1, Expiring DEF Timers
    <3> QED BY <2>2, <2>4, <3>2, <3>3 DEF Plain
  <2> QED BY <1>0, <1>2, <2>1, <2>2, <2>3, <2>5, <2>6, <2>7 DEF Timers
<1>17. CASE ChannelSelectionTimeout
  <2>1. /\ client'.state = client.state /\ Rest /\ client.backoff = 0
        /\ client'.timers = client.timers /\ client'.backoff = client.backoff
    BY <1>0, <1>17 DEF ChannelSelectionTimeout, ClientData, Asked, Answered
  <2> QED BY <1>0, <1>2, <2>1 DEF Timers, TimerQueue
<1> QED 
  BY <1>0, <1>3, <1>4, <1>5, <1>6, <1>7, <1>8, <1>9, <1>10, <1>11, <1>12, <1>13, <1>14, <1>15,
     <1>16, <1>17
  DEF ClientNext, ClientReceives, ClientTimeout

-----------------------------------------------------------------------------
(* The contents.                                                            *)

\* The packets of a stream that loses its first one or gains one.
LEMMA Elements ==
  ASSUME NEW S, NEW q \in Seq(S), NEW p \in S
  PROVE  /\ q # <<>> => \A i \in DOMAIN Tail(q) : \E j \in DOMAIN q : Tail(q)[i] = q[j]
         /\ \A i \in DOMAIN Append(q, p) :
              Append(q, p)[i] = p \/ \E j \in DOMAIN q : Append(q, p)[i] = q[j]
         /\ q # <<>> => 1 \in DOMAIN q /\ Head(q) = q[1]
<1>1. ASSUME q # <<>>, NEW i \in DOMAIN Tail(q)
      PROVE  \E j \in DOMAIN q : Tail(q)[i] = q[j]
  <2>1. i + 1 \in DOMAIN q /\ Tail(q)[i] = q[i + 1] BY <1>1
  <2> QED BY <2>1
<1>2. ASSUME NEW i \in DOMAIN Append(q, p)
      PROVE  Append(q, p)[i] = p \/ \E j \in DOMAIN q : Append(q, p)[i] = q[j]
  <2>1. CASE i = Len(q) + 1 BY <2>1
  <2>2. CASE i # Len(q) + 1
    <3>1. i \in DOMAIN q /\ Append(q, p)[i] = q[i] BY <1>2, <2>2
    <3> QED BY <3>1
  <2> QED BY <2>1, <2>2
<1>3. q # <<>> => 1 \in DOMAIN q /\ Head(q) = q[1] OBVIOUS
<1> QED BY <1>1, <1>2, <1>3

\* The types tell what the packets are.
LEMMA TypesTell ==
  ASSUME NEW S, NEW q \in Seq(S)
  PROVE  /\ TypesOf(q) = Empty => q = <<>>
         /\ \A x : TypesOf(q) = One(x) => \A i \in DOMAIN q : q[i].type = x
<1>1. TypesOf(q) = Empty => q = <<>> BY DEF TypesOf, Empty
<1>2. ASSUME NEW x, TypesOf(q) = One(x), NEW i \in DOMAIN q PROVE q[i].type = x
  <2>1. DOMAIN TypesOf(q) = 1 .. Len(q) /\ DOMAIN One(x) = {1} /\ One(x)[1] = x
    BY DEF TypesOf, One
  <2>2. i \in 1 .. Len(q) /\ TypesOf(q)[i] = q[i].type BY DEF TypesOf
  <2>3. i = 1 BY <1>2, <2>1, <2>2
  <2> QED BY <1>2, <2>1, <2>2, <2>3
<1> QED BY <1>1, <1>2

\* A step that begins no round and chooses no channel.
LEMMA ContentsKept ==
  ASSUME TypeOK, Conversation, Contents, server' = server, c2s' = c2s,
         s2c' = s2c \/ (s2c # <<>> /\ s2c' = Tail(s2c)),
         client'.round = client.round, client'.next = client.next,
         client'.opened = client.opened,
         client'.state = "TX_PROBING" /\ client'.got =>
           client.state = "TX_PROBING" /\ client.got /\ client'.listRound = client.listRound,
         client.state = "TX_IDLE" /\ client.timers = Empty /\ s2c = <<>> =>
           client'.state = client.state /\ client'.timers = client.timers
  PROVE  Contents'
<1>0. s2c \in Seq(ClientPacket) /\ c2s \in Seq(ServerPacket) BY DEF TypeOK, LinkTypeOK
<1>1. /\ Asked' = Asked
      /\ Answered' = Answered \/ (Answered # Empty /\ Answered' = Tail(Answered))
  BY <1>0, TypesOfTail DEF Asked, Answered
<1>2. Answered = Empty => s2c = <<>> /\ Answered' = Empty
  BY <1>0, <1>1, TypesTell DEF Answered
<1>3. AskedContents' BY DEF Contents, AskedContents
<1>4. AnsweredContents'
  <2>1. CASE s2c' = s2c BY <2>1 DEF Contents, AnsweredContents
  <2>2. CASE s2c # <<>> /\ s2c' = Tail(s2c)
    <3>1. \A i \in DOMAIN Tail(s2c) : \E j \in DOMAIN s2c : Tail(s2c)[i] = s2c[j]
      <4>1. Head(s2c) \in ClientPacket BY <1>0, <2>2, HeadTailType
      <4> QED BY <1>0, <2>2, <4>1, Elements
    <3> QED BY <2>2, <3>1 DEF Contents, AnsweredContents
  <2> QED BY <2>1, <2>2
<1>5. ListAtHand' BY <1>1, <1>2 DEF Contents, ListAtHand
<1>6. TakenChannel' BY <1>1, ResolvedStays DEF Contents, TakenChannel
<1>7. BeforeOpening' BY <1>1, <1>2 DEF Contents, BeforeOpening
<1> QED BY <1>3, <1>4, <1>5, <1>6, <1>7 DEF Contents

\* The decision on a channel: it is asked for in the round of the node list.
LEMMA ContentsOfDecision ==
  ASSUME TypeOK, NEW c \in ClientData, NEW best \in Channel, ChangeInit(c, best),
         c.round = client.round, c.listRound = client.round, c.opened = client.opened,
         Asked = Empty, s2c' = <<>>, server.state = "RX_IDLE", server' = server,
         client.opened
  PROVE  Contents'
<1>1. /\ client'.state = "TX_CHANGE_WFACK" /\ client'.next = best
      /\ client'.round = client.round /\ client'.opened
  BY DEF ChangeInit, ClientData
<1>2. c2s = <<>> /\ (s2c \in Seq(ClientPacket) /\ c2s \in Seq(ServerPacket))
  BY TypesTell DEF Asked, TypeOK, LinkTypeOK
<1>3. Answered' = Empty BY TypesOfEmpty DEF Answered
<1>4. AskedContents'
  <2>1. CASE c2s' = c2s BY <1>2, <2>1 DEF AskedContents
  <2>2. CASE c2s' = Append(c2s, Packet("CHANGE_PKT", best, c.listRound))
    <3>1. \A i \in DOMAIN c2s' : c2s'[i] = Packet("CHANGE_PKT", best, c.listRound)
      BY <1>2, <2>2
    <3> QED BY <1>1, <3>1 DEF AskedContents, Packet
  <2> QED BY <2>1, <2>2 DEF ChangeInit, Transmit
<1>5. AnsweredContents' BY DEF AnsweredContents
<1>6. ListAtHand' BY <1>1 DEF ListAtHand
<1>7. TakenChannel'
  <2>1. Empty \notin Acks BY Short DEF Acks
  <2> QED BY <1>3, <2>1 DEF TakenChannel, Taken
<1>8. BeforeOpening' BY <1>1 DEF BeforeOpening
<1> QED BY <1>4, <1>5, <1>6, <1>7, <1>8 DEF Contents

\* A step of the client.
LEMMA ContentsOfClientStep ==
  ASSUME TypeOK, Handshake, ClientStep
  PROVE  Contents'
<1>0. /\ client \in ClientData /\ server' = server /\ ClientNext /\ Conversation /\ Contents
      /\ s2c \in Seq(ClientPacket) /\ c2s \in Seq(ServerPacket)
      /\ client.opened = FALSE => client.state = "TX_IDLE" /\ client.timers = Empty
  BY DEF ClientStep, TypeOK, ClientTypeOK, LinkTypeOK, Handshake, Contents, BeforeOpening
<1> DEFINE Same == /\ client'.round = client.round /\ client'.next = client.next
                   /\ client'.opened = client.opened
           Taking == c2s' = c2s /\ (s2c' = s2c \/ (s2c # <<>> /\ s2c' = Tail(s2c)))
           Lists == client'.state = "TX_PROBING" /\ client'.got =>
                      /\ client.state = "TX_PROBING" /\ client.got
                      /\ client'.listRound = client.listRound
           Stays == client.state = "TX_IDLE" /\ client.timers = Empty /\ s2c = <<>> =>
                        client'.state = client.state /\ client'.timers = client.timers
<1>1. Same /\ Taking /\ Lists /\ Stays => Contents' BY <1>0, ContentsKept
<1>2. CASE ClientOpen
  <2>1. /\ ~client.opened /\ client'.opened /\ client'.state = "TX_PROBE_INIT"
        /\ client'.round = client.round /\ c2s' = c2s /\ s2c' = s2c
    BY <1>0, <1>2 DEF ClientOpen, BackingOff, ClientData
  <2>2. c2s = <<>> /\ s2c = <<>> /\ server.state = "RX_IDLE" /\ Answered = Empty
    BY <1>0, <2>1, TypesTell DEF Contents, BeforeOpening, Asked, Answered
  <2>3. Answered' = Empty /\ Empty \notin Acks BY <2>1, <2>2, Short DEF Answered, Acks
  <2> QED
    BY <1>0, <2>1, <2>2, <2>3
    DEF Contents, AskedContents, AnsweredContents, ListAtHand, TakenChannel, Taken, BeforeOpening
<1>3. CASE InitiateChannelScan
  <2>1. /\ client'.round = client.round /\ client'.next = client.next
        /\ client'.opened /\ client.opened /\ client'.state = "TX_PROBE_INIT"
        /\ c2s' = c2s /\ s2c' = s2c
    BY <1>0, <1>3 DEF InitiateChannelScan, BackingOff, ClientData
  <2>2. Answered' = Answered BY <2>1 DEF Answered
  <2> QED
    BY <1>0, <2>1, <2>2
    DEF Contents, AskedContents, AnsweredContents, ListAtHand, TakenChannel, Taken, BeforeOpening
<1>4. CASE ClientMACAddress
  <2>1. /\ client.state = "TX_PROBE_INIT" /\ client'.state \in {"TX_IDLE", "TX_PROBE_WFACK"}
        /\ Answered' = Answered
    BY <1>4, AddressAsks DEF Handshake
  <2>2. /\ client'.next = client.next /\ client'.opened = client.opened /\ s2c' = s2c
        /\ \/ client'.round = client.round /\ c2s' = c2s
           \/ /\ client'.round = client.round + 1
              /\ \/ c2s' = c2s
                 \/ c2s' = Append(c2s, Packet("PROBE_PKT", 0, client.round + 1))
    BY <1>0, <1>4 DEF ClientMACAddress, ClientData, Transmit
  <2>3. /\ Asked = Empty /\ server.state \in {"RX_IDLE", "RX_CHANGE_ACK"}
        /\ Answered \in {Empty, One("VERIFY_ACK")}
    BY <1>0, <2>1 DEF Conversation, Talk, Probing, Waiting
  <2>4. c2s = <<>> BY <1>0, <2>3, TypesTell DEF Asked
  <2>5. AskedContents'
    <3>1. CASE c2s' = c2s BY <2>4, <3>1 DEF AskedContents
    <3>2. CASE /\ c2s' = Append(c2s, Packet("PROBE_PKT", 0, client.round + 1))
               /\ client'.round = client.round + 1
      <4>1. \A i \in DOMAIN c2s' : c2s'[i] = Packet("PROBE_PKT", 0, client.round + 1)
        BY <2>4, <3>2
      <4> QED BY <3>2, <4>1 DEF AskedContents, Packet
    <3> QED BY <2>2, <3>1, <3>2
  <2>6. AnsweredContents'
    <3>1. \A i \in DOMAIN s2c : s2c[i].type = "VERIFY_ACK"
      BY <1>0, <2>3, TypesTell DEF Answered
    <3> QED BY <1>0, <2>2, <2>3, <3>1 DEF AnsweredContents
  <2> QED
    BY <1>0, <2>1, <2>2, <2>5, <2>6
    DEF Contents, ListAtHand, TakenChannel, Taken, BeforeOpening
<1>5. CASE ClientClose
  <2>1. Same /\ Taking /\ Lists /\ Stays BY <1>0, <1>5 DEF ClientClose, ClientData
  <2> QED BY <1>1, <2>1
<1>6. CASE ProbeAckReceived
  <2>1. Same /\ Taking /\ Lists /\ Stays
    BY <1>0, <1>6 DEF ProbeAckReceived, ToClient, ClientData
  <2> QED BY <1>1, <2>1
<1>7. CASE NodeListWhileProbing
  <2>1. /\ Same /\ c2s' = c2s /\ s2c # <<>> /\ s2c' = Tail(s2c)
        /\ client'.state = "TX_PROBING" /\ client.state = "TX_PROBING"
        /\ client'.listRound = Head(s2c).round /\ Head(s2c).type = "NODE_LIST"
    BY <1>0, <1>7 DEF NodeListWhileProbing, ToClient, ClientData
  <2>2. Answered # Empty /\ Head(Answered) = "NODE_LIST" /\ Answered' = Tail(Answered)
    BY <1>7, <2>1, Streams DEF NodeListWhileProbing, Answered
  <2>3. Asked' = Empty /\ Answered' = Empty /\ server.state = "RX_IDLE"
    BY <1>0, <2>1, <2>2, Heard, Short DEF Conversation, Talk, Asked
  <2>4. s2c' = <<>>
    <3>1. s2c' \in Seq(ClientPacket) BY <1>0, <2>1, HeadTailType
    <3> QED BY <2>3, <3>1, TypesTell DEF Answered
  <2>5. Head(s2c).round = client.round
    <3>1. 1 \in DOMAIN s2c /\ Head(s2c) = s2c[1] BY <1>0, <2>1
    <3> QED BY <1>0, <2>1, <3>1 DEF Contents, AnsweredContents
  <2>6. Empty \notin Acks BY Short DEF Acks
  <2> QED
    BY <1>0, <2>1, <2>3, <2>4, <2>5, <2>6
    DEF Contents, AskedContents, AnsweredContents, ListAtHand, TakenChannel, Taken, BeforeOpening
<1>8. CASE NodeListAfterProbing
  <2>1. /\ client.state = "TX_PROBE_WFRX" /\ s2c # <<>> /\ s2c' = Tail(s2c)
        /\ Head(s2c).type = "NODE_LIST"
    BY <1>8 DEF NodeListAfterProbing, ToClient
  <2>2. Answered # Empty /\ Head(Answered) = "NODE_LIST" /\ Answered' = Tail(Answered)
    BY <1>8, <2>1, Streams DEF NodeListAfterProbing, Answered
  <2>3. Asked = Empty /\ Answered' = Empty /\ server.state = "RX_IDLE"
    BY <1>0, <2>1, <2>2, Heard, Short DEF Conversation, Talk
  <2>4. s2c' = <<>>
    <3>1. s2c' \in Seq(ClientPacket) BY <1>0, <2>1, HeadTailType
    <3> QED BY <2>3, <3>1, TypesTell DEF Answered
  <2>5. Head(s2c).round = client.round
    <3>1. 1 \in DOMAIN s2c /\ Head(s2c) = s2c[1] BY <1>0, <2>1
    <3> QED BY <1>0, <2>1, <3>1 DEF Contents, AnsweredContents
  <2> DEFINE c == [client EXCEPT !.got = TRUE, !.listRound = Head(s2c).round]
  <2>6. PICK best \in BestChannels(client) : ChangeInit(c, best)
    BY <1>8 DEF NodeListAfterProbing
  <2>7. /\ c \in ClientData /\ c.round = client.round /\ c.listRound = client.round
        /\ c.opened = client.opened
    BY <1>0, <2>1, <2>5, LinkFacts DEF TypeOK, ClientData
  <2>8. best \in Channel BY <1>0, BestIsChannel
  <2>9. client.opened BY <1>0, <2>1 DEF ClientData
  <2> HIDE DEF c
  <2> QED BY <1>0, <2>3, <2>4, <2>6, <2>7, <2>8, <2>9, ContentsOfDecision
<1>9. CASE ChangeAckReceived
  <2>1. Same /\ Taking /\ Lists /\ Stays
    BY <1>0, <1>9 DEF ChangeAckReceived, ToClient, ClientData
  <2> QED BY <1>1, <2>1
<1>10. CASE VerifyAckReceived
  <2>1. Same /\ Taking /\ Lists /\ Stays
    BY <1>0, <1>10 DEF VerifyAckReceived, ToClient, ClientData
  <2> QED BY <1>1, <2>1
<1>11. CASE ClientIgnores
  <2>1. Same /\ Taking /\ Lists /\ Stays
    BY <1>0, <1>11 DEF ClientIgnores, ToClient
  <2> QED BY <1>1, <2>1
<1>12. CASE TxScanFinished
  <2>1. CASE client.state # "TX_PROBING"
    <3>1. Same /\ Taking /\ Lists /\ Stays BY <1>12, <2>1 DEF TxScanFinished
    <3> QED BY <1>1, <3>1
  <2>2. CASE client.state = "TX_PROBING" /\ ~client.got
    <3>1. Same /\ Taking /\ Lists /\ Stays
      BY <1>0, <1>12, <2>2 DEF TxScanFinished, ClientData
    <3> QED BY <1>1, <3>1
  <2>3. CASE client.state = "TX_PROBING" /\ client.got
    <3>1. /\ Asked = Empty /\ Answered = Empty /\ server.state = "RX_IDLE"
          /\ client.listRound = client.round
      BY <1>0, <2>3 DEF Contents, ListAtHand
    <3>2. s2c' = <<>> BY <1>0, <1>12, <3>1, TypesTell DEF TxScanFinished, Answered
    <3>3. PICK best \in BestChannels(client) : ChangeInit(client, best)
      BY <1>12, <2>3 DEF TxScanFinished
    <3>4. best \in Channel BY <1>0, BestIsChannel
    <3>5. client.opened BY <1>0, <2>3 DEF ClientData
    <3> QED BY <1>0, <3>1, <3>2, <3>3, <3>4, <3>5, ContentsOfDecision
  <2> QED BY <2>1, <2>2, <2>3
<1>13. CASE ProbeWfAckTimeout
  <2>1. Same /\ Taking /\ Lists /\ Stays
    BY <1>0, <1>13 DEF ProbeWfAckTimeout, ClientData
  <2> QED BY <1>1, <2>1
<1>14. CASE ChangeWfAckTimeout
  <2>1. Same /\ Taking /\ Lists /\ Stays
    BY <1>0, <1>14 DEF ChangeWfAckTimeout, TimerExpires, ClientData, Empty
  <2> QED BY <1>1, <2>1
<1>15. CASE VerifyWfAckTimeout
  <2>1. Same /\ Taking /\ Lists /\ Stays
    BY <1>0, <1>15 DEF VerifyWfAckTimeout, TimerExpires, ClientData, Empty
  <2> QED BY <1>1, <2>1
<1>16. CASE BackoffPartOver
  <2>1. Same /\ Taking /\ Lists /\ Stays
    BY <1>0, <1>16 DEF BackoffPartOver, TimerExpires, ClientData, Empty
  <2> QED BY <1>1, <2>1
<1>17. CASE ChannelSelectionTimeout
  <2>1. Same /\ Taking /\ Lists /\ Stays
    BY <1>0, <1>17 DEF ChannelSelectionTimeout, ClientData
  <2> QED BY <1>1, <2>1
<1> QED
  BY <1>0, <1>2, <1>3, <1>4, <1>5, <1>6, <1>7, <1>8, <1>9, <1>10, <1>11, <1>12, <1>13, <1>14,
     <1>15, <1>16, <1>17
  DEF ClientNext, ClientReceives, ClientTimeout

\* A step of the server.
LEMMA ContentsOfServerStep ==
  ASSUME TypeOK, ServerPhases, Conversation, Contents, ServerStep
  PROVE  Contents'
<1>0. /\ client' = client /\ s2c \in Seq(ClientPacket) /\ c2s \in Seq(ServerPacket)
      /\ server \in ServerData
  BY DEF ServerStep, TypeOK, LinkTypeOK, ServerTypeOK
<1>1. c2s' = c2s \/ (c2s # <<>> /\ c2s' = Tail(c2s)) => AskedContents'
  <2>1. c2s # <<>> => \A i \in DOMAIN Tail(c2s) : \E j \in DOMAIN c2s : Tail(c2s)[i] = c2s[j]
    <3>1. c2s # <<>> => Head(c2s) \in ServerPacket BY <1>0, HeadTailType
    <3> QED BY <1>0, <3>1, Elements
  <2> QED BY <1>0, <2>1 DEF Contents, AskedContents
<1>2. c2s # <<>> =>
        /\ Head(c2s).round = client.round
        /\ Head(c2s).type = "CHANGE_PKT" => Head(c2s).channel = client.next
        /\ Head(c2s).round \in Nat
  <2>1. c2s # <<>> => 1 \in DOMAIN c2s /\ Head(c2s) = c2s[1] BY <1>0
  <2> QED BY <2>1, LinkFacts DEF Contents, AskedContents, TypeOK
<1>3. ASSUME NEW p \in ClientPacket, s2c' \in {s2c, Append(s2c, p)},
             p.type \in {"CHANGE_ACK", "NODE_LIST"} => p.round = client.round,
             server'.state = "RX_PROBE_ACK" => server'.round = client.round
      PROVE  AnsweredContents'
  <2>1. \A i \in DOMAIN Append(s2c, p) :
          Append(s2c, p)[i] = p \/ \E j \in DOMAIN s2c : Append(s2c, p)[i] = s2c[j]
    BY <1>0, Elements
  <2>2. \A i \in DOMAIN s2c' : s2c'[i] = p \/ \E j \in DOMAIN s2c : s2c'[i] = s2c[j]
    BY <1>3, <2>1
  <2> QED BY <1>0, <1>3, <2>2 DEF Contents, AnsweredContents
<1>4. /\ \A t \in {"PROBE_ACK", "CHANGE_ACK", "VERIFY_ACK", "NODE_LIST"}, r \in Nat :
           /\ Packet(t, 0, r) \in ClientPacket
           /\ Packet(t, 0, r).type = t /\ Packet(t, 0, r).round = r
      /\ server.round \in Nat
  BY <1>0, ChannelFacts, PacketType DEF Packet, ServerData
<1>5. Asked # Empty \/ server.state # "RX_IDLE" => client.opened /\ (ListAtHand' /\ BeforeOpening')
  BY <1>0 DEF Contents, ListAtHand, BeforeOpening
<1>6. CASE /\ server'.state = server.state /\ server'.next = server.next
           /\ server'.round = server.round /\ c2s' = c2s /\ s2c' = s2c
  <2>1. Asked' = Asked /\ Answered' = Answered BY <1>6 DEF Asked, Answered
  <2>2. AnsweredContents' BY <1>0, <1>6 DEF Contents, AnsweredContents
  <2> QED
    BY <1>0, <1>1, <1>6, <2>1, <2>2
    DEF Contents, ListAtHand, TakenChannel, Taken, BeforeOpening
<1>7. CASE /\ server.state = "RX_IDLE" /\ server'.state = "RX_PROBE_ACK"
           /\ server'.next = server.next
           /\ Asked = One("PROBE_PKT") /\ Asked' = Empty /\ c2s # <<>> /\ c2s' = Tail(c2s)
           /\ server'.round = Head(c2s).round
           /\ s2c' = Append(s2c, Packet("PROBE_ACK", 0, Head(c2s).round))
  <2>1. AnsweredContents' BY <1>2, <1>3, <1>4, <1>7
  <2>2. Asked # Empty BY <1>7, Short
  <2>3. TakenChannel'
    BY <1>0, <1>7, ConversationOfServerStep DEF Contents, TakenChannel
  <2> QED BY <1>1, <1>5, <1>7, <2>1, <2>2, <2>3 DEF Contents
<1>8. CASE /\ server.state = "RX_IDLE" /\ server'.state = "RX_CHANGE_ACK"
           /\ server'.next = Head(c2s).channel
           /\ Asked = One("CHANGE_PKT") /\ Asked' = Empty /\ c2s # <<>> /\ c2s' = Tail(c2s)
           /\ Head(c2s).type = "CHANGE_PKT"
           /\ s2c' = Append(s2c, Packet("CHANGE_ACK", 0, Head(c2s).round))
  <2>1. AnsweredContents'
    <3>1. /\ Packet("CHANGE_ACK", 0, Head(c2s).round) \in ClientPacket
          /\ Packet("CHANGE_ACK", 0, Head(c2s).round).round = client.round
      BY <1>2, <1>4, <1>8
    <3> QED BY <1>3, <1>8, <3>1
  <2>2. Asked # Empty BY <1>8, Short
  <2>3. TakenChannel' BY <1>0, <1>2, <1>8 DEF TakenChannel
  <2> QED BY <1>1, <1>5, <1>8, <2>1, <2>2, <2>3 DEF Contents
<1>9. CASE /\ server.state # "RX_IDLE" /\ server' = server /\ s2c' = s2c
           /\ c2s # <<>> /\ c2s' = Tail(c2s)
  <2>1. Answered' = Answered BY <1>9 DEF Answered
  <2>2. AnsweredContents' BY <1>0, <1>9 DEF Contents, AnsweredContents
  <2>3. TakenChannel' BY <1>0, <1>9, <2>1 DEF Contents, TakenChannel, Taken
  <2> QED BY <1>1, <1>5, <1>9, <2>2, <2>3 DEF Contents
<1>10. CASE /\ server.state = "RX_CHANGE_ACK" /\ server'.state = "RX_IDLE"
            /\ server'.next = server.next /\ c2s' = c2s
            /\ s2c' \in {s2c, Append(s2c, Packet("VERIFY_ACK", 0, server.round))}
  <2>1. AnsweredContents' BY <1>3, <1>4, <1>10
  <2>2. TakenChannel' BY <1>0, <1>10 DEF Contents, TakenChannel, Taken
  <2> QED BY <1>1, <1>5, <1>10, <2>1, <2>2 DEF Contents
<1>11. CASE /\ server.state = "RX_PROBE_ACK" /\ server'.state = "RX_IDLE"
            /\ server'.next = server.next /\ c2s' = c2s
            /\ s2c' \in {s2c, Append(s2c, Packet("NODE_LIST", 0, server.round))}
  <2>1. server.round = client.round BY <1>11 DEF Contents, AnsweredContents
  <2>2. AnsweredContents' BY <1>3, <1>4, <1>11, <2>1
  <2>3. TakenChannel'
    BY <1>0, <1>11, ConversationOfServerStep DEF Contents, TakenChannel
  <2> QED BY <1>1, <1>5, <1>11, <2>2, <2>3 DEF Contents
<1> QED BY <1>6, <1>7, <1>8, <1>9, <1>10, <1>11, ServerMoves

-----------------------------------------------------------------------------
(* The theorems.                                                            *)

\* The handshake is an invariant.
LEMMA HandshakeHolds ==
  ASSUME BackoffParts >= 2
  PROVE  Spec => []Handshake
<1>1. Init => Handshake
  <2> SUFFICES ASSUME Init PROVE Handshake OBVIOUS
  <2>1. /\ Asked = Empty /\ Answered = Empty /\ server.state = "RX_IDLE"
        /\ client.state = "TX_IDLE" /\ client.timers = Empty /\ client.backoff = 0
        /\ client.opened = FALSE /\ c2s = <<>> /\ s2c = <<>>
    BY TypesOfEmpty DEF Init, LinkInit, ClientInit, ServerInit, Asked, Answered, Empty
  <2>2. Conversation BY <2>1 DEF Conversation, Talk, ClientState
  <2>3. Empty \notin Acks BY Short DEF Acks
  <2>4. Contents
    BY <2>1, <2>3
    DEF Contents, AskedContents, AnsweredContents, ListAtHand, TakenChannel, Taken, BeforeOpening
  <2>5. Timers BY <2>1 DEF Timers, TimerQueue, Plain, Probing
  <2>6. AskingAddress
    BY <2>1, ChannelFacts DEF Init, MacInit, AskingAddress, Has, NoMsg, Msg
  <2> QED BY <2>2, <2>4, <2>5, <2>6 DEF Handshake
<1>2. TypeOK /\ ServerPhases /\ Handshake /\ [Next]_vars => Handshake'
  <2> SUFFICES ASSUME TypeOK, ServerPhases, Handshake, [Next]_vars PROVE Handshake'
    OBVIOUS
  <2>1. CASE ClientStep
    BY <2>1, ConversationOfClientStep, ContentsOfClientStep, TimersOfClientStep,
       AskingOfClientStep
    DEF Handshake
  <2>2. CASE ServerStep
    <3>1. AskingAddress'
      BY <2>2, ServerLeavesClientNode DEF Handshake, AskingAddress, Asking, Has
    <3> QED
      BY <2>2, <3>1, ConversationOfServerStep, ContentsOfServerStep, TimersOfServerStep
      DEF Handshake
  <2>3. CASE \E n \in Node : MacStep(n)
    <3>1. PICK n \in Node : MacStep(n) BY <2>3
    <3>2. UNCHANGED <<c2s, s2c, client, server>> BY <3>1 DEF MacStep
    <3>3. Conversation' /\ Contents' /\ Timers'
      BY <3>2
      DEF Handshake, Conversation, Talk, Contents, AskedContents, AnsweredContents, ListAtHand,
          TakenChannel, BeforeOpening, Timers, TimerQueue, Unresolved, Taken, Asked, Answered
    <3>4. AskingAddress'
      <4>1. CASE n = Tx BY <3>1, <4>1, AskingOfMacStep DEF Handshake
      <4>2. CASE n = Rx
        BY <3>1, <4>2, ServerLeavesClientNode DEF Handshake, AskingAddress, Asking, Has
      <4> QED BY <4>1, <4>2, ChannelFacts
    <3> QED BY <3>3, <3>4 DEF Handshake
  <2>4. CASE UNCHANGED vars
    BY <2>4
    DEF vars, Handshake, Conversation, Talk, Contents, AskedContents, AnsweredContents,
        ListAtHand, TakenChannel, BeforeOpening, Timers, TimerQueue, Unresolved, Taken, Asked,
        Answered, AskingAddress, Asking, Has
  <2> QED BY <2>1, <2>2, <2>3, <2>4 DEF Next
<1> QED BY <1>1, <1>2, TypeCorrect, ServerPhasesHold, PTL DEF Spec

\* The packets carry no round number, and none of an earlier round is in flight.
THEOREM RoundsDoNotMix ==
  ASSUME BackoffParts >= 2
  PROVE  Spec => []CurrentRound
<1>1. Handshake => CurrentRound
  BY DEF Handshake, Contents, AskedContents, AnsweredContents, CurrentRound
<1> QED BY <1>1, HandshakeHolds, PTL

\* No probe and no answer to one is in flight when the client is idle: the case of
\* TX_IDLE that runs into that of TX_PROBE_WFACK is never reached with a probe
\* acknowledgement.
THEOREM NoReplyIsStray ==
  ASSUME BackoffParts >= 2
  PROVE  Spec => []NoStrayReply
<1>1. TypeOK /\ Handshake => NoStrayReply
  <2> SUFFICES ASSUME TypeOK, Handshake, client.state = "TX_IDLE"
               PROVE  /\ \A i \in DOMAIN c2s : c2s[i].type # "PROBE_PKT"
                      /\ \A i \in DOMAIN s2c : s2c[i].type \notin {"PROBE_ACK", "NODE_LIST"}
    BY DEF NoStrayReply
  <2>1. c2s \in Seq(ServerPacket) /\ s2c \in Seq(ClientPacket) BY DEF TypeOK, LinkTypeOK
  <2>2. Asked = Empty /\ Answered \in {Empty, One("VERIFY_ACK")}
    BY DEF Handshake, Conversation, Talk, Probing, Waiting
  <2> QED BY <2>1, <2>2, TypesTell DEF Asked, Answered
<1> QED BY <1>1, HandshakeHolds, TypeCorrect, PTL

\* An acknowledgement, whichever it is and whenever it arrives, is that of the change
\* the client has in hand.
THEOREM AckAgrees ==
  ASSUME BackoffParts >= 2
  PROVE  Spec => AckMeansAgreed
<1>1. TypeOK /\ Handshake /\ [Next]_vars =>
        [client.state \in {"TX_CHANGE_WFACK", "TX_VERIFY_WFACK"} /\ client'.state = "TX_IDLE"
           => server.next = client'.cur]_vars
  <2> SUFFICES ASSUME TypeOK, Handshake, Next,
                      client.state \in {"TX_CHANGE_WFACK", "TX_VERIFY_WFACK"},
                      client'.state = "TX_IDLE"
               PROVE  server.next = client'.cur
    BY DEF vars
  <2>1. client \in ClientData /\ TakenChannel /\ Conversation /\ AskingAddress
    BY DEF TypeOK, ClientTypeOK, Handshake, Contents
  <2>2. ClientNext
    BY DEF Next, ClientStep, ServerStep, MacStep
  <2>3. ASSUME NEW t \in {"CHANGE_ACK", "VERIFY_ACK"}, ToClient(t) PROVE Taken
    <3>1. Answered # Empty /\ Head(Answered) = t BY <2>3, Streams
    <3> QED BY <2>1, <3>1, Heard DEF Taken, Acks
  <2>4. CASE ChangeAckReceived \/ VerifyAckReceived
    <3>1. Taken BY <2>3, <2>4 DEF ChangeAckReceived, VerifyAckReceived
    <3>2. client'.cur = client.next
      BY <2>1, <2>4 DEF ChangeAckReceived, VerifyAckReceived, ClientData
    <3> QED BY <2>1, <3>1, <3>2 DEF TakenChannel
  <2>5. ~ClientMACAddress BY <2>1 DEF ClientMACAddress, AskingAddress, Has
  <2>6. CASE TxScanFinished
    <3>1. UNCHANGED client BY <2>6 DEF TxScanFinished
    <3> QED BY <3>1
  <2>7. ~NodeListAfterProbing BY DEF NodeListAfterProbing
  <2>8. CASE ClientOpen \/ InitiateChannelScan \/ ClientClose \/ ClientTimeout
    BY <2>1, <2>8
    DEF ClientOpen, InitiateChannelScan, BackingOff, ClientClose, ClientTimeout,
        ProbeWfAckTimeout, ChangeWfAckTimeout, VerifyWfAckTimeout, BackoffPartOver,
        ChannelSelectionTimeout, ClientData
  <2>9. CASE ProbeAckReceived \/ NodeListWhileProbing \/ ClientIgnores
    BY <2>1, <2>9 DEF ProbeAckReceived, NodeListWhileProbing, ClientIgnores, ClientData
  <2> QED BY <2>2, <2>4, <2>5, <2>6, <2>7, <2>8, <2>9 DEF ClientNext, ClientReceives
<1> QED BY <1>1, HandshakeHolds, TypeCorrect, PTL DEF Spec, AckMeansAgreed

-----------------------------------------------------------------------------
(* What matters most: a client that has finished a round is on its server's   *)
(* channel.  To what is known of the handshake the invariant adds where the   *)
(* two radios are and where they are about to go.  From the same invariant,   *)
(* what the scans of the first round cover.                                   *)

TxIs(messages, timers, probeReqs) ==
  /\ pending[Tx].type \in messages /\ mac[Tx].timer \in timers
  /\ mac[Tx].probeReqs = probeReqs

\* At the client's node nothing is under way but a change of channel,
Resting ==
  \/ TxIs({"none"}, {"none", "ChangeChannelRequest"}, 0)
  \/ TxIs({"ChangeChannelRequest"}, {"none"}, 0)

\* but the request for the address,
AddressAsked ==
  \/ TxIs({"MACAddressRequest", "MACAddressReply"}, {"none"}, 0)
  \/ TxIs({"none"}, {"MACAddressRequest"}, 0)

\* but a scan.
Scanning ==
  \/ TxIs({"ChanswitchRequest", "ScanFinished"}, {"none"}, 0)
  \/ TxIs({"none"}, {"ChanswitchRequest", "ActiveScan"}, 0)
  \/ TxIs({"none"}, {"none"}, 1)

\* What is under way in each state.  A verify timer that takes a client out of its
\* scan leaves the scan behind, but not while the server has a change to answer.
ClientNode ==
  /\ client.state \in {"TX_IDLE", "TX_PROBE_WFACK", "TX_PROBE_WFRX"} => Resting
  /\ client.state \in Waiting /\ Unresolved => Resting
  /\ client.state = "TX_PROBE_INIT" => AddressAsked
  /\ client.state = "TX_PROBING" => Scanning

\* The channel the client's radio is on, or is about to go to.
TxChannel ==
  IF Has(Tx, "ChangeChannelRequest") THEN pending[Tx].new
  ELSE IF mac[Tx].timer = "ChangeChannelRequest" THEN mac[Tx].newChannel
  ELSE phy[Tx].tx

\* The server's radio is away on a scan, or about to be.
RxAway == \/ Has(Rx, "ChanswitchRequest") \/ mac[Rx].timer = "ChanswitchRequest"
          \/ mac[Rx].scanStarted \/ Has(Rx, "ScanFinished")

\* The channel the server's radio is on, or goes to when its delay or scan is over.
RxChannel ==
  IF Has(Rx, "ChangeChannelRequest") \/ Has(Rx, "MACAddressReply") THEN pending[Rx].new
  ELSE IF RxAway THEN server.cur
  ELSE IF server.state = "RX_CHANGE_ACK" THEN server.next
  ELSE phy[Rx].tx

\* The two meet when the client is idle, and are to meet on the channel of a change
\* the server has taken.
Meeting ==
  /\ client.state \in {"TX_IDLE", "TX_PROBE_INIT"} =>
       /\ TxChannel = RxChannel
       /\ client.round > 0 => client.cur = TxChannel
       /\ Has(Tx, "MACAddressReply") => pending[Tx].new = TxChannel
  /\ client.state = "TX_VERIFY_WFACK" /\ Unresolved => TxChannel = client.next
  /\ Taken => RxChannel = client.next
  /\ ~client.opened => client.round = 0

RxListens == phy[Rx].tx \in phy[Rx].listening

-----------------------------------------------------------------------------
(* A step of one node does not move the radio of the other.                 *)

\* The client's radio.
LEMMA TxChannelKept ==
  ASSUME TypeOK, ServerStep \/ MacStep(Rx)
  PROVE  /\ TxChannel' = TxChannel /\ client' = client
         /\ Has(Tx, "MACAddressReply")' = Has(Tx, "MACAddressReply")
         /\ pending'[Tx] = pending[Tx]
         /\ Resting' = Resting /\ AddressAsked' = AddressAsked /\ Scanning' = Scanning
BY ServerLeavesClientNode DEF TxChannel, Has, Resting, AddressAsked, Scanning, TxIs

\* The server's radio.
LEMMA RxChannelKept ==
  ASSUME TypeOK, ClientStep \/ MacStep(Tx)
  PROVE  RxChannel' = RxChannel /\ RxListens' = RxListens /\ server' = server
<1>1. pending'[Rx] = pending[Rx] /\ mac'[Rx] = mac[Rx] /\ server' = server
  BY ClientLeavesServerNode
<1>2. phy'[Rx] = phy[Rx]
  <2>1. CASE ClientStep BY <2>1 DEF ClientStep
  <2>2. CASE MacStep(Tx)
    BY <2>2, ChannelFacts
    DEF MacStep, MacNext, FromAppChanswitchRequest, FromAppChangeChannelRequest,
        FromAppMACAddressRequest, StartScan, ChangeChannelTimer, MACAddressTimer,
        ProbeRequestTransmitted, ScanNextChannel, ScanCompleted, TypeOK, MacTypeOK
  <2> QED BY <2>1, <2>2
<1> QED BY <1>1, <1>2 DEF RxChannel, RxAway, RxListens, Has

-----------------------------------------------------------------------------
(* The server's node.                                                       *)

\* A step of the server that takes no change leaves the channel the radio is on or
\* goes to, whether it follows the client or comes back from a scan.
LEMMA RxChannelOfServerStep ==
  ASSUME TypeOK, ServerPhases, ServerStep
  PROVE  /\ RxListens' = RxListens
         /\ \/ RxChannel' = RxChannel /\ ~ChangePktReceived
            \/ ChangePktReceived /\ RxChannel' = server'.next
<1>0. /\ mac' = mac /\ phy' = phy /\ pending \in [Node -> Message] /\ Rx \in Node
      /\ server \in ServerData /\ ServerNext
  BY ChannelFacts DEF ServerStep, TypeOK, MacTypeOK, ServerTypeOK
<1>1. \A m : Tell(m) => pending'[Rx] = m BY <1>0 DEF Tell
<1>2. /\ \A old, new : /\ ChangeChannels("RX_SERVER", old, new).type = "ChangeChannelRequest"
                       /\ ChangeChannels("RX_SERVER", old, new).new = new
      /\ StartProbing("RX_SERVER").type = "ChanswitchRequest"
      /\ \A initial : GetMyMacAddr("RX_SERVER", initial).type = "MACAddressRequest"
  BY DEF ChangeChannels, StartProbing, GetMyMacAddr, Msg
<1>3. RxListens' = RxListens BY <1>0 DEF RxListens
<1> USE DEF RxChannel, RxAway, Has
<1>4. CASE ServerOpen \/ ServerClose \/ PacketDropped
  <2>1. /\ pending' = pending /\ server'.state = server.state /\ server'.cur = server.cur
        /\ server'.next = server.next /\ ~ChangePktReceived
    BY <1>0, <1>4
    DEF ServerOpen, ServerClose, PacketDropped, ChangePktReceived, ServerData, Serving
  <2> QED BY <1>0, <1>3, <2>1
<1>5. CASE ProbePktReceived
  <2>1. /\ pending' = pending /\ server.state = "RX_IDLE" /\ server'.state = "RX_PROBE_ACK"
        /\ server'.cur = server.cur /\ ~ChangePktReceived
    BY <1>0, <1>5 DEF ProbePktReceived, ChangePktReceived, ToServer, ServerData
  <2> QED BY <1>0, <1>3, <2>1
<1>6. CASE ChangePktReceived
  <2>1. /\ pending' = pending /\ server.state = "RX_IDLE" /\ server'.state = "RX_CHANGE_ACK"
        /\ pending[Rx].type = "none"
    BY <1>0, <1>6 DEF ChangePktReceived, ToServer, Quiet, ServerData
  <2>2. ~RxAway BY <2>1 DEF ServerPhases, RxIs
  <2> QED BY <1>0, <1>3, <1>6, <2>1, <2>2
<1>7. CASE RxProbeAckDelay
  <2>1. /\ server'.state = server.state /\ server'.cur = server.cur
        /\ pending'[Rx].type = "MACAddressRequest" /\ pending[Rx].type = "none"
        /\ server.state = "RX_PROBE_ACK" /\ server'.next = server.next
    BY <1>0, <1>1, <1>2, <1>7, SingletonQueue
    DEF RxProbeAckDelay, DelayExpires, Quiet, ServerData, ServerPhases, RxIs
  <2>2. ~ChangePktReceived BY <2>1 DEF ChangePktReceived
  <2> QED BY <1>0, <1>3, <2>1, <2>2
<1>8. CASE RxChangeAckDelay
  <2>1. /\ server.state = "RX_CHANGE_ACK" /\ ~RxAway /\ pending[Rx].type = "none"
    BY <1>8, SingletonQueue DEF RxChangeAckDelay, DelayExpires, Quiet, ServerPhases, RxIs
  <2>2. /\ pending'[Rx].type = "ChangeChannelRequest" /\ pending'[Rx].new = server.next
        /\ ~ChangePktReceived
    BY <1>1, <1>2, <1>8, <2>1 DEF RxChangeAckDelay, ChangePktReceived
  <2> QED BY <1>3, <2>1, <2>2
<1>9. CASE ServerMACAddress
  <2>1. /\ pending[Rx].type = "MACAddressReply" /\ pending'[Rx].type = "ChanswitchRequest"
        /\ server'.cur = pending[Rx].new /\ ~ChangePktReceived
    BY <1>0, <1>1, <1>2, <1>9
    DEF ServerMACAddress, ChangePktReceived, ToServer, Quiet, ServerData
  <2> QED BY <1>3, <2>1
<1>10. CASE RxScanFinished
  <2>1. /\ pending[Rx].type = "ScanFinished" /\ pending'[Rx].type = "ChangeChannelRequest"
        /\ pending'[Rx].new = server.cur /\ ~ChangePktReceived
    BY <1>0, <1>1, <1>2, <1>10 DEF RxScanFinished, ChangePktReceived, ToServer, Quiet
  <2> QED BY <1>3, <2>1
<1> QED
  BY <1>0, <1>4, <1>5, <1>6, <1>7, <1>8, <1>9, <1>10
  DEF ServerNext, ServerReceives, ServerTimeout

\* Its MAC takes the radio there.
LEMMA RxChannelOfMacStep ==
  ASSUME TypeOK, ServerPhases, RxListens, MacStep(Rx)
  PROVE  RxChannel' = RxChannel /\ RxListens'
<1>0. /\ server' = server /\ Rx \in Node /\ phy \in [Node -> PhyData]
      /\ pending \in [Node -> Message] /\ mac \in [Node -> MacData]
      /\ mac[Rx] \in MacData /\ phy[Rx] \in PhyData
  BY ChannelFacts DEF MacStep, TypeOK, MacTypeOK
<1>1. \A c : Retuned(Rx, c).tx \in Retuned(Rx, c).listening
  BY <1>0 DEF Retuned, RxListens
<1> USE DEF RxChannel, RxAway, Has, RxListens
<1>2. CASE FromAppChanswitchRequest(Rx)
  BY <1>0, <1>2 DEF FromAppChanswitchRequest, NoMsg, Msg, MacData
<1>3. CASE FromAppChangeChannelRequest(Rx)
  <2>1. /\ server.state = "RX_IDLE" /\ ~RxAway /\ pending[Rx].app = "RX_SERVER"
    BY <1>3 DEF FromAppChangeChannelRequest, ServerPhases, RxIs
  <2>2. /\ phy'[Rx].tx = pending[Rx].new /\ phy'[Rx].tx \in phy'[Rx].listening
        /\ mac'[Rx].timer = mac[Rx].timer /\ mac'[Rx].scanStarted = mac[Rx].scanStarted
        /\ pending'[Rx].type = "none"
    <3> DEFINE listening == (phy[Rx].listening \ {pending[Rx].old}) \cup {pending[Rx].new}
    <3>1. /\ pending' = [pending EXCEPT ![Rx] = NoMsg]
          /\ mac' = [mac EXCEPT ![Rx] =
                  [@ EXCEPT !.appType = pending[Rx].app, !.newChannel = pending[Rx].new]]
          /\ phy' = [phy EXCEPT ![Rx] =
                  [@ EXCEPT !.tx = pending[Rx].new, !.listening = listening]]
      BY <1>3, <2>1 DEF FromAppChangeChannelRequest
    <3>2. pending[Rx].new \in listening OBVIOUS
    <3> HIDE DEF listening
    <3>3. phy'[Rx].tx = pending[Rx].new /\ phy'[Rx].listening = listening
      BY <1>0, <3>1 DEF PhyData
    <3>4. mac'[Rx].timer = mac[Rx].timer /\ mac'[Rx].scanStarted = mac[Rx].scanStarted
      BY <1>0, <3>1 DEF MacData
    <3>5. pending'[Rx].type = "none" BY <1>0, <3>1 DEF NoMsg, Msg
    <3> QED BY <3>2, <3>3, <3>4, <3>5
  <2> QED BY <1>0, <1>3, <2>1, <2>2 DEF FromAppChangeChannelRequest
<1>4. CASE FromAppMACAddressRequest(Rx)
  <2>1. pending[Rx].type = "MACAddressRequest" BY <1>4 DEF FromAppMACAddressRequest
  <2>2. mac[Rx].timer = "none" BY <2>1 DEF ServerPhases, RxIs
  <2>3. /\ mac'[Rx].timer = "MACAddressRequest" /\ mac'[Rx].scanStarted = mac[Rx].scanStarted
        /\ pending'[Rx].type = "none" /\ phy' = phy
    BY <1>0, <1>4 DEF FromAppMACAddressRequest, NoMsg, Msg, MacData
  <2> QED BY <1>0, <2>1, <2>2, <2>3
<1>5. CASE StartScan(Rx)
  <2>1. pending[Rx].type = "none" BY <1>5 DEF StartScan, ServerPhases, RxIs
  <2> QED BY <1>0, <1>5, <2>1 DEF StartScan, MacData
<1>6. ~ChangeChannelTimer(Rx) BY DEF ChangeChannelTimer, ServerPhases, RxIs
<1>7. CASE MACAddressTimer(Rx)
  <2>1. /\ pending[Rx].type = "none" /\ server.state = "RX_PROBE_ACK" /\ ~RxAway
    BY <1>7 DEF MACAddressTimer, ServerPhases, RxIs
  <2>2. /\ pending'[Rx].type = "MACAddressReply" /\ pending'[Rx].new = phy[Rx].tx /\ phy' = phy
    BY <1>0, <1>7 DEF MACAddressTimer, Msg
  <2> QED BY <1>0, <2>1, <2>2
<1>8. CASE ProbeRequestTransmitted(Rx)
  <2>1. mac[Rx].scanStarted BY <1>0, <1>8 DEF ProbeRequestTransmitted, ServerPhases, RxIs
  <2> QED BY <1>0, <1>8, <2>1 DEF ProbeRequestTransmitted, MacData
<1>9. CASE ScanNextChannel(Rx)
  <2>1. mac[Rx].scanStarted BY <1>9 DEF ScanNextChannel, ServerPhases, RxIs
  <2>2. PICK c : /\ mac'[Rx].scanStarted = mac[Rx].scanStarted
                 /\ phy'[Rx] = Retuned(Rx, c) /\ UNCHANGED pending
    BY <1>0, <1>9 DEF ScanNextChannel, MacData
  <2> QED BY <1>0, <1>1, <2>1, <2>2
<1>10. CASE ScanCompleted(Rx)
  <2>1. mac[Rx].scanStarted /\ pending[Rx].type = "none"
    BY <1>10 DEF ScanCompleted, Quiet, ServerPhases, RxIs
  <2>2. pending'[Rx].type = "ScanFinished" /\ phy' = phy
    BY <1>0, <1>10 DEF ScanCompleted, Msg
  <2> QED BY <1>0, <2>1, <2>2
<1> QED
  BY <1>2, <1>3, <1>4, <1>5, <1>6, <1>7, <1>8, <1>9, <1>10 DEF MacStep, MacNext

-----------------------------------------------------------------------------
(* The client's node.                                                       *)

\* Only a decision leaves a change to resolve.
LEMMA UnresolvedOfClientStep ==
  ASSUME TypeOK, Handshake, ClientStep
  PROVE  LET decides == \/ NodeListAfterProbing
                        \/ TxScanFinished /\ client.state = "TX_PROBING" /\ client.got
         IN /\ Taken' => Taken
            /\ decides => ~Taken'
            /\ ~decides => (Unresolved' => Unresolved)
<1>0. /\ server' = server /\ ClientNext /\ Conversation
      /\ s2c \in Seq(ClientPacket) /\ c2s \in Seq(ServerPacket)
  BY DEF ClientStep, TypeOK, LinkTypeOK, Handshake
<1> DEFINE Stays == (Taken' => Taken) /\ (Unresolved' => Unresolved)
<1>1. ASSUME c2s' = c2s, s2c' = s2c \/ (s2c # <<>> /\ s2c' = Tail(s2c)) PROVE Stays
  <2>1. /\ Asked' = Asked
        /\ Answered' = Answered \/ (Answered # Empty /\ Answered' = Tail(Answered))
    BY <1>0, <1>1, TypesOfTail DEF Asked, Answered
  <2> QED BY <1>0, <2>1, ResolvedStays
<1>2. ASSUME ClientMACAddress PROVE Stays
  <2>1. /\ client.state = "TX_PROBE_INIT" /\ Answered' = Answered
        /\ Asked' \in {Asked, Append(Asked, "PROBE_PKT")}
    BY <1>2, AddressAsks DEF Handshake
  <2>2. Asked = Empty BY <1>0, <2>1 DEF Conversation, Talk, Probing, Waiting
  <2>3. Asked' \in {Asked, One("PROBE_PKT")} BY <2>1, <2>2, Short
  <2> QED BY <1>0, <2>1, <2>3, ResolvedStays
<1>3. ASSUME NodeListAfterProbing PROVE ~Taken'
  <2>1. /\ client.state = "TX_PROBE_WFRX" /\ Answered # Empty /\ Head(Answered) = "NODE_LIST"
        /\ Answered' = Tail(Answered)
    BY <1>3, Streams DEF NodeListAfterProbing, Answered
  <2>2. Answered' = Empty /\ server.state = "RX_IDLE"
    BY <1>0, <2>1, Heard, Short DEF Conversation, Talk
  <2>3. Empty \notin Acks BY Short DEF Acks
  <2> QED BY <1>0, <1>3, <2>2, <2>3 DEF Taken
<1>4. ASSUME TxScanFinished, client.state = "TX_PROBING", client.got PROVE ~Taken'
  <2>1. Answered = Empty /\ server.state = "RX_IDLE" /\ s2c' = s2c
    BY <1>4 DEF Handshake, Contents, ListAtHand, TxScanFinished
  <2>2. Empty \notin Acks BY Short DEF Acks
  <2> QED BY <1>0, <1>4, <2>1, <2>2 DEF Taken, Answered
<1>5. TxScanFinished /\ ~(client.state = "TX_PROBING" /\ client.got) =>
        c2s' = c2s /\ s2c' = s2c
  BY DEF TxScanFinished
<1>6. ClientOpen \/ InitiateChannelScan \/ ClientClose \/ ClientTimeout =>
        c2s' = c2s /\ s2c' = s2c
  BY DEF ClientOpen, InitiateChannelScan, ClientClose, ClientTimeout, ProbeWfAckTimeout,
         ChangeWfAckTimeout, VerifyWfAckTimeout, BackoffPartOver, ChannelSelectionTimeout
<1>7. ProbeAckReceived \/ NodeListWhileProbing \/ ChangeAckReceived \/ VerifyAckReceived
        \/ ClientIgnores =>
        c2s' = c2s /\ s2c # <<>> /\ s2c' = Tail(s2c)
  BY DEF ProbeAckReceived, NodeListWhileProbing, ChangeAckReceived, VerifyAckReceived,
         ClientIgnores, ToClient
<1> QED
  BY <1>0, <1>1, <1>2, <1>3, <1>4, <1>5, <1>6, <1>7 DEF ClientNext, ClientReceives

\* What a step of the client asks of its MAC, and where its radio then goes.
LEMMA AskedOfMac ==
  ASSUME TypeOK, mac' = mac, phy' = phy, NEW m, Ask(m)
  PROVE  /\ pending'[Tx] = m
         /\ m.type = "ChangeChannelRequest" => TxChannel' = m.new
         /\ m.type # "ChangeChannelRequest" /\ mac[Tx].timer # "ChangeChannelRequest" =>
              TxChannel' = phy[Tx].tx
<1>1. pending'[Tx] = m BY ChannelFacts DEF Ask, TypeOK, MacTypeOK
<1> QED BY <1>1 DEF TxChannel, Has

\* A step of the client.
LEMMA MeetingOfClientStep ==
  ASSUME TypeOK, Handshake, ClientNode, Meeting, ClientStep
  PROVE  ClientNode' /\ Meeting'
<1>0. /\ mac' = mac /\ phy' = phy /\ server' = server /\ RxChannel' = RxChannel
      /\ client \in ClientData /\ ClientNext /\ BeforeOpening
      /\ client.opened = FALSE => client.state = "TX_IDLE" /\ client.timers = Empty
  BY RxChannelKept DEF ClientStep, TypeOK, ClientTypeOK, Handshake, Contents, BeforeOpening
<1>1. Taken' => Taken BY UnresolvedOfClientStep
<1>2. ~NodeListAfterProbing /\ ~(TxScanFinished /\ client.state = "TX_PROBING" /\ client.got) =>
        (Unresolved' => Unresolved)
  BY UnresolvedOfClientStep
<1>3. Quiet(Tx) /\ Resting =>
        /\ pending[Tx].type = "none" /\ mac[Tx].timer = "none" /\ mac[Tx].probeReqs = 0
        /\ TxChannel = phy[Tx].tx
  BY DEF Quiet, ZeroDelayTimer, Resting, TxIs, Has, TxChannel
<1>4. /\ \A old, new : /\ ChangeChannels("TX_CLIENT", old, new).type = "ChangeChannelRequest"
                       /\ ChangeChannels("TX_CLIENT", old, new).new = new
      /\ StartProbing("TX_CLIENT").type = "ChanswitchRequest"
      /\ \A initial : GetMyMacAddr("TX_CLIENT", initial).type = "MACAddressRequest"
      /\ NoMsg.type = "none"
  BY DEF ChangeChannels, StartProbing, GetMyMacAddr, NoMsg, Msg
<1> DEFINE Fields == /\ client'.opened = client.opened /\ client'.round = client.round
                     /\ client'.next = client.next
           \* nothing changes that matters here
           Calm == /\ client'.state = client.state /\ Fields /\ client'.cur = client.cur
                   /\ pending' = pending /\ (Unresolved' => Unresolved)
           \* the client goes to the channel it asks for
           Goes(s, c) == /\ client'.state = s /\ Fields
                         /\ pending'[Tx].type = "ChangeChannelRequest" /\ TxChannel' = c
<1>5. Calm => ClientNode' /\ Meeting'
  BY <1>0, <1>1 DEF ClientNode, Meeting, Resting, AddressAsked, Scanning, TxIs, TxChannel, Has
<1>6. ASSUME Fields PROVE /\ (Taken => RxChannel = client.next)'
                          /\ (~client.opened => client.round = 0)'
  BY <1>0, <1>1, <1>6 DEF Meeting
<1>7. ASSUME NEW s \in {"TX_IDLE", "TX_PROBE_WFRX", "TX_CHANGE_WFACK", "TX_VERIFY_WFACK"}, NEW c,
             Goes(s, c), mac[Tx].timer = "none", mac[Tx].probeReqs = 0,
             s = "TX_IDLE" => c = RxChannel /\ c = client'.cur,
             s = "TX_VERIFY_WFACK" => c = client.next
      PROVE  ClientNode' /\ Meeting'
  <2>1. Resting' BY <1>0, <1>7 DEF Resting, TxIs
  <2> QED BY <1>0, <1>6, <1>7, <2>1 DEF ClientNode, Meeting, Has
<1>8. CASE ClientOpen \/ InitiateChannelScan
  <2>1. /\ Quiet(Tx) /\ client.state = "TX_IDLE" /\ client'.state = "TX_PROBE_INIT"
        /\ client'.round = client.round /\ client'.opened
        /\ \E initial : Ask(GetMyMacAddr("TX_CLIENT", initial))
        /\ \/ ~client.opened
           \/ client'.next = client.next /\ client'.cur = client.cur
    BY <1>0, <1>8 DEF ClientOpen, InitiateChannelScan, BackingOff, ClientData, BeforeOpening
  <2>2. Resting BY <2>1 DEF ClientNode
  <2>3. pending'[Tx].type = "MACAddressRequest" /\ TxChannel' = phy[Tx].tx
    BY <1>0, <1>3, <1>4, <2>1, <2>2, AskedOfMac
  <2>4. AddressAsked' BY <1>0, <1>3, <2>1, <2>2, <2>3 DEF AddressAsked, TxIs
  <2>5. ~client.opened => ~Taken
    <3>1. Empty \notin Acks BY Short DEF Acks
    <3> QED BY <1>0, <3>1 DEF BeforeOpening, Taken
  <2> QED
    BY <1>0, <1>1, <1>3, <2>1, <2>2, <2>3, <2>4, <2>5 DEF ClientNode, Meeting, Has, Waiting
<1>9. CASE ClientMACAddress
  <2>1. /\ client.state = "TX_PROBE_INIT" /\ client'.state \in {"TX_IDLE", "TX_PROBE_WFACK"}
        /\ pending[Tx].type = "MACAddressReply"
    BY <1>9, AddressAsks DEF Handshake, ClientMACAddress, Has
  <2>2. /\ client'.next = client.next /\ client'.opened = client.opened
        /\ client'.cur = pending[Tx].new /\ Ask(NoMsg)
    BY <1>0, <1>9 DEF ClientMACAddress, ClientData
  <2>3. client.opened BY <1>0, <2>1 DEF ClientData
  <2>4. mac[Tx].timer = "none" /\ mac[Tx].probeReqs = 0
    BY <2>1 DEF ClientNode, AddressAsked, TxIs
  <2>5. /\ pending'[Tx].type = "none" /\ TxChannel' = phy[Tx].tx
        /\ TxChannel = phy[Tx].tx
    BY <1>0, <1>4, <2>1, <2>2, <2>4, AskedOfMac DEF TxChannel, Has
  <2>6. Resting' BY <1>0, <2>4, <2>5 DEF Resting, TxIs
  <2> QED
    BY <1>0, <1>1, <2>1, <2>2, <2>3, <2>5, <2>6 DEF ClientNode, Meeting, Has, Waiting
<1>10. CASE ClientClose \/ NodeListWhileProbing \/ ClientIgnores \/ BackoffPartOver
            \/ ChannelSelectionTimeout
  <2>1. ~NodeListAfterProbing /\ ~TxScanFinished
    BY <1>10
    DEF ClientClose, NodeListWhileProbing, ClientIgnores, BackoffPartOver, TimerExpires,
        ChannelSelectionTimeout, NodeListAfterProbing, TxScanFinished, ToClient, Quiet, Has
  <2>2. Calm
    BY <1>0, <1>2, <1>10, <2>1
    DEF ClientClose, NodeListWhileProbing, ClientIgnores, BackoffPartOver,
        ChannelSelectionTimeout, ClientData
  <2> QED BY <1>5, <2>2
<1>11. CASE ProbeAckReceived
  <2>1. /\ Quiet(Tx) /\ client.state \in {"TX_IDLE", "TX_PROBE_WFACK"}
        /\ client'.state = "TX_PROBING" /\ Fields /\ Ask(StartProbing("TX_CLIENT"))
    BY <1>0, <1>11 DEF ProbeAckReceived, ToClient, ClientData
  <2>2. Scanning'
    BY <1>0, <1>3, <1>4, <2>1, AskedOfMac DEF ClientNode, Scanning, TxIs
  <2> QED BY <1>0, <1>6, <2>1, <2>2 DEF ClientNode, Meeting, Waiting
<1>12. ASSUME NEW best, NEW c \in ClientData, ChangeInit(c, best),
              c.opened = client.opened, c.round = client.round,
              ~Taken', Resting', client.opened
       PROVE  ClientNode' /\ Meeting'
  <2>1. /\ client'.state = "TX_CHANGE_WFACK" /\ client'.opened
    BY <1>12 DEF ChangeInit, ClientData
  <2> QED BY <1>12, <2>1 DEF ClientNode, Meeting
<1>13. CASE NodeListAfterProbing
  <2>1. /\ client.state = "TX_PROBE_WFRX" /\ pending' = pending
    BY <1>13 DEF NodeListAfterProbing
  <2>2. Resting' BY <1>0, <2>1 DEF ClientNode, Resting, TxIs
  <2>3. ~Taken'
    BY <1>13, UnresolvedOfClientStep
  <2> DEFINE c == [client EXCEPT !.got = TRUE, !.listRound = Head(s2c).round]
  <2>4. PICK best \in BestChannels(client) : ChangeInit(c, best)
    BY <1>13 DEF NodeListAfterProbing
  <2>5. /\ c \in ClientData /\ c.round = client.round /\ c.opened = client.opened
    BY <1>0, <1>13, LinkFacts DEF NodeListAfterProbing, ToClient, TypeOK, ClientData
  <2>6. client.opened BY <1>0, <2>1 DEF ClientData
  <2> HIDE DEF c
  <2> QED BY <1>12, <2>2, <2>3, <2>4, <2>5, <2>6
<1>14. CASE ChangeAckReceived
  <2>1. /\ client.state = "TX_CHANGE_WFACK" /\ client'.state = "TX_IDLE" /\ Fields /\ Quiet(Tx)
        /\ client'.cur = client.next /\ ToClient("CHANGE_ACK")
        /\ Ask(ChangeChannels("TX_CLIENT", client.cur, client.next))
    BY <1>0, <1>14 DEF ChangeAckReceived, ToClient, ClientData
  <2>2. Taken BY <2>1, Streams, Heard DEF Handshake, Taken, Acks
  <2>3. Resting BY <2>1, <2>2 DEF ClientNode, Waiting, Unresolved
  <2>4. Goes("TX_IDLE", client.next) BY <1>0, <1>4, <2>1, AskedOfMac
  <2>5. client.next = RxChannel BY <2>2 DEF Meeting
  <2> HIDE DEF Goes, Fields
  <2> QED BY <1>3, <1>7, <2>1, <2>3, <2>4, <2>5
<1>15. CASE VerifyAckReceived
  <2>1. /\ client.state = "TX_VERIFY_WFACK" /\ client'.state = "TX_IDLE" /\ Fields /\ Quiet(Tx)
        /\ client'.cur = client.next /\ ToClient("VERIFY_ACK") /\ pending' = pending
    BY <1>0, <1>15 DEF VerifyAckReceived, ToClient, ClientData
  <2>2. Taken BY <2>1, Streams, Heard DEF Handshake, Taken, Acks
  <2>3. Resting BY <2>1, <2>2 DEF ClientNode, Waiting, Unresolved
  <2>4. Resting' BY <1>0, <2>1, <2>3 DEF Resting, TxIs
  <2>5. TxChannel' = TxChannel BY <1>0, <2>1 DEF TxChannel, Has
  <2>6. TxChannel = client.next /\ RxChannel = client.next
    BY <2>1, <2>2 DEF Meeting, Unresolved
  <2>7. pending'[Tx].type = "none" BY <1>3, <2>1, <2>3
  <2> QED
    BY <1>0, <1>6, <2>1, <2>4, <2>5, <2>6, <2>7 DEF ClientNode, Meeting, Waiting, Has
<1>16. CASE TxScanFinished
  <2>1. CASE client.state # "TX_PROBING"
    <3>1. UNCHANGED client /\ Ask(NoMsg) /\ pending[Tx].type = "ScanFinished"
      BY <1>16, <2>1 DEF TxScanFinished, Has
    <3>2. ~Resting /\ ~AddressAsked BY <3>1 DEF Resting, AddressAsked, TxIs
    <3>3. client.state \in Waiting /\ ~Unresolved
      BY <1>0, <2>1, <3>2 DEF ClientNode, Waiting, ClientData, ClientState
    <3>4. ~Unresolved' BY <1>2, <2>1, <1>16, <3>3 DEF NodeListAfterProbing, Waiting
    <3> QED BY <1>0, <1>6, <3>1, <3>3, <3>4 DEF ClientNode, Meeting, Waiting
  <2>2. CASE client.state = "TX_PROBING" /\ ~client.got
    <3>1. /\ client'.state = "TX_PROBE_WFRX" /\ Fields
          /\ Ask(ChangeChannels("TX_CLIENT", client.cur, client.cur))
          /\ pending[Tx].type = "ScanFinished"
      BY <1>0, <1>16, <2>2 DEF TxScanFinished, ClientData, Has
    <3>2. mac[Tx].timer = "none" /\ mac[Tx].probeReqs = 0
      BY <2>2, <3>1 DEF ClientNode, Scanning, TxIs
    <3>3. Goes("TX_PROBE_WFRX", client.cur) BY <1>0, <1>4, <3>1, AskedOfMac
    <3> HIDE DEF Goes, Fields
    <3> QED BY <1>7, <3>2, <3>3
  <2>3. CASE client.state = "TX_PROBING" /\ client.got
    <3>1. PICK best \in BestChannels(client) : ChangeInit(client, best)
      BY <1>16, <2>3 DEF TxScanFinished
    <3>2. Ask(NoMsg) /\ pending[Tx].type = "ScanFinished"
      BY <1>16, <2>3 DEF TxScanFinished, Has
    <3>3. mac[Tx].timer = "none" /\ mac[Tx].probeReqs = 0
      BY <2>3, <3>2 DEF ClientNode, Scanning, TxIs
    <3>4. Resting' BY <1>0, <1>4, <3>2, <3>3, AskedOfMac DEF Resting, TxIs
    <3>5. ~Taken' BY <1>16, <2>3, UnresolvedOfClientStep
    <3>6. client.opened BY <1>0, <2>3 DEF ClientData
    <3> QED BY <1>0, <1>12, <3>1, <3>4, <3>5, <3>6
  <2> QED BY <2>1, <2>2, <2>3
<1>17. ClientTimeout => (Unresolved' => Unresolved)
  <2>1. ClientTimeout => c2s' = c2s /\ s2c' = s2c
    BY DEF ClientTimeout, ProbeWfAckTimeout, ChangeWfAckTimeout, VerifyWfAckTimeout,
           BackoffPartOver, ChannelSelectionTimeout
  <2> QED BY <1>0, <2>1 DEF Unresolved, Taken, Asked, Answered
<1>18. CASE ProbeWfAckTimeout
  <2>1. CASE client.state = "TX_PROBE_WFACK"
    <3>1. /\ Quiet(Tx) /\ client'.state = "TX_PROBING" /\ Fields
          /\ Ask(StartProbing("TX_CLIENT"))
      BY <1>0, <1>18, <2>1 DEF ProbeWfAckTimeout, ClientData
    <3>2. Scanning'
      BY <1>0, <1>3, <1>4, <2>1, <3>1, AskedOfMac DEF ClientNode, Scanning, TxIs
    <3> QED BY <1>0, <1>6, <3>1, <3>2 DEF ClientNode, Meeting, Waiting
  <2>2. CASE client.state # "TX_PROBE_WFACK"
    <3>1. Calm
      BY <1>0, <1>17, <1>18, <2>2 DEF ProbeWfAckTimeout, ClientTimeout, ClientData
    <3> QED BY <1>5, <3>1
  <2> QED BY <2>1, <2>2
<1>19. CASE ChangeWfAckTimeout
  <2>1. CASE client.state = "TX_CHANGE_WFACK"
    <3>1. /\ Quiet(Tx) /\ client'.state = "TX_VERIFY_WFACK" /\ Fields
          /\ Ask(ChangeChannels("TX_CLIENT", client.cur, client.next))
      BY <1>0, <1>19, <2>1 DEF ChangeWfAckTimeout, TimerExpires, ClientData
    <3>2. Goes("TX_VERIFY_WFACK", client.next) BY <1>0, <1>4, <3>1, AskedOfMac
    <3>3. CASE Unresolved
      <4>1. Resting BY <2>1, <3>3 DEF ClientNode, Waiting
      <4> HIDE DEF Goes, Fields
      <4> QED BY <1>3, <1>7, <3>1, <3>2, <4>1
    <3>4. CASE ~Unresolved
      <4>1. ~Unresolved' BY <1>17, <1>19, <3>4 DEF ClientTimeout
      <4> QED BY <1>0, <1>6, <3>1, <4>1 DEF ClientNode, Meeting, Waiting
    <3> QED BY <3>3, <3>4
  <2>2. CASE client.state # "TX_CHANGE_WFACK"
    <3>1. Calm
      BY <1>0, <1>17, <1>19, <2>2 DEF ChangeWfAckTimeout, ClientTimeout, ClientData
    <3> QED BY <1>5, <3>1
  <2> QED BY <2>1, <2>2
<1>20. CASE VerifyWfAckTimeout
  <2>1. /\ Quiet(Tx) /\ client'.state = "TX_CHANGE_WFACK" /\ Fields
        /\ Ask(ChangeChannels("TX_CLIENT", client.next, client.cur))
        /\ client.timers # Empty /\ Head(client.timers) = "verify"
    BY <1>0, <1>20 DEF VerifyWfAckTimeout, TimerExpires, ClientData, Empty
  <2>2. Goes("TX_CHANGE_WFACK", client.cur) BY <1>0, <1>4, <2>1, AskedOfMac
  <2>3. CASE Unresolved
    <3>1. client.state \notin Probing
      <4>1. /\ Head(One("backoff")) = "backoff" /\ Head(Two("change", "backoff")) = "change"
            /\ One("backoff") \notin {Two("verify", "backoff")}
        BY Short
      <4>2. Two("verify", "backoff") \notin Plain BY Short DEF Plain
      <4>3. Two("verify", "backoff") # Three("verify", "backoff", "change")
        BY DEF Two, Three
      <4> QED BY <2>1, <2>3, <4>1, <4>2, <4>3 DEF Handshake, Timers, Probing
    <3>2. client.state # "TX_PROBE_INIT"
      BY <2>1 DEF Handshake, AskingAddress, Asking, Quiet, Has, ZeroDelayTimer
    <3>3. Resting
      BY <1>0, <2>3, <3>1, <3>2 DEF ClientNode, Waiting, Probing, ClientData, ClientState
    <3> HIDE DEF Goes, Fields
    <3> QED BY <1>3, <1>7, <2>1, <2>2, <3>3
  <2>4. CASE ~Unresolved
    <3>1. ~Unresolved' BY <1>17, <1>20, <2>4 DEF ClientTimeout
    <3> QED BY <1>0, <1>6, <2>1, <3>1 DEF ClientNode, Meeting, Waiting
  <2> QED BY <2>3, <2>4
<1> QED
  BY <1>0, <1>8, <1>9, <1>10, <1>11, <1>13, <1>14, <1>15, <1>16, <1>18, <1>19, <1>20
  DEF ClientNext, ClientReceives, ClientTimeout

\* Its MAC takes the radio where the client asked, and reports the channel it is on.
LEMMA MeetingOfMacStep ==
  ASSUME TypeOK, ClientOwns, ClientNode, Meeting, MacStep(Tx)
  PROVE  ClientNode' /\ Meeting'
<1>0. /\ Tx \in Node /\ pending \in [Node -> Message] /\ mac \in [Node -> MacData]
      /\ phy \in [Node -> PhyData] /\ mac[Tx] \in MacData
      /\ c2s' = c2s /\ s2c' = s2c /\ client' = client /\ server' = server
      /\ RxChannel' = RxChannel
  BY ChannelFacts, RxChannelKept DEF MacStep, TypeOK, MacTypeOK
<1>1. Unresolved' = Unresolved /\ Taken' = Taken
  BY <1>0 DEF Unresolved, Taken, Asked, Answered
<1> DEFINE Rests == Resting => Resting' /\ TxChannel' = TxChannel
           Asks == AddressAsked => /\ AddressAsked' /\ TxChannel' = TxChannel
                                   /\ pending'[Tx].type = "MACAddressReply" =>
                                        pending'[Tx].new = TxChannel
           Scans == Scanning => Scanning'
<1>2. ASSUME Rests, Asks, Scans PROVE ClientNode' /\ Meeting'
  <2>1. ClientNode' BY <1>0, <1>1, <1>2 DEF ClientNode
  <2>2. client.state = "TX_IDLE" => Resting /\ Resting' BY <1>0, <2>1 DEF ClientNode
  <2>3. Resting' => pending'[Tx].type # "MACAddressReply" BY DEF Resting, TxIs
  <2>4. client.state = "TX_VERIFY_WFACK" /\ Unresolved => Resting BY DEF ClientNode, Waiting
  <2>5. client.state = "TX_PROBE_INIT" => AddressAsked BY DEF ClientNode
  <2>6. Meeting'
    BY <1>0, <1>1, <1>2, <2>2, <2>3, <2>4, <2>5 DEF Meeting, Has
  <2> QED BY <2>1, <2>6
<1> USE DEF Resting, AddressAsked, Scanning, TxIs, TxChannel, Has
<1>3. CASE FromAppChanswitchRequest(Tx)
  <2>1. /\ pending[Tx].type = "ChanswitchRequest" /\ pending'[Tx].type = "none"
        /\ mac'[Tx].timer = "ChanswitchRequest" /\ mac'[Tx].probeReqs = mac[Tx].probeReqs
    BY <1>0, <1>3 DEF FromAppChanswitchRequest, NoMsg, Msg, MacData
  <2> QED BY <1>2, <2>1
<1>4. CASE FromAppChangeChannelRequest(Tx)
  <2>1. /\ pending' = [pending EXCEPT ![Tx] = NoMsg] /\ phy' = phy
        /\ mac' = [mac EXCEPT ![Tx] =
                [@ EXCEPT !.appType = "TX_CLIENT", !.newChannel = pending[Tx].new,
                          !.timer = "ChangeChannelRequest"]]
        /\ pending[Tx].type = "ChangeChannelRequest"
    BY <1>0, <1>4 DEF FromAppChangeChannelRequest, ClientOwns
  <2>2. /\ pending'[Tx].type = "none" /\ mac'[Tx].newChannel = pending[Tx].new
        /\ mac'[Tx].timer = "ChangeChannelRequest" /\ mac'[Tx].probeReqs = mac[Tx].probeReqs
    BY <1>0, <2>1 DEF NoMsg, Msg, MacData
  <2> QED BY <1>2, <2>1, <2>2
<1>5. CASE FromAppMACAddressRequest(Tx)
  <2>1. /\ pending[Tx].type = "MACAddressRequest" /\ pending'[Tx].type = "none"
        /\ mac'[Tx].timer = "MACAddressRequest" /\ mac'[Tx].probeReqs = mac[Tx].probeReqs
        /\ phy' = phy
    BY <1>0, <1>5 DEF FromAppMACAddressRequest, NoMsg, Msg, MacData
  <2> QED BY <1>2, <2>1
<1>6. CASE StartScan(Tx)
  <2>1. /\ mac[Tx].timer = "ChanswitchRequest" /\ mac'[Tx].timer = "none"
        /\ mac'[Tx].probeReqs = mac[Tx].probeReqs + 1 /\ pending' = pending
    BY <1>0, <1>6 DEF StartScan, MacData
  <2> QED BY <1>2, <2>1
<1>7. CASE ChangeChannelTimer(Tx)
  <2>1. /\ mac[Tx].timer = "ChangeChannelRequest" /\ mac'[Tx].timer = "none"
        /\ mac'[Tx].probeReqs = mac[Tx].probeReqs /\ pending' = pending
        /\ mac[Tx].newChannel \in Channel
    BY <1>0, <1>7 DEF ChangeChannelTimer, MacData
  <2>2. phy'[Tx].tx = mac[Tx].newChannel
    BY <1>0, <1>7, <2>1, RetunedIsTuned DEF ChangeChannelTimer, ClientOwns
  <2> QED BY <1>2, <2>1, <2>2
<1>8. CASE MACAddressTimer(Tx)
  <2>1. /\ mac[Tx].timer = "MACAddressRequest" /\ mac'[Tx].timer = "none"
        /\ mac'[Tx].probeReqs = mac[Tx].probeReqs /\ phy' = phy
        /\ pending'[Tx].type = "MACAddressReply" /\ pending'[Tx].new = phy[Tx].tx
    BY <1>0, <1>8 DEF MACAddressTimer, Msg, MacData
  <2> QED BY <1>2, <2>1
<1>9. CASE ProbeRequestTransmitted(Tx)
  <2>1. /\ mac[Tx].probeReqs > 0 /\ mac'[Tx].probeReqs = mac[Tx].probeReqs - 1
        /\ mac'[Tx].timer = "ActiveScan" /\ pending' = pending
        /\ pending[Tx].type = "none" /\ mac[Tx].timer \notin ZeroDelayTimer
    BY <1>0, <1>9 DEF ProbeRequestTransmitted, Quiet, MacData
  <2> QED BY <1>2, <2>1 DEF ZeroDelayTimer
<1>10. CASE ScanNextChannel(Tx)
  <2>1. /\ mac[Tx].timer = "ActiveScan" /\ mac'[Tx].timer = "none"
        /\ mac'[Tx].probeReqs = mac[Tx].probeReqs + 1 /\ pending' = pending
    BY <1>0, <1>10 DEF ScanNextChannel, MacData
  <2> QED BY <1>2, <2>1
<1>11. CASE ScanCompleted(Tx)
  <2>1. /\ mac[Tx].timer = "ActiveScan" /\ mac'[Tx].timer = "none"
        /\ mac'[Tx].probeReqs = mac[Tx].probeReqs /\ pending'[Tx].type = "ScanFinished"
    BY <1>0, <1>11 DEF ScanCompleted, Msg, MacData
  <2> QED BY <1>2, <2>1
<1> QED
  BY <1>3, <1>4, <1>5, <1>6, <1>7, <1>8, <1>9, <1>10, <1>11 DEF MacStep, MacNext

-----------------------------------------------------------------------------
(* The two nodes together.                                                  *)

\* A step at the server's node: its channel changes with a change it takes only, and
\* then to the one the client has in hand.
LEMMA MeetingOfServerNode ==
  ASSUME TypeOK, ServerPhases, Handshake, ClientNode, Meeting, RxListens,
         ServerStep \/ MacStep(Rx)
  PROVE  ClientNode' /\ Meeting' /\ RxListens'
<1>0. /\ TxChannel' = TxChannel /\ client' = client /\ pending'[Tx] = pending[Tx]
      /\ Resting' = Resting /\ AddressAsked' = AddressAsked /\ Scanning' = Scanning
  BY TxChannelKept
<1>1. CASE MacStep(Rx)
  <2>1. Unresolved' = Unresolved /\ Taken' = Taken
    BY <1>1 DEF MacStep, Unresolved, Taken, Asked, Answered
  <2>2. RxChannel' = RxChannel /\ RxListens' BY <1>1, RxChannelOfMacStep
  <2> QED BY <1>0, <2>1, <2>2 DEF ClientNode, Meeting, Has
<1>2. CASE ServerStep
  <2>1. /\ Unresolved' => Unresolved
        /\ Taken' => Taken \/ server'.state = "RX_CHANGE_ACK"
    BY <1>2, ConversationOfServerStep DEF Handshake
  <2>2. ClientNode' BY <1>0, <2>1 DEF ClientNode
  <2>3. RxListens' BY <1>2, RxChannelOfServerStep
  <2>4. CASE ChangePktReceived
    <3>1. server'.next = client.next /\ Asked = One("CHANGE_PKT")
      <4>1. ToServer("CHANGE_PKT") /\ c2s # <<>> /\ Head(c2s).type = "CHANGE_PKT"
        BY <2>4 DEF ChangePktReceived, ToServer
      <4>2. 1 \in DOMAIN c2s /\ Head(c2s) = c2s[1]
        BY <4>1 DEF TypeOK, LinkTypeOK
      <4>3. server'.next = Head(c2s).channel
        BY <2>4 DEF ChangePktReceived, TypeOK, ServerTypeOK, ServerData
      <4>4. Asked = One("CHANGE_PKT")
        BY <4>1, Streams, Short DEF Handshake, Conversation, Talk
      <4> QED BY <4>1, <4>2, <4>3, <4>4 DEF Handshake, Contents, AskedContents
    <3>2. client.state \in Waiting
      <4>1. One("CHANGE_PKT") # Empty /\ One("CHANGE_PKT") # One("PROBE_PKT") BY Short
      <4> QED BY <3>1, <4>1 DEF Handshake, Conversation, Talk
    <3>3. RxChannel' = client.next BY <1>2, <2>4, <3>1, RxChannelOfServerStep
    <3> QED BY <1>0, <2>1, <2>2, <2>3, <3>2, <3>3 DEF Meeting, Waiting
  <2>5. CASE ~ChangePktReceived
    <3>1. RxChannel' = RxChannel BY <1>2, <2>5, RxChannelOfServerStep
    <3>2. server'.state = "RX_CHANGE_ACK" => server.state = "RX_CHANGE_ACK"
      BY <1>2, <2>5
      DEF ServerStep, ServerNext, ServerOpen, ServerClose, ServerReceives, ProbePktReceived,
          PacketDropped, ServerTimeout, RxProbeAckDelay, RxChangeAckDelay, ServerMACAddress,
          RxScanFinished, TypeOK, ServerTypeOK, ServerData
    <3>3. Taken' => Taken BY <2>1, <3>2 DEF Taken
    <3> QED BY <1>0, <2>1, <2>2, <2>3, <3>1, <3>3 DEF Meeting, Has
  <2> QED BY <2>4, <2>5
<1> QED BY <1>1, <1>2

\* Where the radios are is an invariant.
LEMMA MeetingHolds ==
  ASSUME BackoffParts >= 2
  PROVE  Spec => [](ClientNode /\ Meeting /\ RxListens)
<1> DEFINE Inv == ClientNode /\ Meeting /\ RxListens
<1>1. Init => Inv
  <2> SUFFICES ASSUME Init PROVE Inv OBVIOUS
  <2>1. /\ pending[Tx].type = "none" /\ mac[Tx].timer = "none" /\ mac[Tx].probeReqs = 0
        /\ pending[Rx].type = "none" /\ mac[Rx].timer = "none" /\ mac[Rx].scanStarted = FALSE
        /\ phy[Tx].tx = FirstChannel /\ phy[Rx].tx = FirstChannel
        /\ phy[Rx].listening = {FirstChannel}
    BY ChannelFacts DEF Init, MacInit, NoMsg, Msg
  <2>2. /\ client.state = "TX_IDLE" /\ client.round = 0 /\ server.state = "RX_IDLE"
        /\ Answered = Empty
    BY TypesOfEmpty DEF Init, ClientInit, ServerInit, LinkInit, Answered
  <2>3. ~Taken
    <3>1. Empty \notin Acks BY Short DEF Acks
    <3> QED BY <2>2, <3>1 DEF Taken
  <2>4. TxChannel = FirstChannel /\ RxChannel = FirstChannel
    BY <2>1, <2>2 DEF TxChannel, RxChannel, RxAway, Has
  <2>5. ClientNode BY <2>1, <2>2 DEF ClientNode, Resting, TxIs, Waiting
  <2>6. Meeting BY <2>1, <2>2, <2>3, <2>4 DEF Meeting, Has
  <2> QED BY <2>1, <2>5, <2>6 DEF RxListens
<1>2. TypeOK /\ ServerPhases /\ ClientOwns /\ Handshake /\ Inv /\ [Next]_vars => Inv'
  <2> SUFFICES ASSUME TypeOK, ServerPhases, ClientOwns, Handshake, Inv, [Next]_vars
               PROVE  Inv'
    OBVIOUS
  <2>1. CASE ServerStep \/ MacStep(Rx) BY <2>1, MeetingOfServerNode
  <2>2. CASE ClientStep BY <2>2, MeetingOfClientStep, RxChannelKept
  <2>3. CASE MacStep(Tx) BY <2>3, MeetingOfMacStep, RxChannelKept
  <2>4. CASE UNCHANGED vars
    BY <2>4
    DEF vars, ClientNode, Meeting, RxListens, Resting, AddressAsked, Scanning, TxIs, TxChannel,
        RxChannel, RxAway, Has, Unresolved, Taken, Asked, Answered
  <2> HIDE DEF Inv
  <2> QED BY <2>1, <2>2, <2>3, <2>4, ChannelFacts DEF Next
<1> QED BY <1>1, <1>2, TypeCorrect, ServerPhasesHold, ClientOwnsHolds, HandshakeHolds, PTL DEF Spec

\* A client that has finished a round is on the channel it has recorded, and where its
\* server is or is about to be.
THEOREM NodesCommitTogether ==
  ASSUME BackoffParts >= 2
  PROVE  Spec => []CommittedTogether
<1>1. ClientOwns /\ ServerPhases /\ Handshake /\ ClientNode /\ Meeting /\ RxListens
        => CommittedTogether
  <2> SUFFICES ASSUME ClientOwns, ServerPhases, Handshake, ClientNode, Meeting, RxListens,
                      client.state = "TX_IDLE", client.round > 0, Quiet(Tx)
               PROVE  /\ phy[Tx].tx = client.cur
                      /\ Quiet(Rx) =>
                           \/ CanHear(Tx, Rx) /\ CanHear(Rx, Tx)
                           \/ server.state = "RX_CHANGE_ACK" /\ server.next = phy[Tx].tx
    BY DEF CommittedTogether
  <2>1. TxChannel = phy[Tx].tx
    BY DEF ClientNode, Resting, TxIs, Quiet, ZeroDelayTimer, Has, TxChannel
  <2>2. phy[Tx].tx = client.cur /\ RxChannel = phy[Tx].tx BY <2>1 DEF Meeting
  <2>3. server.state \in {"RX_IDLE", "RX_CHANGE_ACK"}
    BY DEF Handshake, Conversation, Talk, Probing, Waiting
  <2>4. CASE Quiet(Rx)
    <3>1. ~RxAway
      BY <2>3, <2>4 DEF ServerPhases, RxIs, Quiet, ZeroDelayTimer, RxAway, Has
    <3>2. RxChannel = IF server.state = "RX_CHANGE_ACK" THEN server.next ELSE phy[Rx].tx
      BY <2>4, <3>1 DEF RxChannel, Quiet, Has
    <3> QED BY <2>2, <3>2 DEF ClientOwns, ClientTuned, RxListens, CanHear
  <2> QED BY <2>2, <2>4
<1> QED BY <1>1, MeetingHolds, ClientOwnsHolds, ServerPhasesHold, HandshakeHolds, PTL

-----------------------------------------------------------------------------
(* What a scan covers.  The scan goes around the channels and counts the    *)
(* steps, so it covers them all if it starts on the channel its first probe *)
(* goes to: the radio is then where the MAC believes.  The first round is   *)
(* the one in which this is so on both nodes.                               *)

\* From the channel of this step the scan still goes through what it has not probed.
Covers(n) ==
  /\ mac[n].numResults \in 1 .. NumChannels
  /\ mac[n].probed \subseteq Listenable
  /\ \A c \in Listenable :
       \/ c \in mac[n].probed
       \/ c = mac[n].channel /\ mac[n].probeReqs > 0
       \/ \E j \in 1 .. NumChannels - mac[n].numResults : c = (mac[n].channel + j) % NumChannels

\* No change of channel has been asked of this node, and its scan is complete.
Fresh(n) ==
  /\ ~Has(n, "ChangeChannelRequest") /\ mac[n].timer # "ChangeChannelRequest"
  /\ mac[n].channel \in Listenable /\ phy[n].tx = mac[n].channel
  /\ mac[n].probeReqs > 0 \/ mac[n].timer = "ActiveScan" => Covers(n)
  /\ Has(n, "ScanFinished") => mac[n].probed = Listenable

\* A probe request waits alone: no timer runs and no message is on its way; none is
\* when a scan is about to start either.
OneProbe(n) ==
  /\ mac[n].probeReqs \in {0, 1}
  /\ mac[n].probeReqs = 1 => mac[n].timer = "none" /\ Has(n, "none")
  /\ mac[n].timer = "ChanswitchRequest" => Has(n, "none")

\* Until its first round the client has asked its server for nothing and waits for
\* nothing; in that round its server changes no channel while it probes, and no timer
\* takes it out of its scan.
FirstRound ==
  /\ client.round = 0 =>
       /\ client.state \in {"TX_IDLE", "TX_PROBE_INIT"}
       /\ client.timers \in {Empty, One("backoff")}
       /\ server.state = "RX_IDLE" /\ Asked = Empty /\ Answered = Empty
  /\ client.round = 1 /\ client.state \in Probing =>
       client.timers \in {Empty, One("backoff")} /\ server.state # "RX_CHANGE_ACK"
  /\ client.round = 1 /\ client.state \in Waiting => Resting

\* Up to the end of the first scan of each node.
FirstTx == \/ client.round = 0
           \/ client.round = 1 /\ client.state \in {"TX_PROBE_WFACK", "TX_PROBING"}
FirstRx == \/ client.round = 0
           \/ client.round = 1 /\ (Asked = One("PROBE_PKT") \/ server.state = "RX_PROBE_ACK")

FirstScans ==
  /\ FirstTx => Fresh(Tx)
  /\ FirstRx => Fresh(Rx)

-----------------------------------------------------------------------------
(* The scan at one node.                                                    *)

\* Going around the channels, k steps and j steps more are k + j steps.
LEMMA Around ==
  ASSUME NEW c \in Channel, NEW k \in 1 .. NumChannels, NEW j \in 1 .. NumChannels,
         k + j <= NumChannels
  PROVE  (((c + k) % NumChannels) + j) % NumChannels = (c + (k + j)) % NumChannels
<1>0. NumChannels \in Nat /\ NumChannels > 0 BY ChannelAssumption
<1>1. \A a \in 0 .. 2 * NumChannels - 1 :
        a % NumChannels = IF a < NumChannels THEN a ELSE a - NumChannels
  BY <1>0, SMTT(30)
<1>2. c \in 0 .. NumChannels - 1 BY DEF Channel
<1>3. (c + k) % NumChannels = IF c + k < NumChannels THEN c + k ELSE c + k - NumChannels
  BY <1>0, <1>1, <1>2
<1>4. (c + (k + j)) % NumChannels
        = IF c + (k + j) < NumChannels THEN c + (k + j) ELSE c + (k + j) - NumChannels
  BY <1>0, <1>1, <1>2
<1>5. CASE c + k < NumChannels
  <2>1. ((c + k) % NumChannels) + j = c + (k + j) BY <1>0, <1>2, <1>3, <1>5
  <2> QED BY <2>1
<1>6. CASE ~(c + k < NumChannels)
  <2>1. ((c + k) % NumChannels) + j = c + k - NumChannels + j BY <1>0, <1>2, <1>3, <1>6
  <2>2. c + k - NumChannels + j \in 0 .. 2 * NumChannels - 1 BY <1>0, <1>2, <1>6
  <2>3. c + k - NumChannels + j < NumChannels BY <1>0, <1>2
  <2>4. (c + k - NumChannels + j) % NumChannels = c + k - NumChannels + j
    BY <1>1, <2>2, <2>3
  <2>5. (c + (k + j)) % NumChannels = c + (k + j) - NumChannels BY <1>0, <1>2, <1>4, <1>6
  <2> QED BY <1>0, <1>2, <2>1, <2>4, <2>5
<1> QED BY <1>5, <1>6

\* The start of a scan: every channel is the one it starts on or up to NumChannels - 1
\* steps away.
LEMMA AllAround ==
  ASSUME NEW c \in Channel, NEW d \in Channel
  PROVE  d = c \/ \E j \in 1 .. NumChannels - 1 : d = (c + j) % NumChannels
<1>0. NumChannels \in Nat /\ NumChannels > 0 BY ChannelAssumption
<1>1. c \in 0 .. NumChannels - 1 /\ d \in 0 .. NumChannels - 1 BY DEF Channel
<1>2. CASE d > c
  <2>1. d - c \in 1 .. NumChannels - 1 /\ c + (d - c) = d BY <1>0, <1>1, <1>2
  <2>2. d % NumChannels = d BY <1>0, <1>1
  <2> QED BY <2>1, <2>2
<1>3. CASE d < c
  <2>1. /\ d - c + NumChannels \in 1 .. NumChannels - 1
        /\ c + (d - c + NumChannels) = d + NumChannels
    BY <1>0, <1>1, <1>3
  <2>2. (d + NumChannels) % NumChannels = d BY <1>0, <1>1
  <2> QED BY <2>1, <2>2
<1> QED BY <1>1, <1>2, <1>3

\* The step to the next channel skips only channels that cannot be listened to.
LEMMA CoversNext ==
  ASSUME TypeOK, NEW n \in Node, Covers(n), mac[n].probeReqs = 0,
         NEW k \in 1 .. NumChannels, NextListenable(mac[n].channel, k),
         mac[n].numResults + k - 1 < NumChannels,
         mac'[n].channel = (mac[n].channel + k) % NumChannels,
         mac'[n].numResults = mac[n].numResults + k,
         mac'[n].probed = mac[n].probed, mac'[n].probeReqs = 1
  PROVE  Covers(n)' /\ mac'[n].channel \in Listenable
<1>0. NumChannels \in Nat /\ NumChannels > 0 /\ mac[n].channel \in Channel
  BY ChannelAssumption, NodeFacts DEF TypeOK
<1>1. mac'[n].channel \in Listenable BY DEF NextListenable
<1>2. mac'[n].numResults \in 1 .. NumChannels BY <1>0 DEF Covers
<1>3. ASSUME NEW c \in Listenable, c \notin mac[n].probed, c # mac'[n].channel
      PROVE  \E j \in 1 .. NumChannels - mac'[n].numResults :
               c = (mac'[n].channel + j) % NumChannels
  <2>1. PICK j \in 1 .. NumChannels - mac[n].numResults :
               c = (mac[n].channel + j) % NumChannels
    BY <1>3 DEF Covers
  <2>2. mac[n].numResults \in 1 .. NumChannels BY DEF Covers
  <2>3. ~(j \in 1 .. k - 1) BY <1>3, <2>1 DEF NextListenable
  <2>4. j # k BY <1>3, <2>1
  <2>5. /\ j - k \in 1 .. NumChannels - mac'[n].numResults
        /\ j - k \in 1 .. NumChannels /\ k + (j - k) = j /\ k + (j - k) <= NumChannels
    BY <1>0, <2>1, <2>2, <2>3, <2>4
  <2>6. (mac'[n].channel + (j - k)) % NumChannels = c BY <1>0, <2>1, <2>5, Around
  <2> QED BY <2>5, <2>6
<1> QED BY <1>1, <1>2, <1>3 DEF Covers

\* When the next step would be one too many, every channel has been probed.
LEMMA CoversAll ==
  ASSUME TypeOK, NEW n \in Node, Covers(n), mac[n].probeReqs = 0,
         NEW k \in 1 .. NumChannels, NextListenable(mac[n].channel, k),
         mac[n].numResults + k - 1 >= NumChannels
  PROVE  mac[n].probed = Listenable
<1>0. NumChannels \in Nat /\ NumChannels > 0 BY ChannelAssumption
<1>1. ASSUME NEW c \in Listenable, c \notin mac[n].probed PROVE FALSE
  <2>1. PICK j \in 1 .. NumChannels - mac[n].numResults :
               c = (mac[n].channel + j) % NumChannels
    BY <1>1 DEF Covers
  <2>2. mac[n].numResults \in 1 .. NumChannels BY DEF Covers
  <2>3. j \in 1 .. k - 1 BY <1>0, <2>1, <2>2
  <2> QED BY <2>1, <2>3 DEF NextListenable
<1> QED BY <1>1 DEF Covers

\* A step of the MAC goes on with the scan.
LEMMA FreshOfMacStep ==
  ASSUME TypeOK, NEW n \in Node, OneProbe(n), Fresh(n), MacStep(n)
  PROVE  Fresh(n)'
<1>0. /\ pending \in [Node -> Message] /\ mac \in [Node -> MacData]
      /\ phy \in [Node -> PhyData] /\ mac[n] \in MacData /\ phy[n] \in PhyData
      /\ NumChannels \in Nat /\ NumChannels > 0 /\ mac[n].channel \in Channel
      /\ mac[n].probeReqs \in {0, 1} /\ Listenable \subseteq Channel
  BY ChannelAssumption, NodeFacts DEF TypeOK, MacTypeOK, OneProbe
<1> USE DEF Fresh, Has
<1>1. CASE FromAppChanswitchRequest(n)
  <2>1. /\ mac'[n].timer = "ChanswitchRequest" /\ pending'[n].type = "none" /\ phy' = phy
        /\ mac'[n].channel = mac[n].channel /\ mac'[n].probeReqs = mac[n].probeReqs
    BY <1>0, <1>1 DEF FromAppChanswitchRequest, NoMsg, Msg, MacData
  <2>2. mac[n].probeReqs = 0 BY <1>0, <1>1 DEF FromAppChanswitchRequest, OneProbe
  <2> QED BY <2>1, <2>2
<1>2. ~FromAppChangeChannelRequest(n) BY DEF FromAppChangeChannelRequest
<1>3. CASE FromAppMACAddressRequest(n)
  <2>1. /\ mac'[n].timer = "MACAddressRequest" /\ pending'[n].type = "none" /\ phy' = phy
        /\ mac'[n].channel = mac[n].channel /\ mac'[n].probeReqs = mac[n].probeReqs
    BY <1>0, <1>3 DEF FromAppMACAddressRequest, NoMsg, Msg, MacData
  <2>2. mac[n].probeReqs = 0 BY <1>0, <1>3 DEF FromAppMACAddressRequest, OneProbe
  <2> QED BY <2>1, <2>2
<1>4. CASE StartScan(n)
  <2>1. mac[n].probeReqs = 0 BY <1>0, <1>4 DEF StartScan, OneProbe
  <2>2. /\ mac'[n].timer = "none" /\ pending' = pending /\ phy' = phy
        /\ mac'[n].channel = mac[n].channel /\ mac'[n].probeReqs = 1
        /\ mac'[n].numResults = 1 /\ mac'[n].probed = {}
    BY <1>0, <1>4, <2>1 DEF StartScan, MacData
  <2>3. Covers(n)' BY <1>0, <2>2, AllAround DEF Covers
  <2>4. ~Has(n, "ScanFinished")' BY <1>4, <2>2 DEF StartScan, OneProbe
  <2> QED BY <2>2, <2>3, <2>4
<1>5. ~ChangeChannelTimer(n) BY DEF ChangeChannelTimer
<1>6. CASE MACAddressTimer(n)
  <2>1. /\ mac'[n].timer = "none" /\ pending'[n].type = "MACAddressReply" /\ phy' = phy
        /\ mac'[n].channel = mac[n].channel /\ mac'[n].probeReqs = mac[n].probeReqs
    BY <1>0, <1>6 DEF MACAddressTimer, Msg, MacData
  <2>2. mac[n].probeReqs = 0 BY <1>0, <1>6 DEF MACAddressTimer, OneProbe
  <2> QED BY <2>1, <2>2
<1>7. CASE ProbeRequestTransmitted(n)
  <2>1. /\ mac'[n].timer = "ActiveScan" /\ pending' = pending /\ phy' = phy
        /\ mac'[n].channel = mac[n].channel /\ mac'[n].numResults = mac[n].numResults
        /\ mac'[n].probed = mac[n].probed \cup {mac[n].channel}
        /\ pending[n].type = "none" /\ Covers(n)
    BY <1>0, <1>7 DEF ProbeRequestTransmitted, Quiet, MacData
  <2>2. Covers(n)' BY <2>1 DEF Covers
  <2> QED BY <2>1, <2>2
<1>8. CASE ScanNextChannel(n)
  <2>0. mac[n].timer = "ActiveScan" /\ pending[n].type = "none" BY <1>8 DEF ScanNextChannel, Quiet
  <2>1. mac[n].probeReqs = 0 /\ Covers(n) BY <1>0, <2>0 DEF OneProbe
  <2>2. PICK k \in 1 .. NumChannels :
          /\ NextListenable(mac[n].channel, k) /\ mac[n].numResults + k - 1 < NumChannels
          /\ mac' = [mac EXCEPT ![n] =
                [@ EXCEPT !.timer = "none", !.channel = (mac[n].channel + k) % NumChannels,
                          !.numResults = mac[n].numResults + k,
                          !.probeReqs = mac[n].probeReqs + 1]]
          /\ phy' = [phy EXCEPT ![n] = Retuned(n, (mac[n].channel + k) % NumChannels)]
          /\ pending' = pending
    BY <1>8 DEF ScanNextChannel
  <2>3. /\ mac'[n].timer = "none" /\ mac'[n].channel = (mac[n].channel + k) % NumChannels
        /\ mac'[n].numResults = mac[n].numResults + k /\ mac'[n].probeReqs = 1
        /\ mac'[n].probed = mac[n].probed
    BY <1>0, <2>1, <2>2 DEF MacData
  <2>4. Covers(n)' /\ mac'[n].channel \in Listenable BY <2>1, <2>2, <2>3, CoversNext
  <2>5. phy'[n].tx = mac'[n].channel
    <3>1. phy'[n] = Retuned(n, mac'[n].channel) BY <1>0, <2>2, <2>3
    <3>2. Retuned(n, mac'[n].channel).tx = mac'[n].channel BY DEF Retuned
    <3> QED BY <3>1, <3>2
  <2> QED BY <2>0, <2>2, <2>3, <2>4, <2>5
<1>9. CASE ScanCompleted(n)
  <2>0. mac[n].timer = "ActiveScan" BY <1>9 DEF ScanCompleted
  <2>1. mac[n].probeReqs = 0 /\ Covers(n) BY <1>0, <2>0 DEF OneProbe
  <2>2. mac[n].probed = Listenable BY <1>9, <2>1, CoversAll DEF ScanCompleted
  <2>3. /\ mac'[n].timer = "none" /\ mac'[n].channel = mac[n].channel /\ phy' = phy
        /\ mac'[n].probeReqs = 0 /\ mac'[n].probed = mac[n].probed
        /\ pending'[n].type = "ScanFinished"
    BY <1>0, <1>9, <2>1 DEF ScanCompleted, Msg, MacData
  <2> QED BY <2>2, <2>3
<1> QED
  BY <1>1, <1>2, <1>3, <1>4, <1>5, <1>6, <1>7, <1>8, <1>9 DEF MacStep, MacNext

\* A step of the application leaves the scan alone, if it asks for no change of channel.
LEMMA FreshOfAppStep ==
  ASSUME NEW n, Fresh(n), mac'[n] = mac[n], phy'[n] = phy[n],
         pending'[n] = pending[n]
           \/ pending'[n].type \notin {"ChangeChannelRequest", "ScanFinished"}
  PROVE  Fresh(n)'
BY DEF Fresh, Covers, Has

\* A client that rests goes on resting.
LEMMA RestingOfMacStep ==
  ASSUME TypeOK, ClientOwns, Resting, MacStep(Tx)
  PROVE  Resting'
<1>0. /\ Tx \in Node /\ pending \in [Node -> Message] /\ mac \in [Node -> MacData]
      /\ mac[Tx] \in MacData /\ mac[Tx].probeReqs = 0
  BY ChannelFacts DEF TypeOK, MacTypeOK, Resting, TxIs
<1> USE DEF Resting, TxIs
<1>1. CASE FromAppChangeChannelRequest(Tx)
  <2>1. /\ pending' = [pending EXCEPT ![Tx] = NoMsg]
        /\ mac' = [mac EXCEPT ![Tx] =
                [@ EXCEPT !.appType = "TX_CLIENT", !.newChannel = pending[Tx].new,
                          !.timer = "ChangeChannelRequest"]]
    BY <1>0, <1>1 DEF FromAppChangeChannelRequest, ClientOwns
  <2> QED BY <1>0, <2>1 DEF NoMsg, Msg, MacData
<1>2. CASE ChangeChannelTimer(Tx)
  BY <1>0, <1>2 DEF ChangeChannelTimer, MacData
<1>3. /\ pending[Tx].type \in {"none", "ChangeChannelRequest"}
      /\ mac[Tx].timer \in {"none", "ChangeChannelRequest"}
  OBVIOUS
<1>4. ~FromAppChanswitchRequest(Tx) /\ ~FromAppMACAddressRequest(Tx)
  BY <1>3 DEF FromAppChanswitchRequest, FromAppMACAddressRequest, Has
<1>5. ~StartScan(Tx) /\ ~MACAddressTimer(Tx) BY <1>3 DEF StartScan, MACAddressTimer
<1>6. ~ProbeRequestTransmitted(Tx) BY <1>0 DEF ProbeRequestTransmitted
<1>7. ~ScanNextChannel(Tx) /\ ~ScanCompleted(Tx) BY <1>3 DEF ScanNextChannel, ScanCompleted
<1> QED BY <1>1, <1>2, <1>4, <1>5, <1>6, <1>7 DEF MacStep, MacNext

-----------------------------------------------------------------------------
(* The first round.                                                         *)

\* What the conversation says of the first packets of the two streams.
LEMMA HeardWhen ==
  ASSUME Conversation, Answered # Empty
  PROVE  /\ client.state = "TX_IDLE" => Head(Answered) # "PROBE_ACK"
         /\ client.state \in {"TX_PROBING", "TX_PROBE_WFRX"} /\ Head(Answered) = "NODE_LIST" =>
              Asked = Empty
<1>1. CASE client.state = "TX_IDLE"
  <2>1. Answered = One("VERIFY_ACK")
    BY <1>1 DEF Conversation, Talk, Probing, Waiting
  <2> QED BY <1>1, <2>1, Short
<1>2. CASE Head(Answered) = "NODE_LIST"
  <2>1. Answered = One("NODE_LIST") BY <1>2, Heard
  <2>2. /\ One("NODE_LIST") # Empty /\ Head(One("NODE_LIST")) = "NODE_LIST"
        /\ Head(One("VERIFY_ACK")) = "VERIFY_ACK"
    BY Short
  <2> QED BY <1>2, <2>1, <2>2 DEF Conversation, Talk
<1> QED BY <1>1, <1>2

\* A decision asks the server for a change, or for nothing.
LEMMA DecisionAsks ==
  ASSUME TypeOK
  PROVE  LET asks == Asked' \in {Asked, Append(Asked, "CHANGE_PKT")}
         IN /\ NodeListAfterProbing => asks
            /\ TxScanFinished /\ client.state = "TX_PROBING" /\ client.got => asks
<1>0. client \in ClientData BY DEF TypeOK, ClientTypeOK
<1>1. \A best \in BestChannels(client) : best \in Channel
  BY <1>0, BestIsChannel, ChannelFacts DEF BestChannels, ClientData
<1> DEFINE asks == Asked' \in {Asked, Append(Asked, "CHANGE_PKT")}
<1>2. ASSUME NodeListAfterProbing PROVE asks
  <2>1. PICK best \in BestChannels(client) :
          ChangeInit([client EXCEPT !.got = TRUE, !.listRound = Head(s2c).round], best)
    BY <1>2 DEF NodeListAfterProbing
  <2>2. Head(s2c).round \in Nat
    BY <1>2, LinkFacts, PacketType DEF NodeListAfterProbing, ToClient, TypeOK, LinkTypeOK
  <2>3. [client EXCEPT !.got = TRUE, !.listRound = Head(s2c).round] \in ClientData
    BY <1>0, <2>2 DEF ClientData
  <2> QED BY <1>1, <2>1, <2>3, ChangeInitAsks
<1>3. ASSUME TxScanFinished, client.state = "TX_PROBING", client.got PROVE asks
  <2>1. PICK best \in BestChannels(client) : ChangeInit(client, best)
    BY <1>3 DEF TxScanFinished
  <2> QED BY <1>0, <1>1, <2>1, ChangeInitAsks
<1> QED BY <1>2, <1>3

\* A step of the client.
LEMMA FirstOfClientStep ==
  ASSUME BackoffParts >= 2, TypeOK, Handshake, ClientNode, Meeting, FirstRound, FirstScans,
         ClientStep
  PROVE  FirstRound' /\ FirstScans'
<1>0. /\ mac' = mac /\ phy' = phy /\ server' = server /\ client \in ClientData /\ ClientNext
      /\ pending'[Rx] = pending[Rx] /\ client.round \in Nat
      /\ Conversation /\ BeforeOpening
  BY ClientLeavesServerNode
  DEF ClientStep, TypeOK, ClientTypeOK, ClientData, Handshake, Contents
<1>1. \A m : Ask(m) => pending'[Tx] = m
  BY ChannelFacts DEF Ask, TypeOK, MacTypeOK
<1>2. /\ \A old, new : ChangeChannels("TX_CLIENT", old, new).type = "ChangeChannelRequest"
      /\ StartProbing("TX_CLIENT").type = "ChanswitchRequest"
      /\ \A initial : GetMyMacAddr("TX_CLIENT", initial).type = "MACAddressRequest"
      /\ NoMsg.type = "none"
  BY DEF ChangeChannels, StartProbing, GetMyMacAddr, NoMsg, Msg
<1> DEFINE Few == {Empty, One("backoff")}
           Earlier == client'.round = client.round /\ client.round \in {0, 1}
           NoProbe == Asked' = One("PROBE_PKT") => Asked = One("PROBE_PKT")
           Harmless == \/ pending'[Tx] = pending[Tx]
                       \/ pending'[Tx].type \in {"none", "ChanswitchRequest", "MACAddressRequest"}
           \* nothing changes that matters here
           Calm == /\ client'.state = client.state /\ client'.round = client.round
                   /\ client'.timers = client.timers \/ client'.timers \in Few
                   /\ pending'[Tx] = pending[Tx]
                   /\ Asked' = Asked /\ (client.round = 0 => Answered' = Answered)
<1>3. ASSUME NoProbe, client'.round = client.round \/ client.round = 0, client.round <= client'.round
      PROVE  (FirstRx => Fresh(Rx))'
  <2>1. FirstRx' => FirstRx BY <1>0, <1>3 DEF FirstRx
  <2> QED BY <1>0, <2>1, FreshOfAppStep DEF FirstScans
<1>4. ASSUME Harmless, FirstTx PROVE Fresh(Tx)'
  BY <1>0, <1>4, FreshOfAppStep DEF FirstScans
<1>5. ASSUME Calm PROVE FirstRound' /\ FirstScans'
  <2>1. FirstTx' => FirstTx BY <1>5 DEF FirstTx
  <2>2. FirstScans' BY <1>0, <1>3, <1>4, <1>5, <2>1 DEF FirstScans
  <2>3. FirstRound' BY <1>0, <1>5 DEF FirstRound, Resting, TxIs
  <2> QED BY <2>2, <2>3
<1>6. ASSUME client'.round >= 2 PROVE FirstRound' /\ FirstScans'
  BY <1>0, <1>6 DEF FirstRound, FirstScans, FirstTx, FirstRx
<1>7. client.round = 1 /\ client.state \in {"TX_IDLE", "TX_PROBE_WFRX"} \cup Waiting => Resting
  BY DEF ClientNode, FirstRound
<1>8. client.round \in {0, 1} /\ client.state \notin {"TX_PROBE_INIT", "TX_PROBING"} => Resting
  BY <1>0, <1>7 DEF ClientNode, FirstRound, Waiting, ClientData, ClientState
\* A client that waits in its first round
<1>9. ASSUME client'.round = client.round, client.round \in {1}, client'.state \in Waiting,
             Resting', NoProbe
      PROVE  FirstRound' /\ FirstScans'
  <2>1. ~FirstTx' BY <1>9 DEF FirstTx, Waiting
  <2>2. FirstRound' BY <1>9 DEF FirstRound, Waiting, Probing
  <2> QED BY <1>0, <1>3, <1>9, <2>1, <2>2 DEF FirstScans
<1> HIDE DEF NoProbe, Harmless, Calm, Few
<1>10. CASE ClientOpen
  <2>1. client.round = 0 /\ client.timers = Empty /\ client.state = "TX_IDLE"
    BY <1>0, <1>10 DEF ClientOpen, Meeting, BeforeOpening
  <2>2. /\ client'.state = "TX_PROBE_INIT" /\ client'.round = client.round
        /\ client'.timers = Append(client.timers, "backoff")
        /\ pending'[Tx].type = "MACAddressRequest" /\ Asked' = Asked /\ Answered' = Answered
    BY <1>0, <1>1, <1>2, <1>10 DEF ClientOpen, BackingOff, ClientData, Asked, Answered
  <2>3. client'.timers = One("backoff") BY <2>1, <2>2, Short
  <2>4. FirstRound' BY <1>0, <2>1, <2>2, <2>3 DEF FirstRound, Probing
  <2>5. NoProbe /\ Harmless /\ FirstTx BY <2>1, <2>2 DEF NoProbe, Harmless, FirstTx
  <2> QED BY <1>0, <1>3, <1>4, <2>2, <2>4, <2>5 DEF FirstScans
<1>11. CASE InitiateChannelScan
  <2>1. /\ client'.state = "TX_PROBE_INIT" /\ client'.round = client.round
        /\ client'.timers = Append(client.timers, "backoff")
        /\ pending'[Tx].type = "MACAddressRequest" /\ Asked' = Asked /\ Answered' = Answered
        /\ ~client.initBackoff
    BY <1>0, <1>1, <1>2, <1>11
    DEF InitiateChannelScan, BackingOff, ClientData, Asked, Answered
  <2>2. client.timers # One("backoff")
    <3>1. client.backoff = 0 BY <2>1 DEF Handshake, Timers
    <3>2. client.timers \in {Empty, One("change"), One("verify")}
      <4>1. /\ BackoffParts \in Nat /\ client.backoff # BackoffParts
            /\ client.backoff # BackoffParts - 1
            /\ client.backoff \notin 1 .. BackoffParts - 2
        BY <3>1, ClientAssumption
      <4> QED BY <4>1 DEF Handshake, Timers, TimerQueue
    <3>3. /\ Empty # One("backoff") /\ Head(One("change")) = "change"
          /\ Head(One("verify")) = "verify" /\ Head(One("backoff")) = "backoff"
      BY Short
    <3> QED BY <3>2, <3>3
  <2>3. client.round = 0 => client'.timers = One("backoff")
    BY <2>1, <2>2, Short DEF FirstRound
  <2>4. FirstRound' BY <1>0, <2>1, <2>3 DEF FirstRound, Probing, Waiting
  <2>5. NoProbe /\ Harmless /\ (FirstTx' => FirstTx)
    BY <2>1 DEF NoProbe, Harmless, FirstTx
  <2> QED BY <1>0, <1>3, <1>4, <2>1, <2>4, <2>5 DEF FirstScans
<1>12. CASE ClientMACAddress
  <2>0. client.state = "TX_PROBE_INIT" /\ Answered' = Answered /\ pending'[Tx].type = "none"
    BY <1>1, <1>2, <1>12, AddressAsks DEF Handshake, ClientMACAddress
  <2>1. CASE client'.round = client.round + 1
    <3>1. client'.state = "TX_PROBE_WFACK" /\ client'.timers = client.timers
      <4>1. client.round # client.round + 1 BY <1>0
      <4>2. CASE client' = [client EXCEPT !.cur = pending[Tx].new, !.state = "TX_PROBE_WFACK",
                                          !.probeTimers = @ + 1, !.round = @ + 1]
        BY <1>0, <4>2 DEF ClientData
      <4>3. CASE client' = [client EXCEPT !.cur = pending[Tx].new, !.state = "TX_IDLE"]
        <5>1. client'.round = client.round BY <1>0, <4>3 DEF ClientData
        <5> QED BY <2>1, <4>1, <5>1
      <4> QED BY <1>12, <4>2, <4>3 DEF ClientMACAddress
    <3>2. CASE client.round = 0
      <4>1. FirstRound' BY <1>0, <2>1, <3>1, <3>2 DEF FirstRound, Probing, Waiting
      <4>2. FirstRx /\ FirstTx /\ Harmless BY <2>0, <3>2 DEF FirstRx, FirstTx, Harmless
      <4> QED BY <1>0, <1>4, <4>1, <4>2, FreshOfAppStep DEF FirstScans
    <3>3. CASE client.round # 0 BY <1>0, <1>6, <2>1, <3>3
    <3> QED BY <3>2, <3>3
  <2>2. CASE client'.round # client.round + 1
    <3>1. /\ client'.state = "TX_IDLE" /\ client'.timers = client.timers
          /\ client'.round = client.round /\ Asked' = Asked
      BY <1>0, <1>12, <2>2 DEF ClientMACAddress, ClientData, Asked
    <3>2. FirstRound' BY <1>0, <2>0, <3>1 DEF FirstRound, Probing, Waiting
    <3>3. NoProbe /\ Harmless /\ (FirstTx' => FirstTx)
      BY <2>0, <3>1 DEF NoProbe, Harmless, FirstTx
    <3> QED BY <1>0, <1>3, <1>4, <3>1, <3>2, <3>3 DEF FirstScans
  <2> QED BY <2>1, <2>2
<1>13. CASE ClientClose
  BY <1>0, <1>5, <1>13 DEF ClientClose, ClientData, Calm, Asked, Answered
<1>14. CASE ClientReceives
  <2>0. Answered # Empty /\ client.round # 0
    <3>1. \E t : ToClient(t)
      BY <1>14
      DEF ClientReceives, ProbeAckReceived, NodeListWhileProbing, NodeListAfterProbing,
          ChangeAckReceived, VerifyAckReceived, ClientIgnores
    <3> QED BY <3>1, Streams DEF FirstRound
  <2>1. CASE ProbeAckReceived
    <3>1. /\ client'.state = "TX_PROBING" /\ client'.round = client.round
          /\ client'.timers = client.timers /\ pending'[Tx].type = "ChanswitchRequest"
          /\ Asked' = Asked /\ client.state \in {"TX_IDLE", "TX_PROBE_WFACK"}
      BY <1>0, <1>1, <1>2, <2>1 DEF ProbeAckReceived, ClientData, Asked
    <3>2. client.state = "TX_PROBE_WFACK"
      BY <1>0, <2>0, <2>1, <3>1, HeardWhen, Streams DEF ProbeAckReceived
    <3>3. FirstRound' BY <1>0, <2>0, <3>1, <3>2 DEF FirstRound, Probing, Waiting
    <3>4. NoProbe /\ Harmless /\ (FirstTx' => FirstTx)
      BY <3>1, <3>2 DEF NoProbe, Harmless, FirstTx
    <3> QED BY <1>0, <1>3, <1>4, <3>1, <3>3, <3>4 DEF FirstScans
  <2>2. CASE NodeListWhileProbing
    BY <1>0, <1>5, <2>0, <2>2 DEF NodeListWhileProbing, ClientData, Calm, Asked
  <2>3. CASE NodeListAfterProbing
    <3>1. /\ client'.state = "TX_CHANGE_WFACK" /\ client'.round = client.round
          /\ pending' = pending /\ client.state = "TX_PROBE_WFRX"
      BY <1>0, <2>3 DEF NodeListAfterProbing, ChangeInit, ClientData
    <3>2. NoProbe
      <4>1. Asked = Empty
        BY <1>0, <2>0, <2>3, <3>1, HeardWhen, Streams DEF NodeListAfterProbing
      <4>2. Asked' \in {Asked, Append(Asked, "CHANGE_PKT")} BY <2>3, DecisionAsks
      <4>3. Asked' \in {Empty, One("CHANGE_PKT")} BY <4>1, <4>2, Short
      <4>4. One("PROBE_PKT") # Empty /\ Head(One("PROBE_PKT")) = "PROBE_PKT"
            /\ Head(One("CHANGE_PKT")) = "CHANGE_PKT"
        BY Short
      <4> QED BY <4>3, <4>4 DEF NoProbe
    <3>3. client.round = 1 => Resting /\ Resting' BY <1>0, <1>7, <3>1 DEF Resting, TxIs
    <3> QED BY <1>0, <1>6, <1>9, <2>0, <3>1, <3>2, <3>3 DEF Waiting
  <2>4. CASE ChangeAckReceived \/ VerifyAckReceived
    <3>1. client'.state = "TX_IDLE" /\ client'.round = client.round /\ Asked' = Asked
      BY <1>0, <2>4 DEF ChangeAckReceived, VerifyAckReceived, ClientData, Asked
    <3>2. FirstRound' BY <2>0, <3>1 DEF FirstRound, Probing, Waiting
    <3>3. ~FirstTx' /\ NoProbe BY <2>0, <3>1 DEF FirstTx, NoProbe
    <3> QED BY <1>0, <1>3, <3>1, <3>2, <3>3 DEF FirstScans
  <2>5. CASE ClientIgnores
    BY <1>0, <1>5, <2>0, <2>5 DEF ClientIgnores, Calm, Asked
  <2> QED BY <1>14, <2>1, <2>2, <2>3, <2>4, <2>5 DEF ClientReceives
<1>15. CASE TxScanFinished
  <2>0. pending[Tx].type = "ScanFinished" /\ client'.round = client.round
    BY <1>0, <1>15 DEF TxScanFinished, ChangeInit, ClientData, Has
  <2>1. CASE client.state = "TX_PROBING" /\ ~client.got
    <3>1. /\ client'.state = "TX_PROBE_WFRX" /\ client'.timers = client.timers
          /\ Asked' = Asked /\ Answered' = Answered
      BY <1>0, <1>15, <2>1 DEF TxScanFinished, ClientData, Asked, Answered
    <3>2. client.round # 0 BY <2>1 DEF FirstRound
    <3>3. FirstRound' BY <1>0, <2>0, <2>1, <3>1, <3>2 DEF FirstRound, Probing, Waiting
    <3>4. ~FirstTx' /\ NoProbe BY <2>0, <3>1, <3>2 DEF FirstTx, NoProbe
    <3> QED BY <1>0, <1>3, <2>0, <3>3, <3>4 DEF FirstScans
  <2>2. CASE client.state = "TX_PROBING" /\ client.got
    <3>1. client'.state = "TX_CHANGE_WFACK" /\ pending'[Tx].type = "none"
      BY <1>0, <1>1, <1>2, <1>15, <2>2 DEF TxScanFinished, ChangeInit, ClientData
    <3>2. NoProbe
      <4>1. Asked = Empty BY <2>2 DEF Handshake, Contents, ListAtHand
      <4>2. Asked' \in {Asked, Append(Asked, "CHANGE_PKT")} BY <1>15, <2>2, DecisionAsks
      <4> QED BY <4>1, <4>2, Short DEF NoProbe
    <3>3. Resting' BY <1>0, <2>0, <2>2, <3>1 DEF ClientNode, Scanning, Resting, TxIs
    <3>4. client.round # 0 BY <2>2 DEF FirstRound
    <3> QED BY <1>0, <1>6, <1>9, <2>0, <3>1, <3>2, <3>3, <3>4 DEF Waiting
  <2>3. CASE client.state # "TX_PROBING"
    <3>1. client.round \notin {0, 1}
      BY <1>8, <2>0, <2>3 DEF ClientNode, AddressAsked, Resting, TxIs
    <3> QED BY <1>0, <1>6, <2>0, <3>1
  <2> QED BY <2>1, <2>2, <2>3
<1>16. Head(One("backoff")) = "backoff" /\ Tail(One("backoff")) = Empty
       /\ Append(Empty, "backoff") = One("backoff")
  BY Short
<1>17. CASE ProbeWfAckTimeout
  <2>1. CASE client.state = "TX_PROBE_WFACK"
    <3>1. /\ client'.state = "TX_PROBING" /\ client'.round = client.round
          /\ client'.timers = client.timers /\ pending'[Tx].type = "ChanswitchRequest"
          /\ Asked' = Asked /\ Answered' = Answered
      BY <1>0, <1>1, <1>2, <1>17, <2>1 DEF ProbeWfAckTimeout, ClientData, Asked, Answered
    <3>2. FirstRound' BY <1>0, <2>1, <3>1 DEF FirstRound, Probing, Waiting
    <3>3. NoProbe /\ Harmless /\ (FirstTx' => FirstTx)
      BY <2>1, <3>1 DEF NoProbe, Harmless, FirstTx, FirstRound
    <3> QED BY <1>0, <1>3, <1>4, <3>1, <3>2, <3>3 DEF FirstScans
  <2>2. CASE client.state # "TX_PROBE_WFACK"
    BY <1>0, <1>5, <1>17, <2>2 DEF ProbeWfAckTimeout, ClientData, Calm, Asked, Answered
  <2> QED BY <2>1, <2>2
\* A timer other than the backoff's
<1>18. ASSUME Quiet(Tx), client.timers # Empty, Head(client.timers) # "backoff",
              client'.round = client.round, c2s' = c2s, client.round = 1
       PROVE  client.state \notin Probing /\ Resting /\ NoProbe
  <2>1. client.state \notin Probing BY <1>16, <1>18 DEF FirstRound
  <2>2. client.state # "TX_PROBE_INIT"
    BY <1>18 DEF Handshake, AskingAddress, Asking, Quiet, Has, ZeroDelayTimer
  <2> QED BY <1>8, <1>18, <2>1, <2>2 DEF NoProbe, Asked, Probing
<1>19. ASSUME client.timers # Empty, Head(client.timers) # "backoff"
       PROVE  client.round # 0
  BY <1>16, <1>19 DEF FirstRound
<1>20. Quiet(Tx) /\ Resting /\ pending'[Tx].type = "ChangeChannelRequest" => Resting'
  BY <1>0 DEF Quiet, ZeroDelayTimer, Resting, TxIs, Has
<1>21. CASE ChangeWfAckTimeout
  <2>0. /\ Quiet(Tx) /\ client.timers # Empty /\ Head(client.timers) = "change"
        /\ client'.round = client.round /\ c2s' = c2s /\ s2c' = s2c
    BY <1>0, <1>21 DEF ChangeWfAckTimeout, TimerExpires, ClientData, Empty
  <2>1. client.round # 0 BY <1>19, <2>0
  <2>2. CASE client.round = 1
    <3>1. client.state \notin Probing /\ Resting /\ NoProbe BY <1>18, <2>0, <2>2
    <3>2. CASE client.state = "TX_CHANGE_WFACK"
      <4>1. client'.state = "TX_VERIFY_WFACK" BY <1>0, <1>21, <3>2 DEF ChangeWfAckTimeout, ClientData
      <4>2. Ask(ChangeChannels("TX_CLIENT", client.cur, client.next))
        BY <1>21, <3>2 DEF ChangeWfAckTimeout
      <4>3. pending'[Tx].type = "ChangeChannelRequest" BY <1>1, <1>2, <4>2
      <4> QED BY <1>9, <1>20, <2>0, <2>2, <3>1, <4>1, <4>3 DEF Waiting
    <3>3. CASE client.state # "TX_CHANGE_WFACK"
      <4>1. client'.state = client.state /\ pending' = pending
        BY <1>0, <1>21, <3>3 DEF ChangeWfAckTimeout, ClientData
      <4>2. FirstRound' BY <1>0, <2>0, <2>2, <3>1, <4>1 DEF FirstRound, Resting, TxIs
      <4>3. ~FirstTx' BY <2>0, <2>2, <3>1, <4>1 DEF FirstTx, Probing
      <4> QED BY <1>0, <1>3, <2>0, <3>1, <4>2, <4>3 DEF FirstScans
    <3> QED BY <3>2, <3>3
  <2> QED BY <1>0, <1>6, <2>0, <2>1, <2>2
<1>22. CASE VerifyWfAckTimeout
  <2>0. /\ Quiet(Tx) /\ client.timers # Empty /\ Head(client.timers) = "verify"
        /\ client'.round = client.round /\ c2s' = c2s /\ s2c' = s2c
        /\ client'.state = "TX_CHANGE_WFACK" /\ pending'[Tx].type = "ChangeChannelRequest"
    BY <1>0, <1>1, <1>2, <1>22 DEF VerifyWfAckTimeout, TimerExpires, ClientData, Empty
  <2>1. client.round # 0 BY <1>19, <2>0
  <2>2. CASE client.round = 1
    <3>1. Resting /\ NoProbe BY <1>18, <2>0, <2>2
    <3> QED BY <1>9, <1>20, <2>0, <2>2, <3>1 DEF Waiting
  <2> QED BY <1>0, <1>6, <2>0, <2>1, <2>2
<1>23. CASE BackoffPartOver
  <2>1. /\ client'.state = client.state /\ client'.round = client.round
        /\ pending' = pending /\ c2s' = c2s /\ s2c' = s2c
        /\ client'.timers \in {Append(Tail(client.timers), "backoff"), Tail(client.timers)}
        /\ client.timers # Empty
    BY <1>0, <1>23 DEF BackoffPartOver, TimerExpires, ClientData, Empty
  <2>2. client.timers \in Few => client'.timers \in Few BY <1>16, <2>1 DEF Few
  <2>3. FirstRound'
    BY <1>0, <2>1, <2>2 DEF FirstRound, Few, Asked, Answered, Resting, TxIs
  <2>4. FirstTx' => FirstTx BY <2>1 DEF FirstTx
  <2>5. NoProbe /\ Harmless BY <2>1 DEF NoProbe, Harmless, Asked
  <2> QED BY <1>0, <1>3, <1>4, <2>1, <2>3, <2>4, <2>5 DEF FirstScans
<1>24. CASE ChannelSelectionTimeout
  BY <1>0, <1>5, <1>24 DEF ChannelSelectionTimeout, ClientData, Calm, Asked, Answered
<1> QED
  BY <1>0, <1>10, <1>11, <1>12, <1>13, <1>14, <1>15, <1>17, <1>21, <1>22, <1>23, <1>24
  DEF ClientNext, ClientTimeout

\* Nor does what happens at the client's node move the server's radio.
LEMMA ClientLeavesServerRadio ==
  ASSUME TypeOK, MacStep(Tx)
  PROVE  phy'[Rx] = phy[Rx]
BY ChannelFacts
DEF MacStep, MacNext, FromAppChanswitchRequest, FromAppChangeChannelRequest,
    FromAppMACAddressRequest, StartScan, ChangeChannelTimer, MACAddressTimer,
    ProbeRequestTransmitted, ScanNextChannel, ScanCompleted, TypeOK, MacTypeOK

\* A step of the server.
LEMMA FirstOfServerStep ==
  ASSUME TypeOK, ServerPhases, Handshake, FirstRound, FirstScans, ServerStep
  PROVE  FirstRound' /\ FirstScans'
<1>0. /\ mac' = mac /\ phy' = phy /\ client' = client /\ server \in ServerData
      /\ pending'[Tx] = pending[Tx] /\ Resting' = Resting /\ Conversation /\ ServerNext
  BY TxChannelKept DEF ServerStep, TypeOK, ServerTypeOK, Handshake
<1>1. \A m : Tell(m) => pending'[Rx] = m BY ChannelFacts DEF Tell, TypeOK, MacTypeOK
<1>2. /\ StartProbing("RX_SERVER").type = "ChanswitchRequest"
      /\ \A initial : GetMyMacAddr("RX_SERVER", initial).type = "MACAddressRequest"
  BY DEF StartProbing, GetMyMacAddr, Msg
<1> DEFINE Harmless == \/ pending'[Rx] = pending[Rx]
                       \/ pending'[Rx].type \in {"MACAddressRequest", "ChanswitchRequest"}
<1>3. FirstTx' = FirstTx /\ (FirstTx => Fresh(Tx)')
  BY <1>0, FreshOfAppStep DEF FirstTx, FirstScans
<1>4. Harmless /\ FirstRx => Fresh(Rx)' BY <1>0, FreshOfAppStep DEF FirstScans
<1>5. ASSUME client.round # 0, FirstRx' => FirstRx /\ Harmless,
             client.round = 1 /\ client.state \in Probing => server'.state # "RX_CHANGE_ACK"
      PROVE  FirstRound' /\ FirstScans'
  <2>1. FirstRound' BY <1>0, <1>5 DEF FirstRound
  <2> QED BY <1>3, <1>4, <1>5, <2>1 DEF FirstScans
<1>6. \A t : ToServer(t) /\ c2s' = Tail(c2s) => Asked = One(t) /\ Asked' = Empty
  <2>1. \A t : Asked # Empty /\ Head(Asked) = t => Asked = One(t) /\ Tail(Asked) = Empty
    BY <1>0, Short DEF Conversation, Talk
  <2> QED BY <2>1, Streams DEF Asked
<1>7. /\ One("PROBE_PKT") # Empty /\ One("CHANGE_PKT") # Empty
      /\ One("PROBE_PKT") # One("CHANGE_PKT")
  BY Short
<1>8. server.state # "RX_IDLE" \/ Asked # Empty => client.round # 0 BY DEF FirstRound
<1>9. CASE ServerOpen \/ ServerClose
  <2>1. /\ server'.state = server.state /\ pending' = pending /\ Asked' = Asked
        /\ Answered' = Answered
    BY <1>0, <1>9 DEF ServerOpen, ServerClose, ServerData, Asked, Answered
  <2>2. FirstRound' BY <1>0, <2>1 DEF FirstRound
  <2>3. FirstRx' = FirstRx BY <1>0, <2>1 DEF FirstRx
  <2> QED BY <1>3, <1>4, <2>1, <2>2, <2>3 DEF FirstScans
<1>10. CASE ProbePktReceived
  <2>1. /\ server'.state = "RX_PROBE_ACK" /\ pending' = pending
        /\ Asked = One("PROBE_PKT") /\ Asked' = Empty
    BY <1>0, <1>6, <1>10 DEF ProbePktReceived, ServerData
  <2>2. client.round # 0 BY <1>7, <1>8, <2>1
  <2>3. FirstRx' => FirstRx BY <1>0, <2>1 DEF FirstRx
  <2> QED BY <1>5, <2>1, <2>2, <2>3
<1>11. CASE ChangePktReceived
  <2>1. /\ server'.state = "RX_CHANGE_ACK" /\ Asked = One("CHANGE_PKT") /\ Asked' = Empty
    BY <1>0, <1>6, <1>11 DEF ChangePktReceived, ServerData
  <2>2. client.round # 0 BY <1>7, <1>8, <2>1
  <2>3. client.state \in Waiting BY <1>0, <1>7, <2>1 DEF Conversation, Talk
  <2>4. ~FirstRx' BY <1>0, <1>7, <2>1, <2>2 DEF FirstRx
  <2> QED BY <1>5, <2>2, <2>3, <2>4 DEF Waiting, Probing
<1>12. CASE PacketDropped
  <2>1. /\ server' = server /\ pending' = pending /\ Asked' = Empty /\ Asked # Empty
    BY <1>6, <1>7, <1>12 DEF PacketDropped
  <2>2. client.round # 0 BY <1>8, <2>1
  <2>3. FirstRx' => FirstRx BY <1>0, <1>7, <2>1 DEF FirstRx
  <2> QED BY <1>5, <2>1, <2>2, <2>3 DEF FirstRound
<1>13. CASE RxProbeAckDelay
  <2>1. server'.state = server.state /\ Asked' = Asked /\ Harmless
    BY <1>0, <1>1, <1>2, <1>13 DEF RxProbeAckDelay, ServerData, Asked
  <2>2. server.state = "RX_PROBE_ACK"
    BY <1>13, SingletonQueue DEF RxProbeAckDelay, DelayExpires, ServerPhases, RxIs
  <2>3. FirstRx' => FirstRx BY <1>0, <2>1 DEF FirstRx
  <2> QED BY <1>5, <1>8, <2>1, <2>2, <2>3
<1>14. CASE RxChangeAckDelay
  <2>1. server'.state = "RX_IDLE" /\ Asked' = Asked
    BY <1>0, <1>14 DEF RxChangeAckDelay, ServerData, Asked
  <2>2. server.state = "RX_CHANGE_ACK"
    BY <1>14, SingletonQueue DEF RxChangeAckDelay, DelayExpires, ServerPhases, RxIs
  <2>3. Asked = One("PROBE_PKT") => client.state \in Probing
    BY <1>0, <1>7, <2>2 DEF Conversation, Talk
  <2>4. client.round # 0 BY <1>8, <2>2
  <2>5. ~FirstRx' BY <1>0, <2>1, <2>2, <2>3, <2>4 DEF FirstRx, FirstRound
  <2> QED BY <1>5, <2>1, <2>4, <2>5
<1>15. CASE ServerMACAddress
  <2>1. server'.state = server.state /\ Asked' = Asked /\ Harmless
    BY <1>0, <1>1, <1>2, <1>15 DEF ServerMACAddress, ServerData, Asked
  <2>2. server.state = "RX_PROBE_ACK" BY <1>15 DEF ServerMACAddress, Has, ServerPhases, RxIs
  <2>3. FirstRx' => FirstRx BY <1>0, <2>1 DEF FirstRx
  <2> QED BY <1>5, <1>8, <2>1, <2>2, <2>3
<1>16. CASE RxScanFinished
  <2>1. server'.state = "RX_IDLE" /\ Asked' = Asked
    BY <1>0, <1>16 DEF RxScanFinished, ServerData, Asked
  <2>2. server.state = "RX_PROBE_ACK" BY <1>16 DEF RxScanFinished, Has, ServerPhases, RxIs
  <2>3. Asked = Empty BY <1>0, <2>2 DEF Conversation, Talk
  <2>4. client.round # 0 BY <1>8, <2>2
  <2>5. ~FirstRx' BY <1>0, <1>7, <2>1, <2>3, <2>4 DEF FirstRx
  <2> QED BY <1>5, <2>1, <2>4, <2>5
<1> QED
  BY <1>0, <1>9, <1>10, <1>11, <1>12, <1>13, <1>14, <1>15, <1>16
  DEF ServerNext, ServerReceives, ServerTimeout

\* A step of a MAC.
LEMMA FirstOfMacStep ==
  ASSUME TypeOK, ServerPhases, ClientOwns, ClientNode, FirstRound, FirstScans,
         NEW n \in Node, MacStep(n)
  PROVE  FirstRound' /\ FirstScans'
<1>0. /\ client' = client /\ server' = server /\ client \in ClientData
      /\ Asked' = Asked /\ Answered' = Answered /\ FirstTx' = FirstTx /\ FirstRx' = FirstRx
  BY DEF MacStep, Asked, Answered, FirstTx, FirstRx, TypeOK, ClientTypeOK
<1>1. ASSUME FirstTx => Fresh(Tx)', FirstRx => Fresh(Rx)', Resting => Resting'
      PROVE  FirstRound' /\ FirstScans'
  <2>1. FirstRound' BY <1>0, <1>1 DEF FirstRound
  <2> QED BY <1>0, <1>1, <2>1 DEF FirstScans
<1>2. CASE n = Tx
  <2>1. Resting => Resting' BY <1>2, RestingOfMacStep
  <2>2. FirstTx => OneProbe(Tx)
    BY DEF FirstTx, FirstRound, ClientNode, Resting, AddressAsked, Scanning, TxIs, OneProbe, Has
  <2>3. FirstTx => Fresh(Tx)' BY <1>2, <2>2, ChannelFacts, FreshOfMacStep DEF FirstScans
  <2>4. phy'[Rx] = phy[Rx] /\ mac'[Rx] = mac[Rx] /\ pending'[Rx] = pending[Rx]
    BY <1>2, ClientLeavesServerRadio, ClientLeavesServerNode
  <2>5. FirstRx => Fresh(Rx)' BY <2>4, FreshOfAppStep DEF FirstScans
  <2> QED BY <1>1, <2>1, <2>3, <2>5
<1>3. CASE n = Rx
  <2>1. /\ Resting' = Resting /\ pending'[Tx] = pending[Tx] /\ mac'[Tx] = mac[Tx]
        /\ phy'[Tx] = phy[Tx]
    BY <1>3, TxChannelKept, ServerLeavesClientNode
  <2>2. FirstTx => Fresh(Tx)' BY <2>1, FreshOfAppStep DEF FirstScans
  <2>3. OneProbe(Rx) BY DEF ServerPhases, RxIs, OneProbe, Has
  <2>4. FirstRx => Fresh(Rx)' BY <1>3, <2>3, ChannelFacts, FreshOfMacStep DEF FirstScans
  <2> QED BY <1>1, <2>1, <2>2, <2>4
<1> QED BY <1>2, <1>3 DEF Node

\* The first scans go around all the channels.
LEMMA FirstScansHold ==
  ASSUME BackoffParts >= 2
  PROVE  Spec => [](FirstRound /\ FirstScans)
<1> DEFINE Inv == FirstRound /\ FirstScans
<1>1. Init => Inv
  <2> SUFFICES ASSUME Init PROVE Inv OBVIOUS
  <2>1. /\ client.state = "TX_IDLE" /\ client.round = 0 /\ server.state = "RX_IDLE"
        /\ Answered = Empty /\ Asked = Empty /\ client.timers = Empty
    BY TypesOfEmpty DEF Init, ClientInit, ServerInit, LinkInit, Answered, Asked, Empty
  <2>2. \A n \in Node : Fresh(n)
    BY ChannelAssumption DEF Init, MacInit, NoMsg, Msg, Fresh, Has
  <2> QED BY <2>1, <2>2, ChannelFacts DEF FirstRound, FirstScans, Probing, Waiting
<1>2. TypeOK /\ ServerPhases /\ ClientOwns /\ Handshake /\ ClientNode /\ Meeting /\ Inv
        /\ [Next]_vars => Inv'
  <2> SUFFICES ASSUME TypeOK, ServerPhases, ClientOwns, Handshake, ClientNode, Meeting, Inv,
                      [Next]_vars
               PROVE  Inv'
    OBVIOUS
  <2>1. CASE ServerStep BY <2>1, FirstOfServerStep
  <2>2. CASE ClientStep BY <2>2, FirstOfClientStep
  <2>3. ASSUME NEW n \in Node, MacStep(n) PROVE Inv' BY <2>3, FirstOfMacStep
  <2>4. CASE UNCHANGED vars
    BY <2>4
    DEF vars, FirstRound, FirstScans, FirstTx, FirstRx, Fresh, Covers, Has, Resting, TxIs,
        Asked, Answered
  <2> HIDE DEF Inv
  <2> QED BY <2>1, <2>2, <2>3, <2>4 DEF Next
<1> QED
  BY <1>1, <1>2, TypeCorrect, ServerPhasesHold, ClientOwnsHolds, HandshakeHolds, MeetingHolds, PTL
  DEF Spec

\* The scan of the first round probes every channel the radio can listen to, on both
\* nodes: numResults, which starts at 1, then counts the channels and leaves none out.
THEOREM FirstScanIsComplete ==
  ASSUME BackoffParts >= 2
  PROVE  Spec => []FirstScanCovers
<1>1. TypeOK /\ ServerPhases /\ ClientNode /\ FirstRound /\ FirstScans => FirstScanCovers
  <2> SUFFICES ASSUME TypeOK, ServerPhases, ClientNode, FirstRound, FirstScans,
                      NEW n \in Node, Has(n, "ScanFinished"), client.round = 1
               PROVE  mac[n].probed = Listenable
    BY DEF FirstScanCovers
  <2>1. CASE n = Tx
    <3>1. ~Resting /\ ~AddressAsked BY <2>1 DEF Resting, AddressAsked, TxIs, Has
    <3>2. client.state = "TX_PROBING"
      BY <3>1 DEF ClientNode, FirstRound, Waiting, TypeOK, ClientTypeOK, ClientData, ClientState
    <3> QED BY <2>1, <3>2 DEF FirstScans, FirstTx, Fresh
  <2>2. CASE n = Rx
    <3>1. server.state = "RX_PROBE_ACK" BY <2>2 DEF Has, ServerPhases, RxIs
    <3> QED BY <2>2, <3>1 DEF FirstScans, FirstRx, Fresh
  <2> QED BY <2>1, <2>2 DEF Node
<1> QED BY <1>1, FirstScansHold, MeetingHolds, ServerPhasesHold, TypeCorrect, PTL
=============================================================================
