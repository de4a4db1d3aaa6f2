----------------------------- MODULE SinrSwitch -----------------------------
(***************************************************************************)
(* SINR-based switching: the client asks, the server measures interference  *)
(* on every channel, chooses one, and both change to it.  The two           *)
(* applications (app_chanswitch_sinr.cpp), the interference scan of the     *)
(* server's MAC (mac_dot11.cpp), and the TCP streams between them.          *)
(*                                                                         *)
(* As in Dot11Mac, pending[n] is the zero-delay message on its way inside   *)
(* node n, handled before anything else at that node.                       *)
(***************************************************************************)
EXTENDS Integers, Sequences

CONSTANTS
  Tx, Rx,        \* the client's node and the server's node
  NumChannels,   \* PROP_NumberChannels
  Switchable,    \* PHY-CHANSWITCH-CHANNEL-MASK
  FirstChannel,  \* the channel both radios start on
  AsdcsInit,     \* MAC option: scan as soon as the connection opens
  Levels         \* interference levels a channel may be measured at

Channel == 0 .. NumChannels - 1

SinrAssumption ==
  /\ Tx # Rx
  /\ NumChannels \in Nat \ {0}
  /\ Switchable \subseteq Channel /\ Switchable # {}
  /\ FirstChannel \in Channel
  /\ AsdcsInit \in BOOLEAN
  /\ Levels \subseteq Int /\ Levels # {}

VARIABLES
  pending,   \* [Node -> Message]
  phy,       \* [Node -> transmission channel and channels listened to]
  scan,      \* the interference scan of the server's PHY
  c2s, s2c,  \* the two streams of the connection
  client, server,
  aborted    \* APP_ProcessEvent met a protocol it does not know

vars == <<pending, phy, scan, c2s, s2c, client, server, aborted>>

Node == {Tx, Rx}

Message ==
  [type : {"none", "MACAddressRequest", "MACAddressReply", "ChangeChannelRequest",
           "InitiateSinrScan", "ScanFinished"},
   old : Channel, new : Channel, initial : BOOLEAN]

Msg(type, old, new, initial) ==
  [type |-> type, old |-> old, new |-> new, initial |-> initial]

NoMsg == Msg("none", 0, 0, FALSE)
Has(n, type) == pending[n].type = type
Quiet(n) == Has(n, "none")
Post(n, message) == pending' = [pending EXCEPT ![n] = message]
ChangeChannels(old, new) == Msg("ChangeChannelRequest", old, new, FALSE)

CanHear(m, n) == phy[m].tx \in phy[n].listening

Send(queue, closed, packet) == IF closed THEN queue ELSE Append(queue, packet)
ToServer(type) == c2s # <<>> /\ Head(c2s) = type /\ CanHear(Tx, Rx) /\ Quiet(Rx)
ToClient == s2c # <<>> /\ CanHear(Rx, Tx) /\ Quiet(Tx)

TypeOK ==
  /\ pending \in [Node -> Message]
  /\ phy \in [Node -> [tx : Channel, listening : SUBSET Channel]]
  /\ scan \in [probing : BOOLEAN, timer : BOOLEAN, checked : SUBSET Channel,
               avg : [Channel -> Levels \cup {0}]]
  /\ c2s \in Seq({"TX_SCAN_PKT", "TX_CHANGE_ACK", "TX_VERIFY_ACK"})
  /\ s2c \in Seq(Channel)      \* RX_CHANGE_PKT is the only packet to the client
  /\ client \in [state : {"TX_S_IDLE", "TX_SCAN_INIT"}, opened : BOOLEAN,
                 closed : BOOLEAN, cur : Channel, next : Channel, initBackoff : BOOLEAN,
                 backoffTimers : Nat, ackDelays : Nat]
  /\ server \in [state : {"RX_S_IDLE", "RX_SCANNING", "RX_CHANGE_WFACK", "RX_VERIFY_WFACK"},
                 opened : BOOLEAN, closed : BOOLEAN, cur : Channel, next : Channel,
                 avg : [Channel -> Levels \cup {0}], changeTimers : Nat, verifyTimers : Nat]
  /\ aborted \in BOOLEAN

Init ==
  /\ pending = [n \in Node |-> NoMsg]
  /\ phy = [n \in Node |-> [tx |-> FirstChannel, listening |-> {FirstChannel}]]
  /\ scan = [probing |-> FALSE, timer |-> FALSE, checked |-> {},
             avg |-> [c \in Channel |-> 0]]
  /\ c2s = <<>> /\ s2c = <<>>
  /\ client = [state |-> "TX_S_IDLE", opened |-> FALSE, closed |-> FALSE, cur |-> 0,
               next |-> 0, initBackoff |-> FALSE, backoffTimers |-> 0, ackDelays |-> 0]
  /\ server = [state |-> "RX_S_IDLE", opened |-> FALSE, closed |-> FALSE, cur |-> 0,
               next |-> 0, avg |-> [c \in Channel |-> 0], changeTimers |-> 0,
               verifyTimers |-> 0]
  /\ aborted = FALSE

-----------------------------------------------------------------------------
(* AppLayerChanswitchSinrClient *)

ServerSide == <<phy, scan, s2c, server, aborted>>

\* MSG_APP_FromTransOpenResult
ClientOpen ==
  /\ Quiet(Tx) /\ ~client.opened
  /\ client' = [client EXCEPT !.opened = TRUE, !.state = "TX_SCAN_INIT",
                              !.initBackoff = TRUE, !.backoffTimers = @ + 1]
  /\ Post(Tx, Msg("MACAddressRequest", 0, 0, TRUE))
  /\ UNCHANGED <<c2s, ServerSide>>

\* MSG_APP_InitiateChannelScanRequest
InitiateChannelScan ==
  /\ Quiet(Tx) /\ client.opened
  /\ client.state = "TX_S_IDLE" /\ ~client.initBackoff
  /\ client' = [client EXCEPT !.state = "TX_SCAN_INIT", !.initBackoff = TRUE,
                              !.backoffTimers = @ + 1]
  /\ Post(Tx, Msg("MACAddressRequest", 0, 0, FALSE))
  /\ UNCHANGED <<c2s, ServerSide>>

\* MSG_APP_FromMac_MACAddressRequest
ClientMACAddress ==
  /\ Has(Tx, "MACAddressReply")
  /\ Post(Tx, NoMsg)
  /\ \/ /\ pending[Tx].initial => AsdcsInit
        /\ client' = [client EXCEPT !.cur = pending[Tx].new, !.state = "TX_SCAN_INIT"]
        /\ c2s' = Send(c2s, client.closed, "TX_SCAN_PKT")
     \/ /\ pending[Tx].initial /\ ~AsdcsInit
        /\ client' = [client EXCEPT !.cur = pending[Tx].new, !.state = "TX_S_IDLE"]
        /\ UNCHANGED c2s
  /\ UNCHANGED ServerSide

\* MSG_APP_FromTransDataReceived, RX_CHANGE_PKT in TX_SCAN_INIT
ChangePktReceived ==
  /\ ToClient /\ ~client.closed /\ client.state = "TX_SCAN_INIT"
  /\ client' = [client EXCEPT !.next = Head(s2c), !.ackDelays = @ + 1]
  /\ c2s' = Append(c2s, "TX_CHANGE_ACK")
  /\ s2c' = Tail(s2c)
  /\ UNCHANGED <<pending, phy, scan, server, aborted>>

\* MSG_APP_TxChangeAckDelay.  The client stays in TX_SCAN_INIT.
ChangeAckDelay ==
  /\ Quiet(Tx) /\ client.ackDelays > 0
  /\ client' = [client EXCEPT !.ackDelays = @ - 1]
  /\ Post(Tx, ChangeChannels(client.cur, client.next))
  /\ c2s' = Send(c2s, client.closed, "TX_VERIFY_ACK")
  /\ UNCHANGED ServerSide

\* MSG_APP_TxChannelSelectionTimeout
ChannelSelectionTimeout ==
  /\ Quiet(Tx) /\ client.backoffTimers > 0
  /\ client' = [client EXCEPT !.initBackoff = FALSE, !.backoffTimers = @ - 1]
  /\ UNCHANGED <<pending, c2s, ServerSide>>

\* MSG_APP_FromTransCloseResult
ClientClose ==
  /\ Quiet(Tx) /\ client.opened /\ ~client.closed
  /\ client' = [client EXCEPT !.closed = TRUE]
  /\ UNCHANGED <<pending, c2s, ServerSide>>

-----------------------------------------------------------------------------
(* AppLayerChanswitchSinrServer *)

ClientSide == <<phy, scan, client>>

\* MSG_APP_FromTransOpenResult
ServerOpen ==
  /\ Quiet(Rx) /\ ~server.opened
  /\ server' = [server EXCEPT !.opened = TRUE]
  /\ UNCHANGED <<pending, c2s, s2c, aborted, ClientSide>>

\* MSG_APP_FromTransCloseResult
ServerClose ==
  /\ Quiet(Rx) /\ server.opened /\ ~server.closed
  /\ server' = [server EXCEPT !.closed = TRUE]
  /\ UNCHANGED <<pending, c2s, s2c, aborted, ClientSide>>

Serving == server.opened /\ ~server.closed

\* The state in which the server acts on a packet
Awaiting ==
  [TX_SCAN_PKT |-> "RX_S_IDLE", TX_CHANGE_ACK |-> "RX_CHANGE_WFACK",
   TX_VERIFY_ACK |-> "RX_VERIFY_WFACK"]

\* MSG_APP_FromTransDataReceived
ScanPktReceived ==
  /\ ToServer("TX_SCAN_PKT") /\ Serving /\ server.state = Awaiting["TX_SCAN_PKT"]
  /\ server' = [server EXCEPT !.state = "RX_SCANNING"]
  /\ Post(Rx, Msg("InitiateSinrScan", 0, 0, FALSE))
  /\ c2s' = Tail(c2s)
  /\ UNCHANGED <<s2c, aborted, ClientSide>>

ChangeAckReceived ==
  /\ ToServer("TX_CHANGE_ACK") /\ Serving /\ server.state = Awaiting["TX_CHANGE_ACK"]
  /\ server' = [server EXCEPT !.state = "RX_S_IDLE", !.cur = server.next]
  /\ Post(Rx, ChangeChannels(server.cur, server.next))
  /\ c2s' = Tail(c2s)
  /\ UNCHANGED <<s2c, aborted, ClientSide>>

VerifyAckReceived ==
  /\ ToServer("TX_VERIFY_ACK") /\ Serving /\ server.state = Awaiting["TX_VERIFY_ACK"]
  /\ server' = [server EXCEPT !.state = "RX_S_IDLE"]
  /\ c2s' = Tail(c2s)
  /\ UNCHANGED <<pending, s2c, aborted, ClientSide>>

ServerIgnores ==
  /\ Serving
  /\ \E packet \in {"TX_SCAN_PKT", "TX_CHANGE_ACK", "TX_VERIFY_ACK"} :
       ToServer(packet) /\ server.state # Awaiting[packet]
  /\ c2s' = Tail(c2s)
  /\ UNCHANGED <<pending, s2c, server, aborted, ClientSide>>

ServerReceives ==
  ScanPktReceived \/ ChangeAckReceived \/ VerifyAckReceived \/ ServerIgnores

\* AppChanswitchSinrServerEvaluateChannels.  The loop finds the channel with the
\* least interference, but what is returned is its loop variable, which ends
\* numChannels steps after the current channel.  (The first turn of the loop reads
\* channelSwitch at an index nothing has set; that only decides what is printed.)
EvaluateChannels(cur) == (NumChannels + cur) % NumChannels

\* MSG_APP_FromMacRxScanFinished
RxScanFinished ==
  /\ Has(Rx, "ScanFinished") /\ server.state = "RX_SCANNING"
  /\ LET cur == pending[Rx].new IN
       /\ server' = [server EXCEPT !.state = "RX_CHANGE_WFACK", !.cur = cur,
                       !.avg = scan.avg, !.next = EvaluateChannels(cur),
                       !.changeTimers = @ + 1]
       /\ s2c' = Send(s2c, server.closed, EvaluateChannels(cur))
  /\ Post(Rx, NoMsg)
  /\ UNCHANGED <<c2s, aborted, ClientSide>>

\* MSG_APP_RxChangeWfAckTimeout: go to the new channel and wait there.
ChangeWfAckTimeout ==
  /\ Quiet(Rx) /\ server.changeTimers > 0
  /\ \/ /\ server.state = "RX_CHANGE_WFACK"
        /\ server' = [server EXCEPT !.state = "RX_VERIFY_WFACK",
                        !.changeTimers = @ - 1, !.verifyTimers = @ + 1]
        /\ Post(Rx, ChangeChannels(server.cur, server.next))
     \/ /\ server.state # "RX_CHANGE_WFACK"
        /\ server' = [server EXCEPT !.changeTimers = @ - 1]
        /\ UNCHANGED pending
  /\ UNCHANGED <<c2s, s2c, aborted, ClientSide>>

\* The verify timer is addressed to protocol CHANSWITCH_SINR_RX_SERVER, which is
\* an application type of the MAC and no protocol of the application layer:
\* APP_ProcessEvent ends the program, MSG_APP_RxVerifyWfAckTimeout is never reached.
VerifyTimerMisdelivered ==
  /\ Quiet(Rx) /\ server.verifyTimers > 0
  /\ server' = [server EXCEPT !.verifyTimers = @ - 1]
  /\ aborted' = TRUE
  /\ UNCHANGED <<pending, c2s, s2c, ClientSide>>

-----------------------------------------------------------------------------
(* The MACs *)

Applications == <<c2s, s2c, client, server, aborted>>

\* MSG_MAC_FromAppMACAddressRequest and its management timer
FromAppMACAddressRequest ==
  /\ Has(Tx, "MACAddressRequest")
  /\ Post(Tx, Msg("MACAddressReply", 0, phy[Tx].tx, pending[Tx].initial))
  /\ UNCHANGED <<phy, scan, Applications>>

Retuned(n, old, new) == [tx |-> new, listening |-> (phy[n].listening \ {old}) \cup {new}]

\* MSG_MAC_FromAppChangeChannelRequest, for an application other than ASDCS's client
FromAppChangeChannelRequest(n) ==
  /\ Has(n, "ChangeChannelRequest")
  /\ phy' = [phy EXCEPT ![n] = Retuned(n, pending[n].old, pending[n].new)]
  /\ Post(n, NoMsg)
  /\ UNCHANGED <<scan, Applications>>

\* MSG_MAC_FromAppInitiateSinrScanRequest, MacDot11InterferenceScan
InterferenceScan ==
  /\ Has(Rx, "InitiateSinrScan")
  /\ scan' = [scan EXCEPT !.probing = TRUE, !.timer = TRUE, !.avg[phy[Rx].tx] = 0]
  /\ Post(Rx, NoMsg)
  /\ UNCHANGED <<phy, Applications>>

\* The next switchable channel is k steps after channel c.
NextSwitchable(c, k) ==
  /\ (c + k) % NumChannels \in Switchable
  /\ \A j \in 1 .. k - 1 : (c + j) % NumChannels \notin Switchable

\* What the samples of MSG_MAC_DOT11_ChanSwitchSinrProbe made of the current channel
Sampled(level) == [scan.avg EXCEPT ![phy[Rx].tx] = level]

\* MSG_MAC_DOT11_ChanSwitchSinrProbeChanSwitch: to the next channel not checked yet...
ProbeNextChannel ==
  /\ Quiet(Rx) /\ scan.timer
  /\ \E k \in 1 .. NumChannels, level \in Levels :
       LET new == (phy[Rx].tx + k) % NumChannels IN
       /\ NextSwitchable(phy[Rx].tx, k)
       /\ new \notin scan.checked \cup {phy[Rx].tx}
       /\ scan' = [scan EXCEPT !.checked = @ \cup {phy[Rx].tx},
                               !.avg = [Sampled(level) EXCEPT ![new] = 0]]
       /\ phy' = [phy EXCEPT ![Rx] = Retuned(Rx, phy[Rx].tx, new)]
  /\ UNCHANGED <<pending, Applications>>

\* Mutant of ProbeCompleted: the radio is left on the last channel.
ProbeCompletedStays ==
  /\ Quiet(Rx) /\ scan.timer
  /\ \E k \in 1 .. NumChannels, level \in Levels :
       LET new == (phy[Rx].tx + k) % NumChannels IN
       /\ NextSwitchable(phy[Rx].tx, k)
       /\ new \in scan.checked \cup {phy[Rx].tx}
       /\ scan' = [scan EXCEPT !.checked = @ \cup {phy[Rx].tx}, !.avg = Sampled(level),
                               !.probing = FALSE, !.timer = FALSE]
       /\ Post(Rx, Msg("ScanFinished", 0, phy[Rx].tx, FALSE))
  /\ UNCHANGED <<phy, Applications>>

\* ... or, when the next one has been checked, go there and report it as current.
ProbeCompleted ==
  /\ Quiet(Rx) /\ scan.timer
  /\ \E k \in 1 .. NumChannels, level \in Levels :
       LET new == (phy[Rx].tx + k) % NumChannels IN
       /\ NextSwitchable(phy[Rx].tx, k)
       /\ new \in scan.checked \cup {phy[Rx].tx}
       /\ scan' = [scan EXCEPT !.checked = @ \cup {phy[Rx].tx}, !.avg = Sampled(level),
                               !.probing = FALSE, !.timer = FALSE]
       /\ phy' = [phy EXCEPT ![Rx] = Retuned(Rx, phy[Rx].tx, new)]
       /\ Post(Rx, Msg("ScanFinished", 0, new, FALSE))
  /\ UNCHANGED Applications

-----------------------------------------------------------------------------
ClientEvent ==
  ClientMACAddress \/ ChangeAckDelay \/ ChannelSelectionTimeout
ServerEvent ==
  RxScanFinished \/ ChangeWfAckTimeout \/ VerifyTimerMisdelivered
MacEvent ==
  \/ FromAppMACAddressRequest
  \/ \E n \in Node : FromAppChangeChannelRequest(n)
  \/ InterferenceScan
  \/ ProbeNextChannel
  \/ ProbeCompleted

Next ==
  /\ ~aborted
  /\ \/ ClientOpen \/ InitiateChannelScan \/ ClientClose \/ ChangePktReceived \/ ClientEvent
     \/ ServerOpen \/ ServerClose \/ ServerReceives \/ ServerEvent
     \/ MacEvent

Spec == Init /\ [][Next]_vars

\* The simulator dispatches every message and timer; TCP delivers what the
\* receiver can again and again hear.
FairSpec ==
  /\ Spec
  /\ WF_vars(~aborted /\ ClientEvent)
  /\ WF_vars(~aborted /\ (RxScanFinished \/ MacEvent))
  /\ WF_vars(~aborted /\ ChangeWfAckTimeout)
  /\ WF_vars(~aborted /\ VerifyTimerMisdelivered)
  /\ WF_vars(~aborted /\ ServerOpen)
  /\ SF_vars(~aborted /\ ChangePktReceived)
  /\ SF_vars(~aborted /\ ServerReceives)

-----------------------------------------------------------------------------
\* Outside a scan the two radios hear each other: the scan brings the server
\* back to the channel the client stayed on, for whatever channels it passed.
RadiosMeet ==
  Quiet(Tx) /\ Quiet(Rx) /\ ~scan.probing => CanHear(Tx, Rx) /\ CanHear(Rx, Tx)

\* The server chooses only after every switchable channel has been measured.
ChoiceAfterFullScan ==
  server.state \in {"RX_CHANGE_WFACK", "RX_VERIFY_WFACK"} => Switchable \subseteq scan.checked

\* A server that is told of the client's change, by whichever acknowledgement,
\* has the client on the channel it proposed, or about to go there.
AckMeansAgreed ==
  [][server.state \in {"RX_CHANGE_WFACK", "RX_VERIFY_WFACK"} /\ server'.state = "RX_S_IDLE"
       => client.next = server.next]_vars

\* Nothing of a second request is ever under way: no two packets of a kind.
OneRequest ==
  /\ \A i, j \in DOMAIN c2s : c2s[i] = c2s[j] => i = j
  /\ Len(s2c) + client.ackDelays <= 1
  /\ server.changeTimers + server.verifyTimers <= 1

Closed == client.closed \/ server.closed

\* A scan is reported from the channel it began on: "interference scan complete,
\* original channel %d".
ScanEndsWhereItBegan == Has(Rx, "ScanFinished") => pending[Rx].new = FirstChannel

-----------------------------------------------------------------------------
(* What a comment or an assertion of the code says and its actions do not keep. *)

\* "Selecting channel %d", the one with the lowest interference.
SelectsLeastInterference ==
  server.state = "RX_CHANGE_WFACK" =>
    \A c \in Switchable : server.avg[server.next] <= server.avg[c]

\* "return to the previous channel and wait": the verify timeout reaches the server.
VerifyTimeoutHandled == ~aborted

\* The client gets back to where it takes requests ("channel switch activates
\* when TX queue exceeds threshold") once the server has made its choice.
RequestsAccepted ==
  server.state = "RX_CHANGE_WFACK" ~> client.state = "TX_S_IDLE" \/ aborted \/ Closed
=============================================================================
