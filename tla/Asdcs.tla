------------------------------- MODULE Asdcs --------------------------------
(***************************************************************************)
(* ASDCS as a whole: the client and its MAC on node Tx, the server and its  *)
(* MAC on node Rx, and the TCP connection between them.                     *)
(***************************************************************************)
EXTENDS AsdcsClient, AsdcsServer

vars == <<pending, mac, phy, c2s, s2c, client, server>>

Init ==
  /\ MacInit
  /\ LinkInit
  /\ ClientInit
  /\ ServerInit

ClientStep == ClientNext /\ UNCHANGED <<mac, phy, server>>
ServerStep == ServerNext /\ UNCHANGED <<mac, phy, client>>
MacStep(n) == MacNext(n) /\ UNCHANGED <<c2s, s2c, client, server>>

Next ==
  \/ ClientStep
  \/ ServerStep
  \/ \E n \in Node : MacStep(n)

Spec == Init /\ [][Next]_vars

-----------------------------------------------------------------------------
(* Fairness.  The simulator dispatches every message and timer of its event  *)
(* queue.  A segment TCP keeps retransmitting gets through if the receiver   *)
(* is again and again able to hear its sender, the MAC of the sender not     *)
(* being in a scan (it sends no data then).                                  *)

ClientDoes(A) == A /\ UNCHANGED <<mac, phy, server>>
ServerDoes(A) == A /\ UNCHANGED <<mac, phy, client>>

EventsHandled ==
  /\ \A n \in Node : WF_vars(MacStep(n))
  /\ WF_vars(ClientDoes(ClientMACAddress))
  /\ WF_vars(ClientDoes(TxScanFinished))
  /\ WF_vars(ClientDoes(ProbeWfAckTimeout))
  /\ WF_vars(ClientDoes(ChangeWfAckTimeout))
  /\ WF_vars(ClientDoes(VerifyWfAckTimeout))
  /\ WF_vars(ClientDoes(BackoffPartOver))
  /\ WF_vars(ClientDoes(ChannelSelectionTimeout))
  /\ WF_vars(ServerDoes(ServerMACAddress))
  /\ WF_vars(ServerDoes(RxScanFinished))
  /\ WF_vars(ServerDoes(RxProbeAckDelay))
  /\ WF_vars(ServerDoes(RxChangeAckDelay))

SegmentsDelivered ==
  /\ WF_vars(ServerDoes(ServerOpen))
  /\ SF_vars(ClientDoes(ClientReceives) /\ ~mac[Rx].scanStarted)
  /\ SF_vars(ServerDoes(ServerReceives) /\ ~mac[Tx].scanStarted)

\* Whatever the network does.
EventSpec == Spec /\ EventsHandled
\* With a network that delivers.
FairSpec == EventSpec /\ SegmentsDelivered

-----------------------------------------------------------------------------
(* Invariants. *)

TypeOK ==
  /\ MacTypeOK
  /\ LinkTypeOK
  /\ ClientTypeOK
  /\ ServerTypeOK

\* A client that is idle after a probing round is where it has recorded to be
\* (it does so before the MAC has changed) and where its server is: each hears
\* the other, or the server has acknowledged the change to the client's channel
\* and is about to follow.  (The ends of a switch, as the two nodes reach them
\* in either order: TX_CHANGE_WFACK, TX_VERIFY_WFACK, RX_CHANGE_ACK.)
CommittedTogether ==
  client.state = "TX_IDLE" /\ client.round > 0 /\ Quiet(Tx) =>
    /\ phy[Tx].tx = client.cur
    /\ Quiet(Rx) =>
         \/ CanHear(Tx, Rx) /\ CanHear(Rx, Tx)
         \/ server.state = "RX_CHANGE_ACK" /\ server.next = phy[Tx].tx

\* How many things the server node has under way: delay timers, messages between
\* application and MAC, management timers, probe requests to send.
ServerActivities ==
  Len(server.delays) + mac[Rx].probeReqs
    + (IF mac[Rx].timer = "none" THEN 0 ELSE 1)
    + (IF Has(Rx, "none") \/ Has(Rx, "ChangeChannelRequest") THEN 0 ELSE 1)

\* The server does one thing at a time, and is idle exactly when it does none:
\* the one management timer number and the one-bit busy test (state != RX_IDLE)
\* never lose an activity, and no scan outlives the request it belongs to.
ServerSerial ==
  /\ server.state = "RX_IDLE" => ServerActivities = 0
  /\ server.state # "RX_IDLE" => ServerActivities = 1
  /\ mac[Rx].scanStarted => server.state = "RX_PROBE_ACK"

\* The server node as a state machine of seven phases: the application's state,
\* its delay timer, the message between application and MAC, the management
\* timer, the probe request to send and the MAC's scan flag always fit together,
\* and whatever is under way belongs to the server application.
RxIs(state, delays, messages, timers, probeReqs, scanStarted) ==
  /\ server.state = state /\ server.delays = delays
  /\ pending[Rx].type \in messages
  /\ mac[Rx].timer \in timers
  /\ mac[Rx].probeReqs = probeReqs /\ mac[Rx].scanStarted = scanStarted

ServerPhases ==
  /\ \/ RxIs("RX_IDLE", <<>>, {"none", "ChangeChannelRequest"}, {"none"}, 0, FALSE)
     \/ RxIs("RX_PROBE_ACK", <<"probe">>, {"none"}, {"none"}, 0, FALSE)
     \/ RxIs("RX_PROBE_ACK", <<>>,
             {"MACAddressRequest", "MACAddressReply", "ChanswitchRequest", "ScanFinished"},
             {"none"}, 0, FALSE)
     \/ RxIs("RX_PROBE_ACK", <<>>, {"none"},
             {"MACAddressRequest", "ChanswitchRequest"}, 0, FALSE)
     \/ RxIs("RX_PROBE_ACK", <<>>, {"none"}, {"none"}, 1, TRUE)
     \/ RxIs("RX_PROBE_ACK", <<>>, {"none"}, {"ActiveScan"}, 0, TRUE)
     \/ RxIs("RX_CHANGE_ACK", <<"change">>, {"none"}, {"none"}, 0, FALSE)
  /\ ~Has(Rx, "none") => pending[Rx].app = "RX_SERVER"
  /\ mac[Rx].timer # "none" \/ mac[Rx].scanStarted => mac[Rx].appType = "RX_SERVER"

\* The packets carry no round number, and yet no probe, change or change
\* acknowledgement of an earlier round is ever in flight; a change is decided
\* on the node list of its own round.
CurrentRound ==
  /\ \A i \in DOMAIN c2s : c2s[i].round = client.round
  /\ \A i \in DOMAIN s2c : s2c[i].type = "CHANGE_ACK" => s2c[i].round = client.round

\* While the client probes, its scan is on its way: requested, running or just
\* reported.  Nothing has made its management timer stale.
ScanUnderWay ==
  client.state = "TX_PROBING" =>
    \/ Has(Tx, "ChanswitchRequest") \/ mac[Tx].timer = "ChanswitchRequest"
    \/ mac[Tx].scanStarted /\ (mac[Tx].probeReqs > 0 \/ mac[Tx].timer = "ActiveScan")
    \/ Has(Tx, "ScanFinished")

\* The client's radio listens to the one channel it sends on, the one its MAC
\* believes in: every change of the client's goes through its management timer.
ClientTuned == phy[Tx] = [tx |-> mac[Tx].channel, listening |-> {mac[Tx].channel}]

\* The case of TX_IDLE that runs into the next one does no harm: no probe, probe
\* acknowledgement or node list is in flight when the client is idle.
NoStrayReply ==
  client.state = "TX_IDLE" =>
    /\ \A i \in DOMAIN c2s : c2s[i].type # "PROBE_PKT"
    /\ \A i \in DOMAIN s2c : s2c[i].type \notin {"PROBE_ACK", "NODE_LIST"}

\* The scan of the first round probes every channel the radio can listen to.
FirstScanCovers ==
  \A n \in Node :
    Has(n, "ScanFinished") /\ client.round = 1 => mac[n].probed = Listenable

-----------------------------------------------------------------------------
(* Action properties. *)

\* The client takes a channel for agreed only if the server did: an
\* acknowledgement, whichever it is and whenever it arrives, is that of the
\* change the client has in hand.
AckMeansAgreed ==
  [][client.state \in {"TX_CHANGE_WFACK", "TX_VERIFY_WFACK"} /\ client'.state = "TX_IDLE"
       => server.next = client'.cur]_vars

-----------------------------------------------------------------------------
(* Liveness. *)

Closed == client.closed \/ server.closed

\* Once the server has accepted a change the two nodes meet on the new channel,
\* by the acknowledgement or by trying the channels in turn.
ChangeCompletes ==
  server.state = "RX_CHANGE_ACK" ~>
    \/ client.state = "TX_IDLE" /\ phy[Tx].tx = server.next /\ phy[Rx].tx = server.next
    \/ Closed

-----------------------------------------------------------------------------
(* What the source says of itself and does not do: each is checked to fail. *)

\* ChangeInit is said to "determine if channel change is needed and start ACK
\* timeout", and to "do nothing" when the best channel is the current one: a
\* client that waits for a change acknowledgement has a timeout running.
ChangeWaitIsTimed ==
  client.state = "TX_CHANGE_WFACK" =>
    \E i \in DOMAIN client.timers : client.timers[i] = "change"

\* The verify timeout is for a client in TX_VERIFY_WFACK, to "return to the
\* previous channel and wait": a client that has finished its round is idle
\* until the next scan is requested.
IdleUntilRequested ==
  [][client.opened /\ client.state = "TX_IDLE" =>
       client'.state \in {"TX_IDLE", "TX_PROBE_INIT"}]_vars

\* numResults starts at 1 "To avoid scanning first channel twice": every channel
\* is scanned once, in whichever round.
ServerScanCovers == Has(Rx, "ScanFinished") => mac[Rx].probed = Listenable
=============================================================================
