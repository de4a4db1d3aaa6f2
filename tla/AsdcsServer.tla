---------------------------- MODULE AsdcsServer -----------------------------
(***************************************************************************)
(* The ASDCS server (the receiving node): AppLayerChanswitchServer.         *)
(* Source: app_chanswitch.cpp.                                              *)
(***************************************************************************)
EXTENDS AsdcsLink

VARIABLE server   \* AppDataChanswitchServer and the delay timers it has running

ServerState == {"RX_IDLE", "RX_PROBE_ACK", "RX_CHANGE_ACK"}

ServerData ==
  [state : ServerState, opened : BOOLEAN, closed : BOOLEAN,
   cur : Channel, next : Channel,     \* currentChannel, nextChannel
   delays : Seq({"probe", "change"}), \* RX_PROBE_ACK_DELAY, RX_CHANGE_ACK_DELAY: both 5 ms
   round : Nat]                       \* history: the round of the packet being served

ServerTypeOK == server \in ServerData

ServerInit ==
  server = [state |-> "RX_IDLE", opened |-> FALSE, closed |-> FALSE,
            cur |-> 0, next |-> 0, delays |-> <<>>, round |-> 0]

Tell(message) == pending' = [pending EXCEPT ![Rx] = message]

Reply(type) == s2c' = Transmit(s2c, server.closed, Packet(type, 0, server.round))

\* MSG_APP_FromTransOpenResult
ServerOpen ==
  /\ Quiet(Rx) /\ ~server.opened
  /\ server' = [server EXCEPT !.opened = TRUE]
  /\ UNCHANGED <<pending, c2s, s2c>>

\* MSG_APP_FromTransCloseResult
ServerClose ==
  /\ Quiet(Rx) /\ server.opened /\ ~server.closed
  /\ server' = [server EXCEPT !.closed = TRUE]
  /\ UNCHANGED <<pending, c2s, s2c>>

Serving == server.opened /\ ~server.closed

\* MSG_APP_FromTransDataReceived
ProbePktReceived ==
  /\ ToServer("PROBE_PKT") /\ Serving
  /\ server.state = "RX_IDLE"
  /\ server' = [server EXCEPT !.state = "RX_PROBE_ACK", !.round = Head(c2s).round,
                              !.delays = Append(@, "probe")]
  /\ s2c' = Append(s2c, Packet("PROBE_ACK", 0, Head(c2s).round))
  /\ c2s' = Tail(c2s)
  /\ UNCHANGED pending

\* Mutant of ChangePktReceived: the new channel is not stored.
ChangePktReceivedForgets ==
  /\ ToServer("CHANGE_PKT") /\ Serving
  /\ server.state = "RX_IDLE"
  /\ server' = [server EXCEPT !.state = "RX_CHANGE_ACK", !.round = Head(c2s).round,
                              !.delays = Append(@, "change")]
  /\ s2c' = Append(s2c, Packet("CHANGE_ACK", 0, Head(c2s).round))
  /\ c2s' = Tail(c2s)
  /\ UNCHANGED pending

ChangePktReceived ==
  /\ ToServer("CHANGE_PKT") /\ Serving
  /\ server.state = "RX_IDLE"
  /\ server' = [server EXCEPT !.state = "RX_CHANGE_ACK", !.round = Head(c2s).round,
                              !.next = Head(c2s).channel, !.delays = Append(@, "change")]
  /\ s2c' = Append(s2c, Packet("CHANGE_ACK", 0, Head(c2s).round))
  /\ c2s' = Tail(c2s)
  /\ UNCHANGED pending

\* A packet that arrives while the server is busy is lost for good.
PacketDropped ==
  /\ ToServer("PROBE_PKT") \/ ToServer("CHANGE_PKT")
  /\ Serving
  /\ server.state # "RX_IDLE"
  /\ c2s' = Tail(c2s)
  /\ UNCHANGED <<server, pending, s2c>>

ServerReceives == ProbePktReceived \/ ChangePktReceived \/ PacketDropped

DelayExpires(delay) == Quiet(Rx) /\ server.delays # <<>> /\ Head(server.delays) = delay

\* MSG_APP_RxProbeAckDelay
RxProbeAckDelay ==
  /\ DelayExpires("probe")
  /\ server' = [server EXCEPT !.delays = Tail(@)]
  /\ Tell(GetMyMacAddr("RX_SERVER", FALSE))
  /\ UNCHANGED <<c2s, s2c>>

\* MSG_APP_FromMac_MACAddressRequest
ServerMACAddress ==
  /\ Has(Rx, "MACAddressReply")
  /\ server' = [server EXCEPT !.cur = pending[Rx].new]
  /\ Tell(StartProbing("RX_SERVER"))
  /\ UNCHANGED <<c2s, s2c>>

\* Mutant of RxScanFinished: the server does not become idle.
RxScanFinishedBusy ==
  /\ Has(Rx, "ScanFinished")
  /\ UNCHANGED server
  /\ Tell(ChangeChannels("RX_SERVER", server.cur, server.cur))
  /\ Reply("NODE_LIST")
  /\ UNCHANGED c2s

\* MSG_APP_FromMacRxScanFinished
RxScanFinished ==
  /\ Has(Rx, "ScanFinished")
  /\ server' = [server EXCEPT !.state = "RX_IDLE"]
  /\ Tell(ChangeChannels("RX_SERVER", server.cur, server.cur))
  /\ Reply("NODE_LIST")
  /\ UNCHANGED c2s

\* MSG_APP_RxChangeAckDelay.  server.cur keeps the channel that is being left.
RxChangeAckDelay ==
  /\ DelayExpires("change")
  /\ server' = [server EXCEPT !.delays = Tail(@), !.state = "RX_IDLE"]
  /\ Tell(ChangeChannels("RX_SERVER", server.cur, server.next))
  /\ Reply("VERIFY_ACK")
  /\ UNCHANGED c2s

ServerTimeout == RxProbeAckDelay \/ RxChangeAckDelay

ServerNext ==
  \/ ServerOpen
  \/ ServerClose
  \/ ServerReceives
  \/ ServerTimeout
  \/ ServerMACAddress
  \/ RxScanFinished
=============================================================================
