----------------------------- MODULE SharedMac -----------------------------
(***************************************************************************)
(* The ASDCS sessions of one node and what they share in its MAC: one       *)
(* connectionId (and the appType that goes with it), one management timer   *)
(* and one scan.  Source: app_chanswitch.cpp, mac_dot11.cpp,                *)
(* mac_dot11-mgmt.cpp.                                                      *)
(*                                                                         *)
(* Zero-delay messages are handled in the order they were sent; packets and *)
(* timers of the same instant come between them at any point.  What a       *)
(* packet says, and the radio, are in module Asdcs.  A timer of a kind      *)
(* either runs or does not: when one expires, another may be left.          *)
(***************************************************************************)
EXTENDS Integers, Sequences

CONSTANTS
  Client, Server,  \* the sessions of the node; a session is its connection id
  NoConn,          \* the connection id -1
  MaxPending,      \* bound: zero-delay messages under way
  MaxProbes        \* bound: probe requests in the management queue

Session == Client \cup Server

SharedAssumption ==
  /\ NoConn \notin Session
  /\ Client \cap Server = {}
  /\ MaxPending \in Nat \ {0}
  /\ MaxProbes \in Nat

VARIABLES
  app,      \* [Session -> state]
  timers,   \* timers of the applications that run, <<session, kind>>
  pending,  \* the zero-delay messages of the node, in the order they were sent
  conn,     \* dot11->connectionId
  probes,   \* probe requests of scans in the management queue
  dwell     \* the newest management timer is the one of a scan's channel

vars == <<app, timers, pending, conn, probes, dwell>>
macVars == <<conn, probes, dwell>>

ClientState == {"unopened", "TX_IDLE", "TX_PROBE_INIT", "TX_PROBE_WFACK", "TX_PROBING",
                "TX_PROBE_WFRX", "TX_CHANGE_WFACK", "TX_VERIFY_WFACK"}
ServerState == {"RX_IDLE", "RX_PROBE_ACK", "RX_CHANGE_ACK"}
Kind == {"backoff", "verify", "probe", "change"}

Request == {"FromAppMACAddressRequest", "FromAppChanswitchRequest",
            "FromAppChangeChannelRequest"}
ManagementTimer == {"MACAddressRequest", "ChanswitchRequest", "ChangeChannelRequest"}

\* Of a management timer, live says that its sequence number is the newest, and id
\* whose request started it; the code keeps only the former.
Message == [type : Request \cup ManagementTimer \cup {"MACAddressReply", "ScanFinished"},
            id : Session \cup {NoConn}, live : BOOLEAN]
Msg(type, id) == [type |-> type, id |-> id, live |-> TRUE]

Init ==
  /\ app = [s \in Session |-> IF s \in Client THEN "unopened" ELSE "RX_IDLE"]
  /\ timers = {}
  /\ pending = <<>>
  /\ conn = NoConn
  /\ probes = 0
  /\ dwell = FALSE

-----------------------------------------------------------------------------
(* Messages and timers. *)

Sends(type, s) ==
  /\ Len(pending) < MaxPending
  /\ pending' = Append(pending, Msg(type, s))

Gets(type, s) == pending # <<>> /\ Head(pending).type = type /\ Head(pending).id = s
Consumed == pending' = Tail(pending)
Answers(type, s) == pending' = Append(Tail(pending), Msg(type, s))

Goes(s, state) == app' = [app EXCEPT ![s] = state]
Starts(s, kind) == timers' = timers \cup {<<s, kind>>}
Expires(s, kind) ==
  /\ <<s, kind>> \in timers
  /\ timers' = timers \/ timers' = timers \ {<<s, kind>>}

-----------------------------------------------------------------------------
(* A client. *)

\* MSG_APP_FromTransOpenResult, MSG_APP_InitiateChannelScanRequest
Asks(c) ==
  /\ \/ app[c] = "unopened"
     \/ app[c] = "TX_IDLE" /\ <<c, "backoff">> \notin timers
  /\ Goes(c, "TX_PROBE_INIT") /\ Starts(c, "backoff")
  /\ Sends("FromAppMACAddressRequest", c)
  /\ UNCHANGED macVars

\* MSG_APP_TxChannelSelectionTimeout
ChannelSelectionTimeout(c) ==
  /\ <<c, "backoff">> \in timers /\ timers' = timers \ {<<c, "backoff">>}
  /\ UNCHANGED <<app, pending, macVars>>

\* MSG_APP_FromMac_MACAddressRequest, in whatever state; the first scan may be
\* disabled, and which is the first the MAC says.
ClientMACAddress(c) ==
  /\ Gets("MACAddressReply", c) /\ Consumed
  /\ Goes(c, "TX_PROBE_WFACK") \/ Goes(c, "TX_IDLE")
  /\ UNCHANGED <<timers, macVars>>

\* PROBE_ACK, or MSG_APP_TxProbeWfAckTimeout
StartProbing(c) ==
  /\ app[c] \in {"TX_IDLE", "TX_PROBE_WFACK"}
  /\ Goes(c, "TX_PROBING") /\ Sends("FromAppChanswitchRequest", c)
  /\ UNCHANGED <<timers, macVars>>

\* MSG_APP_FromMacTxScanFinished, with and without the list of the server; in
\* another state only a warning is printed.
TxScanFinished(c) ==
  /\ Gets("ScanFinished", c)
  /\ \/ app[c] = "TX_PROBING" /\ Goes(c, "TX_PROBE_WFRX") /\ Answers("FromAppChangeChannelRequest", c)
     \/ app[c] = "TX_PROBING" /\ Goes(c, "TX_CHANGE_WFACK") /\ Consumed
     \/ app[c] # "TX_PROBING" /\ Consumed /\ UNCHANGED app
  /\ UNCHANGED <<timers, macVars>>

\* NODE_LIST after the scan, VERIFY_ACK
Advances(c) ==
  /\ \/ app[c] = "TX_PROBE_WFRX" /\ Goes(c, "TX_CHANGE_WFACK")
     \/ app[c] = "TX_VERIFY_WFACK" /\ Goes(c, "TX_IDLE")
  /\ UNCHANGED <<timers, pending, macVars>>

\* CHANGE_ACK, or MSG_APP_TxChangeWfAckTimeout
ChangeChannels(c) ==
  /\ app[c] = "TX_CHANGE_WFACK"
  /\ \/ Goes(c, "TX_IDLE") /\ UNCHANGED timers
     \/ Goes(c, "TX_VERIFY_WFACK") /\ Starts(c, "verify")
  /\ Sends("FromAppChangeChannelRequest", c)
  /\ UNCHANGED macVars

\* MSG_APP_TxVerifyWfAckTimeout, in whatever state: the test is an assignment.
VerifyWfAckTimeout(c) ==
  /\ Expires(c, "verify")
  /\ Goes(c, "TX_CHANGE_WFACK") /\ Sends("FromAppChangeChannelRequest", c)
  /\ UNCHANGED macVars

ClientNext(c) ==
  \/ Asks(c) \/ ChannelSelectionTimeout(c) \/ ClientMACAddress(c) \/ StartProbing(c)
  \/ TxScanFinished(c) \/ Advances(c) \/ ChangeChannels(c) \/ VerifyWfAckTimeout(c)

-----------------------------------------------------------------------------
(* A server. *)

\* PROBE_PKT and CHANGE_PKT; any other state drops them.
PacketReceived(s) ==
  /\ app[s] = "RX_IDLE"
  /\ \/ Goes(s, "RX_PROBE_ACK") /\ Starts(s, "probe")
     \/ Goes(s, "RX_CHANGE_ACK") /\ Starts(s, "change")
  /\ UNCHANGED <<pending, macVars>>

\* MSG_APP_RxProbeAckDelay
RxProbeAckDelay(s) ==
  /\ Expires(s, "probe") /\ Sends("FromAppMACAddressRequest", s)
  /\ UNCHANGED <<app, macVars>>

\* MSG_APP_FromMac_MACAddressRequest
ServerMACAddress(s) ==
  /\ Gets("MACAddressReply", s) /\ Answers("FromAppChanswitchRequest", s)
  /\ UNCHANGED <<app, timers, macVars>>

\* MSG_APP_FromMacRxScanFinished
RxScanFinished(s) ==
  /\ Gets("ScanFinished", s) /\ Answers("FromAppChangeChannelRequest", s)
  /\ Goes(s, "RX_IDLE")
  /\ UNCHANGED <<timers, macVars>>

\* MSG_APP_RxChangeAckDelay
RxChangeAckDelay(s) ==
  /\ Expires(s, "change") /\ Sends("FromAppChangeChannelRequest", s)
  /\ Goes(s, "RX_IDLE")
  /\ UNCHANGED macVars

ServerNext(s) ==
  \/ PacketReceived(s) \/ RxProbeAckDelay(s) \/ ServerMACAddress(s)
  \/ RxScanFinished(s) \/ RxChangeAckDelay(s)

-----------------------------------------------------------------------------
(* The MAC. *)

\* The messages once a newer management timer has been started.
Outdated(ms) ==
  [i \in DOMAIN ms |-> IF ms[i].type \in ManagementTimer THEN [ms[i] EXCEPT !.live = FALSE]
                       ELSE ms[i]]

\* The timer of a request: no delay, and the newest.
StartTimer(type, s) ==
  /\ pending' = Append(Outdated(Tail(pending)), Msg(type, s))
  /\ dwell' = FALSE

\* MSG_MAC_FromAppMACAddressRequest
FromAppMACAddressRequest(s) ==
  /\ Gets("FromAppMACAddressRequest", s)
  /\ conn' = s /\ StartTimer("MACAddressRequest", s)
  /\ UNCHANGED <<app, timers, probes>>

\* MSG_MAC_FromAppChanswitchRequest
FromAppChanswitchRequest(s) ==
  /\ Gets("FromAppChanswitchRequest", s)
  /\ conn' = s /\ StartTimer("ChanswitchRequest", s)
  /\ UNCHANGED <<app, timers, probes>>

\* Mutant of FromAppChangeChannelRequest: the radio of a client is tuned at once too.
FromAppChangeChannelRequestAtOnce(s) ==
  /\ Gets("FromAppChangeChannelRequest", s)
  /\ conn' = s /\ Consumed
  /\ UNCHANGED <<app, timers, probes, dwell>>

\* MSG_MAC_FromAppChangeChannelRequest: the radio of a server is tuned at once,
\* and no timer started.
FromAppChangeChannelRequest(s) ==
  /\ Gets("FromAppChangeChannelRequest", s)
  /\ conn' = s
  /\ \/ s \in Client /\ StartTimer("ChangeChannelRequest", s)
     \/ s \in Server /\ Consumed /\ UNCHANGED dwell
  /\ UNCHANGED <<app, timers, probes>>

\* MSG_MAC_DOT11_MACAddressRequest: the answer goes to dot11->connectionId.
MACAddressTimer(s) ==
  /\ Gets("MACAddressRequest", s)
  /\ \/ Head(pending).live /\ Answers("MACAddressReply", conn)
     \/ ~Head(pending).live /\ Consumed
  /\ UNCHANGED <<app, timers, macVars>>

\* MSG_MAC_DOT11_ChanswitchRequest: a probe request for the first channel is queued.
ChanswitchTimer(s) ==
  /\ Gets("ChanswitchRequest", s) /\ Consumed
  /\ \/ Head(pending).live /\ probes < MaxProbes /\ probes' = probes + 1
     \/ ~Head(pending).live /\ UNCHANGED probes
  /\ UNCHANGED <<app, timers, conn, dwell>>

\* MSG_MAC_DOT11_ChangeChannelRequest
ChangeChannelTimer(s) ==
  /\ Gets("ChangeChannelRequest", s) /\ Consumed
  /\ UNCHANGED <<app, timers, macVars>>

\* The probe request has left; the timer of its channel is started.
ProbeRequestTransmitted ==
  /\ probes > 0 /\ probes' = probes - 1
  /\ dwell' = TRUE /\ pending' = Outdated(pending)
  /\ UNCHANGED <<app, timers, conn>>

\* The next channel is probed, or the scan is over and reported.
ChannelScanned ==
  /\ dwell /\ dwell' = FALSE
  /\ \/ probes < MaxProbes /\ probes' = probes + 1 /\ UNCHANGED pending
     \/ UNCHANGED probes /\ Sends("ScanFinished", conn)
  /\ UNCHANGED <<app, timers, conn>>

TakesRequest(s) ==
  \/ FromAppMACAddressRequest(s) \/ FromAppChanswitchRequest(s)
  \/ FromAppChangeChannelRequest(s)

MacNext ==
  \/ \E s \in Session :
       TakesRequest(s) \/ MACAddressTimer(s) \/ ChanswitchTimer(s) \/ ChangeChannelTimer(s)
  \/ ProbeRequestTransmitted \/ ChannelScanned

Next ==
  \/ \E c \in Client : ClientNext(c)
  \/ \E s \in Server : ServerNext(s)
  \/ MacNext

Spec == Init /\ [][Next]_vars

-----------------------------------------------------------------------------
TypeOK ==
  /\ app \in [Session -> ClientState \cup ServerState]
  /\ \A c \in Client : app[c] \in ClientState
  /\ \A s \in Server : app[s] \in ServerState
  /\ timers \subseteq Session \X Kind
  /\ pending \in Seq(Message)
  /\ conn \in Session \cup {NoConn}
  /\ probes \in Nat
  /\ dwell \in BOOLEAN

\* The timer of an address request that will be answered to a client was started
\* by that client: since whatever the MAC takes from a client starts a timer, no
\* client is handed the address another session has asked for.  It would begin its
\* round anew, in whatever state it is (MSG_APP_FromMac_MACAddressRequest).
OwnAnswer ==
  \A i \in 1 .. Len(pending) :
    pending[i].type = "MACAddressRequest" /\ pending[i].live /\ conn \in Client
      => pending[i].id = conn

\* What will lead to an answer to session s.
UnderWay(s) ==
  \E i \in 1 .. Len(pending) :
    \/ pending[i].type \in {"FromAppMACAddressRequest", "MACAddressReply"} /\ pending[i].id = s
    \/ pending[i].type = "MACAddressRequest" /\ pending[i].live /\ conn = s

Answered(s) ==
  \/ s \in Client /\ ClientMACAddress(s)
  \/ s \in Server /\ ServerMACAddress(s)

\* While it serves s, the MAC goes on with a scan or takes another request: one of
\* s itself only if a late timer has taken s out of its waiting.
Overtaken(s) ==
  /\ conn = s
  /\ \/ ProbeRequestTransmitted
     \/ \E t \in Session : TakesRequest(t) /\ (t = s => app[s] # "TX_PROBE_INIT")

\* However the sessions interleave, a request for the address ends in its answer
\* or by being overtaken (MacDot11ManagementStartTimerOfGivenType); a client that
\* only waits does not overtake itself.
AnswerStep == \A s \in Session : UnderWay(s) /\ ~UnderWay(s)' => Answered(s) \/ Overtaken(s)
EndsInAnswer == [][AnswerStep]_vars

-----------------------------------------------------------------------------
(* What a comment or an assertion of the code says and its actions do not keep. *)

\* A client that has asked for its address is going to get it ("probe will
\* immediately start thereafter", app_chanswitch.cpp:1012).
WhoAsksIsAnswered == \A c \in Client : app[c] = "TX_PROBE_INIT" => UnderWay(c)

\* The visible node list is sent "to the correct app layer" (mac_dot11-mgmt.cpp:4085):
\* a client that scans.
ListToWhoScanned ==
  \A c \in Client : Gets("ScanFinished", c) => app[c] = "TX_PROBING"
=============================================================================
