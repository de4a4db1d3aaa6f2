---------------------------- MODULE AsdcsClient -----------------------------
(***************************************************************************)
(* The ASDCS client (the transmitting node): AppLayerChanswitchClient, one  *)
(* action per handler and, for received packets, per state and packet the   *)
(* handler reacts to.  Source: app_chanswitch.cpp.                          *)
(***************************************************************************)
EXTENDS AsdcsLink

CONSTANTS
  Switchable,   \* PHY-CHANSWITCH-CHANNEL-MASK: channels that may be switched to
  AsdcsInit,    \* MAC option: probe as soon as the connection opens
  BackoffParts, \* the backoff lasts at least this many times 200 ms
  MaxRounds     \* bound: probing rounds the queue trigger may start

ASSUME ClientAssumption ==
  /\ Switchable \subseteq Listenable
  /\ Switchable # {}
  /\ AsdcsInit \in BOOLEAN
  /\ BackoffParts \in Nat \ {0}
  /\ MaxRounds \in Nat

VARIABLE client   \* AppDataChanswitchClient and the timers it has running

ClientState == {"TX_IDLE", "TX_PROBE_INIT", "TX_PROBE_WFACK", "TX_PROBING",
                "TX_PROBE_WFRX", "TX_CHANGE_WFACK", "TX_VERIFY_WFACK"}

ClientData ==
  [state : ClientState, opened : BOOLEAN, closed : BOOLEAN,
   got : BOOLEAN,                            \* got_RX_nodelist
   cur : Channel, next : Channel,            \* currentChannel, nextChannel
   initBackoff : BOOLEAN,
   probeTimers : Nat,                        \* probe timers running, of 100 ms
   \* the timers of 200 ms that are running, "backoff" for a part of the backoff:
   \* they expire in the order they were started
   timers : Seq({"change", "verify", "backoff"}),
   backoff : Nat,                            \* parts of the backoff not yet over
   round : Nat,        \* history: probing rounds started
   listRound : Nat]    \* history: round of the last node list parsed

ClientTypeOK == client \in ClientData

ClientInit ==
  client = [state |-> "TX_IDLE", opened |-> FALSE, closed |-> FALSE, got |-> FALSE,
            cur |-> 0, next |-> 0, initBackoff |-> FALSE,
            probeTimers |-> 0, timers |-> <<>>, backoff |-> 0,
            round |-> 0, listRound |-> 0]

\* The client with its backoff timer started.
BackingOff ==
  [client EXCEPT !.initBackoff = TRUE, !.backoff = BackoffParts, !.timers = Append(@, "backoff")]

Ask(message) == pending' = [pending EXCEPT ![Tx] = message]

\* AppChanswitchClientEvaluateChannels: some switchable channel, or the current
\* one when several are tied.  The choice itself is the subject of another module.
BestChannels(c) == Switchable \cup {c.cur}

\* AppChanswitchClientChangeInit.  The state set to TX_IDLE in the first case is
\* overwritten by the assignment that follows the if.
ChangeInit(c, best) ==
  \/ /\ best = c.cur
     /\ client' = [c EXCEPT !.next = best, !.state = "TX_CHANGE_WFACK"]
     /\ UNCHANGED c2s
  \/ /\ best # c.cur
     /\ client' = [c EXCEPT !.next = best, !.state = "TX_CHANGE_WFACK",
                            !.timers = Append(@, "change")]
     /\ c2s' = Transmit(c2s, c.closed, Packet("CHANGE_PKT", best, c.listRound))

-----------------------------------------------------------------------------
(* Connection and requests. *)

\* MSG_APP_FromTransOpenResult
ClientOpen ==
  /\ Quiet(Tx) /\ ~client.opened
  /\ client' = [BackingOff EXCEPT !.state = "TX_PROBE_INIT", !.opened = TRUE, !.got = FALSE,
                                  !.cur = 0, !.next = 0]
  /\ Ask(GetMyMacAddr("TX_CLIENT", TRUE))
  /\ UNCHANGED <<c2s, s2c>>

\* MSG_APP_InitiateChannelScanRequest, sent when the IP output queue is full
InitiateChannelScan ==
  /\ Quiet(Tx)
  /\ client.state = "TX_IDLE" /\ ~client.initBackoff /\ client.opened
  /\ client.round < MaxRounds
  /\ client' = [BackingOff EXCEPT !.state = "TX_PROBE_INIT"]
  /\ Ask(GetMyMacAddr("TX_CLIENT", FALSE))
  /\ UNCHANGED <<c2s, s2c>>

\* MSG_APP_FromMac_MACAddressRequest
ClientMACAddress ==
  /\ Has(Tx, "MACAddressReply")
  /\ Ask(NoMsg)
  /\ \/ /\ pending[Tx].initial => AsdcsInit
        /\ client' = [client EXCEPT !.cur = pending[Tx].new, !.state = "TX_PROBE_WFACK",
                                    !.probeTimers = @ + 1, !.round = @ + 1]
        /\ c2s' = Transmit(c2s, client.closed, Packet("PROBE_PKT", 0, client.round + 1))
     \/ /\ pending[Tx].initial /\ ~AsdcsInit
        /\ client' = [client EXCEPT !.cur = pending[Tx].new, !.state = "TX_IDLE"]
        /\ UNCHANGED c2s
  /\ UNCHANGED s2c

\* MSG_APP_FromTransCloseResult
ClientClose ==
  /\ Quiet(Tx) /\ client.opened /\ ~client.closed
  /\ client' = [client EXCEPT !.closed = TRUE]
  /\ UNCHANGED <<pending, c2s, s2c>>

-----------------------------------------------------------------------------
(* MSG_APP_FromTransDataReceived *)

\* The case of TX_IDLE has no break and runs into that of TX_PROBE_WFACK.
ProbeAckReceived ==
  /\ ToClient("PROBE_ACK") /\ ~client.closed
  /\ client.state \in {"TX_IDLE", "TX_PROBE_WFACK"}
  /\ client' = [client EXCEPT !.state = "TX_PROBING", !.got = FALSE]
  /\ Ask(StartProbing("TX_CLIENT"))
  /\ s2c' = Tail(s2c)
  /\ UNCHANGED c2s

\* The node list is there before the client's own scan is over.
NodeListWhileProbing ==
  /\ ToClient("NODE_LIST") /\ ~client.closed
  /\ client.state = "TX_PROBING"
  /\ client' = [client EXCEPT !.got = TRUE, !.listRound = Head(s2c).round]
  /\ s2c' = Tail(s2c)
  /\ UNCHANGED <<pending, c2s>>

\* The client was waiting for it.
NodeListAfterProbing ==
  /\ ToClient("NODE_LIST") /\ ~client.closed
  /\ client.state = "TX_PROBE_WFRX"
  /\ \E best \in BestChannels(client) :
       ChangeInit([client EXCEPT !.got = TRUE, !.listRound = Head(s2c).round], best)
  /\ s2c' = Tail(s2c)
  /\ UNCHANGED pending

\* Mutant of ChangeAckReceived: the new channel is not recorded.
ChangeAckReceivedForgets ==
  /\ ToClient("CHANGE_ACK") /\ ~client.closed
  /\ client.state = "TX_CHANGE_WFACK"
  /\ client' = [client EXCEPT !.state = "TX_IDLE"]
  /\ Ask(ChangeChannels("TX_CLIENT", client.cur, client.next))
  /\ s2c' = Tail(s2c)
  /\ UNCHANGED c2s

ChangeAckReceived ==
  /\ ToClient("CHANGE_ACK") /\ ~client.closed
  /\ client.state = "TX_CHANGE_WFACK"
  /\ client' = [client EXCEPT !.cur = client.next, !.state = "TX_IDLE"]
  /\ Ask(ChangeChannels("TX_CLIENT", client.cur, client.next))
  /\ s2c' = Tail(s2c)
  /\ UNCHANGED c2s

VerifyAckReceived ==
  /\ ToClient("VERIFY_ACK") /\ ~client.closed
  /\ client.state = "TX_VERIFY_WFACK"
  /\ client' = [client EXCEPT !.cur = client.next, !.state = "TX_IDLE"]
  /\ s2c' = Tail(s2c)
  /\ UNCHANGED <<pending, c2s>>

\* Every other packet has no effect in the state it arrives in.
ClientIgnores ==
  /\ ~client.closed
  /\ \/ ToClient("PROBE_ACK") /\ client.state \notin {"TX_IDLE", "TX_PROBE_WFACK"}
     \/ ToClient("NODE_LIST") /\ client.state \notin {"TX_PROBING", "TX_PROBE_WFRX"}
     \/ ToClient("CHANGE_ACK") /\ client.state # "TX_CHANGE_WFACK"
     \/ ToClient("VERIFY_ACK") /\ client.state # "TX_VERIFY_WFACK"
  /\ s2c' = Tail(s2c)
  /\ UNCHANGED <<client, pending, c2s>>

ClientReceives ==
  \/ ProbeAckReceived
  \/ NodeListWhileProbing
  \/ NodeListAfterProbing
  \/ ChangeAckReceived
  \/ VerifyAckReceived
  \/ ClientIgnores

-----------------------------------------------------------------------------
(* The scan and the timers. *)

\* Mutant of TxScanFinished: the channels are evaluated without the server's list.
TxScanFinishedUnchecked ==
  /\ Has(Tx, "ScanFinished")
  /\ \/ /\ client.state = "TX_PROBING"
        /\ \E best \in BestChannels(client) : ChangeInit(client, best)
        /\ Ask(NoMsg)
     \/ /\ client.state # "TX_PROBING"
        /\ Ask(NoMsg)
        /\ UNCHANGED <<client, c2s>>
  /\ UNCHANGED s2c

\* Mutant of TxScanFinished: a client without the server's list gives up.
TxScanFinishedGivesUp ==
  /\ Has(Tx, "ScanFinished")
  /\ \/ /\ client.state = "TX_PROBING" /\ ~client.got
        /\ client' = [client EXCEPT !.state = "TX_IDLE"]
        /\ Ask(ChangeChannels("TX_CLIENT", client.cur, client.cur))
        /\ UNCHANGED c2s
     \/ /\ client.state = "TX_PROBING" /\ client.got
        /\ \E best \in BestChannels(client) : ChangeInit(client, best)
        /\ Ask(NoMsg)
     \/ /\ client.state # "TX_PROBING"
        /\ Ask(NoMsg)
        /\ UNCHANGED <<client, c2s>>
  /\ UNCHANGED s2c

\* MSG_APP_FromMacTxScanFinished.  With the node list at hand the radio is left
\* where the scan ended; in any other state only a warning is printed.
TxScanFinished ==
  /\ Has(Tx, "ScanFinished")
  /\ \/ /\ client.state = "TX_PROBING" /\ ~client.got
        /\ client' = [client EXCEPT !.state = "TX_PROBE_WFRX"]
        /\ Ask(ChangeChannels("TX_CLIENT", client.cur, client.cur))
        /\ UNCHANGED c2s
     \/ /\ client.state = "TX_PROBING" /\ client.got
        /\ \E best \in BestChannels(client) : ChangeInit(client, best)
        /\ Ask(NoMsg)
     \/ /\ client.state # "TX_PROBING"
        /\ Ask(NoMsg)
        /\ UNCHANGED <<client, c2s>>
  /\ UNCHANGED s2c

\* Mutant of ProbeWfAckTimeout: the scan is not requested.
ProbeWfAckTimeoutNoScan ==
  /\ Quiet(Tx) /\ client.probeTimers > 0
  /\ client' = [client EXCEPT !.probeTimers = @ - 1, !.got = FALSE,
                  !.state = IF @ = "TX_PROBE_WFACK" THEN "TX_PROBING" ELSE @]
  /\ UNCHANGED <<pending, c2s, s2c>>

\* MSG_APP_TxProbeWfAckTimeout
ProbeWfAckTimeout ==
  /\ Quiet(Tx) /\ client.probeTimers > 0
  /\ \/ /\ client.state = "TX_PROBE_WFACK"
        /\ client' = [client EXCEPT !.probeTimers = @ - 1, !.state = "TX_PROBING",
                                    !.got = FALSE]
        /\ Ask(StartProbing("TX_CLIENT"))
     \/ /\ client.state # "TX_PROBE_WFACK"
        /\ client' = [client EXCEPT !.probeTimers = @ - 1]
        /\ UNCHANGED pending
  /\ UNCHANGED <<c2s, s2c>>

TimerExpires(timer) ==
  Quiet(Tx) /\ client.timers # <<>> /\ Head(client.timers) = timer

\* MSG_APP_TxChangeWfAckTimeout: try the new channel.
ChangeWfAckTimeout ==
  /\ TimerExpires("change")
  /\ \/ /\ client.state = "TX_CHANGE_WFACK"
        /\ client' = [client EXCEPT !.state = "TX_VERIFY_WFACK",
                                    !.timers = Append(Tail(@), "verify")]
        /\ Ask(ChangeChannels("TX_CLIENT", client.cur, client.next))
     \/ /\ client.state # "TX_CHANGE_WFACK"
        /\ client' = [client EXCEPT !.timers = Tail(@)]
        /\ UNCHANGED pending
  /\ UNCHANGED <<c2s, s2c>>

\* Mutant of VerifyWfAckTimeout: the channels are not tried in turn for long.
VerifyWfAckTimeoutOnce ==
  /\ TimerExpires("verify")
  /\ client' = [client EXCEPT !.state = "TX_CHANGE_WFACK", !.timers = Tail(@)]
  /\ Ask(ChangeChannels("TX_CLIENT", client.next, client.cur))
  /\ UNCHANGED <<c2s, s2c>>

\* MSG_APP_TxVerifyWfAckTimeout: back to the old channel.  The condition is an
\* assignment, so this happens whatever the client is doing.
VerifyWfAckTimeout ==
  /\ TimerExpires("verify")
  /\ client' = [client EXCEPT !.state = "TX_CHANGE_WFACK",
                              !.timers = Append(Tail(@), "change")]
  /\ Ask(ChangeChannels("TX_CLIENT", client.next, client.cur))
  /\ UNCHANGED <<c2s, s2c>>

\* Another 200 ms of the backoff are over.
BackoffPartOver ==
  /\ TimerExpires("backoff") /\ client.backoff > 0
  /\ client' = [client EXCEPT !.backoff = @ - 1,
                  !.timers = IF client.backoff > 1 THEN Append(Tail(@), "backoff") ELSE Tail(@)]
  /\ UNCHANGED <<pending, c2s, s2c>>

\* MSG_APP_TxChannelSelectionTimeout.  A probe timer of this round was started
\* with the backoff and lasts less long.
ChannelSelectionTimeout ==
  /\ Quiet(Tx) /\ client.initBackoff /\ client.backoff = 0 /\ client.probeTimers = 0
  /\ client' = [client EXCEPT !.initBackoff = FALSE]
  /\ UNCHANGED <<pending, c2s, s2c>>

ClientTimeout ==
  \/ ProbeWfAckTimeout
  \/ ChangeWfAckTimeout
  \/ VerifyWfAckTimeout
  \/ BackoffPartOver
  \/ ChannelSelectionTimeout

ClientNext ==
  \/ ClientOpen
  \/ InitiateChannelScan
  \/ ClientMACAddress
  \/ ClientClose
  \/ ClientReceives
  \/ TxScanFinished
  \/ ClientTimeout
=============================================================================
