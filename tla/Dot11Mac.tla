------------------------------ MODULE Dot11Mac ------------------------------
(***************************************************************************)
(* The channel-switching part of the 802.11 MAC, one instance per node: the *)
(* three requests the ASDCS application sends down, the management timer    *)
(* they share, the active scan, and the radio channels the PHY is tuned to. *)
(* Source: mac_dot11.cpp, mac_dot11-mgmt.cpp, mac_dot11-sta.{h,cpp}.        *)
(*                                                                         *)
(* A message sent with delay 0 is handled before anything else happens at   *)
(* that node: pending[n] is that message, and the zero-delay management     *)
(* timers are fired before the node is Quiet again.                         *)
(***************************************************************************)
EXTENDS Integers, Sequences, FiniteSets

CONSTANTS
  Tx, Rx,        \* the node of the client and the node of the server
  NumChannels,   \* PROP_NumberChannels
  Listenable,    \* channels PHY_CanListenToChannel accepts
  FirstChannel   \* MAC-DOT11-STA-CHANNEL, the same on both nodes

Channel == 0 .. NumChannels - 1

ASSUME NodesDiffer == Tx # Rx
ASSUME ChannelAssumption ==
  /\ NumChannels \in Nat \ {0}
  /\ Listenable \subseteq Channel
  /\ FirstChannel \in Listenable

VARIABLES
  pending,  \* [Node -> Message], the zero-delay message on its way inside a node
  mac,      \* [Node -> MacDataDot11], the fields of dot11 and dot11->mngmtVars used here
  phy       \* [Node -> transmission channel and set of channels listened to]

macVars == <<pending, mac, phy>>

Node == {Tx, Rx}

AppType == {"TX_CLIENT", "RX_SERVER"}   \* CHANSWITCH_TX_CLIENT, CHANSWITCH_RX_SERVER

ZeroDelayTimer == {"ChanswitchRequest", "ChangeChannelRequest", "MACAddressRequest"}

-----------------------------------------------------------------------------
(* Messages inside a node: old/new are channels, initial is the flag of the *)
(* address request, new is the channel reported by the address reply.       *)

Message ==
  [type : {"none", "ScanFinished", "MACAddressReply"} \cup ZeroDelayTimer,
   app : AppType, old : Channel, new : Channel, initial : BOOLEAN]

Msg(type, app, old, new, initial) ==
  [type |-> type, app |-> app, old |-> old, new |-> new, initial |-> initial]

NoMsg == Msg("none", "TX_CLIENT", 0, 0, FALSE)

StartProbing(app) == Msg("ChanswitchRequest", app, 0, 0, FALSE)
ChangeChannels(app, old, new) == Msg("ChangeChannelRequest", app, old, new, FALSE)
GetMyMacAddr(app, initial) == Msg("MACAddressRequest", app, 0, 0, initial)

Has(n, type) == pending[n].type = type

\* No zero-delay event is outstanding at n: timers and frames may be handled.
Quiet(n) == Has(n, "none") /\ mac[n].timer \notin ZeroDelayTimer

\* A frame sent by m now reaches n.
CanHear(m, n) == phy[m].tx \in phy[n].listening

-----------------------------------------------------------------------------
MacData ==
  [appType : AppType, newChannel : Channel, firstScan : BOOLEAN,
   timer : ZeroDelayTimer \cup {"none", "ActiveScan"},   \* the current management timer
   channel : Channel,       \* mngmtVars->currentChannel
   numResults : Nat, scanStarted : BOOLEAN,
   probeReqs : Nat,         \* probe requests in the management queue
   probed : SUBSET Channel] \* history: channels probed by the current scan

PhyData == [tx : Channel, listening : SUBSET Channel]

MacTypeOK ==
  /\ pending \in [Node -> Message]
  /\ mac \in [Node -> MacData]
  /\ phy \in [Node -> PhyData]

MacInit ==
  /\ pending = [n \in Node |-> NoMsg]
  /\ mac = [n \in Node |->
              [appType |-> "TX_CLIENT", newChannel |-> 0, firstScan |-> FALSE,
               timer |-> "none", channel |-> FirstChannel, numResults |-> 0,
               scanStarted |-> FALSE, probeReqs |-> 0, probed |-> {}]]
  /\ phy = [n \in Node |-> [tx |-> FirstChannel, listening |-> {FirstChannel}]]

-----------------------------------------------------------------------------
(* Requests from the application.  Each starts a zero-delay management timer *)
(* and so makes any older management timer stale: only the newest one is     *)
(* dispatched.                                                               *)

FromAppChanswitchRequest(n) ==
  /\ Has(n, "ChanswitchRequest")
  /\ mac' = [mac EXCEPT ![n] =
          [@ EXCEPT !.appType = pending[n].app, !.timer = "ChanswitchRequest"]]
  /\ pending' = [pending EXCEPT ![n] = NoMsg]
  /\ UNCHANGED phy

\* dot11->appType is compared with the constant of a channel switch type that
\* has the value of CHANSWITCH_TX_CLIENT: the server's radio is tuned directly,
\* without telling the management variables.
FromAppChangeChannelRequest(n) ==
  /\ Has(n, "ChangeChannelRequest")
  /\ pending' = [pending EXCEPT ![n] = NoMsg]
  /\ LET new == pending[n].new IN
     \/ /\ pending[n].app = "TX_CLIENT"
        /\ mac' = [mac EXCEPT ![n] =
                [@ EXCEPT !.appType = "TX_CLIENT", !.newChannel = new,
                          !.timer = "ChangeChannelRequest"]]
        /\ UNCHANGED phy
     \/ /\ pending[n].app # "TX_CLIENT"
        /\ mac' = [mac EXCEPT ![n] =
                [@ EXCEPT !.appType = pending[n].app, !.newChannel = new]]
        /\ phy' = [phy EXCEPT ![n] =
                [@ EXCEPT !.tx = new,
                          !.listening = (phy[n].listening \ {pending[n].old}) \cup {new}]]

FromAppMACAddressRequest(n) ==
  /\ Has(n, "MACAddressRequest")
  /\ mac' = [mac EXCEPT ![n] =
          [@ EXCEPT !.appType = pending[n].app, !.firstScan = pending[n].initial,
                    !.timer = "MACAddressRequest"]]
  /\ pending' = [pending EXCEPT ![n] = NoMsg]
  /\ UNCHANGED phy

-----------------------------------------------------------------------------
(* The management timers. *)

\* Mutant of Retuned: the radio goes on listening to the channel it leaves.
RetunedKeepsListening(n, c) ==
  IF mac[n].channel = c THEN phy[n]
  ELSE [tx |-> c, listening |-> phy[n].listening \cup {c}]

\* ChangeToChannel and ChangeToChannelNoProbe: the radio once tuned to c.
Retuned(n, c) ==
  IF mac[n].channel = c THEN phy[n]
  ELSE [tx |-> c, listening |-> (phy[n].listening \ {mac[n].channel}) \cup {c}]

\* Mutant of StartScan: one channel too many is counted as scanned.
StartScanOffByOne(n) ==
  /\ mac[n].timer = "ChanswitchRequest"
  /\ mac' = [mac EXCEPT ![n] =
          [@ EXCEPT !.timer = "none", !.scanStarted = TRUE, !.numResults = 2,
                    !.probeReqs = mac[n].probeReqs + 1, !.probed = {}]]
  /\ UNCHANGED <<pending, phy>>

\* StartJoin, ScanStart: queue the probe request for the first channel.
StartScan(n) ==
  /\ mac[n].timer = "ChanswitchRequest"
  /\ mac' = [mac EXCEPT ![n] =
          [@ EXCEPT !.timer = "none", !.scanStarted = TRUE, !.numResults = 1,
                    !.probeReqs = mac[n].probeReqs + 1, !.probed = {}]]
  /\ UNCHANGED <<pending, phy>>

ChangeChannelTimer(n) ==
  /\ mac[n].timer = "ChangeChannelRequest"
  /\ mac' = [mac EXCEPT ![n] = [@ EXCEPT !.timer = "none", !.channel = mac[n].newChannel]]
  /\ phy' = [phy EXCEPT ![n] = Retuned(n, mac[n].newChannel)]
  /\ UNCHANGED pending

MACAddressTimer(n) ==
  /\ mac[n].timer = "MACAddressRequest"
  /\ mac' = [mac EXCEPT ![n] = [@ EXCEPT !.timer = "none"]]
  /\ pending' = [pending EXCEPT ![n] =
                   Msg("MACAddressReply", mac[n].appType, 0, phy[n].tx, mac[n].firstScan)]
  /\ UNCHANGED phy

\* The probe request left the management queue; the dwell timer starts.
ProbeRequestTransmitted(n) ==
  /\ Quiet(n)
  /\ mac[n].probeReqs > 0
  /\ mac' = [mac EXCEPT ![n] =
          [@ EXCEPT !.probeReqs = mac[n].probeReqs - 1, !.timer = "ActiveScan",
                    !.probed = mac[n].probed \cup {phy[n].tx}]]
  /\ UNCHANGED <<pending, phy>>

\* The next channel the radio can listen to is k steps after channel c.
NextListenable(c, k) ==
  /\ (c + k) % NumChannels \in Listenable
  /\ \A j \in 1 .. k - 1 : (c + j) % NumChannels \notin Listenable

\* Mutant of ScanNextChannel: the channel number does not wrap around.
ScanNextChannelNoWrap(n) ==
  \E k \in 1 .. NumChannels :
    LET c == mac[n].channel + k IN
    /\ mac[n].timer = "ActiveScan" /\ Quiet(n)
    /\ NextListenable(mac[n].channel, k)
    /\ mac[n].numResults + k - 1 < NumChannels
    /\ mac' = [mac EXCEPT ![n] =
            [@ EXCEPT !.timer = "none", !.channel = c,
                      !.numResults = mac[n].numResults + k,
                      !.probeReqs = mac[n].probeReqs + 1]]
    /\ phy' = [phy EXCEPT ![n] = Retuned(n, c)]
    /\ UNCHANGED pending

\* ScanNextChannel: probe the next listenable channel...
ScanNextChannel(n) ==
  \E k \in 1 .. NumChannels :
    LET c == (mac[n].channel + k) % NumChannels IN
    /\ mac[n].timer = "ActiveScan" /\ Quiet(n)
    /\ NextListenable(mac[n].channel, k)
    /\ mac[n].numResults + k - 1 < NumChannels
    /\ mac' = [mac EXCEPT ![n] =
            [@ EXCEPT !.timer = "none", !.channel = c,
                      !.numResults = mac[n].numResults + k,
                      !.probeReqs = mac[n].probeReqs + 1]]
    /\ phy' = [phy EXCEPT ![n] = Retuned(n, c)]
    /\ UNCHANGED pending

\* ... or, when every channel has been counted, report to the application.
\* The radio stays on the last channel of the scan.
ScanCompleted(n) ==
  /\ mac[n].timer = "ActiveScan" /\ Quiet(n)
  /\ \E k \in 1 .. NumChannels :
       NextListenable(mac[n].channel, k) /\ mac[n].numResults + k - 1 >= NumChannels
  /\ mac' = [mac EXCEPT ![n] =
          [@ EXCEPT !.timer = "none", !.scanStarted = FALSE, !.numResults = 1]]
  /\ pending' = [pending EXCEPT ![n] = Msg("ScanFinished", mac[n].appType, 0, 0, FALSE)]
  /\ UNCHANGED phy

MacNext(n) ==
  \/ FromAppChanswitchRequest(n)
  \/ FromAppChangeChannelRequest(n)
  \/ FromAppMACAddressRequest(n)
  \/ StartScan(n)
  \/ ChangeChannelTimer(n)
  \/ MACAddressTimer(n)
  \/ ProbeRequestTransmitted(n)
  \/ ScanNextChannel(n)
  \/ ScanCompleted(n)
=============================================================================
