------------------------------- MODULE MacLayer -------------------------------
(***************************************************************************)
(* The entry points of the MAC layer (main/mac.cpp) between one interface's  *)
(* MAC protocol, the network layer above it and the radio below it: each    *)
(* has a table of its own that picks the handler of the running protocol,   *)
(* with the libraries the simulator is built with.                          *)
(*                                                                         *)
(* A handler is external (Dot11Dcf has the one of 802.11): here it holds the *)
(* packets it fetches and lets them go.  Faults and static routes are in     *)
(* ForwardingTable, the initialisation is in MacSetup.                      *)
(***************************************************************************)
EXTENDS Integers, FiniteSets

CONSTANTS
  Libraries,
  Interfaces,  \* [mac, radio, wormhole, security, fault, traffic, switch, mpls]: what was set
               \* up, mac as MAC-PROTOCOL has it
  Packets,     \* of the network layer, of the switch and of the radio
  None

VARIABLES
  nic,      \* the interface
  enabled,
  where,    \* where each packet is
  awake,    \* the MAC has been told of packets it has not all fetched
  last,     \* the last call: entry point, who handled it, whose data it was given
  ended     \* what MAC_Finalize has ended
macVars == <<nic, enabled, where, awake, last, ended>>

\* The protocol of each name in the configuration.
Protocol(name) ==
  CASE name \in {"MACDOT11", "MACDOT11e"} -> "DOT11"
    [] name = "CELLULAR-MAC" -> "CELLULAR"
    [] name \in {"ABSTRACT", "Link"} -> "LINK"
    [] name = "MAC802.3" -> "802.3"
    [] name = "MAC802.15.4" -> "802.15.4"
    [] name = "MAC802.16" -> "DOT16"
    [] name = "MAC-LINK-11" -> "TADIL-LINK11"
    [] name = "MAC-LINK-16" -> "TADIL-LINK16"
    [] name = "MAC-SPAWAR-LINK16" -> "SPAWAR-LINK16"
    [] name = "SATELLITE-BENTPIPE" -> "BENTPIPE"
    [] name = "MAC-WORMHOLE" -> "WORMHOLE"
    [] OTHER -> name

-----------------------------------------------------------------------------
(* The tables: protocols with the library that has the case. *)

Wireless == {"DOT11", "CSMA", "MACA", "TDMA", "ALOHA", "GENERICMAC"} \X {"WIRELESS"}
Cellular == {<<"GSM", "CELLULAR">>, <<"CELLULAR", "CELLULAR">>, <<"CELLULAR", "UMTS">>}

EventCases ==
  Wireless \cup Cellular
  \cup {<<"802.3", "">>, <<"LINK", "">>, <<"SATCOM", "">>, <<"DOT16", "ADVANCED">>, <<"802.15.4", "SENSOR">>,
        <<"SWITCHED-ETHERNET", "ENTERPRISE">>}
MilitaryEvents ==
  {<<"ALE", "ALE">>, <<"SPAWAR-LINK16", "LINK16">>, <<"TADIL-LINK11", "MILITARY">>, <<"TADIL-LINK16", "MILITARY">>,
   <<"FCSC", "MILITARY">>, <<"USAP", "MILITARY">>, <<"ANE", "SATELLITE">>, <<"BENTPIPE", "SATELLITE">>,
   <<"WORMHOLE", "NETSEC">>}

SendCases ==
  Wireless
  \cup {<<"802.3", "">>, <<"LINK", "">>, <<"SATCOM", "">>, <<"DOT16", "ADVANCED">>, <<"802.15.4", "SENSOR">>,
        <<"TADIL-LINK11", "MILITARY">>, <<"FCSC", "MILITARY">>, <<"USAP", "MILITARY">>}
OtherSendCases ==
  Cellular
  \cup {<<"SWITCHED-ETHERNET", "ENTERPRISE">>, <<"ALE", "ALE">>, <<"SPAWAR-LINK16", "LINK16">>, <<"SATTSM", "SATELLITE">>,
        <<"ANE", "SATELLITE">>, <<"BENTPIPE", "SATELLITE">>}
\* Two protocols have nothing to do when there is a packet.
EmptySendCases == {<<"TADIL-LINK16", "MILITARY">>, <<"WORMHOLE", "NETSEC">>}

ReceiveCases ==
  Wireless \cup Cellular
  \cup {<<"ALE", "ALE">>, <<"BENTPIPE", "SATELLITE">>, <<"TADIL-LINK11", "MILITARY">>, <<"TADIL-LINK16", "MILITARY">>,
        <<"USAP", "MILITARY">>, <<"DOT16", "ADVANCED">>, <<"802.15.4", "SENSOR">>}

StatusCases ==
  Wireless
  \cup {<<"GSM", "CELLULAR">>, <<"ALE", "ALE">>, <<"SPAWAR-LINK16", "LINK16">>, <<"TADIL-LINK11", "MILITARY">>,
        <<"TADIL-LINK16", "MILITARY">>, <<"USAP", "MILITARY">>}
OtherStatusCases ==
  {<<"BENTPIPE", "SATELLITE">>, <<"DOT16", "ADVANCED">>, <<"802.15.4", "SENSOR">>, <<"WORMHOLE", "NETSEC">>}
EmptyStatusCases == {<<"CELLULAR", "CELLULAR">>, <<"CELLULAR", "UMTS">>}

FinalizeCases ==
  Wireless
  \cup {<<"LINK", "">>, <<"802.3", "">>, <<"SATCOM", "">>, <<"FCSC", "MILITARY">>, <<"TADIL-LINK11", "MILITARY">>,
        <<"TADIL-LINK16", "MILITARY">>, <<"USAP", "MILITARY">>}
OtherFinalizeCases ==
  Cellular
  \cup {<<"SWITCHED-ETHERNET", "ENTERPRISE">>, <<"SATTSM", "SATELLITE">>, <<"ANE", "SATELLITE">>, <<"BENTPIPE", "SATELLITE">>,
        <<"ALE", "ALE">>, <<"SPAWAR-LINK16", "LINK16">>, <<"DOT16", "ADVANCED">>, <<"802.15.4", "SENSOR">>,
        <<"WORMHOLE", "NETSEC">>}

Has(cases) == \E x \in cases : x[1] = nic.mac /\ x[2] \in Libraries \cup {""}
Handler(cases, empty) ==
  CASE Has(cases) -> nic.mac
    [] ~Has(cases) /\ Has(empty) -> None
    [] OTHER -> "error"
Call(entry, to) == [entry |-> entry, to |-> to, data |-> nic.mac]

-----------------------------------------------------------------------------
(* Packets to send. *)

IsASwitch == "ENTERPRISE" \in Libraries /\ nic.switch
IsWormhole == "NETSEC" \in Libraries /\ nic.wormhole

MAC_IsLayer2Device ==
  \/ IsASwitch
  \/ IsWormhole
  \/ "MILITARY" \in Libraries /\ nic.mac \in {"TADIL-LINK11", "TADIL-LINK16"}

Queued == {p \in Packets : where[p] = "queued"}

\* MAC_NetworkLayerHasPacketToSend, when a packet came to an empty queue.
NetworkPacket(p) ==
  LET to == Handler(SendCases \cup OtherSendCases, EmptySendCases)
  IN  /\ where[p] = "network"
      /\ CASE Queued # {} ->
                where' = [where EXCEPT ![p] = "queued"] /\ UNCHANGED <<awake, last>>
           [] Queued = {} /\ MAC_IsLayer2Device ->
                where' = [where EXCEPT ![p] = "freed"] /\ UNCHANGED <<awake, last>>
           [] Queued = {} /\ ~MAC_IsLayer2Device /\ ~enabled ->
                where' = [where EXCEPT ![p] = "told"] /\ UNCHANGED <<awake, last>>
           [] OTHER ->
                /\ where' = [where EXCEPT ![p] = "queued"]
                /\ awake' = (to \notin {None, "error"})
                /\ last' = Call("send", to)
      /\ UNCHANGED <<nic, enabled, ended>>

\* MAC_SwitchHasPacketToSend: only wired links are ports of a switch.
SwitchPacket(p) ==
  /\ where[p] = "switch" /\ IsASwitch
  /\ IF ~enabled THEN where' = [where EXCEPT ![p] = "freed"] /\ UNCHANGED last
     ELSE /\ where' = [where EXCEPT ![p] = "MAC"]
          /\ last' = Call("switch", IF nic.mac \in {"802.3", "LINK"} THEN nic.mac ELSE "error")
  /\ UNCHANGED <<nic, enabled, awake, ended>>

\* The protocol fetches the packets it has been told of, one after the other.
Fetch(p) ==
  /\ awake /\ where[p] = "queued"
  /\ where' = [where EXCEPT ![p] = "MAC"]
  /\ awake' = (Queued # {p})
  /\ UNCHANGED <<nic, enabled, last, ended>>
Done(p) ==
  /\ where[p] = "MAC"
  /\ where' = [where EXCEPT ![p] = "sent"]
  /\ UNCHANGED <<nic, enabled, awake, last, ended>>

\* The packets that wait are told of when the interface goes down.
Disable ==
  /\ enabled
  /\ enabled' = FALSE
  /\ where' = [p \in Packets |-> IF where[p] = "queued" THEN "told" ELSE where[p]]
  /\ awake' = FALSE
  /\ UNCHANGED <<nic, last, ended>>
Enable == ~enabled /\ enabled' = TRUE /\ UNCHANGED <<nic, where, awake, last, ended>>

-----------------------------------------------------------------------------
(* Frames and status of the radio. *)

\* MAC_ReceivePacketFromPhy.  A wormhole gets every frame twice, once to send through
\* and once to see whether to replay it.
ReceivePacketFromPhy(p) ==
  /\ where[p] = "radio" /\ nic.radio /\ nic.mac # "SPAWAR-LINK16"
  /\ IF ~enabled THEN where' = [where EXCEPT ![p] = "freed"] /\ UNCHANGED last
     ELSE /\ where' = [where EXCEPT ![p] = "MAC"]
          /\ last' = Call("receive", IF IsWormhole THEN "WORMHOLE" ELSE Handler(ReceiveCases, {}))
  /\ UNCHANGED <<nic, enabled, awake, ended>>

\* MAC_ReceivePacketFromPhySpawar_Link16
ReceiveSpawar_Link16(p) ==
  /\ where[p] = "radio" /\ nic.radio /\ nic.mac = "SPAWAR-LINK16"
  /\ IF ~enabled THEN where' = [where EXCEPT ![p] = "freed"] /\ UNCHANGED last
     ELSE where' = [where EXCEPT ![p] = "MAC"] /\ last' = Call("receive", nic.mac)
  /\ UNCHANGED <<nic, enabled, awake, ended>>

\* MAC_ReceivePhyStatusChangeNotification, of an interface that is down too.
ReceivePhyStatusChange ==
  /\ nic.radio
  /\ last' = Call("status", Handler(StatusCases \cup OtherStatusCases, EmptyStatusCases))
  /\ UNCHANGED <<nic, enabled, where, awake, ended>>

-----------------------------------------------------------------------------
(* Events, the statistics and the end. *)

\* MAC_ProcessEvent, for what is not about faults: background traffic, labels, the
\* switch of the node, or the protocol.
ProcessEvent ==
  /\ \/ nic.traffic /\ last' = Call("event", "traffic")
     \/ nic.mpls /\ last' = Call("event", "MPLS")
     \/ IsASwitch /\ last' = Call("event", "switch")
     \/ last' = Call("event", Handler(EventCases \cup MilitaryEvents, {}))
  /\ UNCHANGED <<nic, enabled, where, awake, ended>>

\* MAC_NetworkLayerChanswitch: the queue asks for another channel.
NetworkLayerChanswitch ==
  /\ "WIRELESS" \in Libraries /\ nic.mac = "DOT11"
  /\ last' = Call("chanswitch", "DOT11")
  /\ UNCHANGED <<nic, enabled, where, awake, ended>>

\* The case of ALOHA goes on into the next one, with the data of ALOHA.
RunTimeStatCalls ==
  CASE Has({<<"ALOHA", "WIRELESS">>}) -> {"ALOHA", "GENERICMAC"}
    [] Has({<<"GENERICMAC", "WIRELESS">>, <<"ANE", "SATELLITE">>, <<"BENTPIPE", "SATELLITE">>}) -> {nic.mac}
    [] OTHER -> {}
RunTimeStat ==
  /\ \E to \in RunTimeStatCalls : last' = Call("statistics", to)
  /\ UNCHANGED <<nic, enabled, where, awake, ended>>

\* MAC_Finalize.  The security of an 802.11 interface ends with it.
Ends ==
  {Handler(FinalizeCases \cup OtherFinalizeCases, {})}
  \cup (IF Has({<<"DOT11", "WIRELESS">>}) /\ "NETSEC" \in Libraries THEN nic.security ELSE {})
  \cup (IF nic.fault THEN {"fault"} ELSE {})
  \cup (IF nic.traffic THEN {"traffic"} ELSE {})
  \cup (IF IsASwitch THEN {"switch"} ELSE {})
  \cup (IF "ENTERPRISE" \in Libraries /\ nic.mpls THEN {"MPLS"} ELSE {})
Finalize ==
  /\ ended' = Ends
  /\ last' = Call("finalize", Handler(FinalizeCases \cup OtherFinalizeCases, {}))
  /\ UNCHANGED <<nic, enabled, where, awake>>

Init ==
  /\ nic \in {[x EXCEPT !.mac = Protocol(@)] : x \in Interfaces}
  /\ enabled = TRUE
  /\ where \in [Packets -> {"network", "switch", "radio"}]
  /\ awake = FALSE
  /\ last = [entry |-> None, to |-> nic.mac, data |-> nic.mac]
  /\ ended = {}

Next ==
  /\ ended = {}
  /\ \/ \E p \in Packets :
          \/ NetworkPacket(p) \/ SwitchPacket(p) \/ Fetch(p) \/ Done(p)
          \/ ReceivePacketFromPhy(p) \/ ReceiveSpawar_Link16(p)
     \/ Disable \/ Enable \/ ReceivePhyStatusChange \/ ProcessEvent \/ NetworkLayerChanswitch \/ RunTimeStat
     \/ Finalize

-----------------------------------------------------------------------------
(* Properties. *)

\* Every protocol that the initialisation starts has a case in each table that it can
\* reach, and is the one that is called.
HandlersExist ==
  /\ last.to # "error"
  /\ last.to \in {nic.mac, None} \/ last.entry \in {"event", "statistics"}

\* No packet waits for a protocol that was never told of it.
NothingForgotten == Queued # {} => awake

\* What was begun for the interface is ended, and nothing else.
Begun ==
  {nic.mac} \cup nic.security \cup (IF nic.fault THEN {"fault"} ELSE {}) \cup (IF nic.traffic THEN {"traffic"} ELSE {})
  \cup (IF nic.switch THEN {"switch"} ELSE {}) \cup (IF nic.mpls THEN {"MPLS"} ELSE {})
EndsWhatItBegan == ended \in {{}, Begun}

MacLayerSound == HandlersExist /\ NothingForgotten /\ EndsWhatItBegan
=============================================================================
