---------------------------- MODULE VisibleNodes ----------------------------
(***************************************************************************)
(* What an ASDCS node believes about its neighbours: the list of access     *)
(* points the active scan keeps, the visible node list made from it and     *)
(* from every frame overheard, and what the application is given of that    *)
(* list.  Source: mac_dot11-mgmt.cpp (MacDot11ManagementAddVisibleNode,     *)
(* FindBestAp, ScanStart, ScanNextChannel, ScanCompleted, ProcessBeacon,    *)
(* ProcessProbeResponse), mac_dot11.cpp (MacDot11ReceivePacketFromPhy) and  *)
(* app_chanswitch.cpp.                                                     *)
(*                                                                         *)
(* The node is an ad hoc station of type AP_PROBE: its bssAddr is its own   *)
(* address, so no other station is taken for "myself".  A list is a         *)
(* sequence whose last element is the head of the C++ list.                 *)
(***************************************************************************)
EXTENDS Integers, Sequences, FiniteSets

CONSTANTS
  NumChannels,  \* PROP_NumberChannels, all of them listenable
  Station,      \* the other stations
  AccessPoint,  \* those that answer probe requests and send beacons
  Home,         \* the channel of the session
  MaxMoves,     \* bound: changes of channel of the other stations
  MaxScans      \* bound: scans

ListAssumption ==
  /\ NumChannels \in Nat \ {0}
  /\ Home \in 0 .. NumChannels - 1
  /\ AccessPoint \subseteq Station
  /\ MaxMoves \in Nat /\ MaxScans \in Nat

Channel == 0 .. NumChannels - 1

VARIABLES
  at,        \* the channel each other station is on
  tuned,     \* the channel of the node's radio, mngmtVars->currentChannel
  left,      \* channels the scan has still to visit after this one, -1 outside a scan
  apList,    \* channelInfo->headAPList: an AP and the channel it was last heard on
  visible,   \* dot11->visibleNodeList
  given,     \* entries the application's txNodeList reaches, 0 when NULL
  current,   \* history: stations heard in the last scan, and where last heard
  moved,     \* history: stations that have changed channel
  moves, scans

vars == <<at, tuned, left, apList, visible, given, current, moved, moves, scans>>

Entry == [bss : Station, channel : Channel, isAP : BOOLEAN]
Scanning == left >= 0
Indices(list) == 1 .. Len(list)
Known(list) == {list[i].bss : i \in Indices(list)}

Init ==
  /\ at \in [Station -> Channel]
  /\ tuned = Home
  /\ left = -1
  /\ apList = <<>> /\ visible = <<>>
  /\ given = 0
  /\ current = {} /\ moved = {}
  /\ moves = 0 /\ scans = 0

-----------------------------------------------------------------------------
\* Mutant of AddVisibleNode: the list is not searched for the station.
AddVisibleNodeAgain(list, s, c, isAP) ==
  Append(list, [bss |-> s, channel |-> c, isAP |-> isAP])

\* MacDot11ManagementAddVisibleNode.  An entry is only ever changed when an AP
\* takes the place of what was entered as an ordinary station.
AddVisibleNode(list, s, c, isAP) ==
  LET entry == [bss |-> s, channel |-> c, isAP |-> isAP] IN
  IF s \in Known(list)
  THEN [i \in Indices(list) |->
          IF list[i].bss = s /\ ~list[i].isAP /\ isAP THEN entry ELSE list[i]]
  ELSE Append(list, entry)

\* The channel the AP was last heard on.
ApChannel(i) == apList[i].channel

\* MacDot11ManagementFindBestAp, its effect on the visible node list: the whole
\* AP list is walked from its head, APs of earlier scans included.
AddAps[n \in 0 .. Len(apList)] ==
  LET i == Len(apList) + 1 - n IN
  IF n = 0 THEN visible
  ELSE AddVisibleNode(AddAps[n - 1], apList[i].bss, ApChannel(i), TRUE)

Heard(s) ==
  current' = IF Scanning THEN {h \in current : h[1] # s} \cup {<<s, tuned>>} ELSE current

-----------------------------------------------------------------------------
\* MacDot11ReceivePacketFromPhy: a frame that carries its sender's address.
HearFrame(s) ==
  /\ at[s] = tuned
  /\ visible' = AddVisibleNode(visible, s, tuned, FALSE)
  /\ Heard(s)
  /\ UNCHANGED <<at, tuned, left, apList, given, moved, moves, scans>>

\* A beacon or a probe response, handled while the scan waits (DOT11_S_M_WFSCAN):
\* MacDot11ManagementGetAPInfo, then the channel is set.
HearAp(s) ==
  /\ Scanning /\ at[s] = tuned
  /\ apList' = IF s \in Known(apList)
               THEN [i \in Indices(apList) |->
                       IF apList[i].bss = s THEN [apList[i] EXCEPT !.channel = tuned]
                       ELSE apList[i]]
               ELSE Append(apList, [bss |-> s, channel |-> tuned])
  /\ Heard(s)
  /\ UNCHANGED <<at, tuned, left, visible, given, moved, moves, scans>>

\* Another pair of nodes switches channels.
Move(s, c) ==
  /\ moves < MaxMoves /\ c # at[s]
  /\ at' = [at EXCEPT ![s] = c]
  /\ moved' = moved \cup {s}
  /\ moves' = moves + 1
  /\ UNCHANGED <<tuned, left, apList, visible, given, current, scans>>

\* MacDot11ManagementScanStart
ScanStart ==
  /\ ~Scanning /\ given = 0 /\ scans < MaxScans
  /\ left' = NumChannels - 1
  /\ scans' = scans + 1
  /\ current' = {}
  /\ UNCHANGED <<at, tuned, apList, visible, given, moved, moves>>

\* MacDot11ManagementScanNextChannel
ScanNextChannel ==
  /\ left > 0
  /\ tuned' = (tuned + 1) % NumChannels
  /\ left' = left - 1
  /\ UNCHANGED <<at, apList, visible, given, current, moved, moves, scans>>

\* MacDot11ManagementScanCompleted: the application gets the pointer to the head
\* of the list, not a copy, and has the radio brought back to its channel.
ScanCompleted ==
  /\ left = 0
  /\ left' = -1
  /\ visible' = AddAps[Len(apList)]
  /\ given' = Len(visible')
  /\ tuned' = Home
  /\ UNCHANGED <<at, apList, current, moved, moves, scans>>

\* AppChanswitchClientEvaluateChannels has read the list: the pointer is dropped
\* and the list itself left to the MAC.
Evaluated ==
  /\ given > 0
  /\ given' = 0
  /\ UNCHANGED <<at, tuned, left, apList, visible, current, moved, moves, scans>>

Next ==
  \/ \E s \in Station : HearFrame(s)
  \/ \E s \in AccessPoint : HearAp(s)
  \/ \E s \in Station, c \in Channel : Move(s, c)
  \/ ScanStart
  \/ ScanNextChannel
  \/ ScanCompleted
  \/ Evaluated

Spec == Init /\ [][Next]_vars

-----------------------------------------------------------------------------
TypeOK ==
  /\ at \in [Station -> Channel] /\ tuned \in Channel
  /\ left \in -1 .. NumChannels - 1
  /\ apList \in Seq([bss : Station, channel : Channel])
  /\ visible \in Seq(Entry)
  /\ given \in 0 .. Len(visible)
  /\ current \subseteq Station \X Channel
  /\ moved \subseteq Station
  /\ moves \in 0 .. MaxMoves /\ scans \in 0 .. MaxScans

\* A station counts once on a channel however often and however it was heard:
\* otherwise it would be counted as several hidden nodes.
CountedOnce ==
  \A i, j \in Indices(visible) : visible[i].bss = visible[j].bss => i = j

\* What the list says of a station that never moved is true.
TrueOfTheStill ==
  \A i \in Indices(visible) :
    visible[i].bss \notin moved => visible[i].channel = at[visible[i].bss]

\* The list handed over after a scan has every station heard in that scan.
ScanReported ==
  given > 0 => {h[1] : h \in current} \subseteq Known(visible)

\* The application reads the list through a pointer while the MAC goes on adding
\* to it: what it has been given does not change before it has evaluated it.
ReadStable ==
  given > 0 /\ given' = given => \A i \in 1 .. given : visible'[i] = visible[i]

\* An AP is never taken for an ordinary station again, and nobody is forgotten.
NeverDemoted ==
  \A i \in Indices(visible) :
    /\ Len(visible') >= Len(visible)
    /\ visible'[i].bss = visible[i].bss
    /\ visible[i].isAP => visible'[i].isAP

-----------------------------------------------------------------------------
(* What a comment or an assertion of the code says and its actions do not keep. *)

\* The list is said to be cleared in preparation for the next scan: whoever is in
\* it when it is handed over was heard in this scan.
ListIsOfThisScan ==
  [][ScanCompleted => Known(visible') \subseteq
                        {h[1] : h \in current}]_vars

\* Nodes are said to be added while scanning: outside a scan the list is at rest.
AddedWhileScanning ==
  [][visible' # visible => Scanning]_vars
=============================================================================
