------------------------------ MODULE StaJoin ------------------------------
(***************************************************************************)
(* How an 802.11 station joins an access point and roams to another        *)
(* (mac_dot11-mgmt.cpp): scan, authentication, association, the reset that *)
(* any failed step asks for and that waits until the frame exchange has    *)
(* nothing in hand, the watch for missed beacons, and the lists of the     *)
(* access points.  One station without QoS; each channel has one access    *)
(* point of the network at most.                                           *)
(***************************************************************************)
EXTENDS Integers, Sequences, FiniteSets

CONSTANTS
    APs,         \* access points
    ChannelOf,   \* [APs -> Channels]
    NumChannels, \* PROP_NumberChannels
    Foreign,     \* access points whose SSID is not the station's
    ScanType,    \* "disabled", "passive" or "active"
    NoAp,        \* INVALID_802ADDRESS, NULL
    Levels,      \* signal levels, at least DOT11_HANDOVER_RSS_MARGIN apart; 0: out of range
    Threshold,   \* thresholdSignalStrength
    MissedMax,   \* DOT11_BEACON_MISSED_MAX
    MaxAid,      \* association ids of an access point
    Taken,       \* [APs -> SUBSET 1 .. MaxAid], the ids that other stations have
    MaxAnswers,  \* bound: answers an access point has queued when a probe is sent
    MaxMoves,    \* bound: changes of a signal level
    MaxLosses    \* bound: frames or acknowledgements lost by noise

Channels == 0 .. NumChannels - 1
Aids == 1 .. MaxAid

JoinAssumption ==
    /\ ChannelOf \in [APs -> Channels]
    /\ \A a, b \in APs : a # b => ChannelOf[a] # ChannelOf[b]
    /\ Foreign \subseteq APs /\ NoAp \notin APs
    /\ ScanType \in {"disabled", "passive", "active"}
    /\ {NumChannels, MaxAid} \subseteq Nat \ {0}
    /\ Taken \in [APs -> SUBSET Aids]
    /\ Levels \subseteq Nat /\ 0 \in Levels
    /\ {Threshold, MissedMax, MaxAnswers, MaxMoves, MaxLosses} \subseteq Nat

VARIABLES
    sta,      \* the fields of MacDataDot11 and DOT11_ManagementVars of the station
    listed,   \* AP -> the station's association id in apStationList, 0 if it is not in it
    heard,    \* AP -> a frame of the station came since the last inactivity check
    dropped,  \* AP -> the inactivity check removed the station since it associated
    answers,  \* AP -> management queue
    level,    \* AP -> strength of its signal at the station
    moves, losses,
    failed    \* the ERROR_ReportError or ERROR_Assert that ended the program

vars == <<sta, listed, heard, dropped, answers, level, moves, losses, failed>>
apVars == <<listed, heard, dropped, answers>>
envVars == <<level, moves, losses>>

ManagementStates ==
    {"IDLE", "SCAN", "WFSCAN", "WFAUTH", "AUTH_FINISHED", "WFASSOC", "WFREASSOC",
     "JOINED"}
Timers ==
    {"none", "Enable", "Beacon_Wait", "Active_Scan_Short", "Active_Scan_Long",
     "Scan_Start", "Authentication_Start", "Reassociation_Start", "Authentication",
     "Association", "Reassociation"}

Station ==
    [state : ManagementStates,
     stationAuthenticated : BOOLEAN, stationAssociated : BOOLEAN,
     ScanStarted : BOOLEAN, currentChannel : Channels, numResults : 1 .. NumChannels,
     rss : [APs -> Levels],         \* rssMean in the AP list, 0 when not in it
     measured : SUBSET APs,           \* lastMeaTime >= scanStartTime
     apAddr : APs \union {NoAp},      \* and PraposedAPInfo
     associatedAP : APs \union {NoAp},
     own : APs \union {NoAp},         \* bssAddr, NoAp for selfAddr
     aid : 0 .. MaxAid,               \* assignAssociationId
     queue : Seq([type : {"PROBE", "AUTH", "ASSOC", "REASSOC"}, to : APs \union {NoAp}]),
     timer : Timers,                  \* the management timer whose number is the latest
     current : {"none", "mgmt", "data"},  \* currentMessage; the frame is Head(queue)
     acking : BOOLEAN,                \* state is not IDLE: an acknowledgement is sent
     resetPending : BOOLEAN,          \* ManagementResetPending
     beaconsMissed : 0 .. MissedMax + 1]

-----------------------------------------------------------------------------
(* Operations of the station.                                              *)

IsJoined(s) == s.stationAuthenticated /\ s.stationAssociated
StartTimer(s, t) == [s EXCEPT !.timer = t]

ChangeToChannel(s, c) == [s EXCEPT !.currentChannel = c]

\* MoveAPacketFromTheMgmtQueue: with a frame of it at the head, a station that does not
\* take its data from the network is given a management frame.
Take(s) ==
    IF s.current = "none" /\ ~s.acking /\ s.queue # <<>>
          /\ ~(IsJoined(s) /\ ~s.ScanStarted)
    THEN [s EXCEPT !.current = "mgmt"] ELSE s

\* MacDot11MgmtQueue_EnqueuePacket at a station.  The frame is taken at once, or when
\* the probe delay after a change of channel or the medium lets it: see MediumIdle.
Enqueue(s, f) == [s EXCEPT !.queue = Append(@, f)]

\* The request frames, a probe to whoever hears it and the others to the proposed AP.
ProbeRequestFrame == [type |-> "PROBE", to |-> NoAp]
AuthenticateFrame(s) == [type |-> "AUTH", to |-> s.apAddr]   \* transSeqNo 1
AssociateRequestFrame(s) == [type |-> "ASSOC", to |-> s.apAddr]
ReassociateRequestFrame(s) == [type |-> "REASSOC", to |-> s.apAddr]

ScanStart(s) ==
    LET t == [ChangeToChannel(s, s.currentChannel) EXCEPT
                !.state = "WFSCAN", !.numResults = 1, !.measured = {},
                !.own = IF ScanType = "disabled" THEN @ ELSE NoAp]
    IN IF ScanType = "active"
       THEN Enqueue(t, ProbeRequestFrame)
       ELSE StartTimer(t, "Beacon_Wait")

StartJoin(s) == ScanStart([s EXCEPT !.state = "SCAN", !.ScanStarted = TRUE])

Enable(s) == StartJoin([s EXCEPT !.apAddr = NoAp])

\* A reset while a frame is in hand or answered is left for later.
ResetAlways(s) ==
    StartJoin([s EXCEPT !.stationAuthenticated = FALSE, !.stationAssociated = FALSE,
                        !.queue = <<>>, !.apAddr = NoAp])
Reset(s) ==
    IF s.acking \/ s.current # "none" THEN [s EXCEPT !.resetPending = TRUE]
    ELSE ResetAlways(s)

ResetIfPending(s) ==
    IF ~s.resetPending THEN s
    ELSE [Reset(s) EXCEPT !.resetPending = FALSE]   \* also if it is refused once more

RescanIfWeak(s) ==
    IF /\ s.stationAssociated /\ ~s.acking /\ s.current = "none" /\ ~s.ScanStarted
       /\ s.rss[s.associatedAP] < Threshold
    THEN StartJoin(s) ELSE s

CheckForOutgoingPacket(s) == Take(RescanIfWeak(ResetIfPending(s)))

Authenticate(s) == Enqueue([s EXCEPT !.state = "WFAUTH"], AuthenticateFrame(s))
AssociateRequest(s) == Enqueue([s EXCEPT !.state = "WFASSOC"], AssociateRequestFrame(s))
ReassociateRequest(s) ==
    Enqueue([s EXCEPT !.state = "WFREASSOC"], ReassociateRequestFrame(s))

FindBestAp(s) ==
    LET seen == {a \in s.measured : s.rss[a] > Threshold}
    IN IF seen = {} THEN {NoAp}
       ELSE {a \in seen : \A b \in seen : s.rss[b] <= s.rss[a]}

\* Propose an access point, change to its channel and wait a random time.
Propose(s, a, t) == StartTimer(ChangeToChannel([s EXCEPT !.apAddr = a], ChannelOf[a]), t)

ScanCompletedWith(s, best) ==
    LET t == [s EXCEPT !.ScanStarted = FALSE, !.numResults = 1]
    IN IF best = NoAp
       THEN StartTimer([t EXCEPT !.stationAssociated = FALSE], "Scan_Start")
       ELSE IF ~s.stationAssociated THEN Propose(t, best, "Authentication_Start")
       ELSE IF best # s.associatedAP /\ s.rss[best] > s.rss[s.associatedAP]
       THEN Propose([t EXCEPT !.stationAssociated = FALSE], best, "Reassociation_Start")
       ELSE [ChangeToChannel(t, ChannelOf[s.associatedAP]) EXCEPT !.own = s.associatedAP]

\* MacDot11ManagementScanNextChannel; with one channel to scan the first is the last.
ScanNextChannel(s) ==
    IF ScanType = "disabled" \/ s.numResults = NumChannels
    THEN {ScanCompletedWith(s, a) : a \in FindBestAp(s)}
    ELSE LET t == [ChangeToChannel(s, (s.currentChannel + 1) % NumChannels)
                     EXCEPT !.numResults = @ + 1]
         IN {IF ScanType = "active"
             THEN Enqueue(t, ProbeRequestFrame)
             ELSE StartTimer(t, "Beacon_Wait")}

\* UpdateAPMeasurement of an access point that was heard.
Measure(s, a) == [s EXCEPT !.rss[a] = level[a], !.measured = @ \union {a}]

-----------------------------------------------------------------------------
(* The station's events.                                                   *)

StationStep(s) == sta' = s /\ UNCHANGED failed
Reachable(a) == sta.currentChannel = ChannelOf[a] /\ level[a] > 0

\* Reset, or nothing when the step the timer guards has been completed.
TimeoutOf(s, done) == {IF done THEN s ELSE Reset(s)}

\* A channel takes longer to scan than an answer waits for its turn or its retries.
ManagementHandleTimeout ==
    LET s == StartTimer(sta, "none") IN
    /\ sta.timer \in {"Beacon_Wait", "Active_Scan_Long", "Scan_Start"} =>
          \A a \in APs : answers[a] = <<>>
    /\ \E t \in CASE sta.timer = "Enable" -> {Enable(s)}
                  [] sta.timer \in {"Active_Scan_Long", "Beacon_Wait"} -> ScanNextChannel(s)
                  [] sta.timer = "Active_Scan_Short" ->   \* MayReceiveProbeResponce or not
                        {StartTimer(s, "Active_Scan_Long")} \union ScanNextChannel(s)
                  [] sta.timer = "Authentication" -> TimeoutOf(s, s.stationAuthenticated)
                  [] sta.timer \in {"Association", "Reassociation"} ->
                        TimeoutOf(s, s.stationAssociated)
                  [] sta.timer = "Scan_Start" -> {Reset(s)}
                  [] sta.timer = "Authentication_Start" ->
                        {Authenticate([s EXCEPT !.ScanStarted = FALSE])}
                  [] sta.timer = "Reassociation_Start" -> {ReassociateRequest(s)}
                  [] OTHER -> {} :
          StationStep(t)
    /\ UNCHANGED <<apVars, envVars>>

\* A frame was queued, the probe delay is over or the medium has become idle.
MediumIdle ==
    /\ ~sta.acking /\ sta.current = "none"
    /\ StationStep(CheckForOutgoingPacket(sta))
    /\ UNCHANGED <<apVars, envVars>>

AckTransmitted ==
    /\ sta.acking
    /\ StationStep(CheckForOutgoingPacket([sta EXCEPT !.acking = FALSE]))
    /\ UNCHANGED <<apVars, envVars>>

\* The frame in hand is done with: dequeued, and the next is looked for.
Dequeued(s) == [s EXCEPT !.queue = Tail(@), !.current = "none"]
Done(s, t) == CheckForOutgoingPacket(StartTimer(Dequeued(s), t))

ResponseTimer == [AUTH |-> "Authentication", ASSOC |-> "Association",
                  REASSOC |-> "Reassociation"]

Sending(a) ==
    /\ sta.current = "mgmt" /\ ~sta.acking
    /\ Head(sta.queue).to = a

ProbeResponseFrame == [type |-> "PROBE", aid |-> 0]

\* The probe goes to whoever listens, and every access point answers.
ProbeTransmitted ==
    /\ Sending(NoAp) /\ \A a \in APs : Len(answers[a]) <= MaxAnswers
    /\ StationStep(Done(sta, "Active_Scan_Short"))
    /\ answers' = [a \in APs |-> IF Reachable(a)
                                 THEN Append(answers[a], ProbeResponseFrame)
                                 ELSE answers[a]]
    /\ heard' = [a \in APs |-> heard[a] \/ Reachable(a)]
    /\ UNCHANGED <<listed, dropped, envVars>>

\* AddStation (outside of this repository) gives an id that no other station has, or 0.
FreeIds(a) ==
    LET free == Aids \ Taken[a]
    IN IF listed[a] # 0 THEN {listed[a]} ELSE IF free = {} THEN {0} ELSE free

\* The ids with which the access point may answer a request, 0 to refuse it.
AuthenticateAnswer(a) == {0}   \* transSeqNo 2, without an id
AssociateResponseIds(a) == IF a \in Foreign THEN {0} ELSE FreeIds(a) \ {0}
ReassociateResponseIds(a) == IF a \in Foreign THEN {0} ELSE FreeIds(a)

\* Without a free id no answer to an association request is built.
AnswerIds(a, type) ==
    CASE type = "AUTH" -> AuthenticateAnswer(a)
      [] type = "ASSOC" -> AssociateResponseIds(a)
      [] type = "REASSOC" -> ReassociateResponseIds(a)

\* The access point processes a request: the list, and the answer in its queue.
ApReceives(a, type) ==
    \E i \in AnswerIds(a, type) :
       /\ listed' = [listed EXCEPT ![a] = IF i = 0 THEN @ ELSE i]
       /\ dropped' = [dropped EXCEPT ![a] = @ /\ i = 0]
       /\ heard' = [heard EXCEPT ![a] = @ \/ listed[a] # 0 \/ i # 0]
       /\ answers' = [answers EXCEPT ![a] = Append(@, [type |-> type, aid |-> i])]

\* A request reaches its access point, and its acknowledgement the station.
RequestAcked(a) ==
    /\ Sending(a) /\ Reachable(a)
    /\ ApReceives(a, Head(sta.queue).type)
    /\ StationStep(Done(sta, ResponseTimer[Head(sta.queue).type]))
    /\ UNCHANGED envVars

\* The acknowledgement is lost; the request will be tried again.
RequestUnacked(a) ==
    /\ Sending(a) /\ Reachable(a) /\ losses < MaxLosses
    /\ ApReceives(a, Head(sta.queue).type)
    /\ losses' = losses + 1
    /\ UNCHANGED <<sta, level, moves, failed>>

InformManagementOfPktDrop(s) == Reset(s)

\* The retries run out.  InformManagementOfPktDrop asks for a reset, which is refused
\* as the frame is still in hand, and made when the next frame is looked for.
RequestDropped(a) ==
    /\ Sending(a) /\ a # NoAp
    /\ \/ (~Reachable(a) \/ AnswerIds(a, Head(sta.queue).type) = {}) /\ UNCHANGED losses
       \/ Reachable(a) /\ losses < MaxLosses /\ losses' = losses + 1
    /\ StationStep(CheckForOutgoingPacket(Dequeued(InformManagementOfPktDrop(sta))))
    /\ UNCHANGED <<apVars, level, moves>>

\* AuthenticationCompleted, JoinCompleted.
AuthenticationCompleted(s) ==
    LET t == [s EXCEPT !.stationAuthenticated = TRUE, !.state = "AUTH_FINISHED"]
    IN IF s.stationAssociated THEN t ELSE AssociateRequest(t)
JoinCompleted(s) ==
    [s EXCEPT !.associatedAP = s.apAddr, !.own = s.apAddr, !.state = "JOINED"]
AssociationCompleted(s) == JoinCompleted(s)
ProcessProbeResponse(s, a) == Measure(s, a)
ProcessAssociateResponse(s, f) ==
    IF f.aid = 0 THEN s
    ELSE AssociationCompleted([s EXCEPT !.stationAssociated = TRUE, !.aid = f.aid])
ProcessReassociateResponse(s, f) ==
    IF f.aid = 0 THEN s
    ELSE AssociationCompleted([s EXCEPT !.stationAssociated = TRUE, !.aid = f.aid])

\* The states in which an answer is looked at, and hence acknowledged.
Expects(s, type) ==
    \/ type = "PROBE"
    \/ type = "AUTH" /\ s.state = "WFAUTH"
    \/ type = "ASSOC" /\ s.state = "WFASSOC"
    \/ type = "REASSOC" /\ s.state = "WFREASSOC"

\* MacDot11ManagementProcessFrame at the station; the acknowledgement is under way.
ProcessAnswer(a, f) ==
    LET s == [sta EXCEPT !.acking = TRUE] IN
    CASE f.type = "PROBE" -> ProcessProbeResponse(s, a)
      [] f.type = "AUTH" -> AuthenticationCompleted(s)
      [] f.type = "ASSOC" -> ProcessAssociateResponse(s, f)
      [] f.type = "REASSOC" -> ProcessReassociateResponse(s, f)

AnswerArrives(a) ==
    /\ answers[a] # <<>> /\ Reachable(a) /\ ~sta.acking
    /\ Expects(sta, Head(answers[a]).type)
    /\ sta' = ProcessAnswer(a, Head(answers[a]))
    /\ failed' = IF sta'.state = "JOINED" /\ ~IsJoined(sta') THEN "join" ELSE failed
    /\ \/ answers' = [answers EXCEPT ![a] = Tail(@)] /\ UNCHANGED losses
       \/ losses < MaxLosses /\ losses' = losses + 1 /\ UNCHANGED answers
    /\ UNCHANGED <<listed, heard, dropped, level, moves>>

\* Nobody acknowledges, because nobody listens, the answer is not expected, or by noise.
AnswerDropped(a) ==
    /\ answers[a] # <<>>
    /\ \/ /\ ~Reachable(a) \/ ~Expects(sta, Head(answers[a]).type)
          /\ UNCHANGED losses
       \/ losses < MaxLosses /\ losses' = losses + 1
    /\ answers' = [answers EXCEPT ![a] = Tail(@)]
    /\ UNCHANGED <<sta, listed, heard, dropped, level, moves, failed>>

\* MacDot11ProcessBeacon: a beacon of the station's own access point measures it and
\* restarts the watch; while joining or scanning every beacon of the SSID is noted.
Noted(s, a) ==
    IF s.state \in {"AUTH_FINISHED", "WFAUTH", "WFASSOC", "WFREASSOC"}
    THEN s
    ELSE IF s.state = "WFSCAN" /\ a \notin Foreign THEN Measure(s, a) ELSE s

OwnBeacon(s, a) == [Measure(s, a) EXCEPT !.beaconsMissed = 0]

BeaconArrives(a) ==
    /\ Reachable(a) /\ ~sta.acking
    /\ LET own == sta.own = a
           s == IF own THEN OwnBeacon(sta, a) ELSE sta
       IN StationStep(IF own \/ ~IsJoined(s) \/ s.ScanStarted THEN Noted(s, a) ELSE s)
    /\ UNCHANGED <<apVars, envVars>>

BeaconCounts == sta.state \notin {"SCAN", "WFSCAN"}

\* MacDot11StationCanHandleDueBeacon, from the start, though the watch begins with the
\* first beacon of the access point; no beacon counts as missed during a scan.
BeaconMissed ==
    /\ ~sta.acking
    /\ StationStep(
         IF sta.beaconsMissed > MissedMax
         THEN IF sta.stationAssociated
              THEN [Reset(sta) EXCEPT !.beaconsMissed = 0] ELSE sta
         ELSE [sta EXCEPT !.beaconsMissed = @ + (IF BeaconCounts THEN 1 ELSE 0)])
    /\ UNCHANGED <<apVars, envVars>>

\* A packet of the network is taken into hand, and later sent or given up.
NetworkLayerHasPacketToSend ==
    /\ IsJoined(sta) /\ ~sta.ScanStarted
    /\ ~sta.acking /\ sta.current = "none"
    /\ StationStep([sta EXCEPT !.current = "data"])
    /\ UNCHANGED <<apVars, envVars>>

DataDone ==
    /\ sta.current = "data" /\ ~sta.acking
    /\ StationStep(CheckForOutgoingPacket([sta EXCEPT !.current = "none"]))
    /\ heard' = [a \in APs |-> heard[a] \/ (sta.own = a /\ Reachable(a) /\ listed[a] # 0)]
    /\ UNCHANGED <<listed, dropped, answers, envVars>>

\* Data of the access point comes in and is acknowledged.
DataArrives(a) ==
    /\ Reachable(a) /\ ~sta.acking /\ listed[a] # 0 /\ sta.own = a
    /\ StationStep([sta EXCEPT !.acking = TRUE])
    /\ UNCHANGED <<apVars, envVars>>

-----------------------------------------------------------------------------
(* The access points, and the station's way through their signals.         *)

\* MSG_MAC_DOT11_Station_Inactive_Timer: who was not heard since leaves the list and
\* is not told.  An exchange of frames takes less than the 300 s of silence.
InactiveTimeout(a) ==
    /\ listed[a] # 0
    /\ answers[a] = <<>>
    /\ ~(sta.current = "mgmt" /\ Head(sta.queue).to = a)
    /\ listed' = [listed EXCEPT ![a] = IF heard[a] THEN @ ELSE 0]
    /\ dropped' = [dropped EXCEPT ![a] = @ \/ ~heard[a]]
    /\ heard' = [heard EXCEPT ![a] = FALSE]
    /\ UNCHANGED <<sta, answers, envVars, failed>>

Move(a) ==
    /\ moves < MaxMoves
    /\ \E l \in Levels \ {level[a]} : level' = [level EXCEPT ![a] = l]
    /\ moves' = moves + 1
    /\ UNCHANGED <<sta, apVars, losses, failed>>

-----------------------------------------------------------------------------
\* MacDot11ManagementInit, which leaves the rest to the Enable timer.
StationInit ==
    [state |-> "IDLE", stationAuthenticated |-> FALSE, stationAssociated |-> FALSE,
     ScanStarted |-> FALSE, currentChannel |-> 0, numResults |-> 1,
     rss |-> [a \in APs |-> 0], measured |-> {}, apAddr |-> NoAp,
     associatedAP |-> NoAp, own |-> NoAp, aid |-> 0, queue |-> <<>>, timer |-> "Enable",
     current |-> "none", acking |-> FALSE, resetPending |-> FALSE, beaconsMissed |-> 0]

Init ==
    /\ sta = StationInit
    /\ listed = [a \in APs |-> 0]
    /\ heard = [a \in APs |-> FALSE] /\ dropped = [a \in APs |-> FALSE]
    /\ answers = [a \in APs |-> <<>>]
    /\ level \in [APs -> Levels]
    /\ moves = 0 /\ losses = 0 /\ failed = "none"

Next ==
    \/ ManagementHandleTimeout \/ MediumIdle \/ AckTransmitted
    \/ ProbeTransmitted \/ BeaconMissed \/ NetworkLayerHasPacketToSend \/ DataDone
    \/ \E a \in APs :
          \/ RequestAcked(a) \/ RequestUnacked(a) \/ RequestDropped(a)
          \/ AnswerArrives(a) \/ AnswerDropped(a) \/ BeaconArrives(a) \/ DataArrives(a)
          \/ InactiveTimeout(a) \/ Move(a)

Spec == Init /\ [][Next]_vars

-----------------------------------------------------------------------------
TypeOK ==
    /\ sta \in Station
    /\ listed \in [APs -> 0 .. MaxAid]

\* A station that is not joined is on its way: a management timer runs, a frame waits
\* or is in hand, an acknowledgement is about to end, or a reset is due.
JoinGoesOn ==
    \/ IsJoined(sta)
    \/ sta.timer # "none" \/ sta.queue # <<>> \/ sta.current # "none"
    \/ sta.acking \/ sta.resetPending

\* The radio of a station that uses an access point, or asks one for a response, is
\* on the channel of that access point.
TunedToAp ==
    /\ IsJoined(sta) /\ ~sta.ScanStarted => sta.currentChannel = ChannelOf[sta.associatedAP]
    /\ sta.state \in {"WFAUTH", "AUTH_FINISHED", "WFASSOC", "WFREASSOC"} =>
          sta.apAddr # NoAp /\ sta.currentChannel = ChannelOf[sta.apAddr]

\* The access point that a station has joined lists it under the id the station took,
\* and nobody else, unless the inactivity check has dropped the station.
JoinedIsListed ==
    IsJoined(sta) /\ ~dropped[sta.associatedAP] =>
       /\ sta.aid = listed[sta.associatedAP]
       /\ sta.aid \notin Taken[sta.associatedAP]

\* No error of the join is reported.
NoJoinError == failed = "none"
=============================================================================
