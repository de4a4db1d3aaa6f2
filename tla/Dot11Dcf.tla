------------------------------ MODULE Dot11Dcf ------------------------------
(***************************************************************************)
(* The distributed coordination function of the 802.11 MAC: stations that    *)
(* send unicast packets over a shared medium on which some cannot hear each  *)
(* other.  Deferring, back-off, RTS/CTS, NAV, acknowledgements, retries and  *)
(* the sequence numbers of hand-off.  Source: mac_dot11.cpp,                 *)
(* mac_dot11-sta.{h,cpp}; the medium as phy_chanswitch.cpp shows it.         *)
(*                                                                         *)
(* Time is abstracted to what the code's delays guarantee: a frame answered  *)
(* after a SIFS comes before every timer and every end of a frame that       *)
(* started after it was due, and the wait for a response outlasts the        *)
(* response.  Back-off and NAV may be of any length.                         *)
(***************************************************************************)
EXTENDS Integers, Sequences, FiniteSets

CONSTANTS
  Station,
  Link,             \* the pairs {m, n} of stations that hear each other
  Dest,             \* [Station -> Station], whom a station sends to
  Packets,          \* [Station -> Nat], bound: packets the network layer offers
  UseRts,           \* the packets are longer than rtsThreshold
  Noise,            \* frames may be lost without a collision
  ShortRetryLimit,  \* dot11->shortRetryLimit
  LongRetryLimit,   \* dot11->longRetryLimit
  SeqMod,           \* 2^12 in the code
  NoFrame

Id == Nat   \* packet numbers
Frame == [type : {"RTS", "CTS", "DATA", "ACK"}, from : Station, to : Station,
          seq : 0 .. SeqMod - 1, id : Id]

DcfAssumption ==
  /\ Link \subseteq {{m, n} : m, n \in Station}
  /\ Dest \in [Station -> Station] /\ Packets \in [Station -> Nat]
  /\ \A n \in Station : Packets[n] > 0 => {n, Dest[n]} \in Link /\ Dest[n] # n
  /\ UseRts \in BOOLEAN /\ Noise \in BOOLEAN
  /\ ShortRetryLimit \in Nat \ {0} /\ LongRetryLimit \in Nat \ {0}
  /\ SeqMod \in Nat \ {0, 1}
  /\ NoFrame \notin Station \cup Frame

VARIABLES
  sta,     \* [Station -> MacDataDot11]
  air,     \* [Station -> the frame it has on the air]
  rx,      \* [Station -> whose frame its PHY is locked on, and whether nothing disturbed it]
  offered, \* [Station -> packets handed down by the network layer]
  got,     \* history: [Station -> packets handed up, by sender]
  acked,   \* history: [Station -> packets reported to the network as acknowledged]
  failed   \* an ERROR_Assert of the MAC has failed

vars == <<sta, air, rx, offered, got, acked, failed>>

Hears(m, n) == m # n /\ {m, n} \in Link

SendStates == {"X_RTS", "X_CTS", "X_UNICAST", "X_ACK"}
WaitStates == {"WFCTS", "WFDATA", "WFACK"}   \* MacDot11IsWaitingForResponseState
DeferStates == {"WFNAV", "WF_DIFS", "BO"}

\* after is the set of stations whose response was due before this timer or
\* frame started and is not on the air yet.
MacData ==
  [state : {"IDLE"} \cup SendStates \cup WaitStates \cup DeferStates,
   timer : BOOLEAN, after : SUBSET Station,
   backoff : BOOLEAN,      \* BO was drawn; it may have come out as 0
   nav : BOOLEAN, eifs : BOOLEAN,
   ssrc : 0 .. ShortRetryLimit - 1, slrc : 0 .. LongRetryLimit - 1,
   lost : Nat,             \* history: times the packet was sent and not acknowledged
   has : BOOLEAN,          \* currentMessage # NULL
   id : Id,                \* packets taken from the network layer
   toSeq : 0 .. SeqMod - 1,
   fromSeq : [Station -> 0 .. SeqMod - 1],
   out : Frame \cup {NoFrame}]   \* given to the PHY, not yet on the air

Init ==
  /\ sta = [n \in Station |->
       [state |-> "IDLE", timer |-> FALSE, after |-> {}, backoff |-> FALSE,
        nav |-> FALSE, eifs |-> FALSE, ssrc |-> 0, slrc |-> 0, lost |-> 0, has |-> FALSE,
        id |-> 0, toSeq |-> 0, fromSeq |-> [m \in Station |-> 0], out |-> NoFrame]]
  /\ air = [n \in Station |-> NoFrame]
  /\ rx = [n \in Station |-> [from |-> NoFrame, clean |-> TRUE]]
  /\ offered = [n \in Station |-> 0]
  /\ got = [n \in Station |-> [m \in Station |-> <<>>]]
  /\ acked = [n \in Station |-> {}]
  /\ failed = FALSE

-----------------------------------------------------------------------------
(* The PHY as the MAC sees it *)

Unlocked == [from |-> NoFrame, clean |-> TRUE]

\* PHY_GetStatus of a station that is not transmitting, for a given medium.
Status(n, a, r) ==
  IF r[n].from # NoFrame THEN "RECEIVING"
  ELSE IF \E m \in Station : Hears(m, n) /\ a[m] # NoFrame THEN "SENSING"
  ELSE "IDLE"

Phy(n) == Status(n, air, rx)

Sending(n) == sta[n].state \in SendStates
Due(s) == {n \in Station : s[n].out # NoFrame}

\* Timers and frames started before a response was due do not wait for it.
Ordered(s) == [n \in Station |-> [s[n] EXCEPT !.after = @ \cap Due(s)]]

-----------------------------------------------------------------------------
(* Steps of one station, as functions of its data s and the status p *)

StartTimer(s, state) == [s EXCEPT !.state = state, !.timer = TRUE, !.after = Station]
GoIdle(s) == [s EXCEPT !.state = "IDLE", !.timer = FALSE]
Transmit(s, state, f) == [s EXCEPT !.state = state, !.timer = FALSE, !.out = f]

\* Mutant of AttemptToGoIntoWaitForDifsOrEifs: the medium is not looked at.
AttemptBlindly(s, p) == StartTimer([s EXCEPT !.nav = FALSE], "WF_DIFS")

AttemptToGoIntoWaitForDifsOrEifs(s, p) ==
  IF p # "IDLE" THEN GoIdle(s)
  ELSE IF s.nav /\ ~s.eifs THEN StartTimer(s, "WFNAV")
  ELSE StartTimer([s EXCEPT !.nav = FALSE], "WF_DIFS")

\* MoveAPacketFromTheNetworkLayerToTheLocalBuffer
Fetch(n, s) ==
  IF ~s.has /\ offered[n] > s.id THEN [s EXCEPT !.has = TRUE, !.id = @ + 1, !.lost = 0]
  ELSE s

\* The state is IDLE when it is called.
CheckForOutgoingPacket(n, s, p, backoff) ==
  LET f == Fetch(n, s) IN
  IF f.has THEN AttemptToGoIntoWaitForDifsOrEifs([f EXCEPT !.backoff = TRUE], p)
  ELSE [f EXCEPT !.backoff = @ \/ backoff]

\* Mutant of PhyStatusIsNowIdle: only a new packet is looked for.
PhyStatusIsNowIdleForNew(n, s) ==
  IF s.state = "IDLE" /\ ~s.has THEN CheckForOutgoingPacket(n, s, "IDLE", FALSE) ELSE s

PhyStatusIsNowIdle(n, s) ==
  IF s.state # "IDLE" THEN s
  ELSE IF s.has THEN AttemptToGoIntoWaitForDifsOrEifs(s, "IDLE")
  ELSE CheckForOutgoingPacket(n, s, "IDLE", FALSE)

ChannelHasBecomeBusy(s) ==
  IF s.state \in DeferStates \cup {"WFDATA"} THEN GoIdle(s) ELSE s

DataFrame(n, s) ==
  [type |-> "DATA", from |-> n, to |-> Dest[n], seq |-> s.toSeq, id |-> s.id]
Control(type, n, to) == [type |-> type, from |-> n, to |-> to, seq |-> 0, id |-> 0]

TransmitFrame(n, s) ==
  IF UseRts THEN Transmit([s EXCEPT !.backoff = FALSE], "X_RTS", Control("RTS", n, Dest[n]))
  ELSE Transmit([s EXCEPT !.backoff = FALSE], "X_UNICAST", DataFrame(n, s))

TransmissionHasFinished(n, s, p) ==
  CASE s.state = "X_ACK" -> CheckForOutgoingPacket(n, GoIdle(s), p, FALSE)
    [] s.state = "X_RTS" -> StartTimer(s, "WFCTS")
    [] s.state = "X_CTS" -> StartTimer(s, "WFDATA")
    [] s.state = "X_UNICAST" -> StartTimer(s, "WFACK")

Done(s) == [GoIdle(s) EXCEPT !.has = FALSE]

\* Mutant of Retransmit: the limit is reached one attempt early.
RetransmitLess(n, s, p) ==
  LET tried == [s EXCEPT !.ssrc = @ + 1] IN
  IF tried.ssrc + 1 < ShortRetryLimit
  THEN AttemptToGoIntoWaitForDifsOrEifs([tried EXCEPT !.backoff = TRUE], p)
  ELSE CheckForOutgoingPacket(n, [Done(tried) EXCEPT !.ssrc = 0], p, TRUE)

\* RTS and short packets count in SSRC, long packets in SLRC; only the counter that
\* has reached its limit starts again.
Retransmit(n, s, p) ==
  LET short == s.state = "WFCTS" \/ ~UseRts
      tried == IF short THEN [s EXCEPT !.ssrc = @ + 1] ELSE [s EXCEPT !.slrc = @ + 1]
      retry == IF short THEN tried.ssrc < ShortRetryLimit ELSE tried.slrc < LongRetryLimit
      reset == IF short THEN [tried EXCEPT !.ssrc = 0] ELSE [tried EXCEPT !.slrc = 0]
  IN IF retry THEN AttemptToGoIntoWaitForDifsOrEifs([tried EXCEPT !.backoff = TRUE], p)
     ELSE CheckForOutgoingPacket(n, Done(reset), p, TRUE)

\* ProcessMyFrame, RTS
ReceiveRts(n, s, f, p) ==
  IF s.state \notin WaitStates /\ ~s.nav /\ p = "IDLE"
  THEN Transmit(s, "X_CTS", Control("CTS", n, f.from)) ELSE s

\* ProcessMyFrame, CTS: the packet follows after a SIFS.
ReceiveCts(n, s, p) ==
  IF s.state = "WFCTS" /\ p = "IDLE"
  THEN Transmit([s EXCEPT !.ssrc = 0], "X_UNICAST", DataFrame(n, s)) ELSE s

\* Mutant of CorrectSequenceNumber: a repeated packet is taken again.
AnySequenceNumber(s, f) == TRUE

CorrectSequenceNumber(s, f) == s.fromSeq[f.from] = f.seq

\* ProcessFrame: acknowledged whatever its sequence number.
ReceiveData(n, s, f) ==
  IF s.state \in WaitStates \ {"WFDATA"} THEN s
  ELSE Transmit([s EXCEPT !.fromSeq[f.from] =
                   IF CorrectSequenceNumber(s, f) THEN (@ + 1) % SeqMod ELSE @],
                "X_ACK", Control("ACK", n, f.from))

HandedUp(s, f) == s.state \notin WaitStates \ {"WFDATA"} /\ CorrectSequenceNumber(s, f)

ReceiveAck(n, s, p) ==
  CheckForOutgoingPacket(n,
    [Done(s) EXCEPT !.ssrc = 0, !.slrc = 0, !.toSeq = (@ + 1) % SeqMod], p, TRUE)

\* ProcessNotMyFrame; longer: the duration ends after the NAV already set.
ReceiveNotMine(s, p, longer) ==
  LET noted == [s EXCEPT !.nav = TRUE] IN
  IF (longer \/ ~s.nav) /\ p = "IDLE" /\ s.has THEN StartTimer(noted, "WFNAV") ELSE noted

ProcessFrame(n, s, f, p, longer) ==
  CASE f.to # n -> ReceiveNotMine(s, p, longer)
    [] f.to = n /\ f.type = "RTS" -> ReceiveRts(n, s, f, p)
    [] f.to = n /\ f.type = "CTS" -> ReceiveCts(n, s, p)
    [] f.to = n /\ f.type = "DATA" -> ReceiveData(n, s, f)
    [] f.to = n /\ f.type = "ACK" -> ReceiveAck(n, s, p)

ReceivePacketFromPhy(n, s, f, p, longer) ==
  LET t == ProcessFrame(n, [s EXCEPT !.eifs = FALSE], f, p, longer) IN
  IF p = "IDLE" THEN PhyStatusIsNowIdle(n, t) ELSE t

\* The ERROR_Asserts on the way of a received frame.
Unexpected(n, s, f, p) ==
  \/ s.state \in SendStates
  \/ f.to # n /\ s.state \in DeferStates
  \/ f.to = n /\ f.type = "CTS" /\ s.state \notin {"WFCTS", "WFNAV"}
  \/ f.to = n /\ f.type = "ACK" /\ s.state # "WFACK"

-----------------------------------------------------------------------------
(* Actions *)

Deliverable(n, m) == rx[n].from = m

\* MacDot11NetworkLayerHasPacketToSend
NetworkLayerHasPacketToSend(n) ==
  /\ offered[n] < Packets[n]
  /\ offered' = [offered EXCEPT ![n] = @ + 1]
  /\ LET s == IF sta[n].has THEN sta[n]
              ELSE [sta[n] EXCEPT !.has = TRUE, !.id = @ + 1, !.lost = 0]
         b == [s EXCEPT !.backoff = @ \/ s.nav \/ Phy(n) # "IDLE"] IN
     sta' = Ordered([sta EXCEPT ![n] =
              IF sta[n].has \/ s.state # "IDLE" THEN s
              ELSE AttemptToGoIntoWaitForDifsOrEifs(b, Phy(n))])
  /\ UNCHANGED <<air, rx, got, acked, failed>>

\* The frame given to the PHY reaches the stations that hear it.  One that has an
\* idle medium locks on it, one that senses other signals may; to one that is
\* receiving it is interference.
Airborne(m) ==
  /\ sta[m].out # NoFrame
  /\ \E locks \in SUBSET {n \in Station : Hears(m, n) /\ Phy(n) = "SENSING" /\ ~Sending(n)} :
       LET near == {n \in Station : Hears(m, n) /\ ~Sending(n)}
           idle == {n \in near : Phy(n) = "IDLE"} IN
       /\ rx' = [n \in Station |->
                   CASE n \in idle -> [from |-> m, clean |-> TRUE]
                     [] n \in locks -> [from |-> m, clean |-> FALSE]
                     [] n \in near \ (idle \cup locks) /\ rx[n].from # NoFrame ->
                          [rx[n] EXCEPT !.clean = FALSE]
                     [] OTHER -> rx[n]]
       /\ air' = [air EXCEPT ![m] = sta[m].out]
       /\ sta' = Ordered([n \in Station |->
                   IF n = m THEN [sta[m] EXCEPT !.out = NoFrame, !.after = Station]
                   ELSE IF n \in idle
                        THEN [ChannelHasBecomeBusy(sta[n]) EXCEPT !.eifs = TRUE]
                   ELSE IF n \in locks THEN [sta[n] EXCEPT !.eifs = TRUE]
                   ELSE sta[n]])
  /\ UNCHANGED <<offered, got, acked, failed>>

\* The end of a frame: its sender waits or goes on, the stations locked on it get
\* it or an error, the others may find the medium idle again.
FrameEnds(m) ==
  LET f == air[m]
      a == [air EXCEPT ![m] = NoFrame]
      r == [n \in Station |-> IF Deliverable(n, m) THEN Unlocked ELSE rx[n]]
      may == {n \in Station : Deliverable(n, m) /\ (~rx[n].clean \/ Noise)}
      must == {n \in Station : Deliverable(n, m)} \ may
  IN
  /\ f # NoFrame
  /\ sta[m].after = {}
  /\ \E lucky \in SUBSET may, longer \in BOOLEAN :
       LET in == lucky \cup must IN
       /\ sta' = Ordered([n \in Station |->
            LET p == Status(n, a, r) IN
            IF n = m THEN TransmissionHasFinished(m, sta[m], p)
            ELSE IF n \in in THEN ReceivePacketFromPhy(n, sta[n], f, p, longer)
            ELSE IF p = "IDLE" /\ ~Sending(n) /\ Phy(n) # "IDLE"
                 THEN PhyStatusIsNowIdle(n, sta[n])
            ELSE sta[n]])
       /\ failed' = (failed \/ \E n \in in : Unexpected(n, sta[n], f, Status(n, a, r)))
       /\ got' = [n \in Station |->
            IF n \in in /\ n = f.to /\ f.type = "DATA" /\ HandedUp(sta[n], f)
            THEN [got[n] EXCEPT ![f.from] = Append(@, f.id)] ELSE got[n]]
       /\ acked' = [n \in Station |->
            IF n \in in /\ n = f.to /\ f.type = "ACK" THEN acked[n] \cup {sta[n].id}
            ELSE acked[n]]
  /\ air' = a
  /\ rx' = r
  /\ UNCHANGED offered

\* A response to n is due or on the air: the wait for it outlasts it.
ResponseUnderWay(n) ==
  \E m \in Station :
    \/ air[m] # NoFrame /\ air[m].to = n /\ air[m].type # "RTS"
    \/ sta[m].out # NoFrame /\ sta[m].out.to = n /\ sta[m].out.type # "RTS"

TimerRunsOut(n) ==
  /\ sta[n].timer
  /\ sta[n].after = {}
  /\ sta[n].state \in WaitStates => ~ResponseUnderWay(n)

HandleTimeout(n) ==
  LET s == [sta[n] EXCEPT !.timer = FALSE]
      p == Phy(n) IN
  /\ TimerRunsOut(n)
  /\ \/ /\ s.state = "WF_DIFS" /\ s.backoff
        /\ sta' = Ordered([sta EXCEPT ![n] = StartTimer(s, "BO")])
     \/ /\ s.state \in {"WF_DIFS", "BO"}
        /\ sta' = Ordered([sta EXCEPT ![n] = IF s.has THEN TransmitFrame(n, s) ELSE GoIdle(s)])
     \/ /\ s.state = "WFCTS"
        /\ sta' = Ordered([sta EXCEPT ![n] = Retransmit(n, s, p)])
     \/ /\ s.state = "WFACK"
        /\ sta' = Ordered([sta EXCEPT ![n] = Retransmit(n, [s EXCEPT !.lost = @ + 1], p)])
     \/ /\ s.state = "WFDATA"
        /\ sta' = Ordered([sta EXCEPT ![n] = CheckForOutgoingPacket(n, GoIdle(s), p, FALSE)])
     \/ /\ s.state = "WFNAV"
        /\ sta' = Ordered([sta EXCEPT ![n] =
             IF s.has THEN AttemptToGoIntoWaitForDifsOrEifs([s EXCEPT !.nav = FALSE], p)
             ELSE GoIdle([s EXCEPT !.nav = FALSE])])
  /\ failed' = (failed \/ (s.state \in {"WF_DIFS", "BO"} /\ s.has /\ p # "IDLE"))
  /\ UNCHANGED <<air, rx, offered, got, acked>>

\* The time in dot11->NAV passes while nothing waits for it.
NavPasses(n) ==
  /\ sta[n].nav /\ sta[n].state # "WFNAV"
  /\ sta' = [sta EXCEPT ![n].nav = FALSE]
  /\ UNCHANGED <<air, rx, offered, got, acked, failed>>

Step(n) == Airborne(n) \/ FrameEnds(n) \/ HandleTimeout(n)

Next == \E n \in Station : NetworkLayerHasPacketToSend(n) \/ Step(n) \/ NavPasses(n)

Spec == Init /\ [][Next]_vars

\* Frames reach the air and end, timers run out: events of the simulator.
FairSpec == Spec /\ \A n \in Station : WF_vars(Step(n))

-----------------------------------------------------------------------------
TypeOK ==
  /\ sta \in [Station -> MacData]
  /\ air \in [Station -> Frame \cup {NoFrame}]
  /\ rx \in [Station -> [from : Station \cup {NoFrame}, clean : BOOLEAN]]
  /\ offered \in [Station -> Nat] /\ \A n \in Station : offered[n] <= Packets[n]
  /\ got \in [Station -> [Station -> Seq(Id)]]
  /\ acked \in [Station -> SUBSET Id]
  /\ failed \in BOOLEAN

\* No ERROR_Assert of the frame path fails: no frame for others comes to a station
\* that is counting down, no CTS or ACK to one that does not wait for it, and no
\* countdown ends on a busy medium.
AssertionsHold == ~failed

\* The waiting and counting states, and only they, have a live timer: one state
\* less and the station is stuck, one more and the timeout finds an unexpected state.
TimersFitStates ==
  \A n \in Station : sta[n].timer <=> sta[n].state \in WaitStates \cup DeferStates

\* An idle station on an idle medium has no packet: nothing else would ever make
\* it contend for the medium.
NoStall ==
  \A n \in Station :
    sta[n].state = "IDLE" /\ Phy(n) = "IDLE" => ~sta[n].has /\ offered[n] = sta[n].id

\* Whatever is lost and repeated, a station hands up the packets of each sender at
\* most once and in the order they were sent.
DeliveredOnceInOrder ==
  \A n, m \in Station :
    \A i, j \in 1 .. Len(got[n][m]) : i < j => got[n][m][i] < got[n][m][j]

\* A packet sent without RTS is given up only after it was tried as often as the limit
\* says.  (After RTS it may be given up sooner: SLRC goes on from a packet that was
\* given up because no CTS came.)
TriedStep ==
  \A n \in Station :
    ~UseRts /\ sta[n].state = "WFACK" /\ sta[n].has /\ acked'[n] = acked[n]
      /\ (sta'[n].id # sta[n].id \/ ~sta'[n].has) => sta[n].lost + 1 >= ShortRetryLimit
TriedUpToLimit == [][TriedStep]_vars

\* Once the network layer offers no more, every station comes to rest: each packet
\* is acknowledged or given up.
EveryPacketEnds == <>[](\A n \in Station : ~sta[n].has /\ sta[n].state = "IDLE")

-----------------------------------------------------------------------------
(* What a comment or an assertion of the code says and its actions do not keep. *)

\* A packet reported to the network layer as acknowledged was handed up by its
\* receiver.
AckedMeansDelivered ==
  \A n \in Station : \A i \in acked[n] :
    \E k \in 1 .. Len(got[Dest[n]][n]) : got[Dest[n]][n][k] = i
=============================================================================
