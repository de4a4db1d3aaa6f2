--------------------------- MODULE PhyChanSwitch ---------------------------
(***************************************************************************)
(* The radio of one node (phy_chanswitch.cpp) while signals of others come *)
(* and go on every channel, its MAC sends, and its MAC retunes it: the     *)
(* mode, the signal it is locked on, the interference it keeps as a sum.   *)
(*                                                                         *)
(* The propagation of the kernel tells the radio of the starts and ends of *)
(* signals on channels it listens to; the antenna is omnidirectional.      *)
(* Powers are small numbers.  A frame fails only if something interferes.  *)
(***************************************************************************)
EXTENDS Integers, FiniteSets, FiniteSetsExt

CONSTANTS
    Channels,
    Signals,       \* bound: the signals of other nodes, in their order
    PowerOf,       \* power of each signal at this node
    NoisePower,    \* noisePower_mW
    Sensitivity,   \* rxSensitivity_mW[0]
    NextChannel,   \* the MAC runs the next-channel switching, else ASDCS
    MaxSent,       \* bound: frames the MAC sends
    MaxRetunes,    \* bound: changes of channel
    None

PhyAssumption ==
    /\ Signals \subseteq Nat /\ IsFiniteSet(Signals)
    /\ None \notin Channels /\ None \notin Signals
    /\ PowerOf \in [Signals -> Nat]
    /\ {NoisePower, Sensitivity, MaxSent, MaxRetunes} \subseteq Nat
    /\ NoisePower <= Sensitivity
    /\ NextChannel \in BOOLEAN

VARIABLES
    phy,       \* PhyDataChanSwitch
    channel,   \* of each signal, None before it starts and after it ends
    started,   \* signals that have started
    heard,     \* history: signals listened to without a break since their start
    waits,     \* the MAC waits for the end of its transmission
    alert,     \* the frame being sent announces a change of channel
    sent, retunes,
    failed     \* the assertions that have failed

vars == <<phy, channel, started, heard, waits, alert, sent, retunes, failed>>

Modes == {"IDLE", "SENSING", "RECEIVING", "TRANSMITTING", "TRX_OFF"}
Phy == [mode : Modes, prev : Modes, rx : Signals \cup {None}, error : BOOLEAN,
        interference : Nat, listening : SUBSET Channels, tx : Channels, timer : BOOLEAN]

State == [phy |-> phy, channel |-> channel, heard |-> heard, waits |-> waits,
          alert |-> alert, failed |-> failed]
Becomes(s) ==
    /\ phy' = s.phy /\ channel' = s.channel /\ heard' = s.heard
    /\ waits' = s.waits /\ alert' = s.alert /\ failed' = s.failed

-----------------------------------------------------------------------------
(* Operations of the radio, from state to state.                           *)

\* PhyChanSwitchChangeState
ChangeState(s, new) == [s EXCEPT !.phy.prev = s.phy.mode, !.phy.mode = new]

\* The changes of mode the MAC knows, MacDot11ReceivePhyStatusChangeNotification.
LegalChange ==
    {<<"TRX_OFF", "SENSING">>, <<"TRX_OFF", "IDLE">>,
     <<"IDLE", "SENSING">>, <<"IDLE", "RECEIVING">>, <<"IDLE", "TRANSMITTING">>,
     <<"SENSING", "IDLE">>, <<"SENSING", "RECEIVING">>, <<"SENSING", "TRANSMITTING">>,
     <<"RECEIVING", "IDLE">>, <<"RECEIVING", "SENSING">>, <<"RECEIVING", "RECEIVING">>,
     <<"TRANSMITTING", "IDLE">>, <<"TRANSMITTING", "SENSING">>, <<"TRANSMITTING", "RECEIVING">>}

\* PhyChanSwitchReportStatusToMac
ReportStatusToMac(s) ==
    [s EXCEPT !.failed = @ \cup
                  (IF <<s.phy.prev, s.phy.mode>> \in LegalChange THEN {} ELSE {"status"}),
              !.waits = @ /\ s.phy.prev # "TRANSMITTING"]

ChangeAndReport(s, new) ==
    IF new = s.phy.mode THEN s ELSE ReportStatusToMac(ChangeState(s, new))

\* PHY_SignalInterference: all signals on the channel but one.
SignalInterference(s, c, but) ==
    MapThenSumSet(LAMBDA i : PowerOf[i], {i \in Signals \ {but} : s.channel[i] = c})

CarrierSensing(s) == s.phy.interference + NoisePower > Sensitivity
Quiet(s) == IF CarrierSensing(s) THEN "SENSING" ELSE "IDLE"

\* PhyChanSwitchLockSignal, PhyChanSwitchUnlockSignal
LockSignal(s, i) == [s EXCEPT !.phy.rx = i, !.phy.error = FALSE]
UnlockSignal(s) == [s EXCEPT !.phy.rx = None, !.phy.error = FALSE]

\* PhyChanSwitchCheckRxPacketError: the states after it; a frame that has an
\* error keeps it.
CheckRxPacketError(s) ==
    {s} \cup (IF s.phy.interference > 0 THEN {[s EXCEPT !.phy.error = TRUE]} ELSE {})

\* PhyChanSwitchTerminateCurrentTransmission cancels the timer of its end.
TerminateCurrentTransmission(s) == [s EXCEPT !.phy.timer = FALSE]

\* PhyChanSwitchChannelListeningSwitchNotification
StopListening(s, c) ==
    LET t == [s EXCEPT !.phy.listening = @ \ {c},
                       !.heard = {i \in @ : s.channel[i] # c}]
    IN  IF s.phy.mode = "TRANSMITTING" THEN t ELSE ChangeState(t, "TRX_OFF")

\* Mutant of StartListening: the interference is that of the old channel.
ListenUnmeasured(s, c) ==
    LET t == IF s.phy.mode = "TRANSMITTING" THEN TerminateCurrentTransmission(s) ELSE s
        v == ChangeState([t EXCEPT !.phy.listening = @ \cup {c}], Quiet(t))
    IN  IF v.phy.prev # v.phy.mode THEN ReportStatusToMac(v) ELSE v

StartListening(s, c) ==
    LET t == IF s.phy.mode = "TRANSMITTING" THEN TerminateCurrentTransmission(s) ELSE s
        u == [t EXCEPT !.phy.listening = @ \cup {c},
                       !.phy.interference = SignalInterference(s, c, None)]
        v == ChangeState(u, Quiet(u))
    IN  IF v.phy.prev # v.phy.mode THEN ReportStatusToMac(v) ELSE v

\* PhyChanSwitchTerminateCurrentReceive, of a frame with no error or of any.
TerminateCurrentReceive(s) ==
    LET t == UnlockSignal([s EXCEPT !.phy.interference = @ + PowerOf[s.phy.rx]])
    IN  ChangeState(t, Quiet(t))

\* StartTransmittingSignal
StartTransmittingSignal(s) ==
    LET t == IF s.phy.mode # "RECEIVING" THEN s
             ELSE UnlockSignal([s EXCEPT !.phy.interference = @ + PowerOf[s.phy.rx]])
        u == [ChangeState(t, "TRANSMITTING") EXCEPT !.phy.timer = TRUE, !.waits = TRUE]
    IN  IF s.phy.tx \in s.phy.listening THEN StopListening(u, s.phy.tx) ELSE u

-----------------------------------------------------------------------------
(* Signals of other nodes.                                                 *)

\* PhyChanSwitchSignalArrivalFromChannel
Arrived(s, i) ==
    LET m == IF s.phy.mode = "TRANSMITTING"
             THEN ReportStatusToMac(ChangeState(TerminateCurrentTransmission(s), "IDLE"))
             ELSE s
        loud == [m EXCEPT !.phy.interference = @ + PowerOf[i]]
    IN  CASE m.phy.mode = "TRX_OFF" -> {[m EXCEPT !.failed = @ \cup {"abort"}]}
          [] m.phy.mode = "RECEIVING" ->
                {[t EXCEPT !.phy.interference = @ + PowerOf[i]] : t \in
                    IF m.phy.error THEN {m} ELSE CheckRxPacketError(m)}
          [] m.phy.mode \in {"IDLE", "SENSING"} /\ PowerOf[i] >= Sensitivity ->
                LET t == [m EXCEPT !.phy.interference = SignalInterference(m, m.channel[i], i)]
                IN  {ReportStatusToMac(ChangeState(LockSignal(t, i), "RECEIVING"))}
          [] OTHER -> {ChangeAndReport(loud, Quiet(loud))}

SignalArrival(i) ==
    /\ i \notin started /\ \A j \in Signals : j < i => j \in started
    /\ started' = started \cup {i}
    /\ \E c \in Channels :
        LET s == [State EXCEPT !.channel[i] = c] IN
        IF c \in phy.listening
        THEN \E t \in Arrived([s EXCEPT !.heard = @ \cup {i}], i) : Becomes(t)
        ELSE Becomes(s)
    /\ UNCHANGED <<sent, retunes>>

\* PhyChanSwitchSignalEndFromChannel, of a signal no longer on the channel.
Ended(s, i, c) ==
    LET checked == IF s.phy.mode = "RECEIVING" /\ ~s.phy.error
                   THEN CheckRxPacketError(s) ELSE {s}
        received(t) ==
            LET u == UnlockSignal([t EXCEPT !.phy.interference = SignalInterference(t, c, None)])
                v == ChangeState(u, Quiet(u))
            IN  IF t.phy.error THEN ReportStatusToMac(v) ELSE v
        other(t) ==
            LET u == [t EXCEPT !.phy.interference =
                         IF @ > PowerOf[i] THEN @ - PowerOf[i] ELSE 0]
            IN  IF t.phy.mode = "RECEIVING" THEN u ELSE ChangeAndReport(u, Quiet(u))
    IN  IF s.phy.mode = "TRANSMITTING" THEN {[s EXCEPT !.failed = @ \cup {"end"}]}
        ELSE {IF t.phy.mode = "RECEIVING" /\ t.phy.rx = i THEN received(t) ELSE other(t) :
                 t \in checked}

SignalEnd(i) ==
    /\ channel[i] # None
    /\ LET c == channel[i]
           s == [State EXCEPT !.channel[i] = None, !.heard = @ \ {i}]
       IN  IF c \in phy.listening THEN \E t \in Ended(s, i, c) : Becomes(t) ELSE Becomes(s)
    /\ UNCHANGED <<started, sent, retunes>>

-----------------------------------------------------------------------------
(* The MAC.                                                                *)

\* It stops listening to the old channel if it does, and starts on the new one
\* if it does not; the channel to transmit on follows.
ChangeToChannel(s, c) ==
    LET t == IF s.phy.tx \in s.phy.listening THEN StopListening(s, s.phy.tx) ELSE s
        u == IF c \in t.phy.listening THEN t ELSE StartListening(t, c)
    IN  [u EXCEPT !.phy.tx = c]

\* A frame, or the answer to one.  The MAC sends nothing while it sends.
StartTransmitting ==
    /\ sent < MaxSent /\ sent' = sent + 1
    /\ phy.mode # "TRANSMITTING" /\ ~waits
    /\ phy.mode # "TRX_OFF"
    /\ Becomes([StartTransmittingSignal(State) EXCEPT !.alert = FALSE])
    /\ UNCHANGED <<started, retunes>>

\* PhyChanSwitchTransmissionEnd; after an announcement of a change of channel
\* the MAC retunes in the report of the end.
TransmissionEnd ==
    /\ phy.timer
    /\ LET s == [State EXCEPT !.phy.timer = FALSE]
           t == StartListening(s, phy.tx)
           mode == IF phy.mode = "TRANSMITTING" THEN {} ELSE {"transmission end"}
           asserted == [t EXCEPT !.failed = @ \cup mode, !.alert = FALSE]
       IN  IF alert
           THEN \E c \in Channels \ {phy.tx} : Becomes(ChangeToChannel(asserted, c))
           ELSE Becomes(asserted)
    /\ UNCHANGED <<started, sent, retunes>>

\* A frame that is not for this node is not received to its end.
GiveUpFrame ==
    /\ phy.mode = "RECEIVING"
    /\ \E s \in IF phy.error THEN {State} ELSE CheckRxPacketError(State) :
        Becomes(TerminateCurrentReceive(s))
    /\ UNCHANGED <<started, sent, retunes>>

Retuning == retunes < MaxRetunes /\ retunes' = retunes + 1

\* MacDot11ManagementChangeToChannel and its variant without a probe.
ManagementChangeToChannel ==
    /\ Retuning
    /\ \E c \in Channels \ {phy.tx} : Becomes(ChangeToChannel(State, c))
    /\ UNCHANGED <<started, sent>>

\* MacDot11HandleChannelSwitchTimer: what is under way is cut off and the
\* change is announced.  It asserts that the frame received has no error.
ChannelSwitchTimer ==
    /\ NextChannel /\ Retuning
    /\ LET s == CASE phy.mode = "TRANSMITTING" -> TerminateCurrentTransmission(State)
                  [] phy.mode = "RECEIVING" -> TerminateCurrentReceive(State)
                  [] OTHER -> State
           t == [s EXCEPT !.failed = @ \cup (IF phy.error THEN {"error"} ELSE {})]
       IN  Becomes([StartTransmittingSignal(ChangeState(t, "IDLE")) EXCEPT !.alert = TRUE])
    /\ UNCHANGED <<started, sent>>

\* MSG_MAC_DOT11_ChanSwitchRxProbe, second part: back to the channel before,
\* with nothing that stops listening to this one.
ReturnToPrevious ==
    /\ NextChannel /\ Retuning
    /\ \E c \in Channels \ {phy.tx} :
        LET t == IF c \in phy.listening THEN State ELSE StartListening(State, c)
        IN  Becomes([t EXCEPT !.phy.tx = c])
    /\ UNCHANGED <<started, sent>>

Stopped == UNCHANGED vars

Init ==
    /\ phy \in {[mode |-> "IDLE", prev |-> "IDLE", rx |-> None, error |-> FALSE,
                 interference |-> 0, listening |-> {c}, tx |-> c, timer |-> FALSE] :
                   c \in Channels}
    /\ channel = [i \in Signals |-> None]
    /\ started = {} /\ heard = {}
    /\ waits = FALSE /\ alert = FALSE
    /\ sent = 0 /\ retunes = 0
    /\ failed = {}

MacStep == StartTransmitting \/ GiveUpFrame \/ ManagementChangeToChannel
               \/ ChannelSwitchTimer \/ ReturnToPrevious

Next ==
    \/ failed = {} /\ \E i \in Signals : SignalArrival(i) \/ SignalEnd(i)
    \/ failed = {} /\ MacStep
    \/ failed = {} /\ TransmissionEnd
    \/ Stopped

Spec == Init /\ [][Next]_vars
FairSpec == Spec /\ WF_vars(failed = {} /\ TransmissionEnd)

-----------------------------------------------------------------------------
\* The parts of the radio have the values the operations give them.
TypeOK ==
    /\ phy \in Phy
    /\ channel \in [Signals -> Channels \cup {None}]
    /\ {waits, alert} \subseteq BOOLEAN

Listens == phy.mode \in {"IDLE", "SENSING", "RECEIVING"}

\* The interference, which is added to and subtracted from at every start, end
\* and change, is the power of what is on the channel but the frame received.
InterferenceIsSum == Listens =>
    LET but == IF phy.mode = "RECEIVING" THEN phy.rx ELSE None
    IN  phy.interference = SignalInterference(State, phy.tx, but)

\* The mode says whether the medium is busy.
SensesMedium == phy.mode \in {"IDLE", "SENSING"} => phy.mode = Quiet(State)

\* The frame that is received, and handed to the MAC when it ends, is on the
\* air and has been listened to since it began, on one channel.
WholeFrames == phy.mode = "RECEIVING" => phy.rx \in heard /\ channel[phy.rx] = phy.tx

\* A radio that does not transmit listens to its channel and to no other.
TunedToOne ==
    phy.listening = IF phy.mode = "TRANSMITTING" THEN {} ELSE {phy.tx}

\* The MAC waits for the end of a transmission only if the end will come.
EndWillCome == waits => phy.mode = "TRANSMITTING" /\ phy.timer

\* No assertion of the radio fails, none of the errors of the MAC for an
\* impossible change of mode is reported.
AssertionsHold == failed = {}

-----------------------------------------------------------------------------
(* What a comment or an assertion of the code says and its actions do not keep. *)

\* A signal does not end while the radio transmits, phy_chanswitch.cpp:1484.
EndNotTransmitting == "end" \notin failed

\* The timer of the change finds no frame with an error, mac_dot11.cpp:961.
NoErrorAtTimer == "error" \notin failed
=============================================================================
