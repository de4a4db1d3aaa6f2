---------------------------- MODULE NextChannel -----------------------------
(***************************************************************************)
(* Next-channel switching (SIMPLE), which has no packets of its own: the    *)
(* sender moves to the next channel when its IP queue fills, the receiver   *)
(* follows when it hears nothing for a while, and goes back if that was     *)
(* in vain.  All of it is in mac_dot11.cpp.                                 *)
(*                                                                         *)
(* Time is discrete: Tick passes one unit when no timer is due, and all     *)
(* that happens between two ticks happens in any order.  A timer of a kind  *)
(* always runs for the same time, so the timers of a kind are a queue of    *)
(* remaining times.                                                         *)
(***************************************************************************)
EXTENDS Integers, Sequences

CONSTANTS
  Tx, Rx,          \* the sending and the receiving node
  NumChannels,     \* PROP_NumberChannels
  Switchable,      \* PHY-CHANSWITCH-CHANNEL-MASK
  FirstChannel,    \* the channel both radios start on
  Initial,         \* MAC-DOT11-CHANSWITCH-INITIAL: select a channel at the start
  Levels,          \* interference levels a channel may be measured at
  TxDelay,         \* MAC-DOT11-TX-CHANSWITCH-DELAY
  RxDisconnect,    \* MAC-DOT11-CHANSWITCH-RX-DISCONNECT-TIMEOUT
  RxReturn,        \* MAC-DOT11-CHANSWITCH-RX-RETURN-PREV-CHANNEL
  InitialDelay     \* MAC-DOT11-CHANSWITCH-INITIAL-DELAY

Channel == 0 .. NumChannels - 1

NextChannelAssumption ==
  /\ Tx # Rx
  /\ NumChannels \in Nat \ {0}
  /\ Switchable \subseteq Channel /\ Switchable # {}
  /\ FirstChannel \in Channel
  /\ Initial \in BOOLEAN
  /\ Levels \subseteq Int /\ Levels # {}
  /\ {TxDelay, RxDisconnect, RxReturn, InitialDelay} \subseteq Nat \ {0}

VARIABLES
  state,     \* [Node -> simple_state]; TX_INIT and RX_INIT are one value, as in the code
  phy,       \* [Node -> transmission channel and channels listened to]
  scan,      \* [Node -> the initial interference scan]
  initialDelay,   \* [Node -> timers ChanSwitchInitialDelay]
  tx,        \* the sender: tx_waiting, tx_gotack and its delay timers
  rx,        \* the receiver: first_pkt, prev_channel, time since last_rx, its timers
  ackDue     \* the receiver is about to acknowledge a data frame

vars == <<state, phy, scan, initialDelay, tx, rx, ackDue>>

Node == {Tx, Rx}
Timers(duration) == Seq(0 .. duration)
Start(timers, duration) == Append(timers, duration)
Due(timers) == timers # <<>> /\ Head(timers) = 0
Pass(timers) == [i \in DOMAIN timers |-> timers[i] - 1]

CanHear(m, n) == phy[m].tx \in phy[n].listening

TypeOK ==
  /\ state \in [Node -> {"N_IDLE", "INIT", "TX_CHANGED", "RX_SEARCHING"}]
  /\ phy \in [Node -> [tx : Channel, listening : SUBSET Channel]]
  /\ scan \in [Node -> [active : BOOLEAN, checked : SUBSET Channel,
                        avg : [Channel -> Levels \cup {0}]]]
  /\ initialDelay \in [Node -> Timers(InitialDelay)]
  /\ tx \in [waiting : BOOLEAN, gotack : BOOLEAN, delays : Timers(TxDelay)]
  /\ rx \in [first : BOOLEAN, prev : Channel, silent : 0 .. RxDisconnect,
             probe : Timers(RxDisconnect), returns : Timers(RxReturn),
             searched : 0 .. RxReturn, found : BOOLEAN]
  /\ ackDue \in BOOLEAN

\* searched and found are history: how long ago the receiver began the last
\* search, and whether it received data since.
Init ==
  /\ state = [n \in Node |-> IF Initial THEN "INIT" ELSE "N_IDLE"]
  /\ phy = [n \in Node |-> [tx |-> FirstChannel, listening |-> {FirstChannel}]]
  /\ scan = [n \in Node |-> [active |-> Initial, checked |-> {},
                             avg |-> [c \in Channel |-> 0]]]
  /\ initialDelay = [n \in Node |-> <<>>]
  /\ tx = [waiting |-> FALSE, gotack |-> FALSE, delays |-> <<>>]
  /\ rx = [first |-> TRUE, prev |-> FirstChannel, silent |-> 0, probe |-> <<>>,
           returns |-> <<>>, searched |-> 0, found |-> FALSE]
  /\ ackDue = FALSE

-----------------------------------------------------------------------------
(* Changing channels *)

\* Mutant of NextSwitchable: the search goes on to the last candidate.
NextSwitchableLast(c, k) ==
  /\ (c + k) % NumChannels \in Switchable
  /\ \A j \in k + 1 .. NumChannels : (c + j) % NumChannels \notin Switchable

\* The next switchable channel is k steps after channel c.
NextSwitchable(c, k) ==
  /\ (c + k) % NumChannels \in Switchable
  /\ \A j \in 1 .. k - 1 : (c + j) % NumChannels \notin Switchable

NextChannelOf(c) ==
  (c + (CHOOSE k \in 1 .. NumChannels : NextSwitchable(c, k))) % NumChannels

Retuned(n, new) ==
  [tx |-> new, listening |-> (phy[n].listening \ {phy[n].tx}) \cup {new}]

-----------------------------------------------------------------------------
(* The initial selection: MacDot11HandleSinrProbeChanSwitch, SIMPLE *)

Measured(n, level) == [scan[n].avg EXCEPT ![phy[n].tx] = level]

ScanNext(n) ==
  /\ scan[n].active
  /\ NextChannelOf(phy[n].tx) \notin scan[n].checked \cup {phy[n].tx}
  /\ \E level \in Levels :
       scan' = [scan EXCEPT ![n].checked = scan[n].checked \cup {phy[n].tx},
                  ![n].avg = [Measured(n, level) EXCEPT ![NextChannelOf(phy[n].tx)] = 0]]
  /\ phy' = [phy EXCEPT ![n] = Retuned(n, NextChannelOf(phy[n].tx))]
  /\ UNCHANGED <<state, initialDelay, tx, rx, ackDue>>

\* The selection compares worst_intnoise_dB with 0.  In this mode that array
\* holds, for every channel visited, the noise in milliwatts it was set to, a
\* positive number: no channel is below 0, and the last one visited is selected.
ScanCompleted(n) ==
  /\ scan[n].active
  /\ NextChannelOf(phy[n].tx) \in scan[n].checked \cup {phy[n].tx}
  /\ \E level \in Levels :
       scan' = [scan EXCEPT ![n].checked = scan[n].checked \cup {phy[n].tx},
                            ![n].avg = Measured(n, level), ![n].active = FALSE]
  /\ state' = [state EXCEPT ![n] = "N_IDLE"]
  /\ initialDelay' = [initialDelay EXCEPT ![n] = Start(@, InitialDelay)]
  /\ UNCHANGED <<phy, tx, rx, ackDue>>

\* MSG_MAC_DOT11_ChanSwitchInitialDelay
InitialDelayExpires(n) ==
  /\ Due(initialDelay[n])
  /\ initialDelay' = [initialDelay EXCEPT ![n] = Tail(@)]
  /\ state' = [state EXCEPT ![n] = "N_IDLE"]
  /\ UNCHANGED <<phy, scan, tx, rx, ackDue>>

-----------------------------------------------------------------------------
(* The sender *)

\* MacDot11NetworkLayerChanswitch: the IP queue is over the threshold.
NetworkLayerChanswitch ==
  /\ state[Tx] = "N_IDLE"
  /\ phy' = [phy EXCEPT ![Tx] = Retuned(Tx, NextChannelOf(phy[Tx].tx))]
  /\ tx' = [waiting |-> TRUE, gotack |-> FALSE, delays |-> Start(tx.delays, TxDelay)]
  /\ state' = [state EXCEPT ![Tx] = "TX_CHANGED"]
  /\ UNCHANGED <<scan, initialDelay, rx, ackDue>>

\* MSG_MAC_DOT11_ChanSwitchTxDelay
TxDelayExpires ==
  /\ Due(tx.delays)
  /\ tx' = [tx EXCEPT !.waiting = FALSE, !.delays = Tail(@)]
  /\ state' = [state EXCEPT ![Tx] = IF tx.gotack THEN "N_IDLE" ELSE @]
  /\ UNCHANGED <<phy, scan, initialDelay, rx, ackDue>>

\* Mutant of AckReceived: back to idle although the delay is running.
AckReceivedAtOnce ==
  /\ ackDue /\ CanHear(Rx, Tx)
  /\ ackDue' = FALSE
  /\ tx' = [tx EXCEPT !.gotack = TRUE]
  /\ state' = [state EXCEPT ![Tx] = IF @ = "TX_CHANGED" THEN "N_IDLE" ELSE @]
  /\ UNCHANGED <<phy, scan, initialDelay, rx>>

\* DOT11_ACK
AckReceived ==
  /\ ackDue /\ CanHear(Rx, Tx)
  /\ ackDue' = FALSE
  /\ tx' = [tx EXCEPT !.gotack = TRUE]
  /\ state' = [state EXCEPT ![Tx] = IF @ = "TX_CHANGED" /\ ~tx.waiting THEN "N_IDLE" ELSE @]
  /\ UNCHANGED <<phy, scan, initialDelay, rx>>

AckLost ==
  /\ ackDue
  /\ ackDue' = FALSE
  /\ UNCHANGED <<state, phy, scan, initialDelay, tx, rx>>

-----------------------------------------------------------------------------
(* The receiver *)

\* DOT11_DATA, an acknowledgement follows
DataReceived ==
  /\ CanHear(Tx, Rx)
  /\ rx' = [rx EXCEPT !.silent = 0, !.first = FALSE, !.found = TRUE,
                      !.probe = IF rx.first THEN Start(@, RxDisconnect) ELSE @]
  /\ ackDue' = TRUE
  /\ UNCHANGED <<state, phy, scan, initialDelay, tx>>

Disconnected == rx.silent >= RxDisconnect

\* MSG_MAC_DOT11_ChanSwitchRxProbe: nothing received, look on the next channel,
Search ==
  /\ Due(rx.probe) /\ Disconnected /\ state[Rx] = "N_IDLE"
  /\ phy' = [phy EXCEPT ![Rx] = Retuned(Rx, NextChannelOf(phy[Rx].tx))]
  /\ rx' = [rx EXCEPT !.prev = phy[Rx].tx, !.searched = 0, !.found = FALSE,
                      !.returns = Start(@, RxReturn), !.probe = <<RxDisconnect>>]
  /\ state' = [state EXCEPT ![Rx] = "RX_SEARCHING"]
  /\ UNCHANGED <<scan, initialDelay, tx, ackDue>>

\* nothing received, but a search or the initial selection is under way,
SearchOn ==
  /\ Due(rx.probe) /\ Disconnected /\ state[Rx] # "N_IDLE"
  /\ rx' = [rx EXCEPT !.probe = <<RxDisconnect>>]
  /\ UNCHANGED <<state, phy, scan, initialDelay, tx, ackDue>>

\* or data was received.
Connected ==
  /\ Due(rx.probe) /\ ~Disconnected
  /\ rx' = [rx EXCEPT !.probe = <<RxDisconnect>>]
  /\ state' = [state EXCEPT ![Rx] = "N_IDLE"]
  /\ UNCHANGED <<phy, scan, initialDelay, tx, ackDue>>

RxProbe == Search \/ SearchOn \/ Connected

\* MSG_MAC_DOT11_ChanSwitchRxReturnPrevChannel.  The radio goes on listening to
\* the channel it leaves.
ReturnPrevChannel ==
  /\ Due(rx.returns) /\ state[Rx] = "RX_SEARCHING"
  /\ phy' = [phy EXCEPT ![Rx] = [tx |-> rx.prev, listening |-> @.listening \cup {rx.prev}]]
  /\ rx' = [rx EXCEPT !.returns = Tail(@)]
  /\ state' = [state EXCEPT ![Rx] = "N_IDLE"]
  /\ UNCHANGED <<scan, initialDelay, tx, ackDue>>

ReturnNotNeeded ==
  /\ Due(rx.returns) /\ state[Rx] # "RX_SEARCHING"
  /\ rx' = [rx EXCEPT !.returns = Tail(@)]
  /\ state' = [state EXCEPT ![Rx] = "N_IDLE"]
  /\ UNCHANGED <<phy, scan, initialDelay, tx, ackDue>>

-----------------------------------------------------------------------------
NothingDue ==
  /\ \A n \in Node : ~Due(initialDelay[n])
  /\ ~Due(tx.delays) /\ ~Due(rx.probe) /\ ~Due(rx.returns)
  /\ ~ackDue   \* it is sent, or lost, a short interframe space after the data

AtMost(k, limit) == IF k < limit THEN k + 1 ELSE limit

Tick ==
  /\ NothingDue
  /\ initialDelay' = [n \in Node |-> Pass(initialDelay[n])]
  /\ tx' = [tx EXCEPT !.delays = Pass(@)]
  /\ rx' = [rx EXCEPT !.probe = Pass(@), !.returns = Pass(@),
                      !.silent = AtMost(@, RxDisconnect),
                      !.searched = AtMost(@, RxReturn)]
  /\ UNCHANGED <<state, phy, scan, ackDue>>

Scanning == \E n \in Node : ScanNext(n) \/ ScanCompleted(n)

Timeout ==
  \/ \E n \in Node : InitialDelayExpires(n)
  \/ TxDelayExpires
  \/ RxProbe
  \/ ReturnPrevChannel
  \/ ReturnNotNeeded

Next ==
  \/ Scanning
  \/ Timeout
  \/ NetworkLayerChanswitch
  \/ AckReceived \/ AckLost
  \/ DataReceived
  \/ Tick

Spec == Init /\ [][Next]_vars

\* Time passes and timers fire.  The sender that changed channels has a full
\* queue: it sends, and what can be heard again and again is heard.
FairSpec ==
  /\ Spec
  /\ SF_vars(Tick) /\ WF_vars(Timeout) /\ WF_vars(Scanning)
  /\ SF_vars(DataReceived)
  /\ SF_vars(AckReceived) /\ WF_vars(AckReceived \/ AckLost)

-----------------------------------------------------------------------------
\* tx_waiting is TRUE exactly while a delay started by a change is running: no
\* timer of an earlier change ends the wait of a later one.
WaitIsTimed == tx.waiting <=> tx.delays # <<>>

\* The sender changes channels at most once per delay ("time (seconds) between TX
\* node channel switch when queue is full") and not before the receiver, on the
\* channel of the last change, has acknowledged something.
SpacedStep ==
  phy'[Tx].tx # phy[Tx].tx
    => tx.delays = <<>> /\ (tx.gotack \/ phy[Tx].tx = FirstChannel)
ChangesAreSpaced == [][SpacedStep]_vars

\* While it searches, the receiver is one channel past the one it remembers and
\* a timer that takes it back is running.
SearchIsTimed ==
  state[Rx] = "RX_SEARCHING" =>
    /\ rx.returns # <<>>
    /\ phy[Rx].tx = NextChannelOf(rx.prev)

ScanCovers(n) == initialDelay[n] # <<>> => Switchable \subseteq scan[n].checked

\* The initial scan of the sender measures every channel; nothing else moves its
\* radio before the scan is over.
TxScanCovers ==
  /\ ScanCovers(Tx)
  /\ scan[Tx].active => state[Tx] = "INIT"

-----------------------------------------------------------------------------
(* What a comment or an assertion of the code says and its actions do not keep. *)

\* "select the initial channel based on SINR"
InitialLeastInterference ==
  \A n \in Node :
    initialDelay[n] # <<>> => \A c \in scan[n].checked : scan[n].avg[phy[n].tx] <= scan[n].avg[c]

\* "go back to TX_N_IDLE if we've reconnected to RX": a change is followed.
Followed == state[Tx] = "TX_CHANGED" /\ ~rx.first ~> state[Tx] = "N_IDLE"

\* "time when RX returns to original channel if TX cannot be found"
ReturnsOnlyInVain ==
  [][state[Rx] = "RX_SEARCHING" /\ phy'[Rx].tx # phy[Rx].tx => ~rx.found]_vars

\* ... and that time has passed.
SearchesFullTime ==
  [][state[Rx] = "RX_SEARCHING" /\ phy'[Rx].tx # phy[Rx].tx => rx.searched = RxReturn]_vars

\* "time to stay on the initial SINR selected channel"
StaysOnInitialChannel ==
  [][initialDelay[Tx] # <<>> => phy'[Tx].tx = phy[Tx].tx]_vars

\* "if we have checked them all pick the channel": so does the receiver.
RxScanCovers == ScanCovers(Rx)
=============================================================================
