-------------------------- MODULE NextChannelProof --------------------------
(***************************************************************************)
(* Theorems about NextChannel.  The queues of timers are in the order they  *)
(* fall due in, so a tick never takes one below zero.  The initial scan of  *)
(* the sender goes around the channels and has met every switchable one     *)
(* when it meets one again.  Where the initial channel is given, a change   *)
(* of the sender is made by one that has no delay running and has heard of  *)
(* the receiver since the change before.                                    *)
(***************************************************************************)
EXTENDS NextChannel, SequenceTheorems, WellFoundedInduction, TLAPS

(* Timers. *)

\* What a timer queue of timers that run for d looks like: the earliest comes first.
InOrder(q, d) ==
  /\ q \in Timers(d)
  /\ \A i, j \in 1 .. Len(q) : i < j => q[i] <= q[j]

\* A timer is started: it is the last one to fall due.
LEMMA StartInOrder ==
  ASSUME NEW d \in Nat, NEW q, InOrder(q, d)
  PROVE  /\ InOrder(Start(q, d), d)
         /\ Start(q, d) # <<>> /\ Len(Start(q, d)) = Len(q) + 1
<1>1. q \in Seq(0 .. d) /\ d \in 0 .. d BY DEF InOrder, Timers
<1>2. /\ Start(q, d) \in Seq(0 .. d) /\ Len(Start(q, d)) = Len(q) + 1
      /\ \A i \in 1 .. Len(q) : Start(q, d)[i] = q[i] /\ q[i] \in 0 .. d
      /\ Start(q, d)[Len(q) + 1] = d
  BY <1>1 DEF Start
<1>3. Len(q) \in Nat BY <1>1
<1>4. ASSUME NEW i \in 1 .. Len(q) + 1, NEW j \in 1 .. Len(q) + 1, i < j
      PROVE  Start(q, d)[i] <= Start(q, d)[j]
  <2>1. i \in 1 .. Len(q) BY <1>3, <1>4
  <2>2. CASE j \in 1 .. Len(q) BY <1>2, <1>4, <2>1, <2>2 DEF InOrder
  <2>3. CASE j = Len(q) + 1 BY <1>2, <2>1, <2>3
  <2> QED BY <1>3, <2>2, <2>3
<1>5. Start(q, d) # <<>> BY <1>2, <1>3
<1> QED BY <1>2, <1>4, <1>5 DEF InOrder, Timers

\* The first timer fires.
LEMMA TailInOrder ==
  ASSUME NEW d \in Nat, NEW q, InOrder(q, d), q # <<>>
  PROVE  InOrder(Tail(q), d) /\ Len(Tail(q)) = Len(q) - 1
<1>1. q \in Seq(0 .. d) BY DEF InOrder, Timers
<1>2. /\ Tail(q) \in Seq(0 .. d) /\ Len(Tail(q)) = Len(q) - 1 /\ Len(q) \in Nat
      /\ \A i \in 1 .. Len(q) - 1 : Tail(q)[i] = q[i + 1]
  BY <1>1
<1>3. \A i, j \in 1 .. Len(q) - 1 : i < j => Tail(q)[i] <= Tail(q)[j]
  <2> SUFFICES ASSUME NEW i \in 1 .. Len(q) - 1, NEW j \in 1 .. Len(q) - 1, i < j
               PROVE  Tail(q)[i] <= Tail(q)[j]
    OBVIOUS
  <2>1. i + 1 \in 1 .. Len(q) /\ j + 1 \in 1 .. Len(q) /\ i + 1 < j + 1 BY <1>2
  <2> QED BY <1>2, <2>1 DEF InOrder
<1> QED BY <1>2, <1>3 DEF InOrder, Timers

\* Time passes: nothing is due, so the first has time left, and so have the others.
LEMMA PassInOrder ==
  ASSUME NEW d \in Nat, NEW q, InOrder(q, d), ~Due(q)
  PROVE  InOrder(Pass(q), d) /\ (Pass(q) = <<>> <=> q = <<>>) /\ Len(Pass(q)) = Len(q)
<1>1. q \in Seq(0 .. d) /\ Len(q) \in Nat /\ DOMAIN q = 1 .. Len(q)
  BY DEF InOrder, Timers
<1>2. \A i \in 1 .. Len(q) : q[i] \in 0 .. d /\ q[i] >= 1
  <2> TAKE i \in 1 .. Len(q)
  <2>1. q # <<>> /\ 1 \in 1 .. Len(q) /\ q[1] \in 0 .. d /\ q[i] \in 0 .. d BY <1>1
  <2>2. q[1] # 0 BY <1>1, <2>1 DEF Due
  <2>3. q[1] <= q[i] BY <1>1, <2>1 DEF InOrder
  <2> QED BY <2>1, <2>2, <2>3
<1>3. Pass(q) = [i \in 1 .. Len(q) |-> q[i] - 1] BY <1>1 DEF Pass
<1>4. Pass(q) \in Seq(0 .. d) /\ Len(Pass(q)) = Len(q)
  <2>1. \A i \in 1 .. Len(q) : q[i] - 1 \in 0 .. d BY <1>2
  <2>2. Pass(q) \in [1 .. Len(q) -> 0 .. d] BY <1>3, <2>1
  <2> QED BY <1>1, <2>2
<1>5. \A i, j \in 1 .. Len(q) : i < j => Pass(q)[i] <= Pass(q)[j]
  BY <1>2, <1>3 DEF InOrder
<1>6. Pass(q) = <<>> <=> q = <<>> BY <1>1, <1>4
<1> QED BY <1>4, <1>5, <1>6 DEF InOrder, Timers

\* No timers, or one.
LEMMA FewInOrder ==
  ASSUME NEW d \in Nat
  PROVE  /\ InOrder(<<>>, d) /\ InOrder(<<d>>, d)
         /\ Len(<<>>) = 0
<1>1. <<>> \in Seq(0 .. d) /\ <<d>> \in Seq(0 .. d) BY SMT
<1> QED BY <1>1 DEF InOrder, Timers

-----------------------------------------------------------------------------
(* Channels. *)

\* The constants.
LEMMA ConstantFacts ==
  ASSUME NextChannelAssumption
  PROVE  /\ NumChannels \in Nat /\ NumChannels > 0
         /\ FirstChannel \in Channel /\ Switchable \subseteq Channel
         /\ Tx \in Node /\ Rx \in Node /\ Tx # Rx
         /\ TxDelay \in Nat /\ RxDisconnect \in Nat /\ RxReturn \in Nat /\ InitialDelay \in Nat
         /\ \A a \in Nat : a % NumChannels \in Channel
BY DEF NextChannelAssumption, Channel, Node

\* The channel d after the first one.
Around(d) == (FirstChannel + d) % NumChannels

\* Less than twice around.
LEMMA OneAround ==
  ASSUME NEW n \in Nat, n > 0, NEW a \in 0 .. 2 * n - 1
  PROVE  a % n = IF a < n THEN a ELSE a - n
BY SMTT(30)

\* Going around: where k steps more lead, that no channel is met twice on the way,
\* and that every one is.
LEMMA GoingAround ==
  ASSUME NextChannelAssumption
  PROVE  /\ Around(0) = FirstChannel
         /\ \A d \in 0 .. NumChannels - 1, k \in 1 .. NumChannels :
              (Around(d) + k) % NumChannels
                = IF d + k < NumChannels THEN Around(d + k) ELSE Around(d + k - NumChannels)
         /\ \A i, j \in 0 .. NumChannels - 1 : Around(i) = Around(j) => i = j
         /\ \A c \in Channel : \E j \in 0 .. NumChannels - 1 : c = Around(j)
<1>1. NumChannels \in Nat /\ NumChannels > 0 /\ FirstChannel \in 0 .. NumChannels - 1
  BY DEF NextChannelAssumption, Channel
<1>2. \A a \in 0 .. 2 * NumChannels - 1 :
        a % NumChannels = IF a < NumChannels THEN a ELSE a - NumChannels
  BY <1>1, OneAround
<1>3. \A d \in 0 .. NumChannels - 1 :
        Around(d) = IF FirstChannel + d < NumChannels THEN FirstChannel + d
                    ELSE FirstChannel + d - NumChannels
  <2> TAKE d \in 0 .. NumChannels - 1
  <2>1. FirstChannel + d \in 0 .. 2 * NumChannels - 1 BY <1>1
  <2>2. (FirstChannel + d) % NumChannels
          = IF FirstChannel + d < NumChannels THEN FirstChannel + d
            ELSE FirstChannel + d - NumChannels
    BY <1>1, <1>2, <2>1
  <2> QED BY <2>2 DEF Around
<1>4. Around(0) = FirstChannel BY <1>1, <1>3
<1>5. ASSUME NEW d \in 0 .. NumChannels - 1, NEW k \in 1 .. NumChannels
      PROVE  (Around(d) + k) % NumChannels
               = IF d + k < NumChannels THEN Around(d + k) ELSE Around(d + k - NumChannels)
  <2> DEFINE a == Around(d)
  <2>1. a \in 0 .. NumChannels - 1 BY <1>1, <1>3
  <2>2. a = IF FirstChannel + d < NumChannels THEN FirstChannel + d
            ELSE FirstChannel + d - NumChannels
    BY <1>3
  <2> HIDE DEF a
  <2>3. a + k \in 0 .. 2 * NumChannels - 1 BY <1>1, <2>1
  <2>4. (a + k) % NumChannels = IF a + k < NumChannels THEN a + k ELSE a + k - NumChannels
    <3> DEFINE b == a + k
    <3>1. b \in 0 .. 2 * NumChannels - 1 BY <2>3
    <3> HIDE DEF b
    <3>2. b % NumChannels = IF b < NumChannels THEN b ELSE b - NumChannels
      BY <1>1, <3>1, OneAround
    <3> QED BY <1>1, <2>1, <3>2 DEF b
  <2>5. CASE d + k < NumChannels
    <3>1. d + k \in 0 .. NumChannels - 1 BY <1>1, <2>5
    <3>2. Around(d + k) = IF FirstChannel + (d + k) < NumChannels THEN FirstChannel + (d + k)
                          ELSE FirstChannel + (d + k) - NumChannels
      BY <1>3, <3>1
    <3>3. (a + k) % NumChannels = Around(d + k) BY <1>1, <2>2, <2>4, <2>5, <3>2
    <3> QED BY <2>5, <3>3 DEF a
  <2>6. CASE ~(d + k < NumChannels)
    <3>1. d + k - NumChannels \in 0 .. NumChannels - 1 BY <1>1, <2>6
    <3>2. Around(d + k - NumChannels)
            = IF FirstChannel + (d + k - NumChannels) < NumChannels
              THEN FirstChannel + (d + k - NumChannels)
              ELSE FirstChannel + (d + k - NumChannels) - NumChannels
      BY <1>3, <3>1
    <3>3. (a + k) % NumChannels = Around(d + k - NumChannels)
      BY <1>1, <2>2, <2>4, <2>6, <3>2
    <3> QED BY <2>6, <3>3 DEF a
  <2> QED BY <2>5, <2>6
<1>6. ASSUME NEW i \in 0 .. NumChannels - 1, NEW j \in 0 .. NumChannels - 1,
             Around(i) = Around(j)
      PROVE  i = j
  BY <1>1, <1>3, <1>6
<1>7. ASSUME NEW c \in Channel PROVE \E j \in 0 .. NumChannels - 1 : c = Around(j)
  <2>1. c \in 0 .. NumChannels - 1 BY DEF Channel
  <2>2. CASE c >= FirstChannel
    <3>1. c - FirstChannel \in 0 .. NumChannels - 1 BY <1>1, <2>1, <2>2
    <3>2. c = Around(c - FirstChannel) BY <1>1, <1>3, <2>1, <3>1
    <3> QED BY <3>1, <3>2
  <2>3. CASE c < FirstChannel
    <3>1. c - FirstChannel + NumChannels \in 0 .. NumChannels - 1 BY <1>1, <2>1, <2>3
    <3>2. c = Around(c - FirstChannel + NumChannels) BY <1>1, <1>3, <2>1, <3>1
    <3> QED BY <3>1, <3>2
  <2> QED BY <1>1, <2>1, <2>2, <2>3
<1> QED BY <1>4, <1>5, <1>6, <1>7

\* A set of natural numbers that is not empty has a least one.
LEMMA Least ==
  ASSUME NEW T, T \subseteq Nat, T # {}
  PROVE  \E x \in T : \A y \in T : x <= y
<1> DEFINE Less == {ss \in Nat \X Nat : ss[1] < ss[2]}
<1>1. IsWellFoundedOn(Less, Nat) BY NatLessThanWellFounded DEF OpToRel
<1> HIDE DEF Less
<1>2. PICK x \in T : \A y \in T : ~ (<<y, x>> \in Less) BY <1>1, WFMin
<1>3. \A y \in T : <<y, x>> \in Nat \X Nat BY <1>2
<1>4. \A y \in T : ~(y < x) BY <1>2, <1>3 DEF Less
<1> QED BY <1>2, <1>4

\* There is a next switchable channel, the switchable channel itself if it is the
\* only one, and the search for it finds it.
LEMMA NextChannelFound ==
  ASSUME NextChannelAssumption, NEW c \in Channel
  PROVE  \E k \in 1 .. NumChannels :
           /\ NextSwitchable(c, k) /\ NextChannelOf(c) = (c + k) % NumChannels
           /\ NextChannelOf(c) \in Channel /\ NextChannelOf(c) \in Switchable
<1> DEFINE Found(k) == (c + k) % NumChannels \in Switchable
<1> DEFINE T == {k \in 1 .. NumChannels : Found(k)}
<1>0. NumChannels \in Nat /\ NumChannels > 0 /\ c \in 0 .. NumChannels - 1
  BY ConstantFacts DEF Channel
<1>1. PICK s \in Switchable : s \in 0 .. NumChannels - 1
  BY DEF NextChannelAssumption, Channel
<1>2. \E k \in 1 .. NumChannels : (c + k) % NumChannels = s
  <2>1. \A a \in 0 .. 2 * NumChannels - 1 :
          a % NumChannels = IF a < NumChannels THEN a ELSE a - NumChannels
    BY <1>0, OneAround
  <2>2. CASE s > c
    <3>1. s - c \in 1 .. NumChannels BY <1>0, <1>1, <2>2
    <3>2. c + (s - c) = s /\ s \in 0 .. 2 * NumChannels - 1 /\ s < NumChannels
      BY <1>0, <1>1
    <3> QED BY <2>1, <3>1, <3>2
  <2>3. CASE ~(s > c)
    <3>1. s - c + NumChannels \in 1 .. NumChannels BY <1>0, <1>1, <2>3
    <3>2. /\ c + (s - c + NumChannels) = s + NumChannels
          /\ s + NumChannels \in 0 .. 2 * NumChannels - 1
          /\ ~(s + NumChannels < NumChannels) /\ s + NumChannels - NumChannels = s
      BY <1>0, <1>1
    <3> DEFINE b == s + NumChannels
    <3>3. b \in 0 .. 2 * NumChannels - 1 /\ ~(b < NumChannels) /\ b - NumChannels = s BY <1>0, <1>1, <3>2
    <3> HIDE DEF b
    <3>4. b % NumChannels = s BY <1>0, <3>3, OneAround
    <3>5. (s + NumChannels) % NumChannels = s BY <3>4 DEF b
    <3> QED BY <3>1, <3>2, <3>5
  <2> QED BY <2>2, <2>3
<1>3. T \subseteq Nat /\ T # {}
  <2>1. PICK k \in 1 .. NumChannels : (c + k) % NumChannels = s BY <1>2
  <2>2. k \in T BY <1>1, <2>1
  <2>3. T \subseteq 1 .. NumChannels OBVIOUS
  <2> HIDE DEF T
  <2> QED BY <1>0, <2>2, <2>3
<1>4. PICK k \in T : \A j \in T : k <= j BY <1>3, Least
<1>5. k \in 1 .. NumChannels /\ Found(k) BY <1>4
<1>6. \A j \in 1 .. k - 1 : ~Found(j)
  <2> TAKE j \in 1 .. k - 1
  <2>1. j \in 1 .. NumChannels /\ ~(k <= j) BY <1>0, <1>5
  <2> QED BY <1>4, <2>1
<1>7. NextSwitchable(c, k) BY <1>5, <1>6 DEF NextSwitchable
<1> DEFINE K == CHOOSE m \in 1 .. NumChannels : NextSwitchable(c, m)
<1>8. K \in 1 .. NumChannels /\ NextSwitchable(c, K) BY <1>5, <1>7
<1>9. NextChannelOf(c) = (c + K) % NumChannels BY DEF NextChannelOf
<1> HIDE DEF K
<1>10. NextChannelOf(c) \in Switchable /\ NextChannelOf(c) \in Channel
  BY <1>8, <1>9, ConstantFacts DEF NextSwitchable
<1> QED BY <1>8, <1>9, <1>10

-----------------------------------------------------------------------------
(* Types. *)

ScanData ==
  [active : BOOLEAN, checked : SUBSET Channel, avg : [Channel -> Levels \cup {0}]]
PhyData == [tx : Channel, listening : SUBSET Channel]
State == {"N_IDLE", "INIT", "TX_CHANGED", "RX_SEARCHING"}

\* The type invariant with its sets named, and the order of the timers.
Typed ==
  /\ state \in [Node -> State] /\ phy \in [Node -> PhyData] /\ scan \in [Node -> ScanData]
  /\ DOMAIN initialDelay = Node /\ initialDelay = [n \in Node |-> initialDelay[n]]
  /\ \A n \in Node : InOrder(initialDelay[n], InitialDelay)
  /\ tx \in [waiting : BOOLEAN, gotack : BOOLEAN, delays : Timers(TxDelay)]
  /\ InOrder(tx.delays, TxDelay)
  /\ rx \in [first : BOOLEAN, prev : Channel, silent : 0 .. RxDisconnect,
             probe : Timers(RxDisconnect), returns : Timers(RxReturn),
             searched : 0 .. RxReturn, found : BOOLEAN]
  /\ InOrder(rx.probe, RxDisconnect) /\ InOrder(rx.returns, RxReturn)
  /\ ackDue \in BOOLEAN

\* The radio changes to the next channel, or to the one it remembers.
LEMMA RetunedType ==
  ASSUME NextChannelAssumption, Typed, NEW n \in Node
  PROVE  /\ phy[n].tx \in Channel /\ phy[n].listening \subseteq Channel
         /\ NextChannelOf(phy[n].tx) \in Channel /\ NextChannelOf(phy[n].tx) \in Switchable
         /\ \A new \in Channel : Retuned(n, new) \in PhyData /\ Retuned(n, new).tx = new
<1>1. phy[n] \in PhyData BY DEF Typed
<1>2. phy[n].tx \in Channel /\ phy[n].listening \subseteq Channel BY <1>1 DEF PhyData
<1> QED BY <1>2, NextChannelFound DEF Retuned, PhyData

\* The initial scan.
LEMMA TypesOfScan ==
  ASSUME NextChannelAssumption, Typed, NEW n \in Node, ScanNext(n) \/ ScanCompleted(n)
  PROVE  Typed'
<1>0. /\ scan[n] \in ScanData /\ phy[n].tx \in Channel
      /\ NextChannelOf(phy[n].tx) \in Channel
      /\ Retuned(n, NextChannelOf(phy[n].tx)) \in PhyData
  BY RetunedType DEF Typed
<1>1. \A level \in Levels : Measured(n, level) \in [Channel -> Levels \cup {0}]
  BY <1>0 DEF Measured, ScanData
<1>2. CASE ScanNext(n)
  <2>1. PICK level \in Levels :
          scan' = [scan EXCEPT ![n].checked = scan[n].checked \cup {phy[n].tx},
                     ![n].avg = [Measured(n, level) EXCEPT ![NextChannelOf(phy[n].tx)] = 0]]
    BY <1>2 DEF ScanNext
  <2>2. [Measured(n, level) EXCEPT ![NextChannelOf(phy[n].tx)] = 0] \in [Channel -> Levels \cup {0}]
    BY <1>0, <1>1
  <2>3. scan' \in [Node -> ScanData] BY <1>0, <2>1, <2>2 DEF Typed, ScanData
  <2>4. phy' \in [Node -> PhyData] BY <1>0, <1>2 DEF ScanNext, Typed
  <2> QED BY <1>2, <2>3, <2>4 DEF ScanNext, Typed
<1>3. CASE ScanCompleted(n)
  <2>1. PICK level \in Levels :
          scan' = [scan EXCEPT ![n].checked = scan[n].checked \cup {phy[n].tx},
                               ![n].avg = Measured(n, level), ![n].active = FALSE]
    BY <1>3 DEF ScanCompleted
  <2>2. scan' \in [Node -> ScanData] BY <1>0, <1>1, <2>1 DEF Typed, ScanData
  <2>3. state' \in [Node -> State] BY <1>3 DEF ScanCompleted, Typed, State
  <2>4. InOrder(Start(initialDelay[n], InitialDelay), InitialDelay)
    BY ConstantFacts, StartInOrder DEF Typed
  <2>5. initialDelay' = [initialDelay EXCEPT ![n] = Start(@, InitialDelay)]
    BY <1>3 DEF ScanCompleted
  <2>6. /\ DOMAIN initialDelay' = Node /\ initialDelay' = [m \in Node |-> initialDelay'[m]]
        /\ \A m \in Node : InOrder(initialDelay'[m], InitialDelay)
    BY <2>4, <2>5 DEF Typed
  <2> QED BY <1>3, <2>2, <2>3, <2>6 DEF ScanCompleted, Typed
<1> QED BY <1>2, <1>3

\* The sender.
LEMMA TypesOfSender ==
  ASSUME NextChannelAssumption, Typed,
         NetworkLayerChanswitch \/ TxDelayExpires \/ AckReceived \/ AckLost
  PROVE  Typed'
<1>0. /\ Tx \in Node /\ NextChannelOf(phy[Tx].tx) \in Channel
      /\ Retuned(Tx, NextChannelOf(phy[Tx].tx)) \in PhyData
  BY ConstantFacts, RetunedType
<1>1. /\ InOrder(Start(tx.delays, TxDelay), TxDelay)
      /\ tx.delays # <<>> => InOrder(Tail(tx.delays), TxDelay)
  BY ConstantFacts, StartInOrder, TailInOrder DEF Typed
<1>2. \A q : InOrder(q, TxDelay) => q \in Timers(TxDelay) BY DEF InOrder
<1>3. CASE NetworkLayerChanswitch
  <2>1. phy' \in [Node -> PhyData] /\ state' \in [Node -> State]
    BY <1>0, <1>3 DEF NetworkLayerChanswitch, Typed, State
  <2>2. /\ tx' \in [waiting : BOOLEAN, gotack : BOOLEAN, delays : Timers(TxDelay)]
        /\ InOrder(tx'.delays, TxDelay)
    BY <1>1, <1>2, <1>3 DEF NetworkLayerChanswitch
  <2> QED BY <1>3, <2>1, <2>2 DEF NetworkLayerChanswitch, Typed
<1>4. CASE TxDelayExpires
  <2>1. state' \in [Node -> State] BY <1>0, <1>4 DEF TxDelayExpires, Typed, State
  <2>2. /\ tx' \in [waiting : BOOLEAN, gotack : BOOLEAN, delays : Timers(TxDelay)]
        /\ InOrder(tx'.delays, TxDelay)
    BY <1>1, <1>2, <1>4 DEF TxDelayExpires, Typed, Due
  <2> QED BY <1>4, <2>1, <2>2 DEF TxDelayExpires, Typed
<1>5. CASE AckReceived
  <2>1. state' \in [Node -> State] BY <1>0, <1>5 DEF AckReceived, Typed, State
  <2>2. /\ tx' \in [waiting : BOOLEAN, gotack : BOOLEAN, delays : Timers(TxDelay)]
        /\ InOrder(tx'.delays, TxDelay)
    BY <1>5 DEF AckReceived, Typed
  <2> QED BY <1>5, <2>1, <2>2 DEF AckReceived, Typed
<1>6. CASE AckLost BY <1>6 DEF AckLost, Typed
<1> QED BY <1>3, <1>4, <1>5, <1>6

RxData ==
  [first : BOOLEAN, prev : Channel, silent : 0 .. RxDisconnect,
   probe : Timers(RxDisconnect), returns : Timers(RxReturn),
   searched : 0 .. RxReturn, found : BOOLEAN]

\* The receiver.
LEMMA TypesOfReceiver ==
  ASSUME NextChannelAssumption, Typed,
         DataReceived \/ RxProbe \/ ReturnPrevChannel \/ ReturnNotNeeded
  PROVE  Typed'
<1>0. /\ Rx \in Node /\ NextChannelOf(phy[Rx].tx) \in Channel /\ phy[Rx].tx \in Channel
      /\ Retuned(Rx, NextChannelOf(phy[Rx].tx)) \in PhyData
  BY ConstantFacts, RetunedType
<1>1. /\ InOrder(Start(rx.probe, RxDisconnect), RxDisconnect)
      /\ InOrder(<<RxDisconnect>>, RxDisconnect)
      /\ InOrder(Start(rx.returns, RxReturn), RxReturn)
      /\ rx.returns # <<>> => InOrder(Tail(rx.returns), RxReturn)
  BY ConstantFacts, StartInOrder, TailInOrder, FewInOrder DEF Typed
<1>2. \A q, d : InOrder(q, d) => q \in Timers(d) BY DEF InOrder
<1>3. /\ rx \in RxData /\ 0 \in 0 .. RxDisconnect /\ 0 \in 0 .. RxReturn
      /\ InOrder(rx.probe, RxDisconnect) /\ InOrder(rx.returns, RxReturn)
  BY ConstantFacts DEF Typed, RxData
<1>4. CASE DataReceived
  <2>1. rx' \in RxData /\ InOrder(rx'.probe, RxDisconnect) /\ InOrder(rx'.returns, RxReturn)
    BY <1>1, <1>2, <1>3, <1>4 DEF DataReceived, RxData
  <2> QED BY <1>4, <2>1 DEF DataReceived, Typed, RxData
<1>5. CASE Search
  <2>1. rx' = [rx EXCEPT !.prev = phy[Rx].tx, !.searched = 0, !.found = FALSE,
                         !.returns = Start(@, RxReturn), !.probe = <<RxDisconnect>>]
    BY <1>5 DEF Search
  <2>2. rx' \in RxData /\ InOrder(rx'.probe, RxDisconnect) /\ InOrder(rx'.returns, RxReturn)
    BY <1>0, <1>1, <1>2, <1>3, <2>1 DEF RxData
  <2>3. phy' \in [Node -> PhyData] /\ state' \in [Node -> State]
    BY <1>0, <1>5 DEF Search, Typed, State
  <2> QED BY <1>5, <2>2, <2>3 DEF Search, Typed, RxData
<1>6. CASE SearchOn \/ Connected
  <2>1. rx' = [rx EXCEPT !.probe = <<RxDisconnect>>] BY <1>6 DEF SearchOn, Connected
  <2>2. rx' \in RxData /\ InOrder(rx'.probe, RxDisconnect) /\ InOrder(rx'.returns, RxReturn)
    BY <1>1, <1>2, <1>3, <2>1 DEF RxData
  <2>3. state' \in [Node -> State] BY <1>0, <1>6 DEF SearchOn, Connected, Typed, State
  <2> QED BY <1>6, <2>2, <2>3 DEF SearchOn, Connected, Typed, RxData
<1>7. CASE ReturnPrevChannel \/ ReturnNotNeeded
  <2>1. rx' = [rx EXCEPT !.returns = Tail(@)] /\ rx.returns # <<>>
    BY <1>7 DEF ReturnPrevChannel, ReturnNotNeeded, Due
  <2>2. rx' \in RxData /\ InOrder(rx'.probe, RxDisconnect) /\ InOrder(rx'.returns, RxReturn)
    BY <1>1, <1>2, <1>3, <2>1 DEF RxData
  <2>3. state' \in [Node -> State]
    BY <1>0, <1>7 DEF ReturnPrevChannel, ReturnNotNeeded, Typed, State
  <2>4. phy' \in [Node -> PhyData]
    <3>1. rx.prev \in Channel BY <1>3 DEF RxData
    <3>2. [tx |-> rx.prev, listening |-> phy[Rx].listening \cup {rx.prev}] \in PhyData
      BY <1>0, <3>1, RetunedType DEF PhyData
    <3> QED BY <1>0, <1>7, <3>2 DEF ReturnPrevChannel, ReturnNotNeeded, Typed
  <2> QED BY <1>7, <2>2, <2>3, <2>4 DEF ReturnPrevChannel, ReturnNotNeeded, Typed, RxData
<1> QED BY <1>4, <1>5, <1>6, <1>7 DEF RxProbe

\* Time passes.
LEMMA TypesOfTime ==
  ASSUME NextChannelAssumption, Typed,
         Tick \/ \E n \in Node : InitialDelayExpires(n)
  PROVE  Typed'
<1>1. CASE Tick
  <2>1. /\ \A n \in Node : InOrder(Pass(initialDelay[n]), InitialDelay)
        /\ InOrder(Pass(tx.delays), TxDelay)
        /\ InOrder(Pass(rx.probe), RxDisconnect) /\ InOrder(Pass(rx.returns), RxReturn)
    BY <1>1, ConstantFacts, PassInOrder DEF Tick, NothingDue, Typed
  <2>2. \A q, d : InOrder(q, d) => q \in Timers(d) BY DEF InOrder
  <2>3. \A limit \in Nat : \A k \in 0 .. limit : AtMost(k, limit) \in 0 .. limit
    BY DEF AtMost
  <2>4. /\ rx \in RxData
        /\ tx \in [waiting : BOOLEAN, gotack : BOOLEAN, delays : Timers(TxDelay)]
    BY DEF Typed, RxData
  <2>5. /\ tx' \in [waiting : BOOLEAN, gotack : BOOLEAN, delays : Timers(TxDelay)]
        /\ InOrder(tx'.delays, TxDelay)
    BY <1>1, <2>1, <2>2, <2>4 DEF Tick
  <2>6. AtMost(rx.silent, RxDisconnect) \in 0 .. RxDisconnect
    BY <2>3, <2>4, ConstantFacts DEF RxData
  <2>7. AtMost(rx.searched, RxReturn) \in 0 .. RxReturn
    BY <2>3, <2>4, ConstantFacts DEF RxData
  <2>8. rx' = [rx EXCEPT !.probe = Pass(@), !.returns = Pass(@),
                         !.silent = AtMost(@, RxDisconnect), !.searched = AtMost(@, RxReturn)]
    BY <1>1 DEF Tick
  <2>9. rx' \in RxData /\ InOrder(rx'.probe, RxDisconnect) /\ InOrder(rx'.returns, RxReturn)
    BY <2>1, <2>2, <2>4, <2>6, <2>7, <2>8 DEF RxData
  <2>10. initialDelay' = [n \in Node |-> Pass(initialDelay[n])] BY <1>1 DEF Tick
  <2>11. /\ DOMAIN initialDelay' = Node /\ initialDelay' = [m \in Node |-> initialDelay'[m]]
         /\ \A m \in Node : InOrder(initialDelay'[m], InitialDelay)
    BY <2>1, <2>10
  <2> QED BY <1>1, <2>5, <2>9, <2>11 DEF Tick, Typed, RxData
<1>2. ASSUME NEW n \in Node, InitialDelayExpires(n) PROVE Typed'
  <2>1. InOrder(Tail(initialDelay[n]), InitialDelay)
    BY <1>2, ConstantFacts, TailInOrder DEF InitialDelayExpires, Due, Typed
  <2>2. initialDelay' = [initialDelay EXCEPT ![n] = Tail(@)] BY <1>2 DEF InitialDelayExpires
  <2>3. /\ DOMAIN initialDelay' = Node /\ initialDelay' = [m \in Node |-> initialDelay'[m]]
        /\ \A m \in Node : InOrder(initialDelay'[m], InitialDelay)
    BY <2>1, <2>2 DEF Typed
  <2>4. state' \in [Node -> State] BY <1>2 DEF InitialDelayExpires, Typed, State
  <2> QED BY <1>2, <2>3, <2>4 DEF InitialDelayExpires, Typed
<1> QED BY <1>1, <1>2

\* The types are kept.
LEMMA TypesKept ==
  ASSUME NextChannelAssumption
  PROVE  Spec => []Typed
<1>1. Init => Typed
  <2> SUFFICES ASSUME Init PROVE Typed OBVIOUS
  <2>1. /\ state \in [Node -> State] /\ phy \in [Node -> PhyData]
        /\ scan \in [Node -> ScanData]
    BY ConstantFacts DEF Init, NextChannelAssumption, State, PhyData, ScanData
  <2>2. /\ InOrder(<<>>, InitialDelay) /\ InOrder(<<>>, TxDelay)
        /\ InOrder(<<>>, RxDisconnect) /\ InOrder(<<>>, RxReturn)
    BY ConstantFacts, FewInOrder
  <2>3. /\ <<>> \in Timers(TxDelay) /\ <<>> \in Timers(RxDisconnect)
        /\ <<>> \in Timers(RxReturn) /\ 0 \in 0 .. RxDisconnect /\ 0 \in 0 .. RxReturn
    BY <2>2, ConstantFacts DEF InOrder
  <2>4. tx \in [waiting : BOOLEAN, gotack : BOOLEAN, delays : Timers(TxDelay)]
    BY <2>3 DEF Init
  <2>5. rx \in RxData BY <2>3, ConstantFacts DEF Init, RxData
  <2> QED BY <2>1, <2>2, <2>4, <2>5 DEF Init, Typed, RxData
<1>2. Typed /\ [Next]_vars => Typed'
  <2> SUFFICES ASSUME Typed, [Next]_vars PROVE Typed' OBVIOUS
  <2>1. CASE UNCHANGED vars BY <2>1 DEF vars, Typed
  <2> QED
    BY <2>1, TypesOfScan, TypesOfSender, TypesOfReceiver, TypesOfTime
    DEF Next, Scanning, Timeout
<1> QED BY <1>1, <1>2, PTL DEF Spec

\* Every variable has its type: no timer runs below zero, whichever of them are
\* started at one instant.
THEOREM NextChannelTypes ==
  ASSUME NextChannelAssumption
  PROVE  Spec => []TypeOK
<1>1. Typed => TypeOK
  <2> SUFFICES ASSUME Typed PROVE TypeOK OBVIOUS
  <2>1. \A n \in Node : initialDelay[n] \in Timers(InitialDelay) BY DEF Typed, InOrder
  <2>2. initialDelay \in [Node -> Timers(InitialDelay)] BY <2>1 DEF Typed
  <2> QED BY <2>2 DEF Typed, TypeOK, State, ScanData, PhyData
<1> QED BY <1>1, TypesKept, PTL

-----------------------------------------------------------------------------
(* The initial scan of the sender. *)

\* The channels of which n has measured every one that may be switched to, and no
\* others: those up to the d-th after the first.
Passed(n, d) ==
  /\ scan[n].checked \subseteq {Around(j) : j \in 0 .. d - 1}
  /\ \A j \in 0 .. d - 1 : Around(j) \in Switchable => Around(j) \in scan[n].checked

\* The sender scans before it does anything else, and has covered all channels when
\* the delay after the scan starts.
FirstScan ==
  /\ scan[Tx].active =>
       /\ state[Tx] = "INIT" /\ initialDelay[Tx] = <<>> /\ tx.delays = <<>>
       /\ \E d \in 0 .. NumChannels - 1 : phy[Tx].tx = Around(d) /\ Passed(Tx, d)
  /\ ScanCovers(Tx)

(* The sender and the receiver where the initial channel is given. *)

\* One delay at most; an idle sender has none and, but for the first change, has
\* been acknowledged; a receiver that searches has a return to come.
Following ==
  /\ \A n \in Node : ~scan[n].active /\ initialDelay[n] = <<>>
  /\ state[Tx] \in {"N_IDLE", "TX_CHANGED"}
  /\ Len(tx.delays) = IF tx.waiting THEN 1 ELSE 0
  /\ state[Tx] = "N_IDLE" => ~tx.waiting /\ (tx.gotack \/ phy[Tx].tx = FirstChannel)
  /\ SearchIsTimed

-----------------------------------------------------------------------------
(* The scan. *)

\* A step of the scan leaves out no channel that may be switched to, and it meets one
\* it has checked only when it has been all around.
LEMMA ScanGoesAround ==
  ASSUME NextChannelAssumption, NEW n \in Node, NEW d \in 0 .. NumChannels - 1,
         phy[n].tx = Around(d), Passed(n, d)
  PROVE  LET new == NextChannelOf(phy[n].tx)
             checked == scan[n].checked \cup {phy[n].tx}
         IN /\ new \in checked => Switchable \subseteq checked
            /\ new \notin checked =>
                 \E e \in 0 .. NumChannels - 1 :
                   /\ new = Around(e)
                   /\ checked \subseteq {Around(j) : j \in 0 .. e - 1}
                   /\ \A j \in 0 .. e - 1 : Around(j) \in Switchable => Around(j) \in checked
<1> DEFINE new == NextChannelOf(phy[n].tx)
<1> DEFINE checked == scan[n].checked \cup {phy[n].tx}
<1>0. /\ NumChannels \in Nat /\ NumChannels > 0 /\ Switchable \subseteq Channel
      /\ Around(d) \in Channel
  <2>1. FirstChannel \in Nat /\ d \in Nat BY ConstantFacts DEF Channel
  <2>2. FirstChannel + d \in Nat BY <2>1
  <2> QED BY <2>2, ConstantFacts DEF Around
<1>1. PICK k \in 1 .. NumChannels :
        NextSwitchable(Around(d), k) /\ new = (Around(d) + k) % NumChannels
  BY <1>0, NextChannelFound
<1>2. /\ new = IF d + k < NumChannels THEN Around(d + k) ELSE Around(d + k - NumChannels)
      /\ new \in Switchable
  BY <1>1, GoingAround DEF NextSwitchable
<1>3. /\ checked \subseteq {Around(j) : j \in 0 .. d}
      /\ \A j \in 0 .. d : Around(j) \in Switchable => Around(j) \in checked
  <2>1. /\ \A j \in 0 .. d : j \in 0 .. d - 1 \/ j = d
        /\ \A j \in 0 .. d - 1 : j \in 0 .. d
        /\ d \in 0 .. d
    BY <1>0
  <2> QED BY <2>1 DEF Passed
<1> HIDE DEF new, checked
<1>4. \A j \in 0 .. NumChannels - 1 : j > d /\ j < d + k => Around(j) \notin Switchable
  <2> SUFFICES ASSUME NEW j \in 0 .. NumChannels - 1, j > d, j < d + k
               PROVE  Around(j) \notin Switchable
    OBVIOUS
  <2>1. /\ j - d \in 1 .. k - 1 /\ j - d \in 1 .. NumChannels
        /\ d + (j - d) = j /\ d + (j - d) < NumChannels
    BY <1>0
  <2>2. (Around(d) + (j - d)) % NumChannels = Around(j) BY <2>1, GoingAround
  <2> QED BY <1>1, <2>1, <2>2 DEF NextSwitchable
<1>5. CASE d + k < NumChannels
  <2>1. d + k \in 0 .. NumChannels - 1 /\ d \in 0 .. d + k - 1 BY <1>0, <1>5
  <2>2. new = Around(d + k) BY <1>2, <1>5
  <2>3. new \notin checked
    <3> SUFFICES ASSUME new \in checked PROVE FALSE OBVIOUS
    <3>1. PICK j \in 0 .. d : new = Around(j) BY <1>3
    <3>2. j \in 0 .. NumChannels - 1 /\ j # d + k BY <1>0, <2>1
    <3> QED BY <2>1, <2>2, <3>1, <3>2, GoingAround
  <2>4. checked \subseteq {Around(j) : j \in 0 .. d + k - 1}
    <3>1. \A j \in 0 .. d : j \in 0 .. d + k - 1 BY <1>0
    <3> QED BY <1>3, <3>1
  <2>5. \A j \in 0 .. d + k - 1 : Around(j) \in Switchable => Around(j) \in checked
    <3> TAKE j \in 0 .. d + k - 1
    <3>1. CASE j \in 0 .. d BY <1>3, <3>1
    <3>2. CASE j > d
      <4>1. j \in 0 .. NumChannels - 1 /\ j < d + k BY <1>0, <2>1
      <4> QED BY <1>4, <3>2, <4>1
    <3> QED BY <1>0, <3>1, <3>2
  <2> QED BY <2>1, <2>2, <2>3, <2>4, <2>5 DEF new, checked
<1>6. CASE ~(d + k < NumChannels)
  <2>1. new = Around(d + k - NumChannels) /\ d + k - NumChannels \in 0 .. d
    BY <1>0, <1>2, <1>6
  <2>2. new \in checked BY <1>2, <1>3, <2>1
  <2>3. \A c \in Switchable : c \in checked
    <3> TAKE c \in Switchable
    <3>1. PICK j \in 0 .. NumChannels - 1 : c = Around(j) BY <1>0, GoingAround
    <3>2. CASE j \in 0 .. d BY <1>3, <3>1, <3>2
    <3>3. CASE j > d
      <4>1. j < d + k BY <1>0, <1>6
      <4> QED BY <1>4, <3>1, <3>3, <4>1
    <3> QED BY <1>0, <3>2, <3>3
  <2> QED BY <2>2, <2>3 DEF new, checked
<1> QED BY <1>5, <1>6

\* The sender's own scan.
LEMMA FirstScanOfScan ==
  ASSUME NextChannelAssumption, Typed, FirstScan, ScanNext(Tx) \/ ScanCompleted(Tx)
  PROVE  FirstScan'
<1>0. /\ Tx \in Node /\ scan[Tx].active /\ state[Tx] = "INIT" /\ initialDelay[Tx] = <<>>
      /\ tx.delays = <<>> /\ scan[Tx] \in ScanData /\ DOMAIN scan = Node /\ DOMAIN phy = Node
  BY ConstantFacts DEF ScanNext, ScanCompleted, FirstScan, Typed
<1>1. PICK d \in 0 .. NumChannels - 1 : phy[Tx].tx = Around(d) /\ Passed(Tx, d)
  BY <1>0 DEF FirstScan
<1> DEFINE new == NextChannelOf(phy[Tx].tx)
<1> DEFINE checked == scan[Tx].checked \cup {phy[Tx].tx}
<1>2. /\ new \in checked => Switchable \subseteq checked
      /\ new \notin checked =>
           \E e \in 0 .. NumChannels - 1 :
             /\ new = Around(e)
             /\ checked \subseteq {Around(j) : j \in 0 .. e - 1}
             /\ \A j \in 0 .. e - 1 : Around(j) \in Switchable => Around(j) \in checked
  BY <1>0, <1>1, ScanGoesAround
<1>3. scan'[Tx].checked = checked
  <2> HIDE DEF checked
  <2>1. CASE ScanNext(Tx)
    <3>1. PICK level \in Levels :
            scan' = [scan EXCEPT ![Tx].checked = checked,
                       ![Tx].avg = [Measured(Tx, level) EXCEPT ![NextChannelOf(phy[Tx].tx)] = 0]]
      BY <2>1 DEF ScanNext, checked
    <3> QED BY <1>0, <3>1 DEF ScanData
  <2>2. CASE ScanCompleted(Tx)
    <3>1. PICK level \in Levels :
            scan' = [scan EXCEPT ![Tx].checked = checked,
                                 ![Tx].avg = Measured(Tx, level), ![Tx].active = FALSE]
      BY <2>2 DEF ScanCompleted, checked
    <3> QED BY <1>0, <3>1 DEF ScanData
  <2> QED BY <2>1, <2>2
<1>4. CASE ScanNext(Tx)
  <2>1. new \notin checked /\ phy'[Tx].tx = new
    BY <1>0, <1>4, RetunedType DEF ScanNext, Retuned
  <2>2. UNCHANGED <<state, initialDelay, tx>> BY <1>4 DEF ScanNext
  <2> HIDE DEF new, checked
  <2>3. \E e \in 0 .. NumChannels - 1 : phy'[Tx].tx = Around(e) /\ Passed(Tx, e)'
    BY <1>2, <1>3, <2>1 DEF Passed
  <2> QED BY <1>0, <2>2, <2>3 DEF FirstScan, ScanCovers
<1>5. CASE ScanCompleted(Tx)
  <2>1. new \in checked BY <1>5 DEF ScanCompleted
  <2>2. ~scan'[Tx].active BY <1>0, <1>5 DEF ScanCompleted, ScanData
  <2> QED BY <1>2, <1>3, <2>1, <2>2 DEF FirstScan, ScanCovers
<1> QED BY <1>4, <1>5

\* Nothing else touches the scan of the sender, or its radio before it is over.
LEMMA FirstScanOfOthers ==
  ASSUME NextChannelAssumption, Typed, FirstScan,
         \/ ScanNext(Rx) \/ ScanCompleted(Rx) \/ Timeout \/ NetworkLayerChanswitch
         \/ AckReceived \/ AckLost \/ DataReceived \/ Tick
  PROVE  FirstScan'
<1>0. /\ Tx \in Node /\ Rx \in Node /\ Tx # Rx
      /\ DOMAIN scan = Node /\ DOMAIN phy = Node /\ DOMAIN state = Node
      /\ DOMAIN initialDelay = Node
      /\ scan[Tx] \in ScanData /\ phy[Tx] \in PhyData
  BY ConstantFacts DEF Typed
<1>1. scan'[Tx] = scan[Tx]
  BY <1>0 DEF ScanNext, ScanCompleted, Timeout, InitialDelayExpires, TxDelayExpires, RxProbe,
              Search, SearchOn, Connected, ReturnPrevChannel, ReturnNotNeeded,
              NetworkLayerChanswitch, AckReceived, AckLost, DataReceived, Tick
<1>2. initialDelay[Tx] = <<>> => initialDelay'[Tx] = <<>>
  <2>1. CASE Tick
    BY <1>0, <2>1, ConstantFacts, PassInOrder DEF Tick, NothingDue, Typed
  <2>2. ASSUME NEW n \in Node, InitialDelayExpires(n) 
             PROVE  initialDelay[Tx] = <<>> => initialDelay'[Tx] = <<>>
    BY <1>0, <2>2 DEF InitialDelayExpires, Due
  <2>3. CASE ScanCompleted(Rx) BY <1>0, <2>3 DEF ScanCompleted
  <2>4. CASE \/ ScanNext(Rx) \/ TxDelayExpires \/ RxProbe \/ ReturnPrevChannel
             \/ ReturnNotNeeded \/ NetworkLayerChanswitch \/ AckReceived \/ AckLost
             \/ DataReceived
    BY <2>4 DEF ScanNext, TxDelayExpires, RxProbe, Search, SearchOn, Connected,
                ReturnPrevChannel, ReturnNotNeeded, NetworkLayerChanswitch, AckReceived,
                AckLost, DataReceived
  <2> QED BY <2>1, <2>2, <2>3, <2>4 DEF Timeout
<1>3. ScanCovers(Tx)' BY <1>1, <1>2 DEF FirstScan, ScanCovers
<1>4. ASSUME scan[Tx].active
      PROVE  state'[Tx] = "INIT" /\ tx'.delays = <<>> /\ phy'[Tx] = phy[Tx]
  <2>0. state[Tx] = "INIT" /\ initialDelay[Tx] = <<>> /\ tx.delays = <<>>
    BY <1>4 DEF FirstScan
  <2>1. CASE Tick
    <3>1. Pass(tx.delays) = <<>>
      BY <2>0, <2>1, ConstantFacts, PassInOrder DEF Tick, NothingDue, Typed
    <3> QED BY <2>0, <2>1, <3>1 DEF Tick, Typed
  <2>2. ASSUME NEW n \in Node, InitialDelayExpires(n) 
             PROVE  state'[Tx] = "INIT" /\ tx'.delays = <<>> /\ phy'[Tx] = phy[Tx]
    BY <1>0, <2>0, <2>2 DEF InitialDelayExpires, Due
  <2>3. CASE AckReceived
    BY <1>0, <2>0, <2>3 DEF AckReceived, Typed
  <2>4. CASE \/ ScanNext(Rx) \/ ScanCompleted(Rx) \/ RxProbe \/ ReturnPrevChannel
             \/ ReturnNotNeeded \/ AckLost \/ DataReceived
    BY <1>0, <2>0, <2>4
    DEF ScanNext, ScanCompleted, RxProbe, Search, SearchOn, Connected,
        ReturnPrevChannel, ReturnNotNeeded, AckLost, DataReceived
  <2>5. ~TxDelayExpires /\ ~NetworkLayerChanswitch
    BY <2>0 DEF TxDelayExpires, NetworkLayerChanswitch, Due
  <2> QED BY <2>1, <2>2, <2>3, <2>4, <2>5 DEF Timeout
<1>5. scan[Tx].active => \E d \in 0 .. NumChannels - 1 : phy'[Tx].tx = Around(d) /\ Passed(Tx, d)'
  BY <1>1, <1>4 DEF FirstScan, Passed
<1> QED BY <1>1, <1>2, <1>3, <1>4, <1>5 DEF FirstScan

\* The initial scan of the sender measures every switchable channel before its delay
\* starts, and nothing else moves its radio before it is over; from any first channel
\* and for any set of switchable ones.
THEOREM SenderScanCovers ==
  ASSUME NextChannelAssumption
  PROVE  Spec => []TxScanCovers
<1>1. Init => FirstScan
  <2> SUFFICES ASSUME Init PROVE FirstScan OBVIOUS
  <2>1. /\ scan[Tx] = [active |-> Initial, checked |-> {}, avg |-> [c \in Channel |-> 0]]
        /\ state[Tx] = IF Initial THEN "INIT" ELSE "N_IDLE"
        /\ phy[Tx].tx = FirstChannel /\ initialDelay[Tx] = <<>> /\ tx.delays = <<>>
    BY ConstantFacts DEF Init
  <2>2. 0 \in 0 .. NumChannels - 1 /\ (\A j \in 0 .. 0 - 1 : FALSE) BY ConstantFacts
  <2>3. phy[Tx].tx = Around(0) /\ Passed(Tx, 0) BY <2>1, <2>2, GoingAround DEF Passed
  <2> QED BY <2>1, <2>2, <2>3 DEF FirstScan, ScanCovers
<1>2. Typed /\ FirstScan /\ [Next]_vars => FirstScan'
  <2> SUFFICES ASSUME Typed, FirstScan, [Next]_vars PROVE FirstScan' OBVIOUS
  <2>1. CASE UNCHANGED vars BY <2>1 DEF vars, FirstScan, ScanCovers, Passed
  <2>2. Scanning => \/ ScanNext(Tx) \/ ScanCompleted(Tx) \/ ScanNext(Rx) \/ ScanCompleted(Rx)
    BY DEF Scanning, Node
  <2> QED BY <2>1, <2>2, FirstScanOfScan, FirstScanOfOthers DEF Next
<1>3. FirstScan => TxScanCovers BY DEF FirstScan, TxScanCovers
<1> QED BY <1>1, <1>2, <1>3, TypesKept, PTL DEF Spec

-----------------------------------------------------------------------------
(* Following, where the initial channel is given. *)

\* Nothing of the initial scan happens then.
LEMMA NoScan ==
  ASSUME Following, Scanning \/ \E n \in Node : InitialDelayExpires(n)
  PROVE  FALSE
BY DEF Following, Scanning, ScanNext, ScanCompleted, InitialDelayExpires, Due

\* The sender changes channels, waits, and is acknowledged.
LEMMA FollowingOfSender ==
  ASSUME NextChannelAssumption, Typed, Following,
         NetworkLayerChanswitch \/ TxDelayExpires \/ AckReceived \/ AckLost
  PROVE  Following' /\ SpacedStep
<1>0. /\ Tx \in Node /\ Rx \in Node /\ Tx # Rx /\ DOMAIN state = Node /\ DOMAIN phy = Node
      /\ InOrder(tx.delays, TxDelay) /\ tx.waiting \in BOOLEAN
      /\ tx \in [waiting : BOOLEAN, gotack : BOOLEAN, delays : Timers(TxDelay)]
  BY ConstantFacts DEF Typed
<1>1. /\ state'[Rx] = state[Rx] /\ phy'[Rx] = phy[Rx]
      /\ UNCHANGED <<scan, initialDelay, rx>>
  BY <1>0 DEF NetworkLayerChanswitch, TxDelayExpires, AckReceived, AckLost
<1>2. SearchIsTimed' /\ \A n \in Node : ~scan'[n].active /\ initialDelay'[n] = <<>>
  BY <1>1 DEF Following, SearchIsTimed
<1>3. Len(tx.delays) \in Nat /\ (Len(tx.delays) = 0 => tx.delays = <<>>)
  <2>1. tx.delays \in Seq(0 .. TxDelay) BY <1>0 DEF InOrder, Timers
  <2> QED BY <2>1
<1>4. CASE NetworkLayerChanswitch
  <2>1. /\ ~tx.waiting /\ (tx.gotack \/ phy[Tx].tx = FirstChannel) /\ Len(tx.delays) = 0
    BY <1>4 DEF Following, NetworkLayerChanswitch
  <2>2. Len(Start(tx.delays, TxDelay)) = 1
    <3>1. Len(Start(tx.delays, TxDelay)) = Len(tx.delays) + 1
      BY <1>0, ConstantFacts, StartInOrder
    <3> QED BY <2>1, <3>1
  <2>3. tx'.waiting /\ Len(tx'.delays) = 1 /\ state'[Tx] = "TX_CHANGED"
    BY <1>0, <1>4, <2>2 DEF NetworkLayerChanswitch
  <2> QED BY <1>2, <1>3, <2>1, <2>3 DEF Following, SpacedStep
<1>5. CASE TxDelayExpires
  <2>1. tx.delays # <<>> BY <1>5 DEF TxDelayExpires, Due
  <2>2. tx.waiting /\ Len(tx.delays) = 1
    BY <1>3, <2>1 DEF Following
  <2>3. Len(Tail(tx.delays)) = 0
    BY <1>0, <2>1, <2>2, ConstantFacts, TailInOrder
  <2>4. /\ ~tx'.waiting /\ Len(tx'.delays) = 0 /\ tx'.gotack = tx.gotack /\ phy' = phy
        /\ state'[Tx] = IF tx.gotack THEN "N_IDLE" ELSE state[Tx]
    BY <1>0, <1>5, <2>3 DEF TxDelayExpires
  <2> QED BY <1>2, <2>2, <2>4 DEF Following, SpacedStep
<1>6. CASE AckReceived
  <2>1. /\ tx'.gotack /\ tx'.waiting = tx.waiting /\ tx'.delays = tx.delays /\ phy' = phy
        /\ state'[Tx] = IF state[Tx] = "TX_CHANGED" /\ ~tx.waiting THEN "N_IDLE" ELSE state[Tx]
    BY <1>0, <1>6 DEF AckReceived
  <2> QED BY <1>2, <2>1 DEF Following, SpacedStep
<1>7. CASE AckLost
  <2>1. UNCHANGED <<state, phy, scan, initialDelay, tx, rx>> BY <1>7 DEF AckLost
  <2> QED BY <1>2, <2>1 DEF Following, SpacedStep
<1> QED BY <1>4, <1>5, <1>6, <1>7

\* The receiver searches, and goes back.
LEMMA FollowingOfReceiver ==
  ASSUME NextChannelAssumption, Typed, Following,
         DataReceived \/ RxProbe \/ ReturnPrevChannel \/ ReturnNotNeeded
  PROVE  Following' /\ SpacedStep
<1>0. /\ Tx \in Node /\ Rx \in Node /\ Tx # Rx /\ DOMAIN state = Node /\ DOMAIN phy = Node
      /\ InOrder(rx.returns, RxReturn) /\ rx \in RxData
  BY ConstantFacts DEF Typed, RxData
<1>1. /\ state'[Tx] = state[Tx] /\ phy'[Tx] = phy[Tx]
      /\ UNCHANGED <<scan, initialDelay, tx>>
  BY <1>0 DEF DataReceived, RxProbe, Search, SearchOn, Connected, ReturnPrevChannel,
              ReturnNotNeeded
<1>2. SearchIsTimed => SearchIsTimed'
  <2> SUFFICES ASSUME SearchIsTimed, state'[Rx] = "RX_SEARCHING"
               PROVE  rx'.returns # <<>> /\ phy'[Rx].tx = NextChannelOf(rx'.prev)
    BY DEF SearchIsTimed
  <2>1. CASE Search
    <3>1. rx'.returns = Start(rx.returns, RxReturn) /\ rx'.prev = phy[Rx].tx
      BY <1>0, <2>1 DEF Search, RxData
    <3>2. phy'[Rx].tx = NextChannelOf(phy[Rx].tx)
      BY <1>0, <2>1, RetunedType DEF Search
    <3>3. Start(rx.returns, RxReturn) # <<>> BY <1>0, ConstantFacts, StartInOrder
    <3> QED BY <3>1, <3>2, <3>3
  <2>2. CASE SearchOn \/ DataReceived
    <3>1. /\ rx'.returns = rx.returns /\ rx'.prev = rx.prev
          /\ UNCHANGED <<state, phy>>
      BY <1>0, <2>2 DEF SearchOn, DataReceived, RxData
    <3> QED BY <3>1 DEF SearchIsTimed
  <2>3. ~Connected /\ ~ReturnPrevChannel /\ ~ReturnNotNeeded
    BY <1>0 DEF Connected, ReturnPrevChannel, ReturnNotNeeded
  <2> QED BY <2>1, <2>2, <2>3 DEF RxProbe
<1> QED BY <1>1, <1>2 DEF Following, SpacedStep

\* Time passes.
LEMMA FollowingOfTick ==
  ASSUME NextChannelAssumption, Typed, Following, Tick
  PROVE  Following' /\ SpacedStep
<1>1. /\ \A n \in Node : Pass(initialDelay[n]) = <<>> <=> initialDelay[n] = <<>>
      /\ Len(Pass(tx.delays)) = Len(tx.delays)
      /\ Pass(rx.returns) = <<>> <=> rx.returns = <<>>
  BY ConstantFacts, PassInOrder DEF Tick, NothingDue, Typed
<1>2. /\ tx'.waiting = tx.waiting /\ tx'.gotack = tx.gotack /\ tx'.delays = Pass(tx.delays)
      /\ rx'.prev = rx.prev /\ rx'.returns = Pass(rx.returns)
      /\ \A n \in Node : initialDelay'[n] = Pass(initialDelay[n])
      /\ UNCHANGED <<state, phy, scan, ackDue>>
  BY DEF Tick, Typed
<1>3. SearchIsTimed => SearchIsTimed' BY <1>1, <1>2 DEF SearchIsTimed
<1> QED BY <1>1, <1>2, <1>3 DEF Following, SpacedStep

\* The delays of the sender and the search of the receiver.
LEMMA FollowingKept ==
  ASSUME NextChannelAssumption, ~Initial
  PROVE  Spec => [](Typed /\ Following) /\ [][SpacedStep]_vars
<1>1. Init => Following
  <2> SUFFICES ASSUME Init PROVE Following OBVIOUS
  <2>1. /\ \A n \in Node : ~scan[n].active /\ initialDelay[n] = <<>> /\ state[n] = "N_IDLE"
        /\ tx = [waiting |-> FALSE, gotack |-> FALSE, delays |-> <<>>]
        /\ phy[Tx].tx = FirstChannel
    BY ConstantFacts DEF Init
  <2>2. ~tx.waiting /\ tx.delays = <<>> /\ Len(tx.delays) = 0
    BY <2>1, ConstantFacts, FewInOrder
  <2>3. state[Tx] = "N_IDLE" /\ state[Rx] = "N_IDLE" BY <2>1, ConstantFacts
  <2> QED BY <2>1, <2>2, <2>3 DEF Following, SearchIsTimed
<1>2. Typed /\ Following /\ [Next]_vars => Following' /\ [SpacedStep]_vars
  <2> SUFFICES ASSUME Typed, Following, [Next]_vars
               PROVE  Following' /\ [SpacedStep]_vars
    OBVIOUS
  <2>1. CASE UNCHANGED vars BY <2>1 DEF vars, Following, SearchIsTimed
  <2> QED
    BY <2>1, NoScan, FollowingOfSender, FollowingOfReceiver, FollowingOfTick DEF Next, Timeout
<1> QED BY <1>1, <1>2, TypesKept, PTL DEF Spec

\* The sender waits exactly while the delay that its last change started is running:
\* no timer of an earlier change ends the wait of a later one.
THEOREM SenderWaitIsTimed ==
  ASSUME NextChannelAssumption, ~Initial
  PROVE  Spec => []WaitIsTimed
<1>1. Typed /\ Following => WaitIsTimed
  <2> SUFFICES ASSUME Typed, Following PROVE WaitIsTimed OBVIOUS
  <2>1. tx.delays \in Seq(0 .. TxDelay) BY DEF Typed, InOrder, Timers
  <2>2. Len(tx.delays) = 0 <=> tx.delays = <<>> BY <2>1
  <2> QED BY <2>2 DEF Following, WaitIsTimed, Typed
<1> QED BY <1>1, FollowingKept, PTL

\* The sender changes channels once per delay at most, and not before the receiver has
\* acknowledged something since the last change.
THEOREM SenderChangesAreSpaced ==
  ASSUME NextChannelAssumption, ~Initial
  PROVE  Spec => ChangesAreSpaced
BY FollowingKept, PTL DEF ChangesAreSpaced

\* A receiver that searches is one channel past the one it remembers, with a timer
\* running that takes it back.
THEOREM ReceiverSearchIsTimed ==
  ASSUME NextChannelAssumption, ~Initial
  PROVE  Spec => []SearchIsTimed
<1>1. Following => SearchIsTimed BY DEF Following
<1> QED BY <1>1, FollowingKept, PTL
=============================================================================
