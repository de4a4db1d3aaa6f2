------------------------------ MODULE LinkProof ------------------------------
(***************************************************************************)
(* Theorems about the link layer.  Of Dot11Dcf, for any stations, any      *)
(* relation of who hears whom, any traffic, losses and retry limits: packets *)
(* are handed up once and in order, none is given up before its limit, and *)
(* no station is ever left without the timer or the event that takes it on. *)
(* Of MeshPeering, for any capacities and losses: a link meets no event that *)
(* its state calls invalid, never waits without a timer, and its two ends    *)
(* mean the same link once both took it as established.  Of MeshPortal,    *)
(* for any topology: the next hops towards a portal never form a circle, and *)
(* an announcement that has life left is brought to every neighbour.  Of   *)
(* MeshData, for any mesh, paths and traffic: nobody is handed a packet    *)
(* twice, or one that is not for him.                                      *)
(***************************************************************************)
EXTENDS Dot11Dcf, FiniteSets, FiniteSetTheorems, SequenceTheorems, NaturalsInduction, WellFoundedInduction, TLAPS

(* The data of a station. *)

\* The constants.
LEMMA DcfFacts ==
  ASSUME DcfAssumption
  PROVE  /\ NoFrame \notin Station /\ NoFrame \notin Frame
         /\ \A n \in Station : Dest[n] \in Station
         /\ UseRts \in BOOLEAN /\ ShortRetryLimit \in Nat /\ ShortRetryLimit > 0
         /\ LongRetryLimit \in Nat /\ LongRetryLimit > 0
         /\ SeqMod \in Nat /\ SeqMod > 1
         /\ \A a \in 0 .. SeqMod - 1 :
              (a + 1) % SeqMod \in 0 .. SeqMod - 1 /\ (a + 1) % SeqMod # a
<1>1. SeqMod \in Nat /\ SeqMod > 1 BY DEF DcfAssumption
<1>2. ASSUME NEW a \in 0 .. SeqMod - 1
      PROVE  (a + 1) % SeqMod \in 0 .. SeqMod - 1 /\ (a + 1) % SeqMod # a
  <2>1. CASE a + 1 < SeqMod
    <3>1. (a + 1) % SeqMod = a + 1 BY <1>1, <2>1
    <3> QED BY <1>1, <2>1, <3>1
  <2>2. CASE a + 1 = SeqMod
    <3>1. (a + 1) % SeqMod = 0 BY <1>1, <2>2
    <3> QED BY <1>1, <2>2, <3>1
  <2> QED BY <1>1, <2>1, <2>2
<1> QED BY <1>1, <1>2 DEF DcfAssumption

\* What holds of a station's own data s, whatever it does next: it has taken no more
\* than the o packets offered to it, and the counter of short retries has not run
\* ahead of the attempts at the packet.
Packet(o, s) ==
  /\ s.id <= o
  /\ ~UseRts => IF s.has THEN s.ssrc <= s.lost ELSE s.ssrc = 0

\* ... with the state it is in: who contends, sends a packet or waits for its answer
\* has a packet, and who waits has a timer.
Held(o, s) ==
  /\ Packet(o, s)
  /\ s.timer <=> s.state \in WaitStates \cup DeferStates
  /\ s.state \in DeferStates \cup {"X_RTS", "X_UNICAST", "WFCTS", "WFACK"} => s.has
  /\ ~UseRts => s.state \notin {"X_RTS", "WFCTS"}
  /\ s.state \notin SendStates => s.out = NoFrame

\* A frame of station n; a data frame carries the packet it has in hand.
FrameOf(n, s, f) ==
  /\ f \in Frame /\ f.from = n
  /\ f.type = "DATA" => s.state = "X_UNICAST" /\ f = DataFrame(n, s)
  /\ f.type = "RTS" => s.state = "X_RTS"

\* Who sends has one frame, at its PHY or on the air (x is what it has on the air).
OneFrame(n, s, x) ==
  IF s.state \in SendStates
  THEN \/ FrameOf(n, s, s.out) /\ x = NoFrame
       \/ FrameOf(n, s, x) /\ s.out = NoFrame
  ELSE x = NoFrame

\* Who counts down does so on an idle medium; who is idle on an idle medium has no
\* packet.  (s is the station's data, p the status of its PHY.)
Ready(o, s, p) ==
  /\ s.state \in DeferStates => p = "IDLE"
  /\ s.state = "IDLE" /\ p = "IDLE" => ~s.has /\ o = s.id

\* A station with its PHY and what it has on the air: nobody receives while it sends.
Sound(n, o, s, p, x, r) ==
  /\ Held(o, s) /\ OneFrame(n, s, x) /\ Ready(o, s, p)
  /\ s.state \in SendStates => r.from = NoFrame

\* What has been handed up from station m by station n: in order, none later than m's
\* packet, and that one only if n expects the next sequence number already.
HandedUpFrom(n, m) ==
  /\ \A i, j \in 1 .. Len(got[n][m]) : i < j => got[n][m][i] < got[n][m][j]
  /\ \A i \in 1 .. Len(got[n][m]) :
       /\ got[n][m][i] <= sta[m].id
       /\ sta[m].has /\ sta[n].fromSeq[m] = sta[m].toSeq => got[n][m][i] < sta[m].id

\* No packet in hand has been acknowledged.
NotAcked(n) == \A i \in acked[n] : i <= sta[n].id /\ (sta[n].has => i < sta[n].id)

Exchange ==
  \A n \in Station :
    /\ Sound(n, offered[n], sta[n], Phy(n), air[n], rx[n])
    /\ HandedUpFrom(Dest[n], n) /\ NotAcked(n)
    /\ \A m \in Station : n # Dest[m] => got[n][m] = <<>>

\* Whom a response comes to waits for it: one that is due comes before any frame that
\* station may have begun to receive, and none on the air is overtaken.
Response(f) == f.type \in {"CTS", "ACK"}
Expected(s, f) ==
  /\ f.type = "CTS" => s.state = "WFCTS"
  /\ f.type = "ACK" => s.state = "WFACK"
DueInTime(m, n) ==
  LET f == sta[m].out IN
  f # NoFrame /\ f.to = n /\ Response(f) =>
    /\ Expected(sta[n], f)
    /\ rx[n].from # NoFrame => m \in sta[rx[n].from].after
OnTheAir(m, n) ==
  rx[n].from = m => air[m] # NoFrame /\ (air[m].to = n => Expected(sta[n], air[m]))
Awaited == \A m, n \in Station : DueInTime(m, n) /\ OnTheAir(m, n)

\* How a station's data goes from s to t: packets are taken in order, and the sequence
\* number of a packet stays until it is done with; and that the one in hand stays.
Progress(s, t) ==
  \/ t.id = s.id /\ (t.has => s.has /\ t.toSeq = s.toSeq)
  \/ t.id > s.id
Keeps(s, t) == s.has => t.has /\ t.id = s.id /\ t.toSeq = s.toSeq

\* What every step of the countdown gives: no frame, no change of what was received.
Rests(o, s, t, p) ==
  /\ t \in MacData /\ Held(o, t) /\ t.state \notin SendStates
  /\ t.fromSeq = s.fromSeq /\ Progress(s, t) /\ Ready(o, t, p)

\* What leads to a frame: the packet in hand stays.
SendsOut(n, o, s, t) ==
  /\ t \in MacData /\ Held(o, t) /\ t.state \in SendStates
  /\ FrameOf(n, t, t.out) /\ Progress(s, t) /\ Keeps(s, t)

\* The data of s but for what only the timing and the back-off depend on.
Same(s, t) ==
  /\ t \in MacData
  /\ t.state = s.state /\ t.timer = s.timer /\ t.ssrc = s.ssrc /\ t.lost = s.lost
  /\ t.has = s.has /\ t.id = s.id /\ t.toSeq = s.toSeq /\ t.fromSeq = s.fromSeq
  /\ t.out = s.out

-----------------------------------------------------------------------------
(* The steps of one station. *)

\* The states are different.
LEMMA States ==
  /\ SendStates \cap (WaitStates \cup DeferStates \cup {"IDLE"}) = {}
  /\ WaitStates \cap (DeferStates \cup {"IDLE"}) = {}
  /\ "IDLE" \notin DeferStates
BY DEF SendStates, WaitStates, DeferStates

\* Progress is made step by step.
LEMMA ProgressOn ==
  ASSUME NEW s \in MacData, NEW t \in MacData, NEW u \in MacData,
         Progress(s, t), Progress(t, u)
  PROVE  Progress(s, u)
<1>1. s.id \in Int /\ t.id \in Int /\ u.id \in Int BY DEF MacData, Id
<1> QED BY <1>1 DEF Progress

\* To count down, or to stay idle on a busy medium.
LEMMA AttemptRests ==
  ASSUME NEW o, NEW s \in MacData, NEW p, Packet(o, s), s.has, s.out = NoFrame
  PROVE  LET t == AttemptToGoIntoWaitForDifsOrEifs(s, p) IN
         Rests(o, s, t, p) /\ Keeps(s, t)
<1> DEFINE t == AttemptToGoIntoWaitForDifsOrEifs(s, p)
<1>1. /\ t \in MacData /\ t.id = s.id /\ t.has = s.has /\ t.toSeq = s.toSeq
      /\ t.fromSeq = s.fromSeq /\ t.out = s.out /\ t.ssrc = s.ssrc /\ t.lost = s.lost
      /\ \/ p # "IDLE" /\ t.state = "IDLE" /\ ~t.timer
         \/ p = "IDLE" /\ t.state \in {"WFNAV", "WF_DIFS"} /\ t.timer
  BY DEF AttemptToGoIntoWaitForDifsOrEifs, StartTimer, GoIdle, MacData, SendStates,
         WaitStates, DeferStates
<1> HIDE DEF t
<1>2. Held(o, t) BY <1>1 DEF Held, Packet, SendStates, WaitStates, DeferStates
<1>3. Ready(o, t, p) BY <1>1 DEF Ready, DeferStates
<1> QED BY <1>1, <1>2, <1>3 DEF Rests, Progress, Keeps, SendStates, t

\* The next packet is looked for by a station that has become idle.
LEMMA CheckRests ==
  ASSUME NEW n \in Station, NEW s \in MacData, NEW p, NEW backoff \in BOOLEAN,
         offered[n] \in Nat, Packet(offered[n], s), s.state = "IDLE", ~s.timer,
         s.out = NoFrame
  PROVE  LET t == CheckForOutgoingPacket(n, s, p, backoff) IN
         Rests(offered[n], s, t, p) /\ Keeps(s, t)
<1> DEFINE f == Fetch(n, s)
           t == CheckForOutgoingPacket(n, s, p, backoff)
<1>1. s.id \in Nat /\ s.id + 1 \in Nat /\ s.id + 1 > s.id BY DEF MacData, Id
<1>2. /\ f \in MacData /\ f.out = NoFrame /\ f.state = "IDLE" /\ ~f.timer
      /\ f.fromSeq = s.fromSeq /\ f.ssrc = s.ssrc /\ f.toSeq = s.toSeq
      /\ \/ f.has = s.has /\ f.id = s.id /\ f.lost = s.lost
            /\ (~s.has => ~(offered[n] > s.id))
         \/ ~s.has /\ offered[n] > s.id /\ f.has /\ f.id = s.id + 1 /\ f.lost = 0
  BY <1>1 DEF Fetch, MacData, Id
<1>3. Packet(offered[n], f) BY <1>1, <1>2 DEF Packet
<1>4. Progress(s, f) /\ Keeps(s, f) BY <1>1, <1>2 DEF Progress, Keeps
<1> HIDE DEF f
<1>5. CASE f.has
  <2> DEFINE b == [f EXCEPT !.backoff = TRUE]
  <2>1. /\ b \in MacData /\ b.out = NoFrame /\ b.has /\ Packet(offered[n], b)
        /\ b.fromSeq = f.fromSeq /\ b.id = f.id /\ b.toSeq = f.toSeq
    BY <1>2, <1>3, <1>5 DEF MacData, Packet
  <2>2. t = AttemptToGoIntoWaitForDifsOrEifs(b, p)
    BY <1>5 DEF CheckForOutgoingPacket, f
  <2> HIDE DEF b, t
  <2>3. Rests(offered[n], b, t, p) /\ Keeps(b, t) BY <2>1, <2>2, AttemptRests
  <2>4. Progress(f, t) /\ t \in MacData
    BY <2>1, <2>3, <1>5 DEF Rests, Progress
  <2>5. Progress(s, t) BY <2>4, <1>2, <1>4, ProgressOn
  <2>6. Keeps(s, t) BY <1>4, <2>1, <2>3 DEF Keeps
  <2> QED BY <1>2, <2>1, <2>3, <2>5, <2>6 DEF Rests, t
<1>6. CASE ~f.has
  <2>1. t = [f EXCEPT !.backoff = @ \/ backoff]
    BY <1>6 DEF CheckForOutgoingPacket, f
  <2>2. /\ t \in MacData /\ t.out = NoFrame /\ t.state = "IDLE" /\ ~t.timer /\ ~t.has
        /\ t.id = f.id /\ t.ssrc = f.ssrc /\ t.fromSeq = f.fromSeq
    BY <2>1, <1>2, <1>6 DEF MacData
  <2> HIDE DEF t
  <2>3. t.id = s.id /\ ~s.has /\ ~(offered[n] > s.id) BY <1>2, <1>6, <2>2
  <2>4. Held(offered[n], t)
    BY <1>2, <1>3, <1>6, <2>2 DEF Held, Packet, SendStates, WaitStates, DeferStates
  <2>5. offered[n] = t.id BY <1>1, <2>3 DEF Packet
  <2>6. Ready(offered[n], t, p) BY <2>2, <2>5 DEF Ready, DeferStates
  <2> QED BY <1>2, <2>2, <2>3, <2>4, <2>6 DEF Rests, Progress, Keeps, SendStates, t
<1> QED BY <1>5, <1>6

\* A station on which the medium falls idle.
LEMMA IdleRests ==
  ASSUME NEW n \in Station, NEW s \in MacData, offered[n] \in Nat,
         Held(offered[n], s), s.state \notin SendStates
  PROVE  LET t == PhyStatusIsNowIdle(n, s) IN
         Rests(offered[n], s, t, "IDLE") /\ Keeps(s, t)
<1> DEFINE t == PhyStatusIsNowIdle(n, s)
<1>1. CASE s.state # "IDLE"
  <2>1. t = s BY <1>1 DEF PhyStatusIsNowIdle
  <2>2. Ready(offered[n], s, "IDLE") BY <1>1 DEF Ready
  <2> QED BY <2>1, <2>2 DEF Rests, Progress, Keeps
<1>2. CASE s.state = "IDLE"
  <2>1. s.out = NoFrame /\ ~s.timer /\ Packet(offered[n], s)
    BY <1>2 DEF Held, SendStates, WaitStates, DeferStates
  <2>2. CASE s.has
    <3>1. t = AttemptToGoIntoWaitForDifsOrEifs(s, "IDLE")
      BY <1>2, <2>2 DEF PhyStatusIsNowIdle
    <3> QED BY <2>1, <2>2, <3>1, AttemptRests
  <2>3. CASE ~s.has
    <3>1. t = CheckForOutgoingPacket(n, s, "IDLE", FALSE)
      BY <1>2, <2>3 DEF PhyStatusIsNowIdle
    <3> QED BY <1>2, <2>1, <3>1, CheckRests
  <2> QED BY <2>2, <2>3
<1> QED BY <1>1, <1>2

\* A station on which the medium falls busy stops counting down.
LEMMA BusyRests ==
  ASSUME NEW o, NEW s \in MacData, Held(o, s)
  PROVE  LET t == [ChannelHasBecomeBusy(s) EXCEPT !.eifs = TRUE] IN
         /\ t \in MacData /\ Held(o, t) /\ t.state \notin DeferStates
         /\ t.fromSeq = s.fromSeq /\ t.id = s.id /\ t.has = s.has /\ t.toSeq = s.toSeq
         /\ t.out = s.out /\ (s.state \in SendStates => t.state = s.state)
         /\ (t.state \in SendStates => t.state = s.state)
         /\ s.state \in {"WFCTS", "WFACK"} => t.state = s.state
<1> DEFINE c == ChannelHasBecomeBusy(s)
           t == [c EXCEPT !.eifs = TRUE]
<1>1. /\ c \in MacData /\ c.id = s.id /\ c.has = s.has /\ c.toSeq = s.toSeq
      /\ c.fromSeq = s.fromSeq /\ c.out = s.out /\ c.ssrc = s.ssrc /\ c.lost = s.lost
      /\ \/ s.state \in DeferStates \cup {"WFDATA"} /\ c.state = "IDLE" /\ ~c.timer
         \/ s.state \notin DeferStates \cup {"WFDATA"} /\ c.state = s.state
            /\ c.timer = s.timer
  BY DEF ChannelHasBecomeBusy, GoIdle, MacData
<1> HIDE DEF c
<1>2. /\ t \in MacData /\ t.id = c.id /\ t.has = c.has /\ t.toSeq = c.toSeq
      /\ t.fromSeq = c.fromSeq /\ t.out = c.out /\ t.ssrc = c.ssrc /\ t.lost = c.lost
      /\ t.state = c.state /\ t.timer = c.timer
  BY <1>1 DEF MacData
<1> HIDE DEF t
<1>3. Held(o, t)
  BY <1>1, <1>2 DEF Held, Packet, SendStates, WaitStates, DeferStates
<1> QED BY <1>1, <1>2, <1>3 DEF SendStates, WaitStates, DeferStates, t, c

\* The end of an own transmission.
LEMMA FinishedRests ==
  ASSUME NEW n \in Station, NEW s \in MacData, NEW p, offered[n] \in Nat,
         Held(offered[n], s), s.state \in SendStates, s.out = NoFrame
  PROVE  LET t == TransmissionHasFinished(n, s, p) IN
         Rests(offered[n], s, t, p) /\ Keeps(s, t)
<1> DEFINE t == TransmissionHasFinished(n, s, p)
<1>1. CASE s.state = "X_ACK"
  <2> DEFINE g == GoIdle(s)
  <2>1. /\ g \in MacData /\ g.state = "IDLE" /\ ~g.timer /\ g.out = NoFrame
        /\ g.id = s.id /\ g.has = s.has /\ g.toSeq = s.toSeq /\ g.fromSeq = s.fromSeq
        /\ g.ssrc = s.ssrc /\ g.lost = s.lost
    BY <1>1 DEF GoIdle, MacData
  <2> HIDE DEF g
  <2>2. Packet(offered[n], g) BY <2>1 DEF Held, Packet
  <2>3. t = CheckForOutgoingPacket(n, g, p, FALSE)
    BY <1>1 DEF TransmissionHasFinished, g
  <2>4. Rests(offered[n], g, t, p) /\ Keeps(g, t) BY <2>1, <2>2, <2>3, CheckRests
  <2> QED BY <2>1, <2>4 DEF Rests, Progress, Keeps
<1>2. CASE s.state # "X_ACK"
  <2>1. \/ s.state = "X_RTS" /\ t = StartTimer(s, "WFCTS")
        \/ s.state = "X_CTS" /\ t = StartTimer(s, "WFDATA")
        \/ s.state = "X_UNICAST" /\ t = StartTimer(s, "WFACK")
    BY <1>2 DEF TransmissionHasFinished, SendStates
  <2>2. /\ t \in MacData /\ t.id = s.id /\ t.has = s.has /\ t.toSeq = s.toSeq
        /\ t.fromSeq = s.fromSeq /\ t.out = s.out /\ t.ssrc = s.ssrc /\ t.lost = s.lost
        /\ t.timer
        /\ \/ s.state = "X_RTS" /\ t.state = "WFCTS"
           \/ s.state = "X_CTS" /\ t.state = "WFDATA"
           \/ s.state = "X_UNICAST" /\ t.state = "WFACK"
    BY <2>1 DEF StartTimer, MacData, WaitStates
  <2> HIDE DEF t
  <2>3. Held(offered[n], t)
    BY <2>2 DEF Held, Packet, SendStates, WaitStates, DeferStates
  <2>4. Ready(offered[n], t, p) BY <2>2 DEF Ready, DeferStates
  <2> QED BY <2>2, <2>3, <2>4 DEF Rests, Progress, Keeps, SendStates, t
<1> QED BY <1>1, <1>2

\* The countdown is over.
LEMMA FrameSends ==
  ASSUME DcfAssumption, NEW n \in Station, NEW o, NEW s \in MacData, Packet(o, s), s.has
  PROVE  LET t == TransmitFrame(n, s) IN
         SendsOut(n, o, s, t) /\ t.fromSeq = s.fromSeq /\ ~Response(t.out)
<1> DEFINE t == TransmitFrame(n, s)
           f == IF UseRts THEN Control("RTS", n, Dest[n]) ELSE DataFrame(n, s)
<1>1. Dest[n] \in Station /\ SeqMod \in Nat /\ SeqMod > 1 /\ s.toSeq \in 0 .. SeqMod - 1
      /\ s.id \in Id
  BY DcfFacts DEF MacData
<1>2. f \in Frame /\ f.from = n /\ f.type = (IF UseRts THEN "RTS" ELSE "DATA")
  BY <1>1 DEF Frame, Control, DataFrame, Id
<1>3. /\ t \in MacData /\ t.id = s.id /\ t.has = s.has /\ t.toSeq = s.toSeq
      /\ t.fromSeq = s.fromSeq /\ t.out = f /\ t.ssrc = s.ssrc /\ t.lost = s.lost
      /\ ~t.timer /\ t.state = (IF UseRts THEN "X_RTS" ELSE "X_UNICAST")
  BY <1>2 DEF TransmitFrame, Transmit, MacData, SendStates, f
<1>4. DataFrame(n, s) = DataFrame(n, t) BY <1>3 DEF DataFrame
<1> HIDE DEF t
<1>5. FrameOf(n, t, t.out) BY <1>2, <1>3, <1>4 DEF FrameOf, f
<1>6. Held(o, t) BY <1>3 DEF Held, Packet, SendStates, WaitStates, DeferStates
<1> QED BY <1>2, <1>3, <1>5, <1>6 DEF SendsOut, Progress, Keeps, SendStates, Response, t

\* No answer came: the packet is tried again or given up.
LEMMA RetransmitRests ==
  ASSUME DcfAssumption, NEW n \in Station, NEW s \in MacData, NEW p, offered[n] \in Nat,
         s.has, s.state \in {"WFCTS", "WFACK"}, s.out = NoFrame, s.id <= offered[n],
         ~UseRts => s.ssrc + 1 <= s.lost
  PROVE  LET t == Retransmit(n, s, p) IN
         /\ Rests(offered[n], s, t, p)
         /\ s.state = "WFACK" /\ ~UseRts /\ ~(t.has /\ t.id = s.id) =>
              s.ssrc + 1 >= ShortRetryLimit
<1> DEFINE t == Retransmit(n, s, p)
           short == s.state = "WFCTS" \/ ~UseRts
           tried == IF short THEN [s EXCEPT !.ssrc = @ + 1] ELSE [s EXCEPT !.slrc = @ + 1]
           retry == IF short THEN tried.ssrc < ShortRetryLimit
                    ELSE tried.slrc < LongRetryLimit
           reset == IF short THEN [tried EXCEPT !.ssrc = 0] ELSE [tried EXCEPT !.slrc = 0]
           b == [tried EXCEPT !.backoff = TRUE]
           d == Done(reset)
<1>1. /\ ShortRetryLimit \in Nat /\ ShortRetryLimit > 0
      /\ LongRetryLimit \in Nat /\ LongRetryLimit > 0
      /\ s.ssrc \in 0 .. ShortRetryLimit - 1 /\ s.slrc \in 0 .. LongRetryLimit - 1
      /\ UseRts \in BOOLEAN
  BY DcfFacts DEF MacData
<1>2. t = IF retry THEN AttemptToGoIntoWaitForDifsOrEifs(b, p)
          ELSE CheckForOutgoingPacket(n, d, p, TRUE)
  BY DEF Retransmit
<1> HIDE DEF t
<1>3. CASE retry
  <2>1. tried.ssrc \in 0 .. ShortRetryLimit - 1 /\ tried.slrc \in 0 .. LongRetryLimit - 1
    BY <1>1, <1>3 DEF MacData
  <2>2. /\ b \in MacData /\ b.id = s.id /\ b.has = s.has /\ b.toSeq = s.toSeq
        /\ b.fromSeq = s.fromSeq /\ b.out = s.out /\ b.lost = s.lost
        /\ (~UseRts => b.ssrc = s.ssrc + 1)
    BY <1>1, <2>1 DEF MacData
  <2>3. t = AttemptToGoIntoWaitForDifsOrEifs(b, p) BY <1>2, <1>3
  <2> HIDE DEF b, tried, reset, retry, d
  <2>4. Packet(offered[n], b) BY <2>2 DEF Packet
  <2>5. Rests(offered[n], b, t, p) /\ Keeps(b, t) BY <2>2, <2>3, <2>4, AttemptRests
  <2> QED BY <2>2, <2>5 DEF Rests, Progress, Keeps, t
<1>4. CASE ~retry
  <2>1. s.state = "WFACK" /\ ~UseRts => s.ssrc + 1 >= ShortRetryLimit
    BY <1>1, <1>4 DEF MacData
  <2>2. /\ d \in MacData /\ d.id = s.id /\ ~d.has /\ d.state = "IDLE" /\ ~d.timer
        /\ d.fromSeq = s.fromSeq /\ d.out = s.out /\ (~UseRts => d.ssrc = 0)
    <3>1. /\ reset.ssrc \in 0 .. ShortRetryLimit - 1
          /\ reset.slrc \in 0 .. LongRetryLimit - 1 /\ (~UseRts => reset.ssrc = 0)
      BY <1>1 DEF MacData
    <3>2. reset = [s EXCEPT !.ssrc = reset.ssrc, !.slrc = reset.slrc]
      BY <1>1 DEF MacData
    <3> HIDE DEF reset
    <3> QED BY <3>1, <3>2 DEF MacData, Done, GoIdle
  <2>3. t = CheckForOutgoingPacket(n, d, p, TRUE) BY <1>2, <1>4
  <2> HIDE DEF b, tried, reset, retry, d
  <2>4. Packet(offered[n], d) BY <2>2 DEF Packet
  <2>5. Rests(offered[n], d, t, p) BY <2>2, <2>3, <2>4, CheckRests
  <2>6. Progress(s, t) BY <2>2, <2>5 DEF Rests, Progress
  <2> QED BY <2>1, <2>2, <2>5, <2>6 DEF Rests, t
<1> QED BY <1>3, <1>4

-----------------------------------------------------------------------------
(* The frames a station receives: it neither sends nor counts down. *)

\* What the answer to a frame leaves: a frame of its own or a station at rest, but that
\* the medium may be idle again and nothing has been done about it.
Answers(n, o, s, t, p) ==
  /\ t \in MacData /\ Held(o, t) /\ Progress(s, t)
  /\ t.state \in SendStates => FrameOf(n, t, t.out)
  /\ t.state \in DeferStates => p = "IDLE"

\* The frame that answers f: CTS for RTS, ACK for DATA, DATA for CTS.
Reply(f, t) ==
  \/ t.out = NoFrame
  \/ ~Response(t.out)
  \/ t.out.to = f.from /\ t.out.type = "CTS" /\ f.type = "RTS"
  \/ t.out.to = f.from /\ t.out.type = "ACK" /\ f.type = "DATA"

\* A station that answers sends a control frame.
LEMMA ControlSends ==
  ASSUME DcfAssumption, NEW n \in Station, NEW o, NEW s \in MacData, NEW p, Held(o, s),
         NEW state, NEW type, NEW to \in Station,
         <<state, type>> \in {<<"X_CTS", "CTS">>, <<"X_ACK", "ACK">>}
  PROVE  LET t == Transmit(s, state, Control(type, n, to)) IN
         /\ Answers(n, o, s, t, p) /\ Keeps(s, t) /\ t.fromSeq = s.fromSeq
         /\ t.out.type = type /\ t.out.to = to
<1> DEFINE f == Control(type, n, to)
           t == Transmit(s, state, f)
<1>1. state \in {"X_CTS", "X_ACK"} /\ type \in {"CTS", "ACK"} OBVIOUS
<1>2. f \in Frame /\ f.from = n /\ f.type = type /\ f.to = to
  BY <1>1, DcfFacts DEF Frame, Control, Id
<1> HIDE DEF f
<1>3. /\ t \in MacData /\ t.id = s.id /\ t.has = s.has /\ t.toSeq = s.toSeq
      /\ t.fromSeq = s.fromSeq /\ t.out = f /\ t.ssrc = s.ssrc /\ t.lost = s.lost
      /\ ~t.timer /\ t.state = state
  BY <1>1, <1>2 DEF Transmit, MacData, SendStates
<1> HIDE DEF t
<1>4. FrameOf(n, t, t.out) BY <1>1, <1>2, <1>3 DEF FrameOf
<1>5. Held(o, t) BY <1>1, <1>3 DEF Held, Packet, SendStates, WaitStates, DeferStates
<1> QED BY <1>1, <1>2, <1>3, <1>4, <1>5
        DEF Answers, Progress, Keeps, SendStates, DeferStates, t, f

\* The station as it was.
LEMMA NoAnswer ==
  ASSUME NEW n \in Station, NEW o, NEW s \in MacData, NEW p, Held(o, s),
         s.state \in WaitStates \cup {"IDLE"}
  PROVE  Answers(n, o, s, s, p) /\ Keeps(s, s) /\ s.out = NoFrame
BY States DEF Answers, Progress, Keeps, Held

\* RTS.
LEMMA RtsAnswers ==
  ASSUME DcfAssumption, NEW n \in Station, NEW o, NEW s \in MacData, NEW p, Held(o, s),
         s.state \in WaitStates \cup {"IDLE"}, NEW f \in Frame
  PROVE  LET t == ReceiveRts(n, s, f, p) IN
         /\ Answers(n, o, s, t, p) /\ Keeps(s, t) /\ t.fromSeq = s.fromSeq
         /\ f.type = "RTS" => Reply(f, t)
<1>1. f.from \in Station BY DEF Frame
<1>2. \/ ReceiveRts(n, s, f, p) = Transmit(s, "X_CTS", Control("CTS", n, f.from))
      \/ ReceiveRts(n, s, f, p) = s
  BY DEF ReceiveRts
<1> QED BY <1>1, <1>2, ControlSends, NoAnswer DEF Reply

\* CTS.
LEMMA CtsAnswers ==
  ASSUME DcfAssumption, NEW n \in Station, NEW o, NEW s \in MacData, NEW p, Held(o, s),
         s.state \in WaitStates \cup {"IDLE"}
  PROVE  LET t == ReceiveCts(n, s, p) IN
         /\ Answers(n, o, s, t, p) /\ Keeps(s, t) /\ t.fromSeq = s.fromSeq
         /\ t.out = NoFrame \/ ~Response(t.out)
<1> DEFINE f == DataFrame(n, s)
           t == ReceiveCts(n, s, p)
<1>1. CASE s.state = "WFCTS" /\ p = "IDLE"
  <2>1. /\ Dest[n] \in Station /\ s.toSeq \in 0 .. SeqMod - 1 /\ s.id \in Id
        /\ ShortRetryLimit \in Nat /\ ShortRetryLimit > 0
    BY DcfFacts DEF MacData
  <2>2. f \in Frame /\ f.from = n /\ f.type = "DATA" BY <2>1 DEF Frame, DataFrame
  <2>3. /\ t \in MacData /\ t.id = s.id /\ t.has = s.has /\ t.toSeq = s.toSeq
        /\ t.fromSeq = s.fromSeq /\ t.out = f /\ t.ssrc = 0 /\ t.lost = s.lost
        /\ ~t.timer /\ t.state = "X_UNICAST"
    <3>1. t = Transmit([s EXCEPT !.ssrc = 0], "X_UNICAST", f) BY <1>1 DEF ReceiveCts
    <3>2. 0 \in 0 .. ShortRetryLimit - 1 BY <2>1
    <3> HIDE DEF t, f
    <3> QED BY <2>1, <2>2, <3>1, <3>2 DEF Transmit, MacData, SendStates
  <2>4. DataFrame(n, s) = DataFrame(n, t) BY <2>3 DEF DataFrame
  <2> HIDE DEF t
  <2>5. FrameOf(n, t, t.out) BY <2>2, <2>3, <2>4 DEF FrameOf
  <2>6. s.has /\ ~(~UseRts) BY <1>1 DEF Held
  <2>7. Held(o, t)
    BY <2>3, <2>6 DEF Held, Packet, SendStates, WaitStates, DeferStates
  <2> QED BY <2>2, <2>3, <2>5, <2>7
          DEF Answers, Progress, Keeps, SendStates, DeferStates, Response, t
<1>2. CASE ~(s.state = "WFCTS" /\ p = "IDLE")
  <2>1. t = s BY <1>2 DEF ReceiveCts
  <2> QED BY <2>1, NoAnswer
<1> QED BY <1>1, <1>2

\* A data frame: taken once, if its sequence number is the expected one.
LEMMA DataAnswers ==
  ASSUME DcfAssumption, NEW n \in Station, NEW o, NEW s \in MacData, NEW p, Held(o, s),
         s.state \in WaitStates \cup {"IDLE"}, NEW f \in Frame
  PROVE  LET t == ReceiveData(n, s, f) IN
         /\ Answers(n, o, s, t, p) /\ Keeps(s, t) /\ (f.type = "DATA" => Reply(f, t))
         /\ t.fromSeq = IF HandedUp(s, f)
                        THEN [s.fromSeq EXCEPT ![f.from] = (@ + 1) % SeqMod]
                        ELSE s.fromSeq
<1> DEFINE g == [s EXCEPT !.fromSeq[f.from] =
                   IF CorrectSequenceNumber(s, f) THEN (@ + 1) % SeqMod ELSE @]
           t == ReceiveData(n, s, f)
<1>1. f.from \in Station BY DEF Frame
<1>2. CASE s.state \in WaitStates \ {"WFDATA"}
  <2>1. t = s /\ ~HandedUp(s, f) BY <1>2 DEF ReceiveData, HandedUp
  <2> QED BY <2>1, NoAnswer DEF Reply
<1>3. CASE s.state \notin WaitStates \ {"WFDATA"}
  <2> DEFINE q == IF CorrectSequenceNumber(s, f)
                  THEN (s.fromSeq[f.from] + 1) % SeqMod ELSE s.fromSeq[f.from]
  <2>1. t = Transmit(g, "X_ACK", Control("ACK", n, f.from))
    BY <1>3 DEF ReceiveData
  <2>2. s.fromSeq \in [Station -> 0 .. SeqMod - 1] BY DEF MacData
  <2>3. q \in 0 .. SeqMod - 1 BY <1>1, <2>2, DcfFacts
  <2>4. g = [s EXCEPT !.fromSeq = [s.fromSeq EXCEPT ![f.from] = q]]
    BY <1>1, <2>2 DEF MacData
  <2>5. g.fromSeq = IF HandedUp(s, f)
                    THEN [s.fromSeq EXCEPT ![f.from] = (@ + 1) % SeqMod]
                    ELSE s.fromSeq
    BY <1>1, <1>3, <2>2, <2>4 DEF HandedUp, MacData
  <2> HIDE DEF q
  <2>6. /\ g \in MacData /\ g.id = s.id /\ g.has = s.has /\ g.toSeq = s.toSeq
        /\ g.out = s.out /\ g.ssrc = s.ssrc /\ g.lost = s.lost
        /\ g.timer = s.timer /\ g.state = s.state
    BY <1>1, <2>2, <2>3, <2>4 DEF MacData
  <2> HIDE DEF g, t
  <2>7. Held(o, g) BY <2>6 DEF Held, Packet
  <2>8. /\ Answers(n, o, g, t, p) /\ Keeps(g, t) /\ t.fromSeq = g.fromSeq
        /\ t.out.type = "ACK" /\ t.out.to = f.from
    BY <1>1, <2>1, <2>6, <2>7, ControlSends
  <2> QED BY <2>5, <2>6, <2>8 DEF Answers, Progress, Keeps, Reply, t
<1> QED BY <1>2, <1>3

\* An acknowledgement: the packet is done with.
LEMMA AckRests ==
  ASSUME DcfAssumption, NEW n \in Station, NEW s \in MacData, NEW p,
         offered[n] \in Nat, Held(offered[n], s), s.state \in WaitStates \cup {"IDLE"}
  PROVE  LET t == ReceiveAck(n, s, p) IN
         /\ Rests(offered[n], s, t, p)
         /\ t.id > s.id \/ (t.id = s.id /\ ~t.has)
<1> DEFINE q == (s.toSeq + 1) % SeqMod
           d == [Done(s) EXCEPT !.ssrc = 0, !.slrc = 0, !.toSeq = (@ + 1) % SeqMod]
           t == ReceiveAck(n, s, p)
<1>1. /\ s.toSeq \in 0 .. SeqMod - 1 /\ q \in 0 .. SeqMod - 1
      /\ 0 \in 0 .. ShortRetryLimit - 1 /\ 0 \in 0 .. LongRetryLimit - 1
  <2>1. s.toSeq \in 0 .. SeqMod - 1 BY DEF MacData
  <2> QED BY <2>1, DcfFacts
<1>2. s.out = NoFrame BY States DEF Held
<1>3. d = [s EXCEPT !.state = "IDLE", !.timer = FALSE, !.has = FALSE, !.ssrc = 0,
                    !.slrc = 0, !.toSeq = q]
  BY DEF Done, GoIdle, MacData
<1> HIDE DEF q
<1>4. /\ d \in MacData /\ d.id = s.id /\ ~d.has /\ d.state = "IDLE" /\ ~d.timer
      /\ d.fromSeq = s.fromSeq /\ d.out = NoFrame /\ d.ssrc = 0
  BY <1>1, <1>2, <1>3 DEF MacData
<1>5. t = CheckForOutgoingPacket(n, d, p, TRUE) BY DEF ReceiveAck
<1> HIDE DEF d, t
<1>6. Packet(offered[n], d) BY <1>4 DEF Held, Packet
<1>7. Rests(offered[n], d, t, p) BY <1>4, <1>5, <1>6, CheckRests
<1>8. t.id > s.id \/ (t.id = s.id /\ ~t.has) BY <1>4, <1>7 DEF Rests, Progress
<1> QED BY <1>4, <1>7, <1>8 DEF Rests, Progress, t

\* A frame for another station.
LEMMA NotMineAnswers ==
  ASSUME NEW n \in Station, NEW o, NEW s \in MacData, NEW p, Held(o, s),
         s.state \in WaitStates \cup {"IDLE"}, NEW longer \in BOOLEAN
  PROVE  LET t == ReceiveNotMine(s, p, longer) IN
         /\ Answers(n, o, s, t, p) /\ Keeps(s, t) /\ t.fromSeq = s.fromSeq
         /\ t.out = NoFrame
<1> DEFINE t == ReceiveNotMine(s, p, longer)
<1>1. /\ t \in MacData /\ t.id = s.id /\ t.has = s.has /\ t.toSeq = s.toSeq
      /\ t.fromSeq = s.fromSeq /\ t.out = s.out /\ t.ssrc = s.ssrc /\ t.lost = s.lost
      /\ \/ t.state = s.state /\ t.timer = s.timer
         \/ p = "IDLE" /\ s.has /\ t.state = "WFNAV" /\ t.timer
  BY DEF ReceiveNotMine, StartTimer, MacData, DeferStates
<1> HIDE DEF t
<1>2. Held(o, t) /\ s.out = NoFrame
  BY <1>1 DEF Held, Packet, SendStates, WaitStates, DeferStates
<1> QED BY <1>1, <1>2
        DEF Answers, Progress, Keeps, SendStates, WaitStates, DeferStates, t

\* The handling of a received frame, with what the MAC does about a medium that is idle
\* after it.
Received(n, s, t, f, p) ==
  /\ t \in MacData /\ Held(offered[n], t) /\ Progress(s, t) /\ Ready(offered[n], t, p)
  /\ t.state \in SendStates => FrameOf(n, t, t.out)
  /\ t.fromSeq = IF f.to = n /\ f.type = "DATA" /\ HandedUp(s, f)
                 THEN [s.fromSeq EXCEPT ![f.from] = (@ + 1) % SeqMod]
                 ELSE s.fromSeq
  /\ IF f.to = n /\ f.type = "ACK" THEN t.id > s.id \/ (t.id = s.id /\ ~t.has)
     ELSE Keeps(s, t)
  /\ Reply(f, t)

\* Every received frame is handled like that.
LEMMA ReceivedFrame ==
  ASSUME DcfAssumption, NEW n \in Station, NEW s \in MacData, NEW f \in Frame, NEW p,
         offered[n] \in Nat, Held(offered[n], s), s.state \in WaitStates \cup {"IDLE"},
         NEW longer \in BOOLEAN
  PROVE  Received(n, s, ReceivePacketFromPhy(n, s, f, p, longer), f, p)
<1> DEFINE o == offered[n]
           e == [s EXCEPT !.eifs = FALSE]
           c == ProcessFrame(n, e, f, p, longer)
           t == ReceivePacketFromPhy(n, s, f, p, longer)
<1>1. /\ e \in MacData /\ e.id = s.id /\ e.has = s.has /\ e.toSeq = s.toSeq
      /\ e.fromSeq = s.fromSeq /\ e.out = s.out /\ e.ssrc = s.ssrc /\ e.lost = s.lost
      /\ e.timer = s.timer /\ e.state = s.state
  BY DEF MacData
<1>2. Held(o, e) BY <1>1 DEF Held, Packet
<1>3. HandedUp(e, f) <=> HandedUp(s, f) BY <1>1 DEF HandedUp, CorrectSequenceNumber
<1> HIDE DEF e
<1>4. f.type \in {"RTS", "CTS", "DATA", "ACK"} BY DEF Frame
<1>5. /\ Answers(n, o, e, c, p)
      /\ c.fromSeq = IF f.to = n /\ f.type = "DATA" /\ HandedUp(e, f)
                     THEN [e.fromSeq EXCEPT ![f.from] = (@ + 1) % SeqMod]
                     ELSE e.fromSeq
      /\ IF f.to = n /\ f.type = "ACK" THEN c.id > e.id \/ (c.id = e.id /\ ~c.has)
         ELSE Keeps(e, c)
      /\ Reply(f, c)
  <2>1. CASE f.to # n
    <3>1. c = ReceiveNotMine(e, p, longer) BY <2>1 DEF ProcessFrame
    <3> QED BY <1>1, <1>2, <2>1, <3>1, NotMineAnswers DEF Reply
  <2>2. CASE f.to = n /\ f.type = "RTS"
    <3>1. c = ReceiveRts(n, e, f, p) BY <2>2 DEF ProcessFrame
    <3> QED BY <1>1, <1>2, <2>2, <3>1, RtsAnswers
  <2>3. CASE f.to = n /\ f.type = "CTS"
    <3>1. c = ReceiveCts(n, e, p) BY <2>3 DEF ProcessFrame
    <3> QED BY <1>1, <1>2, <2>3, <3>1, CtsAnswers DEF Reply
  <2>4. CASE f.to = n /\ f.type = "DATA"
    <3>1. c = ReceiveData(n, e, f) BY <2>4 DEF ProcessFrame
    <3> QED BY <1>1, <1>2, <2>4, <3>1, DataAnswers
  <2>5. CASE f.to = n /\ f.type = "ACK"
    <3>1. c = ReceiveAck(n, e, p) BY <2>5 DEF ProcessFrame
    <3>2. Rests(o, e, c, p) /\ (c.id > e.id \/ (c.id = e.id /\ ~c.has))
      BY <1>1, <1>2, <3>1, AckRests
    <3> QED BY <2>5, <3>2 DEF Rests, Answers, Ready, Held, Reply
  <2> QED BY <1>4, <2>1, <2>2, <2>3, <2>4, <2>5
<1> HIDE DEF c
<1>6. CASE p = "IDLE" /\ c.state \notin SendStates
  <2>1. t = PhyStatusIsNowIdle(n, c) BY <1>6 DEF ReceivePacketFromPhy, c, e
  <2> HIDE DEF t
  <2>2. Rests(o, c, t, "IDLE") /\ Keeps(c, t)
    BY <1>5, <1>6, <2>1, IdleRests DEF Answers
  <2>3. c \in MacData /\ t \in MacData /\ Progress(e, c) /\ Progress(c, t)
    BY <1>5, <2>2 DEF Answers, Rests
  <2>4. Progress(e, t) BY <1>1, <2>3, ProgressOn
  <2>5. e.id \in Nat /\ c.id \in Nat /\ t.id \in Nat BY <1>1, <2>3 DEF MacData, Id
  <2>6. c.id > e.id \/ (c.id = e.id /\ ~c.has) =>
          t.id > e.id \/ (t.id = e.id /\ ~t.has)
    BY <2>3, <2>5 DEF Progress
  <2>7. Keeps(e, c) => Keeps(e, t) BY <2>2 DEF Keeps
  <2>8. t.fromSeq = c.fromSeq BY <2>2 DEF Rests
  <2>9. t.state \notin SendStates /\ Held(o, t) /\ Ready(o, t, p)
    BY <1>6, <2>2 DEF Rests
  <2>10. Progress(s, t) BY <1>1, <2>4 DEF Progress
  <2>11. IF f.to = n /\ f.type = "ACK" THEN t.id > s.id \/ (t.id = s.id /\ ~t.has)
         ELSE Keeps(s, t)
    BY <1>1, <1>5, <2>6, <2>7 DEF Keeps
  <2>12. Reply(f, t) BY <2>9 DEF Held, Reply
  <2> QED BY <1>1, <1>3, <1>5, <2>3, <2>8, <2>9, <2>10, <2>11, <2>12 DEF Received, t
<1>7. CASE p # "IDLE" \/ c.state \in SendStates
  <2>1. t = c
    <3>1. t = IF p = "IDLE" THEN PhyStatusIsNowIdle(n, c) ELSE c
      BY DEF ReceivePacketFromPhy, c, e
    <3>2. c.state \in SendStates => PhyStatusIsNowIdle(n, c) = c
      BY States DEF PhyStatusIsNowIdle
    <3> QED BY <1>7, <3>1, <3>2
  <2> HIDE DEF t
  <2>2. Ready(o, c, p) BY <1>5, <1>7, States DEF Answers, Ready
  <2>3. Progress(s, c) BY <1>1, <1>5 DEF Answers, Progress
  <2>4. IF f.to = n /\ f.type = "ACK" THEN c.id > s.id \/ (c.id = s.id /\ ~c.has)
        ELSE Keeps(s, c)
    BY <1>1, <1>5 DEF Keeps
  <2> QED BY <1>1, <1>3, <1>5, <2>1, <2>2, <2>3, <2>4 DEF Answers, Received, t
<1> QED BY <1>6, <1>7

-----------------------------------------------------------------------------
(* All stations. *)

\* Nothing that is said of a station depends on what Same leaves out.
LEMMA SameSound ==
  ASSUME NEW n, NEW o, NEW s, NEW t, NEW p, NEW x, NEW r, Same(s, t), Sound(n, o, s, p, x, r)
  PROVE  Sound(n, o, t, p, x, r)
<1>1. Held(o, t) BY DEF Same, Sound, Held, Packet
<1>2. DataFrame(n, s) = DataFrame(n, t) BY DEF Same, DataFrame
<1>3. OneFrame(n, t, x) BY <1>2 DEF Same, Sound, OneFrame, FrameOf
<1>4. Ready(o, t, p) BY DEF Same, Sound, Ready
<1> QED BY <1>1, <1>3, <1>4 DEF Same, Sound

\* Ordered changes nothing else.
LEMMA OrderedSame ==
  ASSUME NEW s \in [Station -> MacData]
  PROVE  /\ Ordered(s) \in [Station -> MacData]
         /\ \A k \in Station : /\ Same(s[k], Ordered(s)[k])
                               /\ Ordered(s)[k].after = s[k].after \cap Due(s)
<1>1. ASSUME NEW k \in Station
      PROVE  /\ Ordered(s)[k] \in MacData /\ Same(s[k], Ordered(s)[k])
             /\ Ordered(s)[k].after = s[k].after \cap Due(s)
  <2>1. s[k] \in MacData OBVIOUS
  <2>2. s[k].after \cap Due(s) \in SUBSET Station BY <2>1 DEF MacData
  <2>3. Ordered(s)[k] = [s[k] EXCEPT !.after = s[k].after \cap Due(s)]
    BY <2>1 DEF Ordered, MacData
  <2>4. Ordered(s)[k] \in MacData BY <2>1, <2>2, <2>3 DEF MacData
  <2> QED BY <2>1, <2>3, <2>4 DEF Same, MacData
<1> QED BY <1>1 DEF Ordered

\* What has been handed up stays right while the sender goes on and the receiver takes
\* nothing from it.
LEMMA HandedUpStays ==
  ASSUME TypeOK, NEW n \in Station, NEW d \in Station, sta' \in [Station -> MacData],
         HandedUpFrom(d, n), got'[d][n] = got[d][n], Progress(sta[n], sta'[n]),
         sta'[d].fromSeq[n] = sta[d].fromSeq[n]
  PROVE  HandedUpFrom(d, n)'
<1>1. sta[n] \in MacData /\ sta'[n] \in MacData BY DEF TypeOK
<1>2. sta[n].id \in Nat /\ sta'[n].id \in Nat BY <1>1 DEF MacData, Id
<1>3. got[d][n] \in Seq(Id) BY DEF TypeOK
<1>4. \A i \in 1 .. Len(got[d][n]) : got[d][n][i] \in Nat BY <1>3 DEF Id
<1> QED BY <1>2, <1>4 DEF HandedUpFrom, Progress

\* So does what has been acknowledged, if nothing more is.
LEMMA NotAckedStays ==
  ASSUME TypeOK, NEW n \in Station, sta' \in [Station -> MacData], NotAcked(n),
         acked'[n] = acked[n], Progress(sta[n], sta'[n])
  PROVE  NotAcked(n)'
<1>1. sta[n] \in MacData /\ sta'[n] \in MacData BY DEF TypeOK
<1>2. sta[n].id \in Nat /\ sta'[n].id \in Nat BY <1>1 DEF MacData, Id
<1>3. acked[n] \subseteq Nat BY DEF TypeOK, Id
<1> QED BY <1>2, <1>3 DEF NotAcked, Progress

\* Both, for a step in which nobody receives a packet.
LEMMA HistoryKept ==
  ASSUME DcfAssumption, TypeOK, Exchange, sta' \in [Station -> MacData],
         got' = got, acked' = acked,
         \A k \in Station : Progress(sta[k], sta'[k]) /\ sta'[k].fromSeq = sta[k].fromSeq,
         NEW n \in Station
  PROVE  /\ HandedUpFrom(Dest[n], n)' /\ NotAcked(n)'
         /\ \A m \in Station : n # Dest[m] => got'[n][m] = <<>>
<1>1. Dest[n] \in Station BY DcfFacts
<1>2. HandedUpFrom(Dest[n], n) /\ NotAcked(n) BY DEF Exchange
<1>3. HandedUpFrom(Dest[n], n)' BY <1>1, <1>2, HandedUpStays
<1>4. NotAcked(n)' BY <1>2, NotAckedStays
<1> QED BY <1>3, <1>4 DEF Exchange

\* One station goes on from its data to t, on a medium that stays as it is.
LEMMA OneMoves ==
  ASSUME DcfAssumption, TypeOK, Exchange, NEW n \in Station, NEW t \in MacData,
         sta' = Ordered([sta EXCEPT ![n] = t]),
         air' = air, rx' = rx, got' = got, acked' = acked,
         \A k \in Station : k # n => offered'[k] = offered[k],
         Sound(n, offered'[n], t, Phy(n), air[n], rx[n]), Progress(sta[n], t),
         t.fromSeq = sta[n].fromSeq
  PROVE  /\ sta' \in [Station -> MacData] /\ Exchange'
         /\ \A k \in Station : Same(IF k = n THEN t ELSE sta[k], sta'[k])
<1> DEFINE s == [sta EXCEPT ![n] = t]
<1>1. s \in [Station -> MacData] /\ \A k \in Station : s[k] = IF k = n THEN t ELSE sta[k]
  BY DEF TypeOK
<1>2. /\ sta' \in [Station -> MacData]
      /\ \A k \in Station : Same(IF k = n THEN t ELSE sta[k], sta'[k])
  BY <1>1, OrderedSame
<1> HIDE DEF s
<1>3. ASSUME NEW k \in Station
      PROVE  Progress(sta[k], sta'[k]) /\ sta'[k].fromSeq = sta[k].fromSeq
  <2>1. sta[k] \in MacData BY DEF TypeOK
  <2>2. CASE k = n BY <1>2, <2>2 DEF Same, Progress
  <2>3. CASE k # n BY <1>2, <2>3 DEF Same, Progress
  <2> QED BY <2>2, <2>3
<1>4. ASSUME NEW k \in Station
      PROVE  Sound(k, offered[k], sta[k], Phy(k), air[k], rx[k])'
  <2>1. Phy(k)' = Phy(k) BY DEF Phy, Status
  <2>2. Sound(k, offered'[k], IF k = n THEN t ELSE sta[k], Phy(k), air[k], rx[k])
    BY DEF Exchange
  <2>3. Sound(k, offered'[k], sta'[k], Phy(k), air[k], rx[k]) BY <1>2, <2>2, SameSound
  <2> QED BY <2>1, <2>3
<1>5. \A k \in Station : /\ HandedUpFrom(Dest[k], k)' /\ NotAcked(k)'
                         /\ \A m \in Station : k # Dest[m] => got'[k][m] = <<>>
  BY <1>2, <1>3, HistoryKept
<1> QED BY <1>2, <1>4, <1>5 DEF Exchange

\* Who waits for a response goes on waiting.
LEMMA StillExpected ==
  ASSUME NEW s, NEW t, NEW f, Expected(s, f),
         s.state \in {"WFCTS", "WFACK"} => t.state = s.state
  PROVE  Expected(t, f)
BY DEF Expected

\* A station that goes on alone leaves the responses to come what they are, if it sends
\* none itself and does not end its wait for one.
LEMMA OneAwaits ==
  ASSUME TypeOK, Awaited, NEW n \in Station, NEW t \in MacData,
         sta' = Ordered([sta EXCEPT ![n] = t]), air' = air, rx' = rx,
         t.out = sta[n].out \/ (sta[n].out = NoFrame /\ ~Response(t.out)),
         air[n] # NoFrame => t.after = sta[n].after,
         sta[n].state \in {"WFCTS", "WFACK"} => t.state = sta[n].state \/ ~ResponseUnderWay(n)
  PROVE  Awaited'
<1> DEFINE s == [sta EXCEPT ![n] = t]
<1>1. s \in [Station -> MacData] /\ \A k \in Station : s[k] = IF k = n THEN t ELSE sta[k]
  BY DEF TypeOK
<1>2. \A k \in Station : /\ sta'[k].state = s[k].state /\ sta'[k].out = s[k].out
                         /\ sta'[k].after = s[k].after \cap Due(s)
  BY <1>1, OrderedSame DEF Same
<1> HIDE DEF s
<1>3. ASSUME NEW k \in Station, NEW f, Response(f), Expected(sta[k], f), f.to = k,
             NEW m \in Station, f # NoFrame, f = air[m] \/ f = sta[m].out
      PROVE  Expected(sta'[k], f)
  <2>1. ResponseUnderWay(k) BY <1>3 DEF ResponseUnderWay, Response
  <2>2. sta[k].state \in {"WFCTS", "WFACK"} => sta'[k].state = sta[k].state
    BY <1>1, <1>2, <2>1
  <2> QED BY <1>3, <2>2, StillExpected
<1>4. ASSUME NEW m \in Station, NEW k \in Station PROVE OnTheAir(m, k)'
  <2>1. OnTheAir(m, k) BY DEF Awaited
  <2>2. rx[k].from = m /\ air[m].to = k => Expected(sta'[k], air[m])
    <3>1. CASE Response(air[m]) BY <1>3, <2>1, <3>1 DEF OnTheAir
    <3>2. CASE ~Response(air[m]) BY <3>2 DEF Expected, Response
    <3> QED BY <3>1, <3>2
  <2> QED BY <2>1, <2>2 DEF OnTheAir
<1>5. ASSUME NEW m \in Station, NEW k \in Station PROVE DueInTime(m, k)'
  <2> DEFINE f == sta'[m].out
             j == rx[k].from
  <2> SUFFICES ASSUME f # NoFrame, f.to = k, Response(f)
               PROVE  Expected(sta'[k], f) /\ (j # NoFrame => m \in sta'[j].after)
    BY DEF DueInTime
  <2>1. f = sta[m].out BY <1>1, <1>2
  <2>2. Expected(sta[k], f) /\ (j # NoFrame => m \in sta[j].after)
    BY <2>1 DEF Awaited, DueInTime
  <2>3. Expected(sta'[k], f) BY <1>3, <2>1, <2>2
  <2>4. ASSUME j # NoFrame PROVE m \in sta'[j].after
    <3>1. j \in Station BY <2>4 DEF TypeOK
    <3>2. air[j] # NoFrame BY <3>1 DEF Awaited, OnTheAir
    <3>3. s[j].after = sta[j].after BY <1>1, <3>1, <3>2
    <3>4. m \in Due(s) BY <1>2 DEF Due
    <3> QED BY <1>2, <2>2, <2>4, <3>1, <3>3, <3>4
  <2> QED BY <2>3, <2>4
<1> QED BY <1>4, <1>5 DEF Awaited

-----------------------------------------------------------------------------
(* The actions. *)

\* While every station keeps its packet none is given up.
LEMMA KeepsTried ==
  ASSUME \A k \in Station : sta[k].state = "WFACK" => Keeps(sta[k], sta'[k])
  PROVE  TriedStep
BY DEF TriedStep, Keeps

\* ... as the stations do of which one only goes on.
LEMMA OneKeeps ==
  ASSUME NEW n \in Station, NEW t,
         \A k \in Station : Same(IF k = n THEN t ELSE sta[k], sta'[k]),
         sta[n].state = "WFACK" => Keeps(sta[n], t)
  PROVE  TriedStep
<1>1. ASSUME NEW k \in Station, sta[k].state = "WFACK" PROVE Keeps(sta[k], sta'[k])
  <2>1. CASE k = n BY <1>1, <2>1 DEF Same, Keeps
  <2>2. CASE k # n BY <2>2 DEF Same, Keeps
  <2> QED BY <2>1, <2>2
<1> QED BY <1>1, KeepsTried

\* A packet is handed down.
LEMMA OfferedKeeps ==
  ASSUME DcfAssumption, TypeOK, Exchange, Awaited, NEW n \in Station,
         NetworkLayerHasPacketToSend(n)
  PROVE  TypeOK' /\ Exchange' /\ Awaited' /\ failed' = failed /\ TriedStep
<1> DEFINE u == sta[n]
           s == IF u.has THEN u ELSE [u EXCEPT !.has = TRUE, !.id = @ + 1, !.lost = 0]
           b == [s EXCEPT !.backoff = @ \/ s.nav \/ Phy(n) # "IDLE"]
           t == IF u.has \/ s.state # "IDLE" THEN s
                ELSE AttemptToGoIntoWaitForDifsOrEifs(b, Phy(n))
           o == offered[n] + 1
<1>1. /\ u \in MacData /\ offered[n] \in Nat /\ Packets[n] \in Nat
      /\ Sound(n, offered[n], u, Phy(n), air[n], rx[n])
  BY DEF TypeOK, Exchange, DcfAssumption
<1>2. /\ sta' = Ordered([sta EXCEPT ![n] = t]) /\ offered[n] < Packets[n]
      /\ offered' = [offered EXCEPT ![n] = o]
  BY DEF NetworkLayerHasPacketToSend
<1>3. /\ air' = air /\ rx' = rx /\ got' = got /\ acked' = acked /\ failed' = failed
      /\ o \in Nat /\ o <= Packets[n] /\ offered[n] < o
      /\ offered'[n] = o /\ \A k \in Station : k # n => offered'[k] = offered[k]
  BY <1>1, <1>2 DEF NetworkLayerHasPacketToSend, TypeOK
<1>4. u.id \in Nat /\ u.id + 1 \in Nat /\ u.id <= offered[n]
  BY <1>1 DEF MacData, Id, Sound, Held, Packet
<1>5. /\ t \in MacData /\ Progress(u, t) /\ Keeps(u, t) /\ t.fromSeq = u.fromSeq
      /\ Sound(n, o, t, Phy(n), air[n], rx[n]) /\ t.out = u.out
      /\ u.state # "IDLE" => t.state = u.state /\ t.after = u.after
      /\ u.state = "IDLE" => air[n] = NoFrame
  <2>1. CASE u.has
    <3>1. t = u BY <2>1
    <3>2. u.id <= o BY <1>1, <1>3, <1>4
    <3>3. Held(o, u) BY <1>1, <3>2 DEF Sound, Held, Packet
    <3>4. Ready(o, u, Phy(n)) BY <1>1, <2>1 DEF Sound, Ready
    <3>5. Sound(n, o, u, Phy(n), air[n], rx[n]) BY <1>1, <3>3, <3>4 DEF Sound
    <3>6. u.state = "IDLE" => air[n] = NoFrame
      BY <1>1, States DEF Sound, OneFrame
    <3> QED BY <1>1, <3>1, <3>5, <3>6 DEF Progress, Keeps
  <2>2. CASE ~u.has
    <3>1. /\ s \in MacData /\ s.has /\ s.id = u.id + 1 /\ s.lost = 0 /\ s.state = u.state
          /\ s.timer = u.timer /\ s.ssrc = u.ssrc /\ s.toSeq = u.toSeq
          /\ s.fromSeq = u.fromSeq /\ s.out = u.out /\ s.after = u.after
      BY <1>1, <1>4, <2>2 DEF MacData, Id
    <3>2. Packet(o, s)
      <4>1. s.id <= o BY <1>1, <1>4, <3>1
      <4>2. ~UseRts => s.ssrc <= s.lost
        BY <1>1, <2>2, <3>1 DEF Sound, Held, Packet
      <4> QED BY <3>1, <4>1, <4>2 DEF Packet
    <3>3. Progress(u, s) BY <1>4, <3>1 DEF Progress
    <3>4. CASE u.state # "IDLE"
      <4>1. t = s BY <2>2, <3>1, <3>4
      <4> HIDE DEF s, t
      <4>2. u.state \notin DeferStates \cup {"X_RTS", "X_UNICAST", "WFCTS", "WFACK"}
        BY <1>1, <2>2 DEF Sound, Held
      <4>3. Held(o, s) BY <1>1, <3>1, <3>2, <4>2 DEF Sound, Held
      <4>4. Ready(o, s, Phy(n)) BY <3>1, <3>4, <4>2 DEF Ready
      <4>5. OneFrame(n, s, air[n])
        BY <1>1, <3>1, <4>2 DEF Sound, OneFrame, FrameOf
      <4>6. Sound(n, o, s, Phy(n), air[n], rx[n])
        BY <1>1, <3>1, <4>3, <4>4, <4>5 DEF Sound
      <4> QED BY <2>2, <3>1, <3>3, <3>4, <4>1, <4>6 DEF Keeps
    <3>5. CASE u.state = "IDLE"
      <4>1. /\ b \in MacData /\ b.has /\ b.id = s.id /\ b.lost = s.lost
            /\ b.ssrc = s.ssrc /\ b.toSeq = s.toSeq /\ b.fromSeq = s.fromSeq
            /\ b.out = s.out
        <5> DEFINE bo == s.backoff \/ s.nav \/ Phy(n) # "IDLE"
        <5>1. bo \in BOOLEAN OBVIOUS
        <5>2. s \in MacData /\ s.has BY <3>1
        <5>3. b = [s EXCEPT !.backoff = bo] OBVIOUS
        <5> HIDE DEF bo, b, s
        <5> QED BY <5>1, <5>2, <5>3 DEF MacData
      <4>2. t = AttemptToGoIntoWaitForDifsOrEifs(b, Phy(n)) BY <2>2, <3>1, <3>5
      <4> HIDE DEF s, b, t
      <4>3. Packet(o, b) BY <3>1, <3>2, <4>1 DEF Packet
      <4>4. b.out = NoFrame /\ air[n] = NoFrame
        BY <1>1, <3>1, <3>5, <4>1, States DEF Sound, Held, OneFrame
      <4>5. Rests(o, b, t, Phy(n)) /\ Keeps(b, t)
        BY <4>1, <4>2, <4>3, <4>4, AttemptRests
      <4>6. t.id = u.id + 1 BY <3>1, <4>1, <4>5 DEF Keeps
      <4>7. Progress(u, t) BY <1>4, <4>6 DEF Progress
      <4>8. Sound(n, o, t, Phy(n), air[n], rx[n])
        BY <4>4, <4>5 DEF Rests, Sound, OneFrame
      <4>9. t.out = NoFrame BY <4>5 DEF Rests, Held
      <4> QED BY <2>2, <3>1, <3>5, <4>1, <4>4, <4>5, <4>7, <4>8, <4>9 DEF Rests, Keeps
    <3> QED BY <3>4, <3>5
  <2> QED BY <2>1, <2>2
<1> HIDE DEF s, b, t, u, o
<1>6. /\ sta' \in [Station -> MacData] /\ Exchange'
      /\ \A k \in Station : Same(IF k = n THEN t ELSE sta[k], sta'[k])
  BY <1>2, <1>3, <1>5, OneMoves DEF u
<1>7. TypeOK' BY <1>1, <1>2, <1>3, <1>6 DEF TypeOK
<1>8. TriedStep BY <1>5, <1>6, OneKeeps DEF u
<1>9. /\ t.out = sta[n].out /\ (air[n] # NoFrame => t.after = sta[n].after)
      /\ sta[n].state \in {"WFCTS", "WFACK"} => t.state = sta[n].state
  BY <1>5 DEF u
<1>10. Awaited' BY <1>2, <1>3, <1>5, <1>9, OneAwaits
<1> QED BY <1>3, <1>6, <1>7, <1>8, <1>10

\* The NAV runs down.
LEMMA NavKeeps ==
  ASSUME DcfAssumption, TypeOK, Exchange, Awaited, NEW n \in Station, NavPasses(n)
  PROVE  TypeOK' /\ Exchange' /\ Awaited' /\ failed' = failed /\ TriedStep
<1> DEFINE t == [sta[n] EXCEPT !.nav = FALSE]
<1>1. sta[n] \in MacData BY DEF TypeOK
<1>2. Same(sta[n], t) /\ t.after = sta[n].after BY <1>1 DEF Same, MacData
<1>3. sta' = [sta EXCEPT ![n] = t] BY DEF NavPasses
<1>4. UNCHANGED <<air, rx, offered, got, acked, failed>> BY DEF NavPasses
<1> HIDE DEF t
<1>5. sta' \in [Station -> MacData] BY <1>2, <1>3 DEF TypeOK, Same
<1>6. ASSUME NEW k \in Station
      PROVE  Same(sta[k], sta'[k]) /\ sta'[k].after = sta[k].after
  <2>1. CASE k = n BY <1>2, <1>3, <2>1 DEF TypeOK
  <2>2. CASE k # n
    <3>1. sta'[k] = sta[k] /\ sta[k] \in MacData BY <1>3, <2>2 DEF TypeOK
    <3> QED BY <3>1 DEF Same
  <2> QED BY <2>1, <2>2
<1>7. ASSUME NEW k \in Station
      PROVE  Sound(k, offered[k], sta[k], Phy(k), air[k], rx[k])'
  <2>1. Phy(k)' = Phy(k) BY <1>4 DEF Phy, Status
  <2>2. Sound(k, offered[k], sta'[k], Phy(k), air[k], rx[k])
    BY <1>6, SameSound DEF Exchange
  <2> QED BY <1>4, <2>1, <2>2
<1>8. \A k \in Station : Progress(sta[k], sta'[k]) /\ sta'[k].fromSeq = sta[k].fromSeq
  BY <1>6 DEF Same, Progress
<1>9. \A k \in Station : /\ HandedUpFrom(Dest[k], k)' /\ NotAcked(k)'
                         /\ \A m \in Station : k # Dest[m] => got'[k][m] = <<>>
  BY <1>4, <1>5, <1>8, HistoryKept
<1>10. Exchange' BY <1>7, <1>9 DEF Exchange
<1>11. TypeOK' BY <1>4, <1>5 DEF TypeOK
<1>12. TriedStep BY <1>6, KeepsTried DEF Same, Keeps
<1>13. ASSUME NEW k \in Station, NEW f
       PROVE  Expected(sta[k], f) => Expected(sta'[k], f)
  BY <1>6, StillExpected DEF Same
<1>14. ASSUME NEW m \in Station, NEW k \in Station PROVE DueInTime(m, k)'
  <2>1. DueInTime(m, k) /\ sta'[m].out = sta[m].out
    BY <1>6 DEF Awaited, Same
  <2>2. rx[k].from # NoFrame => sta'[rx[k].from].after = sta[rx[k].from].after
    BY <1>6 DEF TypeOK
  <2> QED BY <1>4, <1>13, <2>1, <2>2 DEF DueInTime
<1>15. ASSUME NEW m \in Station, NEW k \in Station PROVE OnTheAir(m, k)'
  <2>1. OnTheAir(m, k) BY DEF Awaited
  <2> QED BY <1>4, <1>13, <2>1 DEF OnTheAir
<1>16. Awaited' BY <1>14, <1>15 DEF Awaited
<1> QED BY <1>4, <1>10, <1>11, <1>12, <1>16

\* A timer runs out.
LEMMA TimeoutKeeps ==
  ASSUME DcfAssumption, TypeOK, Exchange, Awaited, NEW n \in Station, HandleTimeout(n)
  PROVE  TypeOK' /\ Exchange' /\ Awaited' /\ failed' = failed /\ TriedStep
<1> DEFINE u == sta[n]
           s == [u EXCEPT !.timer = FALSE]
           p == Phy(n)
           o == offered[n]
           Goes(t) == /\ t \in MacData /\ Progress(u, t) /\ t.fromSeq = u.fromSeq
                      /\ Sound(n, o, t, p, air[n], rx[n])
                      /\ t.out = NoFrame \/ ~Response(t.out)
                      /\ u.state = "WFACK" /\ ~UseRts /\ ~(t.has /\ t.id = u.id) =>
                           u.lost + 1 >= ShortRetryLimit
<1>1. u \in MacData /\ o \in Nat /\ Sound(n, o, u, p, air[n], rx[n]) /\ u.timer
  BY DEF TypeOK, Exchange, HandleTimeout, TimerRunsOut
<1>2. /\ u.state \in WaitStates \cup DeferStates /\ u.state \notin SendStates
      /\ u.out = NoFrame /\ air[n] = NoFrame /\ Packet(o, u)
  BY <1>1, States DEF Sound, Held, OneFrame
<1>3. /\ s \in MacData /\ s.state = u.state /\ s.out = NoFrame /\ s.has = u.has
      /\ s.id = u.id /\ s.toSeq = u.toSeq /\ s.fromSeq = u.fromSeq
      /\ s.ssrc = u.ssrc /\ s.lost = u.lost /\ Packet(o, s)
  BY <1>1, <1>2 DEF MacData, Packet
<1>4. UNCHANGED <<air, rx, offered, got, acked>> /\ failed' \in BOOLEAN
  BY DEF HandleTimeout, TypeOK
<1>5. u.lost \in Nat /\ u.lost + 1 \in Nat /\ u.ssrc \in Nat /\ ShortRetryLimit \in Nat
  BY <1>1, DcfFacts DEF MacData
\* From a station at rest, whatever was dropped before.
<1>6. ASSUME NEW c \in MacData, NEW t, c.id = u.id, c.has = u.has, c.toSeq = u.toSeq,
             c.fromSeq = u.fromSeq, Rests(o, c, t, p),
             u.state # "WFACK" \/ Keeps(c, t)
      PROVE  Goes(t)
  <2>1. Sound(n, o, t, p, air[n], rx[n]) /\ t.out = NoFrame
    BY <1>2, <1>6 DEF Rests, Sound, OneFrame, Held
  <2>2. u.state = "WFACK" => u.has BY <1>1 DEF Sound, Held
  <2> QED BY <1>6, <2>1, <2>2 DEF Rests, Progress, Keeps
<1> HIDE DEF Goes
<1>7. \E t : Goes(t) /\ sta' = Ordered([sta EXCEPT ![n] = t])
  <2>1. CASE /\ s.state = "WF_DIFS" /\ s.backoff
             /\ sta' = Ordered([sta EXCEPT ![n] = StartTimer(s, "BO")])
    <3> DEFINE t == StartTimer(s, "BO")
    <3>1. /\ t \in MacData /\ t.state = "BO" /\ t.timer /\ t.out = NoFrame /\ t.has = u.has
          /\ t.id = u.id /\ t.toSeq = u.toSeq /\ t.fromSeq = u.fromSeq
          /\ t.ssrc = u.ssrc /\ t.lost = u.lost
      BY <1>3 DEF StartTimer, MacData, DeferStates
    <3> HIDE DEF t
    <3>2. u.has /\ p = "IDLE" BY <1>1, <1>3, <2>1 DEF Sound, Held, Ready, DeferStates
    <3>3. Held(o, t)
      BY <1>2, <3>1, <3>2 DEF Held, Packet, SendStates, WaitStates, DeferStates
    <3>4. Ready(o, t, p) BY <3>1, <3>2 DEF Ready
    <3>5. Rests(o, s, t, p)
      BY <1>3, <3>1, <3>3, <3>4 DEF Rests, Progress, SendStates
    <3>6. Goes(t) BY <1>3, <1>6, <2>1, <3>5
    <3> QED BY <2>1, <3>6 DEF t
  <2>2. CASE /\ s.state \in {"WF_DIFS", "BO"}
             /\ sta' = Ordered([sta EXCEPT ![n] =
                         IF s.has THEN TransmitFrame(n, s) ELSE GoIdle(s)])
    <3> DEFINE t == TransmitFrame(n, s)
    <3>1. u.has /\ p = "IDLE" BY <1>1, <1>3, <2>2 DEF Sound, Held, Ready, DeferStates
    <3>2. rx[n].from = NoFrame BY <3>1 DEF Phy, Status
    <3>3. SendsOut(n, o, s, t) /\ t.fromSeq = s.fromSeq /\ ~Response(t.out)
      BY <1>3, <3>1, FrameSends
    <3> HIDE DEF t
    <3>4. Ready(o, t, p) BY <3>1, <3>3, States DEF SendsOut, Ready
    <3>5. Sound(n, o, t, p, air[n], rx[n])
      BY <1>2, <3>2, <3>3, <3>4 DEF SendsOut, Sound, OneFrame
    <3>6. Goes(t)
      BY <1>3, <2>2, <3>3, <3>5 DEF Goes, SendsOut, Progress
    <3> QED BY <1>3, <2>2, <3>1, <3>6 DEF t
  <2>3. CASE /\ s.state = "WFCTS"
             /\ sta' = Ordered([sta EXCEPT ![n] = Retransmit(n, s, p)])
    <3>1. s.has /\ UseRts BY <1>1, <1>3, <2>3, DcfFacts DEF Sound, Held
    <3>2. Rests(o, s, Retransmit(n, s, p), p)
      BY <1>3, <1>1, <2>3, <3>1, RetransmitRests DEF Packet
    <3>3. Goes(Retransmit(n, s, p)) BY <1>3, <1>6, <2>3, <3>2
    <3> QED BY <2>3, <3>3
  <2>4. CASE /\ s.state = "WFACK"
             /\ sta' = Ordered([sta EXCEPT ![n] =
                         Retransmit(n, [s EXCEPT !.lost = @ + 1], p)])
    <3> DEFINE c == [s EXCEPT !.lost = @ + 1]
               t == Retransmit(n, c, p)
    <3>1. /\ c \in MacData /\ c.state = "WFACK" /\ c.out = NoFrame /\ c.has = u.has
          /\ c.id = u.id /\ c.toSeq = u.toSeq /\ c.fromSeq = u.fromSeq
          /\ c.ssrc = u.ssrc /\ c.lost = u.lost + 1
      BY <1>3, <1>5, <2>4 DEF MacData
    <3>2. u.has BY <1>1, <1>3, <2>4 DEF Sound, Held
    <3>3. u.id <= o /\ (~UseRts => u.ssrc <= u.lost) BY <1>2, <3>2 DEF Packet
    <3>4. ~UseRts => u.ssrc + 1 <= u.lost + 1 BY <1>5, <3>3
    <3> HIDE DEF c
    <3>5. /\ Rests(o, c, t, p)
          /\ ~UseRts /\ ~(t.has /\ t.id = u.id) => u.ssrc + 1 >= ShortRetryLimit
      BY <1>1, <3>1, <3>2, <3>3, <3>4, RetransmitRests
    <3> HIDE DEF t
    <3>6. Sound(n, o, t, p, air[n], rx[n]) /\ t.out = NoFrame
      BY <1>2, <3>5 DEF Rests, Sound, OneFrame, Held
    <3>7. ~UseRts /\ ~(t.has /\ t.id = u.id) => u.lost + 1 >= ShortRetryLimit
      BY <1>5, <3>3, <3>5
    <3>8. Goes(t) BY <3>1, <3>5, <3>6, <3>7 DEF Goes, Rests, Progress
    <3> QED BY <2>4, <3>8 DEF t, c
  <2>5. CASE /\ s.state = "WFDATA"
             /\ sta' = Ordered([sta EXCEPT ![n] =
                         CheckForOutgoingPacket(n, GoIdle(s), p, FALSE)])
    <3> DEFINE c == GoIdle(s)
               t == CheckForOutgoingPacket(n, c, p, FALSE)
    <3>1. /\ c \in MacData /\ c.state = "IDLE" /\ ~c.timer /\ c.out = NoFrame
          /\ c.has = u.has /\ c.id = u.id /\ c.toSeq = u.toSeq /\ c.fromSeq = u.fromSeq
          /\ c.ssrc = u.ssrc /\ c.lost = u.lost
      BY <1>3 DEF GoIdle, MacData
    <3>2. Packet(o, c) BY <1>2, <3>1 DEF Packet
    <3> HIDE DEF c
    <3>3. Rests(o, c, t, p) BY <1>1, <3>1, <3>2, CheckRests
    <3>4. Goes(t) BY <1>3, <1>6, <2>5, <3>1, <3>3
    <3> QED BY <2>5, <3>4 DEF c
  <2>6. CASE /\ s.state = "WFNAV"
             /\ sta' = Ordered([sta EXCEPT ![n] =
                  IF s.has THEN AttemptToGoIntoWaitForDifsOrEifs([s EXCEPT !.nav = FALSE], p)
                  ELSE GoIdle([s EXCEPT !.nav = FALSE])])
    <3> DEFINE c == [s EXCEPT !.nav = FALSE]
               t == AttemptToGoIntoWaitForDifsOrEifs(c, p)
    <3>1. /\ c \in MacData /\ c.out = NoFrame
          /\ c.has = u.has /\ c.id = u.id /\ c.toSeq = u.toSeq /\ c.fromSeq = u.fromSeq
          /\ c.ssrc = u.ssrc /\ c.lost = u.lost
      BY <1>3 DEF MacData
    <3>2. Packet(o, c) BY <1>2, <3>1 DEF Packet
    <3>3. u.has BY <1>1, <1>3, <2>6 DEF Sound, Held, DeferStates
    <3> HIDE DEF c
    <3>4. Rests(o, c, t, p) BY <3>1, <3>2, <3>3, AttemptRests
    <3>5. Goes(t) BY <1>3, <1>6, <2>6, <3>1, <3>4
    <3> QED BY <1>3, <2>6, <3>3, <3>5 DEF c
  <2> QED BY <2>1, <2>2, <2>3, <2>4, <2>5, <2>6 DEF HandleTimeout
<1>8. PICK t : Goes(t) /\ sta' = Ordered([sta EXCEPT ![n] = t]) BY <1>7
<1>9. /\ sta' \in [Station -> MacData] /\ Exchange'
      /\ \A k \in Station : Same(IF k = n THEN t ELSE sta[k], sta'[k])
  BY <1>4, <1>8, OneMoves DEF Goes
<1>10. TypeOK' BY <1>4, <1>9 DEF TypeOK
<1>11. TriedStep
  <2>1. ASSUME ~UseRts, NEW k \in Station, sta[k].state = "WFACK", sta[k].has,
               sta'[k].id # sta[k].id \/ ~sta'[k].has
        PROVE  sta[k].lost + 1 >= ShortRetryLimit
    <3>1. CASE k = n BY <1>8, <1>9, <2>1, <3>1 DEF Goes, Same
    <3>2. CASE k # n BY <1>9, <2>1, <3>2 DEF Same
    <3> QED BY <3>1, <3>2
  <2> QED BY <2>1 DEF TriedStep
<1>12. t \in MacData /\ (t.out = NoFrame \/ ~Response(t.out)) BY <1>8 DEF Goes
<1>13. u.state \in WaitStates => ~ResponseUnderWay(n)
  BY DEF HandleTimeout, TimerRunsOut
<1>14. u.state \in {"WFCTS", "WFACK"} => ~ResponseUnderWay(n) BY <1>13 DEF WaitStates
<1>15. Awaited' BY <1>2, <1>4, <1>8, <1>12, <1>14, OneAwaits
\* A countdown ends on an idle medium.
<1>16. failed' = failed
  <2>1. s.state \in {"WF_DIFS", "BO"} => p = "IDLE"
    BY <1>1, <1>3 DEF Sound, Ready, DeferStates
  <2>2. failed' = (failed \/ (s.state \in {"WF_DIFS", "BO"} /\ s.has /\ p # "IDLE"))
    BY DEF HandleTimeout
  <2> QED BY <2>1, <2>2 DEF TypeOK
<1> QED BY <1>9, <1>10, <1>11, <1>15, <1>16

\* A frame reaches the air.
LEMMA AirborneKeeps ==
  ASSUME DcfAssumption, TypeOK, Exchange, Awaited, NEW m \in Station, Airborne(m)
  PROVE  TypeOK' /\ Exchange' /\ Awaited' /\ failed' = failed /\ TriedStep
<1>1. PICK locks \in SUBSET {n \in Station : Hears(m, n) /\ Phy(n) = "SENSING" /\ ~Sending(n)} :
        LET near == {n \in Station : Hears(m, n) /\ ~Sending(n)}
            idle == {n \in near : Phy(n) = "IDLE"} IN
        /\ rx' = [n \in Station |->
                    CASE n \in idle -> [from |-> m, clean |-> TRUE]
                      [] n \in locks -> [from |-> m, clean |-> FALSE]
                      [] n \in near \ (idle \cup locks) /\ rx[n].from # NoFrame ->
                           [rx[n] EXCEPT !.clean = FALSE]
                      [] OTHER -> rx[n]]
        /\ air' = [air EXCEPT ![m] = sta[m].out]
        /\ sta' = Ordered([n \in Station |->
                    IF n = m THEN [sta[m] EXCEPT !.out = NoFrame, !.after = Station]
                    ELSE IF n \in idle
                         THEN [ChannelHasBecomeBusy(sta[n]) EXCEPT !.eifs = TRUE]
                    ELSE IF n \in locks THEN [sta[n] EXCEPT !.eifs = TRUE]
                    ELSE sta[n]])
  BY DEF Airborne
<1> DEFINE near == {n \in Station : Hears(m, n) /\ ~Sending(n)}
           idle == {n \in near : Phy(n) = "IDLE"}
           c == [sta[m] EXCEPT !.out = NoFrame, !.after = Station]
           busy(n) == [ChannelHasBecomeBusy(sta[n]) EXCEPT !.eifs = TRUE]
           g == [n \in Station |->
                   IF n = m THEN c ELSE IF n \in idle THEN busy(n)
                   ELSE IF n \in locks THEN [sta[n] EXCEPT !.eifs = TRUE] ELSE sta[n]]
           x == sta[m].out
<1>2. sta' = Ordered(g) /\ air' = [air EXCEPT ![m] = x] BY <1>1
<1>3. UNCHANGED <<offered, got, acked, failed>> /\ x # NoFrame BY DEF Airborne
<1>4. NoFrame \notin Station /\ NoFrame \notin Frame BY DcfFacts
<1>5. /\ sta[m] \in MacData /\ Sound(m, offered[m], sta[m], Phy(m), air[m], rx[m])
      /\ x \in Frame /\ FrameOf(m, sta[m], x) /\ sta[m].state \in SendStates
  BY <1>3 DEF TypeOK, Exchange, Sound, Held, OneFrame, MacData
<1>6. /\ c \in MacData /\ c.out = NoFrame /\ c.state = sta[m].state
      /\ c.timer = sta[m].timer /\ c.ssrc = sta[m].ssrc /\ c.lost = sta[m].lost
      /\ c.has = sta[m].has /\ c.id = sta[m].id /\ c.toSeq = sta[m].toSeq
      /\ c.fromSeq = sta[m].fromSeq
  BY <1>5 DEF MacData
<1> HIDE DEF c
\* The receivers.
<1>7. ASSUME NEW n \in Station
      PROVE  /\ rx'[n] \in [from : Station \cup {NoFrame}, clean : BOOLEAN]
             /\ n \in idle \cup locks => rx'[n].from = m
             /\ n \notin idle \cup locks => rx'[n].from = rx[n].from
  <2>1. rx[n] \in [from : Station \cup {NoFrame}, clean : BOOLEAN] BY DEF TypeOK
  <2>2. CASE n \in idle
    <3>1. rx'[n] = [from |-> m, clean |-> TRUE] BY <1>1, <2>2
    <3> QED BY <2>2, <3>1
  <2>3. CASE n \in locks /\ n \notin idle
    <3>1. rx'[n] = [from |-> m, clean |-> FALSE] BY <1>1, <2>3
    <3> QED BY <2>3, <3>1
  <2>4. CASE n \notin idle \cup locks
    <3>1. rx'[n] = [rx[n] EXCEPT !.clean = FALSE] \/ rx'[n] = rx[n] BY <1>1, <2>4
    <3> QED BY <2>1, <2>4, <3>1
  <2> QED BY <2>2, <2>3, <2>4
<1>8. rx' \in [Station -> [from : Station \cup {NoFrame}, clean : BOOLEAN]]
  <2>1. rx' = [n \in Station |-> rx'[n]] BY <1>1
  <2> QED BY <1>7, <2>1
<1>9. \A k \in Station : air'[k] = IF k = m THEN x ELSE air[k] BY <1>2 DEF TypeOK
<1>10. locks \subseteq {n \in Station : Hears(m, n) /\ Phy(n) = "SENSING" /\ ~Sending(n)}
  OBVIOUS
\* The status of the medium.
<1>11. ASSUME NEW n \in Station, Phy(n)' = "IDLE"
       PROVE  Phy(n) = "IDLE" /\ n \notin idle \cup locks
  <2>1. /\ rx'[n].from = NoFrame
        /\ ~ \E k \in Station : Hears(k, n) /\ air'[k] # NoFrame
    BY <1>11 DEF Phy, Status
  <2>2. n \notin idle \cup locks BY <1>4, <1>7, <2>1
  <2>3. rx[n].from = NoFrame BY <1>7, <2>1, <2>2
  <2>4. ~ \E k \in Station : Hears(k, n) /\ air[k] # NoFrame BY <1>3, <1>9, <2>1
  <2> QED BY <2>2, <2>3, <2>4 DEF Phy, Status
<1>12. ASSUME NEW n \in Station, Phy(n) = "IDLE", ~Sending(n), n \notin idle
       PROVE  Phy(n)' = "IDLE"
  <2>1. /\ rx[n].from = NoFrame
        /\ ~ \E k \in Station : Hears(k, n) /\ air[k] # NoFrame
    BY <1>12 DEF Phy, Status
  <2>2. ~Hears(m, n) /\ n \notin locks BY <1>10, <1>12
  <2>3. rx'[n].from = NoFrame BY <1>7, <1>12, <2>1, <2>2
  <2>4. ~ \E k \in Station : Hears(k, n) /\ air'[k] # NoFrame BY <1>9, <2>1, <2>2
  <2> QED BY <2>3, <2>4 DEF Phy, Status
\* Each station.
<1>13. ASSUME NEW n \in Station
       PROVE  /\ g[n] \in MacData /\ Progress(sta[n], g[n]) /\ Keeps(sta[n], g[n])
              /\ g[n].fromSeq = sta[n].fromSeq
              /\ Sound(n, offered[n], g[n], Phy(n)', air'[n], rx'[n])
  <2>1. sta[n] \in MacData /\ Sound(n, offered[n], sta[n], Phy(n), air[n], rx[n])
    BY DEF TypeOK, Exchange
  <2>2. CASE n = m
    <3>1. g[n] = c /\ air'[n] = x /\ n \notin idle \cup locks
      BY <1>5, <1>9, <1>10, <2>2 DEF Sending
    <3>2. Held(offered[n], c) BY <1>5, <1>6, <2>2 DEF Sound, Held, Packet
    <3>3. DataFrame(n, c) = DataFrame(n, sta[m]) BY <1>6 DEF DataFrame
    <3>4. OneFrame(n, c, x) BY <1>5, <1>6, <2>2, <3>3 DEF OneFrame, FrameOf
    <3>5. Ready(offered[n], c, Phy(n)') BY <1>5, <1>6, States DEF Ready
    <3>6. rx'[n].from = NoFrame BY <1>5, <1>7, <2>2, <3>1 DEF Sound
    <3> QED BY <1>6, <2>2, <3>1, <3>2, <3>4, <3>5, <3>6 DEF Sound, Progress, Keeps
  <2>3. CASE n # m /\ n \in idle
    <3> DEFINE t == busy(n)
    <3>1. g[n] = t /\ ~Sending(n) /\ air'[n] = air[n] BY <1>9, <2>3
    <3>2. /\ t \in MacData /\ Held(offered[n], t) /\ t.state \notin DeferStates
          /\ t.fromSeq = sta[n].fromSeq /\ t.id = sta[n].id /\ t.has = sta[n].has
          /\ t.toSeq = sta[n].toSeq /\ (t.state \in SendStates => t.state = sta[n].state)
      BY <2>1, BusyRests DEF Sound
    <3> HIDE DEF t, busy
    <3>3. t.state \notin SendStates BY <3>1, <3>2 DEF Sending
    <3>4. Phy(n)' # "IDLE" BY <1>11, <2>3
    <3>5. Ready(offered[n], t, Phy(n)') BY <3>2, <3>4 DEF Ready
    <3>6. OneFrame(n, t, air'[n])
      BY <2>1, <3>1, <3>3 DEF Sound, OneFrame, Sending
    <3> QED BY <3>1, <3>2, <3>3, <3>5, <3>6 DEF Sound, Progress, Keeps
  <2>4. CASE n # m /\ n \notin idle
    <3> DEFINE e == [sta[n] EXCEPT !.eifs = TRUE]
    <3>1. g[n] = e \/ g[n] = sta[n] BY <2>4
    <3>2. Same(sta[n], e) BY <2>1 DEF Same, MacData
    <3>3. Same(sta[n], sta[n]) BY <2>1 DEF Same
    <3> HIDE DEF e, g
    <3>4. Same(sta[n], g[n]) BY <3>1, <3>2, <3>3
    <3>5. air'[n] = air[n] BY <1>9, <2>4
    <3>6. sta[n].state \in SendStates => rx'[n].from = NoFrame
      BY <1>7, <1>10, <2>1, <2>4 DEF Sound, Sending
    <3>7. Ready(offered[n], sta[n], Phy(n)')
      BY <1>11, <1>12, <2>1, <2>4, States DEF Sound, Ready, Sending
    <3>8. Sound(n, offered[n], sta[n], Phy(n)', air'[n], rx'[n])
      BY <2>1, <3>5, <3>6, <3>7 DEF Sound
    <3>9. Sound(n, offered[n], g[n], Phy(n)', air'[n], rx'[n])
      BY <3>4, <3>8, SameSound
    <3> QED BY <3>4, <3>9 DEF Same, Progress, Keeps
  <2> QED BY <2>2, <2>3, <2>4
<1>14. g \in [Station -> MacData] BY <1>13
<1>15. /\ sta' \in [Station -> MacData]
       /\ \A k \in Station : /\ Same(g[k], sta'[k])
                             /\ sta'[k].after = g[k].after \cap Due(g)
  <2> HIDE DEF g
  <2> QED BY <1>2, <1>14, OrderedSame
\* What the responses depend on.
<1>16. ASSUME NEW n \in Station
       PROVE  /\ g[n].out = IF n = m THEN NoFrame ELSE sta[n].out
              /\ sta[n].state \in {"WFCTS", "WFACK"} => g[n].state = sta[n].state
              /\ n = m => g[n].after = Station
              /\ n # m /\ air[n] # NoFrame => g[n].after = sta[n].after
  <2>1. sta[n] \in MacData /\ Sound(n, offered[n], sta[n], Phy(n), air[n], rx[n])
    BY DEF TypeOK, Exchange
  <2>2. CASE n = m
    <3>1. g[n] = [sta[m] EXCEPT !.out = NoFrame, !.after = Station] BY <2>2 DEF c
    <3>2. sta[m].state \notin {"WFCTS", "WFACK"} BY <1>5, States DEF WaitStates
    <3> QED BY <2>1, <2>2, <3>1, <3>2 DEF MacData
  <2>3. CASE n # m /\ n \in idle
    <3>1. g[n] = busy(n) /\ ~Sending(n) BY <2>3
    <3>2. /\ busy(n).out = sta[n].out
          /\ sta[n].state \in {"WFCTS", "WFACK"} => busy(n).state = sta[n].state
      BY <2>1, BusyRests DEF Sound
    <3>3. air[n] = NoFrame BY <2>1, <3>1 DEF Sound, OneFrame, Sending
    <3> QED BY <2>3, <3>1, <3>2, <3>3
  <2>4. CASE n # m /\ n \notin idle
    <3>1. g[n] = [sta[n] EXCEPT !.eifs = TRUE] \/ g[n] = sta[n] BY <2>4
    <3> QED BY <2>1, <2>4, <3>1 DEF MacData
  <2> QED BY <2>2, <2>3, <2>4
<1> HIDE DEF g, x, idle, near
<1>17. ASSUME NEW k \in Station
       PROVE  Sound(k, offered[k], sta[k], Phy(k), air[k], rx[k])'
  <2>1. Sound(k, offered[k], sta'[k], Phy(k)', air'[k], rx'[k])
    BY <1>13, <1>15, SameSound
  <2> QED BY <1>3, <2>1
<1>18. \A k \in Station : Progress(sta[k], sta'[k]) /\ sta'[k].fromSeq = sta[k].fromSeq
  BY <1>13, <1>15 DEF Same, Progress
<1>19. \A k \in Station : /\ HandedUpFrom(Dest[k], k)' /\ NotAcked(k)'
                          /\ \A l \in Station : k # Dest[l] => got'[k][l] = <<>>
  BY <1>3, <1>15, <1>18, HistoryKept
<1>20. Exchange' BY <1>17, <1>19 DEF Exchange
<1>21. air' \in [Station -> Frame \cup {NoFrame}] BY <1>2, <1>5 DEF TypeOK
<1>22. TypeOK' BY <1>3, <1>8, <1>15, <1>21 DEF TypeOK
<1>23. TriedStep BY <1>13, <1>15, KeepsTried DEF Same, Keeps
<1>24. ASSUME NEW n \in Station
       PROVE  /\ sta'[n].out = IF n = m THEN NoFrame ELSE sta[n].out
              /\ sta[n].state \in {"WFCTS", "WFACK"} => sta'[n].state = sta[n].state
  BY <1>15, <1>16 DEF Same
<1>25. ASSUME NEW k \in Station, NEW i \in Station PROVE DueInTime(k, i)'
  <2> DEFINE e == sta'[k].out
             j == rx'[i].from
  <2> SUFFICES ASSUME e # NoFrame, e.to = i, Response(e)
               PROVE  Expected(sta'[i], e) /\ (j # NoFrame => k \in sta'[j].after)
    BY DEF DueInTime
  <2>1. k # m /\ e = sta[k].out BY <1>24
  <2>2. Expected(sta[i], e) /\ (rx[i].from # NoFrame => k \in sta[rx[i].from].after)
    BY <2>1 DEF Awaited, DueInTime
  <2>3. Expected(sta'[i], e) BY <1>24, <2>2, StillExpected
  <2>4. k \in Due(g) BY <1>16, <2>1 DEF Due
  <2>5. m \in Station /\ k \in sta'[m].after BY <1>15, <1>16, <2>4
  <2>6. ASSUME j # NoFrame, j # m PROVE k \in sta'[j].after
    <3>1. j \in Station /\ j = rx[i].from BY <1>7, <1>8, <2>6
    <3>2. air[j] # NoFrame BY <3>1 DEF Awaited, OnTheAir
    <3>3. g[j].after = sta[j].after BY <1>16, <2>6, <3>1, <3>2
    <3> QED BY <1>15, <2>2, <2>4, <2>6, <3>1, <3>3
  <2> QED BY <2>3, <2>5, <2>6
<1>26. ASSUME NEW k \in Station, NEW i \in Station PROVE OnTheAir(k, i)'
  <2> SUFFICES ASSUME rx'[i].from = k
               PROVE  air'[k] # NoFrame /\ (air'[k].to = i => Expected(sta'[i], air'[k]))
    BY DEF OnTheAir
  <2>1. CASE k = m
    <3>1. air'[k] = x BY <1>9, <2>1
    <3>2. x.to = i => Expected(sta[i], x)
      <4>1. CASE Response(x) BY <1>3, <4>1 DEF Awaited, DueInTime, x
      <4>2. CASE ~Response(x) BY <4>2 DEF Expected, Response
      <4> QED BY <4>1, <4>2
    <3> QED BY <1>3, <1>24, <3>1, <3>2, StillExpected
  <2>2. CASE k # m
    <3>1. rx[i].from = k /\ air'[k] = air[k] BY <1>7, <1>9, <2>2
    <3>2. air[k] # NoFrame /\ (air[k].to = i => Expected(sta[i], air[k]))
      BY <3>1 DEF Awaited, OnTheAir
    <3> QED BY <1>24, <3>1, <3>2, StillExpected
  <2> QED BY <2>1, <2>2
<1>27. Awaited' BY <1>25, <1>26 DEF Awaited
<1> QED BY <1>3, <1>20, <1>22, <1>23, <1>27

\* A packet is handed up and the next sequence number expected.
LEMMA HandedUpMore ==
  ASSUME DcfAssumption, TypeOK, NEW n \in Station, NEW d \in Station,
         sta' \in [Station -> MacData], HandedUpFrom(d, n), sta[n].has,
         Keeps(sta[n], sta'[n]), sta[d].fromSeq[n] = sta[n].toSeq,
         got'[d][n] = Append(got[d][n], sta[n].id),
         sta'[d].fromSeq[n] = (sta[d].fromSeq[n] + 1) % SeqMod
  PROVE  HandedUpFrom(d, n)'
<1> DEFINE q == got[d][n]
<1>1. sta[n] \in MacData BY DEF TypeOK
<1>2. sta[n].id \in Nat /\ sta[n].toSeq \in 0 .. SeqMod - 1 BY <1>1 DEF MacData, Id
<1>3. q \in Seq(Id) /\ Len(q) \in Nat BY DEF TypeOK
<1>4. sta'[n].id = sta[n].id /\ sta'[n].toSeq = sta[n].toSeq BY DEF Keeps
<1>5. sta'[d].fromSeq[n] # sta'[n].toSeq BY <1>2, <1>4, DcfFacts
<1>6. \A i \in 1 .. Len(q) : q[i] \in Nat /\ q[i] < sta[n].id
  BY <1>3 DEF HandedUpFrom, Id
<1>7. /\ Len(got'[d][n]) = Len(q) + 1
      /\ \A i \in 1 .. Len(q) : got'[d][n][i] = q[i]
      /\ got'[d][n][Len(q) + 1] = sta[n].id
  BY <1>2, <1>3 DEF Id
<1>8. \A i \in 1 .. Len(q) + 1 : i \in 1 .. Len(q) \/ i = Len(q) + 1 BY <1>3
<1>9. \A i, j \in 1 .. Len(q) : i < j => q[i] < q[j] BY DEF HandedUpFrom
<1> HIDE DEF q
<1>10. \A i \in 1 .. Len(q) + 1 : got'[d][n][i] <= sta[n].id
  BY <1>2, <1>6, <1>7, <1>8
<1>11. ASSUME NEW i \in 1 .. Len(q) + 1, NEW j \in 1 .. Len(q) + 1, i < j
       PROVE  got'[d][n][i] < got'[d][n][j]
  <2>1. i \in 1 .. Len(q) BY <1>3, <1>11
  <2>2. CASE j \in 1 .. Len(q) BY <1>7, <1>9, <1>11, <2>1, <2>2
  <2>3. CASE j = Len(q) + 1 BY <1>6, <1>7, <2>1, <2>3
  <2> QED BY <1>8, <2>2, <2>3
<1> QED BY <1>4, <1>5, <1>7, <1>10, <1>11 DEF HandedUpFrom

\* A frame ends.
LEMMA FrameEndsKeeps ==
  ASSUME DcfAssumption, TypeOK, Exchange, Awaited, NEW m \in Station, FrameEnds(m)
  PROVE  TypeOK' /\ Exchange' /\ Awaited' /\ failed' = failed /\ TriedStep
<1> DEFINE f == air[m]
           a == [air EXCEPT ![m] = NoFrame]
           r == [n \in Station |-> IF Deliverable(n, m) THEN Unlocked ELSE rx[n]]
           may == {n \in Station : Deliverable(n, m) /\ (~rx[n].clean \/ Noise)}
           must == {n \in Station : Deliverable(n, m)} \ may
<1>1. PICK lucky \in SUBSET may, longer \in BOOLEAN :
        LET in == lucky \cup must IN
        /\ sta' = Ordered([n \in Station |->
             LET p == Status(n, a, r) IN
             IF n = m THEN TransmissionHasFinished(m, sta[m], p)
             ELSE IF n \in in THEN ReceivePacketFromPhy(n, sta[n], f, p, longer)
             ELSE IF p = "IDLE" /\ ~Sending(n) /\ Phy(n) # "IDLE"
                  THEN PhyStatusIsNowIdle(n, sta[n])
             ELSE sta[n]])
        /\ failed' = (failed \/ \E n \in in : Unexpected(n, sta[n], f, Status(n, a, r)))
        /\ got' = [n \in Station |->
             IF n \in in /\ n = f.to /\ f.type = "DATA" /\ HandedUp(sta[n], f)
             THEN [got[n] EXCEPT ![f.from] = Append(@, f.id)] ELSE got[n]]
        /\ acked' = [n \in Station |->
             IF n \in in /\ n = f.to /\ f.type = "ACK" THEN acked[n] \cup {sta[n].id}
             ELSE acked[n]]
  BY DEF FrameEnds
<1> DEFINE in == lucky \cup must
           p(n) == Status(n, a, r)
           g == [n \in Station |->
                  IF n = m THEN TransmissionHasFinished(m, sta[m], p(n))
                  ELSE IF n \in in THEN ReceivePacketFromPhy(n, sta[n], f, p(n), longer)
                  ELSE IF p(n) = "IDLE" /\ ~Sending(n) /\ Phy(n) # "IDLE"
                       THEN PhyStatusIsNowIdle(n, sta[n])
                  ELSE sta[n]]
           taken(n) == n \in in /\ f.to = n /\ f.type = "DATA" /\ HandedUp(sta[n], f)
           answered(n) == n \in in /\ f.to = n /\ f.type = "ACK"
<1>2. /\ sta' = Ordered(g) /\ failed' \in BOOLEAN
      /\ failed' = (failed \/ \E n \in in : Unexpected(n, sta[n], f, p(n)))
  BY <1>1 DEF TypeOK
<1>3. /\ got' = [n \in Station |-> IF taken(n) THEN [got[n] EXCEPT ![f.from] = Append(@, f.id)]
                                   ELSE got[n]]
      /\ acked' = [n \in Station |-> IF answered(n) THEN acked[n] \cup {sta[n].id}
                                     ELSE acked[n]]
  BY <1>1
<1>4. air' = a /\ rx' = r /\ offered' = offered /\ f # NoFrame /\ sta[m].after = {}
  BY DEF FrameEnds
<1>5. NoFrame \notin Station /\ NoFrame \notin Frame /\ \A n \in Station : Dest[n] \in Station
  BY DcfFacts
<1>6. \A n \in in : n \in Station /\ rx[n].from = m BY DEF Deliverable
\* The sender and its frame.
<1>7. /\ sta[m] \in MacData /\ Held(offered[m], sta[m]) /\ offered[m] \in Nat
      /\ sta[m].state \in SendStates /\ sta[m].out = NoFrame /\ FrameOf(m, sta[m], f)
      /\ f.type = "RTS" => sta[m].state = "X_RTS"
      /\ f.type = "DATA" => sta[m].state = "X_UNICAST"
      /\ f \in Frame /\ f.from = m /\ rx[m].from = NoFrame
  BY <1>4 DEF TypeOK, Exchange, Sound, OneFrame, FrameOf
<1>8. m \notin in BY <1>5, <1>6, <1>7
<1>9. f.type = "DATA" => /\ f.to = Dest[m] /\ f.seq = sta[m].toSeq /\ f.id = sta[m].id
                         /\ sta[m].has
  BY <1>7 DEF FrameOf, DataFrame, Held
\* The medium after it.
<1>10. /\ \A k \in Station : a[k] = IF k = m THEN NoFrame ELSE air[k]
       /\ \A k \in Station : r[k] = IF rx[k].from = m THEN Unlocked ELSE rx[k]
  BY DEF TypeOK, Deliverable
<1>11. Unlocked.from = NoFrame /\ Unlocked \in [from : Station \cup {NoFrame}, clean : BOOLEAN]
  BY DEF Unlocked
<1>12. ASSUME NEW n \in Station, Phy(n) = "IDLE" PROVE p(n) = "IDLE"
  <2>1. /\ rx[n].from = NoFrame
        /\ ~ \E k \in Station : Hears(k, n) /\ air[k] # NoFrame
    BY <1>12 DEF Phy, Status
  <2>2. r[n].from = NoFrame BY <1>10, <1>11, <2>1
  <2>3. ~ \E k \in Station : Hears(k, n) /\ a[k] # NoFrame BY <1>10, <2>1
  <2> HIDE DEF a, r
  <2> QED BY <2>2, <2>3 DEF Status
<1>13. \A n \in Station : Phy(n)' = p(n) BY <1>4 DEF Phy, Status
<1> HIDE DEF p, a, r, f, may, must
\* Each station.
<1>14. ASSUME NEW n \in Station
       PROVE  /\ g[n] \in MacData /\ Progress(sta[n], g[n])
              /\ g[n].fromSeq = IF taken(n)
                                THEN [sta[n].fromSeq EXCEPT ![f.from] = (@ + 1) % SeqMod]
                                ELSE sta[n].fromSeq
              /\ IF answered(n) THEN g[n].id > sta[n].id \/ (g[n].id = sta[n].id /\ ~g[n].has)
                 ELSE Keeps(sta[n], g[n])
              /\ Sound(n, offered[n], g[n], p(n), a[n], r[n])
              /\ n \in in => Reply(f, g[n]) /\ sta[n].state \in WaitStates \cup {"IDLE"}
              /\ n \notin in => g[n].out = (IF n = m THEN NoFrame ELSE sta[n].out)
              /\ n \notin in /\ n # m => g[n] = sta[n] \/ sta[n].state = "IDLE"
  <2>1. /\ sta[n] \in MacData /\ offered[n] \in Nat
        /\ Sound(n, offered[n], sta[n], Phy(n), air[n], rx[n])
    BY DEF TypeOK, Exchange
  <2>2. CASE n = m
    <3>1. g[n] = TransmissionHasFinished(m, sta[m], p(m)) /\ ~taken(n) /\ ~answered(n)
      BY <1>8, <2>2
    <3>2. Rests(offered[m], sta[m], g[n], p(m)) /\ Keeps(sta[m], g[n])
      BY <1>7, <3>1, FinishedRests
    <3>3. a[n] = NoFrame BY <1>10, <2>2
    <3> HIDE DEF g, taken, answered
    <3>4. Sound(n, offered[n], g[n], p(n), a[n], r[n])
      BY <2>2, <3>2, <3>3 DEF Rests, Sound, OneFrame
    <3>5. g[n].out = NoFrame BY <3>2 DEF Rests, Held
    <3> QED BY <1>8, <2>2, <3>1, <3>2, <3>4, <3>5 DEF Rests
  <2>3. CASE n # m /\ n \in in
    <3>1. g[n] = ReceivePacketFromPhy(n, sta[n], f, p(n), longer) BY <2>3
    <3>2. rx[n].from # NoFrame /\ Phy(n) # "IDLE" BY <1>5, <1>6, <2>3 DEF Phy, Status
    <3>3. sta[n].state \in WaitStates \cup {"IDLE"}
      BY <2>1, <3>2 DEF Sound, Ready, MacData
    <3>4. Received(n, sta[n], g[n], f, p(n))
      BY <1>7, <2>1, <3>1, <3>3, ReceivedFrame DEF Sound
    <3>5. a[n] = NoFrame /\ r[n].from = NoFrame
      BY <1>6, <1>10, <1>11, <2>1, <2>3, <3>3, States DEF Sound, OneFrame
    <3>6. taken(n) <=> f.to = n /\ f.type = "DATA" /\ HandedUp(sta[n], f) BY <2>3
    <3>7. answered(n) <=> f.to = n /\ f.type = "ACK" BY <2>3
    <3> HIDE DEF g, taken, answered
    <3>8. Sound(n, offered[n], g[n], p(n), a[n], r[n])
      BY <3>4, <3>5 DEF Received, Sound, OneFrame
    <3> QED BY <2>3, <3>3, <3>4, <3>6, <3>7, <3>8 DEF Received
  <2>4. CASE n # m /\ n \notin in
    <3>1. a[n] = air[n] /\ (r[n].from = NoFrame \/ r[n] = rx[n]) /\ ~taken(n) /\ ~answered(n)
      BY <1>10, <1>11, <2>4
    <3>2. CASE p(n) = "IDLE" /\ ~Sending(n) /\ Phy(n) # "IDLE"
      <4>1. g[n] = PhyStatusIsNowIdle(n, sta[n]) BY <2>4, <3>2
      <4>2. Rests(offered[n], sta[n], g[n], p(n)) /\ Keeps(sta[n], g[n])
        BY <2>1, <3>2, <4>1, IdleRests DEF Sending, Sound
      <4> HIDE DEF g, taken, answered
      <4>3. Sound(n, offered[n], g[n], p(n), a[n], r[n])
        BY <2>1, <3>1, <3>2, <4>2 DEF Rests, Sound, OneFrame, Sending
      <4>4. g[n].out = NoFrame /\ sta[n].out = NoFrame
        BY <2>1, <3>2, <4>2 DEF Rests, Held, Sound, Sending
      <4>5. sta[n].state # "IDLE" => g[n] = sta[n] BY <4>1 DEF PhyStatusIsNowIdle
      <4> QED BY <2>4, <3>1, <4>2, <4>3, <4>4, <4>5 DEF Rests
    <3>3. CASE ~(p(n) = "IDLE" /\ ~Sending(n) /\ Phy(n) # "IDLE")
      <4>1. g[n] = sta[n] BY <2>4, <3>3
      <4>2. Ready(offered[n], sta[n], p(n))
        BY <1>12, <2>1, <3>3, States DEF Sound, Ready, Sending
      <4> HIDE DEF g, taken, answered
      <4>3. Sound(n, offered[n], sta[n], p(n), a[n], r[n])
        BY <2>1, <3>1, <4>2 DEF Sound
      <4> QED BY <2>1, <2>4, <3>1, <4>1, <4>3 DEF Progress, Keeps
    <3> QED BY <3>2, <3>3
  <2> QED BY <2>2, <2>3, <2>4
<1>15. g \in [Station -> MacData] BY <1>14
\* Who sent waits.
<1>16. /\ f.type = "RTS" => g[m].state = "WFCTS"
       /\ f.type = "DATA" => g[m].state = "WFACK"
  <2>1. g[m] = TransmissionHasFinished(m, sta[m], p(m)) OBVIOUS
  <2> HIDE DEF g
  <2> QED BY <1>7, <2>1 DEF TransmissionHasFinished, StartTimer, MacData
<1> HIDE DEF g
<1>17. /\ sta' \in [Station -> MacData]
       /\ \A k \in Station : /\ Same(g[k], sta'[k])
                             /\ sta'[k].after = g[k].after \cap Due(g)
  BY <1>2, <1>15, OrderedSame
<1>18. ASSUME NEW n \in Station
       PROVE  /\ Progress(sta[n], sta'[n])
              /\ sta'[n].fromSeq = IF taken(n)
                                   THEN [sta[n].fromSeq EXCEPT ![f.from] = (@ + 1) % SeqMod]
                                   ELSE sta[n].fromSeq
              /\ IF answered(n)
                 THEN sta'[n].id > sta[n].id \/ (sta'[n].id = sta[n].id /\ ~sta'[n].has)
                 ELSE Keeps(sta[n], sta'[n])
              /\ Sound(n, offered[n], sta[n], Phy(n), air[n], rx[n])'
  <2> HIDE DEF taken, answered
  <2>1. Same(g[n], sta'[n]) BY <1>17
  <2>2. Sound(n, offered[n], sta'[n], p(n), a[n], r[n]) BY <1>14, <2>1, SameSound
  <2>3. Sound(n, offered[n], sta[n], Phy(n), air[n], rx[n])' BY <1>4, <1>13, <2>2
  <2> QED BY <1>14, <2>1, <2>3 DEF Same, Progress, Keeps
\* What is handed up.
<1>19. ASSUME NEW n \in Station PROVE HandedUpFrom(Dest[n], n)'
  <2> DEFINE d == Dest[n]
  <2>1. d \in Station /\ HandedUpFrom(d, n) BY <1>5 DEF Exchange
  <2>2. sta[d] \in MacData /\ sta[d].fromSeq \in [Station -> 0 .. SeqMod - 1]
    BY <2>1 DEF TypeOK, MacData
  <2>3. got[d] \in [Station -> Seq(Id)] BY <2>1 DEF TypeOK
  <2>4. CASE taken(d) /\ n = m
    <3>1. /\ sta[d].fromSeq[n] = sta[n].toSeq /\ sta[n].has
          /\ f.id = sta[n].id /\ f.from = n /\ d \in in
      BY <1>7, <1>9, <2>4 DEF HandedUp, CorrectSequenceNumber
    <3>2. got'[d] = [got[d] EXCEPT ![n] = Append(@, sta[n].id)]
      BY <1>3, <2>1, <2>4, <3>1
    <3>3. got'[d][n] = Append(got[d][n], sta[n].id) BY <2>3, <3>2
    <3>4. sta'[d].fromSeq[n] = (sta[d].fromSeq[n] + 1) % SeqMod
      <4>1. sta'[d].fromSeq = [sta[d].fromSeq EXCEPT ![n] = (@ + 1) % SeqMod]
        <5> HIDE DEF taken, answered, d
        <5> QED BY <1>18, <2>1, <2>4, <3>1
      <4> QED BY <2>2, <4>1
    <3>5. Keeps(sta[n], sta'[n]) BY <1>8, <1>18, <2>4
    <3> QED BY <1>17, <2>1, <3>1, <3>3, <3>4, <3>5, HandedUpMore
  <2>5. CASE ~(taken(d) /\ n = m)
    <3>1. got'[d][n] = got[d][n]
      <4>1. CASE taken(d)
        <5>1. got'[d] = [got[d] EXCEPT ![m] = Append(@, f.id)]
          BY <1>3, <1>7, <2>1, <4>1
        <5> QED BY <2>3, <2>5, <4>1, <5>1
      <4>2. CASE ~taken(d) BY <1>3, <2>1, <4>2
      <4> QED BY <4>1, <4>2
    <3>2. sta'[d].fromSeq[n] = sta[d].fromSeq[n]
      BY <1>7, <1>18, <2>1, <2>2, <2>5
    <3>3. Progress(sta[n], sta'[n]) BY <1>18
    <3> QED BY <1>17, <2>1, <3>1, <3>2, <3>3, HandedUpStays
  <2> QED BY <2>4, <2>5
<1>20. ASSUME NEW n \in Station, NEW k \in Station, n # Dest[k] PROVE got'[n][k] = <<>>
  <2>1. got[n] \in [Station -> Seq(Id)] /\ got[n][k] = <<>>
    BY <1>20 DEF TypeOK, Exchange
  <2>2. CASE taken(n)
    <3>1. n = Dest[m] /\ k # m BY <1>9, <1>20, <2>2
    <3>2. got'[n] = [got[n] EXCEPT ![m] = Append(@, f.id)] BY <1>3, <1>7, <2>2
    <3> QED BY <2>1, <3>1, <3>2
  <2>3. CASE ~taken(n) BY <1>3, <2>1, <2>3
  <2> QED BY <2>2, <2>3
\* What is acknowledged.
<1>21. ASSUME NEW n \in Station PROVE NotAcked(n)'
  <2>1. NotAcked(n) /\ acked[n] \subseteq Nat BY DEF TypeOK, Exchange, Id
  <2>2. sta[n] \in MacData /\ sta'[n] \in MacData BY <1>17 DEF TypeOK
  <2>3. sta[n].id \in Nat /\ sta'[n].id \in Nat BY <2>2 DEF MacData, Id
  <2>4. CASE answered(n)
    <3>1. acked'[n] = acked[n] \cup {sta[n].id} BY <1>3, <2>4
    <3>2. sta'[n].id > sta[n].id \/ (sta'[n].id = sta[n].id /\ ~sta'[n].has)
      BY <1>18, <2>4
    <3> QED BY <2>1, <2>3, <3>1, <3>2 DEF NotAcked
  <2>5. CASE ~answered(n)
    <3>1. acked'[n] = acked[n] BY <1>3, <2>5
    <3> QED BY <1>17, <1>18, <2>1, <3>1, NotAckedStays
  <2> QED BY <2>4, <2>5
<1>22. Exchange' BY <1>18, <1>19, <1>20, <1>21 DEF Exchange
<1>23. TypeOK'
  <2>1. air' \in [Station -> Frame \cup {NoFrame}] BY <1>4 DEF TypeOK, a
  <2>2. rx' \in [Station -> [from : Station \cup {NoFrame}, clean : BOOLEAN]]
    BY <1>4, <1>11 DEF TypeOK, r
  <2>3. got' \in [Station -> [Station -> Seq(Id)]]
    <3>1. f.id \in Id /\ f.from \in Station BY <1>7 DEF Frame
    <3>2. ASSUME NEW n \in Station
          PROVE  [got[n] EXCEPT ![f.from] = Append(@, f.id)] \in [Station -> Seq(Id)]
      BY <3>1 DEF TypeOK
    <3> QED BY <1>3, <3>2 DEF TypeOK
  <2>4. acked' \in [Station -> SUBSET Id]
    <3>1. \A n \in Station : sta[n].id \in Id BY DEF TypeOK, MacData
    <3> QED BY <1>3, <3>1 DEF TypeOK
  <2> QED BY <1>2, <1>4, <1>17, <2>1, <2>2, <2>3, <2>4 DEF TypeOK
\* An acknowledgement that takes a packet is a new one.
<1>24. TriedStep
  <2>1. ASSUME NEW k \in Station, sta[k].state = "WFACK", sta[k].has,
               acked'[k] = acked[k]
        PROVE  Keeps(sta[k], sta'[k])
    <3>1. NotAcked(k) /\ sta[k].id \in Nat BY DEF TypeOK, Exchange, MacData, Id
    <3>2. sta[k].id \notin acked[k] BY <2>1, <3>1 DEF NotAcked
    <3>3. ~answered(k) BY <1>3, <2>1, <3>2
    <3> QED BY <1>18, <3>3
  <2> QED BY <2>1 DEF TriedStep, Keeps
\* The responses to come: who is locked on the frame that ends has none due.
<1>25. ASSUME NEW k \in Station, sta[k].state \in {"WFCTS", "WFACK"}, k \notin in
       PROVE  k # m /\ sta'[k].state = sta[k].state
  <2>1. k # m /\ sta[k].state # "IDLE" BY <1>7, <1>25, States DEF WaitStates
  <2> QED BY <1>14, <1>17, <1>25, <2>1 DEF Same
<1>26. ASSUME NEW k \in Station, NEW i \in Station PROVE OnTheAir(k, i)'
  <2> SUFFICES ASSUME rx'[i].from = k
               PROVE  air'[k] # NoFrame /\ (air'[k].to = i => Expected(sta'[i], air'[k]))
    BY DEF OnTheAir
  <2>1. rx[i].from = k /\ k # m BY <1>4, <1>5, <1>10, <1>11
  <2>2. air'[k] = air[k] /\ i \notin in BY <1>4, <1>6, <1>10, <2>1
  <2>3. air[k] # NoFrame /\ (air[k].to = i => Expected(sta[i], air[k]))
    BY <2>1 DEF Awaited, OnTheAir
  <2> QED BY <1>25, <2>2, <2>3, StillExpected
<1>27. ASSUME NEW k \in Station, NEW i \in Station PROVE DueInTime(k, i)'
  <2> DEFINE e == sta'[k].out
             j == rx'[i].from
  <2> SUFFICES ASSUME e # NoFrame, e.to = i, Response(e)
               PROVE  Expected(sta'[i], e) /\ (j # NoFrame => k \in sta'[j].after)
    BY DEF DueInTime
  <2>1. e = g[k].out BY <1>17 DEF Same
  <2>2. CASE k \in in
    <3>1. Reply(f, g[k]) BY <1>14, <2>2
    <3>2. i = m /\ (e.type = "CTS" => f.type = "RTS") /\ (e.type = "ACK" => f.type = "DATA")
      BY <1>7, <2>1, <3>1 DEF Reply
    <3>3. sta'[m].state = g[m].state BY <1>17 DEF Same
    <3>4. Expected(sta'[i], e) BY <1>16, <3>2, <3>3 DEF Expected
    <3>5. j = NoFrame BY <1>4, <1>7, <1>10, <1>11, <3>2
    <3> QED BY <3>4, <3>5
  <2>3. CASE k \notin in
    <3>1. e = sta[k].out BY <1>14, <2>1, <2>3
    <3>2. Expected(sta[i], e) /\ (rx[i].from # NoFrame => k \in sta[rx[i].from].after)
      BY <3>1 DEF Awaited, DueInTime
    <3>3. i \notin in BY <1>4, <1>5, <1>6, <3>2
    <3>4. Expected(sta'[i], e) BY <1>25, <3>2, <3>3, StillExpected
    <3>5. ASSUME j # NoFrame PROVE k \in sta'[j].after
      <4>1. j = rx[i].from /\ j # m /\ j \in Station
        <5>1. j = r[i].from BY <1>4
        <5>2. rx[i].from # m BY <1>10, <1>11, <3>5, <5>1
        <5>3. j = rx[i].from BY <1>10, <5>1, <5>2
        <5>4. rx[i].from \in Station \cup {NoFrame} BY DEF TypeOK
        <5> QED BY <3>5, <5>2, <5>3, <5>4
      <4>2. air[j] # NoFrame BY <4>1 DEF Awaited, OnTheAir
      <4>3. sta[j].state \in SendStates BY <4>1, <4>2 DEF Exchange, Sound, OneFrame
      <4>4. j \notin in BY <1>14, <4>1, <4>3, States
      <4>5. g[j] = sta[j] BY <1>14, <4>1, <4>3, <4>4, States
      <4>6. k \in Due(g) BY <2>1 DEF Due
      <4> QED BY <1>17, <3>2, <3>5, <4>1, <4>5, <4>6
    <3> QED BY <3>4, <3>5
  <2> QED BY <2>2, <2>3
<1>28. Awaited' BY <1>26, <1>27 DEF Awaited
\* No assertion fails.
<1>29. ASSUME NEW n \in in PROVE ~Unexpected(n, sta[n], f, p(n))
  <2>1. n \in Station /\ rx[n].from = m BY <1>6
  <2>2. sta[n].state \in WaitStates \cup {"IDLE"} BY <1>14, <2>1
  <2>3. f.to = n => Expected(sta[n], f) BY <2>1 DEF Awaited, OnTheAir, f
  <2> QED BY <2>2, <2>3, States DEF Unexpected, Expected
<1>30. failed' = failed BY <1>2, <1>29 DEF TypeOK
<1> QED BY <1>22, <1>23, <1>24, <1>28, <1>30

-----------------------------------------------------------------------------
(* The specification. *)

\* The stations at the start.
LEMMA ExchangeBegins ==
  ASSUME DcfAssumption, Init
  PROVE  TypeOK /\ Exchange
<1> DEFINE s == [state |-> "IDLE", timer |-> FALSE, after |-> {}, backoff |-> FALSE,
                 nav |-> FALSE, eifs |-> FALSE, ssrc |-> 0, slrc |-> 0, lost |-> 0,
                 has |-> FALSE, id |-> 0, toSeq |-> 0,
                 fromSeq |-> [m \in Station |-> 0], out |-> NoFrame]
<1>1. /\ 0 \in 0 .. ShortRetryLimit - 1 /\ 0 \in 0 .. LongRetryLimit - 1
      /\ 0 \in 0 .. SeqMod - 1
  BY DcfFacts
<1>2. s \in MacData BY <1>1 DEF MacData, Id
<1>3. /\ sta = [n \in Station |-> s] /\ air = [n \in Station |-> NoFrame]
      /\ rx = [n \in Station |-> [from |-> NoFrame, clean |-> TRUE]]
      /\ offered = [n \in Station |-> 0] /\ got = [n \in Station |-> [m \in Station |-> <<>>]]
      /\ acked = [n \in Station |-> {}] /\ failed = FALSE
  BY DEF Init
<1>4. TypeOK
  <2>1. \A n \in Station : 0 <= Packets[n] BY DEF DcfAssumption
  <2>2. <<>> \in Seq(Id) OBVIOUS
  <2>3. got \in [Station -> [Station -> Seq(Id)]] BY <1>3, <2>2
  <2> HIDE DEF s
  <2> QED BY <1>2, <1>3, <2>1, <2>3 DEF TypeOK
<1>5. ASSUME NEW n \in Station
      PROVE  /\ Sound(n, offered[n], sta[n], Phy(n), air[n], rx[n])
             /\ HandedUpFrom(Dest[n], n) /\ NotAcked(n)
             /\ \A m \in Station : n # Dest[m] => got[n][m] = <<>>
  <2>1. sta[n] = s /\ offered[n] = 0 /\ air[n] = NoFrame /\ rx[n].from = NoFrame BY <1>3
  <2>2. Held(0, s) BY DEF Held, Packet, SendStates, WaitStates, DeferStates
  <2>3. Ready(0, s, Phy(n)) BY DEF Ready, DeferStates
  <2>4. Sound(n, 0, s, Phy(n), NoFrame, rx[n])
    BY <2>1, <2>2, <2>3 DEF Sound, OneFrame, SendStates
  <2>5. \A k, m \in Station : got[k][m] = <<>> /\ acked[k] = {} BY <1>3
  <2>6. Dest[n] \in Station BY DcfFacts
  <2> QED BY <2>1, <2>4, <2>5, <2>6 DEF HandedUpFrom, NotAcked
<1> QED BY <1>4, <1>5 DEF Exchange

\* No response is due at the start.
LEMMA AwaitedBegins ==
  ASSUME DcfAssumption, Init
  PROVE  Awaited /\ ~failed
<1>1. \A n \in Station : sta[n].out = NoFrame /\ rx[n].from = NoFrame BY DEF Init
<1> QED BY <1>1, DcfFacts DEF Init, Awaited, DueInTime, OnTheAir

\* Every step keeps the invariant.
LEMMA ExchangeGoesOn ==
  ASSUME DcfAssumption, TypeOK, Exchange, Awaited, [Next]_vars
  PROVE  TypeOK' /\ Exchange' /\ Awaited' /\ failed' = failed /\ TriedStep
<1> DEFINE Goal == TypeOK' /\ Exchange' /\ Awaited' /\ failed' = failed /\ TriedStep
<1>1. ASSUME NEW n \in Station, NetworkLayerHasPacketToSend(n) PROVE Goal
  BY <1>1, OfferedKeeps
<1>2. ASSUME NEW n \in Station, Airborne(n) PROVE Goal BY <1>2, AirborneKeeps
<1>3. ASSUME NEW n \in Station, FrameEnds(n) PROVE Goal BY <1>3, FrameEndsKeeps
<1>4. ASSUME NEW n \in Station, HandleTimeout(n) PROVE Goal BY <1>4, TimeoutKeeps
<1>5. ASSUME NEW n \in Station, NavPasses(n) PROVE Goal BY <1>5, NavKeeps
<1>6. CASE UNCHANGED vars
  <2>1. /\ sta' = sta /\ air' = air /\ rx' = rx /\ offered' = offered /\ got' = got
        /\ acked' = acked /\ failed' = failed
    BY <1>6 DEF vars
  <2>2. \A n \in Station : Phy(n)' = Phy(n) BY <2>1 DEF Phy, Status
  <2>3. TypeOK' BY <2>1 DEF TypeOK
  <2>4. Exchange' BY <2>1, <2>2 DEF Exchange, HandedUpFrom, NotAcked
  <2>5. Awaited' BY <2>1 DEF Awaited, DueInTime, OnTheAir
  <2>6. TriedStep BY <2>1 DEF TriedStep
  <2> QED BY <2>1, <2>3, <2>4, <2>5, <2>6
<1> QED BY <1>1, <1>2, <1>3, <1>4, <1>5, <1>6 DEF Next, Step

\* The exchange of frames: what a station has on the air is the packet it has in hand,
\* who counts down has an idle medium, whom a CTS or ACK comes to waits for it, and the
\* sequence number expected of a sender tells whether its packet was handed up already;
\* no packet is taken that was not handed down.
THEOREM DcfExchange ==
  ASSUME DcfAssumption PROVE Spec => [](TypeOK /\ Exchange /\ Awaited /\ ~failed)
<1>1. Init => TypeOK /\ Exchange /\ Awaited /\ ~failed BY ExchangeBegins, AwaitedBegins
<1>2. TypeOK /\ Exchange /\ Awaited /\ ~failed /\ [Next]_vars =>
        TypeOK' /\ Exchange' /\ Awaited' /\ ~failed'
  BY ExchangeGoesOn
<1> QED BY <1>1, <1>2, PTL DEF Spec

\* The stations, what is on the air and what the network layers have got are what the
\* code's types say, and no retry counter is left at its limit.
THEOREM DcfTypes ==
  ASSUME DcfAssumption PROVE Spec => []TypeOK
BY DcfExchange, PTL

\* Whatever is lost and repeated, whoever hears whom, a station hands up the packets of
\* each sender at most once and in the order they were sent.
THEOREM DcfDelivered ==
  ASSUME DcfAssumption PROVE Spec => []DeliveredOnceInOrder
<1>1. TypeOK /\ Exchange => DeliveredOnceInOrder
  <2> SUFFICES ASSUME TypeOK, Exchange, NEW n \in Station, NEW m \in Station
               PROVE  \A i, j \in 1 .. Len(got[n][m]) : i < j => got[n][m][i] < got[n][m][j]
    BY DEF DeliveredOnceInOrder
  <2>1. CASE n = Dest[m] BY <2>1 DEF Exchange, HandedUpFrom
  <2>2. CASE n # Dest[m]
    <3>1. got[n][m] = <<>> BY <2>2 DEF Exchange
    <3> QED BY <3>1
  <2> QED BY <2>1, <2>2
<1> QED BY <1>1, DcfExchange, PTL

\* The waiting and counting states, and only they, have a live timer.
THEOREM DcfTimersFit ==
  ASSUME DcfAssumption PROVE Spec => []TimersFitStates
<1>1. Exchange => TimersFitStates BY DEF Exchange, Sound, Held, TimersFitStates
<1> QED BY <1>1, DcfExchange, PTL

\* No station is idle on an idle medium while it has a packet or one is offered.
THEOREM DcfNoStall ==
  ASSUME DcfAssumption PROVE Spec => []NoStall
<1>1. Exchange => NoStall BY DEF Exchange, Sound, Ready, NoStall
<1> QED BY <1>1, DcfExchange, PTL

\* No ERROR_Assert of the frame path fails: no frame for others comes to a station that
\* is counting down, no CTS or ACK to one that does not wait for it, and no countdown ends
\* on a busy medium.
THEOREM DcfAsserts ==
  ASSUME DcfAssumption PROVE Spec => []AssertionsHold
<1>1. ~failed => AssertionsHold BY DEF AssertionsHold
<1> QED BY <1>1, DcfExchange, PTL

\* A packet sent without RTS is given up only after as many attempts as the limit of
\* short retries says.
THEOREM DcfTried ==
  ASSUME DcfAssumption PROVE Spec => TriedUpToLimit
<1>1. TypeOK /\ Exchange /\ Awaited /\ [Next]_vars => [TriedStep]_vars
  BY ExchangeGoesOn
<1> QED BY <1>1, DcfExchange, PTL DEF Spec, TriedUpToLimit

-----------------------------------------------------------------------------
(* Peer links of two mesh points: every state of the machine has its timer and no other. *)

CONSTANTS Capacity, RequestsMax, MaxOthers, MaxLosses, MaxId, MaxWire
VARIABLES nb, cap, others, wire, heard, lsTimer, missed, losses, meshFailed

Peering == INSTANCE MeshPeering WITH failed <- meshFailed

\* The timers that run in a state of the association.
TimersOf(s) ==
  CASE s \in {"OPEN_SENT", "CONFIRM_SENT"} -> {"RETRY_TIMEOUT"}
    [] s = "CONFIRM_RECEIVED" -> {"OPEN_TIMEOUT"}
    [] s = "HOLDING" -> {"CANCEL_TIMEOUT"}
    [] OTHER -> {}

\* The states of a neighbour whose association is in state s.
StatesOf(s) ==
  CASE s \in {"OPEN_SENT", "CONFIRM_SENT", "CONFIRM_RECEIVED"} -> {"ASSOC_PENDING"}
    [] s = "ESTABLISHED" -> Peering!Down \cup Peering!Up
    [] OTHER -> {"NO_CAPABILITY", "CANDIDATE_PEER"}

\* An item has its fields; link ids may be anything.
IsItem(i) ==
  /\ DOMAIN i = {"known", "assoc", "state", "linkId", "peerLinkId", "retries", "timers"}
  /\ i.known \in BOOLEAN /\ i.assoc \in Peering!AssocStates
  /\ i.timers \subseteq Peering!Timers

\* Its timers and its state are those of its association, and nothing was begun with a
\* stranger.
GoodItem(i) ==
  /\ IsItem(i)
  /\ i.timers = TimersOf(i.assoc) /\ i.state \in StatesOf(i.assoc)
  /\ ~ i.known => i.assoc = "IDLE" /\ i.state = "NO_CAPABILITY"

\* The capacity that a link takes.
InUse(i) == IF i.assoc = "ESTABLISHED" THEN 1 ELSE 0

IsSequence(s) == \E S : s \in Seq(S)
LinkFrames == {"open", "confirm", "close", "linkstate"}

\* Who opens or confirms knows the other, who is confirmed to knows the sender.
FramesFit(s, i, peer) ==
  /\ IsSequence(s)
  /\ \A k \in 1 .. Len(s) : /\ s[k].type \in LinkFrames
                            /\ s[k].type \in {"open", "confirm"} => i.known = TRUE
                            /\ s[k].type = "confirm" => peer.known = TRUE

\* What an event makes of an item; peer is the item of the other node.
Result(i, r, peer) ==
  /\ GoodItem(r.item) /\ (i.known = TRUE => r.item.known = TRUE)
  /\ r.cap \in {-1, 0, 1} /\ r.cap + InUse(r.item) <= InUse(i)
  /\ r.err \in {"none", "cancel"}
  /\ FramesFit(r.out, r.item, peer)

\* An item that meets an event: a timer that fires ran and no longer runs, and a link
\* is opened only where none is under way.
Meets(i, e, peer) ==
  /\ IsItem(i) /\ i.known = TRUE /\ i.state \in StatesOf(i.assoc)
  /\ e.type \in {"open", "confirm", "close", "ACTIVE_OPEN", "PASSIVE_OPEN", "CANCEL_LINK"} \cup Peering!Timers
  /\ e.type \in TimersOf(i.assoc) \/ e.type \notin Peering!Timers
  /\ i.timers = TimersOf(i.assoc) \ {e.type}
  /\ e.type \in {"ACTIVE_OPEN", "PASSIVE_OPEN"} => i.assoc \in {"IDLE", "LISTEN", "HOLDING"}
  /\ e.type \in {"open", "confirm"} => peer.known = TRUE

\* The frames that an event sends.
LEMMA NothingSent == ASSUME NEW i, NEW peer PROVE FramesFit(<<>>, i, peer)
<1>1. <<>> \in Seq({}) /\ Len(<<>>) = 0 BY EmptySeq
<1> QED BY <1>1 DEF FramesFit, IsSequence

LEMMA OneSent ==
  ASSUME NEW f, NEW i, NEW peer, f.type \in LinkFrames,
         f.type \in {"open", "confirm"} => i.known = TRUE, f.type = "confirm" => peer.known = TRUE
  PROVE  FramesFit(<<f>>, i, peer)
<1>1. <<f>> \in Seq({f}) /\ Len(<<f>>) = 1 /\ <<f>>[1] = f OBVIOUS
<1>2. 1 .. 1 = {1} BY SMT
<1> QED BY <1>1, <1>2 DEF FramesFit, IsSequence

LEMMA TwoSent ==
  ASSUME NEW f, NEW g, NEW i, NEW peer, {f.type, g.type} \subseteq LinkFrames,
         i.known = TRUE, peer.known = TRUE
  PROVE  FramesFit(<<f, g>>, i, peer)
<1>1. <<f, g>> \in Seq({f, g}) /\ Len(<<f, g>>) = 2 /\ <<f, g>>[1] = f /\ <<f, g>>[2] = g OBVIOUS
<1>2. 1 .. 2 = {1, 2} BY SMT
<1> QED BY <1>1, <1>2 DEF FramesFit, IsSequence

\* An outcome, from its parts.
LEMMA ResultOf ==
  ASSUME NEW i, NEW peer, NEW j, j.known = TRUE, NEW r, GoodItem(r.item), r.item.known = TRUE,
         r.cap \in {-1, 0, 1}, r.cap + InUse(r.item) <= InUse(i), r.err \in {"none", "cancel"},
         FramesFit(r.out, j, peer)
  PROVE  Result(i, r, peer)
<1>1. FramesFit(r.out, r.item, peer) BY DEF FramesFit
<1> QED BY <1>1, Zenon DEF Result

\* The link is held, and the capacity it took given back or not.
LEMMA LinkHeld ==
  ASSUME NEW i, NEW peer, NEW j, IsItem(j), j.known = TRUE, NEW out, FramesFit(out, j, peer)
  PROVE  /\ Result(i, Peering!Hold(j, out), peer)
         /\ i.assoc = "ESTABLISHED" => Result(i, [Peering!Hold(j, out) EXCEPT !.cap = 1], peer)
<1>1. /\ DOMAIN j = {"known", "assoc", "state", "linkId", "peerLinkId", "retries", "timers"}
      /\ j.known = TRUE /\ j.timers \subseteq Peering!Timers
  BY DEF IsItem
<1> DEFINE h == [j EXCEPT !.assoc = "HOLDING", !.state = "NO_CAPABILITY",
                        !.timers = (@ \ {"RETRY_TIMEOUT", "OPEN_TIMEOUT"}) \cup {"CANCEL_TIMEOUT"}]
<1>2. (j.timers \ {"RETRY_TIMEOUT", "OPEN_TIMEOUT"}) \cup {"CANCEL_TIMEOUT"} = {"CANCEL_TIMEOUT"}
  BY <1>1 DEF Peering!Timers
<1>3. Peering!Hold(j, out) = [item |-> h, out |-> out, cap |-> 0, err |-> "none"]
  BY DEF Peering!Hold, Peering!Quiet
<1>4. GoodItem(h) /\ h.known = TRUE /\ h.assoc = "HOLDING"
  <2>1. /\ DOMAIN h = DOMAIN j /\ h.known = j.known /\ h.assoc = "HOLDING"
        /\ h.state = "NO_CAPABILITY" /\ h.timers = {"CANCEL_TIMEOUT"}
    BY <1>1, <1>2
  <2> HIDE DEF h
  <2> QED BY <1>1, <2>1, SMT DEF GoodItem, IsItem, TimersOf, StatesOf, Peering!AssocStates, Peering!Timers
<1>5. InUse(h) = 0 BY <1>4 DEF InUse
<1>6. InUse(i) \in {0, 1} /\ (i.assoc = "ESTABLISHED" => InUse(i) = 1) BY DEF InUse
<1>7. [Peering!Hold(j, out) EXCEPT !.cap = 1] = [item |-> h, out |-> out, cap |-> 1, err |-> "none"]
  BY <1>3
<1>8. Result(i, Peering!Hold(j, out), peer)
  <2> DEFINE r == Peering!Hold(j, out)
  <2>1. r.item = h /\ r.out = out /\ r.cap = 0 /\ r.err = "none" BY <1>3
  <2> HIDE DEF r, h
  <2>2. r.cap \in {-1, 0, 1} /\ r.cap + InUse(r.item) <= InUse(i) BY <1>5, <1>6, <2>1, SMT
  <2> QED BY <1>4, <2>1, <2>2, ResultOf, Zenon DEF r
<1>9. ASSUME i.assoc = "ESTABLISHED" PROVE Result(i, [Peering!Hold(j, out) EXCEPT !.cap = 1], peer)
  <2> DEFINE r == [Peering!Hold(j, out) EXCEPT !.cap = 1]
  <2>1. r.item = h /\ r.out = out /\ r.cap = 1 /\ r.err = "none" BY <1>7
  <2> HIDE DEF r, h
  <2>2. r.cap \in {-1, 0, 1} /\ r.cap + InUse(r.item) <= InUse(i) BY <1>5, <1>6, <1>9, <2>1, SMT
  <2> QED BY <1>4, <2>1, <2>2, ResultOf, Zenon DEF r
<1> QED BY <1>8, <1>9

\* A request is sent or repeated, or a confirm answered.
LEMMA LinkAwaits ==
  ASSUME NEW i, NEW peer, NEW j, IsItem(j), j.known = TRUE, NEW out, FramesFit(out, j, peer),
         NEW s \in {"OPEN_SENT", "CONFIRM_SENT"}, j.timers \subseteq {"RETRY_TIMEOUT"}
  PROVE  Result(i, Peering!Await(j, out, s), peer)
<1>1. /\ DOMAIN j = {"known", "assoc", "state", "linkId", "peerLinkId", "retries", "timers"}
      /\ j.known = TRUE /\ j.timers \subseteq Peering!Timers
  BY DEF IsItem
<1> DEFINE h == [j EXCEPT !.assoc = s, !.state = "ASSOC_PENDING", !.retries = @ + 1,
                        !.timers = @ \cup {"RETRY_TIMEOUT"}]
<1>2. j.timers \cup {"RETRY_TIMEOUT"} = {"RETRY_TIMEOUT"}
  OBVIOUS
<1>3. Peering!Await(j, out, s) = [item |-> h, out |-> out, cap |-> 0, err |-> "none"]
  BY DEF Peering!Await, Peering!Quiet
<1>4. GoodItem(h) /\ h.known = TRUE /\ h.assoc = s
  <2>1. /\ DOMAIN h = DOMAIN j /\ h.known = j.known /\ h.assoc = s
        /\ h.state = "ASSOC_PENDING" /\ h.timers = {"RETRY_TIMEOUT"}
    BY <1>1, <1>2
  <2> HIDE DEF h
  <2> QED BY <1>1, <2>1, SMT DEF GoodItem, IsItem, TimersOf, StatesOf, Peering!AssocStates, Peering!Timers
<1>5. InUse(h) = 0 BY <1>4 DEF InUse
<1>6. InUse(i) \in {0, 1} BY DEF InUse
<1> DEFINE r == Peering!Await(j, out, s)
<1>7. r.item = h /\ r.out = out /\ r.cap = 0 /\ r.err = "none" BY <1>3
<1> HIDE DEF r, h
<1>8. r.cap \in {-1, 0, 1} /\ r.cap + InUse(r.item) <= InUse(i) BY <1>5, <1>6, <1>7, SMT
<1> QED BY <1>4, <1>7, <1>8, ResultOf, Zenon DEF r

\* The link is established, and takes its share of the capacity.
LEMMA LinkEstablished ==
  ASSUME NEW i, NEW peer, NEW j, IsItem(j), j.known = TRUE, NEW out, FramesFit(out, j, peer),
         NEW n \in Peering!Nodes, j.timers \subseteq {"RETRY_TIMEOUT", "OPEN_TIMEOUT"}
  PROVE  Result(i, Peering!Establish(n, j, out), peer)
<1>1. /\ DOMAIN j = {"known", "assoc", "state", "linkId", "peerLinkId", "retries", "timers"}
      /\ j.known = TRUE /\ j.timers \subseteq Peering!Timers
  BY DEF IsItem
<1> DEFINE st == IF Peering!Peer(n) > n THEN "SUPERORDINATE_LINK_DOWN" ELSE "SUBORDINATE_LINK_DOWN"
           h == [j EXCEPT !.assoc = "ESTABLISHED",
                        !.timers = @ \ {"RETRY_TIMEOUT", "OPEN_TIMEOUT"}, !.state = st]
<1>2. j.timers \ {"RETRY_TIMEOUT", "OPEN_TIMEOUT"} = {}
  OBVIOUS
<1>3. /\ Peering!Establish(n, j, out).item = h /\ Peering!Establish(n, j, out).out = out
      /\ Peering!Establish(n, j, out).cap = -1 /\ Peering!Establish(n, j, out).err = "none"
  BY DEF Peering!Establish, Peering!Quiet
<1>4. st \in Peering!Down BY DEF Peering!Down
<1> HIDE DEF st
<1>5. GoodItem(h) /\ h.known = TRUE /\ h.assoc = "ESTABLISHED"
  <2>1. /\ DOMAIN h = DOMAIN j /\ h.known = j.known /\ h.assoc = "ESTABLISHED"
        /\ h.state = st /\ h.timers = {}
    BY <1>1, <1>2
  <2> HIDE DEF h
  <2> QED BY <1>1, <2>1, <1>4, SMT DEF GoodItem, IsItem, TimersOf, StatesOf, Peering!AssocStates, Peering!Timers, Peering!Down
<1>6. InUse(i) \in {0, 1} /\ InUse(h) = 1 BY <1>5 DEF InUse
<1> DEFINE r == Peering!Establish(n, j, out)
<1>7. r.item = h /\ r.out = out /\ r.cap = -1 /\ r.err = "none" BY <1>3
<1> HIDE DEF r, h
<1>8. r.cap \in {-1, 0, 1} /\ r.cap + InUse(r.item) <= InUse(i) BY <1>6, <1>7, SMT
<1> QED BY <1>5, <1>7, <1>8, ResultOf, Zenon DEF r

\* The link is forgotten.
LEMMA LinkForgotten ==
  ASSUME NEW i, NEW peer, NEW j, IsItem(j), j.known = TRUE,
         j.timers = {}, j.state \in {"NO_CAPABILITY", "CANDIDATE_PEER"}
  PROVE  Result(i, Peering!ToIdle(j), peer)
<1>1. /\ DOMAIN j = {"known", "assoc", "state", "linkId", "peerLinkId", "retries", "timers"}
      /\ j.known = TRUE /\ j.timers \subseteq Peering!Timers
  BY DEF IsItem
<1> DEFINE h == [j EXCEPT !.assoc = "IDLE", !.linkId = 0, !.peerLinkId = 0, !.retries = 0]
<1>2. FramesFit(<<>>, j, peer) BY NothingSent
<1>3. Peering!ToIdle(j) = [item |-> h, out |-> <<>>, cap |-> 0, err |-> "none"]
  BY DEF Peering!ToIdle, Peering!Quiet
<1>4. GoodItem(h) /\ h.known = TRUE /\ h.assoc = "IDLE"
  <2>1. /\ DOMAIN h = DOMAIN j /\ h.known = j.known /\ h.assoc = "IDLE"
        /\ h.state = j.state /\ h.timers = {}
    BY <1>1
  <2> HIDE DEF h
  <2> QED BY <1>1, <2>1, SMT DEF GoodItem, IsItem, TimersOf, StatesOf, Peering!AssocStates, Peering!Timers
<1>5. InUse(h) = 0 BY <1>4 DEF InUse
<1>6. InUse(i) \in {0, 1} BY DEF InUse
<1> DEFINE r == Peering!ToIdle(j)
<1>7. r.item = h /\ r.out = <<>> /\ r.cap = 0 /\ r.err = "none" BY <1>3
<1> HIDE DEF r, h
<1>8. r.cap \in {-1, 0, 1} /\ r.cap + InUse(r.item) <= InUse(i) BY <1>5, <1>6, <1>7, SMT
<1> QED BY <1>2, <1>4, <1>7, <1>8, ResultOf, Zenon DEF r

\* Or the item stays as it is, but for a frame or an error.
LEMMA Stays ==
  ASSUME NEW i, NEW peer, NEW j, GoodItem(j), j.known = TRUE, InUse(j) <= InUse(i)
  PROVE  /\ Result(i, Peering!Quiet(j), peer) /\ Result(i, Peering!Report(j, "cancel"), peer)
         /\ \A out : FramesFit(out, j, peer) => Result(i, [Peering!Quiet(j) EXCEPT !.out = out], peer)
<1>1. InUse(i) \in {0, 1} /\ InUse(j) \in {0, 1} BY DEF InUse
<1>2. FramesFit(<<>>, j, peer) BY NothingSent
<1>3. Result(i, Peering!Quiet(j), peer)
  <2> DEFINE r == Peering!Quiet(j)
  <2>1. r.item = j /\ r.out = <<>> /\ r.cap = 0 /\ r.err = "none" BY DEF Peering!Quiet, Peering!Report
  <2> HIDE DEF r
  <2>2. r.cap \in {-1, 0, 1} /\ r.cap + InUse(r.item) <= InUse(i) BY <1>1, <2>1, SMT
  <2>3. r.err \in {"none", "cancel"} BY <2>1
  <2> QED BY <1>2, <2>1, <2>2, <2>3, ResultOf, Zenon DEF r
<1>4. Result(i, Peering!Report(j, "cancel"), peer)
  <2> DEFINE r == Peering!Report(j, "cancel")
  <2>1. r.item = j /\ r.out = <<>> /\ r.cap = 0 /\ r.err = "cancel" BY DEF Peering!Quiet, Peering!Report
  <2> HIDE DEF r
  <2>2. r.cap \in {-1, 0, 1} /\ r.cap + InUse(r.item) <= InUse(i) BY <1>1, <2>1, SMT
  <2>3. r.err \in {"none", "cancel"} BY <2>1
  <2> QED BY <1>2, <2>1, <2>2, <2>3, ResultOf, Zenon DEF r
<1>5. ASSUME NEW out, FramesFit(out, j, peer) PROVE Result(i, [Peering!Quiet(j) EXCEPT !.out = out], peer)
  <2> DEFINE r == [Peering!Quiet(j) EXCEPT !.out = out]
  <2>1. r.item = j /\ r.out = out /\ r.cap = 0 /\ r.err = "none" BY DEF Peering!Quiet, Peering!Report
  <2> HIDE DEF r
  <2>2. r.cap \in {-1, 0, 1} /\ r.cap + InUse(r.item) <= InUse(i) BY <1>1, <2>1, SMT
  <2>3. r.err \in {"none", "cancel"} BY <2>1
  <2> QED BY <1>2, <1>5, <2>1, <2>2, <2>3, ResultOf, Zenon DEF r
<1> QED BY <1>3, <1>4, <1>5

\* What an item that meets an event has, whatever the state.
LEMMA MeetsFacts ==
  ASSUME NEW i, NEW e, NEW peer, Meets(i, e, peer)
  PROVE  /\ IsItem(i) /\ i.known = TRUE
         /\ e.type \notin Peering!Timers => GoodItem(i)
         /\ i.assoc \in {"OPEN_SENT", "CONFIRM_SENT"} => i.timers \subseteq {"RETRY_TIMEOUT"}
         /\ i.assoc = "CONFIRM_RECEIVED" => i.timers \subseteq {"OPEN_TIMEOUT"}
         /\ i.assoc \in {"IDLE", "LISTEN", "ESTABLISHED"} =>
              i.timers = {} /\ e.type \notin Peering!Timers
         /\ i.assoc \in {"IDLE", "LISTEN", "HOLDING"} => i.state \in {"NO_CAPABILITY", "CANDIDATE_PEER"}
<1>1. ASSUME e.type \notin Peering!Timers PROVE GoodItem(i)
  <2>1. i.timers = TimersOf(i.assoc)
    <3>1. TimersOf(i.assoc) \subseteq Peering!Timers BY DEF TimersOf, Peering!Timers
    <3> QED BY <1>1, <3>1 DEF Meets
  <2> QED BY <2>1 DEF Meets, GoodItem
<1> QED BY <1>1 DEF Meets, TimersOf, StatesOf

\* An item with other link ids is the same to the rest.
LEMMA OtherIds ==
  ASSUME NEW i, IsItem(i), NEW l, NEW p
  PROVE  LET a == [i EXCEPT !.linkId = l]
             b == [i EXCEPT !.peerLinkId = p]
             c == [i EXCEPT !.linkId = l, !.peerLinkId = p]
         IN \A j \in {a, b, c} : /\ IsItem(j) /\ j.known = i.known /\ j.assoc = i.assoc
                                 /\ j.state = i.state /\ j.timers = i.timers
BY DEF IsItem

\* The frames of the state machine, by type.
LEMMA FrameTypes ==
  ASSUME NEW j
  PROVE  /\ Peering!Request(j).type = "open" /\ Peering!Confirm(j).type = "confirm"
         /\ Peering!Close(j).type = "close"
BY DEF Peering!Request, Peering!Confirm, Peering!Close, Peering!Frame

\* The frames that a node sends who knows the other: a close or an open at any time, a
\* confirm to who is known to know it.
LEMMA Sendable ==
  ASSUME NEW j, j.known = TRUE, NEW peer, NEW m
  PROVE  /\ FramesFit(<<Peering!Request(m)>>, j, peer) /\ FramesFit(<<Peering!Close(m)>>, j, peer)
         /\ FramesFit(<<>>, j, peer)
         /\ peer.known = TRUE => FramesFit(<<Peering!Confirm(m)>>, j, peer)
         /\ peer.known = TRUE => FramesFit(<<Peering!Request(m), Peering!Confirm(m)>>, j, peer)
<1>1. /\ Peering!Request(m).type = "open" /\ Peering!Confirm(m).type = "confirm"
      /\ Peering!Close(m).type = "close"
  BY FrameTypes
<1> DEFINE o == Peering!Request(m)
           c == Peering!Confirm(m)
           z == Peering!Close(m)
<1> HIDE DEF o, c, z
<1>2. o.type = "open" /\ c.type = "confirm" /\ z.type = "close" BY <1>1 DEF o, c, z
<1>3. FramesFit(<<o>>, j, peer)
  <2>1. o.type \in LinkFrames /\ o.type # "confirm" BY <1>2 DEF LinkFrames
  <2> QED BY <2>1, OneSent, Zenon
<1>4. FramesFit(<<z>>, j, peer)
  <2>1. z.type \in LinkFrames /\ z.type # "confirm" BY <1>2 DEF LinkFrames
  <2> QED BY <2>1, OneSent, Zenon
<1>5. ASSUME peer.known = TRUE PROVE FramesFit(<<c>>, j, peer)
  <2>1. c.type \in LinkFrames BY <1>2 DEF LinkFrames
  <2> QED BY <1>5, <2>1, OneSent, Zenon
<1>6. peer.known = TRUE => FramesFit(<<o, c>>, j, peer) BY <1>2, TwoSent DEF LinkFrames
<1> QED BY <1>3, <1>4, <1>5, <1>6, NothingSent DEF o, c, z

\* The state machine, state by state.
LEMMA IdleResult ==
  ASSUME NEW i, NEW e, NEW peer, Meets(i, e, peer), i.assoc = "IDLE"
  PROVE  Result(i, Peering!IdleState(i, e), peer)
<1> DEFINE l == Peering!GetRandomLinkId
           j == [i EXCEPT !.linkId = l]
           k == [i EXCEPT !.linkId = l, !.assoc = "LISTEN"]
<1>1. /\ IsItem(i) /\ i.known = TRUE /\ GoodItem(i) /\ i.timers = {}
      /\ i.state \in {"NO_CAPABILITY", "CANDIDATE_PEER"} /\ e.type \notin Peering!Timers
  BY MeetsFacts
<1> HIDE DEF l
<1>2. IsItem(j) /\ j.known = TRUE /\ j.timers = {}
  BY <1>1, OtherIds
<1>3. Result(i, Peering!Await(j, <<Peering!Request(j)>>, "OPEN_SENT"), peer)
  <2> HIDE DEF j
  <2>1. FramesFit(<<Peering!Request(j)>>, j, peer) BY <1>2, Sendable
  <2> QED BY <1>2, <2>1, LinkAwaits
<1>4. Result(i, Peering!Quiet(k), peer)
  <2>1. /\ DOMAIN k = DOMAIN i /\ k.known = i.known /\ k.assoc = "LISTEN"
        /\ k.state = i.state /\ k.timers = i.timers
    BY <1>1 DEF IsItem
  <2> HIDE DEF k
  <2>2. GoodItem(k) /\ k.known = TRUE
    BY <1>1, <2>1 DEF GoodItem, IsItem, TimersOf, StatesOf, Peering!AssocStates
  <2>3. InUse(k) <= InUse(i) BY <2>1, SMT DEF InUse
  <2> QED BY <2>2, <2>3, Stays
<1>5. Result(i, Peering!Quiet(i), peer) /\ Result(i, Peering!Report(i, "cancel"), peer)
  <2>1. InUse(i) <= InUse(i) BY SMT DEF InUse
  <2> QED BY <1>1, <2>1, Stays
<1>6. Peering!IdleState(i, e) \in
        {Peering!Await(j, <<Peering!Request(j)>>, "OPEN_SENT"), Peering!Quiet(k),
         Peering!Report(i, "cancel"), Peering!Quiet(i)}
  BY <1>1 DEF Peering!IdleState, l
<1> QED BY <1>3, <1>4, <1>5, <1>6

\* A close is sent and the link held, from any item with the ids it is given.
LEMMA CloseResult ==
  ASSUME NEW i, NEW j, NEW peer, IsItem(j), j.known = TRUE
  PROVE  /\ Result(i, Peering!CloseAndHold(j), peer)
         /\ i.assoc = "ESTABLISHED" => Result(i, [Peering!CloseAndHold(j) EXCEPT !.cap = 1], peer)
         /\ Result(i, Peering!Hold(j, <<>>), peer)
<1> DEFINE z == <<Peering!Close(j)>>
<1>1. FramesFit(z, j, peer) /\ FramesFit(<<>>, j, peer) BY Sendable
<1> HIDE DEF z
<1>2. /\ Result(i, Peering!Hold(j, z), peer)
      /\ i.assoc = "ESTABLISHED" => Result(i, [Peering!Hold(j, z) EXCEPT !.cap = 1], peer)
  BY <1>1, LinkHeld
<1>3. Result(i, Peering!Hold(j, <<>>), peer) BY <1>1, LinkHeld
<1> QED BY <1>2, <1>3 DEF z, Peering!CloseAndHold

\* A request and perhaps a confirm are sent, and the answer awaited.
LEMMA AwaitResult ==
  ASSUME NEW i, NEW j, NEW peer, IsItem(j), j.known = TRUE, j.timers \subseteq {"RETRY_TIMEOUT"},
         NEW t \in {"OPEN_SENT", "CONFIRM_SENT"}
  PROVE  /\ Result(i, Peering!Await(j, <<Peering!Request(j)>>, t), peer)
         /\ peer.known = TRUE => /\ Result(i, Peering!Await(j, <<Peering!Confirm(j)>>, t), peer)
                                 /\ Result(i, Peering!Await(j, <<Peering!Request(j), Peering!Confirm(j)>>, t), peer)
<1> DEFINE o == <<Peering!Request(j)>>
           c == <<Peering!Confirm(j)>>
           b == <<Peering!Request(j), Peering!Confirm(j)>>
<1>1. FramesFit(o, j, peer) /\ (peer.known = TRUE => FramesFit(c, j, peer) /\ FramesFit(b, j, peer))
  BY Sendable
<1> HIDE DEF o, c, b
<1>2. Result(i, Peering!Await(j, o, t), peer) BY <1>1, LinkAwaits
<1>3. peer.known = TRUE => Result(i, Peering!Await(j, c, t), peer) BY <1>1, LinkAwaits
<1>4. peer.known = TRUE => Result(i, Peering!Await(j, b, t), peer) BY <1>1, LinkAwaits
<1> QED BY <1>2, <1>3, <1>4 DEF o, c, b

\* The item stays, with a confirm or without.
LEMMA StayResult ==
  ASSUME NEW i, NEW peer, GoodItem(i), i.known = TRUE
  PROVE  /\ Result(i, Peering!Quiet(i), peer) /\ Result(i, Peering!Report(i, "cancel"), peer)
         /\ Result(i, [Peering!Quiet(i) EXCEPT !.out = <<>>], peer)
         /\ Result(i, [Peering!Quiet(i) EXCEPT !.out = <<Peering!Close(i)>>], peer)
         /\ peer.known = TRUE => Result(i, [Peering!Quiet(i) EXCEPT !.out = <<Peering!Confirm(i)>>], peer)
<1> DEFINE z == <<Peering!Close(i)>>
           c == <<Peering!Confirm(i)>>
<1>1. InUse(i) <= InUse(i) BY SMT DEF InUse
<1>2. FramesFit(z, i, peer) /\ FramesFit(<<>>, i, peer) /\ (peer.known = TRUE => FramesFit(c, i, peer))
  BY Sendable
<1> HIDE DEF z, c
<1>3. /\ Result(i, Peering!Quiet(i), peer) /\ Result(i, Peering!Report(i, "cancel"), peer)
      /\ Result(i, [Peering!Quiet(i) EXCEPT !.out = <<>>], peer)
      /\ Result(i, [Peering!Quiet(i) EXCEPT !.out = z], peer)
  BY <1>1, <1>2, Stays
<1>4. peer.known = TRUE => Result(i, [Peering!Quiet(i) EXCEPT !.out = c], peer)
  BY <1>1, <1>2, Stays
<1> QED BY <1>3, <1>4 DEF z, c

\* A link that listens.
LEMMA ListenResult ==
  ASSUME NEW i, NEW e, NEW peer, Meets(i, e, peer), i.assoc = "LISTEN"
  PROVE  Result(i, Peering!ListenState(i, e), peer)
<1> DEFINE j == [i EXCEPT !.peerLinkId = e.peerLinkId]
           k == [j EXCEPT !.linkId = 0]
<1>1. /\ IsItem(i) /\ i.known = TRUE /\ GoodItem(i) /\ i.timers = {}
      /\ i.state \in {"NO_CAPABILITY", "CANDIDATE_PEER"} /\ e.type \notin Peering!Timers
      /\ (e.type = "open" => peer.known = TRUE)
  BY MeetsFacts DEF Meets
<1>2. IsItem(j) /\ j.known = TRUE /\ j.timers = {}
  BY <1>1, OtherIds
<1>3. IsItem(k) /\ k.known = TRUE
  <2> HIDE DEF j
  <2> QED BY <1>2, OtherIds
<1> HIDE DEF j, k
<1>4. Result(i, Peering!Quiet(i), peer) BY <1>1, StayResult
<1>5. Result(i, Peering!ToIdle(i), peer) BY <1>1, LinkForgotten
<1>6. Result(i, Peering!Await(i, <<Peering!Request(i)>>, "OPEN_SENT"), peer) BY <1>1, AwaitResult
<1>7. e.type = "open" =>
        Result(i, Peering!Await(j, <<Peering!Request(j), Peering!Confirm(j)>>, "CONFIRM_SENT"), peer)
  BY <1>1, <1>2, AwaitResult
<1>8. Result(i, Peering!CloseAndHold(k), peer) BY <1>3, CloseResult
<1>9. \/ Peering!ListenState(i, e) \in
           {Peering!Quiet(i), Peering!ToIdle(i), Peering!Await(i, <<Peering!Request(i)>>, "OPEN_SENT"),
            Peering!CloseAndHold(k)}
      \/ /\ e.type = "open"
         /\ Peering!ListenState(i, e) =
              Peering!Await(j, <<Peering!Request(j), Peering!Confirm(j)>>, "CONFIRM_SENT")
  BY <1>1 DEF Peering!ListenState, j, k
<1> QED BY <1>4, <1>5, <1>6, <1>7, <1>8, <1>9

\* A link whose request was sent.
LEMMA OpenSentResult ==
  ASSUME NEW i, NEW e, NEW peer, Meets(i, e, peer), i.assoc = "OPEN_SENT"
  PROVE  Result(i, Peering!OpenSentState(i, e), peer)
<1> DEFINE a == [i EXCEPT !.linkId = 0]
           b == [i EXCEPT !.linkId = e.linkId, !.peerLinkId = e.peerLinkId]
           stopped == [i EXCEPT !.timers = @ \ {"RETRY_TIMEOUT"}]
           met == [stopped EXCEPT !.peerLinkId = e.peerLinkId]
           m == [met EXCEPT !.linkId = 0]
           done == [met EXCEPT !.assoc = "CONFIRM_RECEIVED", !.timers = @ \cup {"OPEN_TIMEOUT"}]
<1>1. /\ IsItem(i) /\ i.known = TRUE /\ i.timers \subseteq {"RETRY_TIMEOUT"}
      /\ (e.type \notin Peering!Timers => GoodItem(i)) /\ i.state = "ASSOC_PENDING"
      /\ (e.type \in {"open", "confirm"} => peer.known = TRUE)
      /\ e.type \in {"open", "confirm", "close", "CANCEL_LINK", "RETRY_TIMEOUT"}
  BY MeetsFacts DEF Meets, TimersOf, StatesOf, Peering!Timers
<1>2. IsItem(a) /\ a.known = TRUE /\ IsItem(b) /\ b.known = TRUE
  BY <1>1 DEF IsItem
<1>3. /\ IsItem(stopped) /\ stopped.known = TRUE /\ stopped.timers = {}
      /\ stopped.state = "ASSOC_PENDING"
  BY <1>1 DEF IsItem
<1>4. IsItem(met) /\ met.known = TRUE /\ met.timers = {} /\ met.state = "ASSOC_PENDING"
  <2> HIDE DEF stopped
  <2> QED BY <1>3, OtherIds
<1>5. IsItem(m) /\ m.known = TRUE
  <2> HIDE DEF met
  <2> QED BY <1>4, OtherIds
<1>6. GoodItem(done) /\ done.known = TRUE /\ done.assoc = "CONFIRM_RECEIVED"
  <2> HIDE DEF met
  <2>1. /\ DOMAIN done = DOMAIN met /\ done.known = met.known /\ done.assoc = "CONFIRM_RECEIVED"
        /\ done.state = met.state /\ done.timers = {"OPEN_TIMEOUT"}
    BY <1>4 DEF IsItem
  <2> HIDE DEF done
  <2> QED BY <1>4, <2>1 DEF GoodItem, IsItem, TimersOf, StatesOf, Peering!AssocStates, Peering!Timers
<1> HIDE DEF a, b, stopped, met, m, done
<1>7. Result(i, Peering!CloseAndHold(a), peer) BY <1>2, CloseResult
<1>8. Result(i, Peering!Hold(b, <<>>), peer) BY <1>2, CloseResult
<1>9. e.type \notin Peering!Timers => Result(i, Peering!Quiet(i), peer) BY <1>1, StayResult
<1>10. e.type = "open" => Result(i, Peering!Await(met, <<Peering!Confirm(met)>>, "CONFIRM_SENT"), peer)
  BY <1>1, <1>4, AwaitResult
<1>11. Result(i, Peering!CloseAndHold(m), peer) /\ Result(i, Peering!CloseAndHold(met), peer)
  BY <1>4, <1>5, CloseResult
<1>12. e.type = "confirm" =>
         Result(i, [Peering!Quiet(done) EXCEPT !.out = <<Peering!Confirm(met)>>], peer)
  <2> DEFINE out == <<Peering!Confirm(met)>>
  <2>1. e.type = "confirm" => FramesFit(out, done, peer) BY <1>1, <1>6, Sendable
  <2>2. InUse(done) <= InUse(i) BY <1>6, SMT DEF InUse
  <2> HIDE DEF out
  <2>3. e.type = "confirm" => Result(i, [Peering!Quiet(done) EXCEPT !.out = out], peer)
    BY <1>6, <2>1, <2>2, Stays
  <2> QED BY <2>3 DEF out
<1>13. Result(i, Peering!Await(i, <<Peering!Request(i)>>, "OPEN_SENT"), peer)
  BY <1>1, AwaitResult
<1>14. CASE e.type = "CANCEL_LINK" \/ e.type = "RETRY_TIMEOUT"
  BY <1>7, <1>13, <1>14 DEF Peering!OpenSentState, Peering!Retry, a
<1>15. CASE e.type = "close"
  BY <1>8, <1>9, <1>15 DEF Peering!OpenSentState, Peering!Timers, b
<1>16. CASE e.type = "open"
  BY <1>10, <1>11, <1>16 DEF Peering!OpenSentState, met, m, stopped
<1>17. CASE e.type = "confirm"
  BY <1>11, <1>12, <1>17 DEF Peering!OpenSentState, met, done, stopped
<1> QED BY <1>1, <1>14, <1>15, <1>16, <1>17

\* A link that has its confirm and waits for the request of the other.
LEMMA ConfirmReceivedResult ==
  ASSUME NEW n \in Peering!Nodes, NEW i, NEW e, NEW peer, Meets(i, e, peer), i.assoc = "CONFIRM_RECEIVED"
  PROVE  Result(i, Peering!ConfirmReceivedState(n, i, e), peer)
<1>1. /\ IsItem(i) /\ i.known = TRUE /\ i.timers \subseteq {"OPEN_TIMEOUT"}
      /\ (e.type \notin Peering!Timers => GoodItem(i))
      /\ (e.type \in {"open", "confirm"} => peer.known = TRUE)
      /\ e.type \in {"open", "confirm", "close", "CANCEL_LINK", "OPEN_TIMEOUT"}
  BY MeetsFacts DEF Meets, TimersOf, Peering!Timers
<1>2. Result(i, Peering!CloseAndHold(i), peer) BY <1>1, CloseResult
<1>3. e.type \notin Peering!Timers => Result(i, Peering!Quiet(i), peer) BY <1>1, StayResult
<1>4. e.type = "open" => Result(i, Peering!Establish(n, i, <<Peering!Confirm(i)>>), peer)
  <2> DEFINE out == <<Peering!Confirm(i)>>
  <2>1. e.type = "open" => FramesFit(out, i, peer) BY <1>1, Sendable
  <2> HIDE DEF out
  <2>2. e.type = "open" => Result(i, Peering!Establish(n, i, out), peer)
    BY <1>1, <2>1, LinkEstablished
  <2> QED BY <2>2 DEF out
<1>5. CASE e.type \in {"CANCEL_LINK", "OPEN_TIMEOUT"}
  BY <1>2, <1>5 DEF Peering!ConfirmReceivedState
<1>6. CASE e.type \in {"close", "confirm"}
  BY <1>2, <1>3, <1>6 DEF Peering!ConfirmReceivedState, Peering!Timers
<1>7. CASE e.type = "open"
  BY <1>3, <1>4, <1>7 DEF Peering!ConfirmReceivedState, Peering!Timers
<1> QED BY <1>1, <1>5, <1>6, <1>7

\* A link that has the request of the other and waits for its confirm.
LEMMA ConfirmSentResult ==
  ASSUME NEW n \in Peering!Nodes, NEW i, NEW e, NEW peer, Meets(i, e, peer), i.assoc = "CONFIRM_SENT"
  PROVE  Result(i, Peering!ConfirmSentState(n, i, e), peer)
<1>1. /\ IsItem(i) /\ i.known = TRUE /\ i.timers \subseteq {"RETRY_TIMEOUT"}
      /\ (e.type \notin Peering!Timers => GoodItem(i))
      /\ (e.type \in {"open", "confirm"} => peer.known = TRUE)
      /\ e.type \in {"open", "confirm", "close", "CANCEL_LINK", "RETRY_TIMEOUT"}
  BY MeetsFacts DEF Meets, TimersOf, Peering!Timers
<1>2. Result(i, Peering!CloseAndHold(i), peer) BY <1>1, CloseResult
<1>3. e.type \notin Peering!Timers => /\ Result(i, Peering!Quiet(i), peer)
                                      /\ Result(i, [Peering!Quiet(i) EXCEPT !.out = <<>>], peer)
  BY <1>1, StayResult
<1>4. e.type = "open" => Result(i, [Peering!Quiet(i) EXCEPT !.out = <<Peering!Confirm(i)>>], peer)
  <2>1. "open" \notin Peering!Timers BY DEF Peering!Timers
  <2> QED BY <1>1, <2>1, StayResult
<1>5. Result(i, Peering!Establish(n, i, <<>>), peer)
  <2>1. FramesFit(<<>>, i, peer) BY NothingSent
  <2> QED BY <1>1, <2>1, LinkEstablished
<1>6. Result(i, Peering!Await(i, <<Peering!Request(i)>>, "CONFIRM_SENT"), peer)
  BY <1>1, AwaitResult
<1>7. CASE e.type \in {"CANCEL_LINK", "RETRY_TIMEOUT"}
  BY <1>2, <1>6, <1>7 DEF Peering!ConfirmSentState, Peering!Retry
<1>8. CASE e.type = "close"
  BY <1>2, <1>3, <1>8 DEF Peering!ConfirmSentState, Peering!Timers
<1>9. CASE e.type = "open"
  BY <1>3, <1>4, <1>9 DEF Peering!ConfirmSentState, Peering!Timers
<1>10. CASE e.type = "confirm"
  BY <1>2, <1>5, <1>10 DEF Peering!ConfirmSentState
<1> QED BY <1>1, <1>7, <1>8, <1>9, <1>10

\* A link that is established.
LEMMA EstablishedResult ==
  ASSUME NEW i, NEW e, NEW peer, Meets(i, e, peer), i.assoc = "ESTABLISHED"
  PROVE  Result(i, Peering!EstablishedState(i, e), peer)
<1>1. /\ IsItem(i) /\ i.known = TRUE /\ GoodItem(i)
      /\ (e.type \in {"open", "confirm"} => peer.known = TRUE)
      /\ e.type \in {"open", "confirm", "close", "CANCEL_LINK"}
  BY MeetsFacts DEF Meets
<1>2. /\ Result(i, Peering!CloseAndHold(i), peer)
      /\ Result(i, [Peering!CloseAndHold(i) EXCEPT !.cap = 1], peer)
  BY <1>1, CloseResult
<1>3. /\ Result(i, Peering!Quiet(i), peer)
      /\ Result(i, [Peering!Quiet(i) EXCEPT !.out = <<>>], peer)
  BY <1>1, StayResult
<1>4. e.type = "open" => Result(i, [Peering!Quiet(i) EXCEPT !.out = <<Peering!Confirm(i)>>], peer)
  BY <1>1, StayResult
<1>5. CASE e.type \in {"CANCEL_LINK", "close"}
  BY <1>2, <1>3, <1>5 DEF Peering!EstablishedState
<1>6. CASE e.type = "open"
  BY <1>3, <1>4, <1>6 DEF Peering!EstablishedState
<1>7. CASE e.type = "confirm"
  BY <1>3, <1>7 DEF Peering!EstablishedState
<1> QED BY <1>1, <1>5, <1>6, <1>7

\* A link that is held.
LEMMA HoldingResult ==
  ASSUME NEW i, NEW e, NEW peer, Meets(i, e, peer), i.assoc = "HOLDING"
  PROVE  Result(i, Peering!HoldingState(i, e), peer)
<1> DEFINE j == [i EXCEPT !.state = "NO_CAPABILITY"]
<1>1. /\ IsItem(i) /\ i.known = TRUE /\ (e.type \notin Peering!Timers => GoodItem(i))
      /\ e.type \in {"open", "confirm", "close", "ACTIVE_OPEN", "PASSIVE_OPEN", "CANCEL_LINK",
                     "CANCEL_TIMEOUT"}
      /\ (e.type = "CANCEL_TIMEOUT" => i.timers = {})
  BY MeetsFacts DEF Meets, TimersOf, Peering!Timers
<1>2. e.type \notin Peering!Timers =>
        /\ Result(i, Peering!Quiet(i), peer)
        /\ Result(i, [Peering!Quiet(i) EXCEPT !.out = <<>>], peer)
        /\ Result(i, [Peering!Quiet(i) EXCEPT !.out = <<Peering!Close(i)>>], peer)
  BY <1>1, StayResult
<1>3. e.type = "CANCEL_TIMEOUT" => Result(i, Peering!ToIdle(j), peer)
  <2>1. /\ IsItem(j) /\ j.known = TRUE /\ j.state = "NO_CAPABILITY" /\ j.timers = i.timers
    BY <1>1 DEF IsItem
  <2> HIDE DEF j
  <2> QED BY <1>1, <2>1, LinkForgotten
<1> HIDE DEF j
<1>4. CASE e.type \in {"open", "confirm"}
  BY <1>2, <1>4 DEF Peering!HoldingState, Peering!Timers
<1>5. CASE e.type = "CANCEL_TIMEOUT"
  BY <1>3, <1>5 DEF Peering!HoldingState, j
<1>6. CASE e.type \in {"close", "ACTIVE_OPEN", "PASSIVE_OPEN", "CANCEL_LINK"}
  BY <1>2, <1>6 DEF Peering!HoldingState, Peering!Timers
<1> QED BY <1>1, <1>4, <1>5, <1>6

\* The state machine as a whole.
LEMMA AssocResult ==
  ASSUME NEW n \in Peering!Nodes, NEW i, NEW e, NEW peer, Meets(i, e, peer)
  PROVE  Result(i, Peering!AssocStateFn(n, i, e), peer)
<1>1. i.assoc \in Peering!AssocStates BY DEF Meets, IsItem
<1>2. CASE i.assoc = "IDLE" BY <1>2, IdleResult DEF Peering!AssocStateFn
<1>3. CASE i.assoc = "LISTEN" BY <1>3, ListenResult DEF Peering!AssocStateFn
<1>4. CASE i.assoc = "OPEN_SENT" BY <1>4, OpenSentResult DEF Peering!AssocStateFn
<1>5. CASE i.assoc = "CONFIRM_RECEIVED" BY <1>5, ConfirmReceivedResult DEF Peering!AssocStateFn
<1>6. CASE i.assoc = "CONFIRM_SENT" BY <1>6, ConfirmSentResult DEF Peering!AssocStateFn
<1>7. CASE i.assoc = "ESTABLISHED" BY <1>7, EstablishedResult DEF Peering!AssocStateFn
<1>8. CASE i.assoc = "HOLDING" BY <1>8, HoldingResult DEF Peering!AssocStateFn
<1> QED BY <1>1, <1>2, <1>3, <1>4, <1>5, <1>6, <1>7, <1>8 DEF Peering!AssocStates

(* The links of two nodes. *)

\* The frames of a direction, when one is taken from it or some are added.
LEMMA FramesTaken ==
  ASSUME NEW s, NEW i, NEW peer, FramesFit(s, i, peer), s # <<>>
  PROVE  /\ FramesFit(Tail(s), i, peer)
         /\ Head(s).type \in LinkFrames
         /\ Head(s).type \in {"open", "confirm"} => i.known = TRUE
         /\ Head(s).type = "confirm" => peer.known = TRUE
<1>1. PICK S : s \in Seq(S) BY DEF FramesFit, IsSequence
<1>2. Tail(s) \in Seq(S) /\ Len(Tail(s)) = Len(s) - 1 /\ Len(s) \in Nat \ {0}
      /\ \A k \in 1 .. Len(Tail(s)) : Tail(s)[k] = s[k + 1]
  BY <1>1, HeadTailProperties, EmptySeq
<1>3. Head(s) = s[1] /\ 1 \in 1 .. Len(s) BY <1>1, <1>2
<1>4. IsSequence(Tail(s)) BY <1>2 DEF IsSequence
<1>5. \A k \in 1 .. Len(Tail(s)) : k + 1 \in 1 .. Len(s) /\ Tail(s)[k] = s[k + 1]
  BY <1>2
<1>6. FramesFit(Tail(s), i, peer) BY <1>4, <1>5 DEF FramesFit
<1> QED BY <1>3, <1>6 DEF FramesFit

LEMMA FramesAdded ==
  ASSUME NEW s, NEW t, NEW i, NEW peer, FramesFit(s, i, peer), FramesFit(t, i, peer)
  PROVE  FramesFit(s \o t, i, peer)
<1>1. PICK S : s \in Seq(S) BY DEF FramesFit, IsSequence
<1>2. PICK T : t \in Seq(T) BY DEF FramesFit, IsSequence
<1>3. s \in Seq(S \cup T) /\ t \in Seq(S \cup T) BY <1>1, <1>2, SeqMonotonic
<1>4. /\ s \o t \in Seq(S \cup T) /\ Len(s \o t) = Len(s) + Len(t)
      /\ \A k \in 1 .. Len(s) + Len(t) : (s \o t)[k] = IF k <= Len(s) THEN s[k] ELSE t[k - Len(s)]
  BY <1>3, ConcatProperties
<1>5. Len(s) \in Nat /\ Len(t) \in Nat BY <1>3, LenProperties
<1>6. ASSUME NEW k \in 1 .. Len(s \o t)
      PROVE  (\E l \in 1 .. Len(s) : (s \o t)[k] = s[l]) \/ (\E l \in 1 .. Len(t) : (s \o t)[k] = t[l])
  <2>1. k \in 1 .. Len(s) + Len(t) BY <1>4
  <2>2. CASE k <= Len(s)
    <3>1. k \in 1 .. Len(s) BY <1>5, <2>1, <2>2
    <3> QED BY <1>4, <2>1, <2>2, <3>1
  <2>3. CASE ~ (k <= Len(s))
    <3>1. k - Len(s) \in 1 .. Len(t) BY <1>5, <2>1, <2>3
    <3> QED BY <1>4, <2>1, <2>3, <3>1
  <2> QED BY <2>2, <2>3
<1>7. IsSequence(s \o t) BY <1>4 DEF IsSequence
<1> QED BY <1>6, <1>7 DEF FramesFit

LEMMA LinkStateAdded ==
  ASSUME NEW s, NEW i, NEW peer, FramesFit(s, i, peer)
  PROVE  FramesFit(Append(s, Peering!Event("linkstate")), i, peer)
<1> DEFINE f == Peering!Event("linkstate")
<1>1. f.type = "linkstate" BY DEF Peering!Event
<1> HIDE DEF f
<1>2. FramesFit(<<f>>, i, peer)
  <2>1. f.type \in LinkFrames /\ f.type \notin {"open", "confirm"} /\ f.type # "confirm" BY <1>1 DEF LinkFrames
  <2> QED BY <2>1, OneSent, Zenon
<1>3. PICK S : s \in Seq(S) BY DEF FramesFit, IsSequence
<1>4. s \in Seq(S \cup {f}) BY <1>3, SeqMonotonic
<1>5. Append(s, f) = s \o <<f>> BY <1>4, AppendIsConcat
<1> QED BY <1>2, <1>5, FramesAdded DEF f

\* Frames that were right stay so when more is known.
LEMMA FramesKept ==
  ASSUME NEW s, NEW i, NEW peer, FramesFit(s, i, peer), NEW j, NEW q,
         i.known = TRUE => j.known = TRUE, peer.known = TRUE => q.known = TRUE
  PROVE  FramesFit(s, j, q)
BY DEF FramesFit

Other(n) == Peering!Peer(n)

PeerInv ==
  /\ DOMAIN nb = Peering!Nodes /\ DOMAIN wire = Peering!Nodes
  /\ cap \in [Peering!Nodes -> Int] /\ others \in [Peering!Nodes -> Int]
  /\ \A n \in Peering!Nodes :
       /\ GoodItem(nb[n]) /\ FramesFit(wire[n], nb[n], nb[Other(n)])
       /\ cap[n] + others[n] + InUse(nb[n]) <= Capacity
  /\ meshFailed \in {"none", "cancel"}

\* There are two nodes.
LEMMA TwoNodes ==
  \A n \in Peering!Nodes : Other(n) \in Peering!Nodes /\ Other(n) # n /\ Other(Other(n)) = n
                           /\ \A m \in Peering!Nodes : m = n \/ m = Other(n)
BY SMT DEF Other, Peering!Nodes, Peering!Peer

\* The outcome of an event takes effect.
LEMMA ApplyResult ==
  ASSUME PeerInv, Capacity \in Nat, NEW n \in Peering!Nodes, NEW r, Result(nb[n], r, nb[Other(n)]),
         NEW back, FramesFit(back, nb[Other(n)], nb[n]),
         Peering!Apply(n, r, back), others' = others
  PROVE  PeerInv'
<1>1. Other(n) \in Peering!Nodes /\ Other(n) # n /\ Other(Other(n)) = n
      /\ \A m \in Peering!Nodes : m = n \/ m = Other(n)
  BY TwoNodes
<1>2. /\ DOMAIN nb' = Peering!Nodes /\ nb'[n] = r.item /\ nb'[Other(n)] = nb[Other(n)]
      /\ DOMAIN wire' = Peering!Nodes /\ wire'[n] = wire[n] \o r.out /\ wire'[Other(n)] = back
      /\ meshFailed' = r.err
  BY <1>1 DEF Peering!Apply, PeerInv, Other
<1>3. cap' \in [Peering!Nodes -> Int] /\ cap'[n] = cap[n] + r.cap /\ cap'[Other(n)] = cap[Other(n)]
  BY <1>1, SMT DEF Peering!Apply, PeerInv, Result
<1>4. /\ GoodItem(r.item) /\ (nb[n].known = TRUE => r.item.known = TRUE)
      /\ FramesFit(r.out, r.item, nb[Other(n)]) /\ r.err \in {"none", "cancel"}
      /\ r.cap \in {-1, 0, 1} /\ r.cap + InUse(r.item) <= InUse(nb[n])
  BY DEF Result
<1>5. FramesFit(wire[n] \o r.out, r.item, nb[Other(n)])
  <2>1. FramesFit(wire[n], nb[n], nb[Other(n)]) BY DEF PeerInv
  <2>2. FramesFit(wire[n], r.item, nb[Other(n)]) BY <1>4, <2>1, FramesKept
  <2> QED BY <1>4, <2>2, FramesAdded
<1>6. FramesFit(back, nb[Other(n)], r.item) BY <1>4, FramesKept
<1>7. cap'[n] + others'[n] + InUse(r.item) <= Capacity
  <2>1. cap[n] \in Int /\ others[n] \in Int /\ InUse(r.item) \in Int /\ InUse(nb[n]) \in Int
    BY SMT DEF PeerInv, InUse
  <2>2. cap[n] + others[n] + InUse(nb[n]) <= Capacity BY DEF PeerInv
  <2> QED BY <1>3, <1>4, <2>1, <2>2, SMT
<1>8. ASSUME NEW m \in Peering!Nodes
      PROVE  /\ GoodItem(nb'[m]) /\ FramesFit(wire'[m], nb'[m], nb'[Other(m)])
             /\ cap'[m] + others'[m] + InUse(nb'[m]) <= Capacity
  <2>1. CASE m = n
    <3>1. GoodItem(nb'[m]) BY <1>2, <1>4, <2>1
    <3>2. FramesFit(wire'[m], nb'[m], nb'[Other(m)]) BY <1>2, <1>5, <2>1
    <3>3. cap'[m] + others'[m] + InUse(nb'[m]) <= Capacity BY <1>2, <1>7, <2>1
    <3> QED BY <3>1, <3>2, <3>3
  <2>2. CASE m = Other(n)
    <3>1. GoodItem(nb'[m]) BY <1>1, <1>2, <2>2 DEF PeerInv
    <3>2. FramesFit(wire'[m], nb'[m], nb'[Other(m)]) BY <1>1, <1>2, <1>6, <2>2
    <3>3. cap'[m] + others'[m] + InUse(nb'[m]) <= Capacity BY <1>1, <1>2, <1>3, <2>2 DEF PeerInv
    <3> QED BY <3>1, <3>2, <3>3
  <2> QED BY <1>1, <2>1, <2>2
<1>9. meshFailed' \in {"none", "cancel"} BY <1>2, <1>4
<1>10. others' \in [Peering!Nodes -> Int] BY DEF PeerInv
<1> QED BY <1>2, <1>3, <1>8, <1>9, <1>10 DEF PeerInv

\* The outcome is one of the item of the node when only a state before the link, or that
\* the other is known, was changed first.
LEMMA ResultFrom ==
  ASSUME NEW i, NEW j, NEW r, NEW peer, Result(j, r, peer), j.known = TRUE, j.assoc = i.assoc
  PROVE  Result(i, r, peer)
<1>1. InUse(i) = InUse(j) BY DEF InUse
<1> QED BY <1>1 DEF Result

\* Nothing happens to an item, known or not.
LEMMA QuietResult ==
  ASSUME NEW i, NEW peer, GoodItem(i)
  PROVE  Result(i, Peering!Quiet(i), peer)
<1> DEFINE r == Peering!Quiet(i)
<1>1. r.item = i /\ r.out = <<>> /\ r.cap = 0 /\ r.err = "none" BY DEF Peering!Quiet
<1> HIDE DEF r
<1>2. r.cap \in {-1, 0, 1} /\ r.cap + InUse(r.item) <= InUse(i) BY <1>1, SMT DEF InUse
<1>3. FramesFit(r.out, r.item, peer) BY <1>1, NothingSent
<1> QED BY <1>1, <1>2, <1>3, Zenon DEF Result, r

\* An event of a node that nobody sent.
LEMMA OwnEvent ==
  ASSUME PeerInv, Capacity \in Nat, NEW n \in Peering!Nodes, NEW j, NEW t,
         Meets(j, Peering!Event(t), nb[Other(n)]), j.assoc = nb[n].assoc,
         Peering!Apply(n, Peering!AssocStateFn(n, j, Peering!Event(t)), wire[Other(n)]),
         others' = others
  PROVE  PeerInv'
<1> DEFINE r == Peering!AssocStateFn(n, j, Peering!Event(t))
<1>1. Result(j, r, nb[Other(n)]) BY AssocResult
<1> HIDE DEF r
<1>2. j.known = TRUE BY DEF Meets
<1>3. Result(nb[n], r, nb[Other(n)]) BY <1>1, <1>2, ResultFrom
<1>4. FramesFit(wire[Other(n)], nb[Other(n)], nb[n]) BY TwoNodes DEF PeerInv
<1>5. Peering!Apply(n, r, wire[Other(n)]) BY DEF r
<1> QED BY <1>3, <1>4, <1>5, ApplyResult

\* Nothing happens.
LEMMA NoEvent ==
  ASSUME PeerInv, Capacity \in Nat, NEW n \in Peering!Nodes, NEW j, GoodItem(j), j.assoc = nb[n].assoc,
         nb[n].known = TRUE => j.known = TRUE,
         Peering!Apply(n, Peering!Quiet(j), wire[Other(n)]), others' = others
  PROVE  PeerInv'
<1> DEFINE r == Peering!Quiet(j)
<1>1. Result(j, r, nb[Other(n)]) BY QuietResult
<1>2. r.item = j BY DEF Peering!Quiet
<1>3. Peering!Apply(n, r, wire[Other(n)]) OBVIOUS
<1> HIDE DEF r
<1>4. Result(nb[n], r, nb[Other(n)])
  <2>1. InUse(nb[n]) = InUse(j) BY DEF InUse
  <2> QED BY <1>1, <1>2, <2>1 DEF Result
<1>5. FramesFit(wire[Other(n)], nb[Other(n)], nb[n]) BY TwoNodes DEF PeerInv
<1> QED BY <1>3, <1>4, <1>5, ApplyResult

\* The type of an event is what it was made of.
LEMMA EventType == \A t : Peering!Event(t).type = t
BY DEF Peering!Event

\* A timer runs out: the item that meets it has it no more.
LEMMA TimerStep ==
  ASSUME PeerInv, Capacity \in Nat, NEW n \in Peering!Nodes, Peering!TimerFires(n)
  PROVE  PeerInv'
<1>1. PICK t \in nb[n].timers :
        Peering!Apply(n, Peering!AssocStateFn(n, [nb[n] EXCEPT !.timers = @ \ {t}], Peering!Event(t)),
                      wire[Peering!Peer(n)])
  BY DEF Peering!TimerFires
<1> DEFINE j == [nb[n] EXCEPT !.timers = @ \ {t}]
<1>2. GoodItem(nb[n]) BY DEF PeerInv
<1>3. t \in TimersOf(nb[n].assoc) /\ t \in Peering!Timers BY <1>2 DEF GoodItem, IsItem
<1>4. nb[n].known = TRUE BY <1>2, <1>3 DEF GoodItem, IsItem, TimersOf
<1>5. /\ IsItem(j) /\ j.known = TRUE /\ j.assoc = nb[n].assoc /\ j.state = nb[n].state
      /\ j.timers = nb[n].timers \ {t}
  BY <1>2, <1>4 DEF GoodItem, IsItem
<1> DEFINE e == Peering!Event(t)
<1>6. e.type = t BY EventType
<1> HIDE DEF j, e
<1>7. Meets(j, e, nb[Other(n)])
  BY <1>2, <1>3, <1>5, <1>6 DEF Meets, GoodItem, Peering!Timers
<1>8. others' = others BY DEF Peering!TimerFires
<1> QED BY <1>1, <1>5, <1>7, <1>8, OwnEvent DEF Other, j, e

\* A beacon makes the other known, and a candidate or not.
LEMMA BeaconStep ==
  ASSUME PeerInv, Capacity \in Nat, NEW n \in Peering!Nodes, Peering!ReceiveBeaconFrame(n)
  PROVE  PeerInv'
<1> DEFINE j == [nb[n] EXCEPT !.known = TRUE]
           none == [j EXCEPT !.state = "NO_CAPABILITY"]
           cand == [j EXCEPT !.state = "CANDIDATE_PEER"]
           c == Peering!Event("CANCEL_LINK")
           o == Peering!Event("PASSIVE_OPEN")
<1>1. GoodItem(nb[n]) BY DEF PeerInv
<1>2. /\ IsItem(j) /\ j.known = TRUE /\ j.assoc = nb[n].assoc /\ j.state = nb[n].state
      /\ j.timers = nb[n].timers
  BY <1>1 DEF GoodItem, IsItem
<1>3. GoodItem(j) BY <1>1, <1>2 DEF GoodItem
<1>4. /\ IsItem(none) /\ none.known = TRUE /\ none.assoc = nb[n].assoc
      /\ none.state = "NO_CAPABILITY" /\ none.timers = nb[n].timers
      /\ IsItem(cand) /\ cand.known = TRUE /\ cand.assoc = nb[n].assoc
      /\ cand.state = "CANDIDATE_PEER" /\ cand.timers = nb[n].timers
  <2> HIDE DEF j
  <2> QED BY <1>2 DEF IsItem
<1>5. c.type = "CANCEL_LINK" /\ o.type = "PASSIVE_OPEN" BY EventType
<1>6. others' = others
      /\ \/ j.state = "CANDIDATE_PEER" /\ Peering!Apply(n, Peering!AssocStateFn(n, none, c), wire[Other(n)])
         \/ j.state = "NO_CAPABILITY" /\ Peering!Apply(n, Peering!AssocStateFn(n, cand, o), wire[Other(n)])
         \/ Peering!Apply(n, Peering!Quiet(j), wire[Other(n)])
  BY DEF Peering!ReceiveBeaconFrame, Other
<1> HIDE DEF j, none, cand, c, o
<1>7. ASSUME j.state \in {"CANDIDATE_PEER", "NO_CAPABILITY"}
      PROVE  nb[n].assoc \in {"IDLE", "LISTEN", "HOLDING"}
  BY <1>1, <1>2, <1>7 DEF GoodItem, IsItem, StatesOf, Peering!Up, Peering!Down, Peering!AssocStates
<1>8. ASSUME j.state \in {"CANDIDATE_PEER", "NO_CAPABILITY"}
      PROVE  Meets(none, c, nb[Other(n)]) /\ Meets(cand, o, nb[Other(n)])
  <2>1. nb[n].timers = TimersOf(nb[n].assoc) /\ {"CANCEL_LINK", "PASSIVE_OPEN"} \cap TimersOf(nb[n].assoc) = {}
    BY <1>1 DEF GoodItem, TimersOf
  <2>2. {"NO_CAPABILITY", "CANDIDATE_PEER"} \subseteq StatesOf(nb[n].assoc)
    BY <1>7, <1>8 DEF StatesOf
  <2>3. Meets(none, c, nb[Other(n)])
    BY <1>4, <1>5, <2>1, <2>2 DEF Meets, Peering!Timers
  <2>4. Meets(cand, o, nb[Other(n)])
    BY <1>4, <1>5, <1>7, <1>8, <2>1, <2>2 DEF Meets, Peering!Timers
  <2> QED BY <2>3, <2>4
<1>9. CASE j.state = "CANDIDATE_PEER" /\ Peering!Apply(n, Peering!AssocStateFn(n, none, c), wire[Other(n)])
  BY <1>4, <1>6, <1>8, <1>9, OwnEvent DEF c
<1>10. CASE j.state = "NO_CAPABILITY" /\ Peering!Apply(n, Peering!AssocStateFn(n, cand, o), wire[Other(n)])
  BY <1>4, <1>6, <1>8, <1>10, OwnEvent DEF o
<1>11. CASE Peering!Apply(n, Peering!Quiet(j), wire[Other(n)])
  BY <1>2, <1>3, <1>6, <1>11, NoEvent
<1> QED BY <1>6, <1>9, <1>10, <1>11

\* The link setup timer opens a link to a candidate.
LEMMA SetupStep ==
  ASSUME PeerInv, Capacity \in Nat, NEW n \in Peering!Nodes, Peering!LinkSetupEvent(n)
  PROVE  PeerInv'
<1> DEFINE e == Peering!Event("ACTIVE_OPEN")
<1>1. GoodItem(nb[n]) BY DEF PeerInv
<1>2. e.type = "ACTIVE_OPEN" BY EventType
<1>3. others' = others
      /\ \/ nb[n].state = "CANDIDATE_PEER" /\ Peering!Apply(n, Peering!AssocStateFn(n, nb[n], e), wire[Other(n)])
         \/ Peering!Apply(n, Peering!Quiet(nb[n]), wire[Other(n)])
  BY DEF Peering!LinkSetupEvent, Other
<1> HIDE DEF e
<1>4. ASSUME nb[n].state = "CANDIDATE_PEER" PROVE Meets(nb[n], e, nb[Other(n)])
  <2>1. nb[n].assoc \in {"IDLE", "LISTEN", "HOLDING"} /\ nb[n].known = TRUE
    BY <1>1, <1>4 DEF GoodItem, IsItem, StatesOf, Peering!Up, Peering!Down, Peering!AssocStates
  <2>2. nb[n].timers = TimersOf(nb[n].assoc) \ {e.type} /\ e.type \notin Peering!Timers
    BY <1>1, <1>2 DEF GoodItem, TimersOf, Peering!Timers
  <2> QED BY <1>1, <1>2, <2>1, <2>2 DEF Meets, GoodItem
<1>5. CASE nb[n].state = "CANDIDATE_PEER" /\ Peering!Apply(n, Peering!AssocStateFn(n, nb[n], e), wire[Other(n)])
  BY <1>3, <1>4, <1>5, OwnEvent DEF e
<1>6. CASE Peering!Apply(n, Peering!Quiet(nb[n]), wire[Other(n)])
  BY <1>1, <1>3, <1>6, NoEvent
<1> QED BY <1>3, <1>5, <1>6

\* A link that went silent is cancelled: it was up, so it was established.
LEMMA AgeStep ==
  ASSUME PeerInv, Capacity \in Nat, NEW n \in Peering!Nodes, Peering!AgeItems(n)
  PROVE  PeerInv'
<1> DEFINE e == Peering!Event("CANCEL_LINK")
<1>1. GoodItem(nb[n]) /\ nb[n].state \in Peering!Up BY DEF PeerInv, Peering!AgeItems
<1>2. e.type = "CANCEL_LINK" BY EventType
<1>3. others' = others /\ Peering!Apply(n, Peering!AssocStateFn(n, nb[n], e), wire[Other(n)])
  BY DEF Peering!AgeItems, Other
<1> HIDE DEF e
<1>4. nb[n].known = TRUE
  BY <1>1 DEF GoodItem, IsItem, Peering!Up
<1>5. nb[n].timers = TimersOf(nb[n].assoc) \ {e.type} /\ e.type \notin Peering!Timers
  BY <1>1, <1>2 DEF GoodItem, TimersOf, Peering!Timers
<1>6. Meets(nb[n], e, nb[Other(n)]) BY <1>1, <1>2, <1>4, <1>5 DEF Meets, GoodItem
<1> QED BY <1>3, <1>6, OwnEvent DEF e

\* A frame of m comes to the other: who confirms was asked, so it is no stranger.
LEMMA AssocFrameStep ==
  ASSUME PeerInv, Capacity \in Nat, NEW m \in Peering!Nodes, Peering!ReceiveAssocFrame(m)
  PROVE  PeerInv'
<1> DEFINE n == Other(m)
           frame == Head(wire[m])
           event == [type |-> frame.type, linkId |-> frame.peerLinkId, peerLinkId |-> frame.linkId]
           item == IF nb[n].known THEN nb[n]
                   ELSE [nb[n] EXCEPT !.known = TRUE, !.state = "CANDIDATE_PEER"]
           r == CASE frame.type = "open" \/ nb[n].known -> Peering!AssocStateFn(n, item, event)
                  [] frame.type = "close" /\ ~ nb[n].known -> Peering!Quiet(nb[n])
                  [] OTHER -> Peering!Report(nb[n], "unknown")
<1>1. /\ wire[m] # <<>> /\ frame.type # "linkstate" /\ others' = others
      /\ Peering!Apply(n, r, Tail(wire[m]))
  BY DEF Peering!ReceiveAssocFrame, Other
<1>2. n \in Peering!Nodes /\ Other(n) = m BY TwoNodes
<1>3. FramesFit(wire[m], nb[m], nb[n]) /\ GoodItem(nb[n]) BY <1>2 DEF PeerInv
<1>4. /\ FramesFit(Tail(wire[m]), nb[m], nb[n]) /\ frame.type \in {"open", "confirm", "close"}
      /\ frame.type \in {"open", "confirm"} => nb[m].known = TRUE
      /\ frame.type = "confirm" => nb[n].known = TRUE
  BY <1>1, <1>3, FramesTaken DEF LinkFrames
<1>5. event.type = frame.type OBVIOUS
<1>6. /\ IsItem(item) /\ item.known = TRUE /\ item.assoc = nb[n].assoc
      /\ item.state \in StatesOf(item.assoc) /\ item.timers = TimersOf(item.assoc)
  <2>1. CASE nb[n].known BY <1>3, <2>1 DEF GoodItem, IsItem
  <2>2. CASE ~ nb[n].known
    <3>1. /\ IsItem(item) /\ item.known = TRUE /\ item.assoc = nb[n].assoc
          /\ item.state = "CANDIDATE_PEER" /\ item.timers = nb[n].timers
      BY <1>3, <2>2 DEF GoodItem, IsItem
    <3>2. nb[n].assoc = "IDLE" /\ nb[n].timers = TimersOf(nb[n].assoc) BY <1>3, <2>2 DEF GoodItem
    <3> HIDE DEF item
    <3> QED BY <3>1, <3>2 DEF StatesOf
  <2> QED BY <2>1, <2>2
<1> HIDE DEF frame, event, item
<1>7. Meets(item, event, nb[m])
  <2>1. event.type \notin Peering!Timers /\ item.timers = TimersOf(item.assoc) \ {event.type}
    BY <1>4, <1>5, <1>6 DEF Peering!Timers, TimersOf
  <2> QED BY <1>4, <1>5, <1>6, <2>1 DEF Meets
<1>8. Result(nb[n], Peering!AssocStateFn(n, item, event), nb[m])
  BY <1>2, <1>6, <1>7, AssocResult, ResultFrom
<1>9. Result(nb[n], Peering!Quiet(nb[n]), nb[m]) BY <1>3, QuietResult
<1>10. r \in {Peering!AssocStateFn(n, item, event), Peering!Quiet(nb[n])}
  <2>1. nb[n].known \in BOOLEAN BY <1>3 DEF GoodItem, IsItem
  <2> QED BY <1>4, <2>1
<1>11. Result(nb[n], r, nb[m]) BY <1>8, <1>9, <1>10
<1> HIDE DEF r, n
<1> QED BY <1>1, <1>2, <1>4, <1>11, ApplyResult

\* What follows changes no association: frames go or come, a link goes up.
LEMMA ItemsStay ==
  ASSUME PeerInv, DOMAIN nb' = Peering!Nodes, DOMAIN wire' = Peering!Nodes,
         cap' = cap, others' = others, meshFailed' = meshFailed,
         \A n \in Peering!Nodes :
           /\ GoodItem(nb'[n]) /\ nb'[n].assoc = nb[n].assoc /\ nb'[n].known = nb[n].known
           /\ FramesFit(wire'[n], nb[n], nb[Other(n)])
  PROVE  PeerInv'
<1> SUFFICES ASSUME NEW n \in Peering!Nodes
             PROVE  /\ GoodItem(nb'[n]) /\ FramesFit(wire'[n], nb'[n], nb'[Other(n)])
                    /\ cap'[n] + others'[n] + InUse(nb'[n]) <= Capacity
  BY DEF PeerInv
<1>1. Other(n) \in Peering!Nodes BY TwoNodes
<1>2. FramesFit(wire'[n], nb'[n], nb'[Other(n)]) BY <1>1, FramesKept
<1>3. InUse(nb'[n]) = InUse(nb[n]) BY DEF InUse
<1>4. cap'[n] + others'[n] + InUse(nb'[n]) <= Capacity BY <1>3 DEF PeerInv
<1> QED BY <1>2, <1>4

\* A link state frame is sent, or a frame lost.
LEMMA WireStep ==
  ASSUME PeerInv, NEW n \in Peering!Nodes,
         Peering!LinkStateEvent(n) \/ Peering!SendLinkStateFrame(n) \/ Peering!Lose(n)
  PROVE  PeerInv'
<1>1. /\ nb' = nb /\ cap' = cap /\ others' = others /\ meshFailed' = meshFailed
      /\ \/ wire' = wire
         \/ wire' = [wire EXCEPT ![n] = Append(@, Peering!Event("linkstate"))]
         \/ wire[n] # <<>> /\ wire' = [wire EXCEPT ![n] = Tail(@)]
  BY DEF Peering!LinkStateEvent, Peering!SendLinkStateFrame, Peering!Lose
<1>2. DOMAIN wire = Peering!Nodes
      /\ \A m \in Peering!Nodes : FramesFit(wire[m], nb[m], nb[Other(m)]) /\ GoodItem(nb[m])
  BY DEF PeerInv
<1>3. FramesFit(Append(wire[n], Peering!Event("linkstate")), nb[n], nb[Other(n)])
  BY <1>2, LinkStateAdded
<1>4. wire[n] # <<>> => FramesFit(Tail(wire[n]), nb[n], nb[Other(n)])
  BY <1>2, FramesTaken
<1>5. DOMAIN wire' = Peering!Nodes /\ \A m \in Peering!Nodes : FramesFit(wire'[m], nb[m], nb[Other(m)])
  <2>1. CASE wire' = wire BY <1>2, <2>1
  <2>2. CASE wire' = [wire EXCEPT ![n] = Append(@, Peering!Event("linkstate"))]
    BY <1>2, <1>3, <2>2
  <2>3. CASE wire[n] # <<>> /\ wire' = [wire EXCEPT ![n] = Tail(@)]
    BY <1>2, <1>4, <2>3
  <2> QED BY <1>1, <2>1, <2>2, <2>3
<1>6. DOMAIN nb' = Peering!Nodes BY <1>1 DEF PeerInv
<1> QED BY <1>1, <1>2, <1>5, <1>6, ItemsStay

\* A link state frame comes, and its acknowledgement may.
LEMMA LinkStateStep ==
  ASSUME PeerInv, NEW m \in Peering!Nodes, Peering!ReceiveLinkStateFrame(m)
  PROVE  PeerInv'
<1> DEFINE n == Other(m)
           up == [nb EXCEPT ![n].state = IF @ = "SUPERORDINATE_LINK_DOWN" THEN "SUPERORDINATE_LINK_UP" ELSE @]
           answered == [up EXCEPT ![m].state = IF @ = "SUBORDINATE_LINK_DOWN" THEN "SUBORDINATE_LINK_UP" ELSE @]
           Raised(j, i) == /\ DOMAIN j = DOMAIN i /\ j.known = i.known /\ j.assoc = i.assoc /\ j.timers = i.timers
                           /\ j.state = i.state \/ (i.state \in Peering!Down /\ j.state \in Peering!Up)
<1>1. /\ wire[m] # <<>> /\ wire' = [wire EXCEPT ![m] = Tail(@)] /\ nb' \in {up, answered}
      /\ cap' = cap /\ others' = others /\ meshFailed' = meshFailed
  BY DEF Peering!ReceiveLinkStateFrame, Other
<1>2. n \in Peering!Nodes /\ n # m /\ \A k \in Peering!Nodes : k = m \/ k = n BY TwoNodes
<1> HIDE DEF n
<1>3. DOMAIN nb = Peering!Nodes /\ \A k \in Peering!Nodes : GoodItem(nb[k]) BY DEF PeerInv
<1>4. DOMAIN up = Peering!Nodes /\ up[m] = nb[m] /\ Raised(up[n], nb[n])
  BY <1>2, <1>3 DEF GoodItem, IsItem, Peering!Down, Peering!Up
<1>5. DOMAIN answered = Peering!Nodes /\ answered[n] = up[n] /\ Raised(answered[m], up[m])
  <2> HIDE DEF up
  <2> QED BY <1>2, <1>3, <1>4 DEF GoodItem, IsItem, Peering!Down, Peering!Up
<1> HIDE DEF up, answered
<1>6. DOMAIN nb' = Peering!Nodes /\ \A k \in Peering!Nodes : Raised(nb'[k], nb[k])
  BY <1>1, <1>2, <1>4, <1>5
<1>7. \A k \in Peering!Nodes : GoodItem(nb'[k]) /\ nb'[k].assoc = nb[k].assoc /\ nb'[k].known = nb[k].known
  <2> TAKE k \in Peering!Nodes
  <2>1. Raised(nb'[k], nb[k]) /\ GoodItem(nb[k]) BY <1>3, <1>6
  <2>2. nb[k].state \in Peering!Down => Peering!Up \subseteq StatesOf(nb[k].assoc) /\ nb[k].known = TRUE
    BY <2>1 DEF GoodItem, IsItem, StatesOf, Peering!Down, Peering!Up
  <2> QED BY <2>1, <2>2 DEF GoodItem, IsItem
<1>8. DOMAIN wire' = Peering!Nodes
      /\ \A k \in Peering!Nodes : FramesFit(wire'[k], nb[k], nb[Other(k)])
  <2>1. DOMAIN wire = Peering!Nodes /\ \A k \in Peering!Nodes : FramesFit(wire[k], nb[k], nb[Other(k)])
    BY DEF PeerInv
  <2>2. FramesFit(Tail(wire[m]), nb[m], nb[Other(m)]) BY <1>1, <2>1, FramesTaken
  <2> QED BY <1>1, <2>1, <2>2
<1> QED BY <1>1, <1>6, <1>7, <1>8, ItemsStay

\* A link to a further neighbour takes its share, or gives it back.
LEMMA OtherLinkStep ==
  ASSUME PeerInv, NEW n \in Peering!Nodes, Peering!OtherLink(n)
  PROVE  PeerInv'
<1>1. PICK d \in {-1, 1} : /\ others' = [others EXCEPT ![n] = @ - d]
                           /\ cap' = [cap EXCEPT ![n] = @ + d]
  BY DEF Peering!OtherLink
<1>2. nb' = nb /\ wire' = wire /\ meshFailed' = meshFailed BY DEF Peering!OtherLink
<1>3. cap \in [Peering!Nodes -> Int] /\ others \in [Peering!Nodes -> Int] BY DEF PeerInv
<1>4. cap' \in [Peering!Nodes -> Int] /\ others' \in [Peering!Nodes -> Int] BY <1>1, <1>3, SMT
<1>5. \A m \in Peering!Nodes : cap'[m] + others'[m] = cap[m] + others[m] BY <1>1, <1>3, SMT
<1> QED BY <1>2, <1>4, <1>5 DEF PeerInv

\* What PeerInv says holds from the start and is kept.
LEMMA PeerInductive ==
  ASSUME Peering!MeshAssumption
  PROVE  Peering!Spec => []PeerInv
<1>1. Capacity \in Nat BY DEF Peering!MeshAssumption
<1>2. Peering!Init => PeerInv
  <2> SUFFICES ASSUME Peering!Init PROVE PeerInv
    OBVIOUS
  <2> DEFINE i == Peering!FreshItem
  <2>1. GoodItem(i) /\ InUse(i) = 0
    BY DEF Peering!FreshItem, GoodItem, IsItem, InUse, TimersOf, StatesOf, Peering!AssocStates, Peering!Timers
  <2>2. /\ nb = [n \in Peering!Nodes |-> i] /\ cap = [n \in Peering!Nodes |-> Capacity]
        /\ others = [n \in Peering!Nodes |-> 0] /\ wire = [n \in Peering!Nodes |-> <<>>]
        /\ meshFailed = "none"
    BY DEF Peering!Init
  <2> HIDE DEF i
  <2>3. \A n \in Peering!Nodes : FramesFit(wire[n], nb[n], nb[Other(n)]) BY <2>2, NothingSent
  <2>4. \A n \in Peering!Nodes : cap[n] + others[n] + InUse(nb[n]) <= Capacity BY <1>1, <2>1, <2>2, SMT
  <2> QED BY <1>1, <2>1, <2>2, <2>3, <2>4 DEF PeerInv
<1>3. PeerInv /\ [Peering!Next]_(Peering!vars) => PeerInv'
  <2> SUFFICES ASSUME PeerInv, [Peering!Next]_(Peering!vars) PROVE PeerInv'
    OBVIOUS
  <2>1. CASE UNCHANGED Peering!vars
    BY <2>1 DEF Peering!vars, PeerInv
  <2>2. CASE Peering!Next
    <3>1. PICK n \in Peering!Nodes :
            \/ Peering!TimerFires(n) \/ Peering!ReceiveBeaconFrame(n) \/ Peering!LinkSetupEvent(n)
            \/ Peering!LinkStateEvent(n) \/ Peering!SendLinkStateFrame(n) \/ Peering!ReceiveAssocFrame(n)
            \/ Peering!ReceiveLinkStateFrame(n) \/ Peering!Lose(n) \/ Peering!AgeItems(n)
            \/ Peering!OtherLink(n)
      BY <2>2 DEF Peering!Next
    <3> QED BY <1>1, <3>1, TimerStep, BeaconStep, SetupStep, WireStep, AssocFrameStep, LinkStateStep,
               AgeStep, OtherLinkStep
  <2> QED BY <2>1, <2>2
<1> QED BY <1>2, <1>3, PTL DEF Peering!Spec

\* No event comes to a state of a link that calls it invalid, and no confirm from a
\* stranger, whatever was lost or late and whatever the capacities: a timer runs in the
\* states that expect it and in no other (the ERROR_ReportError of
\* Dot11sAssoc_*State and of Dot11s_ReceiveAssocConfirmFrame).
THEOREM PeerNoInvalidEvent ==
  ASSUME Peering!MeshAssumption
  PROVE  Peering!Spec => []Peering!NoInvalidEvent
<1>1. PeerInv => Peering!NoInvalidEvent BY DEF PeerInv, Peering!NoInvalidEvent
<1> QED BY <1>1, PeerInductive, PTL

\* A link that waits for the other end has the timer that ends the wait, in every state
\* and after any loss.
THEOREM PeerWaitsAreTimed ==
  ASSUME Peering!MeshAssumption
  PROVE  Peering!Spec => []Peering!WaitsAreTimed
<1>1. PeerInv => Peering!WaitsAreTimed
  BY DEF PeerInv, GoodItem, TimersOf, Peering!WaitsAreTimed
<1> QED BY <1>1, PeerInductive, PTL

\* The capacity that beacons advertise never counts a link in use as free; it may be
\* understated, since a close from the other end does not give its share back.
THEOREM PeerCapacity ==
  ASSUME Peering!MeshAssumption
  PROVE  Peering!Spec => []Peering!CapacityNotOverstated
<1>1. PeerInv => Peering!CapacityNotOverstated
  BY DEF PeerInv, InUse, Peering!CapacityNotOverstated, Peering!Linked
<1> QED BY <1>1, PeerInductive, PTL

-----------------------------------------------------------------------------
(* The ids of a link. *)

\* A set of numbers that is not empty has a least one.
LEMMA LeastOf ==
  ASSUME NEW T, T \subseteq Nat, T # {}
  PROVE  \E m \in T : \A k \in T : m <= k
<1> DEFINE Less == {ss \in Nat \X Nat : ss[1] < ss[2]}
<1>1. IsWellFoundedOn(Less, Nat) BY NatLessThanWellFounded DEF OpToRel
<1> HIDE DEF Less
<1>2. PICK x \in T : \A y \in T : ~ (<<y, x>> \in Less) BY <1>1, WFMin
<1>3. \A y \in T : x <= y
  <2> SUFFICES ASSUME NEW y \in T PROVE x <= y OBVIOUS
  <2>1. x \in Nat /\ y \in Nat OBVIOUS
  <2>2. <<y, x>> \in Nat \X Nat /\ <<y, x>>[1] = y /\ <<y, x>>[2] = x BY <2>1
  <2>3. ~ (y < x) BY <1>2, <2>2 DEF Less
  <2> QED BY <2>1, <2>3, SMT
<1> QED BY <1>3

\* An id is left to draw: none of the frames and items has it.
IdLeft == \E i \in 1 .. MaxId : i \notin Peering!UsedIds

\* The id drawn is one of them.
LEMMA DrawnIsFresh ==
  ASSUME Peering!MeshAssumption, IdLeft
  PROVE  /\ Peering!GetRandomLinkId \in Nat \ {0}
         /\ Peering!GetRandomLinkId \notin Peering!UsedIds
<1> DEFINE T == {i \in 1 .. MaxId : i \notin Peering!UsedIds}
<1>1. T \subseteq Nat \ {0} /\ T # {} /\ MaxId \in Nat BY DEF IdLeft, Peering!MeshAssumption
<1>2. PICK t \in T : \A k \in T : t <= k BY <1>1, LeastOf
<1>3. \A j \in 1 .. t - 1 : j \in Peering!UsedIds
  <2> TAKE j \in 1 .. t - 1
  <2>1. t \in 1 .. MaxId OBVIOUS
  <2>2. j \in 1 .. MaxId /\ ~ (t <= j) BY <1>1, <2>1, SMT
  <2> QED BY <1>2, <2>2
<1>4. Peering!GetRandomLinkId \in 1 .. MaxId /\ Peering!GetRandomLinkId \notin Peering!UsedIds
  BY <1>3 DEF Peering!GetRandomLinkId
<1> QED BY <1>1, <1>4, SMT

\* The ids of an item: a link has its own id from the time it is drawn, and that of the
\* other end once an open or a confirm was met.
IdsFit(i) ==
  /\ i.assoc \in {"IDLE", "LISTEN", "OPEN_SENT"} => i.peerLinkId = 0
  /\ i.assoc \in Peering!AssocStates \ {"IDLE", "HOLDING"} => i.linkId # 0
  /\ i.assoc \in {"CONFIRM_SENT", "CONFIRM_RECEIVED", "ESTABLISHED"} => i.peerLinkId # 0

\* A link that has its confirm.
Trusts(i) == i.assoc \in {"CONFIRM_RECEIVED", "ESTABLISHED"}

\* The frames that an item sends have its ids, a close perhaps none.
Signed(s, i) ==
  /\ IsSequence(s)
  /\ \A k \in 1 .. Len(s) :
       /\ s[k].linkId \in {i.linkId, 0}
       /\ s[k].type \in {"open", "confirm"} => s[k].linkId # 0
       /\ s[k].type = "confirm" => s[k].peerLinkId = i.peerLinkId /\ i.peerLinkId # 0

\* What an event makes of the ids of an item: it keeps its own id, draws one or gives it
\* up; it takes the id of the other from an open or a confirm, and only once; and it
\* takes a confirm only if it names its own id.
KeepsIds(i, e, j) ==
  /\ j.linkId = i.linkId
  /\ \/ j.peerLinkId = i.peerLinkId
     \/ i.peerLinkId = 0 /\ e.type \in {"open", "confirm"} /\ j.peerLinkId = e.peerLinkId
  /\ Trusts(j) => \/ Trusts(i) /\ j.peerLinkId = i.peerLinkId
                  \/ e.type = "confirm" /\ e.linkId = i.linkId /\ e.peerLinkId = j.peerLinkId
DrawsId(j) == j.linkId = Peering!GetRandomLinkId /\ j.peerLinkId = 0 /\ ~ Trusts(j)
GivesUpIds(i, e, j) ==
  /\ j.linkId = 0 /\ ~ Trusts(j)
  /\ \/ j.peerLinkId \in {0, i.peerLinkId}
     \/ e.type \in {"open", "confirm"} /\ j.peerLinkId = e.peerLinkId
IdsOf(i, e, r) ==
  /\ IdsFit(r.item) /\ Signed(r.out, r.item)
  /\ KeepsIds(i, e, r.item) \/ DrawsId(r.item) \/ GivesUpIds(i, e, r.item)

\* An event with the ids of its frame.
EventFits(e) ==
  /\ e.type \in {"open", "confirm"} => e.peerLinkId # 0
  /\ e.type = "confirm" => e.linkId # 0

-----------------------------------------------------------------------------
\* The parts of an outcome.
LEMMA HoldOf ==
  ASSUME NEW j, IsItem(j), NEW out
  PROVE  LET r == Peering!Hold(j, out)
         IN  /\ r.out = out /\ r.item.linkId = j.linkId /\ r.item.peerLinkId = j.peerLinkId
             /\ r.item.assoc = "HOLDING"
BY DEF IsItem, Peering!Hold, Peering!Quiet

\* An end that waits for the answer.
LEMMA AwaitOf ==
  ASSUME NEW j, IsItem(j), NEW out, NEW s
  PROVE  LET r == Peering!Await(j, out, s)
         IN  /\ r.out = out /\ r.item.linkId = j.linkId /\ r.item.peerLinkId = j.peerLinkId
             /\ r.item.assoc = s
BY DEF IsItem, Peering!Await, Peering!Quiet

\* A link that is established.
LEMMA EstablishOf ==
  ASSUME NEW j, IsItem(j), NEW out, NEW n
  PROVE  LET r == Peering!Establish(n, j, out)
         IN  /\ r.out = out /\ r.item.linkId = j.linkId /\ r.item.peerLinkId = j.peerLinkId
             /\ r.item.assoc = "ESTABLISHED"
BY DEF IsItem, Peering!Establish, Peering!Quiet

\* A link that is forgotten.
LEMMA ForgottenOf ==
  ASSUME NEW j, IsItem(j)
  PROVE  LET r == Peering!ToIdle(j)
         IN  /\ r.out = <<>> /\ r.item.linkId = 0 /\ r.item.peerLinkId = 0 /\ r.item.assoc = "IDLE"
BY DEF IsItem, Peering!ToIdle, Peering!Quiet

\* An item with other ids.
LEMMA OwnIdOf ==
  ASSUME NEW j, IsItem(j), NEW l
  PROVE  LET x == [j EXCEPT !.linkId = l]
         IN  IsItem(x) /\ x.linkId = l /\ x.peerLinkId = j.peerLinkId /\ x.assoc = j.assoc
BY DEF IsItem

\* The same with the peer's id.
LEMMA PeerIdOf ==
  ASSUME NEW j, IsItem(j), NEW p
  PROVE  LET x == [j EXCEPT !.peerLinkId = p]
         IN  IsItem(x) /\ x.linkId = j.linkId /\ x.peerLinkId = p /\ x.assoc = j.assoc
BY DEF IsItem

\* The ids of the frames that are sent.
LEMMA IdsSent ==
  ASSUME NEW i, NEW j, i.linkId = j.linkId, i.peerLinkId = j.peerLinkId
  PROVE  /\ Signed(<<>>, i) /\ Signed(<<Peering!Close(j)>>, i)
         /\ i.linkId # 0 => Signed(<<Peering!Request(j)>>, i)
         /\ i.linkId # 0 /\ i.peerLinkId # 0 =>
              /\ Signed(<<Peering!Confirm(j)>>, i)
              /\ Signed(<<Peering!Request(j), Peering!Confirm(j)>>, i)
<1> DEFINE o == Peering!Request(j)
           c == Peering!Confirm(j)
           z == Peering!Close(j)
<1>1. /\ o.type = "open" /\ o.linkId = j.linkId
      /\ c.type = "confirm" /\ c.linkId = j.linkId /\ c.peerLinkId = j.peerLinkId
      /\ z.type = "close" /\ z.linkId = j.linkId
  BY DEF Peering!Request, Peering!Confirm, Peering!Close, Peering!Frame
<1> HIDE DEF o, c, z
<1>2. ASSUME NEW f PROVE Len(<<f>>) = 1 /\ <<f>>[1] = f /\ IsSequence(<<f>>)
  <2>1. <<f>> \in Seq({f}) OBVIOUS
  <2>2. IsSequence(<<f>>) BY <2>1, Zenon DEF IsSequence
  <2> QED BY <2>2
<1>3. Len(<<o, c>>) = 2 /\ <<o, c>>[1] = o /\ <<o, c>>[2] = c /\ IsSequence(<<o, c>>)
  <2>1. <<o, c>> \in Seq({o, c}) OBVIOUS
  <2>2. IsSequence(<<o, c>>) BY <2>1, Zenon DEF IsSequence
  <2> QED BY <2>2
<1>4. <<>> \in Seq({}) /\ Len(<<>>) = 0 /\ IsSequence(<<>>) BY EmptySeq DEF IsSequence
<1>5. 1 .. 1 = {1} /\ 1 .. 2 = {1, 2} /\ 1 .. 0 = {} BY SMT
<1>6. Signed(<<>>, i) BY <1>4, <1>5 DEF Signed
<1>7. Signed(<<z>>, i) BY <1>1, <1>2, <1>5 DEF Signed
<1>8. i.linkId # 0 => Signed(<<o>>, i) BY <1>1, <1>2, <1>5 DEF Signed
<1>9. i.linkId # 0 /\ i.peerLinkId # 0 => Signed(<<c>>, i) BY <1>1, <1>2, <1>5 DEF Signed
<1>10. i.linkId # 0 /\ i.peerLinkId # 0 => Signed(<<o, c>>, i) BY <1>1, <1>3, <1>5 DEF Signed
<1> QED BY <1>6, <1>7, <1>8, <1>9, <1>10 DEF o, c, z

-----------------------------------------------------------------------------
\* An item that keeps its ids and its state, whatever it sends of them.
LEMMA IdsKept ==
  ASSUME NEW i, NEW e, NEW r, IdsFit(i), Signed(r.out, i),
         r.item.linkId = i.linkId, r.item.peerLinkId = i.peerLinkId,
         r.item.assoc = i.assoc \/ r.item.assoc = "HOLDING" \/ (Trusts(i) /\ r.item.assoc = "ESTABLISHED")
  PROVE  IdsOf(i, e, r)
<1>1. Signed(r.out, r.item) BY DEF Signed
<1>2. IdsFit(r.item) BY DEF IdsFit, Trusts, Peering!AssocStates
<1>3. Trusts(r.item) => Trusts(i) BY DEF Trusts
<1> QED BY <1>1, <1>2, <1>3 DEF IdsOf, KeepsIds

\* An item that gives up its own id.
LEMMA IdsGivenUp ==
  ASSUME NEW i, NEW e, NEW r, Signed(r.out, r.item), r.item.linkId = 0,
         \/ r.item.assoc = "HOLDING" /\ r.item.peerLinkId \in {0, i.peerLinkId}
         \/ r.item.assoc = "HOLDING" /\ e.type \in {"open", "confirm"} /\ r.item.peerLinkId = e.peerLinkId
         \/ r.item.assoc = "IDLE" /\ r.item.peerLinkId = 0
  PROVE  IdsOf(i, e, r)
<1>1. IdsFit(r.item) /\ ~ Trusts(r.item) BY DEF IdsFit, Trusts, Peering!AssocStates
<1> QED BY <1>1 DEF IdsOf, GivesUpIds

\* The state machine, state by state.
LEMMA IdleIds ==
  ASSUME NEW i, NEW e, IsItem(i), IdsFit(i), i.assoc = "IDLE", Peering!GetRandomLinkId # 0
  PROVE  IdsOf(i, e, Peering!IdleState(i, e))
<1> DEFINE l == Peering!GetRandomLinkId
           j == [i EXCEPT !.linkId = l]
           k == [i EXCEPT !.linkId = l, !.assoc = "LISTEN"]
           a == Peering!Await(j, <<Peering!Request(j)>>, "OPEN_SENT")
<1>0. l # 0 OBVIOUS
<1> HIDE DEF l
<1>1. IsItem(j) /\ j.linkId = l /\ j.peerLinkId = 0 BY OwnIdOf DEF IdsFit
<1>2. k.linkId = l /\ k.peerLinkId = 0 /\ k.assoc = "LISTEN" BY DEF IsItem, IdsFit
<1> HIDE DEF j, k
<1>3. IdsOf(i, e, a)
  <2>1. /\ a.out = <<Peering!Request(j)>> /\ a.item.linkId = l /\ a.item.peerLinkId = 0
        /\ a.item.assoc = "OPEN_SENT"
    BY <1>1, AwaitOf
  <2> HIDE DEF a
  <2>2. Signed(a.out, a.item)
    <3>1. a.item.linkId = j.linkId /\ a.item.peerLinkId = j.peerLinkId /\ a.item.linkId # 0
      BY <1>0, <1>1, <2>1
    <3> QED BY <2>1, <3>1, IdsSent
  <2> QED BY <1>0, <2>1, <2>2 DEF IdsOf, DrawsId, IdsFit, Trusts, l, Peering!AssocStates
<1>4. IdsOf(i, e, Peering!Quiet(k))
  <2> DEFINE r == Peering!Quiet(k)
  <2>1. r.item = k /\ r.out = <<>> BY DEF Peering!Quiet
  <2> HIDE DEF r
  <2>2. Signed(r.out, r.item) BY <2>1, IdsSent
  <2>3. IdsFit(k) /\ ~ Trusts(k) BY <1>0, <1>2 DEF IdsFit, Trusts, Peering!AssocStates
  <2>4. IdsOf(i, e, r) BY <1>2, <2>1, <2>2, <2>3 DEF IdsOf, DrawsId, l
  <2> QED BY <2>4 DEF r
<1>5. ASSUME NEW r, r.item = i, r.out = <<>> PROVE IdsOf(i, e, r)
  <2>1. Signed(r.out, i) BY <1>5, IdsSent
  <2> QED BY <1>5, <2>1, IdsKept
<1>6. Peering!IdleState(i, e) \in {a, Peering!Quiet(k)}
      \/ \E r : r = Peering!IdleState(i, e) /\ r.item = i /\ r.out = <<>>
  BY DEF Peering!IdleState, Peering!Report, Peering!Quiet, a, j, k, l
<1> QED BY <1>3, <1>4, <1>5, <1>6

\* A close is sent, or none, and the link held with ids of its own.
LEMMA HeldIds ==
  ASSUME NEW i, NEW e, NEW j, IsItem(j), NEW r,
         r \in {Peering!CloseAndHold(j), [Peering!CloseAndHold(j) EXCEPT !.cap = 1], Peering!Hold(j, <<>>)},
         \/ j.linkId = i.linkId /\ j.peerLinkId = i.peerLinkId
         \/ j.linkId = 0 /\ j.peerLinkId \in {0, i.peerLinkId}
         \/ j.linkId \in {0, i.linkId} /\ i.peerLinkId = 0 /\ e.type \in {"open", "confirm"}
            /\ j.peerLinkId = e.peerLinkId
  PROVE  IdsOf(i, e, r)
<1> DEFINE z == <<Peering!Close(j)>>
<1>1. /\ r.item.linkId = j.linkId /\ r.item.peerLinkId = j.peerLinkId /\ r.item.assoc = "HOLDING"
      /\ r.out \in {z, <<>>}
  <2>1. LET h == Peering!Hold(j, z)
        IN  /\ h.out = z /\ h.item.linkId = j.linkId /\ h.item.peerLinkId = j.peerLinkId
            /\ h.item.assoc = "HOLDING"
    BY HoldOf
  <2>2. LET h == Peering!Hold(j, <<>>)
        IN  /\ h.out = <<>> /\ h.item.linkId = j.linkId /\ h.item.peerLinkId = j.peerLinkId
            /\ h.item.assoc = "HOLDING"
    BY HoldOf
  <2>3. Peering!CloseAndHold(j) = Peering!Hold(j, z) BY DEF Peering!CloseAndHold
  <2>4. LET h == Peering!Hold(j, z) IN [h EXCEPT !.cap = 1].item = h.item /\ [h EXCEPT !.cap = 1].out = h.out
    BY DEF Peering!Hold, Peering!Quiet
  <2> HIDE DEF z
  <2> QED BY <2>1, <2>2, <2>3, <2>4
<1>2. Signed(r.out, r.item)
  <2>1. Signed(z, r.item) /\ Signed(<<>>, r.item) BY <1>1, IdsSent
  <2> HIDE DEF z
  <2> QED BY <1>1, <2>1
<1> HIDE DEF z
<1>3. IdsFit(r.item) /\ ~ Trusts(r.item) BY <1>1 DEF IdsFit, Trusts, Peering!AssocStates
<1> QED BY <1>1, <1>2, <1>3 DEF IdsOf, KeepsIds, GivesUpIds

\* The item stays, with a confirm or a close or nothing.
LEMMA StaysIds ==
  ASSUME NEW i, NEW e, IdsFit(i)
  PROVE  /\ IdsOf(i, e, Peering!Quiet(i))
         /\ \A t : IdsOf(i, e, Peering!Report(i, t))
         /\ IdsOf(i, e, [Peering!Quiet(i) EXCEPT !.out = <<>>])
         /\ IdsOf(i, e, [Peering!Quiet(i) EXCEPT !.out = <<Peering!Close(i)>>])
         /\ i.assoc \in {"CONFIRM_SENT", "CONFIRM_RECEIVED", "ESTABLISHED"} =>
              IdsOf(i, e, [Peering!Quiet(i) EXCEPT !.out = <<Peering!Confirm(i)>>])
<1>1. ASSUME NEW out, Signed(out, i), NEW r, r.item = i, r.out = out PROVE IdsOf(i, e, r)
  BY <1>1, IdsKept
<1> DEFINE z == <<Peering!Close(i)>>
           c == <<Peering!Confirm(i)>>
<1>2. /\ Signed(<<>>, i) /\ Signed(z, i)
      /\ i.assoc \in {"CONFIRM_SENT", "CONFIRM_RECEIVED", "ESTABLISHED"} => Signed(c, i)
  BY IdsSent DEF IdsFit, Peering!AssocStates
<1> HIDE DEF z, c
<1>3. /\ Peering!Quiet(i).item = i /\ Peering!Quiet(i).out = <<>>
      /\ \A t : Peering!Report(i, t).item = i /\ Peering!Report(i, t).out = <<>>
      /\ \A out : LET r == [Peering!Quiet(i) EXCEPT !.out = out] IN r.item = i /\ r.out = out
  BY DEF Peering!Quiet, Peering!Report
<1>4. IdsOf(i, e, Peering!Quiet(i)) BY <1>1, <1>2, <1>3
<1>5. \A t : IdsOf(i, e, Peering!Report(i, t)) BY <1>1, <1>2, <1>3
<1>6. \A out : Signed(out, i) => IdsOf(i, e, [Peering!Quiet(i) EXCEPT !.out = out])
  BY <1>1, <1>3
<1> QED BY <1>2, <1>4, <1>5, <1>6 DEF z, c

\* A request, a confirm or both are sent, and the answer awaited.
LEMMA AwaitIds ==
  ASSUME NEW i, NEW e, NEW j, IsItem(j), j.linkId = i.linkId, j.linkId # 0, NEW t, NEW r,
         \/ /\ t = i.assoc \/ (i.assoc = "LISTEN" /\ t = "OPEN_SENT")
            /\ t \in {"OPEN_SENT", "CONFIRM_SENT"} /\ IdsFit(i) /\ j.peerLinkId = i.peerLinkId
            /\ r = Peering!Await(j, <<Peering!Request(j)>>, t)
         \/ /\ t = "CONFIRM_SENT" /\ i.peerLinkId = 0 /\ e.type = "open" /\ j.peerLinkId = e.peerLinkId
            /\ j.peerLinkId # 0
            /\ r \in {Peering!Await(j, <<Peering!Confirm(j)>>, t),
                      Peering!Await(j, <<Peering!Request(j), Peering!Confirm(j)>>, t)}
  PROVE  IdsOf(i, e, r)
<1> DEFINE o == <<Peering!Request(j)>>
           c == <<Peering!Confirm(j)>>
           b == <<Peering!Request(j), Peering!Confirm(j)>>
<1>1. \A out : LET a == Peering!Await(j, out, t)
               IN  /\ a.out = out /\ a.item.linkId = j.linkId /\ a.item.peerLinkId = j.peerLinkId
                   /\ a.item.assoc = t
  BY AwaitOf
<1>2. ASSUME NEW k, k.linkId = j.linkId, k.peerLinkId = j.peerLinkId
      PROVE  Signed(o, k) /\ (j.peerLinkId # 0 => Signed(c, k) /\ Signed(b, k))
  BY <1>2, IdsSent
<1>3. CASE r = Peering!Await(j, o, t) /\ j.peerLinkId = i.peerLinkId /\ IdsFit(i)
           /\ t \in {"OPEN_SENT", "CONFIRM_SENT"} /\ (t = i.assoc \/ (i.assoc = "LISTEN" /\ t = "OPEN_SENT"))
  <2> HIDE DEF o, c, b
  <2>1. r.out = o /\ r.item.linkId = j.linkId /\ r.item.peerLinkId = j.peerLinkId /\ r.item.assoc = t
    BY <1>1, <1>3
  <2>2. Signed(r.out, r.item) BY <1>2, <2>1
  <2>3. IdsFit(r.item) /\ ~ Trusts(r.item) BY <1>3, <2>1 DEF IdsFit, Trusts, Peering!AssocStates
  <2> QED BY <1>3, <2>1, <2>2, <2>3 DEF IdsOf, KeepsIds
<1>4. CASE /\ t = "CONFIRM_SENT" /\ i.peerLinkId = 0 /\ e.type = "open" /\ j.peerLinkId = e.peerLinkId
           /\ j.peerLinkId # 0 /\ r \in {Peering!Await(j, c, t), Peering!Await(j, b, t)}
  <2> HIDE DEF o, c, b
  <2>1. r.out \in {c, b} /\ r.item.linkId = j.linkId /\ r.item.peerLinkId = j.peerLinkId /\ r.item.assoc = t
    BY <1>1, <1>4
  <2>2. Signed(r.out, r.item) BY <1>2, <1>4, <2>1
  <2>3. IdsFit(r.item) /\ ~ Trusts(r.item) BY <1>4, <2>1 DEF IdsFit, Trusts, Peering!AssocStates
  <2> QED BY <1>4, <2>1, <2>2, <2>3 DEF IdsOf, KeepsIds
<1> QED BY <1>3, <1>4

\* An end that listens takes the id of the request it hears.
LEMMA ListenIds ==
  ASSUME NEW i, NEW e, IsItem(i), IdsFit(i), EventFits(e), i.assoc = "LISTEN"
  PROVE  IdsOf(i, e, Peering!ListenState(i, e))
<1> DEFINE j == [i EXCEPT !.peerLinkId = e.peerLinkId]
           b == Peering!Await(j, <<Peering!Request(j), Peering!Confirm(j)>>, "CONFIRM_SENT")
           a == Peering!Await(i, <<Peering!Request(i)>>, "OPEN_SENT")
<1>1. i.linkId # 0 /\ i.peerLinkId = 0 BY DEF IdsFit, Peering!AssocStates
<1>2. IsItem(j) /\ j.linkId = i.linkId /\ j.peerLinkId = e.peerLinkId BY PeerIdOf
<1> HIDE DEF j
<1>3. e.type = "open" => IdsOf(i, e, b)
  <2> HIDE DEF b
  <2>1. ASSUME e.type = "open" PROVE IdsOf(i, e, b)
    <3>1. j.linkId # 0 /\ j.peerLinkId # 0 /\ j.linkId = i.linkId /\ j.peerLinkId = e.peerLinkId
      BY <1>1, <1>2, <2>1 DEF EventFits
    <3>2. b \in {Peering!Await(j, <<Peering!Confirm(j)>>, "CONFIRM_SENT"),
                 Peering!Await(j, <<Peering!Request(j), Peering!Confirm(j)>>, "CONFIRM_SENT")}
      BY DEF b
    <3> QED BY <1>1, <1>2, <2>1, <3>1, <3>2, AwaitIds
  <2> QED BY <2>1
<1>4. IdsOf(i, e, a) BY <1>1, AwaitIds
<1>5. IdsOf(i, e, Peering!Quiet(i)) /\ \A t : IdsOf(i, e, Peering!Report(i, t)) BY StaysIds
<1>6. IdsOf(i, e, Peering!ToIdle(i))
  <2> DEFINE r == Peering!ToIdle(i)
  <2>1. r.out = <<>> /\ r.item.linkId = 0 /\ r.item.peerLinkId = 0 /\ r.item.assoc = "IDLE"
    BY ForgottenOf
  <2> HIDE DEF r
  <2>2. Signed(r.out, r.item) BY <2>1, IdsSent
  <2>3. IdsOf(i, e, r) BY <2>1, <2>2, IdsGivenUp
  <2> QED BY <2>3 DEF r
<1>7. Peering!IsValidLinkOpen(i, e) BY <1>1 DEF Peering!IsValidLinkOpen
<1>8. \/ Peering!ListenState(i, e) \in {Peering!Quiet(i), Peering!ToIdle(i), a, Peering!Report(i, "timer")}
      \/ e.type = "open" /\ Peering!ListenState(i, e) = b
  BY <1>7 DEF Peering!ListenState, j
<1> QED BY <1>3, <1>4, <1>5, <1>6, <1>8

\* An end that has sent a request takes the peer's id of a request or of a confirm of its own id.
LEMMA OpenSentIds ==
  ASSUME NEW i, NEW e, IsItem(i), IdsFit(i), EventFits(e), i.assoc = "OPEN_SENT"
  PROVE  IdsOf(i, e, Peering!OpenSentState(i, e))
<1> DEFINE a == [i EXCEPT !.linkId = 0]
           b == [i EXCEPT !.linkId = e.linkId, !.peerLinkId = e.peerLinkId]
           stopped == [i EXCEPT !.timers = @ \ {"RETRY_TIMEOUT"}]
           met == [stopped EXCEPT !.peerLinkId = e.peerLinkId]
           done == [met EXCEPT !.assoc = "CONFIRM_RECEIVED", !.timers = @ \cup {"OPEN_TIMEOUT"}]
           c == [Peering!Quiet(done) EXCEPT !.out = <<Peering!Confirm(met)>>]
<1>1. i.linkId # 0 /\ i.peerLinkId = 0 BY DEF IdsFit, Peering!AssocStates
<1>2. IsItem(a) /\ a.linkId = 0 /\ a.peerLinkId = i.peerLinkId BY OwnIdOf
<1>3. IsItem(b) /\ b.linkId = e.linkId /\ b.peerLinkId = e.peerLinkId BY DEF IsItem
<1>4. IsItem(met) /\ met.linkId = i.linkId /\ met.peerLinkId = e.peerLinkId
  <2>1. IsItem(stopped) /\ stopped.linkId = i.linkId BY DEF IsItem
  <2> HIDE DEF stopped
  <2> QED BY <2>1, PeerIdOf
<1> HIDE DEF met
<1>5. done.linkId = met.linkId /\ done.peerLinkId = met.peerLinkId /\ done.assoc = "CONFIRM_RECEIVED"
  BY <1>4 DEF IsItem
<1> HIDE DEF a, b, stopped, done
<1>6. IdsOf(i, e, Peering!CloseAndHold(a)) BY <1>2, HeldIds
<1>7. ASSUME e.type = "close", Peering!IsValidLinkClose(i, e)
      PROVE  IdsOf(i, e, Peering!Hold(b, <<>>))
  <2>1. b.linkId \in {0, i.linkId} /\ b.peerLinkId = 0
    BY <1>1, <1>3, <1>7 DEF Peering!IsValidLinkClose
  <2> QED BY <1>1, <1>3, <2>1, HeldIds
<1>8. IdsOf(i, e, Peering!Quiet(i)) /\ \A t : IdsOf(i, e, Peering!Report(i, t)) BY StaysIds
<1>9. ASSUME e.type = "open"
      PROVE  IdsOf(i, e, Peering!Await(met, <<Peering!Confirm(met)>>, "CONFIRM_SENT"))
  <2>1. met.peerLinkId # 0 /\ met.linkId # 0 BY <1>1, <1>4, <1>9 DEF EventFits
  <2>2. \A r : r = Peering!Await(met, <<Peering!Confirm(met)>>, "CONFIRM_SENT") => IdsOf(i, e, r)
    BY <1>1, <1>4, <1>9, <2>1, AwaitIds
  <2> QED BY <2>2
<1>10. ASSUME e.type = "confirm", e.linkId = i.linkId PROVE IdsOf(i, e, c)
  <2>1. c.item = done /\ c.out = <<Peering!Confirm(met)>> BY DEF Peering!Quiet
  <2>2. met.peerLinkId # 0 /\ met.linkId # 0 BY <1>1, <1>4, <1>10 DEF EventFits
  <2>3. Signed(<<Peering!Confirm(met)>>, done) BY <1>5, <2>2, IdsSent
  <2> HIDE DEF c
  <2>4. IdsFit(done) /\ Trusts(done) BY <1>5, <2>2 DEF IdsFit, Trusts, Peering!AssocStates
  <2>5. KeepsIds(i, e, done) BY <1>1, <1>4, <1>5, <1>10 DEF KeepsIds
  <2> QED BY <2>1, <2>3, <2>4, <2>5 DEF IdsOf
<1>11. ASSUME e.type = "confirm" PROVE IdsOf(i, e, Peering!CloseAndHold(met))
  BY <1>1, <1>4, <1>11, HeldIds
<1>12. IdsOf(i, e, Peering!Await(i, <<Peering!Request(i)>>, "OPEN_SENT")) BY <1>1, AwaitIds
<1>13. Peering!IsValidLinkOpen(i, e) BY <1>1 DEF Peering!IsValidLinkOpen
<1>14. Peering!IsValidLinkConfirm(i, e) <=> e.linkId = i.linkId
  BY <1>13 DEF Peering!IsValidLinkConfirm
<1>15. CASE e.type \in {"CANCEL_LINK", "RETRY_TIMEOUT"}
  BY <1>6, <1>12, <1>15 DEF Peering!OpenSentState, Peering!Retry, a
<1>16. CASE e.type = "close"
  BY <1>7, <1>8, <1>16 DEF Peering!OpenSentState, b
<1>17. CASE e.type = "open"
  BY <1>9, <1>13, <1>17 DEF Peering!OpenSentState, met, stopped
<1>18. CASE e.type = "confirm"
  BY <1>10, <1>11, <1>14, <1>18 DEF Peering!OpenSentState, met, done, stopped
<1>19. CASE e.type \notin {"CANCEL_LINK", "RETRY_TIMEOUT", "close", "open", "confirm"}
  BY <1>8, <1>19 DEF Peering!OpenSentState
<1> QED BY <1>15, <1>16, <1>17, <1>18, <1>19

\* A link is established, with a confirm or without.
LEMMA EstablishIds ==
  ASSUME NEW n, NEW i, NEW e, IsItem(i), IdsFit(i),
         \/ i.assoc = "CONFIRM_RECEIVED"
         \/ /\ i.assoc = "CONFIRM_SENT" /\ e.type = "confirm" /\ e.linkId = i.linkId
            /\ e.peerLinkId = i.peerLinkId
  PROVE  /\ IdsOf(i, e, Peering!Establish(n, i, <<>>))
         /\ IdsOf(i, e, Peering!Establish(n, i, <<Peering!Confirm(i)>>))
<1> DEFINE c == <<Peering!Confirm(i)>>
<1>1. i.linkId # 0 /\ i.peerLinkId # 0 BY DEF IdsFit, Peering!AssocStates
<1>2. Signed(<<>>, i) /\ Signed(c, i) BY <1>1, IdsSent
<1> HIDE DEF c
<1>3. ASSUME NEW out \in {<<>>, c} PROVE IdsOf(i, e, Peering!Establish(n, i, out))
  <2> DEFINE r == Peering!Establish(n, i, out)
  <2>1. /\ r.out = out /\ r.item.linkId = i.linkId /\ r.item.peerLinkId = i.peerLinkId
        /\ r.item.assoc = "ESTABLISHED"
    BY EstablishOf
  <2> HIDE DEF r
  <2>2. Signed(r.out, r.item) BY <1>2, <2>1 DEF Signed
  <2>3. IdsFit(r.item) BY <1>1, <2>1 DEF IdsFit, Peering!AssocStates
  <2>4. KeepsIds(i, e, r.item) BY <2>1 DEF KeepsIds, Trusts
  <2>5. IdsOf(i, e, r) BY <2>2, <2>3, <2>4 DEF IdsOf
  <2> QED BY <2>5 DEF r
<1> QED BY <1>3 DEF c

\* An end that has its confirm keeps its ids until the link is held or established.
LEMMA ConfirmReceivedIds ==
  ASSUME NEW n, NEW i, NEW e, IsItem(i), IdsFit(i), i.assoc = "CONFIRM_RECEIVED"
  PROVE  IdsOf(i, e, Peering!ConfirmReceivedState(n, i, e))
<1>1. /\ IdsOf(i, e, Peering!CloseAndHold(i)) /\ IdsOf(i, e, Peering!Quiet(i))
      /\ \A t : IdsOf(i, e, Peering!Report(i, t))
      /\ IdsOf(i, e, Peering!Establish(n, i, <<Peering!Confirm(i)>>))
  BY HeldIds, StaysIds, EstablishIds
<1>2. Peering!ConfirmReceivedState(n, i, e) \in
        {Peering!CloseAndHold(i), Peering!Quiet(i), Peering!Report(i, "open"),
         Peering!Establish(n, i, <<Peering!Confirm(i)>>)}
  BY DEF Peering!ConfirmReceivedState
<1> QED BY <1>1, <1>2

\* An end that has sent a confirm trusts the link only after a confirm of both ids.
LEMMA ConfirmSentIds ==
  ASSUME NEW n, NEW i, NEW e, IsItem(i), IdsFit(i), i.assoc = "CONFIRM_SENT"
  PROVE  IdsOf(i, e, Peering!ConfirmSentState(n, i, e))
<1> DEFINE c == [Peering!Quiet(i) EXCEPT !.out = <<Peering!Confirm(i)>>]
           z == [Peering!Quiet(i) EXCEPT !.out = <<>>]
           a == Peering!Await(i, <<Peering!Request(i)>>, "CONFIRM_SENT")
<1>1. /\ IdsOf(i, e, Peering!CloseAndHold(i)) /\ IdsOf(i, e, Peering!Quiet(i))
      /\ \A t : IdsOf(i, e, Peering!Report(i, t))
      /\ IdsOf(i, e, c) /\ IdsOf(i, e, z)
  BY HeldIds, StaysIds
<1>2. i.linkId # 0 /\ i.peerLinkId # 0 BY DEF IdsFit, Peering!AssocStates
<1>3. IdsOf(i, e, a) BY <1>2, AwaitIds
<1>4. ASSUME e.type = "confirm", Peering!IsValidLinkConfirm(i, e)
      PROVE  IdsOf(i, e, Peering!Establish(n, i, <<>>))
  <2>1. e.linkId = i.linkId /\ e.peerLinkId = i.peerLinkId
    BY <1>2, <1>4 DEF Peering!IsValidLinkConfirm, Peering!IsValidLinkOpen
  <2> QED BY <1>4, <2>1, EstablishIds
<1>5. \/ Peering!ConfirmSentState(n, i, e) \in
           {Peering!CloseAndHold(i), Peering!Quiet(i), Peering!Report(i, "open"), Peering!Report(i, "timer"),
            a, c, z}
      \/ /\ e.type = "confirm" /\ Peering!IsValidLinkConfirm(i, e)
         /\ Peering!ConfirmSentState(n, i, e) = Peering!Establish(n, i, <<>>)
  BY DEF Peering!ConfirmSentState, Peering!Retry
<1> HIDE DEF a, c, z
<1> QED BY <1>1, <1>3, <1>4, <1>5

\* An established link keeps its ids until it is closed.
LEMMA EstablishedIds ==
  ASSUME NEW i, NEW e, IsItem(i), IdsFit(i), i.assoc = "ESTABLISHED"
  PROVE  IdsOf(i, e, Peering!EstablishedState(i, e))
<1> DEFINE c == [Peering!Quiet(i) EXCEPT !.out = <<Peering!Confirm(i)>>]
           z == [Peering!Quiet(i) EXCEPT !.out = <<>>]
           h == [Peering!CloseAndHold(i) EXCEPT !.cap = 1]
<1>1. /\ IdsOf(i, e, Peering!CloseAndHold(i)) /\ IdsOf(i, e, Peering!Quiet(i))
      /\ \A t : IdsOf(i, e, Peering!Report(i, t))
      /\ IdsOf(i, e, c) /\ IdsOf(i, e, z) /\ IdsOf(i, e, h)
  BY HeldIds, StaysIds
<1>2. Peering!EstablishedState(i, e) \in
        {Peering!CloseAndHold(i), Peering!Quiet(i), Peering!Report(i, "open"), Peering!Report(i, "timer"),
         c, z, h}
  BY DEF Peering!EstablishedState
<1> HIDE DEF c, z, h
<1> QED BY <1>1, <1>2

\* A held link keeps its ids until it is forgotten.
LEMMA HoldingIds ==
  ASSUME NEW i, NEW e, IsItem(i), IdsFit(i), i.assoc = "HOLDING"
  PROVE  IdsOf(i, e, Peering!HoldingState(i, e))
<1> DEFINE j == [i EXCEPT !.state = "NO_CAPABILITY"]
           c == [Peering!Quiet(i) EXCEPT !.out = <<Peering!Close(i)>>]
           z == [Peering!Quiet(i) EXCEPT !.out = <<>>]
           d == Peering!ToIdle(j)
<1>1. /\ IdsOf(i, e, Peering!Quiet(i)) /\ \A t : IdsOf(i, e, Peering!Report(i, t))
      /\ IdsOf(i, e, c) /\ IdsOf(i, e, z)
  BY StaysIds
<1>2. IdsOf(i, e, d)
  <2>1. IsItem(j) BY DEF IsItem
  <2> HIDE DEF j
  <2>2. d.out = <<>> /\ d.item.linkId = 0 /\ d.item.peerLinkId = 0 /\ d.item.assoc = "IDLE"
    BY <2>1, ForgottenOf
  <2> HIDE DEF d
  <2>3. Signed(d.out, d.item) BY <2>2, IdsSent
  <2> QED BY <2>2, <2>3, IdsGivenUp
<1>3. Peering!HoldingState(i, e) \in {Peering!Quiet(i), Peering!Report(i, "timer"), c, z, d}
  BY DEF Peering!HoldingState
<1> HIDE DEF c, z, d
<1> QED BY <1>1, <1>2, <1>3

\* The state machine as a whole.
LEMMA AssocIds ==
  ASSUME NEW n, NEW i, NEW e, IsItem(i), IdsFit(i), EventFits(e), Peering!GetRandomLinkId # 0
  PROVE  IdsOf(i, e, Peering!AssocStateFn(n, i, e))
<1>1. i.assoc \in Peering!AssocStates BY DEF IsItem
<1>2. CASE i.assoc = "IDLE" BY <1>2, IdleIds DEF Peering!AssocStateFn
<1>3. CASE i.assoc = "LISTEN" BY <1>3, ListenIds DEF Peering!AssocStateFn
<1>4. CASE i.assoc = "OPEN_SENT" BY <1>4, OpenSentIds DEF Peering!AssocStateFn
<1>5. CASE i.assoc = "CONFIRM_RECEIVED" BY <1>5, ConfirmReceivedIds DEF Peering!AssocStateFn
<1>6. CASE i.assoc = "CONFIRM_SENT" BY <1>6, ConfirmSentIds DEF Peering!AssocStateFn
<1>7. CASE i.assoc = "ESTABLISHED" BY <1>7, EstablishedIds DEF Peering!AssocStateFn
<1>8. CASE i.assoc = "HOLDING" BY <1>8, HoldingIds DEF Peering!AssocStateFn
<1> QED BY <1>1, <1>2, <1>3, <1>4, <1>5, <1>6, <1>7, <1>8 DEF Peering!AssocStates

(* The frames of two nodes and their links. *)

\* The frames under way from item i to that of peer: a confirm repeats the pair of ids
\* that the link of i has, unless that link is gone; the frames of the link come after
\* all older ones, and once the other knows its id the older ones are gone.
WireFit(s, i, peer) ==
  /\ \A k \in 1 .. Len(s) :
       /\ s[k].type \in {"open", "confirm"} => s[k].linkId # 0
       /\ s[k].type = "confirm" => /\ s[k].peerLinkId # 0
                                   /\ s[k].linkId = i.linkId => s[k].peerLinkId = i.peerLinkId
  /\ i.linkId # 0 =>
       /\ \A k, l \in 1 .. Len(s) :
            k < l /\ s[k].linkId = i.linkId => s[l].linkId \in {i.linkId, 0}
       /\ peer.peerLinkId = i.linkId => \A k \in 1 .. Len(s) : s[k].linkId \in {i.linkId, 0}

\* Item i has been told, or will be by a frame of s, that the other end has link b.
Told(i, s, b) ==
  \/ Trusts(i) /\ b = i.peerLinkId
  \/ \E k \in 1 .. Len(s) : s[k].type = "confirm" /\ s[k].peerLinkId = i.linkId /\ s[k].linkId = b

\* What both ends have been told, i sending s and j sending t, is that they have each
\* other's links.
Agree(i, s, j, t) ==
  \A b, c : Told(i, t, b) /\ Told(j, s, c) => b = j.linkId /\ c = i.linkId

\* An id that neither an item nor a frame has.
Unused(l, i, j, s, t) ==
  /\ l # 0 /\ l \notin {i.linkId, i.peerLinkId, j.linkId, j.peerLinkId}
  /\ \A k \in 1 .. Len(s) : l # s[k].linkId /\ l # s[k].peerLinkId
  /\ \A k \in 1 .. Len(t) : l # t[k].linkId /\ l # t[k].peerLinkId

\* The frames t that are left when the first one is the event, or none is.
Leaves(t, e, u) ==
  \/ u = t /\ e.type \notin {"open", "confirm"}
  \/ /\ t # <<>> /\ u = Tail(t) /\ e.type = Head(t).type
     /\ e.linkId = Head(t).peerLinkId /\ e.peerLinkId = Head(t).linkId

\* A frame of two sequences put together is one of the first or, after them, of the
\* second.
LEMMA Together ==
  ASSUME NEW s, NEW t, IsSequence(s), IsSequence(t)
  PROVE  /\ IsSequence(s \o t) /\ Len(s) \in Nat
         /\ \A k \in 1 .. Len(s \o t) :
              \/ k \in 1 .. Len(s) /\ (s \o t)[k] = s[k]
              \/ ~ (k <= Len(s)) /\ \E l \in 1 .. Len(t) : (s \o t)[k] = t[l]
<1>1. PICK S : s \in Seq(S) BY DEF IsSequence
<1>2. PICK T : t \in Seq(T) BY DEF IsSequence
<1>3. s \in Seq(S \cup T) /\ t \in Seq(S \cup T) BY <1>1, <1>2, SeqMonotonic
<1>4. /\ s \o t \in Seq(S \cup T) /\ Len(s \o t) = Len(s) + Len(t)
      /\ \A k \in 1 .. Len(s) + Len(t) : (s \o t)[k] = IF k <= Len(s) THEN s[k] ELSE t[k - Len(s)]
  BY <1>3, ConcatProperties
<1>5. Len(s) \in Nat /\ Len(t) \in Nat BY <1>3, LenProperties
<1>6. IsSequence(s \o t) BY <1>4 DEF IsSequence
<1>7. ASSUME NEW k \in 1 .. Len(s \o t)
      PROVE  \/ k \in 1 .. Len(s) /\ (s \o t)[k] = s[k]
             \/ ~ (k <= Len(s)) /\ \E l \in 1 .. Len(t) : (s \o t)[k] = t[l]
  <2>1. k \in 1 .. Len(s) + Len(t) BY <1>4
  <2>2. CASE k <= Len(s)
    <3>1. k \in 1 .. Len(s) BY <1>5, <2>1, <2>2
    <3> QED BY <1>4, <2>1, <2>2, <3>1
  <2>3. CASE ~ (k <= Len(s))
    <3>1. k - Len(s) \in 1 .. Len(t) BY <1>5, <2>1, <2>3
    <3> QED BY <1>4, <2>1, <2>3, <3>1
  <2> QED BY <2>2, <2>3
<1> QED BY <1>5, <1>6, <1>7

\* What is left of a sequence, and what was first.
LEMMA LeftOfFrames ==
  ASSUME NEW t, IsSequence(t), t # <<>>
  PROVE  /\ IsSequence(Tail(t)) /\ Len(Tail(t)) \in Nat /\ Len(t) \in Nat
         /\ 1 \in 1 .. Len(t) /\ Head(t) = t[1]
         /\ \A k \in 1 .. Len(Tail(t)) : k + 1 \in 1 .. Len(t) /\ 1 < k + 1 /\ Tail(t)[k] = t[k + 1]
<1>1. PICK S : t \in Seq(S) BY DEF IsSequence
<1>2. Tail(t) \in Seq(S) /\ Len(Tail(t)) = Len(t) - 1 /\ Len(t) \in Nat \ {0}
      /\ \A k \in 1 .. Len(Tail(t)) : Tail(t)[k] = t[k + 1]
  BY <1>1, HeadTailProperties, EmptySeq
<1>3. IsSequence(Tail(t)) BY <1>2 DEF IsSequence
<1> QED BY <1>1, <1>2, <1>3

\* The frames of the node that meets an event fit its new item.
LEMMA FramesOut ==
  ASSUME NEW i, NEW e, NEW r, IdsOf(i, e, r), NEW j, NEW s, NEW t, IsSequence(s), WireFit(s, i, j),
         DrawsId(r.item) => Unused(r.item.linkId, i, j, s, t)
  PROVE  WireFit(s \o r.out, r.item, j)
<1> DEFINE w == s \o r.out
           q == r.item
<1>1. Signed(r.out, q) BY DEF IdsOf
<1>0. IsSequence(r.out) BY <1>1 DEF Signed
<1>2. /\ Len(s) \in Nat
      /\ \A k \in 1 .. Len(w) : \/ k \in 1 .. Len(s) /\ w[k] = s[k]
                                \/ ~ (k <= Len(s)) /\ \E l \in 1 .. Len(r.out) : w[k] = r.out[l]
  BY <1>0, Together
<1>3. \/ KeepsIds(i, e, q) \/ Unused(q.linkId, i, j, s, t) \/ q.linkId = 0
  BY DEF IdsOf, GivesUpIds
<1> HIDE DEF w, q
<1>4. ASSUME NEW k \in 1 .. Len(w)
      PROVE  /\ w[k].type \in {"open", "confirm"} => w[k].linkId # 0
             /\ w[k].type = "confirm" => /\ w[k].peerLinkId # 0
                                         /\ w[k].linkId = q.linkId => w[k].peerLinkId = q.peerLinkId
  <2>1. CASE k \in 1 .. Len(s) /\ w[k] = s[k]
    BY <1>3, <2>1 DEF WireFit, KeepsIds, Unused
  <2>2. CASE \E l \in 1 .. Len(r.out) : w[k] = r.out[l]
    BY <1>1, <2>2 DEF Signed
  <2> QED BY <1>2, <2>1, <2>2
<1>5. ASSUME q.linkId # 0, NEW k \in 1 .. Len(w), NEW l \in 1 .. Len(w), k < l, w[k].linkId = q.linkId
      PROVE  w[l].linkId \in {q.linkId, 0}
  <2>1. CASE ~ (l <= Len(s)) /\ \E h \in 1 .. Len(r.out) : w[l] = r.out[h]
    BY <1>1, <2>1 DEF Signed
  <2>2. CASE l \in 1 .. Len(s) /\ w[l] = s[l]
    <3>1. k \in 1 .. Len(s) /\ w[k] = s[k]
      <4>1. k <= Len(s) BY <1>2, <1>5, <2>2, SMT
      <4> QED BY <1>2, <4>1
    <3> QED BY <1>3, <1>5, <2>2, <3>1 DEF WireFit, KeepsIds, Unused
  <2> QED BY <1>2, <2>1, <2>2
<1>6. ASSUME q.linkId # 0, j.peerLinkId = q.linkId, NEW k \in 1 .. Len(w)
      PROVE  w[k].linkId \in {q.linkId, 0}
  <2>1. CASE k \in 1 .. Len(s) /\ w[k] = s[k]
    BY <1>3, <1>6, <2>1 DEF WireFit, KeepsIds, Unused
  <2>2. CASE \E l \in 1 .. Len(r.out) : w[k] = r.out[l]
    BY <1>1, <2>2 DEF Signed
  <2> QED BY <1>2, <2>1, <2>2
<1> QED BY <1>4, <1>5, <1>6 DEF WireFit, w, q

\* So do the frames that it has left of the other node.
LEMMA FramesIn ==
  ASSUME NEW i, NEW e, NEW r, IdsOf(i, e, r), NEW j, NEW s, NEW t, NEW u, IsSequence(t),
         WireFit(t, j, i), Leaves(t, e, u), DrawsId(r.item) => Unused(r.item.linkId, i, j, s, t)
  PROVE  IsSequence(u) /\ WireFit(u, j, r.item)
<1> DEFINE q == r.item
<1>1. \/ q.peerLinkId = i.peerLinkId \/ q.peerLinkId = 0
      \/ e.type \in {"open", "confirm"} /\ q.peerLinkId = e.peerLinkId
  BY DEF IdsOf, KeepsIds, DrawsId, GivesUpIds
<1> HIDE DEF q
<1>2. CASE u = t /\ e.type \notin {"open", "confirm"}
  BY <1>1, <1>2 DEF WireFit, q
<1>3. CASE t # <<>> /\ u = Tail(t) /\ e.peerLinkId = Head(t).linkId
  <2>1. /\ IsSequence(u) /\ Len(u) \in Nat /\ 1 \in 1 .. Len(t) /\ Head(t) = t[1]
        /\ \A k \in 1 .. Len(u) : k + 1 \in 1 .. Len(t) /\ 1 < k + 1 /\ u[k] = t[k + 1]
    BY <1>3, LeftOfFrames
  <2>2. \A k \in 1 .. Len(u) :
          /\ u[k].type \in {"open", "confirm"} => u[k].linkId # 0
          /\ u[k].type = "confirm" => /\ u[k].peerLinkId # 0
                                      /\ u[k].linkId = j.linkId => u[k].peerLinkId = j.peerLinkId
    BY <2>1 DEF WireFit
  <2>3. ASSUME j.linkId # 0, NEW k \in 1 .. Len(u), NEW l \in 1 .. Len(u), k < l, u[k].linkId = j.linkId
        PROVE  u[l].linkId \in {j.linkId, 0}
    <3>1. k + 1 < l + 1 BY <2>1, <2>3, SMT
    <3> QED BY <2>1, <2>3, <3>1 DEF WireFit
  <2>4. ASSUME j.linkId # 0, q.peerLinkId = j.linkId, NEW k \in 1 .. Len(u)
        PROVE  u[k].linkId \in {j.linkId, 0}
    <3>1. CASE q.peerLinkId = i.peerLinkId BY <2>1, <2>4, <3>1 DEF WireFit
    <3>2. CASE q.peerLinkId = e.peerLinkId
      <4>1. t[1].linkId = j.linkId BY <1>3, <2>1, <2>4, <3>2
      <4> QED BY <2>1, <2>4, <4>1 DEF WireFit
    <3> QED BY <1>1, <2>4, <3>1, <3>2
  <2> QED BY <2>1, <2>2, <2>3, <2>4 DEF WireFit, q
<1> QED BY <1>2, <1>3 DEF Leaves

\* What the node is told by the event it had been told before.
LEMMA ToldBefore ==
  ASSUME NEW i, NEW e, NEW r, IdsOf(i, e, r), NEW t, NEW u, IsSequence(t), Leaves(t, e, u),
         KeepsIds(i, e, r.item), NEW b, Told(r.item, u, b)
  PROVE  Told(i, t, b)
<1>1. r.item.linkId = i.linkId BY DEF KeepsIds
<1>2. CASE Trusts(r.item) /\ b = r.item.peerLinkId
  <2>1. CASE Trusts(i) /\ r.item.peerLinkId = i.peerLinkId BY <1>2, <2>1 DEF Told
  <2>2. CASE e.type = "confirm" /\ e.linkId = i.linkId /\ e.peerLinkId = r.item.peerLinkId
    <3>1. /\ t # <<>> /\ Head(t).type = "confirm" /\ Head(t).peerLinkId = i.linkId
          /\ Head(t).linkId = b
      BY <1>2, <2>2 DEF Leaves
    <3>2. 1 \in 1 .. Len(t) /\ Head(t) = t[1] BY <3>1, LeftOfFrames
    <3> QED BY <3>1, <3>2 DEF Told
  <2> QED BY <1>2, <2>1, <2>2 DEF KeepsIds
<1>3. ASSUME NEW k \in 1 .. Len(u), u[k].type = "confirm", u[k].peerLinkId = i.linkId, u[k].linkId = b
      PROVE  Told(i, t, b)
  <2>1. CASE u = t BY <1>3, <2>1 DEF Told
  <2>2. CASE t # <<>> /\ u = Tail(t)
    <3>1. k + 1 \in 1 .. Len(t) /\ u[k] = t[k + 1] BY <2>2, LeftOfFrames
    <3> QED BY <1>3, <3>1 DEF Told
  <2> QED BY <2>1, <2>2 DEF Leaves
<1> QED BY <1>1, <1>2, <1>3 DEF Told

\* And the two ends go on agreeing.
LEMMA AgreeGoesOn ==
  ASSUME NEW i, NEW e, NEW r, IdsOf(i, e, r), NEW j, NEW s, NEW t, NEW u, IsSequence(s), IsSequence(t),
         WireFit(s, i, j), WireFit(t, j, i), Agree(i, s, j, t), Leaves(t, e, u),
         DrawsId(r.item) => Unused(r.item.linkId, i, j, s, t)
  PROVE  Agree(r.item, s \o r.out, j, u)
<1> DEFINE w == s \o r.out
           q == r.item
<1> SUFFICES ASSUME NEW b, NEW c, Told(q, u, b), Told(j, w, c) PROVE b = j.linkId /\ c = q.linkId
  BY DEF Agree
<1>1. Signed(r.out, q) /\ IdsFit(q) BY DEF IdsOf
<1>0. IsSequence(r.out) BY <1>1 DEF Signed
<1>2. \A k \in 1 .. Len(w) : \/ k \in 1 .. Len(s) /\ w[k] = s[k]
                             \/ ~ (k <= Len(s)) /\ \E l \in 1 .. Len(r.out) : w[k] = r.out[l]
  BY <1>0, Together
<1>3. WireFit(u, j, q) BY FramesIn
<1> HIDE DEF w, q
<1>4. \A k \in 1 .. Len(u) : \E l \in 1 .. Len(t) : u[k] = t[l]
  BY LeftOfFrames DEF Leaves
<1>5. CASE KeepsIds(i, e, q)
  <2>1. Told(i, t, b) /\ q.linkId = i.linkId
    BY <1>5, ToldBefore DEF KeepsIds, q
  <2>2. CASE Told(j, s, c) BY <2>1, <2>2 DEF Agree
  <2>3. ASSUME NEW k \in 1 .. Len(w), w[k].type = "confirm", w[k].peerLinkId = j.linkId, w[k].linkId = c,
               NEW l \in 1 .. Len(r.out), w[k] = r.out[l]
        PROVE  b = j.linkId /\ c = q.linkId
    <3>1. c = q.linkId /\ q.peerLinkId = j.linkId /\ q.peerLinkId # 0
      BY <1>1, <2>3 DEF Signed
    <3>2. CASE Trusts(q) /\ b = q.peerLinkId BY <3>1, <3>2
    <3>3. ASSUME NEW h \in 1 .. Len(u), u[h].type = "confirm", u[h].linkId = b PROVE b = j.linkId
      BY <1>3, <3>1, <3>3 DEF WireFit
    <3> QED BY <3>1, <3>2, <3>3 DEF Told
  <2> QED BY <1>2, <2>2, <2>3 DEF Told
<1>6. CASE DrawsId(q)
  <2>1. ~ Trusts(q) /\ Unused(q.linkId, i, j, s, t) BY <1>6 DEF DrawsId, q
  <2> QED BY <1>4, <2>1 DEF Told, Unused
<1>7. CASE GivesUpIds(i, e, q)
  <2>1. ~ Trusts(q) /\ q.linkId = 0 BY <1>7 DEF GivesUpIds
  <2> QED BY <1>3, <2>1 DEF Told, WireFit
<1> QED BY <1>5, <1>6, <1>7 DEF IdsOf, q

-----------------------------------------------------------------------------
\* Agreeing does not depend on which end is named first.
LEMMA AgreeBothWays ==
  ASSUME NEW i, NEW s, NEW j, NEW t, Agree(i, s, j, t)
  PROVE  Agree(j, t, i, s)
BY DEF Agree

\* What the ids of the two nodes and their frames obey.
IdsInv ==
  \A n \in Peering!Nodes :
    /\ IdsFit(nb[n]) /\ WireFit(wire[n], nb[n], nb[Other(n)])
    /\ Agree(nb[n], wire[n], nb[Other(n)], wire[Other(n)])

\* An id that is drawn is unused.
LEMMA DrawnIsUnused ==
  ASSUME Peering!MeshAssumption, IdLeft, PeerInv, NEW n \in Peering!Nodes, NEW i,
         i.linkId = nb[n].linkId, i.peerLinkId = nb[n].peerLinkId
  PROVE  Unused(Peering!GetRandomLinkId, i, nb[Other(n)], wire[n], wire[Other(n)])
<1> DEFINE l == Peering!GetRandomLinkId
           m == Other(n)
<1>1. l # 0 /\ l \notin Peering!UsedIds BY DrawnIsFresh
<1>2. m \in Peering!Nodes BY TwoNodes
<1> HIDE DEF l, m
<1>3. ASSUME NEW k \in Peering!Nodes
      PROVE  /\ l \notin {nb[k].linkId, nb[k].peerLinkId}
             /\ \A h \in 1 .. Len(wire[k]) : l # wire[k][h].linkId /\ l # wire[k][h].peerLinkId
  <2>1. l \notin {nb[k].linkId, nb[k].peerLinkId}
    BY <1>1 DEF Peering!UsedIds
  <2>2. PICK S : wire[k] \in Seq(S) BY DEF PeerInv, FramesFit, IsSequence
  <2>3. DOMAIN wire[k] = 1 .. Len(wire[k]) BY <2>2, LenProperties
  <2>4. \A h \in 1 .. Len(wire[k]) : {wire[k][h].linkId, wire[k][h].peerLinkId} \subseteq Peering!UsedIds
    <3> TAKE h \in 1 .. Len(wire[k])
    <3> DEFINE P(x, y) == {wire[x][y].linkId, wire[x][y].peerLinkId}
               Of(x) == UNION {P(x, y) : y \in DOMAIN wire[x]}
               All == UNION {Of(x) : x \in Peering!Nodes}
    <3>1. P(k, h) \subseteq Of(k) BY <2>3, Zenon
    <3>2. Of(k) \subseteq All
      <4> HIDE DEF Of
      <4> QED BY Zenon
    <3>3. All \subseteq Peering!UsedIds BY Zenon DEF Peering!UsedIds
    <3> QED BY <3>1, <3>2, <3>3, Zenon
  <2> QED BY <1>1, <2>1, <2>4
<1> QED BY <1>1, <1>2, <1>3 DEF Unused, l, m

\* An event takes effect: its item may differ from that of the node before in all but
\* its ids and its association.
LEMMA IdsApply ==
  ASSUME Peering!MeshAssumption, IdLeft, PeerInv, IdsInv, NEW n \in Peering!Nodes, NEW i, NEW e, NEW r, NEW back,
         i.linkId = nb[n].linkId, i.peerLinkId = nb[n].peerLinkId, i.assoc = nb[n].assoc,
         IdsOf(i, e, r), Leaves(wire[Other(n)], e, back), Peering!Apply(n, r, back)
  PROVE  IdsInv'
<1> DEFINE m == Other(n)
           s == wire[n]
           t == wire[m]
           j == nb[m]
<1>1. /\ m \in Peering!Nodes /\ m # n /\ Other(m) = n
      /\ \A k \in Peering!Nodes : k = n \/ k = m
  BY TwoNodes
<1>2. /\ nb'[n] = r.item /\ nb'[m] = j /\ wire'[n] = s \o r.out /\ wire'[m] = back
  BY <1>1 DEF Peering!Apply, PeerInv, Other
<1>3. IsSequence(s) /\ IsSequence(t) BY <1>1 DEF PeerInv, FramesFit
<1>4. WireFit(s, i, j) /\ WireFit(t, j, i) /\ Agree(i, s, j, t) /\ IdsFit(j)
  <2>1. /\ WireFit(s, nb[n], j) /\ WireFit(t, j, nb[n]) /\ Agree(nb[n], s, j, t) /\ IdsFit(j)
    BY <1>1 DEF IdsInv
  <2>2. Trusts(i) <=> Trusts(nb[n]) BY DEF Trusts
  <2> QED BY <2>1, <2>2 DEF WireFit, Agree, Told
<1>5. DrawsId(r.item) => Unused(r.item.linkId, i, j, s, t)
  BY DrawnIsUnused DEF DrawsId
<1> HIDE DEF m, s, t, j
<1>6. WireFit(s \o r.out, r.item, j) BY <1>3, <1>4, <1>5, FramesOut
<1>7. Leaves(t, e, back) BY DEF t, m
<1>8. WireFit(back, j, r.item) BY <1>3, <1>4, <1>5, <1>7, FramesIn
<1>9. Agree(r.item, s \o r.out, j, back) BY <1>3, <1>4, <1>5, <1>7, AgreeGoesOn
<1>10. Agree(j, back, r.item, s \o r.out) BY <1>9, AgreeBothWays
<1>11. IdsFit(r.item) BY DEF IdsOf
<1>12. /\ IdsFit(nb'[n]) /\ WireFit(wire'[n], nb'[n], nb'[m]) /\ Agree(nb'[n], wire'[n], nb'[m], wire'[m])
       /\ IdsFit(nb'[m]) /\ WireFit(wire'[m], nb'[m], nb'[n]) /\ Agree(nb'[m], wire'[m], nb'[n], wire'[n])
  BY <1>2, <1>4, <1>6, <1>8, <1>9, <1>10, <1>11
<1>13. Other(n) = m /\ Other(m) = n BY <1>1 DEF m
<1> SUFFICES ASSUME NEW k \in Peering!Nodes
             PROVE  /\ IdsFit(nb'[k]) /\ WireFit(wire'[k], nb'[k], nb'[Other(k)])
                    /\ Agree(nb'[k], wire'[k], nb'[Other(k)], wire'[Other(k)])
  BY DEF IdsInv
<1> QED BY <1>1, <1>12, <1>13

\* The item that meets an event has the ids and the association of the node.
SameLink(i, n) == /\ IsItem(i) /\ i.linkId = nb[n].linkId /\ i.peerLinkId = nb[n].peerLinkId
                  /\ i.assoc = nb[n].assoc

\* An event of the state machine, or one that changes nothing but takes its frame.
LEMMA IdsEvent ==
  ASSUME Peering!MeshAssumption, IdLeft, PeerInv, IdsInv, NEW n \in Peering!Nodes, NEW i, SameLink(i, n),
         NEW e, EventFits(e), NEW back, Leaves(wire[Other(n)], e, back), NEW r,
         r \in {Peering!AssocStateFn(n, i, e), Peering!Quiet(i), Peering!Report(i, "unknown")},
         Peering!Apply(n, r, back)
  PROVE  IdsInv'
<1>1. IdsFit(i) BY DEF IdsInv, IdsFit, SameLink
<1>2. Peering!GetRandomLinkId # 0 BY DrawnIsFresh
<1>3. IdsOf(i, e, Peering!AssocStateFn(n, i, e)) BY <1>1, <1>2, AssocIds DEF SameLink
<1>4. IdsOf(i, e, Peering!Quiet(i)) /\ IdsOf(i, e, Peering!Report(i, "unknown"))
  BY <1>1, StaysIds
<1>5. IdsOf(i, e, r) BY <1>3, <1>4
<1> QED BY <1>5, IdsApply DEF SameLink

\* An event of the node itself has no ids and takes no frame.
LEMMA OwnEventFits ==
  ASSUME NEW t, t \notin {"open", "confirm"}, NEW s
  PROVE  EventFits(Peering!Event(t)) /\ Leaves(s, Peering!Event(t), s)
BY DEF Peering!Event, EventFits, Leaves

\* The events of a node itself.
LEMMA IdsOwnEvents ==
  ASSUME Peering!MeshAssumption, IdLeft, PeerInv, IdsInv, NEW n \in Peering!Nodes,
         \/ Peering!TimerFires(n) \/ Peering!ReceiveBeaconFrame(n) \/ Peering!LinkSetupEvent(n)
         \/ Peering!AgeItems(n)
  PROVE  IdsInv'
<1>1. IsItem(nb[n]) BY DEF PeerInv, GoodItem
<1>2. ASSUME NEW i, SameLink(i, n), NEW t, t \notin {"open", "confirm"}, NEW r,
             r \in {Peering!AssocStateFn(n, i, Peering!Event(t)), Peering!Quiet(i)},
             Peering!Apply(n, r, wire[Other(n)])
      PROVE  IdsInv'
  BY <1>2, OwnEventFits, IdsEvent
<1>3. CASE Peering!TimerFires(n)
  <2>1. PICK t \in nb[n].timers :
          Peering!Apply(n, Peering!AssocStateFn(n, [nb[n] EXCEPT !.timers = @ \ {t}], Peering!Event(t)),
                        wire[Other(n)])
    BY <1>3 DEF Peering!TimerFires, Other
  <2> DEFINE i == [nb[n] EXCEPT !.timers = @ \ {t}]
  <2>2. SameLink(i, n) BY <1>1 DEF SameLink, IsItem
  <2>3. t \notin {"open", "confirm"} BY <1>1 DEF IsItem, Peering!Timers
  <2> HIDE DEF i
  <2>4. Peering!Apply(n, Peering!AssocStateFn(n, i, Peering!Event(t)), wire[Other(n)]) BY <2>1 DEF i
  <2> QED BY <1>2, <2>2, <2>3, <2>4
<1>4. CASE Peering!ReceiveBeaconFrame(n)
  <2> DEFINE i == [nb[n] EXCEPT !.known = TRUE]
             none == [i EXCEPT !.state = "NO_CAPABILITY"]
             cand == [i EXCEPT !.state = "CANDIDATE_PEER"]
  <2>1. \/ Peering!Apply(n, Peering!AssocStateFn(n, none, Peering!Event("CANCEL_LINK")), wire[Other(n)])
        \/ Peering!Apply(n, Peering!AssocStateFn(n, cand, Peering!Event("PASSIVE_OPEN")), wire[Other(n)])
        \/ Peering!Apply(n, Peering!Quiet(i), wire[Other(n)])
    BY <1>4 DEF Peering!ReceiveBeaconFrame, Other
  <2>2. SameLink(i, n) BY <1>1 DEF SameLink, IsItem
  <2> HIDE DEF i
  <2>3. SameLink(none, n) /\ SameLink(cand, n) BY <2>2 DEF SameLink, IsItem
  <2> HIDE DEF none, cand
  <2>4. CASE Peering!Apply(n, Peering!AssocStateFn(n, none, Peering!Event("CANCEL_LINK")), wire[Other(n)])
    <3>1. "CANCEL_LINK" \notin {"open", "confirm"} OBVIOUS
    <3> QED BY <1>2, <2>3, <2>4, <3>1
  <2>5. CASE Peering!Apply(n, Peering!AssocStateFn(n, cand, Peering!Event("PASSIVE_OPEN")), wire[Other(n)])
    <3>1. "PASSIVE_OPEN" \notin {"open", "confirm"} OBVIOUS
    <3> QED BY <1>2, <2>3, <2>5, <3>1
  <2>6. CASE Peering!Apply(n, Peering!Quiet(i), wire[Other(n)])
    <3>1. "CANCEL_LINK" \notin {"open", "confirm"} OBVIOUS
    <3> QED BY <1>2, <2>2, <2>6, <3>1
  <2> QED BY <2>1, <2>4, <2>5, <2>6
<1>5. SameLink(nb[n], n) BY <1>1 DEF SameLink
<1>6. CASE Peering!LinkSetupEvent(n)
  <2>1. "ACTIVE_OPEN" \notin {"open", "confirm"} OBVIOUS
  <2>2. PICK r \in {Peering!AssocStateFn(n, nb[n], Peering!Event("ACTIVE_OPEN")), Peering!Quiet(nb[n])} :
          Peering!Apply(n, r, wire[Other(n)])
    BY <1>6 DEF Peering!LinkSetupEvent, Other
  <2> QED BY <1>2, <1>5, <2>1, <2>2
<1>7. CASE Peering!AgeItems(n)
  <2>1. "CANCEL_LINK" \notin {"open", "confirm"} OBVIOUS
  <2>2. Peering!Apply(n, Peering!AssocStateFn(n, nb[n], Peering!Event("CANCEL_LINK")), wire[Other(n)])
    BY <1>7 DEF Peering!AgeItems, Other
  <2> QED BY <1>2, <1>5, <2>1, <2>2
<1> QED BY <1>3, <1>4, <1>6, <1>7

\* A frame of m comes to the other.
LEMMA IdsReceived ==
  ASSUME Peering!MeshAssumption, IdLeft, PeerInv, IdsInv, NEW m \in Peering!Nodes,
         Peering!ReceiveAssocFrame(m)
  PROVE  IdsInv'
<1> DEFINE n == Other(m)
           frame == Head(wire[m])
           e == [type |-> frame.type, linkId |-> frame.peerLinkId, peerLinkId |-> frame.linkId]
           item == IF nb[n].known THEN nb[n]
                   ELSE [nb[n] EXCEPT !.known = TRUE, !.state = "CANDIDATE_PEER"]
           r == CASE frame.type = "open" \/ nb[n].known -> Peering!AssocStateFn(n, item, e)
                  [] frame.type = "close" /\ ~ nb[n].known -> Peering!Quiet(nb[n])
                  [] OTHER -> Peering!Report(nb[n], "unknown")
<1>1. wire[m] # <<>> /\ Peering!Apply(n, r, Tail(wire[m]))
  BY DEF Peering!ReceiveAssocFrame, Other
<1>2. n \in Peering!Nodes /\ Other(n) = m BY TwoNodes
<1>3. IsItem(nb[n]) /\ IsSequence(wire[m]) BY <1>2 DEF PeerInv, GoodItem, FramesFit
<1>4. 1 \in 1 .. Len(wire[m]) /\ frame = wire[m][1] BY <1>1, <1>3, LeftOfFrames
<1>5. EventFits(e) BY <1>4 DEF EventFits, IdsInv, WireFit
<1>6. Leaves(wire[m], e, Tail(wire[m])) BY <1>1 DEF Leaves
<1>7. SameLink(item, n) /\ SameLink(nb[n], n) BY <1>3 DEF SameLink, IsItem
<1>8. \/ r = Peering!AssocStateFn(n, item, e)
      \/ r \in {Peering!Quiet(nb[n]), Peering!Report(nb[n], "unknown")}
  <2>1. \/ frame.type = "open" \/ nb[n].known \/ (frame.type = "close" /\ ~ nb[n].known)
        \/ ~ (frame.type = "open" \/ nb[n].known \/ (frame.type = "close" /\ ~ nb[n].known))
    OBVIOUS
  <2> HIDE DEF item, e, n, frame
  <2> QED OBVIOUS
<1> HIDE DEF r, n, e, item, frame
<1>9. CASE r = Peering!AssocStateFn(n, item, e)
  BY <1>1, <1>2, <1>5, <1>6, <1>7, <1>9, IdsEvent
<1>10. CASE r \in {Peering!Quiet(nb[n]), Peering!Report(nb[n], "unknown")}
  BY <1>1, <1>2, <1>5, <1>6, <1>7, <1>10, IdsEvent
<1> QED BY <1>8, <1>9, <1>10

\* Fewer frames, or a link state frame more, say nothing new.
SaysNoMore(s, t) ==
  \A i, j : WireFit(s, i, j) => /\ WireFit(t, i, j)
                                /\ \A b : Told(j, t, b) => Told(j, s, b)

\* The first frame is lost.
LEMMA TailSaysNoMore == ASSUME NEW s, IsSequence(s), s # <<>> PROVE SaysNoMore(s, Tail(s))
<1> DEFINE u == Tail(s)
<1>1. /\ Len(u) \in Nat
      /\ \A k \in 1 .. Len(u) : k + 1 \in 1 .. Len(s) /\ u[k] = s[k + 1]
  BY LeftOfFrames
<1>2. \A k, l \in 1 .. Len(u) : k < l => k + 1 < l + 1 BY <1>1, SMT
<1> HIDE DEF u
<1> SUFFICES ASSUME NEW i, NEW j, WireFit(s, i, j)
             PROVE  WireFit(u, i, j) /\ \A b : Told(j, u, b) => Told(j, s, b)
  BY DEF SaysNoMore, u
<1>3. \A k \in 1 .. Len(u) :
        /\ u[k].type \in {"open", "confirm"} => u[k].linkId # 0
        /\ u[k].type = "confirm" => /\ u[k].peerLinkId # 0
                                    /\ u[k].linkId = i.linkId => u[k].peerLinkId = i.peerLinkId
  BY <1>1 DEF WireFit
<1>4. ASSUME i.linkId # 0, NEW k \in 1 .. Len(u), NEW l \in 1 .. Len(u), k < l, u[k].linkId = i.linkId
      PROVE  u[l].linkId \in {i.linkId, 0}
  BY <1>1, <1>2, <1>4 DEF WireFit
<1>5. i.linkId # 0 /\ j.peerLinkId = i.linkId => \A k \in 1 .. Len(u) : u[k].linkId \in {i.linkId, 0}
  BY <1>1 DEF WireFit
<1>6. \A b : Told(j, u, b) => Told(j, s, b) BY <1>1 DEF Told
<1> QED BY <1>3, <1>4, <1>5, <1>6 DEF WireFit

\* A link state frame has no id of a link.
LEMMA LinkStateSaysNoMore ==
  ASSUME NEW s, IsSequence(s) PROVE SaysNoMore(s, Append(s, Peering!Event("linkstate")))
<1> DEFINE f == Peering!Event("linkstate")
           u == Append(s, f)
<1>1. f.type = "linkstate" /\ f.linkId = 0 BY DEF Peering!Event
<1> HIDE DEF f
<1>2. PICK S : s \in Seq(S) BY DEF IsSequence
<1>3. /\ Len(s) \in Nat /\ Len(u) = Len(s) + 1
      /\ \A k \in 1 .. Len(u) : \/ k \in 1 .. Len(s) /\ u[k] = s[k]
                                \/ k = Len(s) + 1 /\ u[k] = f
  <2>1. s \in Seq(S \cup {f}) BY <1>2, SeqMonotonic
  <2>2. Len(s) \in Nat BY <1>2, LenProperties
  <2> QED BY <2>1, <2>2, AppendProperties
<1> HIDE DEF u
<1> SUFFICES ASSUME NEW i, NEW j, WireFit(s, i, j)
             PROVE  WireFit(u, i, j) /\ \A b : Told(j, u, b) => Told(j, s, b)
  BY DEF SaysNoMore, u, f
<1>4. \A k \in 1 .. Len(u) :
        /\ u[k].type \in {"open", "confirm"} => u[k].linkId # 0
        /\ u[k].type = "confirm" => /\ u[k].peerLinkId # 0
                                    /\ u[k].linkId = i.linkId => u[k].peerLinkId = i.peerLinkId
  BY <1>1, <1>3 DEF WireFit
<1>5. ASSUME i.linkId # 0, NEW k \in 1 .. Len(u), NEW l \in 1 .. Len(u), k < l, u[k].linkId = i.linkId
      PROVE  u[l].linkId \in {i.linkId, 0}
  <2>1. CASE u[l] = f BY <1>1, <2>1
  <2>2. CASE l \in 1 .. Len(s) /\ u[l] = s[l]
    <3>1. k # Len(s) + 1 BY <1>3, <1>5, <2>2, SMT
    <3>2. k \in 1 .. Len(s) /\ u[k] = s[k] BY <1>3, <3>1
    <3> QED BY <1>5, <2>2, <3>2 DEF WireFit
  <2> QED BY <1>3, <2>1, <2>2
<1>6. i.linkId # 0 /\ j.peerLinkId = i.linkId => \A k \in 1 .. Len(u) : u[k].linkId \in {i.linkId, 0}
  BY <1>1, <1>3 DEF WireFit
<1>7. \A b : Told(j, u, b) => Told(j, s, b) BY <1>1, <1>3 DEF Told
<1> QED BY <1>4, <1>5, <1>6, <1>7 DEF WireFit

\* A step that changes no id and no association, and no frame but in that way.
LEMMA IdsStay ==
  ASSUME IdsInv,
         \A n \in Peering!Nodes : /\ nb'[n].linkId = nb[n].linkId /\ nb'[n].peerLinkId = nb[n].peerLinkId
                                  /\ nb'[n].assoc = nb[n].assoc
                                  /\ SaysNoMore(wire[n], wire'[n])
  PROVE  IdsInv'
<1> SUFFICES ASSUME NEW n \in Peering!Nodes
             PROVE  /\ IdsFit(nb'[n]) /\ WireFit(wire'[n], nb'[n], nb'[Other(n)])
                    /\ Agree(nb'[n], wire'[n], nb'[Other(n)], wire'[Other(n)])
  BY DEF IdsInv
<1> DEFINE m == Other(n)
<1>1. m \in Peering!Nodes /\ Other(m) = n BY TwoNodes
<1> HIDE DEF m
<1>2. /\ WireFit(wire[n], nb[n], nb[m]) /\ WireFit(wire[m], nb[m], nb[n])
      /\ Agree(nb[n], wire[n], nb[m], wire[m]) /\ IdsFit(nb[n])
  BY <1>1 DEF IdsInv, m
<1>3. /\ WireFit(wire'[n], nb[n], nb[m])
      /\ \A b : Told(nb[m], wire'[n], b) => Told(nb[m], wire[n], b)
      /\ \A b : Told(nb[n], wire'[m], b) => Told(nb[n], wire[m], b)
  BY <1>1, <1>2 DEF SaysNoMore
<1>4. Agree(nb[n], wire'[n], nb[m], wire'[m]) BY <1>2, <1>3 DEF Agree
<1>5. \A k \in Peering!Nodes : \A s, b : Told(nb'[k], s, b) <=> Told(nb[k], s, b)
  BY DEF Told, Trusts
<1>6. Agree(nb'[n], wire'[n], nb'[m], wire'[m]) BY <1>1, <1>4, <1>5 DEF Agree
<1>7. IdsFit(nb'[n]) BY <1>2 DEF IdsFit
<1>8. WireFit(wire'[n], nb'[n], nb'[m]) BY <1>1, <1>3 DEF WireFit
<1> QED BY <1>6, <1>7, <1>8 DEF m

\* The steps that touch frames and states but no link.
LEMMA IdsWireSteps ==
  ASSUME PeerInv, IdsInv, NEW n \in Peering!Nodes,
         \/ Peering!LinkStateEvent(n) \/ Peering!SendLinkStateFrame(n) \/ Peering!Lose(n)
         \/ Peering!ReceiveLinkStateFrame(n) \/ Peering!OtherLink(n)
  PROVE  IdsInv'
<1>1. \A k \in Peering!Nodes : /\ nb'[k].linkId = nb[k].linkId /\ nb'[k].peerLinkId = nb[k].peerLinkId
                               /\ nb'[k].assoc = nb[k].assoc
  <2>1. CASE nb' = nb BY <2>1
  <2>2. CASE Peering!ReceiveLinkStateFrame(n)
    <3> DEFINE m == Other(n)
               up == [nb EXCEPT ![m].state = IF @ = "SUPERORDINATE_LINK_DOWN" THEN "SUPERORDINATE_LINK_UP" ELSE @]
               answered == [up EXCEPT ![n].state = IF @ = "SUBORDINATE_LINK_DOWN" THEN "SUBORDINATE_LINK_UP" ELSE @]
    <3>1. nb' \in {up, answered} BY <2>2 DEF Peering!ReceiveLinkStateFrame, Other
    <3>2. DOMAIN nb = Peering!Nodes /\ \A k \in Peering!Nodes : IsItem(nb[k])
      BY DEF PeerInv, GoodItem
    <3>3. DOMAIN up = Peering!Nodes
          /\ \A k \in Peering!Nodes : /\ IsItem(up[k]) /\ up[k].linkId = nb[k].linkId
                                      /\ up[k].peerLinkId = nb[k].peerLinkId /\ up[k].assoc = nb[k].assoc
      BY <3>2 DEF IsItem
    <3> HIDE DEF up
    <3>4. \A k \in Peering!Nodes : /\ answered[k].linkId = up[k].linkId
                                   /\ answered[k].peerLinkId = up[k].peerLinkId /\ answered[k].assoc = up[k].assoc
      BY <3>3 DEF IsItem
    <3> HIDE DEF answered
    <3> QED BY <3>1, <3>3, <3>4
  <2> QED BY <2>1, <2>2 DEF Peering!LinkStateEvent, Peering!SendLinkStateFrame, Peering!Lose, Peering!OtherLink
<1>2. \A k \in Peering!Nodes : SaysNoMore(wire[k], wire'[k])
  <2>1. DOMAIN wire = Peering!Nodes /\ \A k \in Peering!Nodes : IsSequence(wire[k])
    BY DEF PeerInv, FramesFit
  <2>2. \A s : SaysNoMore(s, s) BY DEF SaysNoMore
  <2>3. \/ wire' = wire
        \/ wire' = [wire EXCEPT ![n] = Append(@, Peering!Event("linkstate"))]
        \/ wire[n] # <<>> /\ wire' = [wire EXCEPT ![n] = Tail(@)]
    BY DEF Peering!LinkStateEvent, Peering!SendLinkStateFrame, Peering!Lose, Peering!ReceiveLinkStateFrame,
           Peering!OtherLink
  <2>4. CASE wire' = wire BY <2>2, <2>4
  <2>5. CASE wire' = [wire EXCEPT ![n] = Append(@, Peering!Event("linkstate"))]
    <3>1. SaysNoMore(wire[n], Append(wire[n], Peering!Event("linkstate"))) BY <2>1, LinkStateSaysNoMore
    <3> QED BY <2>1, <2>2, <2>5, <3>1
  <2>6. CASE wire[n] # <<>> /\ wire' = [wire EXCEPT ![n] = Tail(@)]
    <3>1. SaysNoMore(wire[n], Tail(wire[n])) BY <2>1, <2>6, TailSaysNoMore
    <3> QED BY <2>1, <2>2, <2>6, <3>1
  <2> QED BY <2>3, <2>4, <2>5, <2>6
<1> QED BY <1>1, <1>2, IdsStay

\* As long as an id is left to draw, two ends that both took the link as established mean
\* the same link, whatever frames were lost and however often either end began anew:
\* Dot11sAssoc_IsValidLinkConfirm lets no confirm of an older link pass.
THEOREM PeerLinkIdsAgree ==
  ASSUME Peering!MeshAssumption
  PROVE  Peering!Spec /\ []IdLeft => []Peering!LinkIdsAgree
<1>1. Peering!Init => IdsInv
  <2> SUFFICES ASSUME Peering!Init PROVE IdsInv OBVIOUS
  <2> DEFINE i == Peering!FreshItem
  <2>1. /\ nb = [n \in Peering!Nodes |-> i] /\ wire = [n \in Peering!Nodes |-> <<>>]
    BY DEF Peering!Init
  <2>2. i.linkId = 0 /\ i.peerLinkId = 0 /\ i.assoc = "IDLE" BY DEF Peering!FreshItem
  <2> HIDE DEF i
  <2>3. IdsFit(i) /\ ~ Trusts(i) BY <2>2 DEF IdsFit, Trusts, Peering!AssocStates
  <2>4. Len(<<>>) = 0 /\ 1 .. 0 = {} BY EmptySeq, SMT
  <2>5. WireFit(<<>>, i, i) /\ Agree(i, <<>>, i, <<>>) BY <2>3, <2>4 DEF WireFit, Agree, Told
  <2>6. \A n \in Peering!Nodes : Other(n) \in Peering!Nodes BY TwoNodes
  <2> QED BY <2>1, <2>3, <2>5, <2>6 DEF IdsInv
<1>2. PeerInv /\ IdsInv /\ IdLeft /\ [Peering!Next]_(Peering!vars) => IdsInv'
  <2> SUFFICES ASSUME PeerInv, IdsInv, IdLeft, [Peering!Next]_(Peering!vars) PROVE IdsInv'
    OBVIOUS
  <2>1. CASE UNCHANGED Peering!vars
    BY <2>1 DEF Peering!vars, IdsInv
  <2>2. CASE Peering!Next
    <3>1. PICK n \in Peering!Nodes :
            \/ Peering!TimerFires(n) \/ Peering!ReceiveBeaconFrame(n) \/ Peering!LinkSetupEvent(n)
            \/ Peering!LinkStateEvent(n) \/ Peering!SendLinkStateFrame(n) \/ Peering!ReceiveAssocFrame(n)
            \/ Peering!ReceiveLinkStateFrame(n) \/ Peering!Lose(n) \/ Peering!AgeItems(n)
            \/ Peering!OtherLink(n)
      BY <2>2 DEF Peering!Next
    <3> QED BY <3>1, IdsOwnEvents, IdsReceived, IdsWireSteps
  <2> QED BY <2>1, <2>2
<1>3. IdsInv => Peering!LinkIdsAgree
  <2> SUFFICES ASSUME IdsInv, \A n \in Peering!Nodes : Peering!Linked(n), NEW n \in Peering!Nodes
               PROVE  nb[n].linkId = nb[Other(n)].peerLinkId
    BY DEF Peering!LinkIdsAgree, Other
  <2>1. Other(n) \in Peering!Nodes BY TwoNodes
  <2>2. Trusts(nb[n]) /\ Trusts(nb[Other(n)]) BY <2>1 DEF Peering!Linked, Trusts
  <2>3. /\ Told(nb[n], wire[Other(n)], nb[n].peerLinkId)
        /\ Told(nb[Other(n)], wire[n], nb[Other(n)].peerLinkId)
    BY <2>2 DEF Told
  <2>4. Agree(nb[n], wire[n], nb[Other(n)], wire[Other(n)]) BY DEF IdsInv
  <2> QED BY <2>3, <2>4 DEF Agree
<1> QED BY <1>1, <1>2, <1>3, PeerInductive, PTL DEF Peering!Spec

-----------------------------------------------------------------------------
(* Portal announcements of a mesh: who repeats one knows it, or a later one. *)

CONSTANTS MPs, Portals, Links, InRange, NoHop, TtlMax, Lossy, MaxSeq
VARIABLES queue, item, timers, seqNo

Portal == INSTANCE MeshPortal

PannFrame == [portal : Portals, seq : Nat, hops : Nat, ttl : Int]
PannItem == [seq : Nat, hops : Nat, ttl : Int, nextHop : MPs \cup {NoHop}, isActive : BOOLEAN]

PannTypes ==
  /\ queue \in [MPs -> Seq(PannFrame)]
  /\ item \in [MPs -> [Portals -> PannItem]]
  /\ seqNo \in [Portals -> Nat]

\* What j knows of a portal is later than the announcement of that number, or the same
\* and no further from the portal than hops.
Knows(j, seq, hops) == j.seq > seq \/ (j.seq = seq /\ j.hops <= hops)

\* Who repeats the announcement of another knows it, or a later one.
Repeats(q, its) ==
  \A m \in MPs : \A k \in 1 .. Len(q[m]) :
    q[m][k].portal # m => Knows(its[m][q[m][k].portal], q[m][k].seq, q[m][k].hops)

PortalInv == PannTypes /\ Repeats(queue, item) /\ Portal!LeadsToPortal

\* The items after a step know at least what they knew.
Learns(its, new) ==
  \A m \in MPs, p \in Portals : new[m][p].seq >= its[m][p].seq /\
    (new[m][p].seq = its[m][p].seq => new[m][p].hops = its[m][p].hops)

\* What is known stays known.
LEMMA StaysKnown ==
  ASSUME NEW i \in PannItem, NEW j \in PannItem, NEW seq \in Nat, NEW hops \in Nat,
         j.seq >= i.seq, j.seq = i.seq => j.hops = i.hops, Knows(i, seq, hops)
  PROVE  Knows(j, seq, hops)
<1>1. {i.seq, j.seq, i.hops, j.hops} \subseteq Nat BY DEF PannItem
<1> QED BY <1>1, SMT DEF Knows

\* A queue without its first frame.
LEMMA QueueTail ==
  ASSUME PannTypes, NEW n \in MPs, queue[n] # <<>>, NEW its, Repeats(queue, its),
         queue' = [queue EXCEPT ![n] = Tail(@)]
  PROVE  queue' \in [MPs -> Seq(PannFrame)] /\ Repeats(queue', its)
<1>1. queue[n] \in Seq(PannFrame) BY DEF PannTypes
<1>2. Tail(queue[n]) \in Seq(PannFrame) /\ Len(Tail(queue[n])) = Len(queue[n]) - 1
      /\ \A k \in 1 .. Len(queue[n]) - 1 : Tail(queue[n])[k] = queue[n][k + 1]
  BY <1>1, HeadTailProperties
<1>3. queue' \in [MPs -> Seq(PannFrame)] BY <1>2 DEF PannTypes
<1>4. ASSUME NEW m \in MPs, NEW k \in 1 .. Len(queue'[m])
      PROVE  \E l \in 1 .. Len(queue[m]) : queue'[m][k] = queue[m][l]
  <2>1. CASE m # n BY <2>1 DEF PannTypes
  <2>2. CASE m = n
    <3>1. queue'[m] = Tail(queue[n]) BY <2>2 DEF PannTypes
    <3>2. Len(queue[n]) \in Nat BY <1>1, LenProperties
    <3>3. k \in 1 .. Len(queue[n]) - 1 BY <1>2, <3>1
    <3>4. k + 1 \in 1 .. Len(queue[n]) BY <3>2, <3>3
    <3> QED BY <1>2, <2>2, <3>1, <3>3, <3>4
  <2> QED BY <2>1, <2>2
<1>5. Repeats(queue', its)
  <2> SUFFICES ASSUME NEW m \in MPs, NEW k \in 1 .. Len(queue'[m]), queue'[m][k].portal # m
               PROVE  Knows(its[m][queue'[m][k].portal], queue'[m][k].seq, queue'[m][k].hops)
    BY DEF Repeats
  <2>1. PICK l \in 1 .. Len(queue[m]) : queue'[m][k] = queue[m][l] BY <1>4
  <2> QED BY <2>1, Zenon DEF Repeats
<1> QED BY <1>3, <1>5

\* A queue with one more frame that its sender knows.
LEMMA QueueAppend ==
  ASSUME PannTypes, NEW n \in MPs, NEW f \in PannFrame, Repeats(queue, item),
         f.portal # n => Knows(item[n][f.portal], f.seq, f.hops),
         queue' = [queue EXCEPT ![n] = Append(@, f)]
  PROVE  queue' \in [MPs -> Seq(PannFrame)] /\ Repeats(queue', item)
<1>1. queue[n] \in Seq(PannFrame) BY DEF PannTypes
<1>2. Append(queue[n], f) \in Seq(PannFrame) /\ Len(Append(queue[n], f)) = Len(queue[n]) + 1
      /\ Append(queue[n], f)[Len(queue[n]) + 1] = f
      /\ \A k \in 1 .. Len(queue[n]) : Append(queue[n], f)[k] = queue[n][k]
  BY <1>1, AppendProperties
<1>3. queue' \in [MPs -> Seq(PannFrame)] BY <1>2 DEF PannTypes
<1>4. ASSUME NEW m \in MPs, NEW k \in 1 .. Len(queue'[m])
      PROVE  \/ m = n /\ queue'[m][k] = f
             \/ \E l \in 1 .. Len(queue[m]) : queue'[m][k] = queue[m][l]
  <2>1. CASE m # n BY <2>1 DEF PannTypes
  <2>2. CASE m = n
    <3>1. queue'[m] = Append(queue[n], f) BY <2>2 DEF PannTypes
    <3>2. Len(queue[n]) \in Nat BY <1>1, LenProperties
    <3>3. k \in 1 .. Len(queue[n]) + 1 BY <1>2, <3>1
    <3>4. k = Len(queue[n]) + 1 \/ k \in 1 .. Len(queue[n]) BY <3>2, <3>3
    <3> QED BY <1>2, <2>2, <3>1, <3>4
  <2> QED BY <2>1, <2>2
<1>5. Repeats(queue', item)
  <2> SUFFICES ASSUME NEW m \in MPs, NEW k \in 1 .. Len(queue'[m]), queue'[m][k].portal # m
               PROVE  Knows(item[m][queue'[m][k].portal], queue'[m][k].seq, queue'[m][k].hops)
    BY DEF Repeats
  <2> QED BY <1>4 DEF Repeats
<1> QED BY <1>3, <1>5

\* A mesh point that announces itself.
LEMMA PannEventStep ==
  ASSUME Portal!PortalAssumption, PortalInv, NEW p \in Portals, Portal!PannEvent(p)
  PROVE  PortalInv'
<1> DEFINE f == Portal!Pann(p, seqNo[p] + 1, 0, TtlMax)
<1>1. p \in MPs /\ TtlMax \in Nat BY SMT DEF Portal!PortalAssumption, Portal!Byte
<1>2. f \in PannFrame /\ f.portal = p
  BY <1>1, SMT DEF PannFrame, Portal!Pann, PortalInv, PannTypes
<1>3. queue' = [queue EXCEPT ![p] = Append(@, f)] /\ item' = item
      /\ seqNo' = [seqNo EXCEPT ![p] = @ + 1]
  BY DEF Portal!PannEvent, Portal!EnqueuePacket
<1>4. queue' \in [MPs -> Seq(PannFrame)] /\ Repeats(queue', item)
  <2> HIDE DEF f
  <2> QED BY <1>1, <1>2, <1>3, QueueAppend DEF PortalInv
<1>5. seqNo' \in [Portals -> Nat] BY <1>3, SMT DEF PortalInv, PannTypes
<1> HIDE DEF f
<1> QED BY <1>3, <1>4, <1>5 DEF PortalInv, PannTypes, Portal!LeadsToPortal

\* A mesh point that repeats the last announcement it has heard.
LEMMA PropagationStep ==
  ASSUME PortalInv, NEW n \in MPs, NEW p \in Portals, Portal!PannPropagationEvent(n, p)
  PROVE  PortalInv'
<1> DEFINE last == item[n][p]
           f == Portal!Pann(p, last.seq, last.hops, last.ttl)
<1>1. last \in PannItem BY DEF PortalInv, PannTypes
<1>2. f \in PannFrame /\ f.portal = p /\ f.seq = last.seq /\ f.hops = last.hops
  BY <1>1, SMT DEF PannItem, PannFrame, Portal!Pann
<1>3. Knows(item[n][f.portal], f.seq, f.hops)
  BY <1>1, <1>2, SMT DEF Knows, PannItem
<1>4. item' = item /\ seqNo' = seqNo
      /\ (queue' = queue \/ queue' = [queue EXCEPT ![n] = Append(@, f)])
  BY DEF Portal!PannPropagationEvent, Portal!EnqueuePacket
<1>5. queue' \in [MPs -> Seq(PannFrame)] /\ Repeats(queue', item)
  <2> HIDE DEF f, last
  <2>1. CASE queue' = queue BY <2>1 DEF PortalInv, PannTypes
  <2>2. CASE queue' = [queue EXCEPT ![n] = Append(@, f)]
    BY <1>2, <1>3, <2>2, QueueAppend DEF PortalInv
  <2> QED BY <1>4, <2>1, <2>2
<1> HIDE DEF f, last
<1> QED BY <1>4, <1>5 DEF PortalInv, PannTypes, Portal!LeadsToPortal

\* Frames and next hops that were right stay so when the items that change are newer.
LEMMA LearningKeeps ==
  ASSUME PannTypes, NEW its \in [MPs -> [Portals -> PannItem]], Learns(item, its),
         Repeats(queue, item)
  PROVE  Repeats(queue, its)
<1> SUFFICES ASSUME NEW m \in MPs, NEW k \in 1 .. Len(queue[m]), queue[m][k].portal # m
             PROVE  Knows(its[m][queue[m][k].portal], queue[m][k].seq, queue[m][k].hops)
  BY DEF Repeats
<1> DEFINE g == queue[m][k]
<1>1. queue[m] \in Seq(PannFrame) BY DEF PannTypes
<1>2. g \in PannFrame BY <1>1, ElementOfSeq
<1>3. g.portal \in Portals /\ g.seq \in Nat /\ g.hops \in Nat BY <1>2 DEF PannFrame
<1>4. Knows(item[m][g.portal], g.seq, g.hops) BY DEF Repeats
<1>5. item[m][g.portal] \in PannItem /\ its[m][g.portal] \in PannItem
  BY <1>3 DEF PannTypes
<1>6. /\ its[m][g.portal].seq >= item[m][g.portal].seq
      /\ its[m][g.portal].seq = item[m][g.portal].seq =>
           its[m][g.portal].hops = item[m][g.portal].hops
  BY <1>3 DEF Learns
<1> HIDE DEF g
<1>7. Knows(its[m][g.portal], g.seq, g.hops)
  BY <1>3, <1>4, <1>5, <1>6, StaysKnown
<1> QED BY <1>7 DEF g

\* A neighbour that takes an announcement is nearer to nobody than its sender was.
LEMMA ReceptionStep ==
  ASSUME PortalInv, NEW n \in MPs, queue[n] # <<>>, NEW hearers,
         Portal!ReceivePann(n, hearers, Head(queue[n]))
  PROVE  /\ item' \in [MPs -> [Portals -> PannItem]] /\ Learns(item, item')
         /\ Portal!LeadsToPortal'
<1> DEFINE f == Head(queue[n])
           takes == {m \in hearers : <<m, n>> \in Links /\ Portal!IsNew(m, f)}
           new == Portal!Record(f, n)
<1>1. queue[n] \in Seq(PannFrame) BY DEF PortalInv, PannTypes
<1>2. f \in PannFrame /\ f = queue[n][1] /\ 1 \in 1 .. Len(queue[n])
  BY <1>1, HeadTailProperties, EmptySeq, LenProperties
<1>3. f.portal \in Portals /\ f.seq \in Nat /\ f.hops \in Nat /\ f.ttl \in Int
  BY <1>2 DEF PannFrame
<1>4. f.portal # n => Knows(item[n][f.portal], f.seq, f.hops)
  BY <1>2 DEF PortalInv, Repeats
<1>5. new \in PannItem /\ new.seq = f.seq /\ new.hops = f.hops + 1 /\ new.nextHop = n
  <2>1. (f.ttl - 1) % 256 \in Int /\ f.hops + 1 \in Nat BY <1>3, SMT
  <2> HIDE DEF f
  <2> QED BY <1>3, <2>1 DEF Portal!Record, Portal!Byte, PannItem
<1>6. item' = [m \in MPs |-> IF m \in takes THEN [item[m] EXCEPT ![f.portal] = new] ELSE item[m]]
  BY DEF Portal!ReceivePann
<1>7. \A m \in takes : f.seq > item[m][f.portal].seq BY DEF Portal!IsNew
<1>8. item \in [MPs -> [Portals -> PannItem]] BY DEF PortalInv, PannTypes
<1> HIDE DEF f, takes, new
<1>9. \A m \in MPs, p \in Portals :
        item'[m][p] = IF m \in takes /\ p = f.portal THEN new ELSE item[m][p]
  BY <1>6, <1>8
<1>10. item' \in [MPs -> [Portals -> PannItem]] BY <1>5, <1>6, <1>8
<1>11. \A m \in MPs, p \in Portals : /\ item[m][p].seq \in Nat /\ item[m][p].hops \in Nat
                                     /\ item'[m][p].seq \in Nat /\ item'[m][p].hops \in Nat
  BY <1>8, <1>10 DEF PannItem
<1>12. Learns(item, item')
  <2> SUFFICES ASSUME NEW m \in MPs, NEW p \in Portals
               PROVE  /\ item'[m][p].seq >= item[m][p].seq
                      /\ item'[m][p].seq = item[m][p].seq => item'[m][p].hops = item[m][p].hops
    BY DEF Learns
  <2>1. CASE m \in takes /\ p = f.portal
    BY <1>3, <1>5, <1>7, <1>9, <1>11, <2>1, SMT
  <2>2. CASE ~ (m \in takes /\ p = f.portal)
    BY <1>9, <1>11, <2>2, SMT
  <2> QED BY <2>1, <2>2
<1>13. ASSUME NEW m \in MPs, NEW p \in Portals, item'[m][p].nextHop \notin {NoHop, p}
       PROVE  LET h == item'[m][p].nextHop IN
              \/ item'[h][p].seq > item'[m][p].seq
              \/ (/\ item'[h][p].seq = item'[m][p].seq
                  /\ item'[h][p].hops < item'[m][p].hops)
  <2> DEFINE h == item'[m][p].nextHop
  <2>0. h \in MPs BY <1>10, <1>13 DEF PannItem
  <2>1. CASE m \in takes /\ p = f.portal
    <3>1. item'[m][p] = new /\ h = n BY <1>5, <1>9, <2>1
    <3>2. Knows(item[n][p], f.seq, f.hops) BY <1>4, <1>13, <2>1, <3>1
    <3>3. ~ (n \in takes)
      <4>1. n \in takes => f.seq > item[n][p].seq BY <1>7, <2>1
      <4> QED BY <1>3, <1>11, <3>2, <4>1, SMT DEF Knows
    <3>4. item'[n][p] = item[n][p] BY <1>9, <3>3
    <3>5. item'[n][p].seq > new.seq \/ (item'[n][p].seq = new.seq /\ item'[n][p].hops < new.hops)
      BY <1>3, <1>5, <1>11, <3>2, <3>4, SMT DEF Knows
    <3> QED BY <3>1, <3>5
  <2>2. CASE ~ (m \in takes /\ p = f.portal)
    <3>1. item'[m][p] = item[m][p] BY <1>9, <2>2
    <3>2. \/ item[h][p].seq > item[m][p].seq
          \/ (item[h][p].seq = item[m][p].seq /\ item[h][p].hops < item[m][p].hops)
      BY <1>13, <3>1 DEF PortalInv, Portal!LeadsToPortal
    <3>3. /\ item'[h][p].seq >= item[h][p].seq
          /\ item'[h][p].seq = item[h][p].seq => item'[h][p].hops = item[h][p].hops
      BY <1>12, <2>0 DEF Learns
    <3> HIDE DEF h
    <3>4. \/ item'[h][p].seq > item[m][p].seq
          \/ (item'[h][p].seq = item[m][p].seq /\ item'[h][p].hops < item[m][p].hops)
      BY <1>11, <2>0, <3>2, <3>3, SMT
    <3> QED BY <3>1, <3>4 DEF h
  <2> QED BY <2>1, <2>2
<1>14. Portal!LeadsToPortal' BY <1>13 DEF Portal!LeadsToPortal
<1> QED BY <1>10, <1>12, <1>14

\* A frame that is sent, whoever hears it.
LEMMA TransmitStep ==
  ASSUME PortalInv, NEW n \in MPs, Portal!Transmit(n)
  PROVE  PortalInv'
<1>1. PICK hearers : Portal!ReceivePann(n, hearers, Head(queue[n])) BY DEF Portal!Transmit
<1>2. queue[n] # <<>> /\ queue' = [queue EXCEPT ![n] = Tail(@)] /\ seqNo' = seqNo
  BY DEF Portal!Transmit
<1>3. /\ item' \in [MPs -> [Portals -> PannItem]] /\ Learns(item, item')
      /\ Portal!LeadsToPortal'
  BY <1>1, <1>2, ReceptionStep
<1>4. Repeats(queue, item') BY <1>3, LearningKeeps DEF PortalInv
<1>5. queue' \in [MPs -> Seq(PannFrame)] /\ Repeats(queue', item')
  BY <1>2, <1>4, QueueTail DEF PortalInv
<1> QED BY <1>2, <1>3, <1>5 DEF PortalInv, PannTypes
\* A portal that is no longer active is still known.
LEMMA AgeSteps ==
  ASSUME PortalInv, NEW n \in MPs,
         Portal!AgeQueue(n) \/ \E p \in Portals : Portal!AgePortal(n, p)
  PROVE  PortalInv'
<1>1. CASE Portal!AgeQueue(n)
  <2>1. queue[n] # <<>> /\ queue' = [queue EXCEPT ![n] = Tail(@)] /\ item' = item /\ seqNo' = seqNo
    BY <1>1 DEF Portal!AgeQueue
  <2>2. queue' \in [MPs -> Seq(PannFrame)] /\ Repeats(queue', item)
    BY <2>1, QueueTail DEF PortalInv
  <2> QED BY <2>1, <2>2 DEF PortalInv, PannTypes, Portal!LeadsToPortal
<1>2. ASSUME NEW p \in Portals, Portal!AgePortal(n, p) PROVE PortalInv'
  <2>1. item' = [item EXCEPT ![n][p].isActive = FALSE] /\ queue' = queue /\ seqNo' = seqNo
    BY <1>2 DEF Portal!AgePortal
  <2>2. item \in [MPs -> [Portals -> PannItem]] BY DEF PortalInv, PannTypes
  <2>3. item' \in [MPs -> [Portals -> PannItem]]
    <3>1. item[n][p] \in PannItem BY <2>2
    <3>2. [item[n][p] EXCEPT !.isActive = FALSE] \in PannItem
      BY <3>1 DEF PannItem
    <3> DEFINE idle == [item[n][p] EXCEPT !.isActive = FALSE]
    <3>3. item' = [item EXCEPT ![n] = [item[n] EXCEPT ![p] = idle]]
      BY <2>1, <2>2
    <3> HIDE DEF idle
    <3>4. [item[n] EXCEPT ![p] = idle] \in [Portals -> PannItem]
      BY <2>2, <3>2 DEF idle
    <3> QED BY <2>2, <3>3, <3>4
  <2>4. \A m \in MPs, q \in Portals :
          /\ item'[m][q].seq = item[m][q].seq /\ item'[m][q].hops = item[m][q].hops
          /\ item'[m][q].nextHop = item[m][q].nextHop
          /\ item[m][q].seq \in Nat
    <3> TAKE m \in MPs, q \in Portals
    <3>1. item[m][q] \in PannItem BY <2>2
    <3>2. item'[m][q] = IF m = n /\ q = p THEN [item[n][p] EXCEPT !.isActive = FALSE] ELSE item[m][q]
      BY <2>1, <2>2
    <3> QED BY <3>1, <3>2 DEF PannItem
  <2>5. Learns(item, item') BY <2>4, SMT DEF Learns
  <2>6. Repeats(queue, item') BY <2>3, <2>5, LearningKeeps DEF PortalInv
  <2>7. \A m \in MPs, q \in Portals : item[m][q].nextHop \in MPs \cup {NoHop}
    BY <2>2 DEF PannItem
  <2>8. Portal!LeadsToPortal'
    BY <2>4, <2>7 DEF PortalInv, Portal!LeadsToPortal
  <2> QED BY <2>1, <2>3, <2>6, <2>8 DEF PortalInv, PannTypes
<1> QED BY <1>1, <1>2

\* What PortalInv says holds from the start.
LEMMA PortalStarts == Portal!Init => PortalInv
<1> SUFFICES ASSUME Portal!Init PROVE PortalInv
  OBVIOUS
<1>1. queue = [n \in MPs |-> <<>>] /\ item = [n \in MPs |-> [p \in Portals |-> Portal!NoItem]]
      /\ seqNo = [p \in Portals |-> 0]
  BY DEF Portal!Init
<1>2. Portal!NoItem \in PannItem /\ Portal!NoItem.nextHop = NoHop
  BY SMT DEF Portal!NoItem, PannItem
<1>3. PannTypes BY <1>1, <1>2, EmptySeq DEF PannTypes
<1>4. Repeats(queue, item) BY <1>1, EmptySeq DEF Repeats
<1>5. Portal!LeadsToPortal BY <1>1, <1>2 DEF Portal!LeadsToPortal
<1> QED BY <1>3, <1>4, <1>5 DEF PortalInv

\* PortalInv is an invariant.
LEMMA PortalInductive ==
  ASSUME Portal!PortalAssumption
  PROVE  Portal!Spec => []PortalInv
<1>1. PortalInv /\ [Portal!Next]_(Portal!vars) => PortalInv'
  <2> SUFFICES ASSUME PortalInv, [Portal!Next]_(Portal!vars) PROVE PortalInv'
    OBVIOUS
  <2>1. CASE UNCHANGED Portal!vars
    BY <2>1 DEF Portal!vars, PortalInv, PannTypes, Portal!LeadsToPortal
  <2>2. CASE Portal!Next
    BY <2>1, <2>2, PannEventStep, TransmitStep, AgeSteps, PropagationStep
    DEF Portal!Next, Portal!Over
  <2> QED BY <2>1, <2>2
<1> QED BY <1>1, PortalStarts, PTL DEF Portal!Spec

\* The next hops towards a portal lead to it and never in a circle: whatever the
\* topology, whatever is lost and however late an announcement is repeated, each next
\* hop is the portal or knows it from a later announcement or from nearer
\* (Dot11s_ReceivePannFrame, Dot11s_PannPropagationEvent).
THEOREM PannLeadsToPortal ==
  ASSUME Portal!PortalAssumption
  PROVE  Portal!Spec => []Portal!LeadsToPortal
<1>1. PortalInv => Portal!LeadsToPortal BY DEF PortalInv
<1> QED BY <1>1, PortalInductive, PTL

\* What is left of an announcement's life: what it has not used up on its way.
LifeFits(x) == x.seq > 0 /\ x.hops <= TtlMax => x.ttl = TtlMax - x.hops

\* The neighbour m hears n and takes its announcements.
Neighbours(n, m) == <<m, n>> \in Links /\ <<n, m>> \in InRange
IsRepeater(n, p) == item[n][p].hops < TtlMax /\ Portal!AssociatedNeighborCount(n) > 1

\* A queue with an announcement of p that is number s or a later one.
Carries(q, p, s) ==
  \E k \in 1 .. Len(q) : q[k].portal = p /\ q[k].seq >= s /\ q[k].hops <= TtlMax

\* What a neighbour does not know yet is in the queue, or will be when the timer fires.
SpreadInv ==
  /\ timers \in [MPs -> [Portals -> Nat]]
  /\ \A n \in MPs : \A k \in 1 .. Len(queue[n]) : LifeFits(queue[n][k])
  /\ \A n \in MPs, p \in Portals : LifeFits(item[n][p])
  /\ ~ Lossy => \A p \in Portals, n \in MPs, m \in MPs :
       m # p /\ Neighbours(n, m) =>
         /\ n = p => item[m][p].seq >= seqNo[p] \/ Carries(queue[n], p, seqNo[p])
         /\ IsRepeater(n, p) => \/ item[m][p].seq >= item[n][p].seq
                                \/ timers[n][p] > 0
                                \/ Carries(queue[n], p, item[n][p].seq)

\* A queue that gets one more frame still carries what it did, and that frame.
LEMMA AppendCarries ==
  ASSUME PannTypes, NEW n \in MPs, NEW f \in PannFrame,
         queue' = [queue EXCEPT ![n] = Append(@, f)]
  PROVE  /\ \A m \in MPs : \A p, s : Carries(queue[m], p, s) => Carries(queue'[m], p, s)
         /\ f.hops <= TtlMax => Carries(queue'[n], f.portal, f.seq)
         /\ \A m \in MPs : \A k \in 1 .. Len(queue'[m]) :
              queue'[m][k] = f \/ \E l \in 1 .. Len(queue[m]) : queue'[m][k] = queue[m][l]
<1> DEFINE q == Append(queue[n], f)
<1>1. queue[n] \in Seq(PannFrame) /\ queue'[n] = q /\ \A m \in MPs \ {n} : queue'[m] = queue[m]
  BY DEF PannTypes
<1>2. /\ Len(queue[n]) \in Nat /\ Len(q) = Len(queue[n]) + 1 /\ q[Len(queue[n]) + 1] = f
      /\ \A k \in 1 .. Len(queue[n]) : q[k] = queue[n][k]
  BY <1>1, AppendProperties, LenProperties
<1> HIDE DEF q
<1>3. /\ Len(queue[n]) + 1 \in 1 .. Len(q)
      /\ \A k \in 1 .. Len(queue[n]) : k \in 1 .. Len(q)
      /\ \A k \in 1 .. Len(q) : k \in 1 .. Len(queue[n]) \/ k = Len(queue[n]) + 1
  BY <1>2, SMT
<1>4. \A p, s : Carries(queue[n], p, s) => Carries(q, p, s) BY <1>2, <1>3 DEF Carries
<1>5. f.hops <= TtlMax => Carries(q, f.portal, f.seq)
  <2>1. f.seq >= f.seq BY SMT DEF PannFrame
  <2> QED BY <1>2, <1>3, <2>1 DEF Carries
<1>6. \A k \in 1 .. Len(q) : q[k] = f \/ \E l \in 1 .. Len(queue[n]) : q[k] = queue[n][l]
  BY <1>2, <1>3
<1>7. \A m \in MPs \ {n} : \A p, s : Carries(queue[m], p, s) => Carries(queue'[m], p, s)
  BY <1>1
<1>8. ASSUME NEW m \in MPs
      PROVE  /\ \A p, s : Carries(queue[m], p, s) => Carries(queue'[m], p, s)
             /\ \A k \in 1 .. Len(queue'[m]) :
                  queue'[m][k] = f \/ \E l \in 1 .. Len(queue[m]) : queue'[m][k] = queue[m][l]
  <2>1. CASE m = n
    <3>1. queue'[m] = q /\ queue[m] = queue[n] BY <1>1, <2>1
    <3>2. \A p, s : Carries(queue[m], p, s) => Carries(queue'[m], p, s) BY <1>4, <3>1
    <3>3. \A k \in 1 .. Len(queue'[m]) :
            queue'[m][k] = f \/ \E l \in 1 .. Len(queue[m]) : queue'[m][k] = queue[m][l]
      BY <1>6, <3>1
    <3> QED BY <3>2, <3>3
  <2>2. CASE m # n
    <3>1. queue'[m] = queue[m] BY <1>1, <2>2
    <3> QED BY <3>1
  <2> QED BY <2>1, <2>2
<1>9. f.hops <= TtlMax => Carries(queue'[n], f.portal, f.seq) BY <1>1, <1>5
<1> QED BY <1>8, <1>9

\* A portal that announces itself.
LEMMA SpreadEvent ==
  ASSUME Portal!PortalAssumption, PannTypes, SpreadInv, NEW r \in Portals, Portal!PannEvent(r)
  PROVE  SpreadInv'
<1> DEFINE f == Portal!Pann(r, seqNo[r] + 1, 0, TtlMax)
<1>1. r \in MPs /\ TtlMax \in Nat BY SMT DEF Portal!PortalAssumption, Portal!Byte
<1>2. seqNo[r] \in Nat BY DEF PannTypes
<1>3. /\ f \in PannFrame /\ f.portal = r /\ f.seq = seqNo[r] + 1 /\ f.hops = 0 /\ f.ttl = TtlMax
  BY <1>1, <1>2, SMT DEF Portal!Pann, PannFrame
<1>4. /\ queue' = [queue EXCEPT ![r] = Append(@, f)] /\ item' = item /\ timers' = timers
      /\ seqNo' = [seqNo EXCEPT ![r] = @ + 1]
  BY DEF Portal!PannEvent, Portal!EnqueuePacket
<1> HIDE DEF f
<1>5. /\ \A m \in MPs : \A p, s : Carries(queue[m], p, s) => Carries(queue'[m], p, s)
      /\ f.hops <= TtlMax => Carries(queue'[r], f.portal, f.seq)
      /\ \A m \in MPs : \A k \in 1 .. Len(queue'[m]) :
           queue'[m][k] = f \/ \E l \in 1 .. Len(queue[m]) : queue'[m][k] = queue[m][l]
  BY <1>1, <1>3, <1>4, AppendCarries
<1>6. LifeFits(f) BY <1>1, <1>3, SMT DEF LifeFits
<1>7. \A n \in MPs : \A k \in 1 .. Len(queue'[n]) : LifeFits(queue'[n][k])
  BY <1>5, <1>6 DEF SpreadInv
<1>8. seqNo'[r] = seqNo[r] + 1 /\ \A p \in Portals \ {r} : seqNo'[p] = seqNo[p]
  BY <1>4 DEF PannTypes
<1>9. Carries(queue'[r], r, seqNo'[r]) BY <1>1, <1>3, <1>5, <1>8, SMT
<1>10. ASSUME ~ Lossy, NEW p \in Portals, NEW n \in MPs, NEW m \in MPs, m # p, Neighbours(n, m)
       PROVE  /\ n = p => item'[m][p].seq >= seqNo'[p] \/ Carries(queue'[n], p, seqNo'[p])
              /\ IsRepeater(n, p)' => \/ item'[m][p].seq >= item'[n][p].seq
                                      \/ timers'[n][p] > 0
                                      \/ Carries(queue'[n], p, item'[n][p].seq)
  <2>1. IsRepeater(n, p)' <=> IsRepeater(n, p) BY <1>4 DEF IsRepeater
  <2>2. CASE p = r BY <1>4, <1>5, <1>9, <1>10, <2>1, <2>2 DEF SpreadInv
  <2>3. CASE p # r BY <1>4, <1>5, <1>8, <1>10, <2>1, <2>3 DEF SpreadInv
  <2> QED BY <2>2, <2>3
<1> QED BY <1>4, <1>7, <1>10 DEF SpreadInv

\* A mesh point that repeats what it knows.
LEMMA SpreadPropagation ==
  ASSUME Portal!PortalAssumption, PannTypes, SpreadInv, NEW b \in MPs, NEW r \in Portals,
         Portal!PannPropagationEvent(b, r)
  PROVE  SpreadInv'
<1> DEFINE last == item[b][r]
           f == Portal!Pann(r, last.seq, last.hops, last.ttl)
<1>1. TtlMax \in Nat BY SMT DEF Portal!PortalAssumption, Portal!Byte
<1>2. last \in PannItem BY DEF PannTypes
<1>3. /\ f \in PannFrame /\ f.portal = r /\ f.seq = last.seq /\ f.hops = last.hops /\ f.ttl = last.ttl
  BY <1>2, SMT DEF Portal!Pann, PannFrame, PannItem
<1>4. /\ item' = item /\ seqNo' = seqNo /\ timers[b][r] > 0
      /\ timers' = [timers EXCEPT ![b][r] = @ - 1]
      /\ Portal!AssociatedNeighborCount(b) > 1 => queue' = [queue EXCEPT ![b] = Append(@, f)]
      /\ ~ (Portal!AssociatedNeighborCount(b) > 1) => queue' = queue
  BY DEF Portal!PannPropagationEvent, Portal!EnqueuePacket
<1>5. LifeFits(last) BY DEF SpreadInv
<1>6. LifeFits(f) BY <1>3, <1>5 DEF LifeFits
<1>7. last.hops \in Nat BY <1>2 DEF PannItem
<1> HIDE DEF f, last
<1>8. /\ \A m \in MPs : \A p, s : Carries(queue[m], p, s) => Carries(queue'[m], p, s)
      /\ Portal!AssociatedNeighborCount(b) > 1 /\ f.hops <= TtlMax => Carries(queue'[b], f.portal, f.seq)
      /\ \A m \in MPs : \A k \in 1 .. Len(queue'[m]) :
           queue'[m][k] = f \/ \E l \in 1 .. Len(queue[m]) : queue'[m][k] = queue[m][l]
  <2>1. CASE Portal!AssociatedNeighborCount(b) > 1 BY <1>3, <1>4, <2>1, AppendCarries
  <2>2. CASE ~ (Portal!AssociatedNeighborCount(b) > 1) BY <1>4, <2>2
  <2> QED BY <2>1, <2>2
<1>9. \A n \in MPs : \A k \in 1 .. Len(queue'[n]) : LifeFits(queue'[n][k])
  BY <1>6, <1>8 DEF SpreadInv
<1>10. /\ timers' \in [MPs -> [Portals -> Nat]]
       /\ \A n \in MPs, p \in Portals : n # b \/ p # r => timers'[n][p] = timers[n][p]
  <2>1. timers \in [MPs -> [Portals -> Nat]] BY DEF SpreadInv
  <2>2. timers[b][r] - 1 \in Nat BY <1>4, <2>1, SMT
  <2> DEFINE t == timers[b][r] - 1
             row == [timers[b] EXCEPT ![r] = t]
  <2>3. timers' = [timers EXCEPT ![b] = row] BY <1>4, <2>1
  <2> HIDE DEF t
  <2>4. row \in [Portals -> Nat] /\ \A p \in Portals \ {r} : row[p] = timers[b][p]
    BY <2>1, <2>2 DEF t
  <2> HIDE DEF row
  <2>5. timers' \in [MPs -> [Portals -> Nat]] BY <2>1, <2>3, <2>4
  <2>6. timers'[b] = row /\ \A n \in MPs \ {b} : timers'[n] = timers[n] BY <2>1, <2>3
  <2> QED BY <2>4, <2>5, <2>6
<1>11. ASSUME ~ Lossy, NEW p \in Portals, NEW n \in MPs, NEW m \in MPs, m # p, Neighbours(n, m)
       PROVE  /\ n = p => item'[m][p].seq >= seqNo'[p] \/ Carries(queue'[n], p, seqNo'[p])
              /\ IsRepeater(n, p)' => \/ item'[m][p].seq >= item'[n][p].seq
                                      \/ timers'[n][p] > 0
                                      \/ Carries(queue'[n], p, item'[n][p].seq)
  <2>1. IsRepeater(n, p)' <=> IsRepeater(n, p) BY <1>4 DEF IsRepeater
  <2>2. /\ n = p => item[m][p].seq >= seqNo[p] \/ Carries(queue[n], p, seqNo[p])
        /\ IsRepeater(n, p) => \/ item[m][p].seq >= item[n][p].seq
                               \/ timers[n][p] > 0
                               \/ Carries(queue[n], p, item[n][p].seq)
    BY <1>11 DEF SpreadInv
  <2>3. CASE n = b /\ p = r
    <3>1. IsRepeater(n, p) => f.hops <= TtlMax /\ Portal!AssociatedNeighborCount(b) > 1
      BY <1>1, <1>3, <1>7, <2>3, SMT DEF IsRepeater, last
    <3>2. IsRepeater(n, p) => Carries(queue'[n], p, item'[n][p].seq)
      BY <1>3, <1>4, <1>8, <2>3, <3>1 DEF last
    <3> QED BY <1>4, <1>8, <2>1, <2>2, <3>2
  <2>4. CASE n # b \/ p # r BY <1>4, <1>8, <1>10, <2>1, <2>2, <2>4
  <2> QED BY <2>3, <2>4
<1>12. \A n \in MPs, p \in Portals : LifeFits(item'[n][p]) BY <1>4 DEF SpreadInv
<1> QED BY <1>9, <1>10, <1>11, <1>12 DEF SpreadInv

\* A frame that every neighbour hears: whoever did not know it knows it now, and whoever
\* takes it will repeat it.
LEMMA SpreadTransmit ==
  ASSUME Portal!PortalAssumption, PortalInv, SpreadInv, NEW b \in MPs, Portal!Transmit(b)
  PROVE  SpreadInv'
<1> DEFINE near == {m \in MPs : <<b, m>> \in InRange}
           f == Head(queue[b])
<1>1. PICK lost \in IF Lossy THEN SUBSET near ELSE {{}} : Portal!ReceivePann(b, near \ lost, f)
  BY DEF Portal!Transmit
<1> DEFINE takes == {m \in near \ lost : <<m, b>> \in Links /\ Portal!IsNew(m, f)}
           new == Portal!Record(f, b)
<1>2. queue[b] # <<>> /\ queue' = [queue EXCEPT ![b] = Tail(@)] /\ seqNo' = seqNo
  BY DEF Portal!Transmit
<1>3. item' \in [MPs -> [Portals -> PannItem]] /\ Learns(item, item')
  BY <1>1, <1>2, ReceptionStep
<1>4. PannTypes /\ queue[b] \in Seq(PannFrame) BY DEF PortalInv, PannTypes
<1>5. f \in PannFrame /\ f = queue[b][1] /\ 1 \in 1 .. Len(queue[b])
  BY <1>2, <1>4, HeadTailProperties, EmptySeq, LenProperties
<1>6. f.portal \in Portals /\ f.seq \in Nat /\ f.hops \in Nat /\ f.ttl \in Int BY <1>5 DEF PannFrame
<1>7. LifeFits(f) BY <1>5 DEF SpreadInv
<1>8. new.seq = f.seq /\ new.hops = f.hops + 1 /\ new.ttl = (f.ttl - 1) % 256
  BY DEF Portal!Record, Portal!Byte
<1>9. item' = [m \in MPs |-> IF m \in takes THEN [item[m] EXCEPT ![f.portal] = new] ELSE item[m]]
  BY <1>1 DEF Portal!ReceivePann
<1>10. timers' = [m \in MPs |->
         IF m \in takes /\ (f.ttl - 1) % 256 >= 1 THEN [timers[m] EXCEPT ![f.portal] = @ + 1] ELSE timers[m]]
  BY <1>1 DEF Portal!ReceivePann, Portal!Byte
<1>11. TtlMax \in 0 .. 255 BY SMT DEF Portal!PortalAssumption, Portal!Byte
<1>12. \A m \in takes : m \in MPs /\ f.portal # m /\ f.hops <= TtlMax /\ f.seq > item[m][f.portal].seq
  BY DEF Portal!IsNew
<1>13. ~ Lossy => lost = {} BY <1>1
<1>14. ASSUME ~ Lossy, NEW m \in MPs, Neighbours(b, m), m # f.portal, f.hops <= TtlMax
       PROVE  m \in takes \/ ~ (f.seq > item[m][f.portal].seq)
  BY <1>13, <1>14 DEF Neighbours, Portal!IsNew
<1> HIDE DEF f, takes, new, near
<1>15. \A m \in MPs, p \in Portals :
         item'[m][p] = IF m \in takes /\ p = f.portal THEN new ELSE item[m][p]
  BY <1>4, <1>9 DEF PannTypes
<1>16. /\ timers' \in [MPs -> [Portals -> Nat]]
       /\ \A m \in MPs, p \in Portals : timers'[m][p] >= timers[m][p]
       /\ \A m \in takes : (f.ttl - 1) % 256 >= 1 => timers'[m][f.portal] > 0
  <2>1. timers \in [MPs -> [Portals -> Nat]] BY DEF SpreadInv
  <2> DEFINE more(m) == [timers[m] EXCEPT ![f.portal] = @ + 1]
             g == (f.ttl - 1) % 256 >= 1
  <2>2. ASSUME NEW m \in MPs
        PROVE  /\ more(m) \in [Portals -> Nat] /\ more(m)[f.portal] = timers[m][f.portal] + 1
               /\ \A p \in Portals : more(m)[p] >= timers[m][p] /\ timers[m][p] >= timers[m][p]
               /\ more(m)[f.portal] > 0
    <3>1. timers[m] \in [Portals -> Nat] BY <2>1
    <3> QED BY <1>6, <3>1
  <2>3. timers' = [m \in MPs |-> IF m \in takes /\ g THEN more(m) ELSE timers[m]] BY <1>10
  <2> HIDE DEF more, g
  <2>4. timers' \in [MPs -> [Portals -> Nat]] BY <2>1, <2>2, <2>3
  <2>5. \A m \in MPs, p \in Portals : timers'[m][p] >= timers[m][p] BY <2>2, <2>3
  <2>6. \A m \in takes : g => timers'[m][f.portal] > 0 BY <1>12, <2>2, <2>3
  <2> QED BY <2>4, <2>5, <2>6 DEF g
<1>17. LifeFits(new) /\ (new.hops < TtlMax /\ f.seq > 0 => (f.ttl - 1) % 256 >= 1)
  <2>1. CASE ~ (f.seq > 0) BY <1>6, <1>8, <2>1, SMT DEF LifeFits
  <2>2. CASE f.seq > 0 /\ ~ (f.hops + 1 <= TtlMax)
    BY <1>6, <1>8, <1>11, <2>2, SMT DEF LifeFits
  <2>3. CASE f.seq > 0 /\ f.hops + 1 <= TtlMax
    <3>1. f.ttl = TtlMax - f.hops BY <1>6, <1>7, <1>11, <2>3, SMT DEF LifeFits
    <3>2. f.ttl - 1 \in 0 .. 254
      <4>1. \A t \in 0 .. 255, h \in Nat : h + 1 <= t => t - h - 1 \in 0 .. 254 BY SMT
      <4> QED BY <1>6, <1>11, <2>3, <3>1, <4>1
    <3>3. (f.ttl - 1) % 256 = f.ttl - 1 BY <3>2, SMT
    <3> QED BY <1>6, <1>8, <1>11, <3>1, <3>3, SMT DEF LifeFits
  <2> QED BY <2>1, <2>2, <2>3
<1>18. \A n \in MPs, p \in Portals : LifeFits(item'[n][p]) BY <1>15, <1>17 DEF SpreadInv
<1>19. /\ Len(Tail(queue[b])) = Len(queue[b]) - 1 /\ Len(queue[b]) \in Nat
       /\ \A k \in 1 .. Len(queue[b]) - 1 : Tail(queue[b])[k] = queue[b][k + 1]
  BY <1>2, <1>4, HeadTailProperties, LenProperties
<1>20. queue'[b] = Tail(queue[b]) /\ \A n \in MPs \ {b} : queue'[n] = queue[n]
  BY <1>2, <1>4 DEF PannTypes
<1>21. \A n \in MPs : \A k \in 1 .. Len(queue'[n]) : LifeFits(queue'[n][k])
  <2> SUFFICES ASSUME NEW n \in MPs, NEW k \in 1 .. Len(queue'[n]) PROVE LifeFits(queue'[n][k])
    OBVIOUS
  <2>1. CASE n = b
    <3>0. Len(queue'[n]) = Len(queue[b]) - 1 BY <1>19, <1>20, <2>1
    <3>1. k \in 1 .. Len(queue[b]) - 1 /\ k + 1 \in 1 .. Len(queue[b]) BY <1>19, <3>0, SMT
    <3> QED BY <1>19, <1>20, <2>1, <3>1 DEF SpreadInv
  <2>2. CASE n # b BY <1>20, <2>2 DEF SpreadInv
  <2> QED BY <2>1, <2>2
<1>22. \A m \in MPs, p \in Portals : /\ item[m][p].seq \in Nat /\ item'[m][p].seq \in Nat
                                      /\ item'[m][p].seq >= item[m][p].seq
  BY <1>3, <1>4 DEF PannTypes, PannItem, Learns
<1>23. ASSUME ~ Lossy, NEW p \in Portals, NEW n \in MPs, NEW m \in MPs, m # p, Neighbours(n, m),
              NEW s \in Nat, Carries(queue[n], p, s)
       PROVE  item'[m][p].seq >= s \/ Carries(queue'[n], p, s)
  <2>1. CASE n # b BY <1>20, <1>23, <2>1
  <2>2. CASE n = b
    <3>1. PICK k \in 1 .. Len(queue[b]) :
            queue[b][k].portal = p /\ queue[b][k].seq >= s /\ queue[b][k].hops <= TtlMax
      BY <1>23, <2>2 DEF Carries
    <3>2. CASE k = 1
      <4>1. f.portal = p /\ f.seq >= s /\ f.hops <= TtlMax BY <1>5, <3>1, <3>2
      <4>2. m \in takes \/ ~ (f.seq > item[m][p].seq) BY <1>14, <1>23, <2>2, <4>1
      <4>3. m \in takes => item'[m][p].seq = f.seq BY <1>8, <1>15, <4>1
      <4> QED BY <1>6, <1>22, <1>23, <4>1, <4>2, <4>3, SMT
    <3>3. CASE k # 1
      <4>1. k - 1 \in 1 .. Len(queue[b]) - 1 /\ (k - 1) + 1 = k BY <1>19, <3>3, SMT
      <4>2. Tail(queue[b])[k - 1] = queue[b][k] /\ k - 1 \in 1 .. Len(Tail(queue[b]))
        BY <1>19, <4>1
      <4> QED BY <1>20, <2>2, <3>1, <4>2 DEF Carries
    <3> QED BY <3>2, <3>3
  <2> QED BY <2>1, <2>2
<1>24. ASSUME ~ Lossy, NEW p \in Portals, NEW n \in MPs, NEW m \in MPs, m # p, Neighbours(n, m)
       PROVE  /\ n = p => item'[m][p].seq >= seqNo'[p] \/ Carries(queue'[n], p, seqNo'[p])
              /\ IsRepeater(n, p)' => \/ item'[m][p].seq >= item'[n][p].seq
                                      \/ timers'[n][p] > 0
                                      \/ Carries(queue'[n], p, item'[n][p].seq)
  <2>1. /\ n = p => item[m][p].seq >= seqNo[p] \/ Carries(queue[n], p, seqNo[p])
        /\ IsRepeater(n, p) => \/ item[m][p].seq >= item[n][p].seq
                               \/ timers[n][p] > 0
                               \/ Carries(queue[n], p, item[n][p].seq)
    BY <1>24 DEF SpreadInv
  <2>2. seqNo[p] \in Nat BY <1>4 DEF PannTypes
  <2>3. n = p => item'[m][p].seq >= seqNo'[p] \/ Carries(queue'[n], p, seqNo'[p])
    <3>1. item[m][p].seq >= seqNo[p] => item'[m][p].seq >= seqNo[p] BY <1>22, <2>2, SMT
    <3> QED BY <1>2, <1>23, <1>24, <2>1, <2>2, <3>1
  <2>4. CASE n \in takes /\ p = f.portal
    <3>1. item'[n][p] = new BY <1>15, <2>4
    <3>2. f.seq > 0 BY <1>6, <1>12, <1>22, <2>4, SMT
    <3>3. IsRepeater(n, p)' => timers'[n][p] > 0
      BY <1>16, <1>17, <2>4, <3>1, <3>2 DEF IsRepeater
    <3> QED BY <2>3, <3>3
  <2>5. CASE ~ (n \in takes /\ p = f.portal)
    <3>1. item'[n][p] = item[n][p] BY <1>15, <2>5
    <3>2. IsRepeater(n, p)' <=> IsRepeater(n, p) BY <3>1 DEF IsRepeater, Portal!AssociatedNeighborCount
    <3>3. item[m][p].seq >= item[n][p].seq => item'[m][p].seq >= item[n][p].seq BY <1>22, SMT
    <3>4. timers[n][p] > 0 => timers'[n][p] > 0
      <4>1. timers[n][p] \in Nat /\ timers'[n][p] \in Nat BY <1>16 DEF SpreadInv
      <4> QED BY <1>16, <4>1, SMT
    <3>5. Carries(queue[n], p, item[n][p].seq) =>
            item'[m][p].seq >= item[n][p].seq \/ Carries(queue'[n], p, item[n][p].seq)
      BY <1>22, <1>23, <1>24
    <3> QED BY <2>1, <2>3, <3>1, <3>2, <3>3, <3>4, <3>5
  <2> QED BY <2>4, <2>5
<1> QED BY <1>16, <1>18, <1>21, <1>24 DEF SpreadInv

\* Aging changes neither what is known nor, without losses, what is queued.
LEMMA SpreadAge ==
  ASSUME PannTypes, SpreadInv, NEW b \in MPs,
         Portal!AgeQueue(b) \/ \E r \in Portals : Portal!AgePortal(b, r)
  PROVE  SpreadInv'
<1>1. CASE Portal!AgeQueue(b)
  <2>1. Lossy /\ queue[b] # <<>> /\ queue' = [queue EXCEPT ![b] = Tail(@)]
        /\ item' = item /\ timers' = timers
    BY <1>1 DEF Portal!AgeQueue
  <2>2. queue[b] \in Seq(PannFrame) BY DEF PannTypes
  <2>3. /\ Len(Tail(queue[b])) = Len(queue[b]) - 1 /\ Len(queue[b]) \in Nat
        /\ \A k \in 1 .. Len(queue[b]) - 1 : Tail(queue[b])[k] = queue[b][k + 1]
    BY <2>1, <2>2, HeadTailProperties, LenProperties
  <2>4. queue'[b] = Tail(queue[b]) /\ \A n \in MPs \ {b} : queue'[n] = queue[n]
    BY <2>1 DEF PannTypes
  <2>5. ASSUME NEW n \in MPs, NEW k \in 1 .. Len(queue'[n]) PROVE LifeFits(queue'[n][k])
    <3>1. CASE n = b
      <4>1. Len(queue'[n]) = Len(queue[b]) - 1 BY <2>3, <2>4, <3>1
      <4>2. k \in 1 .. Len(queue[b]) - 1 /\ k + 1 \in 1 .. Len(queue[b]) BY <2>3, <4>1, SMT
      <4> QED BY <2>3, <2>4, <3>1, <4>2 DEF SpreadInv
    <3>2. CASE n # b BY <2>4, <3>2 DEF SpreadInv
    <3> QED BY <3>1, <3>2
  <2> QED BY <2>1, <2>5 DEF SpreadInv
<1>2. ASSUME NEW r \in Portals, Portal!AgePortal(b, r) PROVE SpreadInv'
  <2>1. /\ item' = [item EXCEPT ![b][r].isActive = FALSE]
        /\ queue' = queue /\ timers' = timers /\ seqNo' = seqNo
    BY <1>2 DEF Portal!AgePortal
  <2>2. item \in [MPs -> [Portals -> PannItem]] BY DEF PannTypes
  <2>3. ASSUME NEW n \in MPs, NEW p \in Portals
        PROVE  /\ item'[n][p].seq = item[n][p].seq /\ item'[n][p].hops = item[n][p].hops
               /\ item'[n][p].ttl = item[n][p].ttl
    <3>1. item[n][p] \in PannItem BY <2>2
    <3>2. item'[n][p] = IF n = b /\ p = r THEN [item[b][r] EXCEPT !.isActive = FALSE] ELSE item[n][p]
      BY <2>1, <2>2
    <3> QED BY <3>1, <3>2 DEF PannItem
  <2>4. \A n \in MPs, p \in Portals : LifeFits(item'[n][p])
    <3> TAKE n \in MPs, p \in Portals
    <3>1. LifeFits(item[n][p]) BY DEF SpreadInv
    <3> QED BY <2>3, <3>1 DEF LifeFits
  <2>5. \A n \in MPs, p \in Portals : IsRepeater(n, p)' <=> IsRepeater(n, p)
    BY <2>3 DEF IsRepeater, Portal!AssociatedNeighborCount
  <2>6. ASSUME ~ Lossy, NEW p \in Portals, NEW n \in MPs, NEW m \in MPs, m # p, Neighbours(n, m)
        PROVE  /\ n = p => item'[m][p].seq >= seqNo'[p] \/ Carries(queue'[n], p, seqNo'[p])
               /\ IsRepeater(n, p)' => \/ item'[m][p].seq >= item'[n][p].seq
                                       \/ timers'[n][p] > 0
                                       \/ Carries(queue'[n], p, item'[n][p].seq)
    BY <2>1, <2>3, <2>5, <2>6 DEF SpreadInv
  <2> QED BY <2>1, <2>4, <2>6 DEF SpreadInv
<1> QED BY <1>1, <1>2

\* If nothing is lost, then when all is quiet whoever has the announcement of a portal,
\* with life left and neighbours to tell, has brought it to every neighbour, in any
\* topology, however long each repetition waits and however announcements overtake
\* each other (the timers of Dot11s_ReceivePannFrame).
THEOREM PannSpreads ==
  ASSUME Portal!PortalAssumption
  PROVE  Portal!Spec => []Portal!SpreadsOn
<1>1. Portal!Init => SpreadInv
  <2> SUFFICES ASSUME Portal!Init PROVE SpreadInv OBVIOUS
  <2>1. /\ queue = [n \in MPs |-> <<>>] /\ item = [n \in MPs |-> [p \in Portals |-> Portal!NoItem]]
        /\ timers = [n \in MPs |-> [p \in Portals |-> 0]] /\ seqNo = [p \in Portals |-> 0]
    BY DEF Portal!Init
  <2>2. \A n \in MPs, p \in Portals : item[n][p].seq = 0 BY <2>1 DEF Portal!NoItem
  <2>3. 0 >= 0 /\ ~ (0 > 0) BY SMT
  <2>4. \A n \in MPs, p \in Portals : LifeFits(item[n][p]) BY <2>2, <2>3 DEF LifeFits
  <2>5. \A n \in MPs : \A k \in 1 .. Len(queue[n]) : LifeFits(queue[n][k]) BY <2>1, EmptySeq
  <2>6. \A p \in Portals : seqNo[p] = 0 BY <2>1
  <2>7. timers \in [MPs -> [Portals -> Nat]] BY <2>1
  <2> QED BY <2>2, <2>3, <2>4, <2>5, <2>6, <2>7 DEF SpreadInv
<1>2. PortalInv /\ SpreadInv /\ [Portal!Next]_(Portal!vars) => SpreadInv'
  <2> SUFFICES ASSUME PortalInv, SpreadInv, [Portal!Next]_(Portal!vars) PROVE SpreadInv' OBVIOUS
  <2>1. CASE UNCHANGED Portal!vars
    <3>1. queue' = queue /\ item' = item /\ timers' = timers /\ seqNo' = seqNo BY <2>1 DEF Portal!vars
    <3> QED BY <3>1 DEF SpreadInv, IsRepeater, Portal!AssociatedNeighborCount
  <2>2. CASE Portal!Next
    BY <2>1, <2>2, SpreadEvent, SpreadTransmit, SpreadPropagation, SpreadAge
    DEF Portal!Next, Portal!Over, PortalInv
  <2> QED BY <2>1, <2>2
<1>3. PortalInv /\ SpreadInv => Portal!SpreadsOn
  <2> SUFFICES ASSUME PortalInv, SpreadInv, Portal!Quiet, ~ Lossy, NEW p \in Portals, NEW n \in MPs,
                      NEW m \in MPs, m # p, <<m, n>> \in Links, <<n, m>> \in InRange
               PROVE  /\ n = p => item[m][p].seq >= seqNo[p]
                      /\ item[n][p].hops < TtlMax /\ Portal!AssociatedNeighborCount(n) > 1 =>
                           item[m][p].seq >= item[n][p].seq
    BY DEF Portal!SpreadsOn
  <2>1. queue[n] = <<>> /\ ~ (timers[n][p] > 0) BY DEF Portal!Quiet
  <2>2. \A s : ~ Carries(queue[n], p, s) BY <2>1, EmptySeq DEF Carries
  <2> QED BY <2>1, <2>2 DEF SpreadInv, Neighbours, IsRepeater
<1> QED BY <1>1, <1>2, <1>3, PortalInductive, PTL DEF Portal!Spec

-----------------------------------------------------------------------------
(* Data frames of a mesh: no node is handed a packet twice, or one not for it. *)

CONSTANTS
  MAPs, Stations, AnyMac, Homes, NextHop, ProxyOf, SeqLimit, HandUp, Sends, MaxSends, MaxRoams
VARIABLES mp, stations, home, dataGot, sent, roams

Data == INSTANCE MeshData WITH got <- dataGot

\* A frame of the data queue, and the state of a mesh point between two events.
Addrs == Data!Dests \cup {NoHop}
MeshFrame ==
  [type : {"mesh", "data"}, RA : Addrs, TA : Addrs, DA : Addrs, SA : Addrs, seq : Nat, ttl : Int, id : Nat]
Keys == Addrs \X Addrs \X Nat
MpState == [queue : Seq(MeshFrame), seen : SUBSET Keys, e2e : [Data!Dests -> Nat], up : Seq(Nat)]

FramesOf(q) == {q[k] : k \in 1 .. Len(q)}

DataTypes ==
  /\ mp \in [MPs -> MpState] /\ \A n \in MPs : mp[n].up = <<>>
  /\ stations \in [MAPs -> SUBSET Stations] /\ home \in [Stations -> MAPs]
  /\ \A s \in Stations : s \in stations[home[s]]
  /\ dataGot \in [Data!Ends -> [Data!Ids -> Nat]]
  /\ sent \in Seq(Data!Ends \X Data!Dests) /\ Len(sent) <= MaxSends /\ roams \in Nat

\* A queue has at most one frame for the mesh and one for the stations of each packet.
EachOnce(q) == \A k, l \in 1 .. Len(q) : q[k].id = q[l].id /\ q[k].type = q[l].type => k = l

\* A copy of a broadcast has life left for each mesh point that does not know it yet.
Lively(f) == f.ttl + Cardinality({m \in MPs : Data!Key(f) \in mp[m].seen}) > TtlMax

\* A frame in the queue of n is of its packet, and n does not take it again.
FrameOK(n, f) ==
  /\ f.id \in 1 .. Len(sent) /\ f.SA = sent[f.id][1] /\ f.DA = sent[f.id][2]
  /\ f.type = "data" => f.RA = f.DA
  /\ f.type = "mesh" /\ f.DA # AnyMac => f.RA # AnyMac
  /\ f.type = "mesh" /\ f.DA = AnyMac =>
       f.RA = AnyMac /\ f.TA = n /\ Data!Key(f) \in mp[n].seen /\ Lively(f)

\* A packet for one destination is in one place, or has been handed up, to whom it is for.
OneOK(i) ==
  /\ \A n, m \in MPs : \A f \in FramesOf(mp[n].queue), g \in FramesOf(mp[m].queue) :
       f.id = i /\ g.id = i => n = m /\ f.type = g.type /\ \A x \in Data!Ends : dataGot[x][i] = 0
  /\ \A x \in Data!Ends : dataGot[x][i] <= 1 /\ (dataGot[x][i] > 0 => x \in Data!For(i))

\* The copies of a packet in the mesh.
Copies(i, n) == {f \in FramesOf(mp[n].queue) : f.id = i /\ f.type = "mesh"}
ToBss(i, n) == \E f \in FramesOf(mp[n].queue) : f.id = i /\ f.type = "data"

\* No copy of a broadcast can be taken by n any more: it knows them, or all who could
\* send it one do and have sent theirs.
Final(i, n) ==
  \A g \in MPs : \A f \in Copies(i, g) :
    \/ Data!Key(f) \in mp[n].seen
    \/ Data!IsSelfOrBssStationAddr(n, f.SA)
    \/ \A m \in MPs : <<n, m>> \in Links => Data!Key(f) \in mp[m].seen /\ Copies(i, m) = {}

\* The copies of a broadcast have one key, and who has taken one takes no other.
CastOK(i) ==
  /\ \A n, m \in MPs : \A f \in Copies(i, n), g \in Copies(i, m) : f.seq = g.seq
  /\ \A n \in MPs : \/ dataGot[n][i] > 0
                    \/ ToBss(i, n)
                    \/ roams = 0 /\ \E s \in Stations : home[s] = n /\ dataGot[s][i] > 0
                    => Final(i, n)
  /\ roams = 0 => \A s \in Stations : dataGot[s][i] <= 1 /\ (ToBss(i, home[s]) => dataGot[s][i] = 0)
  /\ \A n \in MPs : dataGot[n][i] <= 1
  /\ \A x \in Data!Ends : dataGot[x][i] > 0 => x \in Data!For(i) \cup Stations \cup Portals

PacketOK(i) == IF sent[i][2] = AnyMac THEN CastOK(i) ELSE OneOK(i)

DataInv ==
  /\ DataTypes
  /\ \A n \in MPs : EachOnce(mp[n].queue) /\ \A f \in FramesOf(mp[n].queue) : FrameOK(n, f)
  /\ \A i \in 1 .. Len(sent) : PacketOK(i)
  /\ \A i \in Data!Ids \ (1 .. Len(sent)) : \A x \in Data!Ends : dataGot[x][i] = 0

-----------------------------------------------------------------------------
(* Queues of data frames. *)

\* Two frames that a queue may hold together.
Differ(g, h) == ~ (g.id = h.id /\ g.type = h.type)

\* A handler makes r of the state s: it adds the frames F to the queue and the keys K
\* to the list of frames seen, and has handed up u.
Adds(s, r, F, K, u) ==
  /\ r \in MpState
  /\ FramesOf(r.queue) = FramesOf(s.queue) \cup F
  /\ EachOnce(s.queue) /\ (\A g \in FramesOf(s.queue), h \in F : Differ(g, h)) => EachOnce(r.queue)
  /\ r.seen = s.seen \cup K /\ r.up = u

\* A frame joins a queue.
LEMMA FrameJoins ==
  ASSUME NEW s \in MpState, NEW f \in MeshFrame
  PROVE  Adds(s, Data!EnqueuePacket(s, f), {f}, {}, s.up)
<1> DEFINE q == s.queue
           t == Append(q, f)
           r == [s EXCEPT !.queue = t]
<1>1. q \in Seq(MeshFrame) /\ t \in Seq(MeshFrame) /\ Len(t) = Len(q) + 1 /\ Len(q) \in Nat
  BY DEF MpState
<1>2. /\ \A k \in 1 .. Len(q) : t[k] = q[k]
      /\ t[Len(q) + 1] = f
  BY <1>1
<1>3. r \in MpState /\ r.queue = t /\ r.seen = s.seen /\ r.up = s.up BY <1>1 DEF MpState
<1>4. Data!EnqueuePacket(s, f) = r BY DEF Data!EnqueuePacket
<1> HIDE DEF t, r
<1>5. FramesOf(t) = FramesOf(q) \cup {f}
  <2>1. \A k \in 1 .. Len(t) : k \in 1 .. Len(q) \/ k = Len(q) + 1 BY <1>1
  <2>2. Len(q) + 1 \in 1 .. Len(t) /\ \A k \in 1 .. Len(q) : k \in 1 .. Len(t) BY <1>1
  <2> HIDE DEF q
  <2>3. ASSUME NEW x \in FramesOf(t) PROVE x \in FramesOf(q) \cup {f}
    BY <1>2, <2>1 DEF FramesOf
  <2>4. ASSUME NEW x \in FramesOf(q) \cup {f} PROVE x \in FramesOf(t)
    BY <1>2, <2>2 DEF FramesOf
  <2> QED BY <2>3, <2>4
<1>6. ASSUME EachOnce(q), \A g \in FramesOf(q), h \in {f} : Differ(g, h) PROVE EachOnce(t)
  <2>1. \A k \in 1 .. Len(q) : Differ(q[k], f) BY <1>6 DEF FramesOf
  <2> SUFFICES ASSUME NEW k \in 1 .. Len(t), NEW l \in 1 .. Len(t),
                      t[k].id = t[l].id, t[k].type = t[l].type
               PROVE  k = l
    BY DEF EachOnce
  <2>2. (k \in 1 .. Len(q) \/ k = Len(q) + 1) /\ (l \in 1 .. Len(q) \/ l = Len(q) + 1) BY <1>1
  <2> HIDE DEF q
  <2>3. CASE k \in 1 .. Len(q) /\ l \in 1 .. Len(q) BY <1>2, <1>6, <2>3 DEF EachOnce
  <2>4. CASE k \in 1 .. Len(q) /\ l = Len(q) + 1 BY <1>2, <2>1, <2>4 DEF Differ
  <2>5. CASE k = Len(q) + 1 /\ l \in 1 .. Len(q) BY <1>2, <2>1, <2>5 DEF Differ
  <2> QED BY <2>2, <2>3, <2>4, <2>5
<1>7. r.seen = s.seen \cup {} BY <1>3
<1> QED BY <1>3, <1>4, <1>5, <1>6, <1>7 DEF Adds

\* The frame at the head of a queue leaves it.
LEMMA HeadLeaves ==
  ASSUME NEW q \in Seq(MeshFrame), q # <<>>, EachOnce(q)
  PROVE  /\ Tail(q) \in Seq(MeshFrame) /\ EachOnce(Tail(q))
         /\ FramesOf(Tail(q)) \subseteq FramesOf(q)
         /\ Head(q) \in FramesOf(q) /\ Head(q) \in MeshFrame
         /\ \A g \in FramesOf(Tail(q)) : Differ(g, Head(q))
<1> DEFINE t == Tail(q)
           h == Head(q)
<1>1. Len(q) \in Nat \ {0} /\ t \in Seq(MeshFrame) /\ Len(t) = Len(q) - 1 /\ h = q[1] /\ h \in MeshFrame
  BY EmptySeq, HeadTailProperties
<1>2. \A k \in 1 .. Len(t) : t[k] = q[k + 1] BY HeadTailProperties
<1>3. \A k \in 1 .. Len(t) : k + 1 \in 1 .. Len(q) /\ k + 1 # 1 BY <1>1
<1>4. 1 \in 1 .. Len(q) BY <1>1
<1> HIDE DEF t, h
<1>5. EachOnce(t)
  <2> SUFFICES ASSUME NEW k \in 1 .. Len(t), NEW l \in 1 .. Len(t),
                      t[k].id = t[l].id, t[k].type = t[l].type
               PROVE  k = l
    BY DEF EachOnce
  <2>1. k + 1 = l + 1 BY <1>2, <1>3 DEF EachOnce
  <2> QED BY <2>1
<1>6. FramesOf(t) \subseteq FramesOf(q) BY <1>2, <1>3 DEF FramesOf
<1>7. h \in FramesOf(q) BY <1>1, <1>4 DEF FramesOf
<1>8. ASSUME NEW g \in FramesOf(t) PROVE Differ(g, h)
  <2>1. PICK k \in 1 .. Len(t) : g = t[k] BY DEF FramesOf
  <2>2. g = q[k + 1] BY <1>2, <2>1
  <2> QED BY <1>1, <1>3, <1>4, <2>1, <2>2 DEF EachOnce, Differ
<1> QED BY <1>1, <1>5, <1>6, <1>7, <1>8 DEF t, h

\* Counting is the same in the module of the mesh.
LEMMA DataCounts ==
  /\ \A S : Data!Cardinality(S) = Cardinality(S)
  /\ \A S : Data!IsFiniteSet(S) <=> IsFiniteSet(S)
<1>1. \A S : Data!Cardinality(S) = Cardinality(S) BY DEF Data!Cardinality, Cardinality
<1>2. \A S : Data!IsFiniteSet(S) <=> IsFiniteSet(S) BY DEF Data!IsFiniteSet, IsFiniteSet
<1> QED BY <1>1, <1>2

\* The equation of the frames that are kept of the first ones of a queue.
KeptFrames(g, q, hop, dst, n) ==
  g = [k \in 0 .. n |-> IF k = 0 THEN <<>>
         ELSE IF Data!IsTo(q[k], hop, dst) THEN g[k - 1] ELSE Append(g[k - 1], q[k])]

\* It has a solution: the one up to a frame goes on to the next.
LEMMA KeptFramesExist ==
  ASSUME NEW q, NEW hop, NEW dst, NEW l \in Nat PROVE \E g : KeptFrames(g, q, hop, dst, l)
<1> DEFINE T == {n \in Nat : ~ \E g : KeptFrames(g, q, hop, dst, n)}
<1> SUFFICES ASSUME T # {} PROVE FALSE OBVIOUS
<1>1. T \subseteq Nat OBVIOUS
<1> HIDE DEF T
<1>2. PICK n \in T : \A k \in T : n <= k BY <1>1, LeastOf
<1>3. n \in Nat /\ ~ \E g : KeptFrames(g, q, hop, dst, n) BY <1>2 DEF T
<1>4. CASE n = 0
  <2>1. KeptFrames([b \in 0 .. 0 |-> <<>>], q, hop, dst, 0) BY DEF KeptFrames
  <2> QED BY <1>3, <1>4, <2>1
<1>5. CASE n # 0
  <2>1. n - 1 \in Nat /\ ~ (n <= n - 1) BY <1>3, <1>5
  <2>2. PICK g : KeptFrames(g, q, hop, dst, n - 1) BY <1>2, <2>1 DEF T
  <2> DEFINE Onto(f, k) == IF Data!IsTo(q[k], hop, dst) THEN f[k - 1] ELSE Append(f[k - 1], q[k])
             h == [b \in 0 .. n |-> IF b = 0 THEN <<>> ELSE Onto(g, b)]
  <2>3. \A b \in 0 .. n - 1 : g[b] = IF b = 0 THEN <<>> ELSE Onto(g, b)
    BY <2>1, <2>2 DEF KeptFrames
  <2>4. \A b \in 0 .. n - 1 : h[b] = g[b] BY <1>3, <2>3
  <2>5. \A b \in 0 .. n : h[b] = IF b = 0 THEN <<>> ELSE Onto(h, b)
    <3> SUFFICES ASSUME NEW b \in 0 .. n PROVE h[b] = IF b = 0 THEN <<>> ELSE Onto(h, b)
      OBVIOUS
    <3>1. h[b] = IF b = 0 THEN <<>> ELSE Onto(g, b) OBVIOUS
    <3>2. b # 0 => b - 1 \in 0 .. n - 1 BY <1>3
    <3>3. b # 0 => h[b - 1] = g[b - 1] BY <2>4, <3>2
    <3> HIDE DEF h
    <3> QED BY <3>1, <3>3
  <2>6. h = [b \in 0 .. n |-> h[b]] OBVIOUS
  <2> HIDE DEF h
  <2>7. KeptFrames(h, q, hop, dst, n) BY <2>5, <2>6 DEF KeptFrames
  <2> QED BY <1>3, <2>7
<1> QED BY <1>4, <1>5

\* The frames that are kept are some of the queue, none of them twice.
LEMMA RestKept ==
  ASSUME NEW q \in Seq(MeshFrame), EachOnce(q), NEW hop, NEW dst
  PROVE  LET t == Data!Without(q, hop, dst)
         IN  t \in Seq(MeshFrame) /\ EachOnce(t) /\ FramesOf(t) \subseteq FramesOf(q)
<1> DEFINE l == Len(q)
           g == CHOOSE h : KeptFrames(h, q, hop, dst, l)
           OfFirst(t, n) == /\ t \in Seq(MeshFrame) /\ EachOnce(t)
                            /\ \A k \in 1 .. Len(t) : \E j \in 1 .. n : t[k] = q[j]
           T == {n \in Nat : n \in 0 .. l /\ ~ OfFirst(g[n], n)}
<1>0. l \in Nat /\ \A k \in 1 .. l : q[k] \in MeshFrame OBVIOUS
<1>1. Data!Without(q, hop, dst) = g[l] BY Zenon DEF Data!Without, KeptFrames
<1>2. KeptFrames(g, q, hop, dst, l) BY <1>0, KeptFramesExist
<1> HIDE DEF g
<1>3. \A n \in 0 .. l : g[n] = IF n = 0 THEN <<>>
         ELSE IF Data!IsTo(q[n], hop, dst) THEN g[n - 1] ELSE Append(g[n - 1], q[n])
  BY <1>2 DEF KeptFrames
<1>4. T = {}
  <2> SUFFICES ASSUME T # {} PROVE FALSE OBVIOUS
  <2>1. T \subseteq Nat OBVIOUS
  <2> HIDE DEF T, OfFirst
  <2>2. PICK n \in T : \A k \in T : n <= k BY <2>1, LeastOf
  <2>3. n \in Nat /\ n \in 0 .. l /\ ~ OfFirst(g[n], n) BY <2>2 DEF T
  <2>4. n # 0
    <3>1. OfFirst(<<>>, 0) BY DEF OfFirst, EachOnce
    <3>2. n = 0 => g[n] = <<>> BY <1>3, <2>3
    <3> QED BY <2>3, <3>1, <3>2
  <2>5. n - 1 \in Nat /\ n - 1 \in 0 .. l /\ ~ (n <= n - 1) /\ n \in 1 .. l BY <2>3, <2>4
  <2> DEFINE t == g[n - 1]
  <2>6. OfFirst(t, n - 1) BY <2>2, <2>5 DEF T
  <2>7. g[n] = IF Data!IsTo(q[n], hop, dst) THEN t ELSE Append(t, q[n]) BY <1>3, <2>3, <2>4
  <2> HIDE DEF t
  <2>8. \A j \in 1 .. n - 1 : j \in 1 .. n /\ j # n /\ j \in 1 .. l BY <1>0, <2>3, <2>5
  <2>9. CASE Data!IsTo(q[n], hop, dst)
    <3>1. OfFirst(t, n) BY <2>6, <2>8 DEF OfFirst
    <3> QED BY <2>3, <2>7, <2>9, <3>1
  <2>10. CASE ~ Data!IsTo(q[n], hop, dst)
    <3> DEFINE r == Append(t, q[n])
    <3>0. t \in Seq(MeshFrame) /\ Len(t) \in Nat /\ q[n] \in MeshFrame BY <1>0, <2>5, <2>6 DEF OfFirst
    <3>1. r \in Seq(MeshFrame) /\ Len(r) = Len(t) + 1 /\ r[Len(t) + 1] = q[n]
          /\ \A k \in 1 .. Len(t) : r[k] = t[k]
      BY <3>0
    <3>2. \A k \in 1 .. Len(r) : k \in 1 .. Len(t) \/ k = Len(t) + 1 BY <3>0, <3>1
    <3> HIDE DEF r
    <3>3. \A k \in 1 .. Len(r) : \E j \in 1 .. n : r[k] = q[j]
      <4> SUFFICES ASSUME NEW k \in 1 .. Len(r) PROVE \E j \in 1 .. n : r[k] = q[j] OBVIOUS
      <4>1. n \in 1 .. n BY <2>5
      <4>2. CASE k \in 1 .. Len(t)
        <5>1. PICK j \in 1 .. n - 1 : t[k] = q[j] BY <2>6, <4>2 DEF OfFirst
        <5> QED BY <2>8, <3>1, <4>2, <5>1
      <4>3. CASE k = Len(t) + 1 BY <3>1, <4>1, <4>3
      <4> QED BY <3>2, <4>2, <4>3
    <3>4. \A k \in 1 .. Len(t) : Differ(t[k], q[n])
      <4> SUFFICES ASSUME NEW k \in 1 .. Len(t) PROVE Differ(t[k], q[n]) OBVIOUS
      <4>1. PICK j \in 1 .. n - 1 : t[k] = q[j] BY <2>6 DEF OfFirst
      <4>2. j \in 1 .. Len(q) /\ n \in 1 .. Len(q) /\ j # n BY <2>5, <2>8
      <4> QED BY <4>1, <4>2 DEF EachOnce, Differ
    <3>5. EachOnce(r)
      <4> SUFFICES ASSUME NEW k \in 1 .. Len(r), NEW m \in 1 .. Len(r),
                          r[k].id = r[m].id, r[k].type = r[m].type
                   PROVE  k = m
        BY DEF EachOnce
      <4>1. CASE k \in 1 .. Len(t) /\ m \in 1 .. Len(t) BY <2>6, <3>1, <4>1 DEF OfFirst, EachOnce
      <4>2. CASE k \in 1 .. Len(t) /\ m = Len(t) + 1 BY <3>1, <3>4, <4>2 DEF Differ
      <4>3. CASE k = Len(t) + 1 /\ m \in 1 .. Len(t) BY <3>1, <3>4, <4>3 DEF Differ
      <4> QED BY <3>2, <4>1, <4>2, <4>3
    <3>6. OfFirst(r, n) BY <3>1, <3>3, <3>5 DEF OfFirst
    <3> QED BY <2>3, <2>7, <2>10, <3>6 DEF r
  <2> QED BY <2>9, <2>10
<1>5. OfFirst(g[l], l)
  <2>1. l \in 0 .. l BY <1>0
  <2> QED BY <1>0, <1>4, <2>1
<1>6. FramesOf(g[l]) \subseteq FramesOf(q) BY <1>5 DEF FramesOf
<1> QED BY <1>1, <1>5, <1>6

\* One handler's part after another.
LEMMA AddsMore ==
  ASSUME NEW s, NEW t, NEW r, NEW F, NEW G, NEW K, NEW J, NEW u, NEW v,
         Adds(s, t, F, K, u), Adds(t, r, G, J, v), \A g \in F, h \in G : Differ(g, h)
  PROVE  Adds(s, r, F \cup G, K \cup J, v)
<1>1. FramesOf(r.queue) = FramesOf(s.queue) \cup (F \cup G) /\ r.seen = s.seen \cup (K \cup J)
  BY DEF Adds
<1>2. ASSUME EachOnce(s.queue), \A g \in FramesOf(s.queue), h \in F \cup G : Differ(g, h)
      PROVE  EachOnce(r.queue)
  <2>1. EachOnce(t.queue) BY <1>2 DEF Adds
  <2>2. \A g \in FramesOf(t.queue), h \in G : Differ(g, h) BY <1>2 DEF Adds
  <2> QED BY <2>1, <2>2 DEF Adds
<1> QED BY <1>1, <1>2 DEF Adds

-----------------------------------------------------------------------------
(* What the parts of a handler add. *)

\* A frame as it is sent to the mesh, and to the stations.
ToMesh(f) == [f EXCEPT !.type = "mesh"]
ToStations(f) == [f EXCEPT !.type = "data", !.ttl = 0]

\* Both are frames, of the same packet.
LEMMA FormsOfFrame ==
  ASSUME NEW f \in MeshFrame
  PROVE  /\ ToMesh(f) \in MeshFrame /\ ToStations(f) \in MeshFrame
         /\ ToMesh(f).type = "mesh" /\ ToStations(f).type = "data"
         /\ \A g \in {ToMesh(f), ToStations(f)} :
              g.id = f.id /\ g.RA = f.RA /\ g.TA = f.TA /\ g.DA = f.DA /\ g.SA = f.SA /\ g.seq = f.seq
         /\ ToMesh(f).ttl = f.ttl
         /\ Data!Key(ToMesh(f)) = Data!Key(f) /\ Data!Key(f) \in Keys
<1>1. ToMesh(f) \in MeshFrame /\ ToMesh(f).type = "mesh" /\ ToMesh(f).ttl = f.ttl BY DEF MeshFrame, ToMesh
<1>2. ToStations(f) \in MeshFrame /\ ToStations(f).type = "data"
  <2> DEFINE g == [f EXCEPT !.type = "data"]
             h == [g EXCEPT !.ttl = 0]
  <2>1. g \in MeshFrame /\ g.type = "data" BY DEF MeshFrame
  <2> HIDE DEF g
  <2>2. h \in MeshFrame /\ h.type = "data" BY <2>1 DEF MeshFrame
  <2>3. ToStations(f) = h BY DEF g, ToStations
  <2> QED BY <2>2, <2>3
<1>3. \A g \in {ToMesh(f), ToStations(f)} :
        g.id = f.id /\ g.RA = f.RA /\ g.TA = f.TA /\ g.DA = f.DA /\ g.SA = f.SA /\ g.seq = f.seq
  BY DEF MeshFrame, ToMesh, ToStations
<1>4. Data!Key(ToMesh(f)) = Data!Key(f) BY <1>3 DEF Data!Key
<1>5. f.DA \in Addrs /\ f.SA \in Addrs /\ f.seq \in Nat BY DEF MeshFrame
<1>6. Data!Key(f) \in Keys BY <1>5 DEF Data!Key, Keys
<1> QED BY <1>1, <1>2, <1>3, <1>4, <1>6

\* A handler that does nothing adds nothing.
LEMMA NothingAdded == ASSUME NEW s \in MpState PROVE Adds(s, s, {}, {}, s.up)
BY DEF Adds

\* A state that differs in the list of frames seen, the numbers or what is handed up.
LEMMA QueueStays ==
  ASSUME NEW s \in MpState, NEW r \in MpState, r.queue = s.queue, NEW K, r.seen = s.seen \cup K
  PROVE  Adds(s, r, {}, K, r.up)
<1>1. FramesOf(r.queue) = FramesOf(s.queue) \cup {} OBVIOUS
<1> QED BY <1>1 DEF Adds

\* A frame for the mesh is entered in the list of frames seen.
LEMMA MeshAdds ==
  ASSUME NEW s \in MpState, NEW f \in MeshFrame
  PROVE  Adds(s, Data!SendDataFrameToMesh(s, f), {ToMesh(f)}, {Data!Key(f)}, s.up)
<1> DEFINE t == Data!EnqueuePacket(s, ToMesh(f))
           r == [t EXCEPT !.seen = @ \cup {Data!Key(f)}]
<1>1. Adds(s, t, {ToMesh(f)}, {}, s.up) BY FormsOfFrame, FrameJoins
<1>2. t \in MpState /\ t.up = s.up BY <1>1 DEF Adds
<1>3. r = Data!SendDataFrameToMesh(s, f) BY DEF Data!SendDataFrameToMesh, ToMesh
<1> HIDE DEF t
<1>4. Data!Key(f) \in Keys BY FormsOfFrame
<1>5. r \in MpState /\ r.queue = t.queue /\ r.seen = t.seen \cup {Data!Key(f)} /\ r.up = s.up
  BY <1>2, <1>4 DEF MpState
<1> HIDE DEF r
<1>6. Adds(t, r, {}, {Data!Key(f)}, s.up) BY <1>2, <1>5, QueueStays
<1>7. Adds(s, r, {ToMesh(f)} \cup {}, {} \cup {Data!Key(f)}, s.up) BY <1>1, <1>6, AddsMore
<1>8. {ToMesh(f)} \cup {} = {ToMesh(f)} /\ {} \cup {Data!Key(f)} = {Data!Key(f)} OBVIOUS
<1> QED BY <1>3, <1>7, <1>8

\* A frame for the stations is not.
LEMMA BssAdds ==
  ASSUME NEW s \in MpState, NEW f \in MeshFrame
  PROVE  Adds(s, Data!SendFrameToBss(s, f), {ToStations(f)}, {}, s.up)
<1>1. Data!SendFrameToBss(s, f) = Data!EnqueuePacket(s, ToStations(f))
  BY DEF Data!SendFrameToBss, ToStations
<1> QED BY <1>1, FormsOfFrame, FrameJoins

\* What is handed up.
LEMMA UpAdds ==
  ASSUME NEW s \in MpState, NEW f \in MeshFrame, s.up = <<>>
  PROVE  Adds(s, Data!SendFrameToUpperLayer(s, f), {}, {}, <<f.id>>)
<1> DEFINE r == [s EXCEPT !.up = Append(@, f.id)]
<1>1. f.id \in Nat /\ Append(s.up, f.id) = <<f.id>> /\ <<f.id>> \in Seq(Nat) BY DEF MeshFrame
<1>2. r \in MpState /\ r.queue = s.queue /\ r.seen = s.seen \cup {} /\ r.up = <<f.id>>
  BY <1>1 DEF MpState
<1>3. r = Data!SendFrameToUpperLayer(s, f) BY DEF Data!SendFrameToUpperLayer
<1> HIDE DEF r
<1> QED BY <1>2, <1>3, QueueStays

\* The next number of a destination.
LEMMA NumberAdds ==
  ASSUME Data!DataAssumption, NEW s \in MpState, NEW da \in Data!Dests
  PROVE  /\ Adds(s, Data!Numbered(s, da), {}, {}, s.up)
         /\ Data!NextSeqNo(s, da) \in Nat /\ Data!Numbered(s, da).e2e[da] = Data!NextSeqNo(s, da)
<1>1. SeqLimit \in Nat \ {0} BY DEF Data!DataAssumption
<1>2. s.e2e \in [Data!Dests -> Nat] BY DEF MpState
<1>3. Data!NextSeqNo(s, da) \in Nat BY <1>1, <1>2 DEF Data!NextSeqNo
<1> DEFINE r == [s EXCEPT !.e2e = [@ EXCEPT ![da] = Data!NextSeqNo(s, da)]]
<1>4. [s.e2e EXCEPT ![da] = Data!NextSeqNo(s, da)] \in [Data!Dests -> Nat] BY <1>2, <1>3
<1>5. r \in MpState /\ r.queue = s.queue /\ r.seen = s.seen \cup {} /\ r.up = s.up
      /\ r.e2e[da] = Data!NextSeqNo(s, da)
  BY <1>2, <1>4 DEF MpState
<1>6. r = Data!Numbered(s, da) BY DEF Data!Numbered
<1> HIDE DEF r
<1>7. Adds(s, r, {}, {}, s.up) BY <1>5, QueueStays
<1> QED BY <1>3, <1>5, <1>6, <1>7

\* The copies that are sent on.
CopiesOut(f, toMesh, toBss) ==
  (IF toMesh THEN {ToMesh(f)} ELSE {}) \cup (IF toBss THEN {ToStations(f)} ELSE {})

\* A copy for the mesh and one for the stations.
LEMMA BothAdd ==
  ASSUME NEW s \in MpState, NEW f \in MeshFrame, NEW toMesh \in BOOLEAN, NEW toBss \in BOOLEAN
  PROVE  Adds(s, Data!Both(s, f, toMesh, toBss), CopiesOut(f, toMesh, toBss),
              IF toMesh THEN {Data!Key(f)} ELSE {}, s.up)
<1> DEFINE t == IF toMesh THEN Data!SendDataFrameToMesh(s, f) ELSE s
           r == IF toBss THEN Data!SendFrameToBss(t, f) ELSE t
           F == IF toMesh THEN {ToMesh(f)} ELSE {}
           G == IF toBss THEN {ToStations(f)} ELSE {}
           K == IF toMesh THEN {Data!Key(f)} ELSE {}
<1>1. Adds(s, t, F, K, s.up) BY MeshAdds, NothingAdded
<1>2. t \in MpState /\ t.up = s.up BY <1>1 DEF Adds
<1> HIDE DEF t
<1>3. Adds(t, r, G, {}, s.up) BY <1>2, BssAdds, NothingAdded
<1>4. r = Data!Both(s, f, toMesh, toBss) BY DEF t, Data!Both
<1> HIDE DEF r
<1>5. \A g \in F, h \in G : Differ(g, h) BY FormsOfFrame DEF Differ
<1> HIDE DEF F, G, K
<1>6. Adds(s, r, F \cup G, K \cup {}, s.up) BY <1>1, <1>3, <1>5, AddsMore
<1>7. K \cup {} = K OBVIOUS
<1> QED BY <1>4, <1>6, <1>7 DEF F, G, K, CopiesOut

-----------------------------------------------------------------------------
(* What the handlers do with a frame. *)

\* What an access point sends its stations, and any mesh point hands up and sends on.
HasStations(m) == m \in MAPs /\ stations[m] # {}
Onward(m, f) == f.ttl > 0 /\ Data!AssociatedNeighborCount(m) > 1
Outgoing(m, f) == [f EXCEPT !.TA = m, !.ttl = IF Onward(m, f) THEN @ - 1 ELSE @]
UpOf(m, f) == IF m \in MAPs /\ ~ HandUp THEN <<>> ELSE <<f.id>>

\* A mesh point takes a broadcast: it has not seen it, and nobody of its own sent it.
Takes(m, f, s, r) ==
  /\ Data!IsAssociatedNeighbor(m, f.TA) /\ Data!Key(f) \notin s.seen
  /\ ~ Data!IsSelfOrBssStationAddr(m, f.SA)
  /\ Adds(s, r, CopiesOut(Outgoing(m, f), Onward(m, f), HasStations(m)),
          IF Onward(m, f) THEN {Data!Key(f)} ELSE {}, UpOf(m, f))

\* What goes on is the same frame, with one more hop gone.
LEMMA FrameGoesOn ==
  ASSUME NEW m \in MPs, NEW f \in MeshFrame
  PROVE  LET g == Outgoing(m, f)
         IN  /\ g \in MeshFrame /\ g.id = f.id /\ g.RA = f.RA /\ g.TA = m /\ g.DA = f.DA /\ g.SA = f.SA
             /\ g.seq = f.seq /\ Data!Key(g) = Data!Key(f)
             /\ g.ttl = IF Onward(m, f) THEN f.ttl - 1 ELSE f.ttl
<1>1. m \in Addrs BY DEF Addrs, Data!Dests
<1> DEFINE l == IF Onward(m, f) THEN f.ttl - 1 ELSE f.ttl
           h == [f EXCEPT !.TA = m]
           g == [h EXCEPT !.ttl = l]
<1>2. h \in MeshFrame /\ h.id = f.id /\ h.RA = f.RA /\ h.TA = m /\ h.DA = f.DA /\ h.SA = f.SA
      /\ h.seq = f.seq /\ h.ttl = f.ttl
  BY <1>1 DEF MeshFrame
<1>3. l \in Int BY DEF MeshFrame
<1> HIDE DEF h, l
<1>4. g \in MeshFrame /\ g.id = f.id /\ g.RA = f.RA /\ g.TA = m /\ g.DA = f.DA /\ g.SA = f.SA
      /\ g.seq = f.seq /\ g.ttl = l
  BY <1>2, <1>3 DEF MeshFrame
<1>5. g = Outgoing(m, f) BY <1>2 DEF h, l, Outgoing
<1> QED BY <1>4, <1>5 DEF Data!Key, l

\* A broadcast of another mesh point is dropped or taken.
LEMMA CastReceived ==
  ASSUME Data!DataAssumption, NEW m \in MPs, NEW s \in MpState, NEW f \in MeshFrame, s.up = <<>>
  PROVE  LET r == Data!ReceiveDataBroadcast(m, s, f) IN r = s \/ Takes(m, f, s, r)
<1> DEFINE r == Data!ReceiveDataBroadcast(m, s, f)
           t == IF m \in MAPs /\ ~ HandUp THEN s ELSE Data!SendFrameToUpperLayer(s, f)
           g == Outgoing(m, f)
           a == Onward(m, f)
           b == HasStations(m)
           z == Data!Both(t, g, a, b)
           F == CopiesOut(g, a, b)
           K == IF a THEN {Data!Key(f)} ELSE {}
<1>1. g \in MeshFrame /\ Data!Key(g) = Data!Key(f) BY FrameGoesOn
<1>2. Adds(s, t, {}, {}, UpOf(m, f)) BY UpAdds, NothingAdded DEF UpOf
<1>3. t \in MpState /\ t.up = UpOf(m, f) BY <1>2 DEF Adds
<1>4. a \in BOOLEAN /\ b \in BOOLEAN BY DEF Onward, HasStations
<1> HIDE DEF t, g, a, b
<1>5. Adds(t, z, F, IF a THEN {Data!Key(g)} ELSE {}, UpOf(m, f)) BY <1>1, <1>3, <1>4, BothAdd
<1>6. Adds(t, z, F, K, UpOf(m, f)) BY <1>1, <1>5
<1> HIDE DEF z, F, K
<1>7. Adds(s, z, {} \cup F, {} \cup K, UpOf(m, f)) BY <1>2, <1>6, AddsMore
<1>8. {} \cup F = F /\ {} \cup K = K OBVIOUS
<1>9. Adds(s, z, F, K, UpOf(m, f)) BY <1>7, <1>8
<1>10. CASE /\ Data!IsAssociatedNeighbor(m, f.TA) /\ Data!Key(f) \notin s.seen
            /\ ~ Data!IsSelfOrBssStationAddr(m, f.SA)
  <2>1. r = z
    BY <1>10 DEF Data!ReceiveDataBroadcast, t, g, a, b, z, Outgoing, Onward, HasStations
  <2>2. Takes(m, f, s, z) BY <1>9, <1>10 DEF F, K, g, a, b, Takes
  <2> QED BY <2>1, <2>2
<1>11. CASE ~ (/\ Data!IsAssociatedNeighbor(m, f.TA) /\ Data!Key(f) \notin s.seen
               /\ ~ Data!IsSelfOrBssStationAddr(m, f.SA))
  <2>1. r = s BY <1>11 DEF Data!ReceiveDataBroadcast
  <2> QED BY <2>1
<1> QED BY <1>10, <1>11

\* A packet for one destination is dropped, handed up where it is for, or queued once.
Rightful(n, dst) == dst = n \/ (dst \in DOMAIN ProxyOf /\ ProxyOf[dst] = n)
OneCopy(g, id, src, dst) ==
  /\ g \in MeshFrame /\ g.id = id /\ g.SA = src /\ g.DA = dst
  /\ (g.type = "data" => g.RA = g.DA) /\ (g.type = "mesh" => g.RA # AnyMac)
OneResult(n, s, r, id, src, dst) ==
  \E K : \/ Adds(s, r, {}, K, <<>>)
         \/ Adds(s, r, {}, K, <<id>>) /\ Rightful(n, dst)
         \/ \E g : Adds(s, r, {g}, K, <<>>) /\ OneCopy(g, id, src, dst)

\* The number of a packet is taken before.
LEMMA NumberedFirst ==
  ASSUME NEW n, NEW s, NEW t, NEW r, NEW id, NEW src, NEW dst, NEW u,
         Adds(s, t, {}, {}, u), OneResult(n, t, r, id, src, dst)
  PROVE  OneResult(n, s, r, id, src, dst)
<1>1. PICK K : \/ Adds(t, r, {}, K, <<>>)
               \/ Adds(t, r, {}, K, <<id>>) /\ Rightful(n, dst)
               \/ \E g : Adds(t, r, {g}, K, <<>>) /\ OneCopy(g, id, src, dst)
  BY DEF OneResult
<1>2. ASSUME NEW F, NEW v, Adds(t, r, F, K, v) PROVE Adds(s, r, F, K, v)
  <2>1. Adds(s, r, {} \cup F, {} \cup K, v) BY <1>2, AddsMore
  <2>2. {} \cup F = F /\ {} \cup K = K OBVIOUS
  <2> QED BY <2>1, <2>2
<1> QED BY <1>1, <1>2 DEF OneResult

\* The router function queues the frame for a mesh point, if it knows one.
LEMMA Routed ==
  ASSUME Data!DataAssumption, NEW n \in MPs, NEW s \in MpState, s.up = <<>>, NEW f \in MeshFrame,
         f.DA \in Data!Dests \ {AnyMac}
  PROVE  OneResult(n, s, Data!SendFrameToRoutingFunction(n, s, f), f.id, f.SA, f.DA)
<1> DEFINE hop == NextHop[n, f.DA]
           r == Data!SendFrameToRoutingFunction(n, s, f)
           g == [f EXCEPT !.type = "mesh", !.RA = hop, !.TA = n]
<1>1. hop \in MPs \cup {NoHop} /\ AnyMac \notin MPs /\ NoHop # AnyMac
  BY DEF Data!DataAssumption, Data!Dests
<1>2. hop \in Addrs /\ n \in Addrs BY <1>1 DEF Addrs, Data!Dests
<1> HIDE DEF hop
<1>3. OneCopy(g, f.id, f.SA, f.DA)
  <2> DEFINE h == [f EXCEPT !.type = "mesh"]
             e == [h EXCEPT !.RA = hop]
             d == [e EXCEPT !.TA = n]
  <2>1. h \in MeshFrame /\ h.type = "mesh" /\ h.id = f.id /\ h.SA = f.SA /\ h.DA = f.DA BY DEF MeshFrame
  <2> HIDE DEF h
  <2>2. e \in MeshFrame /\ e.type = "mesh" /\ e.id = f.id /\ e.SA = f.SA /\ e.DA = f.DA /\ e.RA = hop
    BY <1>2, <2>1 DEF MeshFrame
  <2> HIDE DEF e
  <2>3. d \in MeshFrame /\ d.type = "mesh" /\ d.id = f.id /\ d.SA = f.SA /\ d.DA = f.DA /\ d.RA = hop
    BY <1>2, <2>2 DEF MeshFrame
  <2>4. d = g BY DEF e, h
  <2> HIDE DEF d, g
  <2> QED BY <1>1, <2>3, <2>4 DEF OneCopy
<1>4. CASE hop = NoHop
  <2>1. r = s BY <1>4 DEF hop, Data!SendFrameToRoutingFunction
  <2>2. Adds(s, s, {}, {}, <<>>) BY NothingAdded
  <2> QED BY <2>1, <2>2 DEF OneResult
<1>5. CASE hop # NoHop
  <2>1. r = Data!EnqueuePacket(s, g) BY <1>5 DEF hop, Data!SendFrameToRoutingFunction
  <2> HIDE DEF g
  <2>2. Adds(s, r, {g}, {}, <<>>) BY <1>3, <2>1, FrameJoins DEF OneCopy
  <2> QED BY <1>3, <2>2 DEF OneResult
<1> QED BY <1>4, <1>5

\* A portal sends towards the proxy of the destination as a frame of its own.
LEMMA SentToProxy ==
  ASSUME Data!DataAssumption, NEW n \in MPs, NEW s \in MpState, s.up = <<>>, NEW f \in MeshFrame,
         f.DA \in DOMAIN ProxyOf
  PROVE  OneResult(n, s, Data!SendDataFrameToMesh(s, [f EXCEPT !.RA = NextHop[n, ProxyOf[f.DA]]]),
                   f.id, f.SA, f.DA)
<1> DEFINE hop == NextHop[n, ProxyOf[f.DA]]
           h == [f EXCEPT !.RA = hop]
           r == Data!SendDataFrameToMesh(s, h)
           g == ToMesh(h)
<1>1. ProxyOf[f.DA] \in Portals /\ Portals \subseteq MPs /\ AnyMac \notin MPs /\ NoHop # AnyMac
  BY DEF Data!DataAssumption
<1>2. ProxyOf[f.DA] \in Data!Dests \ {AnyMac} BY <1>1 DEF Data!Dests
<1>3. hop \in MPs \cup {NoHop} BY <1>2 DEF Data!DataAssumption, Data!Dests
<1>4. hop \in Addrs /\ hop # AnyMac BY <1>1, <1>3 DEF Addrs, Data!Dests
<1> HIDE DEF hop
<1>5. h \in MeshFrame /\ h.id = f.id /\ h.SA = f.SA /\ h.DA = f.DA /\ h.RA = hop
  BY <1>4 DEF MeshFrame
<1>6. r = Data!SendDataFrameToMesh(s, [f EXCEPT !.RA = NextHop[n, ProxyOf[f.DA]]]) BY DEF hop
<1> HIDE DEF h
<1>7. OneCopy(g, f.id, f.SA, f.DA) BY <1>4, <1>5, FormsOfFrame DEF OneCopy
<1>8. Adds(s, r, {g}, {Data!Key(h)}, <<>>) BY <1>5, MeshAdds
<1> HIDE DEF g, r
<1>9. OneResult(n, s, r, f.id, f.SA, f.DA) BY <1>7, <1>8 DEF OneResult
<1> QED BY <1>6, <1>9

\* What goes to a station is addressed to it.
LEMMA SentToStation ==
  ASSUME NEW n \in MPs, NEW s \in MpState, s.up = <<>>, NEW f \in MeshFrame
  PROVE  OneResult(n, s, Data!SendFrameToBss(s, [f EXCEPT !.RA = f.DA, !.TA = n]), f.id, f.SA, f.DA)
<1> DEFINE e == [f EXCEPT !.RA = f.DA]
           h == [e EXCEPT !.TA = n]
           r == Data!SendFrameToBss(s, h)
           g == ToStations(h)
<1>1. n \in Addrs BY DEF Addrs, Data!Dests
<1>2. e \in MeshFrame /\ e.id = f.id /\ e.SA = f.SA /\ e.DA = f.DA /\ e.RA = f.DA BY DEF MeshFrame
<1>3. h = [f EXCEPT !.RA = f.DA, !.TA = n] OBVIOUS
<1> HIDE DEF e
<1>4. h \in MeshFrame /\ h.id = f.id /\ h.SA = f.SA /\ h.DA = f.DA /\ h.RA = f.DA
  BY <1>1, <1>2 DEF MeshFrame
<1> HIDE DEF h
<1>5. OneCopy(g, f.id, f.SA, f.DA) BY <1>4, FormsOfFrame DEF OneCopy
<1>6. Adds(s, r, {g}, {}, <<>>) BY <1>4, BssAdds
<1>7. r = Data!SendFrameToBss(s, [f EXCEPT !.RA = f.DA, !.TA = n]) BY <1>3
<1> HIDE DEF g, r
<1>8. OneResult(n, s, r, f.id, f.SA, f.DA) BY <1>5, <1>6 DEF OneResult
<1> QED BY <1>7, <1>8

\* What is handed up is for this node.
LEMMA SentUp ==
  ASSUME NEW n, NEW s \in MpState, s.up = <<>>, NEW f \in MeshFrame, Rightful(n, f.DA)
  PROVE  OneResult(n, s, Data!SendFrameToUpperLayer(s, f), f.id, f.SA, f.DA)
<1>1. Adds(s, Data!SendFrameToUpperLayer(s, f), {}, {}, <<f.id>>) BY UpAdds
<1> QED BY <1>1 DEF OneResult

\* And what is dropped is gone.
LEMMA Dropped ==
  ASSUME NEW n, NEW s \in MpState, s.up = <<>>, NEW id, NEW src, NEW dst
  PROVE  OneResult(n, s, s, id, src, dst)
<1>1. Adds(s, s, {}, {}, <<>>) BY NothingAdded
<1> QED BY <1>1 DEF OneResult

\* A unicast of another mesh point.
LEMMA OneFromMesh ==
  ASSUME Data!DataAssumption, NEW n \in MPs, NEW s \in MpState, s.up = <<>>, NEW f \in MeshFrame,
         f.DA \in Data!Dests \ {AnyMac}, f.type = "mesh"
  PROVE  OneResult(n, s, Data!ReceiveDataUnicast(n, s, f), f.id, f.SA, f.DA)
<1> DEFINE r == Data!UnicastFromMesh(n, s, f)
           proxied == n \in Portals /\ f.DA \in DOMAIN ProxyOf
<1>0. Data!ReceiveDataUnicast(n, s, f) = r BY DEF Data!ReceiveDataUnicast
<1>1. CASE ~ Data!IsAssociatedNeighbor(n, f.TA)
  <2>1. r = s BY <1>1 DEF Data!UnicastFromMesh
  <2> QED BY <1>0, <2>1, Dropped
<1>2. CASE Data!IsAssociatedNeighbor(n, f.TA) /\ f.DA = n
  <2>1. r = Data!SendFrameToUpperLayer(s, f) BY <1>2 DEF Data!UnicastFromMesh
  <2>2. Rightful(n, f.DA) BY <1>2 DEF Rightful
  <2> QED BY <1>0, <2>1, <2>2, SentUp
<1>3. CASE Data!IsAssociatedNeighbor(n, f.TA) /\ f.DA # n /\ Data!IsSelfOrBssStationAddr(n, f.DA)
  <2>1. r = Data!SendFrameToBss(s, [f EXCEPT !.RA = f.DA, !.TA = n]) BY <1>3 DEF Data!UnicastFromMesh
  <2> QED BY <1>0, <2>1, SentToStation
<1>4. CASE Data!IsAssociatedNeighbor(n, f.TA) /\ f.DA # n /\ ~ Data!IsSelfOrBssStationAddr(n, f.DA)
  <2> DEFINE h == [f EXCEPT !.ttl = @ - 1]
  <2>1. r = IF proxied /\ ProxyOf[f.DA] = n THEN Data!SendFrameToUpperLayer(s, f)
            ELSE IF ~ proxied /\ f.ttl <= 1 THEN s
            ELSE Data!SendFrameToRoutingFunction(n, s, h)
    BY <1>4 DEF Data!UnicastFromMesh
  <2>2. h \in MeshFrame /\ h.id = f.id /\ h.SA = f.SA /\ h.DA = f.DA BY DEF MeshFrame
  <2> HIDE DEF h
  <2>3. OneResult(n, s, Data!SendFrameToRoutingFunction(n, s, h), f.id, f.SA, f.DA)
    BY <2>2, Routed
  <2>4. CASE proxied /\ ProxyOf[f.DA] = n
    <3>1. Rightful(n, f.DA) BY <2>4 DEF Rightful
    <3> QED BY <1>0, <2>1, <2>4, <3>1, SentUp
  <2>5. CASE ~ (proxied /\ ProxyOf[f.DA] = n) BY <1>0, <2>1, <2>3, <2>5, Dropped
  <2> QED BY <2>4, <2>5
<1> QED BY <1>1, <1>2, <1>3, <1>4

\* A packet of a station for one destination.
LEMMA OneFromStation ==
  ASSUME Data!DataAssumption, NEW n \in MPs, NEW s \in MpState, s.up = <<>>, NEW f \in MeshFrame,
         f.DA \in Data!Dests \ {AnyMac}, f.type = "data"
  PROVE  OneResult(n, s, Data!ReceiveDataUnicast(n, s, f), f.id, f.SA, f.DA)
<1> DEFINE r == Data!UnicastFromBss(n, s, f)
<1>0. Data!ReceiveDataUnicast(n, s, f) = r BY DEF Data!ReceiveDataUnicast
<1>1. CASE f.DA = n
  <2>1. r = Data!SendFrameToUpperLayer(s, f) BY <1>1 DEF Data!UnicastFromBss
  <2>2. Rightful(n, f.DA) BY <1>1 DEF Rightful
  <2> QED BY <1>0, <2>1, <2>2, SentUp
<1>2. CASE f.DA # n /\ f.DA \in stations[n]
  <2>1. r = Data!SendFrameToBss(s, [f EXCEPT !.RA = f.DA, !.TA = n]) BY <1>2 DEF Data!UnicastFromBss
  <2> QED BY <1>0, <2>1, SentToStation
<1>3. CASE f.DA # n /\ f.DA \notin stations[n]
  <2> DEFINE no == Data!NextSeqNo(s, f.DA)
             t == Data!Numbered(s, f.DA)
             g == [f EXCEPT !.TA = n, !.ttl = TtlMax, !.seq = no]
  <2>1. r = Data!LeaveBss(n, s, f) BY <1>3 DEF Data!UnicastFromBss
  <2>2. Adds(s, t, {}, {}, <<>>) /\ no \in Nat BY NumberAdds
  <2>3. t \in MpState /\ t.up = <<>> BY <2>2 DEF Adds
  <2>4. g \in MeshFrame /\ g.id = f.id /\ g.SA = f.SA /\ g.DA = f.DA
    <3> DEFINE d == [f EXCEPT !.TA = n]
               e == [d EXCEPT !.ttl = TtlMax]
    <3>0. TtlMax \in Nat BY DEF Data!DataAssumption
    <3>1. n \in Addrs /\ TtlMax \in Int BY <3>0 DEF Addrs, Data!Dests
    <3>2. d \in MeshFrame /\ d.id = f.id /\ d.SA = f.SA /\ d.DA = f.DA BY <3>1 DEF MeshFrame
    <3> HIDE DEF d, no
    <3>3. e \in MeshFrame /\ e.id = f.id /\ e.SA = f.SA /\ e.DA = f.DA BY <3>1, <3>2 DEF MeshFrame
    <3> HIDE DEF e
    <3>4. [e EXCEPT !.seq = no] \in MeshFrame /\ [e EXCEPT !.seq = no].id = f.id
          /\ [e EXCEPT !.seq = no].SA = f.SA /\ [e EXCEPT !.seq = no].DA = f.DA
      BY <2>2, <3>3 DEF MeshFrame
    <3>5. [e EXCEPT !.seq = no] = g BY DEF e, d
    <3> QED BY <3>4, <3>5
  <2>5. r = IF n \notin Portals \/ f.DA \notin DOMAIN ProxyOf
            THEN Data!SendFrameToRoutingFunction(n, t, g)
            ELSE IF ProxyOf[f.DA] = n THEN Data!SendFrameToUpperLayer(s, f)
            ELSE Data!SendDataFrameToMesh(t, [g EXCEPT !.RA = NextHop[n, ProxyOf[f.DA]]])
    BY <2>1 DEF Data!LeaveBss
  <2> HIDE DEF no, t, g
  <2>6. OneResult(n, s, Data!SendFrameToRoutingFunction(n, t, g), f.id, f.SA, f.DA)
    BY <2>2, <2>3, <2>4, Routed, NumberedFirst
  <2>7. CASE n \notin Portals \/ f.DA \notin DOMAIN ProxyOf BY <1>0, <2>5, <2>6, <2>7
  <2>8. CASE ~ (n \notin Portals \/ f.DA \notin DOMAIN ProxyOf) /\ ProxyOf[f.DA] = n
    <3>1. Rightful(n, f.DA) BY <2>8 DEF Rightful
    <3> QED BY <1>0, <2>5, <2>8, <3>1, SentUp
  <2>9. CASE ~ (n \notin Portals \/ f.DA \notin DOMAIN ProxyOf) /\ ProxyOf[f.DA] # n
    <3> DEFINE w == Data!SendDataFrameToMesh(t, [g EXCEPT !.RA = NextHop[n, ProxyOf[g.DA]]])
    <3>1. r = w BY <2>4, <2>5, <2>9
    <3>2. OneResult(n, t, w, g.id, g.SA, g.DA) BY <2>3, <2>4, <2>9, SentToProxy
    <3> HIDE DEF w
    <3>3. OneResult(n, s, w, f.id, f.SA, f.DA) BY <2>2, <2>4, <3>2, NumberedFirst
    <3> QED BY <1>0, <3>1, <3>3
  <2> QED BY <2>7, <2>8, <2>9
<1> QED BY <1>1, <1>2, <1>3

\* A node's own packet is a frame.
LEMMA OwnFrame ==
  ASSUME Data!DataAssumption, NEW n \in MPs, NEW dst \in Data!Dests, NEW seq \in Nat, NEW id \in Nat
  PROVE  LET f == Data!Frame("mesh", dst, n, dst, n, seq, TtlMax, id)
         IN  /\ f \in MeshFrame /\ f.RA = dst /\ f.TA = n /\ f.DA = dst /\ f.SA = n /\ f.id = id
             /\ f.ttl = TtlMax /\ f.seq = seq
<1>1. TtlMax \in Nat BY DEF Data!DataAssumption
<1>2. n \in Addrs /\ dst \in Addrs BY DEF Addrs, Data!Dests
<1> QED BY <1>1, <1>2 DEF Data!Frame, MeshFrame

\* A packet of the node itself for one destination.
LEMMA OneFromNetwork ==
  ASSUME Data!DataAssumption, NEW n \in MPs, NEW s \in MpState, s.up = <<>>, NEW id \in Nat,
         NEW dst \in Data!Dests \ {AnyMac}
  PROVE  OneResult(n, s, Data!ReceiveNetworkLayerPacket(n, s, dst, id), id, n, dst)
<1> DEFINE t == Data!Numbered(s, dst)
           f == Data!Frame("mesh", dst, n, dst, n, t.e2e[dst], TtlMax, id)
           r == Data!ReceiveNetworkLayerPacket(n, s, dst, id)
<1>1. Adds(s, t, {}, {}, <<>>) /\ t.e2e[dst] \in Nat BY NumberAdds
<1>2. t \in MpState /\ t.up = <<>> BY <1>1 DEF Adds
<1> HIDE DEF t
<1>3. f \in MeshFrame /\ f.RA = dst /\ f.TA = n /\ f.DA = dst /\ f.SA = n /\ f.id = id
  BY <1>1, OwnFrame
<1>4. CASE Data!IsSelfOrBssStationAddr(n, dst)
  <2> DEFINE h == [f EXCEPT !.RA = f.DA, !.TA = n]
  <2>1. r = Data!SendFrameToBss(t, f) BY <1>4 DEF t, Data!ReceiveNetworkLayerPacket
  <2> HIDE DEF f
  <2>2. h = f BY <1>3 DEF MeshFrame
  <2>3. OneResult(n, t, Data!SendFrameToBss(t, h), id, n, dst) BY <1>2, <1>3, SentToStation
  <2> HIDE DEF h, r
  <2>4. OneResult(n, t, r, id, n, dst) BY <2>1, <2>2, <2>3
  <2> QED BY <1>1, <2>4, NumberedFirst DEF r
<1>5. CASE ~ Data!IsSelfOrBssStationAddr(n, dst)
  <2>1. r = Data!LeaveNode(n, t, f) BY <1>5 DEF t, Data!ReceiveNetworkLayerPacket
  <2> DEFINE v == Data!SendDataFrameToMesh(t, [f EXCEPT !.RA = NextHop[n, ProxyOf[f.DA]]])
             w == Data!SendFrameToRoutingFunction(n, t, f)
  <2>2. r = IF n \in Portals /\ f.DA \in DOMAIN ProxyOf THEN v ELSE w BY <2>1 DEF Data!LeaveNode
  <2> HIDE DEF f
  <2>3. f.DA \in DOMAIN ProxyOf => OneResult(n, t, v, id, n, dst) BY <1>2, <1>3, SentToProxy
  <2>4. OneResult(n, t, w, id, n, dst) BY <1>2, <1>3, Routed
  <2> HIDE DEF v, w, r
  <2>5. OneResult(n, t, r, id, n, dst) BY <2>2, <2>3, <2>4
  <2> QED BY <1>1, <2>5, NumberedFirst DEF r
<1> QED BY <1>4, <1>5

\* A broadcast begins at n: a copy for the mesh is entered in the list of frames seen.
CastCopy(n, g, id, src, K) ==
  /\ g \in MeshFrame /\ g.id = id /\ g.SA = src /\ g.DA = AnyMac /\ g.RA = AnyMac
  /\ g.type = "mesh" => g.TA = n /\ g.ttl = TtlMax /\ Data!Key(g) \in K
CastResult(n, s, r, id, src) ==
  \E F, K, u :
    /\ Adds(s, r, F, K, u) /\ (u = <<>> \/ (u = <<id>> /\ n # src /\ (HandUp \/ n \in Portals)))
    /\ \A g \in F : CastCopy(n, g, id, src, K)
    /\ \A g, h \in F : g.type = h.type => g = h

\* The copies of a broadcast that begins.
LEMMA CastBegins ==
  ASSUME NEW n, NEW f \in MeshFrame, f.RA = AnyMac, f.DA = AnyMac, f.TA = n, f.ttl = TtlMax,
         NEW s \in MpState, NEW t \in MpState, NEW a \in BOOLEAN, NEW b \in BOOLEAN,
         Adds(s, t, {}, {}, t.up), t.up = <<>> \/ (t.up = <<f.id>> /\ n # f.SA /\ (HandUp \/ n \in Portals))
  PROVE  CastResult(n, s, Data!Both(t, f, a, b), f.id, f.SA)
<1> DEFINE r == Data!Both(t, f, a, b)
           F == CopiesOut(f, a, b)
           K == IF a THEN {Data!Key(f)} ELSE {}
<1>1. Adds(t, r, F, K, t.up) BY BothAdd
<1> HIDE DEF r
<1>2. \A g \in F : CastCopy(n, g, f.id, f.SA, K) BY FormsOfFrame DEF CopiesOut, CastCopy
<1>3. \A g, h \in F : g.type = h.type => g = h BY FormsOfFrame DEF CopiesOut
<1> HIDE DEF F, K
<1>4. Adds(s, r, {} \cup F, {} \cup K, t.up) BY <1>1, AddsMore
<1>5. {} \cup F = F /\ {} \cup K = K OBVIOUS
<1>6. Adds(s, r, F, K, t.up) BY <1>4, <1>5
<1>7. CastResult(n, s, r, f.id, f.SA) BY <1>2, <1>3, <1>6 DEF CastResult
<1> QED BY <1>7 DEF r

\* A broadcast of the node itself.
LEMMA CastFromNetwork ==
  ASSUME Data!DataAssumption, NEW n \in MPs, NEW s \in MpState, s.up = <<>>, NEW id \in Nat
  PROVE  CastResult(n, s, Data!ReceiveNetworkLayerPacket(n, s, AnyMac, id), id, n)
<1> DEFINE t == Data!Numbered(s, AnyMac)
           f == Data!Frame("mesh", AnyMac, n, AnyMac, n, t.e2e[AnyMac], TtlMax, id)
           a == Data!AssociatedNeighborCount(n) > 0
           b == n \in MAPs /\ stations[n] # {}
<1>0. AnyMac \in Data!Dests BY DEF Data!Dests
<1>1. Adds(s, t, {}, {}, <<>>) /\ t.e2e[AnyMac] \in Nat BY <1>0, NumberAdds
<1>2. t \in MpState /\ t.up = <<>> BY <1>1 DEF Adds
<1>3. f \in MeshFrame /\ f.RA = AnyMac /\ f.TA = n /\ f.DA = AnyMac /\ f.SA = n /\ f.id = id /\ f.ttl = TtlMax
  BY <1>0, <1>1, OwnFrame
<1>4. Data!ReceiveNetworkLayerPacket(n, s, AnyMac, id) = Data!Both(t, f, a, b)
  BY DEF Data!ReceiveNetworkLayerPacket
<1>5. a \in BOOLEAN /\ b \in BOOLEAN OBVIOUS
<1> HIDE DEF t, f, a, b
<1>6. CastResult(n, s, Data!Both(t, f, a, b), f.id, f.SA) BY <1>1, <1>2, <1>3, <1>5, CastBegins
<1> QED BY <1>3, <1>4, <1>6

\* A broadcast of a station of n.
LEMMA CastFromStation ==
  ASSUME Data!DataAssumption, NEW n \in MPs, NEW s \in MpState, s.up = <<>>, NEW f \in MeshFrame,
         f.DA = AnyMac, f.type = "data", f.SA # n
  PROVE  CastResult(n, s, Data!ReceiveDataUnicast(n, s, f), f.id, f.SA)
<1> DEFINE up == HandUp \/ n \in Portals
           t == IF up THEN Data!SendFrameToUpperLayer(s, f) ELSE s
           a == Data!AssociatedNeighborCount(n) > 0
           b == Data!Cardinality(stations[n]) > 1
           no == Data!NextSeqNo(s, AnyMac)
           g == [f EXCEPT !.RA = AnyMac, !.TA = n, !.ttl = TtlMax, !.seq = no]
           v == IF a THEN Data!Numbered(t, AnyMac) ELSE t
<1>0. AnyMac \in Data!Dests BY DEF Data!Dests
<1>1. Data!ReceiveDataUnicast(n, s, f) = Data!Both(v, g, a, b)
  <2>1. Data!ReceiveDataUnicast(n, s, f) = Data!BroadcastFromBss(n, s, f) BY DEF Data!ReceiveDataUnicast
  <2>2. Data!BroadcastFromBss(n, s, f) = Data!Both(v, g, a, b) BY Zenon DEF Data!BroadcastFromBss
  <2> QED BY <2>1, <2>2
<1>2. Adds(s, t, {}, {}, IF up THEN <<f.id>> ELSE <<>>) BY UpAdds, NothingAdded
<1>3. t \in MpState /\ t.up = (IF up THEN <<f.id>> ELSE <<>>) BY <1>2 DEF Adds
<1>4. a \in BOOLEAN /\ b \in BOOLEAN OBVIOUS
<1>5. no \in Nat BY <1>0, NumberAdds
<1>6. g \in MeshFrame /\ g.RA = AnyMac /\ g.DA = AnyMac /\ g.TA = n /\ g.ttl = TtlMax /\ g.id = f.id /\ g.SA = f.SA
  <2> DEFINE c == [f EXCEPT !.RA = AnyMac]
             d == [c EXCEPT !.TA = n]
             e == [d EXCEPT !.ttl = TtlMax]
             h == [e EXCEPT !.seq = no]
  <2>0. TtlMax \in Nat BY DEF Data!DataAssumption
  <2>1. n \in Addrs /\ AnyMac \in Addrs /\ TtlMax \in Int BY <1>0, <2>0 DEF Addrs, Data!Dests
  <2>2. c \in MeshFrame /\ c.id = f.id /\ c.SA = f.SA /\ c.DA = f.DA /\ c.RA = AnyMac BY <2>1 DEF MeshFrame
  <2> HIDE DEF c, no
  <2>3. d \in MeshFrame /\ d.id = f.id /\ d.SA = f.SA /\ d.DA = f.DA /\ d.RA = AnyMac /\ d.TA = n
    BY <2>1, <2>2 DEF MeshFrame
  <2> HIDE DEF d
  <2>4. e \in MeshFrame /\ e.id = f.id /\ e.SA = f.SA /\ e.DA = f.DA /\ e.RA = AnyMac /\ e.TA = n
        /\ e.ttl = TtlMax
    BY <2>1, <2>3 DEF MeshFrame
  <2> HIDE DEF e
  <2>5. h \in MeshFrame /\ h.id = f.id /\ h.SA = f.SA /\ h.DA = f.DA /\ h.RA = AnyMac /\ h.TA = n
        /\ h.ttl = TtlMax
    BY <1>5, <2>4 DEF MeshFrame
  <2>6. h = g BY DEF e, d, c
  <2> QED BY <2>5, <2>6
<1> HIDE DEF t, g, no, a, b
<1>7. Adds(t, v, {}, {}, t.up) BY <1>0, <1>3, NumberAdds, NothingAdded
<1>8. v \in MpState /\ v.up = t.up BY <1>7 DEF Adds
<1> HIDE DEF v
<1>9. Adds(s, v, {} \cup {}, {} \cup {}, v.up) BY <1>2, <1>3, <1>7, <1>8, AddsMore
<1>10. Adds(s, v, {}, {}, v.up) BY <1>9
<1>11. CastResult(n, s, Data!Both(v, g, a, b), g.id, g.SA)
  BY <1>3, <1>4, <1>6, <1>8, <1>10, CastBegins
<1> QED BY <1>1, <1>6, <1>11

-----------------------------------------------------------------------------
(* What a step leaves as it was. *)

\* No step forgets a frame that is still queued, a station or a packet.
KeepsAll ==
  /\ \A n, m \in MPs : \A f \in FramesOf(mp[n].queue) :
       Data!Key(f) \in mp[m].seen => Data!Key(f) \in mp'[m].seen
  /\ \A m \in MAPs : stations[m] \subseteq stations'[m]
  /\ roams' = 0 => roams = 0 /\ home' = home
  /\ Len(sent) \in Nat /\ Len(sent') \in Nat /\ Len(sent) <= Len(sent')
  /\ \A j \in 1 .. Len(sent) : sent'[j] = sent[j]

\* A step that is not about the packet j: its copies can only get fewer.
Kept(j) ==
  /\ \A n \in MPs : \A f \in FramesOf(mp'[n].queue) : f.id = j => f \in FramesOf(mp[n].queue)
  /\ \A x \in Data!Ends : dataGot'[x][j] = dataGot[x][j]

\* What is so of a packet for one destination stays so.
LEMMA OneStays ==
  ASSUME KeepsAll, NEW j \in 1 .. Len(sent), Kept(j), OneOK(j) PROVE OneOK(j)'
<1>1. sent'[j] = sent[j] BY DEF KeepsAll
<1>2. Data!For(j)' = Data!For(j) BY <1>1 DEF Data!For
<1>3. \A n, m \in MPs : \A f \in FramesOf(mp'[n].queue), g \in FramesOf(mp'[m].queue) :
        f.id = j /\ g.id = j => n = m /\ f.type = g.type /\ \A x \in Data!Ends : dataGot'[x][j] = 0
  BY DEF Kept, OneOK
<1>4. \A x \in Data!Ends : dataGot'[x][j] <= 1 /\ (dataGot'[x][j] > 0 => x \in Data!For(j)')
  BY <1>2 DEF Kept, OneOK
<1> QED BY <1>3, <1>4 DEF OneOK

\* Who takes no copy of a broadcast takes none when there are fewer.
LEMMA FinalStays ==
  ASSUME KeepsAll, MAPs \subseteq MPs, NEW j, \A n \in MPs : Copies(j, n)' \subseteq Copies(j, n), NEW n \in MPs, Final(j, n)
  PROVE  Final(j, n)'
<1> SUFFICES ASSUME NEW g \in MPs, NEW f \in Copies(j, g)'
             PROVE  \/ Data!Key(f) \in mp'[n].seen
                    \/ Data!IsSelfOrBssStationAddr(n, f.SA)'
                    \/ \A m \in MPs : <<n, m>> \in Links => Data!Key(f) \in mp'[m].seen /\ Copies(j, m)' = {}
  BY DEF Final
<1>1. f \in Copies(j, g) OBVIOUS
<1>2. f \in FramesOf(mp[g].queue) BY <1>1 DEF Copies
<1>3. \A m \in MPs : Data!Key(f) \in mp[m].seen => Data!Key(f) \in mp'[m].seen BY <1>2 DEF KeepsAll
<1>4. Data!IsSelfOrBssStationAddr(n, f.SA) => Data!IsSelfOrBssStationAddr(n, f.SA)'
  BY DEF KeepsAll, Data!IsSelfOrBssStationAddr
<1>5. \A m \in MPs : Copies(j, m) = {} => Copies(j, m)' = {} OBVIOUS
<1> QED BY <1>1, <1>3, <1>4, <1>5 DEF Final

\* And of a broadcast.
LEMMA CastStays ==
  ASSUME KeepsAll, NEW j \in 1 .. Len(sent), Kept(j), CastOK(j), home \in [Stations -> MAPs], MAPs \subseteq MPs
  PROVE  CastOK(j)'
<1>1. sent'[j] = sent[j] BY DEF KeepsAll
<1>2. Data!For(j)' = Data!For(j) BY <1>1 DEF Data!For
<1>3. \A n \in MPs : Copies(j, n)' \subseteq Copies(j, n) BY DEF Kept, Copies
<1>4. \A n \in MPs : ToBss(j, n)' => ToBss(j, n) BY DEF Kept, ToBss
<1>5. \A x \in Data!Ends : dataGot'[x][j] = dataGot[x][j] BY DEF Kept
<1>6. \A n, m \in MPs : \A f \in Copies(j, n)', g \in Copies(j, m)' : f.seq = g.seq
  BY <1>3 DEF CastOK
<1>7. \A n \in MPs : Final(j, n) => Final(j, n)' BY <1>3, FinalStays
<1>8. \A n \in MPs : \/ dataGot'[n][j] > 0
                     \/ ToBss(j, n)'
                     \/ roams' = 0 /\ \E s \in Stations : home'[s] = n /\ dataGot'[s][j] > 0
                     => Final(j, n)'
  <2> SUFFICES ASSUME NEW n \in MPs,
                      \/ dataGot'[n][j] > 0
                      \/ ToBss(j, n)'
                      \/ roams' = 0 /\ \E s \in Stations : home'[s] = n /\ dataGot'[s][j] > 0
               PROVE  Final(j, n)'
    OBVIOUS
  <2>1. \/ dataGot[n][j] > 0
        \/ ToBss(j, n)
        \/ roams = 0 /\ \E s \in Stations : home[s] = n /\ dataGot[s][j] > 0
    BY <1>4, <1>5 DEF KeepsAll, Data!Ends
  <2>2. Final(j, n) BY <2>1 DEF CastOK
  <2> QED BY <1>7, <2>2
<1>9. roams' = 0 => \A s \in Stations : dataGot'[s][j] <= 1 /\ (ToBss(j, home[s])' => dataGot'[s][j] = 0)
  <2> SUFFICES ASSUME roams' = 0, NEW s \in Stations
               PROVE  dataGot'[s][j] <= 1 /\ (ToBss(j, home[s])' => dataGot'[s][j] = 0)
    OBVIOUS
  <2>1. roams = 0 /\ home' = home BY DEF KeepsAll
  <2>2. home[s] \in MPs /\ s \in Data!Ends BY DEF Data!Ends
  <2>3. dataGot[s][j] <= 1 /\ (ToBss(j, home[s]) => dataGot[s][j] = 0) BY <2>1 DEF CastOK
  <2>4. home'[s] = home[s] BY <2>1
  <2>5. ToBss(j, home[s])' => ToBss(j, home[s]) BY <2>2, <2>4 DEF Kept, ToBss
  <2> QED BY <1>5, <2>2, <2>3, <2>5
<1>10. \A n \in MPs : dataGot'[n][j] <= 1 BY <1>5 DEF CastOK, Data!Ends
<1>11. \A x \in Data!Ends : dataGot'[x][j] > 0 => x \in Data!For(j)' \cup Stations \cup Portals
  BY <1>2, <1>5 DEF CastOK
<1> QED BY <1>6, <1>8, <1>9, <1>10, <1>11 DEF CastOK

\* And of a frame: those who know it stay as many.
LEMMA FrameStays ==
  ASSUME KeepsAll, IsFiniteSet(MPs), TtlMax \in Nat,
         NEW n \in MPs, NEW f \in MeshFrame, f \in FramesOf(mp[n].queue), FrameOK(n, f)
  PROVE  FrameOK(n, f)'
<1> DEFINE A == {m \in MPs : Data!Key(f) \in mp[m].seen}
           B == {m \in MPs : Data!Key(f) \in mp'[m].seen}
<1>1. A \subseteq B BY DEF KeepsAll
<1>2. IsFiniteSet(B) /\ Cardinality(B) \in Nat
  <2>1. B \subseteq MPs OBVIOUS
  <2> QED BY <2>1, FS_Subset, FS_CardinalityType
<1>3. Cardinality(A) \in Nat /\ Cardinality(A) <= Cardinality(B)
  <2> HIDE DEF A, B
  <2> QED BY <1>1, <1>2, FS_Subset, FS_CardinalityType
<1>4. Lively(f) => Lively(f)'
  <2>1. f.ttl \in Int BY DEF MeshFrame
  <2>2. Lively(f) <=> f.ttl + Cardinality(A) > TtlMax BY DEF Lively
  <2>3. Lively(f)' <=> f.ttl + Cardinality(B) > TtlMax BY DEF Lively
  <2> HIDE DEF A, B
  <2> QED BY <1>2, <1>3, <2>1, <2>2, <2>3
<1>5. f.id \in 1 .. Len(sent) /\ f.SA = sent[f.id][1] /\ f.DA = sent[f.id][2]
      /\ (f.type = "data" => f.RA = f.DA)
      /\ (f.type = "mesh" /\ f.DA # AnyMac => f.RA # AnyMac)
      /\ (f.type = "mesh" /\ f.DA = AnyMac =>
            f.RA = AnyMac /\ f.TA = n /\ Data!Key(f) \in mp[n].seen /\ Lively(f))
  BY DEF FrameOK
<1>6. f.id \in 1 .. Len(sent') /\ sent'[f.id] = sent[f.id] BY <1>5 DEF KeepsAll
<1>7. Data!Key(f) \in mp[n].seen => Data!Key(f) \in mp'[n].seen BY DEF KeepsAll
<1> QED BY <1>4, <1>5, <1>6, <1>7 DEF FrameOK

\* What is to be shown of a step: its frames are right, and the packets it is about.
LEMMA StepStays ==
  ASSUME DataInv, DataTypes', KeepsAll, IsFiniteSet(MPs), TtlMax \in Nat, MAPs \subseteq MPs,
         \A n \in MPs : EachOnce(mp'[n].queue),
         \A n \in MPs : \A f \in FramesOf(mp'[n].queue) : f \in FramesOf(mp[n].queue) \/ FrameOK(n, f)',
         \A j \in 1 .. Len(sent) : Kept(j) \/ PacketOK(j)',
         \A j \in 1 .. Len(sent') : j \in 1 .. Len(sent) \/ PacketOK(j)',
         \A j \in Data!Ids \ (1 .. Len(sent')) : \A x \in Data!Ends : dataGot'[x][j] = 0
  PROVE  DataInv'
<1>1. ASSUME NEW n \in MPs, NEW f \in FramesOf(mp'[n].queue) PROVE FrameOK(n, f)'
  <2>1. CASE f \in FramesOf(mp[n].queue)
    <3>1. f \in MeshFrame BY <2>1 DEF DataInv, DataTypes, MpState, FramesOf
    <3>2. FrameOK(n, f) BY <2>1 DEF DataInv
    <3> QED BY <2>1, <3>1, <3>2, FrameStays
  <2> QED BY <2>1
<1>2. ASSUME NEW j \in 1 .. Len(sent') PROVE PacketOK(j)'
  <2>1. CASE j \in 1 .. Len(sent) /\ Kept(j)
    <3>1. PacketOK(j) BY <2>1 DEF DataInv
    <3>2. home \in [Stations -> MAPs] BY DEF DataInv, DataTypes
    <3>3. sent'[j] = sent[j] BY <2>1 DEF KeepsAll
    <3>4. CASE sent[j][2] = AnyMac
      <4>1. CastOK(j)' BY <2>1, <3>1, <3>2, <3>4, CastStays DEF PacketOK
      <4> QED BY <3>3, <3>4, <4>1 DEF PacketOK
    <3>5. CASE sent[j][2] # AnyMac
      <4>1. OneOK(j)' BY <2>1, <3>1, <3>5, OneStays DEF PacketOK
      <4> QED BY <3>3, <3>5, <4>1 DEF PacketOK
    <3> QED BY <3>4, <3>5
  <2> QED BY <2>1
<1> QED BY <1>1, <1>2 DEF DataInv

\* How often a packet is handed up by one handler.
LEMMA CountOnce ==
  /\ \A j : Data!Count(<<>>, j) = 0
  /\ \A i, j : Data!Count(<<i>>, j) = IF i = j THEN 1 ELSE 0
<1>1. ASSUME NEW j PROVE Data!Count(<<>>, j) = 0
  <2>1. {k \in DOMAIN <<>> : <<>>[k] = j} = {} OBVIOUS
  <2> QED BY <2>1, DataCounts, FS_EmptySet DEF Data!Count
<1>2. ASSUME NEW i, NEW j PROVE Data!Count(<<i>>, j) = IF i = j THEN 1 ELSE 0
  <2>1. CASE i = j
    <3>1. {k \in DOMAIN <<i>> : <<i>>[k] = j} = {1} BY <2>1
    <3>2. Cardinality({1}) = 1 BY FS_Singleton
    <3> QED BY <2>1, <3>1, <3>2, DataCounts DEF Data!Count
  <2>2. CASE i # j
    <3>1. {k \in DOMAIN <<i>> : <<i>>[k] = j} = {} BY <2>2
    <3> QED BY <2>2, <3>1, DataCounts, FS_EmptySet DEF Data!Count
  <2> QED BY <2>1, <2>2
<1> QED BY <1>1, <1>2

\* Who is handed the packet i in a step.
Hands(new, hs, x, i) ==
  IF x \in MPs THEN new[x].up = <<i>> ELSE \E h \in hs : h[1] = x /\ h[2] = i

\* The mesh points after their handlers.
LEMMA BecomeNew ==
  ASSUME DataTypes, NEW new \in [MPs -> MpState], NEW hs, NEW i \in Data!Ids,
         \A n \in MPs : new[n].up = <<>> \/ new[n].up = <<i>>,
         \A h \in hs : h[2] = i, Data!Become(new, hs)
  PROVE  /\ mp' \in [MPs -> MpState]
         /\ \A n \in MPs : mp'[n].up = <<>> /\ mp'[n].queue = new[n].queue /\ mp'[n].seen = new[n].seen
         /\ dataGot' \in [Data!Ends -> [Data!Ids -> Nat]]
         /\ \A x \in Data!Ends, j \in Data!Ids :
              dataGot'[x][j] = IF j = i /\ Hands(new, hs, x, i) THEN dataGot[x][j] + 1 ELSE dataGot[x][j]
<1>1. mp' = [n \in MPs |-> [new[n] EXCEPT !.up = <<>>]] BY DEF Data!Become
<1>2. ASSUME NEW n \in MPs
      PROVE  /\ mp'[n] \in MpState /\ mp'[n].up = <<>> /\ mp'[n].queue = new[n].queue
             /\ mp'[n].seen = new[n].seen
  <2> DEFINE s == new[n]
  <2>1. s \in MpState /\ mp'[n] = [s EXCEPT !.up = <<>>] BY <1>1
  <2>2. <<>> \in Seq(Nat) OBVIOUS
  <2> HIDE DEF s
  <2>3. [s EXCEPT !.up = <<>>] \in MpState BY <2>1, <2>2 DEF MpState
  <2>4. [s EXCEPT !.up = <<>>].up = <<>> /\ [s EXCEPT !.up = <<>>].queue = s.queue
        /\ [s EXCEPT !.up = <<>>].seen = s.seen
    BY <2>1 DEF MpState
  <2> QED BY <2>1, <2>3, <2>4 DEF s
<1>3. mp' \in [MPs -> MpState] BY <1>1, <1>2
<1> DEFINE More(x, j) == IF x \in MPs THEN Data!Count(new[x].up, j)
                         ELSE IF \E h \in hs : h[1] = x /\ h[2] = j THEN 1 ELSE 0
<1>4. dataGot' = [x \in Data!Ends |-> [j \in Data!Ids |-> dataGot[x][j] + More(x, j)]]
  BY Zenon DEF Data!Become
<1>5. ASSUME NEW x \in Data!Ends, NEW j \in Data!Ids
      PROVE  More(x, j) = IF j = i /\ Hands(new, hs, x, i) THEN 1 ELSE 0
  <2>1. CASE x \in MPs
    <3>1. CASE new[x].up = <<>>
      <4>1. ~ Hands(new, hs, x, i) BY <2>1, <3>1 DEF Hands
      <4> QED BY <2>1, <3>1, <4>1, CountOnce
    <3>2. CASE new[x].up = <<i>>
      <4>1. Hands(new, hs, x, i) BY <2>1, <3>2 DEF Hands
      <4> QED BY <2>1, <3>2, <4>1, CountOnce
    <3> QED BY <2>1, <3>1, <3>2
  <2>2. CASE x \notin MPs BY <2>2 DEF Hands
  <2> QED BY <2>1, <2>2
<1> HIDE DEF More
<1>6. \A x \in Data!Ends, j \in Data!Ids : dataGot[x][j] \in Nat /\ More(x, j) \in Nat
  BY <1>5 DEF DataTypes
<1>7. dataGot' \in [Data!Ends -> [Data!Ids -> Nat]] BY <1>4, <1>6
<1>8. \A x \in Data!Ends, j \in Data!Ids : dataGot'[x][j] = dataGot[x][j] + More(x, j) BY <1>4
<1>9. ASSUME NEW x \in Data!Ends, NEW j \in Data!Ids
      PROVE  dataGot'[x][j] = IF j = i /\ Hands(new, hs, x, i) THEN dataGot[x][j] + 1 ELSE dataGot[x][j]
  <2>1. dataGot'[x][j] = dataGot[x][j] + More(x, j) /\ dataGot[x][j] \in Nat BY <1>6, <1>8
  <2> QED BY <1>5, <2>1
<1> QED BY <1>2, <1>3, <1>7, <1>9

\* Frames that are lost and stations that move change nothing else.
LEMMA LossStays ==
  ASSUME Data!DataAssumption, DataInv, DataTypes', dataGot' = dataGot, sent' = sent,
         \A n \in MPs : EachOnce(mp'[n].queue) /\ FramesOf(mp'[n].queue) \subseteq FramesOf(mp[n].queue),
         \A n, m \in MPs : \A f \in FramesOf(mp[n].queue) :
           Data!Key(f) \in mp[m].seen => Data!Key(f) \in mp'[m].seen,
         \A m \in MAPs : stations[m] \subseteq stations'[m],
         roams' = 0 => roams = 0 /\ home' = home
  PROVE  DataInv'
<1>1. Len(sent) \in Nat BY DEF DataInv, DataTypes
<1>2. KeepsAll BY <1>1 DEF KeepsAll
<1>3. \A j \in 1 .. Len(sent) : Kept(j) BY DEF Kept
<1>4. IsFiniteSet(MPs) /\ TtlMax \in Nat /\ MAPs \subseteq MPs BY DataCounts DEF Data!DataAssumption
<1>5. \A j \in Data!Ids \ (1 .. Len(sent')) : \A x \in Data!Ends : dataGot'[x][j] = 0 BY DEF DataInv
<1> QED BY <1>2, <1>3, <1>4, <1>5, StepStays

\* The queue of one mesh point is another.
LEMMA QueueIsNow ==
  ASSUME mp \in [MPs -> MpState], NEW n \in MPs, NEW q \in Seq(MeshFrame)
  PROVE  LET b == [mp EXCEPT ![n].queue = q]
         IN  /\ b \in [MPs -> MpState]
             /\ \A m \in MPs : /\ b[m].queue = (IF m = n THEN q ELSE mp[m].queue)
                               /\ b[m].seen = mp[m].seen /\ b[m].up = mp[m].up
<1> DEFINE s == [mp[n] EXCEPT !.queue = q]
           b == [mp EXCEPT ![n] = s]
<1>1. s \in MpState /\ s.queue = q /\ s.seen = mp[n].seen /\ s.up = mp[n].up BY DEF MpState
<1>2. b = [mp EXCEPT ![n].queue = q] OBVIOUS
<1> HIDE DEF s
<1>3. b \in [MPs -> MpState] /\ \A m \in MPs : b[m] = IF m = n THEN s ELSE mp[m] BY <1>1
<1> HIDE DEF b
<1>4. \A m \in MPs : /\ b[m].queue = (IF m = n THEN q ELSE mp[m].queue)
                     /\ b[m].seen = mp[m].seen /\ b[m].up = mp[m].up
  BY <1>1, <1>3
<1> QED BY <1>2, <1>3, <1>4

\* Some frames of a queue are dropped.
LEMMA FewerStay ==
  ASSUME Data!DataAssumption, DataInv, NEW n \in MPs, NEW q \in Seq(MeshFrame), EachOnce(q),
         FramesOf(q) \subseteq FramesOf(mp[n].queue), mp' = [mp EXCEPT ![n].queue = q],
         UNCHANGED <<stations, home, dataGot, sent, roams>>
  PROVE  DataInv'
<1>1. mp \in [MPs -> MpState] BY DEF DataInv, DataTypes
<1>2. /\ mp' \in [MPs -> MpState]
      /\ \A m \in MPs : /\ mp'[m].queue = (IF m = n THEN q ELSE mp[m].queue)
                        /\ mp'[m].seen = mp[m].seen /\ mp'[m].up = mp[m].up
  BY <1>1, QueueIsNow
<1>3. DataTypes' BY <1>2 DEF DataInv, DataTypes, Data!Ends, Data!Ids, Data!Dests
<1>4. \A m \in MPs : EachOnce(mp'[m].queue) /\ FramesOf(mp'[m].queue) \subseteq FramesOf(mp[m].queue)
  BY <1>2 DEF DataInv
<1> QED BY <1>2, <1>3, <1>4, LossStays

\* The oldest frame of a queue is dropped.
LEMMA AgeQueueStays ==
  ASSUME Data!DataAssumption, DataInv, NEW n \in MPs, Data!AgeQueue(n) PROVE DataInv'
<1>1. mp \in [MPs -> MpState] /\ mp[n].queue # <<>> /\ mp' = [mp EXCEPT ![n].queue = Tail(mp[n].queue)]
      /\ UNCHANGED <<stations, home, dataGot, sent, roams>>
  BY DEF Data!AgeQueue, DataInv, DataTypes
<1>2. EachOnce(mp[n].queue) /\ mp[n].queue \in Seq(MeshFrame) BY <1>1 DEF DataInv, MpState
<1>3. Tail(mp[n].queue) \in Seq(MeshFrame) /\ EachOnce(Tail(mp[n].queue))
      /\ FramesOf(Tail(mp[n].queue)) \subseteq FramesOf(mp[n].queue)
  BY <1>1, <1>2, HeadLeaves
<1> QED BY <1>1, <1>3, FewerStay

\* The frames to one node are dropped.
LEMMA DeleteStays ==
  ASSUME Data!DataAssumption, DataInv, NEW n \in MPs, NEW hop, NEW dst,
         Data!DeletePacketsToNode(n, hop, dst)
  PROVE  DataInv'
<1>1. mp \in [MPs -> MpState] /\ EachOnce(mp[n].queue) BY DEF DataInv, DataTypes
<1>2. PICK p \in Seq(MeshFrame) : p = mp[n].queue BY <1>1 DEF MpState
<1> DEFINE q == Data!Without(p, hop, dst)
<1>3. mp' = [mp EXCEPT ![n].queue = q] /\ UNCHANGED <<stations, home, dataGot, sent, roams>>
  BY <1>2 DEF Data!DeletePacketsToNode
<1>4. EachOnce(p) BY <1>1, <1>2
<1>5. q \in Seq(MeshFrame) /\ EachOnce(q) /\ FramesOf(q) \subseteq FramesOf(p)
  BY <1>4, RestKept
<1> HIDE DEF q
<1> QED BY <1>1, <1>2, <1>3, <1>5, FewerStay

\* A frame that nobody has queued any more is forgotten.
LEMMA AgeSeenStays ==
  ASSUME Data!DataAssumption, DataInv, NEW n \in MPs, Data!AgeSeen(n) PROVE DataInv'
<1>1. PICK key \in mp[n].seen :
        /\ \A m \in MPs : \A k \in DOMAIN mp[m].queue : Data!Key(mp[m].queue[k]) # key
        /\ mp' = [mp EXCEPT ![n].seen = @ \ {key}]
        /\ UNCHANGED <<stations, home, dataGot, sent, roams>>
  BY DEF Data!AgeSeen
<1>2. mp \in [MPs -> MpState] BY DEF DataInv, DataTypes
<1> DEFINE s == [mp[n] EXCEPT !.seen = mp[n].seen \ {key}]
<1>3. s \in MpState /\ s.queue = mp[n].queue /\ s.seen = mp[n].seen \ {key} /\ s.up = mp[n].up
  BY <1>2 DEF MpState
<1>4. mp' = [mp EXCEPT ![n] = s] BY <1>1
<1> HIDE DEF s
<1>5. mp' \in [MPs -> MpState] /\ \A m \in MPs : mp'[m] = IF m = n THEN s ELSE mp[m] BY <1>2, <1>3, <1>4
<1>6. \A m \in MPs : mp'[m].queue = mp[m].queue /\ mp'[m].up = mp[m].up
                     /\ \A x \in mp[m].seen : x # key => x \in mp'[m].seen
  BY <1>3, <1>5
<1>7. DataTypes' BY <1>1, <1>5, <1>6 DEF DataInv, DataTypes, Data!Ends, Data!Ids, Data!Dests
<1>8. \A m \in MPs : EachOnce(mp'[m].queue) /\ FramesOf(mp'[m].queue) \subseteq FramesOf(mp[m].queue)
  BY <1>6 DEF DataInv
<1>9. ASSUME NEW m \in MPs, NEW f \in FramesOf(mp[m].queue) PROVE Data!Key(f) # key
  <2>1. PICK k \in 1 .. Len(mp[m].queue) : f = mp[m].queue[k] BY DEF FramesOf
  <2>2. mp[m].queue \in Seq(MeshFrame) BY <1>2 DEF MpState
  <2>3. k \in DOMAIN mp[m].queue BY <2>1, <2>2
  <2> QED BY <1>1, <2>1, <2>3
<1>10. \A g, m \in MPs : \A f \in FramesOf(mp[g].queue) :
         Data!Key(f) \in mp[m].seen => Data!Key(f) \in mp'[m].seen
  BY <1>6, <1>9
<1> QED BY <1>1, <1>7, <1>8, <1>10, LossStays

\* A station moves.
LEMMA AssociateStays ==
  ASSUME Data!DataAssumption, DataInv, NEW s \in Stations, NEW m \in MAPs, Data!StationAssociateEvent(s, m)
  PROVE  DataInv'
<1>1. /\ home' = [home EXCEPT ![s] = m] /\ stations' = [stations EXCEPT ![m] = @ \cup {s}]
      /\ roams' = roams + 1 /\ UNCHANGED <<mp, dataGot, sent>>
  BY DEF Data!StationAssociateEvent
<1>2. /\ stations \in [MAPs -> SUBSET Stations] /\ home \in [Stations -> MAPs] /\ roams \in Nat
      /\ \A t \in Stations : t \in stations[home[t]]
  BY DEF DataInv, DataTypes
<1>3. stations' \in [MAPs -> SUBSET Stations] /\ \A n \in MAPs : stations[n] \subseteq stations'[n]
      /\ s \in stations'[m]
  BY <1>1, <1>2
<1>4. home' \in [Stations -> MAPs] /\ roams' \in Nat /\ roams' # 0 BY <1>1, <1>2
<1>5. \A t \in Stations : t \in stations'[home'[t]]
  <2> SUFFICES ASSUME NEW t \in Stations PROVE t \in stations'[home'[t]] OBVIOUS
  <2>1. CASE t = s
    <3>1. home'[t] = m BY <1>1, <1>2, <2>1
    <3> QED BY <1>3, <2>1, <3>1
  <2>2. CASE t # s
    <3>1. home'[t] = home[t] /\ home[t] \in MAPs BY <1>1, <1>2, <2>2
    <3> QED BY <1>2, <1>3, <3>1
  <2> QED BY <2>1, <2>2
<1>6. DataTypes' BY <1>1, <1>3, <1>4, <1>5 DEF DataInv, DataTypes, Data!Ends, Data!Ids, Data!Dests
<1>7. \A n \in MPs : EachOnce(mp'[n].queue) /\ FramesOf(mp'[n].queue) \subseteq FramesOf(mp[n].queue)
  BY <1>1 DEF DataInv
<1> QED BY <1>1, <1>3, <1>4, <1>6, <1>7, LossStays

-----------------------------------------------------------------------------
(* A step that is about one packet. *)

\* The mesh points before their handlers: the sender's frame is gone.
Base(b) ==
  /\ b \in [MPs -> MpState]
  /\ \A m \in MPs : /\ b[m].seen = mp[m].seen /\ b[m].up = <<>> /\ EachOnce(b[m].queue)
                    /\ FramesOf(b[m].queue) \subseteq FramesOf(mp[m].queue)

\* The packet i is one of those sent, or the next.
SentIs(i, src, dst) ==
  \/ sent' = sent /\ i \in 1 .. Len(sent) /\ sent[i] = <<src, dst>>
  \/ sent' = Append(sent, <<src, dst>>) /\ i = Len(sent) + 1 /\ Len(sent) < MaxSends

\* The packets after a step.
LEMMA SentNow ==
  ASSUME DataInv, MaxSends \in Nat, NEW src \in Data!Ends, NEW dst \in Data!Dests, NEW i, SentIs(i, src, dst)
  PROVE  /\ sent' \in Seq(Data!Ends \X Data!Dests) /\ Len(sent') <= MaxSends
         /\ Len(sent) \in Nat /\ Len(sent') \in Nat /\ Len(sent) <= Len(sent')
         /\ i \in Nat /\ i \in 1 .. Len(sent') /\ i \in Data!Ids /\ sent'[i] = <<src, dst>>
         /\ \A j \in 1 .. Len(sent) : sent'[j] = sent[j]
         /\ \A j \in 1 .. Len(sent') : j \in 1 .. Len(sent) \/ j = i
<1>1. sent \in Seq(Data!Ends \X Data!Dests) /\ Len(sent) <= MaxSends BY DEF DataInv, DataTypes
<1>2. Len(sent) \in Nat BY <1>1
<1>3. CASE sent' = sent /\ i \in 1 .. Len(sent) /\ sent[i] = <<src, dst>>
  BY <1>1, <1>2, <1>3 DEF Data!Ids
<1>4. CASE sent' = Append(sent, <<src, dst>>) /\ i = Len(sent) + 1 /\ Len(sent) < MaxSends
  <2>1. <<src, dst>> \in Data!Ends \X Data!Dests OBVIOUS
  <2> DEFINE S == Data!Ends \X Data!Dests
             p == <<src, dst>>
  <2>2. p \in S OBVIOUS
  <2> HIDE DEF S, p
  <2>3. Append(sent, p) \in Seq(S) /\ Len(Append(sent, p)) = Len(sent) + 1
        /\ Append(sent, p)[Len(sent) + 1] = p /\ \A j \in 1 .. Len(sent) : Append(sent, p)[j] = sent[j]
    BY <1>1, <1>2, <2>2 DEF S
  <2>4. sent' = Append(sent, p) BY <1>4 DEF p
  <2>5. sent' \in Seq(S) /\ Len(sent') = Len(sent) + 1 /\ sent'[i] = p
        /\ \A j \in 1 .. Len(sent) : sent'[j] = sent[j]
    BY <1>4, <2>3, <2>4
  <2>6. i \in Nat /\ i \in 1 .. Len(sent') /\ i \in 1 .. MaxSends /\ Len(sent') <= MaxSends
        /\ Len(sent') \in Nat /\ Len(sent) <= Len(sent')
        /\ \A j \in 1 .. Len(sent') : j \in 1 .. Len(sent) \/ j = i
    BY <1>2, <1>4, <2>5
  <2> QED BY <1>2, <2>5, <2>6 DEF S, p, Data!Ids
<1> QED BY <1>3, <1>4 DEF SentIs

\* The handlers add the frames G[m] of the packet i at each mesh point m.
About(b, new, hs, G, i, src, dst) ==
  /\ Base(b) /\ src \in Data!Ends /\ dst \in Data!Dests /\ SentIs(i, src, dst)
  /\ \A m \in MPs : \E K, u : Adds(b[m], new[m], G[m], K, u) /\ (u = <<>> \/ u = <<i>>)
  /\ \A m \in MPs : \A g \in G[m] : g.id = i /\ \A f \in FramesOf(b[m].queue) : Differ(f, g)
  /\ new \in [MPs -> MpState] /\ \A h \in hs : h[2] = i
  /\ Data!Become(new, hs) /\ UNCHANGED <<stations, home, roams>>

\* What comes of it.
Outcome(b, new, hs, G, i) ==
  /\ DataTypes' /\ KeepsAll /\ \A j \in Data!Ids : j # i => Kept(j)
  /\ \A m \in MPs : /\ EachOnce(mp'[m].queue)
                    /\ FramesOf(mp'[m].queue) = FramesOf(b[m].queue) \cup G[m]
                    /\ mp'[m].seen = new[m].seen /\ mp[m].seen \subseteq mp'[m].seen
  /\ \A x \in Data!Ends :
       dataGot'[x][i] = IF Hands(new, hs, x, i) THEN dataGot[x][i] + 1 ELSE dataGot[x][i]
  /\ \A j \in Data!Ids \ (1 .. Len(sent')) : \A x \in Data!Ends : dataGot'[x][j] = 0

\* It does.
LEMMA AboutOne ==
  ASSUME Data!DataAssumption, DataInv, NEW b, NEW new, NEW hs, NEW G, NEW i, NEW src, NEW dst,
         About(b, new, hs, G, i, src, dst)
  PROVE  Outcome(b, new, hs, G, i)
<1>1. src \in Data!Ends /\ dst \in Data!Dests /\ SentIs(i, src, dst) /\ Base(b) BY DEF About
<1>2. MaxSends \in Nat BY DEF Data!DataAssumption
<1>3. /\ sent' \in Seq(Data!Ends \X Data!Dests) /\ Len(sent') <= MaxSends
      /\ Len(sent) \in Nat /\ Len(sent') \in Nat /\ Len(sent) <= Len(sent')
      /\ i \in Nat /\ i \in 1 .. Len(sent') /\ i \in Data!Ids
      /\ \A j \in 1 .. Len(sent) : sent'[j] = sent[j]
  BY <1>1, <1>2, SentNow
<1>4. DataTypes BY DEF DataInv
<1>5. new \in [MPs -> MpState] /\ (\A h \in hs : h[2] = i) /\ Data!Become(new, hs)
      /\ UNCHANGED <<stations, home, roams>>
  BY DEF About
<1>6. \A m \in MPs : /\ new[m].up = <<>> \/ new[m].up = <<i>>
                     /\ FramesOf(new[m].queue) = FramesOf(b[m].queue) \cup G[m]
                     /\ mp[m].seen \subseteq new[m].seen
                     /\ EachOnce(new[m].queue)
  <2> SUFFICES ASSUME NEW m \in MPs
               PROVE  /\ new[m].up = <<>> \/ new[m].up = <<i>>
                      /\ FramesOf(new[m].queue) = FramesOf(b[m].queue) \cup G[m]
                      /\ mp[m].seen \subseteq new[m].seen
                      /\ EachOnce(new[m].queue)
    OBVIOUS
  <2>1. PICK K, u : Adds(b[m], new[m], G[m], K, u) /\ (u = <<>> \/ u = <<i>>) BY DEF About
  <2>2. \A g \in FramesOf(b[m].queue), h \in G[m] : Differ(g, h) BY DEF About
  <2>3. EachOnce(b[m].queue) /\ b[m].seen = mp[m].seen BY <1>1 DEF Base
  <2> QED BY <2>1, <2>2, <2>3 DEF Adds
<1>7. /\ mp' \in [MPs -> MpState]
      /\ \A n \in MPs : mp'[n].up = <<>> /\ mp'[n].queue = new[n].queue /\ mp'[n].seen = new[n].seen
      /\ dataGot' \in [Data!Ends -> [Data!Ids -> Nat]]
      /\ \A x \in Data!Ends, j \in Data!Ids :
           dataGot'[x][j] = IF j = i /\ Hands(new, hs, x, i) THEN dataGot[x][j] + 1 ELSE dataGot[x][j]
  <2>1. i \in Data!Ids BY <1>3
  <2>2. \A n \in MPs : new[n].up = <<>> \/ new[n].up = <<i>> BY <1>6
  <2>3. \A h \in hs : h[2] = i BY <1>5
  <2>4. new \in [MPs -> MpState] /\ Data!Become(new, hs) BY <1>5
  <2> QED BY <1>4, <2>1, <2>2, <2>3, <2>4, BecomeNew
<1>8. DataTypes'
  BY <1>3, <1>4, <1>5, <1>7 DEF DataTypes, Data!Ends, Data!Ids, Data!Dests
<1>9. KeepsAll BY <1>3, <1>5, <1>6, <1>7 DEF KeepsAll
<1>10. ASSUME NEW j \in Data!Ids, j # i PROVE Kept(j)
  <2>1. \A n \in MPs : \A f \in FramesOf(mp'[n].queue) : f.id = j => f \in FramesOf(mp[n].queue)
    <3> SUFFICES ASSUME NEW n \in MPs, NEW f \in FramesOf(mp'[n].queue), f.id = j
                 PROVE  f \in FramesOf(mp[n].queue)
      OBVIOUS
    <3>1. f \in FramesOf(b[n].queue) \cup G[n] BY <1>6, <1>7
    <3>2. f \notin G[n] BY <1>10 DEF About
    <3> QED BY <1>1, <3>1, <3>2 DEF Base
  <2>2. \A x \in Data!Ends : dataGot'[x][j] = dataGot[x][j] BY <1>7, <1>10
  <2> QED BY <2>1, <2>2 DEF Kept
<1>11. ASSUME NEW j \in Data!Ids \ (1 .. Len(sent')), NEW x \in Data!Ends PROVE dataGot'[x][j] = 0
  <2>1. j # i /\ j \notin 1 .. Len(sent) BY <1>3
  <2>2. dataGot[x][j] = 0 BY <2>1 DEF DataInv
  <2> QED BY <1>7, <2>1, <2>2
<1>12. \A m \in MPs : /\ EachOnce(mp'[m].queue)
                      /\ FramesOf(mp'[m].queue) = FramesOf(b[m].queue) \cup G[m]
                      /\ mp'[m].seen = new[m].seen /\ mp[m].seen \subseteq mp'[m].seen
  BY <1>6, <1>7
<1>13. \A x \in Data!Ends :
         dataGot'[x][i] = IF Hands(new, hs, x, i) THEN dataGot[x][i] + 1 ELSE dataGot[x][i]
  BY <1>3, <1>7
<1> QED BY <1>8, <1>9, <1>10, <1>11, <1>12, <1>13 DEF Outcome

\* So it is for the packet and its new frames to be right.
LEMMA AboutStays ==
  ASSUME Data!DataAssumption, DataInv, NEW b, NEW new, NEW hs, NEW G, NEW i, NEW src, NEW dst,
         About(b, new, hs, G, i, src, dst),
         \A m \in MPs : \A g \in G[m] : FrameOK(m, g)', PacketOK(i)'
  PROVE  DataInv'
<1>1. src \in Data!Ends /\ dst \in Data!Dests /\ SentIs(i, src, dst) /\ Base(b) BY DEF About
<1>2. MaxSends \in Nat /\ IsFiniteSet(MPs) /\ TtlMax \in Nat /\ MAPs \subseteq MPs
  BY DataCounts DEF Data!DataAssumption
<1>3. \A j \in 1 .. Len(sent') : j \in 1 .. Len(sent) \/ j = i BY <1>1, <1>2, SentNow
<1>4. \A j \in 1 .. Len(sent) : j \in Data!Ids
  <2>1. Len(sent) \in Nat /\ Len(sent) <= MaxSends BY DEF DataInv, DataTypes
  <2> QED BY <1>2, <2>1 DEF Data!Ids
<1>5. /\ DataTypes' /\ KeepsAll /\ \A j \in Data!Ids : j # i => Kept(j)
      /\ \A m \in MPs : EachOnce(mp'[m].queue) /\ FramesOf(mp'[m].queue) = FramesOf(b[m].queue) \cup G[m]
      /\ \A j \in Data!Ids \ (1 .. Len(sent')) : \A x \in Data!Ends : dataGot'[x][j] = 0
  BY AboutOne DEF Outcome
<1>6. \A n \in MPs : \A f \in FramesOf(mp'[n].queue) : f \in FramesOf(mp[n].queue) \/ FrameOK(n, f)'
  BY <1>1, <1>5 DEF Base
<1>7. \A j \in 1 .. Len(sent) : Kept(j) \/ PacketOK(j)' BY <1>4, <1>5
<1>8. \A j \in 1 .. Len(sent') : j \in 1 .. Len(sent) \/ PacketOK(j)' BY <1>3
<1> QED BY <1>2, <1>5, <1>6, <1>7, <1>8, StepStays

\* A packet for one destination begins or goes on at n, or is heard by its station.
LEMMA OneStep ==
  ASSUME Data!DataAssumption, DataInv, NEW b, NEW new \in [MPs -> MpState], NEW hs, NEW i,
         NEW src \in Data!Ends, NEW dst \in Data!Dests \ {AnyMac}, NEW n \in MPs,
         Base(b), SentIs(i, src, dst), \A m \in MPs : m # n => new[m] = b[m],
         OneResult(n, b[n], new[n], i, src, dst),
         \A h \in hs : h = <<dst, i>>, hs # {} => new[n] = b[n] /\ dst \in Stations,
         \A m \in MPs : \A f \in FramesOf(b[m].queue) : f.id # i,
         \A x \in Data!Ends : dataGot[x][i] = 0,
         Data!Become(new, hs), UNCHANGED <<stations, home, roams>>
  PROVE  DataInv'
<1>0. /\ DOMAIN ProxyOf \cap Data!Ends = {} /\ MPs \cap Stations = {} /\ MaxSends \in Nat
      /\ \A d \in DOMAIN ProxyOf : ProxyOf[d] \in MPs
  BY DEF Data!DataAssumption, Data!Ends
<1>1. PICK K, F, u :
        /\ Adds(b[n], new[n], F, K, u)
        /\ F = {} \/ (u = <<>> /\ \E g : F = {g} /\ OneCopy(g, i, src, dst))
        /\ u = <<>> \/ (u = <<i>> /\ Rightful(n, dst))
  <2>1. PICK K : \/ Adds(b[n], new[n], {}, K, <<>>)
                 \/ Adds(b[n], new[n], {}, K, <<i>>) /\ Rightful(n, dst)
                 \/ \E g : Adds(b[n], new[n], {g}, K, <<>>) /\ OneCopy(g, i, src, dst)
    BY DEF OneResult
  <2>2. CASE Adds(b[n], new[n], {}, K, <<>>) BY <2>2
  <2>3. CASE Adds(b[n], new[n], {}, K, <<i>>) /\ Rightful(n, dst) BY <2>3
  <2>4. CASE \E g : Adds(b[n], new[n], {g}, K, <<>>) /\ OneCopy(g, i, src, dst)
    <3>1. PICK g : Adds(b[n], new[n], {g}, K, <<>>) /\ OneCopy(g, i, src, dst) BY <2>4
    <3> QED BY <3>1
  <2> QED BY <2>1, <2>2, <2>3, <2>4
<1> DEFINE G == [m \in MPs |-> IF m = n THEN F ELSE {}]
<1>2. G[n] = F /\ \A m \in MPs : m # n => G[m] = {} OBVIOUS
<1> HIDE DEF G
<1>3. \A g \in F : OneCopy(g, i, src, dst) /\ g.id = i BY <1>1 DEF OneCopy
<1>4. About(b, new, hs, G, i, src, dst)
  <2>1. ASSUME NEW m \in MPs
        PROVE  \E J, v : Adds(b[m], new[m], G[m], J, v) /\ (v = <<>> \/ v = <<i>>)
    <3>1. CASE m = n BY <1>1, <1>2, <3>1
    <3>2. CASE m # n
      <4>1. new[m] = b[m] /\ b[m] \in MpState /\ b[m].up = <<>> BY <3>2 DEF Base
      <4>2. Adds(b[m], b[m], {}, {}, <<>>) BY <4>1, NothingAdded
      <4> QED BY <1>2, <3>2, <4>1, <4>2
    <3> QED BY <3>1, <3>2
  <2>2. \A m \in MPs : \A g \in G[m] : g.id = i /\ \A f \in FramesOf(b[m].queue) : Differ(f, g)
    BY <1>2, <1>3 DEF Differ
  <2>3. \A h \in hs : h[2] = i OBVIOUS
  <2> QED BY <2>1, <2>2, <2>3 DEF About
<1>5. /\ DataTypes'
      /\ \A m \in MPs : FramesOf(mp'[m].queue) = FramesOf(b[m].queue) \cup G[m]
      /\ \A x \in Data!Ends :
           dataGot'[x][i] = IF Hands(new, hs, x, i) THEN dataGot[x][i] + 1 ELSE dataGot[x][i]
  BY <1>4, AboutOne DEF Outcome
<1>6. i \in 1 .. Len(sent') /\ sent'[i] = <<src, dst>> BY <1>0, SentNow
<1>7. Data!For(i)' = IF dst \in DOMAIN ProxyOf THEN {ProxyOf[dst]} ELSE {dst}
  BY <1>6 DEF Data!For
<1>8. ASSUME NEW x \in Data!Ends, Hands(new, hs, x, i) PROVE x \in Data!For(i)' /\ F = {}
  <2>1. CASE x \in MPs
    <3>1. new[x].up = <<i>> BY <1>8, <2>1 DEF Hands
    <3>2. x = n
      <4>1. b[x].up = <<>> BY <2>1 DEF Base
      <4> QED BY <2>1, <3>1, <4>1
    <3>3. u = <<i>> BY <1>1, <3>1, <3>2 DEF Adds
    <3>4. Rightful(n, dst) /\ F = {} BY <1>1, <3>3
    <3>5. n \in Data!Ends BY DEF Data!Ends
    <3> QED BY <1>0, <1>7, <3>2, <3>4, <3>5 DEF Rightful
  <2>2. CASE x \notin MPs
    <3>1. PICK h \in hs : h[1] = x /\ h[2] = i BY <1>8, <2>2 DEF Hands
    <3>2. x = dst /\ new[n] = b[n] /\ dst \in Stations BY <3>1
    <3>3. FramesOf(b[n].queue) = FramesOf(b[n].queue) \cup F BY <1>1, <3>2 DEF Adds
    <3>4. F = {} BY <1>3, <3>3
    <3>5. dst \in Data!Ends BY <3>2 DEF Data!Ends
    <3> QED BY <1>0, <1>7, <3>2, <3>4, <3>5
  <2> QED BY <2>1, <2>2
<1>9. \A m \in MPs : \A f \in FramesOf(mp'[m].queue) : f.id = i => m = n /\ f \in F
  BY <1>2, <1>5
<1>10. \A f, g \in F : f = g BY <1>1
<1>11. OneOK(i)'
  <2>1. \A m, k \in MPs : \A f \in FramesOf(mp'[m].queue), g \in FramesOf(mp'[k].queue) :
          f.id = i /\ g.id = i => m = k /\ f.type = g.type /\ \A x \in Data!Ends : dataGot'[x][i] = 0
    <3> SUFFICES ASSUME NEW m \in MPs, NEW k \in MPs, NEW f \in FramesOf(mp'[m].queue),
                        NEW g \in FramesOf(mp'[k].queue), f.id = i, g.id = i
                 PROVE  m = k /\ f.type = g.type /\ \A x \in Data!Ends : dataGot'[x][i] = 0
      OBVIOUS
    <3>1. m = n /\ k = n /\ f \in F /\ g \in F BY <1>9
    <3>2. f = g BY <1>10, <3>1
    <3>3. \A x \in Data!Ends : ~ Hands(new, hs, x, i) BY <1>8, <3>1
    <3> QED BY <1>5, <3>1, <3>2, <3>3
  <2>2. \A x \in Data!Ends : dataGot'[x][i] <= 1 /\ (dataGot'[x][i] > 0 => x \in Data!For(i)')
    <3> SUFFICES ASSUME NEW x \in Data!Ends
                 PROVE  dataGot'[x][i] <= 1 /\ (dataGot'[x][i] > 0 => x \in Data!For(i)')
      OBVIOUS
    <3>1. dataGot[x][i] = 0 OBVIOUS
    <3> QED BY <1>5, <1>8, <3>1
  <2> QED BY <2>1, <2>2 DEF OneOK
<1>12. PacketOK(i)' BY <1>6, <1>11 DEF PacketOK
<1>13. \A m \in MPs : \A g \in G[m] : FrameOK(m, g)'
  <2> SUFFICES ASSUME NEW m \in MPs, NEW g \in G[m] PROVE FrameOK(m, g)' OBVIOUS
  <2>1. g \in F BY <1>2
  <2>2. OneCopy(g, i, src, dst) BY <1>3, <2>1
  <2> QED BY <1>6, <2>2 DEF OneCopy, FrameOK
<1> QED BY <1>4, <1>12, <1>13, AboutStays

-----------------------------------------------------------------------------
(* A step of a broadcast. *)

\* It begins at n.
LEMMA CastStarts ==
  ASSUME Data!DataAssumption, DataInv, NEW new \in [MPs -> MpState], NEW src \in Data!Ends, NEW n \in MPs,
         NEW i, i = Len(sent) + 1, Len(sent) < MaxSends, sent' = Append(sent, <<src, AnyMac>>),
         \A m \in MPs : m # n => new[m] = mp[m], CastResult(n, mp[n], new[n], i, src),
         Data!Become(new, {}), UNCHANGED <<stations, home, roams>>
  PROVE  DataInv'
<1>0. IsFiniteSet(MPs) /\ MAPs \subseteq MPs /\ TtlMax \in Nat /\ MaxSends \in Nat /\ MPs \cap Stations = {}
  BY DataCounts DEF Data!DataAssumption
<1>00. PICK b : b = mp OBVIOUS
<1>1. PICK F, K, u :
        /\ Adds(mp[n], new[n], F, K, u) /\ (u = <<>> \/ (u = <<i>> /\ n # src /\ (HandUp \/ n \in Portals)))
        /\ \A g \in F : CastCopy(n, g, i, src, K)
        /\ \A g, h \in F : g.type = h.type => g = h
  BY DEF CastResult
<1>2. SentIs(i, src, AnyMac) /\ AnyMac \in Data!Dests BY DEF SentIs, Data!Dests
<1>3. i \in 1 .. Len(sent') /\ sent'[i] = <<src, AnyMac>> /\ i \in Data!Ids /\ i \notin 1 .. Len(sent)
  <2>1. i \in 1 .. Len(sent') /\ sent'[i] = <<src, AnyMac>> /\ i \in Data!Ids /\ Len(sent) \in Nat
    BY <1>0, <1>2, SentNow
  <2> QED BY <2>1
<1>4. \A m \in MPs : \A f \in FramesOf(mp[m].queue) : f.id # i BY <1>3 DEF DataInv, FrameOK
<1>5. \A x \in Data!Ends : dataGot[x][i] = 0 BY <1>3 DEF DataInv
<1>6. mp \in [MPs -> MpState] /\ \A m \in MPs : mp[m].up = <<>> /\ EachOnce(mp[m].queue)
  BY DEF DataInv, DataTypes
<1>7. Base(b) BY <1>6, <1>00 DEF Base
<1> DEFINE G == [m \in MPs |-> IF m = n THEN F ELSE {}]
<1>8. G[n] = F /\ \A m \in MPs : m # n => G[m] = {} OBVIOUS
<1> HIDE DEF G
<1>9. About(b, new, {}, G, i, src, AnyMac)
  <2>1. ASSUME NEW m \in MPs
        PROVE  \E J, v : Adds(mp[m], new[m], G[m], J, v) /\ (v = <<>> \/ v = <<i>>)
    <3>1. CASE m = n BY <1>1, <1>8, <3>1
    <3>2. CASE m # n
      <4>1. new[m] = mp[m] /\ mp[m] \in MpState /\ mp[m].up = <<>> BY <1>6, <3>2
      <4>2. Adds(mp[m], mp[m], {}, {}, <<>>) BY <4>1, NothingAdded
      <4> QED BY <1>8, <3>2, <4>1, <4>2
    <3> QED BY <3>1, <3>2
  <2>2. \A m \in MPs : \A g \in G[m] : g.id = i /\ \A f \in FramesOf(mp[m].queue) : Differ(f, g)
    BY <1>1, <1>4, <1>8 DEF Differ, CastCopy
  <2> QED BY <1>2, <1>7, <1>00, <2>1, <2>2 DEF About
<1>10. /\ \A m \in MPs : /\ FramesOf(mp'[m].queue) = FramesOf(mp[m].queue) \cup G[m]
                         /\ mp'[m].seen = new[m].seen
       /\ \A x \in Data!Ends :
            dataGot'[x][i] = IF Hands(new, {}, x, i) THEN dataGot[x][i] + 1 ELSE dataGot[x][i]
  <2>1. Outcome(b, new, {}, G, i) BY <1>9, AboutOne
  <2> QED BY <1>00, <2>1 DEF Outcome
<1>11. \A m \in MPs : \A f \in FramesOf(mp'[m].queue) : f.id = i => m = n /\ f \in F
  BY <1>4, <1>8, <1>10
<1>12. K \subseteq mp'[n].seen BY <1>1, <1>10 DEF Adds
<1>13. \A m \in MPs : \A g \in G[m] : FrameOK(m, g)'
  <2> SUFFICES ASSUME NEW m \in MPs, NEW g \in G[m] PROVE FrameOK(m, g)' OBVIOUS
  <2>1. m = n /\ g \in F BY <1>8
  <2>2. CastCopy(n, g, i, src, K) BY <1>1, <2>1
  <2>3. g.type = "mesh" => Data!Key(g) \in mp'[n].seen /\ Lively(g)'
    <3> SUFFICES ASSUME g.type = "mesh" PROVE Data!Key(g) \in mp'[n].seen /\ Lively(g)' OBVIOUS
    <3>1. Data!Key(g) \in mp'[n].seen /\ g.ttl = TtlMax BY <1>12, <2>2 DEF CastCopy
    <3> DEFINE A == {k \in MPs : Data!Key(g) \in mp'[k].seen}
    <3>2. A \subseteq MPs /\ A # {} BY <3>1
    <3>3. IsFiniteSet(A) BY <1>0, <3>2, FS_Subset
    <3>4. Lively(g)' <=> g.ttl + Cardinality(A) > TtlMax BY DEF Lively
    <3> HIDE DEF A
    <3>5. Cardinality(A) \in Nat /\ Cardinality(A) # 0 BY <3>2, <3>3, FS_EmptySet, FS_CardinalityType
    <3> QED BY <1>0, <3>1, <3>4, <3>5
  <2> QED BY <1>3, <2>1, <2>2, <2>3 DEF CastCopy, FrameOK
<1>14. \A x \in Data!Ends : Hands(new, {}, x, i) => x = n /\ n # src /\ (HandUp \/ n \in Portals)
  <2> SUFFICES ASSUME NEW x \in Data!Ends, Hands(new, {}, x, i)
               PROVE  x = n /\ n # src /\ (HandUp \/ n \in Portals)
    OBVIOUS
  <2>1. x \in MPs /\ new[x].up = <<i>> BY DEF Hands
  <2>2. x = n
    <3>1. x # n => new[x].up = <<>> BY <1>6, <2>1
    <3> QED BY <2>1, <3>1
  <2>3. u = <<i>> BY <1>1, <2>1, <2>2 DEF Adds
  <2> QED BY <1>1, <2>2, <2>3
<1>15. \A x \in Data!Ends : dataGot'[x][i] = IF Hands(new, {}, x, i) THEN 1 ELSE 0 BY <1>5, <1>10
<1>16. CastOK(i)'
  <2>0. \A m \in MPs : m \in Data!Ends BY DEF Data!Ends
  <2>00. \A s \in Stations : s \in Data!Ends /\ s \notin MPs BY <1>0 DEF Data!Ends
  <2>01. \A m \in MPs : Copies(i, m)' = {f \in FramesOf(mp'[m].queue) : f.id = i /\ f.type = "mesh"}
    BY DEF Copies
  <2>1. \A m \in MPs : \A f \in Copies(i, m)' : m = n /\ f \in F /\ f.type = "mesh" BY <1>11, <2>01
  <2>2. \A m, k \in MPs : \A f \in Copies(i, m)', g \in Copies(i, k)' : f.seq = g.seq
    <3> SUFFICES ASSUME NEW m \in MPs, NEW k \in MPs, NEW f \in Copies(i, m)', NEW g \in Copies(i, k)'
                 PROVE  f.seq = g.seq
      OBVIOUS
    <3>1. f \in F /\ g \in F /\ f.type = g.type BY <2>1
    <3> QED BY <1>1, <3>1
  <2>3. Final(i, n)'
    <3>1. \A g \in MPs : \A f \in Copies(i, g)' : Data!Key(f) \in mp'[n].seen
      BY <1>1, <1>12, <2>1 DEF CastCopy
    <3> QED BY <3>1 DEF Final
  <2>4. \A s \in Stations : dataGot'[s][i] = 0 BY <1>14, <1>15, <2>00
  <2>5. \A m \in MPs : ToBss(i, m)' => m = n BY <1>11 DEF ToBss
  <2>6. \A m \in MPs : dataGot'[m][i] > 0 => m = n BY <1>14, <1>15, <2>0
  <2>7. \A m \in MPs : \/ dataGot'[m][i] > 0
                       \/ ToBss(i, m)'
                       \/ roams' = 0 /\ \E s \in Stations : home'[s] = m /\ dataGot'[s][i] > 0
                       => Final(i, m)'
    BY <2>3, <2>4, <2>5, <2>6
  <2>8. \A x \in Data!Ends : dataGot'[x][i] <= 1 BY <1>15
  <2>9. \A x \in Data!Ends : dataGot'[x][i] > 0 => x \in Data!For(i)' \cup Stations \cup Portals
    <3> SUFFICES ASSUME NEW x \in Data!Ends, dataGot'[x][i] > 0
                 PROVE  x \in Data!For(i)' \cup Stations \cup Portals
      OBVIOUS
    <3>1. Hands(new, {}, x, i) BY <1>15
    <3>2. x = n /\ x # src /\ (HandUp \/ n \in Portals) BY <1>14, <3>1
    <3>3. Data!For(i)' = {y \in Data!Ends \ {src} : y \in MAPs => HandUp} BY <1>3 DEF Data!For
    <3> QED BY <3>2, <3>3
  <2>10. roams' = 0 => \A s \in Stations : dataGot'[s][i] <= 1 /\ (ToBss(i, home[s])' => dataGot'[s][i] = 0)
    BY <2>4
  <2>11. \A m \in MPs : dataGot'[m][i] <= 1 BY <2>0, <2>8
  <2> QED BY <2>2, <2>7, <2>9, <2>10, <2>11 DEF CastOK
<1>17. PacketOK(i)' BY <1>3, <1>16 DEF PacketOK
<1> QED BY <1>9, <1>13, <1>17, AboutStays

\* Stations of n hear the broadcast that n had queued for them.
LEMMA CastHeard ==
  ASSUME Data!DataAssumption, DataInv, NEW n \in MPs, NEW f \in MeshFrame, f \in FramesOf(mp[n].queue),
         f.type = "data", NEW b, Base(b), NEW src \in Data!Ends,
         f.id \in 1 .. Len(sent), sent[f.id] = <<src, AnyMac>>, sent' = sent,
         \A g \in FramesOf(b[n].queue) : Differ(g, f),
         NEW S \in SUBSET Stations, \A s \in S : home[s] = n,
         Data!Become(b, {<<s, f.id>> : s \in S}), UNCHANGED <<stations, home, roams>>
  PROVE  DataInv'
<1> DEFINE i == f.id
           hs == {<<s, i>> : s \in S}
           G == [m \in MPs |-> {}]
<1>0. MAPs \subseteq MPs /\ MaxSends \in Nat /\ MPs \cap Stations = {} BY DEF Data!DataAssumption
<1>1. SentIs(i, src, AnyMac) /\ AnyMac \in Data!Dests BY DEF SentIs, Data!Dests
<1>2. sent[i][2] = AnyMac /\ i \in 1 .. Len(sent') /\ sent'[i] = sent[i] /\ sent[i] = <<src, AnyMac>>
      /\ Data!For(i)' = Data!For(i)
  BY DEF Data!For
<1>3. CastOK(i) BY <1>2 DEF DataInv, PacketOK
<1>4. \A m \in MPs : b[m].seen = mp[m].seen /\ b[m].up = <<>> /\ b[m] \in MpState
                     /\ FramesOf(b[m].queue) \subseteq FramesOf(mp[m].queue)
  BY DEF Base
<1>5. \A h \in hs : h[2] = i OBVIOUS
<1>6. \A x : (\E h \in hs : h[1] = x /\ h[2] = i) <=> x \in S
  <2>1. ASSUME NEW x \in S PROVE \E h \in hs : h[1] = x /\ h[2] = i
    <3>1. <<x, i>> \in hs OBVIOUS
    <3>2. <<x, i>>[1] = x /\ <<x, i>>[2] = i OBVIOUS
    <3> HIDE DEF hs, i
    <3> QED BY <3>1, <3>2
  <2>2. \A h \in hs : h[1] \in S OBVIOUS
  <2> HIDE DEF hs, i
  <2> QED BY <2>1, <2>2
<1>7. \A m \in MPs : G[m] = {} OBVIOUS
<1>8. Data!Become(b, hs) OBVIOUS
<1> HIDE DEF hs, G, i
<1>9. About(b, b, hs, G, i, src, AnyMac)
  <2>1. \A m \in MPs : Adds(b[m], b[m], {}, {}, <<>>) BY <1>4, NothingAdded
  <2>2. \A m \in MPs : \E K, u : Adds(b[m], b[m], G[m], K, u) /\ (u = <<>> \/ u = <<i>>)
    BY <1>7, <2>1
  <2>3. b \in [MPs -> MpState] BY DEF Base
  <2> QED BY <1>1, <1>5, <1>7, <1>8, <2>2, <2>3 DEF About
<1>10. Outcome(b, b, hs, G, i) BY <1>9, AboutOne
<1>11. \A m \in MPs : FramesOf(mp'[m].queue) = FramesOf(b[m].queue) BY <1>7, <1>10 DEF Outcome
<1>12. \A x \in Data!Ends : dataGot'[x][i] = IF x \in S THEN dataGot[x][i] + 1 ELSE dataGot[x][i]
  <2>1. ASSUME NEW x \in Data!Ends PROVE Hands(b, hs, x, i) <=> x \in S
    <3>1. CASE x \in MPs
      <4>1. b[x].up = <<>> /\ x \notin S BY <1>0, <1>4, <3>1
      <4> QED BY <3>1, <4>1 DEF Hands
    <3>2. CASE x \notin MPs BY <1>6, <3>2 DEF Hands
    <3> QED BY <3>1, <3>2
  <2>2. \A x \in Data!Ends :
          dataGot'[x][i] = IF Hands(b, hs, x, i) THEN dataGot[x][i] + 1 ELSE dataGot[x][i]
    BY <1>10 DEF Outcome
  <2> QED BY <2>1, <2>2
<1>13. \A m \in MPs : m \in Data!Ends /\ m \notin S BY <1>0 DEF Data!Ends
<1>14. \A s \in Stations : s \in Data!Ends BY DEF Data!Ends
<1>15. ToBss(i, n) BY DEF ToBss, i
<1>16. ~ ToBss(i, n)' BY <1>11 DEF ToBss, Differ, i
<1>17. \A m \in MPs : Copies(i, m)' \subseteq Copies(i, m) BY <1>4, <1>11 DEF Copies
<1>18. \A m \in MPs : ToBss(i, m)' => ToBss(i, m) BY <1>4, <1>11 DEF ToBss
<1>19. KeepsAll BY <1>10 DEF Outcome
<1>20. \A m \in MPs : Final(i, m) => Final(i, m)' BY <1>0, <1>17, <1>19, FinalStays
<1>21. \A x \in Data!Ends : dataGot[x][i] \in Nat
  <2>1. i \in Data!Ids BY <1>0, <1>1, SentNow
  <2> QED BY <2>1 DEF DataInv, DataTypes
<1>22. home' = home /\ roams' = roams OBVIOUS
<1>23. CastOK(i)'
  <2>1. \A m, k \in MPs : \A g \in Copies(i, m)', h \in Copies(i, k)' : g.seq = h.seq
    BY <1>3, <1>17 DEF CastOK
  <2>2. ASSUME NEW m \in MPs,
               \/ dataGot'[m][i] > 0
               \/ ToBss(i, m)'
               \/ roams' = 0 /\ \E s \in Stations : home'[s] = m /\ dataGot'[s][i] > 0
        PROVE  Final(i, m)'
    <3>1. CASE dataGot'[m][i] > 0
      <4>1. dataGot[m][i] > 0 BY <1>12, <1>13, <3>1
      <4> QED BY <1>3, <1>20, <4>1 DEF CastOK
    <3>2. CASE ToBss(i, m)' BY <1>3, <1>18, <1>20, <3>2 DEF CastOK
    <3>3. CASE roams' = 0 /\ \E s \in Stations : home'[s] = m /\ dataGot'[s][i] > 0
      <4>1. PICK s \in Stations : home[s] = m /\ dataGot'[s][i] > 0 BY <1>22, <3>3
      <4>2. CASE s \in S
        <5>1. ToBss(i, m) BY <1>15, <4>1, <4>2
        <5> QED BY <1>3, <1>20, <5>1 DEF CastOK
      <4>3. CASE s \notin S
        <5>1. dataGot[s][i] > 0 BY <1>12, <1>14, <4>1, <4>3
        <5>2. roams = 0 BY <1>22, <3>3
        <5>3. Final(i, m) BY <1>3, <4>1, <5>1, <5>2 DEF CastOK
        <5> QED BY <1>20, <5>3
      <4> QED BY <4>2, <4>3
    <3> QED BY <2>2, <3>1, <3>2, <3>3
  <2>3. ASSUME roams' = 0, NEW s \in Stations
        PROVE  dataGot'[s][i] <= 1 /\ (ToBss(i, home[s])' => dataGot'[s][i] = 0)
    <3>1. dataGot[s][i] <= 1 /\ (ToBss(i, home[s]) => dataGot[s][i] = 0) BY <1>3, <1>22, <2>3 DEF CastOK
    <3>2. home[s] \in MPs BY <1>0 DEF DataInv, DataTypes
    <3>3. home'[s] = home[s] BY <1>22
    <3>4. CASE s \in S
      <4>1. home[s] = n BY <3>4
      <4>2. dataGot[s][i] = 0 BY <1>15, <3>1, <4>1
      <4>3. dataGot'[s][i] = 1 BY <1>12, <1>14, <3>4, <4>2
      <4>4. ~ ToBss(i, home[s])' BY <1>16, <3>3, <4>1 DEF ToBss
      <4> QED BY <4>3, <4>4
    <3>5. CASE s \notin S
      <4>1. dataGot'[s][i] = dataGot[s][i] BY <1>12, <1>14, <3>5
      <4>2. ToBss(i, home[s])' => ToBss(i, home[s]) BY <1>4, <1>11, <3>2, <3>3 DEF ToBss
      <4> QED BY <3>1, <4>1, <4>2
    <3> QED BY <3>4, <3>5
  <2>4. \A m \in MPs : dataGot'[m][i] <= 1 BY <1>3, <1>12, <1>13 DEF CastOK
  <2>5. \A x \in Data!Ends : dataGot'[x][i] > 0 => x \in Data!For(i)' \cup Stations \cup Portals
    BY <1>2, <1>3, <1>12 DEF CastOK
  <2> QED BY <2>1, <2>2, <2>3, <2>4, <2>5 DEF CastOK
<1>24. PacketOK(i)' BY <1>2, <1>23 DEF PacketOK
<1>25. \A m \in MPs : \A g \in G[m] : FrameOK(m, g)' BY <1>7
<1> QED BY <1>9, <1>24, <1>25, AboutStays

\* Who has life left and has not seen a frame is not the last: there is one left.
LEMMA LifeLeft ==
  ASSUME Data!DataAssumption, Data!LongLife, NEW f \in MeshFrame, Lively(f),
         NEW m \in MPs, Data!Key(f) \notin mp[m].seen
  PROVE  f.ttl > 0
<1> DEFINE A == {k \in MPs : Data!Key(f) \in mp[k].seen}
<1>1. IsFiniteSet(MPs) /\ TtlMax \in Nat /\ TtlMax >= Cardinality(MPs) - 1
  BY DataCounts DEF Data!DataAssumption, Data!LongLife
<1>2. IsFiniteSet(MPs \ {m}) /\ Cardinality(MPs \ {m}) = Cardinality(MPs) - 1 BY <1>1, FS_RemoveElement
<1>3. A \subseteq MPs \ {m} OBVIOUS
<1>4. f.ttl + Cardinality(A) > TtlMax /\ f.ttl \in Int BY DEF Lively, MeshFrame
<1> HIDE DEF A
<1>5. IsFiniteSet(A) /\ Cardinality(A) <= Cardinality(MPs \ {m}) BY <1>2, <1>3, FS_Subset
<1>6. Cardinality(A) \in Nat /\ Cardinality(MPs) \in Nat BY <1>1, <1>5, FS_CardinalityType
<1> QED BY <1>1, <1>2, <1>4, <1>5, <1>6

\* Who has one neighbour at most hears from that one only.
LEMMA OnlyNeighbor ==
  ASSUME IsFiniteSet(MPs), NEW m \in MPs, ~ (Data!AssociatedNeighborCount(m) > 1),
         NEW n \in MPs, NEW k \in MPs, <<m, n>> \in Links, <<m, k>> \in Links
  PROVE  k = n
<1> DEFINE N == {x \in MPs : Data!IsAssociatedNeighbor(m, x)}
<1>1. Data!AssociatedNeighborCount(m) = Cardinality(N) BY DataCounts DEF Data!AssociatedNeighborCount
<1>2. N \subseteq MPs /\ n \in N /\ k \in N BY DEF Data!IsAssociatedNeighbor
<1> HIDE DEF N
<1>3. IsFiniteSet(N) BY <1>2, FS_Subset
<1>4. Cardinality(N) \in Nat /\ ~ (Cardinality(N) > 1) BY <1>1, <1>3, FS_CardinalityType
<1>5. IsFiniteSet(N \ {n}) /\ Cardinality(N \ {n}) = Cardinality(N) - 1 BY <1>2, <1>3, FS_RemoveElement
<1>6. Cardinality(N \ {n}) \in Nat BY <1>5, FS_CardinalityType
<1>7. Cardinality(N \ {n}) = 0 BY <1>4, <1>5, <1>6
<1>8. N \ {n} = {} BY <1>5, <1>7, FS_EmptySet
<1> QED BY <1>2, <1>8

\* A copy is entered where it goes on, which makes up for the hop.
LEMMA LifeGoesOn ==
  ASSUME Data!DataAssumption, NEW f \in MeshFrame, Lively(f), NEW g \in MeshFrame, g.ttl = f.ttl - 1,
         Data!Key(g) = Data!Key(f), \A k \in MPs : mp[k].seen \subseteq mp'[k].seen,
         NEW m \in MPs, Data!Key(f) \notin mp[m].seen, Data!Key(f) \in mp'[m].seen
  PROVE  Lively(g)'
<1> DEFINE A == {k \in MPs : Data!Key(f) \in mp[k].seen}
           B == {k \in MPs : Data!Key(g) \in mp'[k].seen}
<1>1. IsFiniteSet(MPs) /\ TtlMax \in Nat BY DataCounts DEF Data!DataAssumption
<1>2. A \cup {m} \subseteq B /\ A \subseteq MPs /\ B \subseteq MPs /\ m \notin A OBVIOUS
<1>3. f.ttl + Cardinality(A) > TtlMax /\ f.ttl \in Int BY DEF Lively, MeshFrame
<1>4. Lively(g)' <=> g.ttl + Cardinality(B) > TtlMax BY DEF Lively
<1> HIDE DEF A, B
<1>5. IsFiniteSet(A) /\ IsFiniteSet(B) BY <1>1, <1>2, FS_Subset
<1>6. IsFiniteSet(A \cup {m}) /\ Cardinality(A \cup {m}) = Cardinality(A) + 1
  BY <1>2, <1>5, FS_AddElement
<1>7. Cardinality(A \cup {m}) <= Cardinality(B) BY <1>2, <1>5, FS_Subset
<1>8. Cardinality(A) \in Nat /\ Cardinality(B) \in Nat BY <1>5, FS_CardinalityType
<1> QED BY <1>1, <1>3, <1>4, <1>6, <1>7, <1>8

\* A mesh point may take the copy f of a broadcast only if it has taken none before.
LEMMA TakenOnce ==
  ASSUME DataInv, NEW n \in MPs, NEW f \in MeshFrame, f \in FramesOf(mp[n].queue), FrameOK(n, f),
         f.type = "mesh", f.DA = AnyMac, CastOK(f.id), MPs \cap Stations = {},
         NEW m \in MPs, <<m, n>> \in Links, Data!Key(f) \notin mp[m].seen,
         ~ Data!IsSelfOrBssStationAddr(m, f.SA)
  PROVE  /\ ~ Final(f.id, m) /\ ~ ToBss(f.id, m) /\ Copies(f.id, m) = {}
         /\ ~ (dataGot[m][f.id] > 0)
         /\ roams = 0 => \A s \in Stations : home[s] = m => ~ (dataGot[s][f.id] > 0)
<1>1. f \in Copies(f.id, n) BY DEF Copies
<1>2. ~ Final(f.id, m) BY <1>1 DEF Final
<1>3. /\ ~ ToBss(f.id, m) /\ ~ (dataGot[m][f.id] > 0)
      /\ roams = 0 => \A s \in Stations : home[s] = m => ~ (dataGot[s][f.id] > 0)
  BY <1>2 DEF CastOK
<1>4. ASSUME NEW g \in Copies(f.id, m) PROVE FALSE
  <2>1. g \in FramesOf(mp[m].queue) /\ g.id = f.id /\ g.type = "mesh" BY DEF Copies
  <2>2. FrameOK(m, g) BY <2>1 DEF DataInv
  <2>3. g.DA = f.DA /\ g.SA = f.SA BY <2>1, <2>2 DEF FrameOK
  <2>4. g.seq = f.seq BY <1>1 DEF CastOK
  <2>5. Data!Key(g) = Data!Key(f) BY <2>3, <2>4 DEF Data!Key
  <2>6. Data!Key(g) \in mp[m].seen BY <2>1, <2>2, <2>3 DEF FrameOK
  <2> QED BY <2>5, <2>6
<1> QED BY <1>2, <1>3, <1>4

\* Mesh points take a copy of a broadcast, and queue their own.
LEMMA CastRelayed ==
  ASSUME Data!DataAssumption, Data!LongLife, DataInv, NEW n \in MPs, NEW f \in MeshFrame,
         f \in FramesOf(mp[n].queue), f.type = "mesh", NEW b, Base(b), NEW src \in Data!Ends,
         f.id \in 1 .. Len(sent), sent[f.id] = <<src, AnyMac>>, sent' = sent,
         \A g \in FramesOf(b[n].queue) : Differ(g, f),
         NEW new \in [MPs -> MpState], \A m \in MPs : new[m] = b[m] \/ Takes(m, f, b[m], new[m]),
         Data!Become(new, {}), UNCHANGED <<stations, home, roams>>
  PROVE  DataInv'
<1> DEFINE i == f.id
           key == Data!Key(f)
           Took(m) == new[m] # b[m]
           Out(m) == CopiesOut(Outgoing(m, f), Onward(m, f), HasStations(m))
           G == [m \in MPs |-> IF Took(m) THEN Out(m) ELSE {}]
<1>0. /\ MAPs \subseteq MPs /\ MaxSends \in Nat /\ MPs \cap Stations = {} /\ IsFiniteSet(MPs)
      /\ HandUp \in BOOLEAN
  BY DataCounts DEF Data!DataAssumption
<1>1. SentIs(i, src, AnyMac) /\ AnyMac \in Data!Dests BY DEF SentIs, Data!Dests
<1>2. sent[i] = <<src, AnyMac>> /\ i \in 1 .. Len(sent) /\ i \in 1 .. Len(sent') /\ sent'[i] = sent[i]
      /\ Data!For(i)' = Data!For(i)
  BY DEF Data!For
<1>3. CastOK(i) BY <1>2 DEF DataInv, PacketOK
<1>4. FrameOK(n, f) /\ f.SA = src /\ f.DA = AnyMac /\ f.RA = AnyMac /\ f.TA = n
      /\ key \in mp[n].seen /\ Lively(f)
  <2>1. FrameOK(n, f) BY DEF DataInv
  <2>2. f.SA = sent[f.id][1] /\ f.DA = sent[f.id][2] BY <2>1 DEF FrameOK
  <2>3. f.SA = src /\ f.DA = AnyMac BY <1>2, <2>2
  <2> QED BY <2>1, <2>3 DEF FrameOK
<1>5. \A m \in MPs : b[m].seen = mp[m].seen /\ b[m].up = <<>> /\ b[m] \in MpState
                     /\ FramesOf(b[m].queue) \subseteq FramesOf(mp[m].queue)
  BY DEF Base
<1>6. ASSUME NEW m \in MPs, Took(m)
      PROVE  /\ <<m, n>> \in Links /\ key \notin mp[m].seen /\ ~ Data!IsSelfOrBssStationAddr(m, src)
             /\ Adds(b[m], new[m], Out(m), IF Onward(m, f) THEN {key} ELSE {}, UpOf(m, f))
  <2>1. Takes(m, f, b[m], new[m]) BY <1>6
  <2> QED BY <1>4, <1>5, <2>1 DEF Takes, Data!IsAssociatedNeighbor
<1>7. ASSUME NEW m \in MPs, NEW g \in Out(m)
      PROVE  /\ g \in MeshFrame /\ g.id = i /\ g.DA = AnyMac /\ g.SA = src /\ g.RA = AnyMac
             /\ g.TA = m /\ g.seq = f.seq /\ Data!Key(g) = key /\ g.type \in {"mesh", "data"}
             /\ g.type = "mesh" => Onward(m, f) /\ g.ttl = f.ttl - 1
             /\ g.type = "data" => HasStations(m)
  <2> DEFINE o == Outgoing(m, f)
  <2>1. /\ o \in MeshFrame /\ o.id = i /\ o.RA = f.RA /\ o.TA = m /\ o.DA = f.DA /\ o.SA = f.SA
        /\ o.seq = f.seq /\ Data!Key(o) = key
        /\ o.ttl = IF Onward(m, f) THEN f.ttl - 1 ELSE f.ttl
    BY FrameGoesOn
  <2>2. g \in CopiesOut(o, Onward(m, f), HasStations(m)) OBVIOUS
  <2> HIDE DEF o, i, key, Out
  <2>3. /\ ToMesh(o) \in MeshFrame /\ ToStations(o) \in MeshFrame
        /\ ToMesh(o).type = "mesh" /\ ToStations(o).type = "data"
        /\ \A h \in {ToMesh(o), ToStations(o)} :
             h.id = o.id /\ h.RA = o.RA /\ h.TA = o.TA /\ h.DA = o.DA /\ h.SA = o.SA /\ h.seq = o.seq
        /\ ToMesh(o).ttl = o.ttl
    BY <2>1, FormsOfFrame
  <2>4. CASE Onward(m, f) /\ g = ToMesh(o)
    <3>1. g.DA = o.DA /\ g.SA = o.SA /\ g.seq = o.seq BY <2>3, <2>4
    <3>2. Data!Key(g) = Data!Key(o) BY <3>1 DEF Data!Key
    <3> QED BY <1>4, <2>1, <2>3, <2>4, <3>2
  <2>5. CASE HasStations(m) /\ g = ToStations(o)
    <3>1. g.DA = o.DA /\ g.SA = o.SA /\ g.seq = o.seq BY <2>3, <2>5
    <3>2. Data!Key(g) = Data!Key(o) BY <3>1 DEF Data!Key
    <3> QED BY <1>4, <2>1, <2>3, <2>5, <3>2
  <2> QED BY <2>2, <2>4, <2>5 DEF CopiesOut
<1>8. ASSUME NEW m \in MPs, Took(m)
      PROVE  /\ ~ Final(i, m) /\ ~ ToBss(i, m) /\ Copies(i, m) = {} /\ ~ (dataGot[m][i] > 0)
             /\ roams = 0 => \A s \in Stations : home[s] = m => ~ (dataGot[s][i] > 0)
  BY <1>0, <1>3, <1>4, <1>6, <1>8, TakenOnce
<1>9. ASSUME NEW m \in MPs PROVE G[m] = IF Took(m) THEN Out(m) ELSE {} OBVIOUS
<1> HIDE DEF G, Out, key
<1>10. ASSUME NEW m \in MPs, Took(m), NEW g \in Out(m), NEW h \in FramesOf(b[m].queue)
       PROVE  Differ(h, g)
  <2>1. h \in FramesOf(mp[m].queue) BY <1>5
  <2>2. ~ (h.id = i /\ h.type = "mesh") BY <1>8, <1>10, <2>1 DEF Copies
  <2>3. ~ (h.id = i /\ h.type = "data") BY <1>8, <1>10, <2>1 DEF ToBss
  <2>4. g.id = i /\ g.type \in {"mesh", "data"} BY <1>7
  <2> HIDE DEF i, Took
  <2> QED BY <2>2, <2>3, <2>4 DEF Differ
<1>11. About(b, new, {}, G, i, src, AnyMac)
  <2>1. ASSUME NEW m \in MPs
        PROVE  \E K, u : Adds(b[m], new[m], G[m], K, u) /\ (u = <<>> \/ u = <<i>>)
    <3>1. CASE Took(m)
      <4>1. Adds(b[m], new[m], Out(m), IF Onward(m, f) THEN {key} ELSE {}, UpOf(m, f))
        BY <1>6, <3>1
      <4>2. UpOf(m, f) = <<>> \/ UpOf(m, f) = <<i>> BY DEF UpOf
      <4>3. G[m] = Out(m) BY <1>9, <3>1
      <4> QED BY <4>1, <4>2, <4>3
    <3>2. CASE ~ Took(m)
      <4>1. new[m] = b[m] /\ b[m] \in MpState /\ b[m].up = <<>> BY <1>5, <3>2
      <4>2. Adds(b[m], b[m], {}, {}, <<>>) BY <4>1, NothingAdded
      <4> QED BY <1>9, <3>2, <4>1, <4>2
    <3> QED BY <3>1, <3>2
  <2>2. \A m \in MPs : \A g \in G[m] : g.id = i /\ \A h \in FramesOf(b[m].queue) : Differ(h, g)
    BY <1>7, <1>9, <1>10
  <2> QED BY <1>1, <2>1, <2>2 DEF About
<1>12. Outcome(b, new, {}, G, i) BY <1>11, AboutOne
<1>13. \A m \in MPs : /\ FramesOf(mp'[m].queue) = FramesOf(b[m].queue) \cup G[m]
                      /\ mp'[m].seen = new[m].seen /\ mp[m].seen \subseteq mp'[m].seen
  BY <1>12 DEF Outcome
<1>14. KeepsAll BY <1>12 DEF Outcome
<1>15. ~ Took(n) BY <1>4, <1>6
<1>16. ASSUME NEW m \in MPs, Took(m), Onward(m, f) PROVE key \in mp'[m].seen
  <2>1. Adds(b[m], new[m], Out(m), {key}, UpOf(m, f)) BY <1>6, <1>16
  <2> QED BY <1>13, <2>1 DEF Adds
<1>17. \A m \in MPs : \A g \in G[m] : FrameOK(m, g)'
  <2> SUFFICES ASSUME NEW m \in MPs, NEW g \in G[m] PROVE FrameOK(m, g)' OBVIOUS
  <2>1. Took(m) /\ g \in Out(m) BY <1>9
  <2>2. /\ g \in MeshFrame /\ g.id = i /\ g.DA = AnyMac /\ g.SA = src /\ g.RA = AnyMac /\ g.TA = m
        /\ Data!Key(g) = key /\ (g.type = "mesh" => Onward(m, f) /\ g.ttl = f.ttl - 1)
    BY <1>7, <2>1
  <2>3. g.type = "mesh" => Data!Key(g) \in mp'[m].seen /\ Lively(g)'
    <3> SUFFICES ASSUME g.type = "mesh" PROVE Data!Key(g) \in mp'[m].seen /\ Lively(g)' OBVIOUS
    <3>1. key \in mp'[m].seen BY <1>16, <2>1, <2>2
    <3>2. key \notin mp[m].seen BY <1>6, <2>1
    <3>3. \A k \in MPs : mp[k].seen \subseteq mp'[k].seen BY <1>13
    <3>4. Lively(g)' BY <1>4, <2>2, <3>1, <3>2, <3>3, LifeGoesOn DEF key
    <3> QED BY <2>2, <3>1, <3>4
  <2>4. g.id \in 1 .. Len(sent') /\ sent'[g.id][1] = src /\ sent'[g.id][2] = AnyMac BY <1>2, <2>2
  <2> HIDE DEF i, Took
  <2> QED BY <2>2, <2>3, <2>4 DEF FrameOK
<1>18. \A m \in MPs : ~ Took(m) => Copies(i, m)' \subseteq Copies(i, m) BY <1>5, <1>9, <1>13 DEF Copies
<1>19. \A m \in MPs : key \in mp[m].seen => ~ Took(m) BY <1>6
<1>20. Copies(i, n)' = {}
  <2>1. \A g \in FramesOf(mp'[n].queue) : ~ (g.id = i /\ g.type = "mesh")
    BY <1>9, <1>13, <1>15 DEF Differ
  <2> QED BY <2>1 DEF Copies
<1>21. ASSUME NEW m \in MPs, NEW g \in Copies(i, m)' PROVE g.seq = f.seq /\ Data!Key(g) = key /\ g.SA = src
  <2>1. g \in FramesOf(mp'[m].queue) /\ g.id = i /\ g.type = "mesh"
    <3>1. Copies(i, m)' = {e \in FramesOf(mp'[m].queue) : e.id = i /\ e.type = "mesh"} BY DEF Copies
    <3> QED BY <3>1
  <2>2. CASE g \in FramesOf(b[m].queue)
    <3>1. g \in Copies(i, m) /\ f \in Copies(i, n) BY <1>5, <2>1, <2>2 DEF Copies
    <3>2. g.seq = f.seq BY <1>3, <3>1 DEF CastOK
    <3>3. g \in FramesOf(mp[m].queue) BY <1>5, <2>2
    <3>4. FrameOK(m, g) BY <3>3 DEF DataInv
    <3>5. g.DA = f.DA /\ g.SA = f.SA BY <2>1, <1>4, <3>4 DEF FrameOK
    <3>6. Data!Key(g) = key BY <3>2, <3>5 DEF Data!Key, key
    <3> QED BY <1>4, <3>2, <3>5, <3>6
  <2>3. CASE g \in G[m]
    <3>1. g \in Out(m) BY <1>9, <2>3
    <3> QED BY <1>7, <3>1
  <2> QED BY <1>13, <2>1, <2>2, <2>3
<1>22. ASSUME NEW m \in MPs, Final(i, m) PROVE Final(i, m)'
  <2>1. \/ key \in mp[m].seen
        \/ Data!IsSelfOrBssStationAddr(m, src)
        \/ \A k \in MPs : <<m, k>> \in Links => key \in mp[k].seen /\ Copies(i, k) = {}
    <3>1. f \in Copies(i, n) BY DEF Copies
    <3> QED BY <1>4, <1>22, <3>1 DEF Final, key
  <2>2. Data!IsSelfOrBssStationAddr(m, src) => Data!IsSelfOrBssStationAddr(m, src)'
    BY <1>0, <1>14 DEF KeepsAll, Data!IsSelfOrBssStationAddr
  <2>3. \A k \in MPs : key \in mp[k].seen /\ Copies(i, k) = {} => key \in mp'[k].seen /\ Copies(i, k)' = {}
    BY <1>13, <1>18, <1>19
  <2>4. \/ key \in mp'[m].seen
        \/ Data!IsSelfOrBssStationAddr(m, src)'
        \/ \A k \in MPs : <<m, k>> \in Links => key \in mp'[k].seen /\ Copies(i, k)' = {}
    BY <1>13, <2>1, <2>2, <2>3
  <2> QED BY <1>21, <2>4 DEF Final
<1>23. ASSUME NEW m \in MPs, Took(m) PROVE Final(i, m)'
  <2>1. CASE Onward(m, f)
    <3>1. key \in mp'[m].seen BY <1>16, <1>23, <2>1
    <3> QED BY <1>21, <3>1 DEF Final
  <2>2. CASE ~ Onward(m, f)
    <3>1. <<m, n>> \in Links /\ key \notin mp[m].seen BY <1>6, <1>23
    <3>2. f.ttl > 0 BY <1>4, <3>1, LifeLeft DEF key
    <3>3. ~ (Data!AssociatedNeighborCount(m) > 1) BY <2>2, <3>2 DEF Onward
    <3>4. \A k \in MPs : <<m, k>> \in Links => k = n BY <1>0, <3>1, <3>3, OnlyNeighbor
    <3>5. key \in mp'[n].seen BY <1>4, <1>13
    <3>6. \A k \in MPs : <<m, k>> \in Links => key \in mp'[k].seen /\ Copies(i, k)' = {}
      BY <1>20, <3>4, <3>5
    <3> QED BY <1>21, <3>6 DEF Final
  <2> QED BY <2>1, <2>2
<1>24. ASSUME NEW x \in Data!Ends
       PROVE  /\ x \notin MPs \/ ~ Took(x) => dataGot'[x][i] = dataGot[x][i]
              /\ dataGot'[x][i] = dataGot[x][i]
                 \/ (dataGot'[x][i] = dataGot[x][i] + 1 /\ x \in MPs /\ Took(x) /\ (x \in MAPs => HandUp))
  <2>1. dataGot'[x][i] = IF Hands(new, {}, x, i) THEN dataGot[x][i] + 1 ELSE dataGot[x][i]
    BY <1>12 DEF Outcome
  <2>2. ASSUME Hands(new, {}, x, i) PROVE x \in MPs /\ Took(x) /\ (x \in MAPs => HandUp)
    <3>0. <<i>> # <<>> OBVIOUS
    <3>1. x \in MPs /\ new[x].up = <<i>> BY <2>2 DEF Hands
    <3>2. Took(x)
      <4>1. b[x].up = <<>> BY <1>5, <3>1
      <4>2. new[x] = b[x] => new[x].up = b[x].up OBVIOUS
      <4> HIDE DEF i
      <4> QED BY <3>0, <3>1, <4>1, <4>2
    <3>3. new[x].up = UpOf(x, f) BY <1>6, <3>1, <3>2 DEF Adds
    <3>4. UpOf(x, f) # <<>> BY <3>0, <3>1, <3>3
    <3>5. ~ (x \in MAPs /\ ~ HandUp) BY <3>4 DEF UpOf
    <3> QED BY <1>0, <3>1, <3>2, <3>5
  <2> QED BY <2>1, <2>2
<1>25. \A x \in Data!Ends : dataGot[x][i] \in Nat
  <2>1. i \in Data!Ids BY <1>0, <1>1, SentNow
  <2> QED BY <2>1 DEF DataInv, DataTypes
<1>26. home' = home /\ roams' = roams OBVIOUS
<1>27. \A s \in Stations : s \in Data!Ends /\ s \notin MPs /\ dataGot'[s][i] = dataGot[s][i]
  BY <1>0, <1>24 DEF Data!Ends
<1>28. \A m \in MPs : ~ Took(m) => (ToBss(i, m)' => ToBss(i, m)) BY <1>5, <1>9, <1>13 DEF ToBss
<1> HIDE DEF i, Took
<1>29. CastOK(i)'
  <2>1. \A m, k \in MPs : \A g \in Copies(i, m)', h \in Copies(i, k)' : g.seq = h.seq BY <1>21
  <2>2. ASSUME NEW m \in MPs,
               \/ dataGot'[m][i] > 0
               \/ ToBss(i, m)'
               \/ roams' = 0 /\ \E s \in Stations : home'[s] = m /\ dataGot'[s][i] > 0
        PROVE  Final(i, m)'
    <3>1. CASE Took(m) BY <1>23, <3>1
    <3>2. CASE ~ Took(m)
      <4>1. m \in Data!Ends BY DEF Data!Ends
      <4>2. dataGot'[m][i] = dataGot[m][i] BY <1>24, <3>2, <4>1
      <4>3. \/ dataGot[m][i] > 0
            \/ ToBss(i, m)
            \/ roams = 0 /\ \E s \in Stations : home[s] = m /\ dataGot[s][i] > 0
        BY <1>26, <1>27, <1>28, <2>2, <3>2, <4>2
      <4>4. Final(i, m) BY <1>3, <4>3 DEF CastOK
      <4> QED BY <1>22, <4>4
    <3> QED BY <3>1, <3>2
  <2>3. ASSUME roams' = 0, NEW s \in Stations
        PROVE  dataGot'[s][i] <= 1 /\ (ToBss(i, home[s])' => dataGot'[s][i] = 0)
    <3>1. roams = 0 BY <1>26, <2>3
    <3>2. dataGot[s][i] <= 1 /\ (ToBss(i, home[s]) => dataGot[s][i] = 0) BY <1>3, <3>1 DEF CastOK
    <3>3. home[s] \in MPs BY <1>0 DEF DataInv, DataTypes
    <3>4. PICK m \in MPs : m = home[s] BY <3>3
    <3>5. home'[s] = m BY <1>26, <3>4
    <3>6. CASE Took(m)
      <4>1. ~ (dataGot[s][i] > 0) BY <1>8, <3>1, <3>4, <3>6
      <4>2. dataGot[s][i] \in Nat BY <1>25, <1>27
      <4>3. dataGot'[s][i] = 0 BY <1>27, <4>1, <4>2
      <4> QED BY <4>3
    <3>7. CASE ~ Took(m)
      <4>1. ToBss(i, m)' => ToBss(i, m) BY <1>28, <3>7
      <4>2. ToBss(i, home[s])' => ToBss(i, home[s]) BY <3>4, <3>5, <4>1 DEF ToBss
      <4>3. dataGot'[s][i] = dataGot[s][i] BY <1>27
      <4> QED BY <3>2, <4>2, <4>3
    <3> QED BY <3>6, <3>7
  <2>4. ASSUME NEW m \in MPs PROVE dataGot'[m][i] <= 1
    <3>1. m \in Data!Ends BY DEF Data!Ends
    <3>2. dataGot[m][i] <= 1 BY <1>3 DEF CastOK
    <3>3. CASE Took(m)
      <4>1. ~ (dataGot[m][i] > 0) /\ dataGot[m][i] \in Nat BY <1>8, <1>25, <3>1, <3>3
      <4> QED BY <1>24, <3>1, <4>1
    <3>4. CASE ~ Took(m) BY <1>24, <3>1, <3>2, <3>4
    <3> QED BY <3>3, <3>4
  <2>5. ASSUME NEW x \in Data!Ends, dataGot'[x][i] > 0
        PROVE  x \in Data!For(i)' \cup Stations \cup Portals
    <3>1. CASE dataGot'[x][i] = dataGot[x][i] BY <1>2, <1>3, <2>5, <3>1 DEF CastOK
    <3>2. CASE x \in MPs /\ Took(x) /\ (x \in MAPs => HandUp)
      <4>1. x # src
        <5>1. ~ Data!IsSelfOrBssStationAddr(x, src) BY <1>6, <3>2
        <5> QED BY <5>1 DEF Data!IsSelfOrBssStationAddr
      <4>2. Data!For(i) = {y \in Data!Ends \ {src} : y \in MAPs => HandUp} BY <1>2 DEF Data!For
      <4> QED BY <1>2, <3>2, <4>1, <4>2
    <3> QED BY <1>24, <3>1, <3>2
  <2> QED BY <2>1, <2>2, <2>3, <2>4, <2>5 DEF CastOK
<1>30. PacketOK(i)' BY <1>2, <1>29 DEF PacketOK
<1> QED BY <1>11, <1>17, <1>30, AboutStays

-----------------------------------------------------------------------------
(* The steps of the mesh. *)

\* What a handler leaves is a state of a mesh point.
LEMMA ResultIsState ==
  ASSUME NEW n, NEW s, NEW r, NEW id, NEW src, NEW dst,
         OneResult(n, s, r, id, src, dst) \/ CastResult(n, s, r, id, src)
  PROVE  r \in MpState
BY DEF OneResult, CastResult, Adds

\* A packet that is new to everybody, at n.
LEMMA BeginStays ==
  ASSUME Data!DataAssumption, DataInv, NEW n \in MPs, NEW src \in Data!Ends, NEW dst \in Data!Dests,
         NEW i, i = Len(sent) + 1, Len(sent) < MaxSends, sent' = Append(sent, <<src, dst>>),
         NEW r, Data!Become([mp EXCEPT ![n] = r], {}), UNCHANGED <<stations, home, roams>>,
         IF dst = AnyMac THEN CastResult(n, mp[n], r, i, src) ELSE OneResult(n, mp[n], r, i, src, dst)
  PROVE  DataInv'
<1>1. mp \in [MPs -> MpState] /\ \A m \in MPs : mp[m].up = <<>> /\ EachOnce(mp[m].queue)
  BY DEF DataInv, DataTypes
<1>2. r \in MpState BY ResultIsState
<1>3. PICK b : b = mp OBVIOUS
<1>4. PICK new : new = [mp EXCEPT ![n] = r] OBVIOUS
<1>5. new \in [MPs -> MpState] /\ new[n] = r /\ \A m \in MPs : m # n => new[m] = mp[m]
  BY <1>1, <1>2, <1>4
<1>6. Data!Become(new, {}) BY <1>4
<1>7. CASE dst = AnyMac
  <2>1. CastResult(n, mp[n], new[n], i, src) BY <1>5, <1>7
  <2>2. sent' = Append(sent, <<src, AnyMac>>) BY <1>7
  <2> QED BY <1>5, <1>6, <2>1, <2>2, CastStarts
<1>8. CASE dst # AnyMac
  <2>1. MaxSends \in Nat BY DEF Data!DataAssumption
  <2>2. SentIs(i, src, dst) BY DEF SentIs
  <2>3. i \in Data!Ids /\ Len(sent) \in Nat BY <2>1, <2>2, SentNow
  <2>4. i \notin 1 .. Len(sent) BY <2>3
  <2>5. Base(b) BY <1>1, <1>3 DEF Base
  <2>6. OneResult(n, b[n], new[n], i, src, dst) BY <1>3, <1>5, <1>8
  <2>7. \A m \in MPs : m # n => new[m] = b[m] BY <1>3, <1>5
  <2>8. \A m \in MPs : \A f \in FramesOf(b[m].queue) : f.id # i BY <1>3, <2>4 DEF DataInv, FrameOK
  <2>9. \A x \in Data!Ends : dataGot[x][i] = 0 BY <2>3, <2>4 DEF DataInv
  <2>10. dst \in Data!Dests \ {AnyMac} BY <1>8
  <2> QED BY <1>5, <1>6, <2>2, <2>5, <2>6, <2>7, <2>8, <2>9, <2>10, OneStep
<1> QED BY <1>7, <1>8

\* The next packet has a number.
LEMMA NextPacket ==
  ASSUME Data!DataAssumption, DataInv, NEW x \in Sends
  PROVE  x[1] \in Data!Ends /\ x[2] \in Data!Dests /\ Len(sent) + 1 \in Nat
<1>1. Sends \subseteq Data!Ends \X Data!Dests BY DEF Data!DataAssumption, Data!Ends, Data!Dests
<1>2. Len(sent) \in Nat BY DEF DataInv, DataTypes
<1> QED BY <1>1, <1>2

\* A packet of a mesh point.
LEMMA NetworkStays ==
  ASSUME Data!DataAssumption, DataInv, NEW x \in Sends, x[1] \in MPs, Data!FromNetwork(x[1], x[2])
  PROVE  DataInv'
<1>1. PICK n \in MPs : n = x[1] OBVIOUS
<1>2. PICK dst \in Data!Dests : dst = x[2] BY NextPacket
<1>3. PICK i \in Nat : i = Len(sent) + 1 BY NextPacket
<1>4. PICK r : r = Data!ReceiveNetworkLayerPacket(n, mp[n], dst, i) OBVIOUS
<1>5. Data!FromNetwork(n, dst) BY <1>1, <1>2
<1>6. /\ Len(sent) < MaxSends /\ sent' = Append(sent, <<n, dst>>)
      /\ Data!Become([mp EXCEPT ![n] = r], {}) /\ UNCHANGED <<stations, home, roams>>
  BY <1>3, <1>4, <1>5 DEF Data!FromNetwork
<1>7. n \in Data!Ends BY DEF Data!Ends
<1>8. mp[n] \in MpState /\ mp[n].up = <<>> BY DEF DataInv, DataTypes
<1>9. dst = AnyMac => CastResult(n, mp[n], r, i, n) BY <1>4, <1>8, CastFromNetwork
<1>10. dst # AnyMac => OneResult(n, mp[n], r, i, n, dst) BY <1>4, <1>8, OneFromNetwork
<1> QED BY <1>3, <1>6, <1>7, <1>9, <1>10, BeginStays

\* A packet of a station.
LEMMA StationStays ==
  ASSUME Data!DataAssumption, DataInv, NEW x \in Sends, x[1] \in Stations, Data!FromStation(x[1], x[2])
  PROVE  DataInv'
<1>1. PICK s \in Stations : s = x[1] OBVIOUS
<1>2. PICK dst \in Data!Dests : dst = x[2] BY NextPacket
<1>3. PICK i \in Nat : i = Len(sent) + 1 BY NextPacket
<1>4. MAPs \subseteq MPs /\ MPs \cap Stations = {} BY DEF Data!DataAssumption
<1>5. home[s] \in MPs BY <1>4 DEF DataInv, DataTypes
<1>6. PICK n \in MPs : n = home[s] BY <1>5
<1>7. PICK f : f = Data!Frame("data", n, s, dst, s, 0, 0, i) OBVIOUS
<1>8. PICK r : r = Data!ReceiveDataUnicast(n, mp[n], f) OBVIOUS
<1>9. Data!FromStation(s, dst) BY <1>1, <1>2
<1>10. /\ Len(sent) < MaxSends /\ sent' = Append(sent, <<s, dst>>)
       /\ Data!Become([mp EXCEPT ![n] = r], {}) /\ UNCHANGED <<stations, home, roams>>
  BY <1>3, <1>6, <1>7, <1>8, <1>9 DEF Data!FromStation
<1>11. s \in Data!Ends /\ s # n BY <1>4 DEF Data!Ends
<1>12. mp[n] \in MpState /\ mp[n].up = <<>> BY DEF DataInv, DataTypes
<1>13. f \in MeshFrame /\ f.type = "data" /\ f.id = i /\ f.SA = s /\ f.DA = dst
  <2>1. n \in Addrs /\ s \in Addrs /\ dst \in Addrs BY DEF Addrs, Data!Dests
  <2> QED BY <1>7, <2>1 DEF Data!Frame, MeshFrame
<1>14. dst = AnyMac => CastResult(n, mp[n], r, i, s) BY <1>8, <1>11, <1>12, <1>13, CastFromStation
<1>15. dst # AnyMac => OneResult(n, mp[n], r, i, s, dst) BY <1>8, <1>12, <1>13, OneFromStation
<1> QED BY <1>3, <1>10, <1>11, <1>14, <1>15, BeginStays

\* The frame at the head of a queue is on its way.
LEMMA TransmitStays ==
  ASSUME Data!DataAssumption, Data!LongLife, DataInv, NEW n \in MPs, Data!Transmit(n)
  PROVE  DataInv'
<1>0. mp \in [MPs -> MpState] /\ \A m \in MPs : mp[m].up = <<>> /\ EachOnce(mp[m].queue)
  BY DEF DataInv, DataTypes
<1>1. PICK q : q = mp[n].queue OBVIOUS
<1>2. q \in Seq(MeshFrame) /\ EachOnce(q) /\ q # <<>> BY <1>0, <1>1 DEF MpState, Data!Transmit
<1>3. PICK f : f = Head(q) OBVIOUS
<1>4. /\ Tail(q) \in Seq(MeshFrame) /\ EachOnce(Tail(q)) /\ FramesOf(Tail(q)) \subseteq FramesOf(q)
      /\ f \in FramesOf(q) /\ f \in MeshFrame /\ \A g \in FramesOf(Tail(q)) : Differ(g, f)
  BY <1>2, <1>3, HeadLeaves
<1>5. PICK b : b = [mp EXCEPT ![n].queue = Tail(q)] OBVIOUS
<1>6. /\ b \in [MPs -> MpState]
      /\ \A m \in MPs : /\ b[m].queue = (IF m = n THEN Tail(q) ELSE mp[m].queue)
                        /\ b[m].seen = mp[m].seen /\ b[m].up = mp[m].up
  <2> DEFINE c == [mp EXCEPT ![n].queue = Tail(q)]
  <2>1. /\ c \in [MPs -> MpState]
        /\ \A m \in MPs : /\ c[m].queue = (IF m = n THEN Tail(q) ELSE mp[m].queue)
                          /\ c[m].seen = mp[m].seen /\ c[m].up = mp[m].up
    BY ZenonT(30), <1>0, <1>4, QueueIsNow
  <2> HIDE DEF c
  <2>2. b = c BY <1>5 DEF c
  <2> QED BY <2>1, <2>2
<1>7. Base(b) BY <1>0, <1>1, <1>4, <1>6 DEF Base
<1>8. \A g \in FramesOf(b[n].queue) : Differ(g, f) BY <1>4, <1>6
<1>9. f \in FramesOf(mp[n].queue) /\ FrameOK(n, f) BY <1>1, <1>4 DEF DataInv
<1> DEFINE near == IF f.type = "data" THEN {} ELSE
                   IF f.RA = AnyMac THEN {m \in MPs : <<n, m>> \in InRange}
                   ELSE {f.RA} \cap {m \in MPs : <<n, m>> \in InRange}
           own == IF f.type = "data" THEN {s \in Stations : home[s] = n /\ f.RA \in {AnyMac, s}} ELSE {}
           New(lost) == [m \in MPs |->
                           IF m \notin near \ lost THEN b[m]
                           ELSE IF f.RA = AnyMac THEN Data!ReceiveDataBroadcast(m, b[m], f)
                           ELSE Data!ReceiveDataUnicast(m, b[m], f)]
<1>10. PICK lost : Data!Become(New(lost), {<<s, f.id>> : s \in own \ lost}) /\ UNCHANGED <<stations, home, sent, roams>>
  <2> DEFINE f0 == Head(mp[n].queue)
             b0 == [mp EXCEPT ![n].queue = Tail(@)]
             near0 == IF f0.type = "data" THEN {} ELSE
                      IF f0.RA = AnyMac THEN {m \in MPs : <<n, m>> \in InRange}
                      ELSE {f0.RA} \cap {m \in MPs : <<n, m>> \in InRange}
             own0 == IF f0.type = "data" THEN {s \in Stations : home[s] = n /\ f0.RA \in {AnyMac, s}} ELSE {}
             New0(lost) == [m \in MPs |->
                              IF m \notin near0 \ lost THEN b0[m]
                              ELSE IF f0.RA = AnyMac THEN Data!ReceiveDataBroadcast(m, b0[m], f0)
                              ELSE Data!ReceiveDataUnicast(m, b0[m], f0)]
             Heard0(lost) == {<<s, f0.id>> : s \in own0 \ lost}
             Heard(lost) == {<<s, f.id>> : s \in own \ lost}
  <2>1. PICK lost : Data!Become(New0(lost), Heard0(lost)) /\ UNCHANGED <<stations, home, sent, roams>>
    BY Zenon DEF Data!Transmit
  <2>2. f0 = f /\ b0 = b BY <1>1, <1>3, <1>5
  <2> HIDE DEF f0, b0
  <2>3. near0 = near /\ own0 = own BY <2>2
  <2> HIDE DEF near0, near, own0, own
  <2>4. New0(lost) = New(lost) BY <2>2, <2>3
  <2>5. Heard0(lost) = Heard(lost) BY <2>2, <2>3
  <2> HIDE DEF New0, New, Heard0, Heard
  <2>6. Data!Become(New(lost), Heard(lost)) /\ UNCHANGED <<stations, home, sent, roams>>
    BY <2>1, <2>4, <2>5
  <2> QED BY <2>6 DEF Heard
<1>11. near \subseteq MPs /\ own \subseteq Stations /\ (near # {} => f.type # "data") /\ (own # {} => f.type = "data")
  OBVIOUS
<1>12. PICK new : new = New(lost) OBVIOUS
<1>13. \A m \in MPs : new[m] = IF m \notin near \ lost THEN b[m]
                               ELSE IF f.RA = AnyMac THEN Data!ReceiveDataBroadcast(m, b[m], f)
                               ELSE Data!ReceiveDataUnicast(m, b[m], f)
  BY <1>12
<1>14. f.id \in 1 .. Len(sent) /\ f.SA = sent[f.id][1] /\ f.DA = sent[f.id][2] BY <1>9 DEF FrameOK
<1>15. sent[f.id] \in Data!Ends \X Data!Dests BY <1>14 DEF DataInv, DataTypes
<1>16. PICK src \in Data!Ends : src = f.SA BY <1>14, <1>15
<1>17. PICK dst \in Data!Dests : dst = f.DA BY <1>14, <1>15
<1>18. sent[f.id] = <<src, dst>> BY <1>14, <1>15, <1>16, <1>17
<1>19. SentIs(f.id, src, dst) BY <1>10, <1>14, <1>18 DEF SentIs
<1>20. f.type \in {"mesh", "data"} /\ f.id \in Nat BY <1>4 DEF MeshFrame
<1>21. Data!Become(new, {<<s, f.id>> : s \in own \ lost}) BY <1>10, <1>12
<1>22. \A m \in MPs : b[m] \in MpState /\ b[m].up = <<>> BY <1>0, <1>6
<1>23. CASE dst = AnyMac /\ f.type = "data"
  <2>1. new = b
    <3>1. near = {} BY <1>23
    <3>2. New(lost) = [m \in MPs |-> b[m]] BY <3>1
    <3>3. b = [m \in MPs |-> b[m]] BY <1>6
    <3> QED BY <1>12, <3>2, <3>3
  <2>2. PICK S : S = own \ lost OBVIOUS
  <2>3. S \in SUBSET Stations /\ \A s \in S : home[s] = n BY <2>2
  <2>4. Data!Become(b, {<<s, f.id>> : s \in S}) BY <1>21, <2>1, <2>2
  <2>5. sent[f.id] = <<src, AnyMac>> BY <1>18, <1>23
  <2> HIDE DEF near, own, New
  <2> QED BY <1>4, <1>7, <1>8, <1>9, <1>10, <1>14, <1>23, <2>3, <2>4, <2>5, CastHeard
<1>24. CASE dst = AnyMac /\ f.type = "mesh"
  <2>1. f.RA = AnyMac BY <1>9, <1>17, <1>24 DEF FrameOK
  <2>2. own = {} BY <1>24
  <2>3. {<<s, f.id>> : s \in own \ lost} = {} BY <2>2
  <2>4. Data!Become(new, {}) BY <1>21, <2>3
  <2>5. \A m \in MPs : new[m] = b[m] \/ new[m] = Data!ReceiveDataBroadcast(m, b[m], f)
    BY <1>13, <2>1
  <2> HIDE DEF near, own, New
  <2>6. \A m \in MPs : new[m] = b[m] \/ Takes(m, f, b[m], new[m])
    BY <1>4, <1>22, <2>5, CastReceived
  <2>7. \A m \in MPs : new[m] \in MpState BY <1>22, <2>6 DEF Takes, Adds
  <2>8. new \in [MPs -> MpState] BY <1>12, <2>7 DEF New
  <2>9. sent[f.id] = <<src, AnyMac>> BY <1>18, <1>24
  <2> QED BY <1>4, <1>7, <1>8, <1>9, <1>10, <1>14, <1>24, <2>4, <2>6, <2>8, <2>9, CastRelayed
<1>25. CASE dst # AnyMac
  <2>1. OneOK(f.id) BY <1>14, <1>17, <1>25 DEF DataInv, PacketOK
  <2>2. \A x \in Data!Ends : dataGot[x][f.id] = 0 BY <1>9, <2>1 DEF OneOK
  <2>3. \A m \in MPs : \A g \in FramesOf(b[m].queue) : g.id # f.id
    <3> SUFFICES ASSUME NEW m \in MPs, NEW g \in FramesOf(b[m].queue), g.id = f.id PROVE FALSE
      OBVIOUS
    <3>1. g \in FramesOf(mp[m].queue) BY <1>7 DEF Base
    <3>2. m = n /\ g.type = f.type BY <1>9, <2>1, <3>1 DEF OneOK
    <3> QED BY <1>8, <3>2 DEF Differ
  <2>4. CASE f.type = "data"
    <3>1. new = b
      <4>1. near = {} BY <2>4
      <4>2. New(lost) = [m \in MPs |-> b[m]] BY <4>1
      <4>3. b = [m \in MPs |-> b[m]] BY <1>6
      <4> QED BY <1>12, <4>2, <4>3
    <3>2. f.RA = dst BY <1>9, <1>17, <2>4 DEF FrameOK
    <3>3. own \subseteq {dst} BY <1>25, <3>2
    <3>4. PICK hs : hs = {<<s, f.id>> : s \in own \ lost} OBVIOUS
    <3>5. \A h \in hs : h = <<dst, f.id>> BY <3>3, <3>4
    <3>6. hs # {} => dst \in Stations BY <1>11, <3>3, <3>4
    <3>7. OneResult(n, b[n], b[n], f.id, src, dst) BY <1>22, Dropped
    <3>8. Data!Become(b, hs) BY <1>21, <3>1, <3>4
    <3>9. b \in [MPs -> MpState] BY <1>6
    <3>10. dst \in Data!Dests \ {AnyMac} BY <1>25
    <3> HIDE DEF near, own, New
    <3> QED BY <1>7, <1>10, <1>19, <2>2, <2>3, <3>5, <3>6, <3>7, <3>8, <3>9, <3>10, OneStep
  <2>5. CASE f.type = "mesh"
    <3>1. f.RA # AnyMac BY <1>9, <1>17, <1>25, <2>5 DEF FrameOK
    <3>2. own = {} BY <2>5
    <3>3. {<<s, f.id>> : s \in own \ lost} = {} BY <3>2
    <3>4. Data!Become(new, {}) BY <1>21, <3>3
    <3>5. near \subseteq {f.RA} BY <2>5, <3>1
    <3>6. \A m \in MPs : m # f.RA => new[m] = b[m] BY <1>13, <3>5
    <3>7. \A m \in MPs : new[m] = b[m] \/ new[m] = Data!ReceiveDataUnicast(m, b[m], f)
      BY <1>13, <3>1
    <3> HIDE DEF near, own, New
    <3>8. dst \in Data!Dests \ {AnyMac} BY <1>25
    <3>9. \A m \in MPs : OneResult(m, b[m], Data!ReceiveDataUnicast(m, b[m], f), f.id, src, dst)
      BY <1>4, <1>16, <1>17, <1>22, <2>5, <3>8, OneFromMesh
    <3>10. \A m \in MPs : OneResult(m, b[m], b[m], f.id, src, dst) BY <1>22, Dropped
    <3>11. \A m \in MPs : OneResult(m, b[m], new[m], f.id, src, dst) BY <3>7, <3>9, <3>10
    <3>12. \A m \in MPs : new[m] \in MpState BY <3>11, ResultIsState
    <3>13. new \in [MPs -> MpState] BY <1>12, <3>12 DEF New
    <3>14. PICK k \in MPs : \A m \in MPs : m # k => new[m] = b[m]
      <4>1. CASE f.RA \in MPs BY <3>6, <4>1
      <4>2. CASE f.RA \notin MPs BY <3>6, <4>2
      <4> QED BY <4>1, <4>2
    <3>15. OneResult(k, b[k], new[k], f.id, src, dst) BY <3>11
    <3>16. UNCHANGED <<stations, home, roams>> BY <1>10
    <3>17. \A h \in {} : h = <<dst, f.id>> OBVIOUS
    <3> QED BY <1>7, <1>19, <2>2, <2>3, <3>4, <3>8, <3>13, <3>14, <3>15, <3>16, <3>17, OneStep
  <2> QED BY <1>20, <2>4, <2>5
<1> QED BY <1>20, <1>23, <1>24, <1>25

-----------------------------------------------------------------------------
(* Every step keeps what is promised of the packets. *)

\* Before the first packet.
LEMMA DataInit == ASSUME Data!DataAssumption, Data!Init PROVE DataInv
<1>1. MAPs \subseteq MPs /\ Homes \subseteq [Stations -> MAPs] /\ MaxSends \in Nat
  BY DEF Data!DataAssumption
<1>2. home \in [Stations -> MAPs] /\ sent = <<>> /\ roams = 0 BY <1>1 DEF Data!Init
<1>3. stations = [m \in MAPs |-> {s \in Stations : home[s] = m}] BY DEF Data!Init
<1>4. \A n \in MPs : mp[n] = [queue |-> <<>>, seen |-> {}, e2e |-> [d \in Data!Dests |-> 0], up |-> <<>>]
  BY DEF Data!Init
<1>5. \A n \in MPs : mp[n] \in MpState /\ mp[n].queue = <<>> /\ mp[n].up = <<>>
  <2> SUFFICES ASSUME NEW n \in MPs PROVE mp[n] \in MpState /\ mp[n].queue = <<>> /\ mp[n].up = <<>>
    OBVIOUS
  <2>1. <<>> \in Seq(MeshFrame) /\ <<>> \in Seq(Nat) /\ {} \in SUBSET Keys OBVIOUS
  <2> DEFINE none == [d \in Data!Dests |-> 0]
  <2>2. none \in [Data!Dests -> Nat] OBVIOUS
  <2> HIDE DEF none
  <2>3. mp[n] = [queue |-> <<>>, seen |-> {}, e2e |-> none, up |-> <<>>] BY <1>4 DEF none
  <2> QED BY <2>1, <2>2, <2>3 DEF MpState
<1>6. mp \in [MPs -> MpState]
  <2>1. mp = [n \in MPs |-> mp[n]] BY DEF Data!Init
  <2> QED BY <1>5, <2>1
<1>7. dataGot \in [Data!Ends -> [Data!Ids -> Nat]] /\ \A x \in Data!Ends, i \in Data!Ids : dataGot[x][i] = 0
  BY DEF Data!Init
<1>8. stations \in [MAPs -> SUBSET Stations] /\ \A s \in Stations : s \in stations[home[s]]
  BY <1>2, <1>3
<1>9. sent \in Seq(Data!Ends \X Data!Dests) /\ Len(sent) = 0 BY <1>2
<1>10. DataTypes BY <1>1, <1>2, <1>5, <1>6, <1>7, <1>8, <1>9 DEF DataTypes
<1>11. \A n \in MPs : EachOnce(mp[n].queue) /\ FramesOf(mp[n].queue) = {}
  BY <1>5 DEF EachOnce, FramesOf
<1>12. 1 .. Len(sent) = {} BY <1>9
<1> QED BY <1>7, <1>10, <1>11, <1>12 DEF DataInv

\* Nothing changes.
LEMMA DataRests == ASSUME Data!DataAssumption, DataInv, UNCHANGED Data!vars PROVE DataInv'
<1>1. mp' = mp /\ stations' = stations /\ home' = home /\ dataGot' = dataGot /\ sent' = sent /\ roams' = roams
  BY DEF Data!vars
<1>2. DataTypes' BY <1>1 DEF DataInv, DataTypes
<1>3. \A n \in MPs : EachOnce(mp'[n].queue) BY <1>1 DEF DataInv
<1> QED BY <1>1, <1>2, <1>3, LossStays

\* Every step keeps the invariant.
LEMMA DataStep ==
  ASSUME Data!DataAssumption, Data!LongLife, DataInv, [Data!Next]_Data!vars
  PROVE  DataInv'
<1>1. CASE \E x \in Sends : x[1] \in MPs /\ Data!FromNetwork(x[1], x[2]) BY <1>1, NetworkStays
<1>2. CASE \E x \in Sends : x[1] \in Stations /\ Data!FromStation(x[1], x[2]) BY <1>2, StationStays
<1>3. CASE \E n \in MPs : Data!Transmit(n) \/ Data!AgeQueue(n) \/ Data!AgeSeen(n)
  BY <1>3, TransmitStays, AgeQueueStays, AgeSeenStays
<1>4. CASE \E n \in MPs, hop, dst \in Data!Dests : Data!DeletePacketsToNode(n, hop, dst)
  BY <1>4, DeleteStays
<1>5. CASE \E s \in Stations, m \in MAPs : Data!StationAssociateEvent(s, m)
  BY <1>5, AssociateStays
<1>6. CASE Data!Over \/ UNCHANGED Data!vars
  <2>1. UNCHANGED Data!vars BY <1>6 DEF Data!Over
  <2> QED BY <2>1, DataRests
<1> QED BY <1>1, <1>2, <1>3, <1>4, <1>5, <1>6 DEF Data!Next

\* Who has got what the invariant allows has got what he should.
LEMMA DataPromise == ASSUME Data!DataAssumption, DataInv PROVE Data!NeverTwice
<1> SUFFICES ASSUME NEW i \in 1 .. Len(sent), NEW x \in Data!Ends
             PROVE  /\ dataGot[x][i] <= 1 \/ (x \in Stations /\ roams > 0)
                    /\ dataGot[x][i] > 0 =>
                         x \in Data!For(i) \/ (sent[i][2] = AnyMac /\ x \in Stations \cup Portals)
  BY DEF Data!NeverTwice
<1>1. PacketOK(i) /\ roams \in Nat BY DEF DataInv, DataTypes
<1>2. x \in MPs \/ x \in Stations BY DEF Data!Ends
<1>3. CASE sent[i][2] = AnyMac
  <2>1. CastOK(i) BY <1>1, <1>3 DEF PacketOK
  <2>2. dataGot[x][i] <= 1 \/ (x \in Stations /\ roams > 0) BY <1>1, <1>2, <2>1 DEF CastOK
  <2>3. dataGot[x][i] > 0 => x \in Data!For(i) \cup Stations \cup Portals BY <2>1 DEF CastOK
  <2> QED BY <1>3, <2>2, <2>3
<1>4. CASE sent[i][2] # AnyMac
  <2>1. OneOK(i) BY <1>1, <1>4 DEF PacketOK
  <2> QED BY <2>1 DEF OneOK
<1> QED BY <1>3, <1>4

\* Dot11s_ReceiveDataBroadcast and its neighbours: whatever copies of a packet go round a
\* mesh of any shape, and whatever is lost, dropped or given up on the way, nobody is handed
\* it twice or is handed one that is not for him, if a frame's life lasts once round the mesh.
THEOREM DataNeverTwice ==
  ASSUME Data!DataAssumption, Data!LongLife
  PROVE  Data!Spec => []Data!NeverTwice
<1>1. Data!Init => DataInv BY DataInit
<1>2. DataInv /\ [Data!Next]_Data!vars => DataInv' BY DataStep
<1>3. DataInv => Data!NeverTwice BY DataPromise
<1> QED BY <1>1, <1>2, <1>3, PTL DEF Data!Spec
=============================================================================
