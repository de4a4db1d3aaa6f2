---------------------------- MODULE NodeProof ----------------------------
(***************************************************************************)
(* Proofs about the parts of a node between its applications and its MAC.   *)
(*                                                                         *)
(* The queue of an interface (IfQueue), for every set of messages, every   *)
(* size and limit: the indices of the circular array stay consistent       *)
(* through growing and closing up, the array implements the list of        *)
(* PacketFifo, the bytes are those of its packets, and a queue that         *)
(* replaces another (IfQueueReplicate) takes over every packet in its place. *)
(*                                                                         *)
(* The forwarding table (ForwardingTable), for every width of an address   *)
(* and every set of types and interfaces: the first row that matches is    *)
(* the most specific one, and the rows follow the faults.                  *)
(*                                                                         *)
(* The path of a packet (IpPath), for every set of nodes and links: no      *)
(* backplane stops with a packet in it, a packet for one node is never in   *)
(* two places, and a node counts the members of its groups.                *)
(***************************************************************************)
EXTENDS IfQueueReplicate, FiniteSets, Bags, FiniteSetTheorems, SequenceTheorems,
        NaturalsInduction, WellFoundedInduction, TLAPS

\* The place of the i-th packet without a remainder: head and i are below max.
At(i) == IF head + i < max THEN head + i ELSE head + i - max

\* The ring: its indices are within the array and the tail follows the packets.
RingOK ==
  /\ max \in Nat \ {0, 1} /\ num \in 0 .. max
  /\ arr \in [0 .. max - 1 -> Entry]
  /\ head \in 0 .. max - 1 /\ tail \in 0 .. max - 1
  /\ \/ tail + 1 = head + num
     \/ tail + 1 = head + num - max
     \/ tail + 1 = head + num + max

\* The occupied entries hold messages.
PacketsOK == \A i \in 0 .. num - 1 : arr[At(i)].msg \in Msg

RestOK ==
  /\ used \in Int /\ used <= Limit
  /\ suspended \in BOOLEAN
  /\ out \in Msg \cup {NoMsg}
  /\ now \in 0 .. MaxTime

\* The inductive invariant of the array.  That used is not negative follows from
\* the list (BytesOK below): it is the sum of the sizes.
IInv == RingOK /\ PacketsOK /\ RestOK

-----------------------------------------------------------------------------
(* Lemmas about positions. *)

\* A remainder of less than twice the divisor.
LEMMA Remainder ==
  ASSUME NEW h \in Nat, NEW i \in Nat, NEW n \in Nat \ {0}, h < n, i <= n
  PROVE  (h + i) % n = IF h + i < n THEN h + i ELSE h + i - n
BY SMT

\* RetriveArrayIndex and At agree on the positions of the queue.
LEMMA AtIsIndex ==
  ASSUME RingOK, NEW i \in 0 .. num
  PROVE  /\ RetriveArrayIndex(i) = At(i)
         /\ At(i) \in 0 .. max - 1
<1>1. (head + i) % max = At(i)
  BY Remainder, SMT DEF RingOK, At
<1> QED BY <1>1, SMT DEF RingOK, At, RetriveArrayIndex

\* Different positions have different entries.
LEMMA AtIsInjective ==
  ASSUME RingOK, NEW i \in 0 .. num - 1, NEW j \in 0 .. num - 1, At(i) = At(j)
  PROVE  i = j
BY SMT DEF RingOK, At

\* The packets read off a ring, for the state before a step and the state after.
LEMMA ListOfRing ==
  ASSUME NEW x \in Nat \ {0, 1}, NEW n \in 0 .. x, NEW a \in [0 .. x - 1 -> Entry],
         NEW h \in 0 .. x - 1
  PROVE  LET c == [i \in 1 .. n |-> a[(h + (i - 1)) % x].msg] IN
         /\ c \in Seq(Msg \cup {NoMsg})
         /\ Len(c) = n
         /\ \A i \in 1 .. n :
              c[i] = a[IF h + (i - 1) < x THEN h + (i - 1) ELSE h + (i - 1) - x].msg
<1> DEFINE at(i) == IF h + i < x THEN h + i ELSE h + i - x
           c == [i \in 1 .. n |-> a[(h + (i - 1)) % x].msg]
<1>1. \A i \in 1 .. n : (h + (i - 1)) % x = at(i - 1) /\ at(i - 1) \in 0 .. x - 1
  <2> SUFFICES ASSUME NEW i \in 1 .. n
               PROVE  (h + (i - 1)) % x = at(i - 1) /\ at(i - 1) \in 0 .. x - 1
    OBVIOUS
  <2>1. i - 1 \in Nat /\ i - 1 <= x /\ h \in Nat /\ h < x /\ x \in Nat \ {0}
    BY SMT
  <2>2. (h + (i - 1)) % x = at(i - 1)
    BY <2>1, Remainder
  <2> QED BY <2>2, SMT
<1>2. \A i \in 1 .. n : a[at(i - 1)].msg \in Msg \cup {NoMsg}
  BY <1>1 DEF Entry
<1>3. c = [i \in 1 .. n |-> a[at(i - 1)].msg]
  BY <1>1
<1>4. n \in Nat
  BY SMT
<1>5. c \in [1 .. n -> Msg \cup {NoMsg}]
  BY <1>2, <1>3
<1>6. c \in Seq(Msg \cup {NoMsg}) /\ Len(c) = n
  <2> HIDE DEF c
  <2> QED BY <1>4, <1>5, SMT
<1> QED BY <1>3, <1>6

\* The list is as long as the queue and its packets are the occupied entries.
LEMMA ContentsFacts ==
  ASSUME RingOK
  PROVE  /\ Contents \in Seq(Msg \cup {NoMsg})
         /\ Len(Contents) = num
         /\ \A i \in 1 .. num : Contents[i] = arr[At(i - 1)].msg
BY ListOfRing DEF RingOK, Contents, RetriveArrayIndex, At

\* The same after a step.
LEMMA ContentsFactsNext ==
  ASSUME RingOK'
  PROVE  /\ Contents' \in Seq(Msg \cup {NoMsg})
         /\ Len(Contents') = num'
         /\ \A i \in 1 .. num' : Contents'[i] = arr'[At(i - 1)'].msg
BY ListOfRing DEF RingOK, Contents, RetriveArrayIndex, At

-----------------------------------------------------------------------------
(* What each way of changing the array does to the packets, by position. *)

\* The packets after m has been added behind them.
Extended(m) ==
  \A i \in 0 .. num : arr'[At(i)'].msg = IF i < num THEN arr[At(i)].msg ELSE m

\* The packets after the one at position index has been taken.
ClosedUp(index) ==
  \A i \in 0 .. num - 2 :
    arr'[At(i)'].msg = IF i < index THEN arr[At(i)].msg ELSE arr[At(i + 1)].msg

\* An array grown and straightened holds the packets in their order, and one more.
LEMMA GrowingExtends ==
  ASSUME RingOK, NEW m \in Msg, NEW t \in 0 .. MaxTime, InsertGrowing(m, t)
  PROVE  RingOK' /\ Extended(m)
<1> DEFINE e == [msg |-> m, time |-> t]
<1>1. /\ num = max /\ head' = 0 /\ tail' = max /\ max' = 2 * max /\ num' = num + 1
      /\ arr' = [Doubled EXCEPT ![max] = e]
  BY DEF InsertGrowing
<1>2. e \in Entry /\ NoEntry \in Entry
  BY QueueAssumption, SMT DEF Entry, NoEntry
<1>3. Doubled \in [0 .. 2 * max - 1 -> Entry]
  BY <1>2, SMT DEF RingOK, Doubled
<1>4. arr' \in [0 .. max' - 1 -> Entry]
  <2>1. arr' \in [0 .. 2 * max - 1 -> Entry]
    BY <1>1, <1>2, <1>3
  <2> QED BY <1>1, <2>1
<1>5. RingOK'
  BY <1>1, <1>4, SMT DEF RingOK
<1>6. ASSUME NEW i \in 0 .. num
      PROVE  arr'[At(i)'].msg = IF i < num THEN arr[At(i)].msg ELSE m
  <2>1. At(i)' = i
    BY <1>1, SMT DEF At, RingOK
  <2>2. CASE i = num
    BY <2>1, <2>2, <1>1, <1>3, SMT DEF RingOK
  <2>3. CASE i < num
    <3>1. i \in 0 .. 2 * max - 1 /\ i # max /\ i < max
      BY <2>3, <1>1, SMT DEF RingOK
    <3>2. Doubled[i] = arr[At(i)]
      BY <3>1, SMT DEF Doubled, At, RingOK
    <3>3. arr'[i] = Doubled[i]
      BY <3>1, <1>1, <1>3
    <3> QED BY <2>1, <2>3, <3>2, <3>3
  <2> QED BY <2>2, <2>3, SMT DEF RingOK
<1> QED BY <1>5, <1>6 DEF Extended

\* A packet put into the entry behind the tail is the last one.
LEMMA InPlaceExtends ==
  ASSUME RingOK, NEW m \in Msg, NEW t \in 0 .. MaxTime, InsertInPlace(m, t)
  PROVE  RingOK' /\ Extended(m)
<1> DEFINE e == [msg |-> m, time |-> t]
<1>1. /\ num # max /\ tail' = (IF tail + 1 = max THEN 0 ELSE tail + 1)
      /\ arr' = [arr EXCEPT ![tail'] = e]
      /\ num' = num + 1 /\ head' = head /\ max' = max
  BY DEF InsertInPlace
<1>2. e \in Entry
  BY SMT DEF Entry
<1>3. tail' \in 0 .. max - 1
  BY <1>1, SMT DEF RingOK
<1>4. arr' \in [0 .. max' - 1 -> Entry]
  BY <1>1, <1>2, <1>3 DEF RingOK
<1>5. tail' = At(num)
  BY <1>1, SMT DEF RingOK, At
<1>6. RingOK'
  BY <1>1, <1>3, <1>4, SMT DEF RingOK
<1>7. ASSUME NEW i \in 0 .. num
      PROVE  arr'[At(i)'].msg = IF i < num THEN arr[At(i)].msg ELSE m
  <2>1. At(i)' = At(i) /\ At(i) \in 0 .. max - 1
    BY <1>1, SMT DEF At, RingOK
  <2>2. CASE i = num
    BY <2>1, <2>2, <1>1, <1>3, <1>5 DEF RingOK
  <2>3. CASE i < num
    <3>1. At(i) # tail'
      BY <2>3, <1>1, SMT DEF At, RingOK
    <3>2. arr'[At(i)] = arr[At(i)]
      BY <3>1, <2>1, <1>1 DEF RingOK
    <3> QED BY <2>1, <2>3, <3>2
  <2> QED BY <2>2, <2>3, SMT DEF RingOK
<1> QED BY <1>6, <1>7 DEF Extended

\* Taking the first packet moves every other one up by one.
LEMMA HeadCloses ==
  ASSUME RingOK, num > 0, TakeHead, num' = num - 1, max' = max
  PROVE  RingOK' /\ ClosedUp(0)
<1>1. /\ head' = (IF head + 1 = max THEN 0 ELSE head + 1)
      /\ arr' = arr /\ tail' = tail
  BY DEF TakeHead
<1>2. RingOK'
  BY <1>1, SMT DEF RingOK
<1>3. ASSUME NEW i \in 0 .. num - 2
      PROVE  At(i)' = At(i + 1) /\ ~ (i < 0)
  BY <1>1, SMT DEF At, RingOK
<1> QED BY <1>1, <1>2, <1>3 DEF ClosedUp

\* So does closing up the entries behind a packet taken from the middle.
LEMMA MiddleCloses ==
  ASSUME RingOK, NEW index \in 1 .. num - 1, num' = num - 1, max' = max,
         \/ TakeTail(At(index))
         \/ TakeBeforeTail(At(index))
         \/ TakeAcrossEnd(At(index))
  PROVE  RingOK' /\ ClosedUp(index)
<1>1. head' = head /\ tail' = (IF tail = 0 THEN max - 1 ELSE tail - 1)
  BY DEF TakeTail, TakeBeforeTail, TakeAcrossEnd, TailBack
<1>2. At(index) \in 0 .. max - 1
  BY SMT DEF At, RingOK
<1>3. \A i \in 0 .. num - 2 : At(i)' = At(i)
  BY <1>1 DEF At
<1>4. ASSUME arr' \in [0 .. max - 1 -> Entry]
      PROVE  RingOK'
  BY <1>1, <1>4, SMT DEF RingOK
<1>5. CASE TakeTail(At(index))
  <2>1. arr' = arr /\ At(index) = tail
    BY <1>5 DEF TakeTail
  <2>2. index = num - 1
    BY <2>1, SMT DEF At, RingOK
  <2>3. \A i \in 0 .. num - 2 : i < index
    BY <2>2, SMT DEF RingOK
  <2>4. ClosedUp(index)
    BY <1>3, <2>1, <2>3 DEF ClosedUp
  <2> QED BY <1>4, <2>1, <2>4 DEF RingOK
<1>6. CASE TakeBeforeTail(At(index))
  <2>1. /\ At(index) < tail
        /\ arr' = [j \in DOMAIN arr |->
                     IF At(index) <= j /\ j < tail THEN arr[j + 1] ELSE arr[j]]
    BY <1>6 DEF TakeBeforeTail
  <2>2. DOMAIN arr = 0 .. max - 1
    BY DEF RingOK
  <2>3. arr' \in [0 .. max - 1 -> Entry]
    <3>1. \A j \in 0 .. max - 1 : j < tail => j + 1 \in 0 .. max - 1
      BY SMT DEF RingOK
    <3>2. \A j \in 0 .. max - 1 :
            (IF At(index) <= j /\ j < tail THEN arr[j + 1] ELSE arr[j]) \in Entry
      BY <3>1 DEF RingOK
    <3> QED BY <2>1, <2>2, <3>2
  <2>4. ASSUME NEW i \in 0 .. num - 2
        PROVE  arr'[At(i)'].msg = IF i < index THEN arr[At(i)].msg ELSE arr[At(i + 1)].msg
    <3>1. At(i)' = At(i) /\ At(i) \in 0 .. max - 1
      BY <1>3, SMT DEF At, RingOK
    <3>2. arr'[At(i)] = IF At(index) <= At(i) /\ At(i) < tail
                        THEN arr[At(i) + 1] ELSE arr[At(i)]
      BY <2>1, <2>2, <3>1
    <3>3. CASE i < index
      <4>1. ~ (At(index) <= At(i) /\ At(i) < tail)
        BY <3>3, <2>1, SMT DEF At, RingOK
      <4> QED BY <3>1, <3>2, <3>3, <4>1
    <3>4. CASE ~ (i < index)
      <4>1. At(index) <= At(i) /\ At(i) < tail /\ At(i + 1) = At(i) + 1
        BY <3>4, <2>1, SMT DEF At, RingOK
      <4> QED BY <3>1, <3>2, <3>4, <4>1
    <3> QED BY <3>3, <3>4
  <2> QED BY <1>4, <2>3, <2>4 DEF ClosedUp
<1>7. CASE TakeAcrossEnd(At(index))
  <2>1. /\ tail < At(index)
        /\ arr' = [j \in DOMAIN arr |->
                     IF At(index) <= j /\ j < max - 1 THEN arr[j + 1]
                     ELSE IF j = max - 1 THEN arr[0]
                     ELSE IF j < tail THEN arr[j + 1]
                     ELSE arr[j]]
    BY <1>7 DEF TakeAcrossEnd
  <2>2. DOMAIN arr = 0 .. max - 1
    BY DEF RingOK
  <2>3. arr' \in [0 .. max - 1 -> Entry]
    BY <2>1, <2>2, <1>2, SMT DEF RingOK
  <2>4. ASSUME NEW i \in 0 .. num - 2
        PROVE  arr'[At(i)'].msg = IF i < index THEN arr[At(i)].msg ELSE arr[At(i + 1)].msg
    <3>1. At(i)' = At(i) /\ At(i) \in 0 .. max - 1
      BY <1>3, SMT DEF At, RingOK
    <3>2. arr'[At(i)] = IF At(index) <= At(i) /\ At(i) < max - 1 THEN arr[At(i) + 1]
                        ELSE IF At(i) = max - 1 THEN arr[0]
                        ELSE IF At(i) < tail THEN arr[At(i) + 1]
                        ELSE arr[At(i)]
      BY <2>1, <2>2, <3>1
    <3>3. CASE i < index
      <4>1. /\ ~ (At(index) <= At(i) /\ At(i) < max - 1)
            /\ At(i) # max - 1
            /\ ~ (At(i) < tail)
        BY <3>3, <2>1, SMT DEF At, RingOK
      <4> QED BY <3>1, <3>2, <3>3, <4>1
    <3>4. CASE ~ (i < index)
      <4>1. CASE At(i) = max - 1
        <5>1. At(i + 1) = 0 /\ ~ (At(i) < max - 1)
          BY <3>4, <4>1, SMT DEF At, RingOK
        <5> QED BY <3>1, <3>2, <3>4, <4>1, <5>1
      <4>2. CASE At(i) # max - 1
        <5>1. At(i + 1) = At(i) + 1 /\ ((At(index) <= At(i) /\ At(i) < max - 1) \/ At(i) < tail)
          BY <3>4, <4>2, <2>1, SMT DEF At, RingOK
        <5> QED BY <3>1, <3>2, <3>4, <4>2, <5>1
      <4> QED BY <4>1, <4>2
    <3> QED BY <3>3, <3>4
  <2> QED BY <1>4, <2>3, <2>4 DEF ClosedUp
<1> QED BY <1>5, <1>6, <1>7

-----------------------------------------------------------------------------
(* One step: the invariant is kept, and the list changes as PacketFifo says. *)

\* Two lists with the same messages at the same places are the same.
LEMMA SameContents ==
  ASSUME RingOK, RingOK', num' = num,
         \A i \in 0 .. num - 1 : arr'[At(i)'].msg = arr[At(i)].msg
  PROVE  Contents' = Contents
<1>1. \A i \in 1 .. num : i - 1 \in 0 .. num - 1
  BY SMT DEF RingOK
<1>2. \A i \in 1 .. num : Contents'[i] = Contents[i]
  BY <1>1, ContentsFacts, ContentsFactsNext
<1> QED BY <1>2, ContentsFacts, ContentsFactsNext, SMT

\* The list of an extended ring.
LEMMA ExtendedContents ==
  ASSUME RingOK, RingOK', NEW m \in Msg, num' = num + 1, Extended(m)
  PROVE  Contents' = Append(Contents, m)
<1>1. \A i \in 1 .. num + 1 : i - 1 \in 0 .. num /\ (i - 1 < num <=> i \in 1 .. num)
  BY SMT DEF RingOK
<1>2. \A i \in 1 .. num + 1 : Contents'[i] = IF i \in 1 .. num THEN Contents[i] ELSE m
  BY <1>1, ContentsFacts, ContentsFactsNext DEF Extended
<1>3. Len(Contents') = Len(Contents) + 1 /\ Len(Contents) \in Nat
  <2>1. num \in Nat
    BY SMT DEF RingOK
  <2> QED BY <2>1, ContentsFacts, ContentsFactsNext
<1>4. m \in Msg \cup {NoMsg}
  OBVIOUS
<1> QED BY <1>2, <1>3, <1>4, ContentsFacts, ContentsFactsNext, SMT

\* The list of a ring closed up.
LEMMA ClosedUpContents ==
  ASSUME RingOK, RingOK', NEW index \in 0 .. num - 1, num' = num - 1, ClosedUp(index)
  PROVE  Contents' = Fifo!Without(index + 1)
<1>1. \A i \in 1 .. num - 1 : /\ i - 1 \in 0 .. num - 2 /\ (i - 1) + 1 = i /\ i + 1 \in 1 .. num
                               /\ (i - 1 < index <=> i < index + 1) /\ i \in 1 .. num
                               /\ (i + 1) - 1 = i
  BY SMT DEF RingOK
<1>2. \A i \in 1 .. num - 1 :
        Contents'[i] = IF i < index + 1 THEN Contents[i] ELSE Contents[i + 1]
  <2> SUFFICES ASSUME NEW i \in 1 .. num - 1
               PROVE  Contents'[i] = IF i < index + 1 THEN Contents[i] ELSE Contents[i + 1]
    OBVIOUS
  <2>1. Contents'[i] = arr'[At(i - 1)'].msg
    <3>1. i \in 1 .. num'
      BY <1>1
    <3> QED BY <3>1, ContentsFactsNext
  <2>2. arr'[At(i - 1)'].msg = IF i - 1 < index THEN arr[At(i - 1)].msg ELSE arr[At((i - 1) + 1)].msg
    BY <1>1 DEF ClosedUp
  <2>3. Contents[i] = arr[At(i - 1)].msg /\ Contents[i + 1] = arr[At((i + 1) - 1)].msg
    BY <1>1, ContentsFacts
  <2> QED BY <1>1, <2>1, <2>2, <2>3
<1>3. Contents' = [i \in 1 .. num - 1 |-> Contents'[i]]
  BY DEF Contents
<1> QED BY <1>2, <1>3, ContentsFacts DEF Fifo!Without

-----------------------------------------------------------------------------
\* The packets stay messages.
LEMMA ExtendedPackets ==
  ASSUME IInv, NEW m \in Msg, num' = num + 1, Extended(m)
  PROVE  PacketsOK'
<1>1. \A i \in 0 .. num : i < num => i \in 0 .. num - 1
  BY SMT DEF IInv, RingOK
<1>2. \A i \in 0 .. num : arr'[At(i)'].msg \in Msg
  BY <1>1 DEF IInv, PacketsOK, Extended
<1>3. 0 .. num' - 1 = 0 .. num
  BY SMT DEF IInv, RingOK
<1> QED BY <1>2, <1>3 DEF PacketsOK

\* A ring closed up holds messages in its occupied entries.
LEMMA ClosedUpPackets ==
  ASSUME IInv, NEW index \in 0 .. num - 1, num' = num - 1, ClosedUp(index)
  PROVE  PacketsOK'
<1>1. \A i \in 0 .. num - 2 : i \in 0 .. num - 1 /\ i + 1 \in 0 .. num - 1
  BY SMT DEF IInv, RingOK
<1>2. \A i \in 0 .. num - 2 : arr'[At(i)'].msg \in Msg
  BY <1>1 DEF IInv, PacketsOK, ClosedUp
<1>3. 0 .. num' - 1 = 0 .. num - 2
  BY SMT DEF IInv, RingOK
<1> QED BY <1>2, <1>3 DEF PacketsOK

\* The array with the clock and the statistics left out.
ringVars == <<arr, head, tail, num, max>>

\* A step that leaves the ring alone leaves the list alone.
LEMMA UnchangedRing ==
  ASSUME IInv, UNCHANGED ringVars
  PROVE  RingOK' /\ PacketsOK' /\ Contents' = Contents
BY DEF IInv, ringVars, RingOK, PacketsOK, At, Contents, RetriveArrayIndex

\* The first state of the array is the empty list.
LEMMA InitOK == Init => IInv /\ Fifo!Init
<1> SUFFICES ASSUME Init PROVE IInv /\ Fifo!Init
  OBVIOUS
<1>1. NoEntry \in Entry
  BY QueueAssumption, SMT DEF NoEntry, Entry
<1>2. RingOK
  BY <1>1, QueueAssumption, SMT DEF Init, RingOK
<1>3. PacketsOK
  <2>1. num = 0 /\ 0 .. num - 1 = {}
    BY SMT DEF Init
  <2> QED BY <2>1 DEF PacketsOK
<1>4. RestOK
  <2>1. 0 <= Limit /\ 0 \in 0 .. MaxTime
    BY QueueAssumption, SMT
  <2>2. used \in Int /\ used <= Limit
    BY <2>1, SMT DEF Init
  <2> QED BY <2>1, <2>2 DEF Init, RestOK
<1>5. Contents = <<>>
  <2>1. Len(Contents) = 0 /\ Contents \in Seq(Msg \cup {NoMsg})
    BY <1>2, ContentsFacts DEF Init
  <2> QED BY <2>1, SMT
<1> QED BY <1>2, <1>3, <1>4, <1>5 DEF IInv, Fifo!Init, Init

\* A message is in the one queue when it is in the other.
LEMMA SameQueued == IInv => Queued = Fifo!Queued
BY ContentsFacts DEF IInv, Queued, Fifo!Queued

\* Insert, as a step of the invariant and of the list.
LEMMA InsertStep ==
  ASSUME IInv, NEW m \in Msg, NEW t \in 0 .. MaxTime, insert(m, t)
  PROVE  IInv' /\ (Fifo!Accept(m) \/ Fifo!Refuse(m))
<1>1. /\ RingOK /\ m \notin Fifo!Queued
      /\ used \in Int /\ Limit \in Int /\ Size[m] \in Int /\ now \in 0 .. MaxTime
  BY SameQueued, QueueAssumption DEF IInv, insert, RestOK
<1>2. UNCHANGED <<suspended, now>>
  BY DEF insert
<1>3. CASE TailDrop(m)
  <2>1. UNCHANGED ringVars /\ used' = used /\ out' = m
    BY <1>3 DEF TailDrop, ringVars
  <2>2. used + Size[m] > Limit
    BY <1>1, <1>3, SMT DEF TailDrop, HasRoom
  <2>3. IInv'
    BY <1>2, <2>1, UnchangedRing DEF IInv, RestOK
  <2> QED BY <1>1, <1>2, <2>1, <2>2, <2>3, UnchangedRing DEF Fifo!Refuse
<1>4. ASSUME HasRoom(m), RingOK', Extended(m), num' = num + 1,
             used' = used + Size[m], out' = NoMsg
      PROVE  IInv' /\ Fifo!Accept(m)
  <2>1. used + Size[m] <= Limit
    BY <1>1, <1>4, SMT DEF HasRoom
  <2>2. RestOK'
    BY <1>1, <1>2, <1>4, <2>1 DEF IInv, RestOK
  <2>3. Contents' = Append(Contents, m)
    BY <1>1, <1>4, ExtendedContents
  <2> QED BY <1>1, <1>2, <1>4, <2>1, <2>2, <2>3, ExtendedPackets DEF IInv, Fifo!Accept
<1>5. CASE InsertGrowing(m, t)
  BY <1>1, <1>4, <1>5, GrowingExtends DEF InsertGrowing
<1>6. CASE InsertInPlace(m, t)
  BY <1>1, <1>4, <1>6, InPlaceExtends DEF InsertInPlace
<1> QED BY <1>3, <1>5, <1>6 DEF insert

\* Retrieve and dequeue, as a step of the invariant and of the list.
LEMMA TakeStep ==
  ASSUME IInv, NEW index \in 0 .. num, NEW counted \in BOOLEAN, Take(index, counted)
  PROVE  IInv' /\ Fifo!Take(index + 1)
<1>1. /\ RingOK /\ num \in Nat /\ num' = num - 1 /\ max' = max
      /\ index < num /\ ~suspended /\ UNCHANGED <<suspended, now>>
      /\ out' = arr[RetriveArrayIndex(index)].msg
      /\ used' = used - Size[arr[RetriveArrayIndex(index)].msg]
  BY SMT DEF IInv, RingOK, Take, CanRetrieve
<1>2. index \in 0 .. num - 1 /\ index + 1 \in 1 .. num /\ index + 1 - 1 = index /\ num > 0
  BY <1>1, SMT
<1>3. RetriveArrayIndex(index) = At(index)
  BY <1>1, AtIsIndex
<1>4. RingOK' /\ ClosedUp(index)
  <2>1. CASE index = 0
    BY <1>1, <1>2, <2>1, HeadCloses DEF Take
  <2>2. CASE index > 0
    <3>1. index \in 1 .. num - 1
      BY <1>2, <2>2, SMT
    <3> QED BY <1>1, <1>3, <2>2, <3>1, MiddleCloses DEF Take
  <2> QED BY <2>1, <2>2 DEF Take
<1>5. Contents[index + 1] = arr[At(index)].msg
  BY <1>1, <1>2, ContentsFacts
<1>6. arr[At(index)].msg \in Msg
  BY <1>2 DEF IInv, PacketsOK
<1>7. Size[arr[At(index)].msg] \in Nat \ {0}
  BY <1>6, QueueAssumption
<1>8. RestOK'
  BY <1>1, <1>3, <1>6, <1>7, QueueAssumption, SMT DEF IInv, RestOK
<1>9. Contents' = Fifo!Without(index + 1)
  BY <1>1, <1>2, <1>4, ClosedUpContents
<1>10. PacketsOK'
  BY <1>1, <1>2, <1>4, ClosedUpPackets
<1> QED BY <1>1, <1>2, <1>3, <1>4, <1>5, <1>8, <1>9, <1>10, ContentsFacts DEF IInv, Fifo!Take

\* Calls that give the array back as it was.
LEMMA PeekStep ==
  ASSUME IInv, NEW index \in 0 .. num, PeekAtNextPacket(index)
  PROVE  IInv' /\ Fifo!Peek(index + 1)
<1>1. /\ RingOK /\ num \in Nat /\ index < num /\ ~suspended
      /\ UNCHANGED ringVars /\ UNCHANGED <<used, suspended, now>>
      /\ out' = arr[RetriveArrayIndex(index)].msg
  <2>1. num \in Nat /\ (num > index <=> index < num)
    BY SMT DEF IInv, RingOK
  <2> QED BY <2>1 DEF IInv, PeekAtNextPacket, CanRetrieve, ringVars
<1>2. index \in 0 .. num - 1 /\ index + 1 \in 1 .. num /\ index + 1 - 1 = index
  BY <1>1, SMT
<1>3. Contents[index + 1] = arr[At(index)].msg /\ RetriveArrayIndex(index) = At(index)
  <2>1. RetriveArrayIndex(index) = At(index)
    BY <1>1, AtIsIndex
  <2>2. Contents[index + 1] = arr[At(index)].msg
    BY <1>1, <1>2, ContentsFacts
  <2> QED BY <2>1, <2>2
<1>4. arr[At(index)].msg \in Msg
  BY <1>2 DEF IInv, PacketsOK
<1>5. RestOK'
  BY <1>1, <1>3, <1>4 DEF IInv, RestOK
<1> QED BY <1>1, <1>2, <1>3, <1>5, ContentsFacts, UnchangedRing DEF IInv, Fifo!Peek

\* A call that finds nothing.
LEMMA NothingStep ==
  ASSUME IInv, NEW index \in 0 .. num, RetrieveNothing(index)
  PROVE  IInv' /\ Fifo!Nothing(index + 1)
<1>1. /\ RingOK /\ num \in Nat /\ (suspended \/ index + 1 > num)
      /\ UNCHANGED ringVars /\ UNCHANGED <<used, suspended, now>>
      /\ out' = NoMsg
  <2>1. num \in Nat /\ (index + 1 > num <=> ~(num > index))
    BY SMT DEF IInv, RingOK
  <2>2. ~(num > index /\ ~suspended) /\ UNCHANGED <<used, suspended, now>> /\ out' = NoMsg
    BY DEF RetrieveNothing, CanRetrieve
  <2>3. RingOK /\ UNCHANGED ringVars
    BY DEF IInv, RetrieveNothing, ringVars
  <2>4. suspended \/ index + 1 > num
    BY <2>1, <2>2
  <2> QED BY <2>1, <2>2, <2>3, <2>4
<1>2. RestOK'
  BY <1>1 DEF IInv, RestOK
<1> QED BY <1>1, <1>2, ContentsFacts, UnchangedRing DEF IInv, Fifo!Nothing

\* Suspending and resuming.
LEMMA SuspendStep ==
  ASSUME IInv, NEW b \in BOOLEAN, setQueueBehavior(b)
  PROVE  IInv' /\ Fifo!Suspend(b)
<1>1. UNCHANGED ringVars /\ suspended' = b /\ UNCHANGED <<used, now, out>>
  BY DEF setQueueBehavior, ringVars
<1>2. RestOK'
  BY <1>1 DEF IInv, RestOK
<1> QED BY <1>1, <1>2, UnchangedRing DEF IInv, Fifo!Suspend

\* The clock.
LEMMA TickStep ==
  ASSUME IInv, Tick
  PROVE  IInv' /\ UNCHANGED Fifo!vars
<1>1. UNCHANGED ringVars /\ UNCHANGED <<used, suspended, out>>
  BY DEF Tick, ringVars
<1>2. now' \in 0 .. MaxTime
  BY QueueAssumption, SMT DEF Tick, IInv, RestOK
<1>3. RestOK'
  BY <1>1, <1>2 DEF IInv, RestOK
<1> QED BY <1>1, <1>3, UnchangedRing DEF IInv, Fifo!vars

\* Every step keeps the invariant and is a step of the list, or none.
LEMMA NextStep == IInv /\ [Next]_vars => IInv' /\ [Fifo!Next]_(Fifo!vars)
<1> SUFFICES ASSUME IInv, [Next]_vars PROVE IInv' /\ [Fifo!Next]_(Fifo!vars)
  OBVIOUS
<1>1. \A index \in 0 .. num : index + 1 \in 1 .. Len(Contents) + 1
  <2>1. num \in Nat /\ Len(Contents) = num
    BY ContentsFacts, SMT DEF IInv, RingOK
  <2> QED BY <2>1, SMT
<1>2. CASE \E m \in Msg : insert(m, now)
  <2>1. now \in 0 .. MaxTime
    BY DEF IInv, RestOK
  <2> QED BY <1>2, <2>1, InsertStep DEF Fifo!Next
<1>3. ASSUME NEW index \in 0 .. num, NEW counted \in BOOLEAN, Take(index, counted)
      PROVE  IInv' /\ Fifo!Next
  BY <1>1, <1>3, TakeStep DEF Fifo!Next
<1>4. ASSUME NEW index \in 0 .. num, PeekAtNextPacket(index)
      PROVE  IInv' /\ Fifo!Next
  BY <1>1, <1>4, PeekStep DEF Fifo!Next
<1>5. ASSUME NEW index \in 0 .. num, RetrieveNothing(index)
      PROVE  IInv' /\ Fifo!Next
  BY <1>1, <1>5, NothingStep DEF Fifo!Next
<1>6. CASE \E suspend \in BOOLEAN : setQueueBehavior(suspend)
  BY <1>6, SuspendStep DEF Fifo!Next
<1>7. CASE Tick
  BY <1>7, TickStep
<1>8. CASE UNCHANGED vars
  <2>1. UNCHANGED ringVars /\ UNCHANGED <<used, suspended, out, now>>
    BY <1>8 DEF vars, ringVars
  <2>2. RestOK'
    BY <2>1 DEF IInv, RestOK
  <2> QED BY <2>1, <2>2, UnchangedRing DEF IInv, Fifo!vars
<1> QED BY <1>2, <1>3, <1>4, <1>5, <1>6, <1>7, <1>8 DEF Next

-----------------------------------------------------------------------------
(* The bytes of a list.  A sum over positions would need a recursive          *)
(* definition; the partial sums are given by a function that exists instead.  *)

\* S has the bytes of the first i messages of the list c, for every i up to n.
PartialSums(S, c, n) ==
  /\ S \in [0 .. n -> Nat]
  /\ S[0] = 0
  /\ \A i \in 1 .. n : S[i] = S[i - 1] + Size[c[i]]
  /\ \A i, j \in 0 .. n : i <= j => S[i] <= S[j]

\* b is the number of bytes of the list c.
BytesAre(c, b) == \E S : PartialSums(S, c, Len(c)) /\ b = S[Len(c)]

\* No packets, no bytes.
LEMMA NoBytes ==
  ASSUME NEW c \in Seq(Msg), Len(c) = 0
  PROVE  BytesAre(c, 0)
<1> DEFINE S == [i \in 0 .. 0 |-> 0]
<1>1. PartialSums(S, c, 0)
  BY SMT DEF PartialSums
<1>2. S[0] = 0
  OBVIOUS
<1> HIDE DEF S
<1> QED BY <1>1, <1>2 DEF BytesAre

\* The bytes of a list of messages are a natural number.
LEMMA BytesNatural ==
  ASSUME NEW c \in Seq(Msg), NEW b, BytesAre(c, b)
  PROVE  b \in Nat
<1>1. Len(c) \in 0 .. Len(c)
  BY SMT
<1> QED BY <1>1 DEF BytesAre, PartialSums

\* One message more at the end.
LEMMA BytesAppend ==
  ASSUME NEW c \in Seq(Msg), NEW b, BytesAre(c, b), NEW m \in Msg
  PROVE  BytesAre(Append(c, m), b + Size[m])
<1> DEFINE n == Len(c)
           d == Append(c, m)
<1>1. /\ n \in Nat /\ d \in Seq(Msg) /\ Len(d) = n + 1
      /\ d[n + 1] = m /\ \A i \in 1 .. n : d[i] = c[i]
  BY SMT
<1>2. Size[m] \in Nat
  BY QueueAssumption
<1>3. PICK S : PartialSums(S, c, n) /\ b = S[n]
  BY DEF BytesAre
<1> DEFINE T == [i \in 0 .. n + 1 |-> IF i <= n THEN S[i] ELSE S[n] + Size[m]]
<1> HIDE DEF n, d
<1>4. T \in [0 .. n + 1 -> Nat] /\ T[0] = 0 /\ T[n + 1] = S[n] + Size[m]
  BY <1>1, <1>2, <1>3, SMT DEF PartialSums
<1>5. \A i \in 1 .. n + 1 : T[i] = T[i - 1] + Size[d[i]]
  <2> SUFFICES ASSUME NEW i \in 1 .. n + 1 PROVE T[i] = T[i - 1] + Size[d[i]]
    OBVIOUS
  <2>1. CASE i = n + 1
    <3>1. T[i - 1] = S[n]
      BY <1>1, <2>1, SMT
    <3> QED BY <1>1, <1>4, <2>1, <3>1
  <2>2. CASE i # n + 1
    <3>1. i \in 1 .. n /\ T[i] = S[i] /\ T[i - 1] = S[i - 1]
      BY <1>1, <2>2, SMT
    <3> QED BY <1>1, <1>3, <3>1 DEF PartialSums
  <2> QED BY <2>1, <2>2
<1>6. \A i, j \in 0 .. n + 1 : i <= j => T[i] <= T[j]
  <2> SUFFICES ASSUME NEW i \in 0 .. n + 1, NEW j \in 0 .. n + 1, i <= j
               PROVE  T[i] <= T[j]
    OBVIOUS
  <2>1. S[n] \in Nat /\ S[n] <= S[n] + Size[m]
    BY <1>1, <1>2, <1>3, SMT DEF PartialSums
  <2>2. CASE j <= n
    <3>1. i \in 0 .. n /\ j \in 0 .. n /\ T[i] = S[i] /\ T[j] = S[j]
      BY <1>1, <2>2, SMT
    <3> QED BY <1>3, <3>1 DEF PartialSums
  <2>3. CASE j > n
    <3>1. j = n + 1 /\ n \in 0 .. n
      BY <1>1, <2>3, SMT
    <3>2. CASE i <= n
      <4>1. i \in 0 .. n /\ T[i] = S[i]
        BY <1>1, <3>2, SMT
      <4>2. S[i] <= S[n] /\ S[i] \in Nat
        BY <1>1, <1>3, <3>1, <3>2, <4>1 DEF PartialSums
      <4> HIDE DEF T
      <4> QED BY <1>2, <1>4, <2>1, <3>1, <4>1, <4>2, SMT
    <3>3. CASE i > n
      <4>1. i = j
        BY <1>1, <3>1, <3>3, SMT
      <4>2. T[i] \in Nat
        BY <1>4
      <4> HIDE DEF T
      <4> QED BY <4>1, <4>2, SMT
    <3> QED BY <1>1, <3>2, <3>3, SMT
  <2> QED BY <1>1, <2>2, <2>3, SMT
<1> HIDE DEF T
<1>7. PartialSums(T, d, n + 1)
  BY <1>4, <1>5, <1>6 DEF PartialSums
<1> QED BY <1>1, <1>3, <1>4, <1>7 DEF BytesAre, d

\* One message less, from any place.
LEMMA BytesWithout ==
  ASSUME NEW c \in Seq(Msg), NEW b, BytesAre(c, b), NEW k \in 1 .. Len(c),
         NEW d \in Seq(Msg), Len(d) = Len(c) - 1,
         \A i \in 1 .. Len(d) : d[i] = IF i < k THEN c[i] ELSE c[i + 1]
  PROVE  BytesAre(d, b - Size[c[k]])
<1> DEFINE n == Len(c)
           z == Size[c[k]]
<1>1. n \in Nat /\ n - 1 \in Nat /\ k \in 1 .. n /\ Len(d) = n - 1
  BY SMT
<1>2. z \in Nat
  BY QueueAssumption, SMT
<1>3. PICK S : PartialSums(S, c, n) /\ b = S[n]
  BY DEF BytesAre
<1>4. \A i \in 1 .. n - 1 : d[i] = IF i < k THEN c[i] ELSE c[i + 1]
  OBVIOUS
<1> DEFINE T == [i \in 0 .. n - 1 |-> IF i < k THEN S[i] ELSE S[i + 1] - z]
<1> HIDE DEF n
<1>5. S[k] = S[k - 1] + z
  BY <1>1, <1>3 DEF PartialSums
<1> HIDE DEF z
<1>6. \A i \in 0 .. n : S[i] \in Nat
  BY <1>3 DEF PartialSums
<1>7. \A i, j \in 0 .. n : i <= j => S[i] <= S[j]
  BY <1>3 DEF PartialSums
<1>8. k \in 0 .. n /\ k - 1 \in 0 .. n
  BY <1>1, SMT
<1>9. \A i \in 0 .. n - 1 : i + 1 \in 0 .. n /\ i \in 0 .. n /\ (i < k \/ (k <= i + 1 /\ k - 1 <= i))
  BY <1>1, SMT
<1>10. \A i \in 0 .. n - 1 : i >= k => S[i + 1] - z \in Nat /\ S[i + 1] - z >= S[k - 1]
  <2> SUFFICES ASSUME NEW i \in 0 .. n - 1, i >= k
               PROVE  S[i + 1] - z \in Nat /\ S[i + 1] - z >= S[k - 1]
    OBVIOUS
  <2>1. S[k] <= S[i + 1] /\ S[k] \in Nat /\ S[i + 1] \in Nat /\ S[k - 1] \in Nat
    <3>1. k <= i + 1 /\ i + 1 \in 0 .. n
      BY <1>1, SMT
    <3> QED BY <1>6, <1>7, <1>8, <3>1
  <2> QED BY <1>2, <1>5, <2>1, SMT
<1>11. \A i \in 0 .. n - 1 : T[i] = IF i < k THEN S[i] ELSE S[i + 1] - z
  OBVIOUS
<1>12. \A i \in 0 .. n - 1 : T[i] \in Nat
  <2> SUFFICES ASSUME NEW i \in 0 .. n - 1 PROVE T[i] \in Nat
    OBVIOUS
  <2>1. CASE i < k
    BY <1>6, <1>9, <1>11, <2>1
  <2>2. CASE ~ (i < k)
    <3>1. i >= k
      BY <1>1, <2>2, SMT
    <3> QED BY <1>10, <1>11, <2>2, <3>1
  <2> QED BY <2>1, <2>2
<1>13. T \in [0 .. n - 1 -> Nat]
  BY <1>12
<1> HIDE DEF T
<1>14. T[0] = 0
  <2>1. 0 \in 0 .. n - 1 /\ 0 < k
    BY <1>1, SMT
  <2> QED BY <1>3, <1>11, <2>1 DEF PartialSums
<1>15. ASSUME NEW i \in 1 .. n - 1
       PROVE  T[i] = T[i - 1] + Size[d[i]]
  <2>1. /\ i \in 0 .. n - 1 /\ i - 1 \in 0 .. n - 1 /\ i \in 1 .. n /\ i + 1 \in 1 .. n
        /\ (i - 1) + 1 = i /\ (i + 1) - 1 = i /\ i \in 0 .. n /\ i + 1 \in 0 .. n
    BY <1>1, SMT
  <2>2. S[i] = S[i - 1] + Size[c[i]] /\ S[i + 1] = S[i] + Size[c[i + 1]]
    BY <1>3, <2>1 DEF PartialSums
  <2>3. CASE i < k
    <3>1. i - 1 < k
      BY <1>1, <2>1, <2>3, SMT
    <3> QED BY <1>4, <1>11, <2>1, <2>2, <2>3, <3>1
  <2>4. CASE ~ (i < k)
    <3>1. T[i] = S[i + 1] - z /\ d[i] = c[i + 1]
      BY <1>4, <1>11, <2>1, <2>4
    <3>2. T[i - 1] = S[i] - z
      <4>1. CASE i - 1 < k
        <5>1. i = k
          BY <1>1, <2>4, <4>1, SMT
        <5>2. S[i - 1] = S[i] - z
          BY <1>2, <1>5, <1>6, <1>8, <5>1, SMT
        <5> QED BY <1>11, <2>1, <4>1, <5>2
      <4>2. CASE ~ (i - 1 < k)
        BY <1>11, <2>1, <4>2
      <4> QED BY <4>1, <4>2
    <3>3. S[i] \in Nat /\ S[i + 1] \in Nat /\ Size[c[i + 1]] \in Nat
      <4>1. c[i + 1] \in Msg
        BY <2>1 DEF n
      <4> QED BY <1>6, <2>1, <4>1, QueueAssumption
    <3> QED BY <1>2, <2>2, <3>1, <3>2, <3>3, SMT
  <2> QED BY <2>3, <2>4
<1>16. ASSUME NEW i \in 0 .. n - 1, NEW j \in 0 .. n - 1, i <= j
       PROVE  T[i] <= T[j]
  <2>1. i \in 0 .. n /\ j \in 0 .. n /\ i + 1 \in 0 .. n /\ j + 1 \in 0 .. n
    BY <1>9
  <2>2. CASE j < k
    <3>1. i < k
      BY <1>1, <2>2, <1>16, SMT
    <3> QED BY <1>7, <1>11, <1>16, <2>1, <2>2, <3>1
  <2>3. CASE i < k /\ j >= k
    <3>1. T[i] = S[i] /\ T[j] = S[j + 1] - z
      <4>1. ~ (j < k)
        BY <1>1, <2>3, SMT
      <4> QED BY <1>11, <2>3, <4>1
    <3>2. S[i] <= S[k - 1]
      <4>1. i <= k - 1
        BY <1>1, <2>3, SMT
      <4> QED BY <1>7, <1>8, <2>1, <4>1
    <3>3. S[k - 1] <= S[j + 1] - z
      <4>1. S[j + 1] - z >= S[k - 1] /\ S[j + 1] - z \in Nat /\ S[k - 1] \in Nat
        BY <1>6, <1>8, <1>10, <2>3
      <4> QED BY <4>1, SMT
    <3>4. S[i] \in Nat /\ S[k - 1] \in Nat /\ S[j + 1] - z \in Nat
      BY <1>6, <1>8, <1>10, <2>1, <2>3
    <3> QED BY <3>1, <3>2, <3>3, <3>4, SMT
  <2>4. CASE i >= k
    <3>1. ~ (i < k) /\ ~ (j < k) /\ i + 1 <= j + 1
      BY <1>1, <1>16, <2>4, SMT
    <3>2. S[i + 1] <= S[j + 1] /\ S[i + 1] \in Nat /\ S[j + 1] \in Nat
      BY <1>6, <1>7, <2>1, <3>1
    <3>3. T[i] = S[i + 1] - z /\ T[j] = S[j + 1] - z
      BY <1>11, <3>1
    <3> QED BY <1>2, <3>2, <3>3, SMT
  <2> QED BY <1>1, <2>2, <2>3, <2>4, SMT
<1>17. PartialSums(T, d, n - 1)
  BY <1>13, <1>14, <1>15, <1>16 DEF PartialSums
<1>18. T[n - 1] = b - z
  <2>1. n - 1 \in 0 .. n - 1
    BY <1>1, SMT
  <2>2. CASE n - 1 < k
    <3>1. k = n
      BY <1>1, <2>2, SMT
    <3> QED BY <1>2, <1>3, <1>5, <1>6, <1>8, <1>11, <2>1, <2>2, <3>1, SMT
  <2>3. CASE ~ (n - 1 < k)
    <3>1. (n - 1) + 1 = n
      BY <1>1, SMT
    <3> QED BY <1>3, <1>11, <2>1, <2>3, <3>1
  <2> QED BY <2>2, <2>3
<1> QED BY <1>1, <1>17, <1>18 DEF BytesAre, z

-----------------------------------------------------------------------------
(* The theorems. *)

\* The array stays consistent.
LEMMA Inductive == Spec => []IInv
<1>1. Init => IInv
  BY InitOK
<1>2. IInv /\ [Next]_vars => IInv'
  BY NextStep
<1> QED BY <1>1, <1>2, PTL DEF Spec

-----------------------------------------------------------------------------
\* The number of bytes in use is that of the packets in the array.
BytesOK == BytesAre(Contents, used)

\* The delays are numbers: the entries have times.
DelaysOK == delays \in Int /\ waited \in Int

\* The list holds messages.
LEMMA ContentsAreMessages ==
  ASSUME IInv
  PROVE  Contents \in Seq(Msg) /\ Len(Contents) = num
<1>1. num \in Nat /\ \A i \in 1 .. num : i - 1 \in 0 .. num - 1
  BY SMT DEF IInv, RingOK
<1>2. \A i \in 1 .. num : Contents[i] \in Msg
  BY <1>1, ContentsFacts DEF IInv, PacketsOK
<1>3. Contents = [i \in 1 .. num |-> Contents[i]]
  BY DEF Contents
<1>4. Contents \in [1 .. num -> Msg]
  BY <1>2, <1>3
<1>5. Contents \in Seq(Msg)
  BY <1>1, <1>4, SMT
<1> QED BY <1>5, ContentsFacts DEF IInv

\* The same after a step.
LEMMA ContentsAreMessagesNext ==
  ASSUME IInv'
  PROVE  Contents' \in Seq(Msg) /\ Len(Contents') = num'
<1>1. (IInv => Contents \in Seq(Msg) /\ Len(Contents) = num)'
  BY ContentsAreMessages, PTL
<1> QED BY <1>1

\* The list of PacketFifo counts its bytes.
LEMMA BytesStep ==
  ASSUME IInv, IInv', BytesOK, [Fifo!Next]_(Fifo!vars)
  PROVE  BytesOK'
<1>1. Contents \in Seq(Msg) /\ Contents' \in Seq(Msg)
  BY ContentsAreMessages, ContentsAreMessagesNext
<1>2. ASSUME NEW m \in Msg, Fifo!Accept(m) PROVE BytesOK'
  BY <1>1, <1>2, BytesAppend DEF BytesOK, Fifo!Accept
<1>3. ASSUME NEW k \in 1 .. Len(Contents) + 1, Fifo!Take(k) PROVE BytesOK'
  <2>1. /\ k \in 1 .. Len(Contents) /\ used' = used - Size[Contents[k]]
        /\ Contents' = Fifo!Without(k)
    BY <1>3 DEF Fifo!Take
  <2>2. /\ Len(Contents') = Len(Contents) - 1
        /\ \A i \in 1 .. Len(Contents') :
             Contents'[i] = IF i < k THEN Contents[i] ELSE Contents[i + 1]
    <3>1. Contents' = [i \in 1 .. Len(Contents) - 1 |->
                         IF i < k THEN Contents[i] ELSE Contents[i + 1]]
      BY <2>1 DEF Fifo!Without
    <3>2. Len(Contents) - 1 \in Nat
      BY <1>1, <2>1, SMT
    <3>3. Len(Contents') = Len(Contents) - 1
      BY <1>1, <3>1, <3>2, SMT
    <3> QED BY <3>1, <3>3
  <2> QED BY <1>1, <2>1, <2>2, BytesWithout DEF BytesOK
<1>4. CASE UNCHANGED <<Contents, used>>
  BY <1>4 DEF BytesOK
<1>5. ASSUME Fifo!Next, ~ UNCHANGED <<Contents, used>> PROVE BytesOK'
  BY <1>2, <1>3, <1>5 DEF Fifo!Next, Fifo!Refuse, Fifo!Peek, Fifo!Nothing, Fifo!Suspend
<1> QED BY <1>4, <1>5 DEF Fifo!vars

\* A step keeps the total of the delays.
LEMMA DelaysStep ==
  ASSUME IInv, IInv', DelaysOK, [Next]_vars
  PROVE  DelaysOK'
<1>1. \A i \in 0 .. num - 1 : /\ RetriveArrayIndex(i) \in 0 .. max - 1
                              /\ arr[RetriveArrayIndex(i)].time \in 0 .. MaxTime
  <2>1. \A i \in 0 .. num - 1 : i \in 0 .. num
    BY SMT DEF IInv, RingOK
  <2> QED BY <2>1, AtIsIndex DEF IInv, RingOK, Entry
<1>2. ASSUME NEW index \in 0 .. num, NEW counted \in BOOLEAN, Take(index, counted)
      PROVE  DelaysOK'
  <2> DEFINE a == RetriveArrayIndex(index)
  <2>1. /\ index \in 0 .. num - 1 /\ max' = max
    BY <1>2, SMT DEF Take, CanRetrieve, IInv, RingOK
  <2>2. a \in 0 .. max' - 1 /\ arr[a].time \in 0 .. MaxTime
    BY <1>1, <2>1
  <2>3. arr'[a].time \in 0 .. MaxTime
    BY <2>2 DEF IInv, RingOK, Entry
  <2>4. /\ delays' = IF counted THEN delays + (now - arr'[a].time) ELSE delays
        /\ waited' = IF counted THEN waited + now - arr[a].time ELSE waited
    BY <1>2 DEF Take, QueueDelay
  <2> HIDE DEF a
  <2> QED BY <2>2, <2>3, <2>4, SMT DEF DelaysOK, IInv, RestOK
<1>3. CASE UNCHANGED <<delays, waited>>
  BY <1>3 DEF DelaysOK
<1>4. ASSUME Next, ~ UNCHANGED <<delays, waited>> PROVE DelaysOK'
  BY <1>2, <1>4 DEF Next, insert, PeekAtNextPacket, RetrieveNothing, setQueueBehavior, Tick
<1> QED BY <1>3, <1>4 DEF vars

\* The bytes and the delays follow the packets.
LEMMA BytesInductive == Spec => [](IInv /\ BytesOK /\ DelaysOK)
<1>1. Init => IInv /\ BytesOK /\ DelaysOK
  <2> SUFFICES ASSUME Init PROVE IInv /\ BytesOK /\ DelaysOK
    OBVIOUS
  <2>1. IInv /\ Contents = <<>>
    BY InitOK DEF Fifo!Init
  <2>2. BytesAre(Contents, 0)
    BY <2>1, ContentsAreMessages, NoBytes
  <2> QED BY <2>1, <2>2 DEF Init, BytesOK, DelaysOK
<1>2. (IInv /\ BytesOK /\ DelaysOK) /\ [Next]_vars => (IInv /\ BytesOK /\ DelaysOK)'
  BY NextStep, BytesStep, DelaysStep
<1> QED BY <1>1, <1>2, PTL DEF Spec

\* The queue is well typed; above all the bytes in use stay between 0 and the
\* size of the queue, whatever is inserted, dropped and taken (bytesUsed of
\* Queue::insert and Queue::retrieve).
THEOREM QueueTypes == Spec => []TypeOK
<1>1. IInv /\ BytesOK /\ DelaysOK => TypeOK
  <2> SUFFICES ASSUME IInv, BytesOK, DelaysOK PROVE TypeOK
    OBVIOUS
  <2>1. used \in Nat
    BY ContentsAreMessages, BytesNatural DEF BytesOK
  <2>2. used \in 0 .. Limit
    BY <2>1, QueueAssumption, SMT DEF IInv, RestOK
  <2> QED BY <2>2 DEF TypeOK, IInv, RingOK, RestOK, DelaysOK
<1> QED BY <1>1, BytesInductive, PTL

\* The bytes in use are those of the packets in the queue, for every order of the
\* calls: nothing is counted twice and nothing stays counted when it has left.
THEOREM QueueCountsBytes == Spec => []BytesOK
BY BytesInductive, PTL

\* The tail index follows the head index by the number of packets whatever is
\* inserted, grown and taken from the middle (Queue::insert, Queue::retrieve).
THEOREM IndicesConsistent == Spec => []TailFollowsHead
<1>1. IInv => TailFollowsHead
  <2> SUFFICES ASSUME RingOK PROVE TailFollowsHead
    BY DEF IInv
  <2>1. max \in Int /\ 0 * max = 0 /\ 1 * max = max /\ (-1) * max = -max
    BY SMT DEF RingOK
  <2>2. \/ tail + 1 = head + num + 0 * max
        \/ tail + 1 = head + num + (-1) * max
        \/ tail + 1 = head + num + 1 * max
    BY <2>1, SMT DEF RingOK
  <2> QED BY <2>2 DEF TailFollowsHead
<1> QED BY <1>1, Inductive, PTL

\* The circular array behaves as the first-in first-out list of PacketFifo:
\* every call of class Queue gives the scheduler what the list would give.
THEOREM QueueImplementsFifo == Spec => ImplementsFifo
<1>1. Init => Fifo!Init
  BY InitOK
<1>2. IInv /\ [Next]_vars => [Fifo!Next]_(Fifo!vars)
  BY NextStep
<1> QED BY <1>1, <1>2, Inductive, PTL DEF Spec, ImplementsFifo, Fifo!Spec
-----------------------------------------------------------------------------
(* A queue that replaces another: IfQueueReplicate. *)

\* The packets of the old queue, the oldest first.
OldContents == [i \in 1 .. old.num |-> OldEntry(i - 1).msg]

\* While packets are copied: the new queue has the first ones of the old queue,
\* and no other, and the bytes that are still to come fit.
CopyOK ==
  /\ copied \in 0 .. old.num
  /\ OldContents \in Seq(Msg) /\ Len(OldContents) = old.num
  /\ old.max \in Nat /\ old.num \in 0 .. old.max
  /\ old.arr \in [0 .. old.max - 1 -> Entry]
  /\ num = copied
  /\ \A i \in 1 .. copied : Contents[i] = OldContents[i]
  /\ \E S : /\ PartialSums(S, OldContents, old.num)
            /\ S[old.num] <= Limit
            /\ used = S[copied]

ReplicaInv ==
  /\ IInv /\ BytesOK
  /\ copied \in Int
  /\ copied = -1 \/ CopyOK

\* No replication is under way at first.
LEMMA ReplicaInit == ReplicateInit => ReplicaInv
<1> SUFFICES ASSUME ReplicateInit PROVE ReplicaInv
  OBVIOUS
<1>1. IInv /\ Contents = <<>> /\ used = 0
  BY InitOK DEF ReplicateInit, Fifo!Init, Init
<1>2. BytesOK
  BY <1>1, ContentsAreMessages, NoBytes DEF BytesOK
<1> QED BY <1>1, <1>2, SMT DEF ReplicateInit, ReplicaInv

\* The new queue starts empty, and the old one keeps its packets.
LEMMA ReplicateStep ==
  ASSUME ReplicaInv, Replicate
  PROVE  ReplicaInv'
<1>1. /\ old' = [arr |-> arr, head |-> head, num |-> num, max |-> max, suspended |-> suspended]
      /\ copied' = 0 /\ num' = 0 /\ used' = 0
      /\ arr' = [i \in 0 .. InitialMax - 1 |-> NoEntry]
      /\ head' = 1 /\ tail' = 0 /\ max' = InitialMax /\ suspended' = FALSE
      /\ out' = out /\ now' = now
  BY DEF Replicate
<1>2. IInv /\ BytesOK
  BY DEF ReplicaInv
<1>3. IInv'
  <2>1. RingOK'
    <3>1. NoEntry \in Entry
      BY QueueAssumption, SMT DEF NoEntry, Entry
    <3> QED BY <1>1, <3>1, QueueAssumption, SMT DEF RingOK
  <2>2. PacketsOK'
    <3>1. 0 .. num' - 1 = {}
      BY <1>1, SMT
    <3> QED BY <3>1 DEF PacketsOK
  <2>3. RestOK'
    <3>1. used' \in Int /\ used' <= Limit
      BY <1>1, QueueAssumption, SMT
    <3> QED BY <1>1, <1>2, <3>1 DEF RestOK, IInv
  <2> QED BY <2>1, <2>2, <2>3 DEF IInv
<1>4. Contents' \in Seq(Msg) /\ Len(Contents') = 0
  BY <1>1, <1>3, ContentsAreMessagesNext
<1>5. BytesOK'
  <2>1. BytesAre(Contents', 0)
    BY <1>4, NoBytes
  <2> QED BY <1>1, <2>1 DEF BytesOK
<1>6. OldContents' = Contents
  BY <1>1 DEF OldContents, OldEntry, Contents, RetriveArrayIndex
<1>7. OldContents' \in Seq(Msg) /\ Len(OldContents') = num
  BY <1>2, <1>6, ContentsAreMessages
<1>8. /\ old'.num = num /\ old'.max = max /\ old'.arr = arr
  BY <1>1
<1>9. PICK S : PartialSums(S, Contents, num) /\ used = S[num]
  BY <1>2, ContentsAreMessages DEF BytesOK, BytesAre
<1>10. S[num] <= Limit /\ S[0] = 0
  BY <1>2, <1>9 DEF IInv, RestOK, PartialSums
<1>11. copied' \in 0 .. old'.num /\ max \in Nat /\ num \in 0 .. max
  BY <1>1, <1>2, <1>8, SMT DEF IInv, RingOK
<1>12. arr \in [0 .. max - 1 -> Entry]
  BY <1>2 DEF IInv, RingOK
<1>13. 1 .. copied' = {}
  BY <1>1, SMT
<1>14. PartialSums(S, OldContents', old'.num) /\ S[old'.num] <= Limit /\ used' = S[copied']
  BY <1>1, <1>6, <1>8, <1>9, <1>10
<1>15. CopyOK'
  BY <1>1, <1>7, <1>8, <1>11, <1>12, <1>13, <1>14 DEF CopyOK
<1> QED BY <1>1, <1>3, <1>5, <1>15, SMT DEF ReplicaInv

\* A packet is copied: it fits, so it is appended.
LEMMA CopyStep ==
  ASSUME ReplicaInv, CopyPacket
  PROVE  ReplicaInv'
<1> DEFINE m == PeekedMsg(copied)
           t == old.arr[copied].time
<1>1. /\ IInv /\ BytesOK /\ copied \in Int /\ copied >= 0 /\ copied < old.num
      /\ insert(m, t) /\ m # NoMsg /\ m \in Msg
      /\ copied' = copied + 1 /\ old' = old
  BY SMT DEF ReplicaInv, CopyPacket, insert
<1>2. CopyOK
  BY <1>1, SMT DEF ReplicaInv
<1>3. /\ old.num \in Nat /\ old.max \in Nat /\ copied \in 0 .. old.max - 1
      /\ copied \in 0 .. old.num /\ copied + 1 \in 1 .. old.num
      /\ copied + 1 \in 0 .. old.num /\ (copied + 1) - 1 = copied
  BY <1>1, <1>2, SMT DEF CopyOK
<1>4. t \in 0 .. MaxTime
  BY <1>2, <1>3 DEF CopyOK, Entry
<1>5. m = OldContents[copied + 1]
  <2>1. m = OldEntry(copied).msg
    BY <1>1 DEF PeekedMsg
  <2> QED BY <1>3, <2>1 DEF OldContents
<1> HIDE DEF m, t
<1>6. IInv' /\ (Fifo!Accept(m) \/ Fifo!Refuse(m))
  BY <1>1, <1>4, InsertStep
<1>7. PICK S : /\ PartialSums(S, OldContents, old.num)
               /\ S[old.num] <= Limit
               /\ used = S[copied]
  BY <1>2 DEF CopyOK
<1>8. S[copied + 1] = used + Size[m]
  <2>1. S[copied + 1] = S[(copied + 1) - 1] + Size[OldContents[copied + 1]]
    BY <1>3, <1>7 DEF PartialSums
  <2> QED BY <1>3, <1>5, <1>7, <2>1
<1>9. used + Size[m] <= Limit
  <2>1. S[copied + 1] <= S[old.num] /\ S[copied + 1] \in Nat /\ S[old.num] \in Nat
    <3>1. copied + 1 <= old.num /\ old.num \in 0 .. old.num
      BY <1>3, SMT
    <3> QED BY <1>3, <1>7, <3>1 DEF PartialSums
  <2> QED BY <1>7, <1>8, <2>1, QueueAssumption, SMT
<1>10. Fifo!Accept(m)
  <2>1. ~ (used + Size[m] > Limit)
    BY <1>1, <1>9, QueueAssumption, SMT DEF IInv, RestOK
  <2> QED BY <1>6, <2>1 DEF Fifo!Refuse
<1>11. Contents' = Append(Contents, m) /\ used' = used + Size[m]
  BY <1>10 DEF Fifo!Accept
<1>12. Contents \in Seq(Msg) /\ Len(Contents) = num /\ Contents' \in Seq(Msg) /\ Len(Contents') = num'
  BY <1>1, <1>6, ContentsAreMessages, ContentsAreMessagesNext
<1>13. num = copied /\ num' = copied + 1
  <2>1. num = copied
    BY <1>2 DEF CopyOK
  <2>2. Len(Append(Contents, m)) = Len(Contents) + 1
    BY <1>1, <1>12, SMT
  <2> QED BY <1>11, <1>12, <2>1, <2>2
<1>14. BytesOK'
  BY <1>1, <1>11, <1>12, BytesAppend DEF BytesOK
<1>15. ASSUME NEW i \in 1 .. copied + 1 PROVE Contents'[i] = OldContents[i]
  <2>1. CASE i = copied + 1
    <3>1. Append(Contents, m)[copied + 1] = m
      BY <1>1, <1>12, <1>13, SMT
    <3> QED BY <1>5, <1>11, <2>1, <3>1
  <2>2. CASE i # copied + 1
    <3>1. i \in 1 .. copied
      BY <1>3, <2>2, SMT
    <3>2. Append(Contents, m)[i] = Contents[i]
      BY <1>1, <1>12, <1>13, <3>1, SMT
    <3> QED BY <1>2, <1>11, <3>1, <3>2 DEF CopyOK
  <2> QED BY <2>1, <2>2
<1>16. OldContents' = OldContents
  BY <1>1 DEF OldContents, OldEntry
<1>17. CopyOK'
  BY <1>1, <1>2, <1>3, <1>7, <1>8, <1>11, <1>13, <1>15, <1>16 DEF CopyOK
<1>18. copied' \in Int
  BY <1>1, SMT
<1> QED BY <1>6, <1>14, <1>17, <1>18 DEF ReplicaInv

\* Every step keeps the packets taken over in their places.
LEMMA ReplicaStep == ReplicaInv /\ [ReplicateNext]_replicateVars => ReplicaInv'
<1> SUFFICES ASSUME ReplicaInv, [ReplicateNext]_replicateVars PROVE ReplicaInv'
  OBVIOUS
<1>1. CASE copied = -1 /\ Next /\ UNCHANGED <<old, copied>>
  <2>1. IInv' /\ [Fifo!Next]_(Fifo!vars)
    BY <1>1, NextStep DEF ReplicaInv
  <2> QED BY <1>1, <2>1, BytesStep DEF ReplicaInv
<1>2. CASE UNCHANGED vars /\ copied' = -1
  <2>1. IInv'
    BY <1>2, NextStep DEF ReplicaInv
  <2>2. BytesOK'
    BY <1>2 DEF ReplicaInv, BytesOK, vars, Contents, RetriveArrayIndex
  <2>3. -1 \in Int
    BY SMT
  <2> QED BY <1>2, <2>1, <2>2, <2>3 DEF ReplicaInv
<1>3. CASE UNCHANGED replicateVars
  <2>1. UNCHANGED vars /\ old' = old /\ copied' = copied
    BY <1>3 DEF replicateVars
  <2>2. IInv'
    BY <2>1, NextStep DEF ReplicaInv
  <2>3. Contents' = Contents /\ OldContents' = OldContents /\ used' = used /\ num' = num
    BY <2>1 DEF vars, Contents, RetriveArrayIndex, OldContents, OldEntry
  <2> QED BY <2>1, <2>2, <2>3 DEF ReplicaInv, BytesOK, CopyOK
<1> QED BY <1>1, <1>2, <1>3, ReplicateStep, CopyStep DEF ReplicateNext, Replicated

\* While a queue takes over the packets of another, each packet copied has its
\* place in the new queue: none is dropped on the way, because the new queue holds
\* as many bytes as the old one, and none changes places (Queue::replicate).
THEOREM ReplicaKeepsOrder == ReplicateSpec => []OrderKept
<1>1. ReplicaInv => OrderKept
  <2> SUFFICES ASSUME ReplicaInv, copied >= 0, NEW i \in 0 .. copied - 1
               PROVE  i < num /\ arr[RetriveArrayIndex(i)].msg = OldEntry(i).msg
    BY DEF OrderKept
  <2>1. CopyOK /\ copied \in Int
    BY SMT DEF ReplicaInv
  <2>2. /\ i < num /\ i + 1 \in 1 .. copied /\ i + 1 \in 1 .. num /\ i + 1 \in 1 .. old.num
        /\ (i + 1) - 1 = i
    BY <2>1, SMT DEF CopyOK
  <2>3. Contents[i + 1] = OldContents[i + 1]
    BY <2>1, <2>2 DEF CopyOK
  <2> QED BY <2>2, <2>3 DEF Contents, OldContents
<1> QED BY <1>1, ReplicaInit, ReplicaStep, PTL DEF ReplicateSpec

-----------------------------------------------------------------------------
(* Least elements. *)

\* A set of numbers that is not empty has a least one.
LEMMA LeastOf ==
  ASSUME NEW T, T \subseteq Nat, T # {}
  PROVE  \E m \in T : \A k \in T : m <= k
<1> DEFINE Less == {ss \in Nat \X Nat : ss[1] < ss[2]}
<1>1. IsWellFoundedOn(Less, Nat) BY NatLessThanWellFounded DEF OpToRel
<1> HIDE DEF Less
<1>2. PICK x \in T : \A y \in T : ~ (<<y, x>> \in Less) BY <1>1, WFMin
<1>3. \A y \in T : x <= y
  <2> SUFFICES ASSUME NEW y \in T PROVE x <= y OBVIOUS
  <2>1. x \in Nat /\ y \in Nat OBVIOUS
  <2>2. <<y, x>> \in Nat \X Nat /\ <<y, x>>[1] = y /\ <<y, x>>[2] = x BY <2>1
  <2>3. ~ (y < x) BY <1>2, <2>2 DEF Less
  <2> QED BY <2>1, <2>3, SMT
<1> QED BY <1>3

-----------------------------------------------------------------------------
(* The forwarding table. *)

CONSTANTS
    Width, Announced, Types, AdminDistance, Fixed, Interfaces, Hops, Unreachable,
    QueueSize, Repetition, MaxRows
VARIABLES
    row, enabled, faultCount, staticFault, randomFault, numLinkfault, queue, sending, tunnel

Table == INSTANCE ForwardingTable

-----------------------------------------------------------------------------
(* Addresses. *)

\* The equation of the powers of two.
IsValues(g, w) == g = [b \in 0 .. w |-> IF b = 0 THEN 1 ELSE 2 * g[b - 1]]

\* It has a solution: the one up to a width goes on to the next.
LEMMA ValuesExist == ASSUME NEW w \in Nat PROVE \E g : IsValues(g, w)
<1> DEFINE T == {n \in Nat : ~ \E g : IsValues(g, n)}
<1> SUFFICES ASSUME T # {} PROVE FALSE OBVIOUS
<1>1. T \subseteq Nat OBVIOUS
<1> HIDE DEF T
<1>2. PICK n \in T : \A k \in T : n <= k BY <1>1, LeastOf
<1>3. n \in Nat /\ ~ \E g : IsValues(g, n) BY <1>2 DEF T
<1>4. CASE n = 0
  <2>1. IsValues([b \in 0 .. 0 |-> 1], 0) BY DEF IsValues
  <2> QED BY <1>3, <1>4, <2>1
<1>5. CASE n # 0
  <2>1. n - 1 \in Nat /\ ~ (n <= n - 1) BY <1>3, <1>5
  <2>2. PICK g : IsValues(g, n - 1) BY <1>2, <2>1 DEF T
  <2> DEFINE h == [b \in 0 .. n |-> IF b = 0 THEN 1 ELSE 2 * g[b - 1]]
  <2>3. \A b \in 0 .. n - 1 : g[b] = IF b = 0 THEN 1 ELSE 2 * g[b - 1]
    BY <2>1, <2>2 DEF IsValues
  <2>4. \A b \in 0 .. n - 1 : h[b] = g[b] BY <1>3, <2>3
  <2>5. \A b \in 0 .. n : h[b] = IF b = 0 THEN 1 ELSE 2 * h[b - 1]
    <3> SUFFICES ASSUME NEW b \in 0 .. n PROVE h[b] = IF b = 0 THEN 1 ELSE 2 * h[b - 1]
      OBVIOUS
    <3>1. h[b] = IF b = 0 THEN 1 ELSE 2 * g[b - 1] OBVIOUS
    <3>2. b # 0 => b - 1 \in 0 .. n - 1 BY <1>3
    <3>3. b # 0 => h[b - 1] = g[b - 1] BY <2>4, <3>2
    <3> HIDE DEF h
    <3> QED BY <3>1, <3>3
  <2>6. h = [b \in 0 .. n |-> h[b]] OBVIOUS
  <2> HIDE DEF h
  <2>7. IsValues(h, n) BY <2>5, <2>6 DEF IsValues
  <2> QED BY <1>3, <2>7
<1> QED BY <1>4, <1>5

\* Each bit doubles the number of values.
LEMMA ValuesDouble ==
  ASSUME Width \in Nat
  PROVE  /\ \A b \in 0 .. Width : Table!Values[b] \in Nat /\ Table!Values[b] > 0
         /\ \A b \in 1 .. Width : Table!Values[b] = 2 * Table!Values[b - 1]
<1> DEFINE v == CHOOSE g : IsValues(g, Width)
<1>1. Table!Values = v BY Zenon DEF Table!Values, IsValues
<1>2. IsValues(v, Width) BY ValuesExist
<1> HIDE DEF v
<1>3. v[0] = 1 /\ \A b \in 1 .. Width : v[b] = 2 * v[b - 1]
  <2>1. \A b \in 0 .. Width : v[b] = IF b = 0 THEN 1 ELSE 2 * v[b - 1] BY <1>2 DEF IsValues
  <2> QED BY <2>1
<1> DEFINE T == {b \in Nat : b \in 0 .. Width /\ ~ (v[b] \in Nat /\ v[b] > 0)}
<1>4. T = {}
  <2> SUFFICES ASSUME T # {} PROVE FALSE OBVIOUS
  <2>1. T \subseteq Nat OBVIOUS
  <2> HIDE DEF T
  <2>2. PICK n \in T : \A k \in T : n <= k BY <2>1, LeastOf
  <2>3. n \in Nat /\ n \in 0 .. Width /\ ~ (v[n] \in Nat /\ v[n] > 0) BY <2>2 DEF T
  <2>4. n # 0 BY <1>3, <2>3
  <2>5. n - 1 \in Nat /\ n - 1 \in 0 .. Width /\ ~ (n <= n - 1) /\ n \in 1 .. Width
    BY <2>3, <2>4
  <2>6. v[n - 1] \in Nat /\ v[n - 1] > 0 BY <2>2, <2>5 DEF T
  <2>7. v[n] = 2 * v[n - 1] BY <1>3, <2>5
  <2> QED BY <2>3, <2>6, <2>7
<1>5. \A b \in 0 .. Width : v[b] \in Nat /\ v[b] > 0
  <2> SUFFICES ASSUME NEW b \in 0 .. Width PROVE v[b] \in Nat /\ v[b] > 0 OBVIOUS
  <2>1. b \notin T /\ b \in Nat BY <1>4
  <2> QED BY <2>1
<1> QED BY <1>1, <1>3, <1>5

\* A number rounded down to a multiple, and to a multiple of half of that.
LEMMA RoundDown ==
  ASSUME NEW d \in Nat, NEW b \in Nat, b > 0
  PROVE  (d \div (2 * b)) * (2 * b) <= (d \div b) * b
<1> DEFINE x == d \div b
           y == d \div (2 * b)
<1>1. x \in Int /\ x * b <= d /\ d < x * b + b BY SMT
<1>2. y \in Int /\ y * (2 * b) <= d BY SMT
<1> HIDE DEF x, y
<1>3. (2 * y) * b < (x + 1) * b
  <2>1. y * (2 * b) = (2 * y) * b BY <1>2, SMT
  <2>2. x * b + b = (x + 1) * b BY <1>1, SMT
  <2>3. (2 * y) * b \in Int /\ x * b \in Int /\ (x + 1) * b \in Int BY <1>1, <1>2
  <2> QED BY <1>1, <1>2, <2>1, <2>2, <2>3
<1>4. 2 * y < x + 1 BY <1>1, <1>2, <1>3, SMT
<1>5. 2 * y <= x BY <1>1, <1>2, <1>4
<1>6. (2 * y) * b <= x * b BY <1>1, <1>2, <1>5, SMT
<1>7. y * (2 * b) = (2 * y) * b BY <1>2, SMT
<1> QED BY <1>6, <1>7 DEF x, y

\* A longer prefix of an address is not smaller.
LEMMA MaskGrows ==
  ASSUME Width \in Nat, NEW d \in Nat, NEW l \in 0 .. Width, NEW m \in 0 .. Width, l <= m
  PROVE  Table!Mask(d, l) <= Table!Mask(d, m) /\ Table!Mask(d, l) \in Int
<1>1. \A k \in 0 .. Width : Table!Mask(d, k) \in Int
  <2> SUFFICES ASSUME NEW k \in 0 .. Width PROVE Table!Mask(d, k) \in Int OBVIOUS
  <2> DEFINE v == Table!Values[Width - k]
  <2>1. Width - k \in 0 .. Width OBVIOUS
  <2>2. v \in Nat /\ v > 0 BY <2>1, ValuesDouble
  <2>3. Table!Mask(d, k) = (d \div v) * v BY DEF Table!Mask
  <2> HIDE DEF v
  <2> QED BY <2>2, <2>3
<1>2. \A k \in 0 .. Width - 1 : Table!Mask(d, k) <= Table!Mask(d, k + 1)
  <2> SUFFICES ASSUME NEW k \in 0 .. Width - 1
               PROVE  Table!Mask(d, k) <= Table!Mask(d, k + 1)
    OBVIOUS
  <2> DEFINE v == Table!Values[Width - (k + 1)]
             w == Table!Values[Width - k]
  <2>1. Width - k \in 1 .. Width /\ Width - (k + 1) \in 0 .. Width /\ Width - (k + 1) = (Width - k) - 1
    OBVIOUS
  <2>2. v \in Nat /\ v > 0 /\ w = 2 * v BY <2>1, ValuesDouble
  <2>3. Table!Mask(d, k) = (d \div w) * w /\ Table!Mask(d, k + 1) = (d \div v) * v
    BY DEF Table!Mask
  <2> HIDE DEF v, w
  <2> QED BY <2>2, <2>3, RoundDown
<1> DEFINE T == {n \in Nat : l + n \in 0 .. Width /\ ~ (Table!Mask(d, l) <= Table!Mask(d, l + n))}
<1>3. T = {}
  <2> SUFFICES ASSUME T # {} PROVE FALSE OBVIOUS
  <2>1. T \subseteq Nat OBVIOUS
  <2> HIDE DEF T
  <2>2. PICK n \in T : \A k \in T : n <= k BY <2>1, LeastOf
  <2>3. n \in Nat /\ l + n \in 0 .. Width /\ ~ (Table!Mask(d, l) <= Table!Mask(d, l + n))
    BY <2>2 DEF T
  <2>4. n # 0
    <3> SUFFICES ASSUME n = 0 PROVE FALSE OBVIOUS
    <3>1. l + n = l BY <2>3
    <3> QED BY <1>1, <2>3, <3>1
  <2>5. n - 1 \in Nat /\ l + (n - 1) \in 0 .. Width - 1 /\ ~ (n <= n - 1)
        /\ l + n = (l + (n - 1)) + 1
    BY <2>3, <2>4
  <2>6. Table!Mask(d, l) <= Table!Mask(d, l + (n - 1)) BY <2>2, <2>5 DEF T
  <2>7. Table!Mask(d, l + (n - 1)) <= Table!Mask(d, l + n) BY <1>2, <2>5
  <2>8. l + (n - 1) \in 0 .. Width BY <2>5
  <2> QED BY <1>1, <2>3, <2>6, <2>7, <2>8
<1>4. m - l \in Nat /\ l + (m - l) = m OBVIOUS
<1>5. m - l \notin T BY <1>3
<1> QED BY <1>1, <1>4, <1>5

-----------------------------------------------------------------------------
(* The rows. *)

Row == [prefix : Announced, type : Types, hop : Hops, interface : Interfaces, enabled : BOOLEAN]

\* The constants.
LEMMA TableFacts ==
  ASSUME Table!TableAssumption
  PROVE  /\ Width \in Nat /\ QueueSize \in Nat /\ Repetition \in Nat
         /\ \A t \in Types : AdminDistance[t] \in Nat
         /\ \A p \in Announced : p[1] \in Int /\ p[2] \in 0 .. Width /\ p = <<p[1], p[2]>>
<1>1. Width \in Nat BY DEF Table!TableAssumption
<1>2. Width \in 0 .. Width BY <1>1
<1>3. Table!Values[Width] \in Nat BY <1>1, <1>2, ValuesDouble
<1> QED BY <1>1, <1>3 DEF Table!TableAssumption

\* Rows in their order: none comes after one that it precedes, none is there twice.
Ordered(s) == \A j, k \in 1 .. Len(s) : j < k =>
  ~ Table!Precedes(s[k], s[j]) /\ ~ Table!SameKey(s[j], s[k])

\* What precedes a row precedes another one or that one precedes the row.
LEMMA OrderSplits ==
  ASSUME Table!TableAssumption, NEW r \in Row, NEW s \in Row, NEW t \in Row, Table!Precedes(r, s)
  PROVE  Table!Precedes(r, t) \/ Table!Precedes(t, s)
<1>1. \A x \in Row : /\ x.prefix[1] \in Int /\ x.prefix[2] \in Int
                     /\ x.prefix = <<x.prefix[1], x.prefix[2]>> /\ AdminDistance[x.type] \in Int
  BY TableFacts DEF Row
<1> QED BY <1>1 DEF Table!Precedes, Table!Distance

\* Of two rows at most one precedes the other.
LEMMA OrderIsStrict ==
  ASSUME Table!TableAssumption, NEW r \in Row, NEW s \in Row, Table!Precedes(r, s)
  PROVE  ~ Table!Precedes(s, r)
<1>1. \A x \in Row : /\ x.prefix[1] \in Int /\ x.prefix[2] \in Int
                     /\ x.prefix = <<x.prefix[1], x.prefix[2]>> /\ AdminDistance[x.type] \in Int
  BY TableFacts DEF Row
<1> QED BY <1>1 DEF Table!Precedes, Table!Distance

\* A row is put in front of the p-th.
LEMMA RowInserted ==
  ASSUME NEW S, NEW s \in Seq(S), NEW e \in S, NEW p \in 1 .. Len(s) + 1
  PROVE  LET t == Table!InsertAt(s, p, e)
         IN  /\ t \in Seq(S) /\ Len(t) = Len(s) + 1 /\ t[p] = e
             /\ \A k \in 1 .. p - 1 : t[k] = s[k]
             /\ \A k \in p + 1 .. Len(s) + 1 : t[k] = s[k - 1]
<1> DEFINE a == SubSeq(s, 1, p - 1)
           b == SubSeq(s, p, Len(s))
           t == (a \o <<e>>) \o b
<1>0. Len(s) \in Nat /\ \A i \in 1 .. Len(s) : s[i] \in S OBVIOUS
<1>1. a \in Seq(S) /\ Len(a) = p - 1 /\ \A i \in 1 .. p - 1 : a[i] = s[i]
  <2>1. \A i \in 1 .. p - 1 : s[i] \in S BY <1>0
  <2>2. 1 \in Int /\ p - 1 \in Int BY <1>0
  <2> QED BY <1>0, <2>1, <2>2, SubSeqProperties
<1>2. b \in Seq(S) /\ Len(b) = Len(s) + 1 - p /\ \A i \in 1 .. Len(s) + 1 - p : b[i] = s[p + i - 1]
  <2>1. \A i \in p .. Len(s) : s[i] \in S BY <1>0
  <2>2. p \in Int /\ Len(s) \in Int BY <1>0
  <2> QED BY <1>0, <2>1, <2>2, SubSeqProperties
<1> HIDE DEF a, b
<1>3. <<e>> \in Seq(S) /\ Len(<<e>>) = 1 /\ <<e>>[1] = e OBVIOUS
<1> DEFINE c == a \o <<e>>
<1>4. /\ c \in Seq(S) /\ Len(c) = p /\ c[p] = e
      /\ \A i \in 1 .. p - 1 : c[i] = s[i]
  BY <1>0, <1>1, <1>3, ConcatProperties
<1> HIDE DEF c
<1>5. /\ c \o b \in Seq(S) /\ Len(c \o b) = Len(s) + 1
      /\ \A i \in 1 .. Len(s) + 1 : (c \o b)[i] = IF i <= p THEN c[i] ELSE b[i - p]
  <2>1. Len(c) + Len(b) = Len(s) + 1 BY <1>0, <1>2, <1>4
  <2>2. /\ c \o b \in Seq(S) /\ Len(c \o b) = Len(c) + Len(b)
        /\ \A i \in 1 .. Len(c) + Len(b) : (c \o b)[i] = IF i <= Len(c) THEN c[i] ELSE b[i - Len(c)]
    BY <1>2, <1>4, ConcatProperties
  <2> QED BY <1>4, <2>1, <2>2
<1> DEFINE d == c \o b
<1>6. d \in Seq(S) /\ Len(d) = Len(s) + 1 /\ d[p] = e BY <1>0, <1>4, <1>5
<1>7. \A k \in 1 .. p - 1 : d[k] = s[k] BY <1>0, <1>4, <1>5
<1>8. \A k \in p + 1 .. Len(s) + 1 : d[k] = s[k - 1]
  <2> SUFFICES ASSUME NEW k \in p + 1 .. Len(s) + 1 PROVE d[k] = s[k - 1] OBVIOUS
  <2>1. k \in 1 .. Len(s) + 1 /\ ~ (k <= p) /\ k - p \in 1 .. Len(s) + 1 - p /\ p + (k - p) - 1 = k - 1
    BY <1>0
  <2>2. d[k] = b[k - p] BY <1>5, <2>1
  <2>3. b[k - p] = s[p + (k - p) - 1] BY <1>2, <2>1
  <2> QED BY <2>1, <2>2, <2>3
<1>9. Table!InsertAt(s, p, e) = d BY DEF Table!InsertAt, a, b, c
<1> HIDE DEF d
<1> QED BY <1>6, <1>7, <1>8, <1>9

\* Rows whose keys are those of others in order are in order.
LEMMA SameOrder ==
  ASSUME NEW s, NEW t, Ordered(s), Len(t) = Len(s),
         \A k \in 1 .. Len(s) : t[k].prefix = s[k].prefix /\ t[k].type = s[k].type
  PROVE  Ordered(t)
BY DEF Ordered, Table!Precedes, Table!SameKey

\* A row that is written takes its place.
LEMMA RowWritten ==
  ASSUME Table!TableAssumption, row \in Seq(Row), Ordered(row), NEW r \in Row
  PROVE  LET t == Table!Written(r)
         IN  /\ t \in Seq(Row) /\ Ordered(t)
             /\ \A k \in 1 .. Len(t) : t[k] = r \/ \E j \in 1 .. Len(row) : t[k] = row[j]
<1>0. Len(row) \in Nat /\ DOMAIN row = 1 .. Len(row) /\ \A k \in 1 .. Len(row) : row[k] \in Row
  OBVIOUS
<1>1. CASE \E k \in DOMAIN row : Table!SameKey(row[k], r)
  <2> DEFINE t == [k \in DOMAIN row |-> IF Table!SameKey(row[k], r) THEN r ELSE row[k]]
  <2>1. Table!Written(r) = t BY <1>1 DEF Table!Written
  <2>2. t \in Seq(Row) /\ Len(t) = Len(row) /\ \A k \in 1 .. Len(row) :
          t[k] = IF Table!SameKey(row[k], r) THEN r ELSE row[k]
    BY <1>0
  <2> HIDE DEF t
  <2>3. \A k \in 1 .. Len(row) : t[k].prefix = row[k].prefix /\ t[k].type = row[k].type
    BY <2>2 DEF Table!SameKey
  <2> QED BY <2>1, <2>2, <2>3, SameOrder
<1>2. CASE ~ \E k \in DOMAIN row : Table!SameKey(row[k], r)
  <2> DEFINE l == Len(row)
             behind == {k \in DOMAIN row : \A j \in k .. l : Table!Precedes(r, row[j])}
             T == {k \in Nat : k \in behind \/ k = l + 1}
  <2>1. T \subseteq Nat /\ l + 1 \in T BY <1>0
  <2>2. PICK p \in T : \A k \in T : p <= k
    <3> HIDE DEF T
    <3> QED BY <2>1, LeastOf
  <2>3. p \in 1 .. l + 1 BY <1>0, <2>1, <2>2
  <2>4. \A j \in p .. l : Table!Precedes(r, row[j]) BY <1>0, <2>2, <2>3
  <2>5. behind = p .. l
    <3>1. ASSUME NEW k \in behind PROVE k \in p .. l BY <1>0, <2>2, <2>3
    <3>2. ASSUME NEW k \in p .. l PROVE k \in behind
      <4>1. k \in 1 .. l BY <1>0, <2>3
      <4>2. \A j \in k .. l : j \in p .. l BY <1>0, <2>3
      <4> QED BY <1>0, <2>4, <4>1, <4>2
    <3> HIDE DEF behind
    <3> QED BY <3>1, <3>2
  <2>6. p > 1 => ~ Table!Precedes(r, row[p - 1])
    <3> SUFFICES ASSUME p > 1, Table!Precedes(r, row[p - 1]) PROVE FALSE OBVIOUS
    <3>1. p - 1 \in DOMAIN row /\ p - 1 \in Nat BY <1>0, <2>3
    <3>2. \A j \in p - 1 .. l : j = p - 1 \/ j \in p .. l BY <1>0, <2>3
    <3>3. p - 1 \in behind BY <2>4, <3>1, <3>2
    <3>4. p - 1 \in T BY <3>1, <3>3
    <3>5. p <= p - 1 BY <2>2, <3>4
    <3> QED BY <2>3, <3>5
  <2>7. Table!Cardinality(behind) = l + 1 - p
    <3>1. Table!Cardinality(behind) = Cardinality(p .. l)
      BY <2>5, Zenon DEF Table!Cardinality, Cardinality
    <3>2. Cardinality(p .. l) = IF p > l THEN 0 ELSE l - p + 1
      <4>1. p \in Int /\ l \in Int BY <1>0, <2>3
      <4> HIDE DEF l
      <4> QED BY <4>1, FS_Interval
    <3> QED BY <1>0, <2>3, <3>1, <3>2
  <2> DEFINE t == Table!InsertAt(row, p, r)
  <2>8. Table!Written(r) = t
    <3>1. Table!Written(r) = Table!InsertAt(row, l + 1 - Table!Cardinality(behind), r)
      BY <1>2 DEF Table!Written
    <3>2. l + 1 - Table!Cardinality(behind) = p BY <1>0, <2>3, <2>7
    <3> QED BY <3>1, <3>2
  <2>9. /\ t \in Seq(Row) /\ Len(t) = l + 1 /\ t[p] = r
        /\ \A k \in 1 .. p - 1 : t[k] = row[k]
        /\ \A k \in p + 1 .. l + 1 : t[k] = row[k - 1]
    BY <2>3, RowInserted
  <2> HIDE DEF t, T, behind
  <2>10. \A k \in 1 .. p - 1 : ~ Table!Precedes(r, row[k])
    <3> SUFFICES ASSUME NEW k \in 1 .. p - 1, Table!Precedes(r, row[k]) PROVE FALSE OBVIOUS
    <3>1. p > 1 /\ k \in 1 .. l /\ p - 1 \in 1 .. l BY <1>0, <2>3
    <3>2. k # p - 1 BY <2>6, <3>1
    <3>3. k < p - 1 BY <1>0, <2>3, <3>1, <3>2
    <3>4. ~ Table!Precedes(row[p - 1], row[k]) BY <3>1, <3>3 DEF Ordered
    <3>5. row[k] \in Row /\ row[p - 1] \in Row BY <1>0, <3>1
    <3>6. Table!Precedes(r, row[p - 1]) BY <3>4, <3>5, OrderSplits
    <3> QED BY <2>6, <3>1, <3>6
  <2>11. Ordered(t)
    <3> SUFFICES ASSUME NEW j \in 1 .. l + 1, NEW k \in 1 .. l + 1, j < k
                 PROVE  ~ Table!Precedes(t[k], t[j]) /\ ~ Table!SameKey(t[j], t[k])
      BY <2>9 DEF Ordered
    <3>0. \A x, y : Table!SameKey(x, y) <=> Table!SameKey(y, x) BY DEF Table!SameKey
    <3>1. CASE j = p
      <4>1. k \in p + 1 .. l + 1 /\ k - 1 \in 1 .. l /\ k - 1 \in p .. l BY <1>0, <2>3, <3>1
      <4>2. t[k] = row[k - 1] /\ t[j] = r BY <2>9, <3>1, <4>1
      <4>3. Table!Precedes(r, row[k - 1]) /\ row[k - 1] \in Row BY <1>0, <2>4, <4>1
      <4> QED BY <1>0, <1>2, <3>0, <4>1, <4>2, <4>3, OrderIsStrict
    <3>2. CASE k = p
      <4>1. j \in 1 .. p - 1 /\ j \in 1 .. l BY <1>0, <2>3, <3>2
      <4>2. t[j] = row[j] /\ t[k] = r BY <2>9, <3>2, <4>1
      <4> QED BY <1>0, <1>2, <2>10, <4>1, <4>2
    <3>3. CASE j # p /\ k # p
      <4> DEFINE Old(i) == IF i < p THEN i ELSE i - 1
      <4>1. Old(j) \in 1 .. l /\ Old(k) \in 1 .. l /\ Old(j) < Old(k) BY <1>0, <2>3, <3>3
      <4>2. t[j] = row[Old(j)] /\ t[k] = row[Old(k)] BY <1>0, <2>3, <2>9, <3>3
      <4> HIDE DEF Old
      <4> QED BY <4>1, <4>2 DEF Ordered
    <3> QED BY <3>1, <3>2, <3>3
  <2>12. ASSUME NEW k \in 1 .. l + 1 PROVE t[k] = r \/ \E j \in 1 .. l : t[k] = row[j]
    <3>1. k = p \/ k \in 1 .. p - 1 \/ k \in p + 1 .. l + 1 BY <1>0, <2>3
    <3>2. \A x \in 1 .. p - 1 : x \in 1 .. l BY <1>0, <2>3
    <3>3. \A x \in p + 1 .. l + 1 : x - 1 \in 1 .. l BY <1>0, <2>3
    <3> QED BY <2>9, <3>1, <3>2, <3>3
  <2> QED BY <2>8, <2>9, <2>11, <2>12
<1> QED BY <1>1, <1>2

\* The equation of the rows that are kept of the first ones.
IsKept(g, type, n) ==
  g = [i \in 0 .. n |-> IF i = 0 THEN <<>>
         ELSE IF row[i].type = type THEN g[i - 1] ELSE Append(g[i - 1], row[i])]

\* It has a solution: the one up to a row goes on to the next.
LEMMA KeptExist == ASSUME NEW type, NEW l \in Nat PROVE \E g : IsKept(g, type, l)
<1> DEFINE T == {n \in Nat : ~ \E g : IsKept(g, type, n)}
<1> SUFFICES ASSUME T # {} PROVE FALSE OBVIOUS
<1>1. T \subseteq Nat OBVIOUS
<1> HIDE DEF T
<1>2. PICK n \in T : \A k \in T : n <= k BY <1>1, LeastOf
<1>3. n \in Nat /\ ~ \E g : IsKept(g, type, n) BY <1>2 DEF T
<1>4. CASE n = 0
  <2>1. IsKept([b \in 0 .. 0 |-> <<>>], type, 0) BY DEF IsKept
  <2> QED BY <1>3, <1>4, <2>1
<1>5. CASE n # 0
  <2>1. n - 1 \in Nat /\ ~ (n <= n - 1) BY <1>3, <1>5
  <2>2. PICK g : IsKept(g, type, n - 1) BY <1>2, <2>1 DEF T
  <2> DEFINE Step(f, i) == IF row[i].type = type THEN f[i - 1] ELSE Append(f[i - 1], row[i])
             h == [b \in 0 .. n |-> IF b = 0 THEN <<>> ELSE Step(g, b)]
  <2>3. \A b \in 0 .. n - 1 : g[b] = IF b = 0 THEN <<>> ELSE Step(g, b)
    BY <2>1, <2>2 DEF IsKept
  <2>4. \A b \in 0 .. n - 1 : h[b] = g[b] BY <1>3, <2>3
  <2>5. \A b \in 0 .. n : h[b] = IF b = 0 THEN <<>> ELSE Step(h, b)
    <3> SUFFICES ASSUME NEW b \in 0 .. n PROVE h[b] = IF b = 0 THEN <<>> ELSE Step(h, b)
      OBVIOUS
    <3>1. h[b] = IF b = 0 THEN <<>> ELSE Step(g, b) OBVIOUS
    <3>2. b # 0 => b - 1 \in 0 .. n - 1 BY <1>3
    <3>3. b # 0 => h[b - 1] = g[b - 1] BY <2>4, <3>2
    <3> HIDE DEF h
    <3> QED BY <3>1, <3>3
  <2>6. h = [b \in 0 .. n |-> h[b]] OBVIOUS
  <2> HIDE DEF h
  <2>7. IsKept(h, type, n) BY <2>5, <2>6 DEF IsKept
  <2> QED BY <1>3, <2>7
<1> QED BY <1>4, <1>5

\* The rows that are kept are some of the rows, in their order.
LEMMA RowsKept ==
  ASSUME row \in Seq(Row), Ordered(row), NEW type
  PROVE  LET t == Table!Without(type)
         IN  /\ t \in Seq(Row) /\ Ordered(t)
             /\ \A k \in 1 .. Len(t) : \E j \in 1 .. Len(row) : t[k] = row[j]
<1> DEFINE l == Len(row)
           g == CHOOSE h : IsKept(h, type, l)
           OfFirst(t, n) == /\ t \in Seq(Row) /\ Ordered(t)
                            /\ \A k \in 1 .. Len(t) : \E j \in 1 .. n : t[k] = row[j]
           T == {n \in Nat : n \in 0 .. l /\ ~ OfFirst(g[n], n)}
<1>0. l \in Nat /\ \A k \in 1 .. l : row[k] \in Row OBVIOUS
<1>1. Table!Without(type) = g[l] BY Zenon DEF Table!Without, IsKept
<1>2. IsKept(g, type, l) BY <1>0, KeptExist
<1> HIDE DEF g
<1>3. \A n \in 0 .. l : g[n] = IF n = 0 THEN <<>>
         ELSE IF row[n].type = type THEN g[n - 1] ELSE Append(g[n - 1], row[n])
  BY <1>2 DEF IsKept
<1>4. T = {}
  <2> SUFFICES ASSUME T # {} PROVE FALSE OBVIOUS
  <2>1. T \subseteq Nat OBVIOUS
  <2> HIDE DEF T, OfFirst
  <2>2. PICK n \in T : \A k \in T : n <= k BY <2>1, LeastOf
  <2>3. n \in Nat /\ n \in 0 .. l /\ ~ OfFirst(g[n], n) BY <2>2 DEF T
  <2>4. n # 0
    <3>1. OfFirst(<<>>, 0) BY DEF OfFirst, Ordered
    <3>2. n = 0 => g[n] = <<>> BY <1>3, <2>3
    <3> QED BY <2>3, <3>1, <3>2
  <2>5. n - 1 \in Nat /\ n - 1 \in 0 .. l /\ ~ (n <= n - 1) /\ n \in 1 .. l BY <2>3, <2>4
  <2> DEFINE t == g[n - 1]
  <2>6. OfFirst(t, n - 1) BY <2>2, <2>5 DEF T
  <2>7. g[n] = IF row[n].type = type THEN t ELSE Append(t, row[n]) BY <1>3, <2>3, <2>4
  <2> HIDE DEF t
  <2>8. OfFirst(t, n) BY <2>5, <2>6 DEF OfFirst
  <2>9. OfFirst(Append(t, row[n]), n)
    <3> DEFINE u == Append(t, row[n])
    <3>1. t \in Seq(Row) /\ Ordered(t) /\ \A k \in 1 .. Len(t) : \E j \in 1 .. n - 1 : t[k] = row[j]
      BY <2>6 DEF OfFirst
    <3>2. row[n] \in Row BY <1>0, <2>5
    <3>3. /\ u \in Seq(Row) /\ Len(u) = Len(t) + 1 /\ Len(t) \in Nat
          /\ \A k \in 1 .. Len(t) : u[k] = t[k]
          /\ u[Len(t) + 1] = row[n]
      BY <3>1, <3>2
    <3> HIDE DEF u
    <3>4. \A k \in 1 .. Len(u) : \E j \in 1 .. n : u[k] = row[j]
      BY <2>5, <3>1, <3>3
    <3>5. Ordered(u)
      <4> SUFFICES ASSUME NEW j \in 1 .. Len(u), NEW k \in 1 .. Len(u), j < k
                   PROVE  ~ Table!Precedes(u[k], u[j]) /\ ~ Table!SameKey(u[j], u[k])
        BY DEF Ordered
      <4>1. j \in 1 .. Len(t) /\ (k \in 1 .. Len(t) \/ k = Len(t) + 1) BY <3>3
      <4>2. CASE k \in 1 .. Len(t) BY <3>1, <3>3, <4>1, <4>2 DEF Ordered
      <4>3. CASE k = Len(t) + 1
        <5>1. PICK i \in 1 .. n - 1 : t[j] = row[i] BY <3>1, <4>1
        <5>2. i \in 1 .. l /\ i < n BY <2>5
        <5> QED BY <2>5, <3>3, <4>1, <4>3, <5>1, <5>2 DEF Ordered
      <4> QED BY <4>1, <4>2, <4>3
    <3> QED BY <3>3, <3>4, <3>5 DEF OfFirst, u
  <2> QED BY <2>3, <2>7, <2>8, <2>9
<1>5. l \notin T /\ l \in 0 .. l BY <1>0, <1>4
<1>6. OfFirst(g[l], l) BY <1>0, <1>5
<1> QED BY <1>1, <1>6

-----------------------------------------------------------------------------
(* Faults. *)

\* What is due of a fault.
FaultsOK ==
  /\ enabled \in [Interfaces -> BOOLEAN] /\ faultCount \in [Interfaces -> Nat]
  /\ staticFault \in [Interfaces -> {"start", "end", "over"}]
  /\ randomFault \in [Interfaces -> {"start", "end", "over"}]
  /\ numLinkfault \in [Interfaces -> 0 .. Repetition]
  /\ queue \in [Interfaces -> 0 .. QueueSize] /\ sending \in [Interfaces -> BOOLEAN]
  /\ \A i \in Interfaces : /\ faultCount[i] = Table!Open(i)
                           /\ enabled[i] <=> Table!Open(i) = 0
                           /\ randomFault[i] # "over" => Repetition > 0
                           /\ queue[i] > 0 => enabled[i] /\ sending[i]

RowsOK == row \in Seq(Row) /\ Ordered(row)

\* Rows of the static kinds follow their interface.
Follows(s, on) == \A k \in 1 .. Len(s) :
  s[k].type \in Fixed => (s[k].enabled <=> on[s[k].interface])

TableInv == FaultsOK /\ RowsOK /\ Follows(row, enabled)

\* The rows through an interface are switched with it.
LEMMA RowsSwitch ==
  ASSUME TableInv, NEW i \in Interfaces, NEW on \in BOOLEAN
  PROVE  LET t == Table!RowsSwitched(i, on)
         IN  t \in Seq(Row) /\ Ordered(t) /\ Follows(t, [enabled EXCEPT ![i] = on])
<1> DEFINE t == Table!RowsSwitched(i, on)
<1>1. /\ row \in Seq(Row) /\ Ordered(row) /\ Follows(row, enabled)
      /\ enabled \in [Interfaces -> BOOLEAN] /\ Len(row) \in Nat /\ DOMAIN row = 1 .. Len(row)
      /\ \A k \in 1 .. Len(row) : row[k] \in Row
  BY DEF TableInv, RowsOK, FaultsOK
<1>2. t = [k \in 1 .. Len(row) |->
             IF row[k].type \in Fixed /\ row[k].interface = i
             THEN [row[k] EXCEPT !.enabled = on] ELSE row[k]]
  BY <1>1 DEF Table!RowsSwitched
<1> HIDE DEF t
<1>3. \A k \in 1 .. Len(row) : t[k] = IF row[k].type \in Fixed /\ row[k].interface = i
                                      THEN [row[k] EXCEPT !.enabled = on] ELSE row[k]
  BY <1>2
<1>4. \A k \in 1 .. Len(row) :
        /\ t[k] \in Row /\ t[k].prefix = row[k].prefix /\ t[k].type = row[k].type
        /\ t[k].interface = row[k].interface
        /\ t[k].enabled = IF row[k].type \in Fixed /\ row[k].interface = i THEN on
                          ELSE row[k].enabled
  BY <1>1, <1>3 DEF Row
<1>5. t \in Seq(Row) /\ Len(t) = Len(row)
  <2>1. t \in [1 .. Len(row) -> Row] BY <1>2, <1>4
  <2> QED BY <1>1, <2>1
<1>6. Ordered(t) BY <1>1, <1>4, <1>5, SameOrder
<1>7. Follows(t, [enabled EXCEPT ![i] = on])
  <2> SUFFICES ASSUME NEW k \in 1 .. Len(row), row[k].type \in Fixed
               PROVE  t[k].enabled <=> [enabled EXCEPT ![i] = on][t[k].interface]
    BY <1>4, <1>5 DEF Follows
  <2>1. row[k].interface \in Interfaces BY <1>1 DEF Row
  <2>2. row[k].enabled <=> enabled[row[k].interface] BY <1>1 DEF Follows
  <2> QED BY <1>1, <1>4, <2>1, <2>2
<1> QED BY <1>5, <1>6, <1>7 DEF t

-----------------------------------------------------------------------------
(* The steps. *)

\* The first row that fits.
LEMMA LookupIsFirst ==
  ASSUME row \in Seq(Row), NEW dest, Table!Matching(dest) # {}
  PROVE  /\ Table!Lookup(dest) \in Table!Matching(dest)
         /\ \A j \in Table!Matching(dest) : Table!Lookup(dest) <= j
         /\ Table!Matching(dest) \subseteq 1 .. Len(row)
<1> DEFINE T == Table!Matching(dest)
<1>1. T \subseteq 1 .. Len(row) BY DEF Table!Matching
<1>2. T \subseteq Nat BY <1>1
<1> HIDE DEF T
<1>3. PICK m \in T : \A j \in T : m <= j BY <1>2, LeastOf DEF T
<1>4. Table!Lookup(dest) = CHOOSE k \in T : \A j \in T : k <= j BY DEF Table!Lookup, T
<1> QED BY <1>1, <1>3, <1>4 DEF T

\* A routing protocol writes a row or takes its rows back.
LEMMA TableWrites ==
  ASSUME Table!TableAssumption, TableInv,
         Table!UpdateForwardingTable \/ Table!EmptyForwardingTable
  PROVE  TableInv'
<1>0. RowsOK /\ Follows(row, enabled) /\ FaultsOK /\ enabled \in [Interfaces -> BOOLEAN]
  BY DEF TableInv, FaultsOK
<1>1. UNCHANGED <<enabled, faultCount, staticFault, randomFault, numLinkfault, queue, sending>>
  BY DEF Table!UpdateForwardingTable, Table!EmptyForwardingTable, Table!faultVars, Table!queueVars
<1>2. FaultsOK' BY <1>0, <1>1 DEF FaultsOK, Table!Open
<1>3. ASSUME Table!UpdateForwardingTable PROVE RowsOK' /\ Follows(row', enabled)
  <2>1. PICK p \in Announced, t \in Types, h \in Hops, i \in Interfaces :
          row' = Table!Written([prefix |-> p, type |-> t, hop |-> h, interface |-> i,
                                enabled |-> enabled[i]])
    BY <1>3 DEF Table!UpdateForwardingTable
  <2> DEFINE r == [prefix |-> p, type |-> t, hop |-> h, interface |-> i, enabled |-> enabled[i]]
  <2>2. r \in Row /\ r.interface = i /\ r.enabled = enabled[i] BY <1>0 DEF Row
  <2> HIDE DEF r
  <2>3. /\ row' \in Seq(Row) /\ Ordered(row')
        /\ \A k \in 1 .. Len(row') : row'[k] = r \/ \E j \in 1 .. Len(row) : row'[k] = row[j]
    BY <1>0, <2>1, <2>2, RowWritten DEF RowsOK, r
  <2>4. Follows(row', enabled) BY <1>0, <2>2, <2>3 DEF Follows
  <2> QED BY <2>3, <2>4 DEF RowsOK
<1>4. ASSUME Table!EmptyForwardingTable PROVE RowsOK' /\ Follows(row', enabled)
  <2>1. PICK t \in Types : row' = Table!Without(t) BY <1>4 DEF Table!EmptyForwardingTable
  <2>2. /\ row' \in Seq(Row) /\ Ordered(row')
        /\ \A k \in 1 .. Len(row') : \E j \in 1 .. Len(row) : row'[k] = row[j]
    BY <1>0, <2>1, RowsKept DEF RowsOK
  <2>3. Follows(row', enabled) BY <1>0, <2>2 DEF Follows
  <2> QED BY <2>2, <2>3 DEF RowsOK
<1>5. Follows(row', enabled') BY <1>1, <1>3, <1>4
<1> QED BY <1>2, <1>3, <1>4, <1>5 DEF TableInv

\* Packets come to the output queue and leave it.
LEMMA PacketsWait ==
  ASSUME Table!TableAssumption, TableInv,
         Table!RouteThePacketUsingLookupTable \/ Table!MacDone
  PROVE  TableInv'
<1>0. RowsOK /\ Follows(row, enabled) /\ FaultsOK BY DEF TableInv
<1>1. UNCHANGED <<row, enabled, faultCount, staticFault, randomFault, numLinkfault>>
  BY DEF Table!RouteThePacketUsingLookupTable, Table!MacDone, Table!faultVars, Table!tableVars
<1>2. QueueSize \in Nat BY TableFacts
<1> DEFINE WaitOK(q, s) ==
      /\ q \in [Interfaces -> 0 .. QueueSize] /\ s \in [Interfaces -> BOOLEAN]
      /\ \A j \in Interfaces : q[j] > 0 => enabled[j] /\ s[j]
<1>3. WaitOK(queue, sending) BY <1>0 DEF FaultsOK
<1>4. ASSUME Table!RouteThePacketUsingLookupTable PROVE WaitOK(queue', sending')
  <2>1. PICK dest : /\ Table!Matching(dest) # {}
                    /\ Table!QueueUpIpFragmentForMacLayer(row[Table!Lookup(dest)].interface)
    BY <1>4 DEF Table!RouteThePacketUsingLookupTable
  <2> DEFINE i == row[Table!Lookup(dest)].interface
  <2>2. i \in Interfaces
    <3>1. Table!Lookup(dest) \in 1 .. Len(row) BY <1>0, <2>1, LookupIsFirst DEF RowsOK
    <3>2. row[Table!Lookup(dest)] \in Row BY <1>0, <3>1 DEF RowsOK
    <3> QED BY <3>2 DEF Row
  <2>3. Table!QueueUpIpFragmentForMacLayer(i) BY <2>1
  <2> HIDE DEF i
  <2>4. enabled[i] \in BOOLEAN /\ sending[i] \in BOOLEAN /\ queue[i] \in 0 .. QueueSize
    BY <1>0, <2>2 DEF FaultsOK
  <2>5. CASE queue[i] = QueueSize
    BY <1>3, <2>3, <2>5 DEF Table!QueueUpIpFragmentForMacLayer, Table!queueVars
  <2>6. CASE queue[i] = 0 /\ queue[i] < QueueSize
    <3>1. Table!MacTold(i, 1) BY <2>3, <2>6 DEF Table!QueueUpIpFragmentForMacLayer
    <3>2. CASE ~ enabled[i] BY <1>2, <1>3, <2>2, <3>1, <3>2 DEF Table!MacTold
    <3>3. CASE enabled[i] /\ sending[i]
      BY <1>2, <1>3, <2>2, <2>6, <3>1, <3>3 DEF Table!MacTold
    <3>4. CASE enabled[i] /\ ~ sending[i]
      <4>1. queue' = [queue EXCEPT ![i] = 1 - 1] /\ sending' = [sending EXCEPT ![i] = TRUE]
        BY <3>1, <3>4 DEF Table!MacTold
      <4>2. 1 - 1 = 0 /\ 0 \in 0 .. QueueSize BY <1>2
      <4>3. \A j \in Interfaces : sending'[j] <=> j = i \/ sending[j] BY <1>3, <2>2, <4>1
      <4>4. \A j \in Interfaces : queue'[j] = IF j = i THEN 0 ELSE queue[j] BY <1>3, <4>1, <4>2
      <4>5. queue' \in [Interfaces -> 0 .. QueueSize] /\ sending' \in [Interfaces -> BOOLEAN]
        BY <1>3, <4>1, <4>2
      <4> QED BY <1>3, <4>3, <4>4, <4>5
    <3> QED BY <2>4, <3>2, <3>3, <3>4
  <2>7. CASE queue[i] # QueueSize /\ ~ (queue[i] = 0 /\ queue[i] < QueueSize)
    <3>1. queue' = [queue EXCEPT ![i] = @ + 1] /\ sending' = sending
      BY <2>3, <2>7 DEF Table!QueueUpIpFragmentForMacLayer
    <3>2. queue[i] + 1 \in 0 .. QueueSize /\ queue[i] > 0 BY <1>2, <2>4, <2>7
    <3> QED BY <1>3, <2>2, <3>1, <3>2
  <2> QED BY <2>5, <2>6, <2>7
<1>5. ASSUME Table!MacDone PROVE WaitOK(queue', sending')
  <2>1. PICK i \in Interfaces :
          /\ sending[i]
          /\ IF queue[i] > 0 THEN queue' = [queue EXCEPT ![i] = @ - 1] /\ UNCHANGED sending
             ELSE sending' = [sending EXCEPT ![i] = FALSE] /\ UNCHANGED queue
    BY <1>5 DEF Table!MacDone
  <2>2. queue[i] \in 0 .. QueueSize BY <1>3
  <2>3. CASE queue[i] > 0
    <3>1. queue' = [queue EXCEPT ![i] = @ - 1] /\ sending' = sending BY <2>1, <2>3
    <3>2. queue[i] - 1 \in 0 .. QueueSize BY <1>2, <2>2, <2>3
    <3> QED BY <1>3, <2>3, <3>1, <3>2
  <2>4. CASE ~ (queue[i] > 0) BY <1>3, <2>1, <2>4
  <2> QED BY <2>3, <2>4
<1>6. WaitOK(queue', sending') BY <1>4, <1>5
<1>7. FaultsOK' BY <1>0, <1>1, <1>6 DEF FaultsOK, Table!Open
<1> QED BY <1>0, <1>1, <1>7 DEF TableInv, RowsOK

\* An interface is taken down: the first fault switches it and its rows off.
LEMMA TakenDown ==
  ASSUME Table!TableAssumption, TableInv, NEW i \in Interfaces,
         Table!ProcessDisableInterface(i), UNCHANGED <<sending>>
  PROVE  /\ faultCount' = [faultCount EXCEPT ![i] = @ + 1]
         /\ enabled' \in [Interfaces -> BOOLEAN]
         /\ \A j \in Interfaces : enabled'[j] <=> j # i /\ enabled[j]
         /\ queue' \in [Interfaces -> 0 .. QueueSize]
         /\ \A j \in Interfaces : queue'[j] > 0 => enabled'[j] /\ sending'[j]
         /\ RowsOK' /\ Follows(row', enabled')
<1>0. RowsOK /\ Follows(row, enabled) /\ FaultsOK BY DEF TableInv
<1>1. /\ enabled \in [Interfaces -> BOOLEAN] /\ faultCount[i] \in Nat
      /\ faultCount[i] = Table!Open(i) /\ (enabled[i] <=> Table!Open(i) = 0)
      /\ queue \in [Interfaces -> 0 .. QueueSize]
      /\ \A j \in Interfaces : queue[j] > 0 => enabled[j] /\ sending[j]
  BY <1>0 DEF FaultsOK
<1>2. QueueSize \in Nat BY TableFacts
<1>3. faultCount' = [faultCount EXCEPT ![i] = @ + 1] BY DEF Table!ProcessDisableInterface
<1>4. CASE faultCount[i] > 0
  <2>1. UNCHANGED <<enabled, row, queue>> BY <1>4 DEF Table!ProcessDisableInterface
  <2>2. ~ enabled[i] BY <1>1, <1>4
  <2>3. \A j \in Interfaces : enabled'[j] <=> j # i /\ enabled[j] BY <1>1, <2>1, <2>2
  <2>4. RowsOK' /\ Follows(row', enabled') BY <1>0, <2>1 DEF RowsOK
  <2> QED BY <1>1, <1>3, <2>1, <2>3, <2>4
<1>5. CASE ~ (faultCount[i] > 0)
  <2>1. /\ enabled' = [enabled EXCEPT ![i] = FALSE] /\ row' = Table!RowsSwitched(i, FALSE)
        /\ queue' = [queue EXCEPT ![i] = 0]
    BY <1>5 DEF Table!ProcessDisableInterface
  <2> DEFINE no == FALSE
  <2>2. no \in BOOLEAN /\ row' = Table!RowsSwitched(i, no) /\ enabled' = [enabled EXCEPT ![i] = no]
    BY <2>1
  <2> HIDE DEF no
  <2>3. row' \in Seq(Row) /\ Ordered(row') /\ Follows(row', enabled')
    BY <2>2, RowsSwitch
  <2>4. /\ enabled' \in [Interfaces -> BOOLEAN]
        /\ \A j \in Interfaces : enabled'[j] <=> j # i /\ enabled[j]
    BY <1>1, <2>1
  <2>5. /\ queue' \in [Interfaces -> 0 .. QueueSize]
        /\ \A j \in Interfaces : queue'[j] = IF j = i THEN 0 ELSE queue[j]
    BY <1>1, <1>2, <2>1
  <2>6. \A j \in Interfaces : queue'[j] > 0 => enabled'[j] /\ sending'[j] BY <1>1, <2>4, <2>5
  <2> QED BY <1>3, <2>3, <2>4, <2>5, <2>6 DEF RowsOK
<1> QED BY <1>4, <1>5

\* An interface is taken up again: the last fault switches it and its rows on.
LEMMA TakenUp ==
  ASSUME Table!TableAssumption, TableInv, NEW i \in Interfaces, faultCount[i] > 0,
         Table!ProcessEnableInterface(i)
  PROVE  /\ faultCount' = [faultCount EXCEPT ![i] = @ - 1]
         /\ enabled' \in [Interfaces -> BOOLEAN]
         /\ \A j \in Interfaces : enabled'[j] <=> IF j = i THEN faultCount[i] = 1 ELSE enabled[j]
         /\ queue' = queue /\ sending' = sending
         /\ RowsOK' /\ Follows(row', enabled')
<1>0. RowsOK /\ Follows(row, enabled) /\ FaultsOK BY DEF TableInv
<1>1. /\ enabled \in [Interfaces -> BOOLEAN] /\ faultCount[i] \in Nat
      /\ faultCount[i] = Table!Open(i) /\ (enabled[i] <=> Table!Open(i) = 0)
      /\ queue \in [Interfaces -> 0 .. QueueSize] /\ (queue[i] > 0 => enabled[i])
  BY <1>0 DEF FaultsOK
<1>2. ~ enabled[i] /\ queue[i] = 0 BY <1>1
<1>3. faultCount' = [faultCount EXCEPT ![i] = @ - 1] BY DEF Table!ProcessEnableInterface
<1>4. CASE faultCount[i] > 1
  <2>1. UNCHANGED <<enabled, row, queue, sending>>
    BY <1>4 DEF Table!ProcessEnableInterface, Table!queueVars
  <2>2. \A j \in Interfaces : enabled'[j] <=> IF j = i THEN faultCount[i] = 1 ELSE enabled[j]
    BY <1>1, <1>2, <1>4, <2>1
  <2>3. RowsOK' /\ Follows(row', enabled') BY <1>0, <2>1 DEF RowsOK
  <2> QED BY <1>1, <1>3, <2>1, <2>2, <2>3
<1>5. CASE ~ (faultCount[i] > 1)
  <2>1. /\ enabled' = [enabled EXCEPT ![i] = TRUE] /\ row' = Table!RowsSwitched(i, TRUE)
        /\ UNCHANGED <<queue, sending>>
    BY <1>2, <1>5 DEF Table!ProcessEnableInterface, Table!queueVars
  <2> DEFINE yes == TRUE
  <2>2. yes \in BOOLEAN /\ row' = Table!RowsSwitched(i, yes) /\ enabled' = [enabled EXCEPT ![i] = yes]
    BY <2>1
  <2> HIDE DEF yes
  <2>3. row' \in Seq(Row) /\ Ordered(row') /\ Follows(row', enabled')
    BY <2>2, RowsSwitch
  <2>4. faultCount[i] = 1 BY <1>1, <1>5
  <2>5. /\ enabled' \in [Interfaces -> BOOLEAN]
        /\ \A j \in Interfaces : enabled'[j] <=> j = i \/ enabled[j]
    BY <1>1, <2>1
  <2>6. \A j \in Interfaces : enabled'[j] <=> IF j = i THEN faultCount[i] = 1 ELSE enabled[j]
    BY <2>4, <2>5
  <2> QED BY <1>3, <2>1, <2>3, <2>5, <2>6 DEF RowsOK
<1> QED BY <1>4, <1>5

\* The events of a fault.
LEMMA FaultsStep ==
  ASSUME Table!TableAssumption, TableInv,
         \/ Table!StaticFaultStarts \/ Table!StaticFaultEnds
         \/ Table!RandomFaultStarts \/ Table!RandomFaultEnds
  PROVE  TableInv'
<1>0. RowsOK /\ Follows(row, enabled) /\ FaultsOK BY DEF TableInv
<1>1. /\ enabled \in [Interfaces -> BOOLEAN] /\ faultCount \in [Interfaces -> Nat]
      /\ staticFault \in [Interfaces -> {"start", "end", "over"}]
      /\ randomFault \in [Interfaces -> {"start", "end", "over"}]
      /\ numLinkfault \in [Interfaces -> 0 .. Repetition]
      /\ queue \in [Interfaces -> 0 .. QueueSize] /\ sending \in [Interfaces -> BOOLEAN]
      /\ \A j \in Interfaces : /\ faultCount[j] = Table!Open(j)
                               /\ enabled[j] <=> Table!Open(j) = 0
                               /\ randomFault[j] # "over" => Repetition > 0
                               /\ queue[j] > 0 => enabled[j] /\ sending[j]
  BY <1>0 DEF FaultsOK
<1>2. Repetition \in Nat BY TableFacts
<1>3. ASSUME NEW i \in Interfaces,
             faultCount' = [faultCount EXCEPT ![i] = @ + 1],
             enabled' \in [Interfaces -> BOOLEAN],
             \A j \in Interfaces : enabled'[j] <=> j # i /\ enabled[j],
             queue' \in [Interfaces -> 0 .. QueueSize], sending' = sending,
             \A j \in Interfaces : queue'[j] > 0 => enabled'[j] /\ sending'[j],
             RowsOK', Follows(row', enabled'),
             staticFault' \in [Interfaces -> {"start", "end", "over"}],
             randomFault' \in [Interfaces -> {"start", "end", "over"}],
             numLinkfault' \in [Interfaces -> 0 .. Repetition],
             \A j \in Interfaces : /\ Table!Open(j)' = Table!Open(j) + IF j = i THEN 1 ELSE 0
                                   /\ randomFault'[j] # "over" => Repetition > 0
      PROVE  TableInv'
  <2>1. \A j \in Interfaces : Table!Open(j) \in Nat BY DEF Table!Open
  <2>2. faultCount' \in [Interfaces -> Nat] BY <1>1, <1>3
  <2>3. \A j \in Interfaces : faultCount'[j] = Table!Open(j)' BY <1>1, <1>3, <2>1
  <2>4. \A j \in Interfaces : enabled'[j] <=> Table!Open(j)' = 0 BY <1>1, <1>3, <2>1
  <2>5. FaultsOK' BY <1>1, <1>3, <2>2, <2>3, <2>4 DEF FaultsOK
  <2> QED BY <1>3, <2>5 DEF TableInv
<1>4. ASSUME NEW i \in Interfaces, Table!Open(i) > 0,
             faultCount' = [faultCount EXCEPT ![i] = @ - 1],
             enabled' \in [Interfaces -> BOOLEAN],
             \A j \in Interfaces : enabled'[j] <=> IF j = i THEN faultCount[i] = 1 ELSE enabled[j],
             queue' = queue, sending' = sending, RowsOK', Follows(row', enabled'),
             staticFault' \in [Interfaces -> {"start", "end", "over"}],
             randomFault' \in [Interfaces -> {"start", "end", "over"}],
             numLinkfault' = numLinkfault,
             \A j \in Interfaces : /\ Table!Open(j)' = Table!Open(j) - IF j = i THEN 1 ELSE 0
                                   /\ randomFault'[j] # "over" => Repetition > 0
      PROVE  TableInv'
  <2>1. \A j \in Interfaces : Table!Open(j) \in Nat BY DEF Table!Open
  <2>2. faultCount' \in [Interfaces -> Nat]
    <3>1. faultCount[i] - 1 \in Nat BY <1>1, <1>4, <2>1
    <3> QED BY <1>1, <1>4, <3>1
  <2>3. \A j \in Interfaces : faultCount'[j] = Table!Open(j)' BY <1>1, <1>4, <2>1
  <2>4. \A j \in Interfaces : enabled'[j] <=> Table!Open(j)' = 0 BY <1>1, <1>4, <2>1
  <2>5. \A j \in Interfaces : queue'[j] > 0 => enabled'[j] /\ sending'[j]
    BY <1>1, <1>4, <2>1
  <2>6. FaultsOK' BY <1>1, <1>4, <2>2, <2>3, <2>4, <2>5 DEF FaultsOK
  <2> QED BY <1>4, <2>6 DEF TableInv
<1>5. ASSUME Table!StaticFaultStarts PROVE TableInv'
  <2>1. PICK i \in Interfaces :
          /\ staticFault[i] = "start" /\ staticFault' = [staticFault EXCEPT ![i] = "end"]
          /\ Table!ProcessDisableInterface(i) /\ UNCHANGED <<randomFault, numLinkfault, sending>>
    BY <1>5 DEF Table!StaticFaultStarts
  <2>2. staticFault' \in [Interfaces -> {"start", "end", "over"}] BY <1>1, <2>1
  <2>3. \A j \in Interfaces : Table!Open(j)' = Table!Open(j) + IF j = i THEN 1 ELSE 0
    BY <1>1, <2>1 DEF Table!Open
  <2> QED BY <1>1, <1>3, <2>1, <2>2, <2>3, TakenDown
<1>6. ASSUME Table!StaticFaultEnds PROVE TableInv'
  <2>1. PICK i \in Interfaces :
          /\ staticFault[i] = "end" /\ staticFault' = [staticFault EXCEPT ![i] = "over"]
          /\ Table!ProcessEnableInterface(i) /\ UNCHANGED <<randomFault, numLinkfault>>
    BY <1>6 DEF Table!StaticFaultEnds
  <2>2. staticFault' \in [Interfaces -> {"start", "end", "over"}] BY <1>1, <2>1
  <2>3. \A j \in Interfaces : Table!Open(j)' = Table!Open(j) - IF j = i THEN 1 ELSE 0
    BY <1>1, <2>1 DEF Table!Open
  <2>4. Table!Open(i) > 0 /\ faultCount[i] > 0 BY <1>1, <2>1 DEF Table!Open
  <2> QED BY <1>1, <1>4, <2>1, <2>2, <2>3, <2>4, TakenUp
<1>7. ASSUME Table!RandomFaultStarts PROVE TableInv'
  <2>1. PICK i \in Interfaces :
          /\ randomFault[i] = "start" /\ UNCHANGED <<staticFault, sending>>
          /\ IF Repetition > 0 /\ Repetition = numLinkfault[i]
             THEN /\ randomFault' = [randomFault EXCEPT ![i] = "over"]
                  /\ UNCHANGED <<enabled, faultCount, row, queue, tunnel, numLinkfault>>
             ELSE /\ randomFault' = [randomFault EXCEPT ![i] = "end"]
                  /\ numLinkfault' = [numLinkfault EXCEPT ![i] = @ + 1]
                  /\ Table!ProcessDisableInterface(i)
    BY <1>7 DEF Table!RandomFaultStarts
  <2>2. CASE Repetition > 0 /\ Repetition = numLinkfault[i]
    <3>1. /\ randomFault' = [randomFault EXCEPT ![i] = "over"]
          /\ UNCHANGED <<enabled, faultCount, row, queue, numLinkfault, staticFault, sending>>
      BY <2>1, <2>2
    <3>2. randomFault' \in [Interfaces -> {"start", "end", "over"}] BY <1>1, <3>1
    <3>3. \A j \in Interfaces : Table!Open(j)' = Table!Open(j)
      BY <1>1, <2>1, <3>1 DEF Table!Open
    <3>4. \A j \in Interfaces : randomFault'[j] # "over" => Repetition > 0 BY <1>1, <3>1
    <3>5. FaultsOK' BY <1>1, <3>1, <3>2, <3>3, <3>4 DEF FaultsOK
    <3> QED BY <1>0, <3>1, <3>5 DEF TableInv, RowsOK
  <2>3. CASE ~ (Repetition > 0 /\ Repetition = numLinkfault[i])
    <3>1. /\ randomFault' = [randomFault EXCEPT ![i] = "end"]
          /\ numLinkfault' = [numLinkfault EXCEPT ![i] = @ + 1]
          /\ Table!ProcessDisableInterface(i) /\ UNCHANGED <<staticFault, sending>>
      BY <2>1, <2>3
    <3>2. randomFault' \in [Interfaces -> {"start", "end", "over"}] BY <1>1, <3>1
    <3>3. Repetition > 0 BY <1>1, <2>1
    <3>4. numLinkfault' \in [Interfaces -> 0 .. Repetition]
      <4>1. numLinkfault[i] + 1 \in 0 .. Repetition BY <1>1, <1>2, <2>3, <3>3
      <4> QED BY <1>1, <3>1, <4>1
    <3>5. \A j \in Interfaces : Table!Open(j)' = Table!Open(j) + IF j = i THEN 1 ELSE 0
      BY <1>1, <2>1, <3>1 DEF Table!Open
    <3>6. staticFault' \in [Interfaces -> {"start", "end", "over"}] BY <1>1, <3>1
    <3> QED BY <1>1, <1>3, <3>1, <3>2, <3>3, <3>4, <3>5, <3>6, TakenDown
  <2> QED BY <2>2, <2>3
<1>8. ASSUME Table!RandomFaultEnds PROVE TableInv'
  <2>1. PICK i \in Interfaces :
          /\ randomFault[i] = "end" /\ randomFault' = [randomFault EXCEPT ![i] = "start"]
          /\ Table!ProcessEnableInterface(i) /\ UNCHANGED <<staticFault, numLinkfault>>
    BY <1>8 DEF Table!RandomFaultEnds
  <2>2. randomFault' \in [Interfaces -> {"start", "end", "over"}] BY <1>1, <2>1
  <2>3. \A j \in Interfaces : Table!Open(j)' = Table!Open(j) - IF j = i THEN 1 ELSE 0
    BY <1>1, <2>1 DEF Table!Open
  <2>4. Table!Open(i) > 0 /\ faultCount[i] > 0 BY <1>1, <2>1 DEF Table!Open
  <2>5. Repetition > 0 BY <1>1, <2>1
  <2>6. staticFault' \in [Interfaces -> {"start", "end", "over"}] BY <1>1, <2>1
  <2> QED BY <1>1, <1>4, <2>1, <2>2, <2>3, <2>4, <2>5, <2>6, TakenUp
<1> QED BY <1>5, <1>6, <1>7, <1>8

\* An empty table of working interfaces.
LEMMA TableStarts == ASSUME Table!TableAssumption, Table!Init PROVE TableInv
<1>1. QueueSize \in Nat /\ Repetition \in Nat BY TableFacts
<1>2. row \in Seq(Row) /\ Len(row) = 0 BY DEF Table!Init
<1>3. \A i \in Interfaces : Table!FirstRandomFault[i] = IF Repetition = 0 THEN "over" ELSE "start"
  BY DEF Table!FirstRandomFault
<1>4. Table!FirstRandomFault \in [Interfaces -> {"start", "end", "over"}]
  BY DEF Table!FirstRandomFault
<1>5. \A i \in Interfaces : Table!Open(i) = 0 BY <1>3 DEF Table!Init, Table!Open
<1>6. FaultsOK BY <1>1, <1>3, <1>4, <1>5 DEF FaultsOK, Table!Init
<1> QED BY <1>2, <1>6 DEF TableInv, RowsOK, Ordered, Follows

\* The invariant of the table holds throughout.
LEMMA TableAlways == Table!TableAssumption => (Table!Spec => []TableInv)
<1> SUFFICES ASSUME Table!TableAssumption PROVE Table!Spec => []TableInv OBVIOUS
<1>1. Table!Init => TableInv BY TableStarts
<1>2. TableInv /\ [Table!Next]_(Table!vars) => TableInv'
  <2> SUFFICES ASSUME TableInv, [Table!Next]_(Table!vars) PROVE TableInv' OBVIOUS
  <2>1. CASE Table!Next BY <2>1, TableWrites, PacketsWait, FaultsStep DEF Table!Next
  <2>2. CASE UNCHANGED Table!vars
    BY <2>2 DEF TableInv, FaultsOK, RowsOK, Follows, Table!Open, Table!vars
  <2> QED BY <2>1, <2>2
<1> QED BY <1>1, <1>2, PTL DEF Table!Spec

\* In ordered rows the first one that fits an address has the longest prefix, and of
\* those the most trusted protocol.
LEMMA FirstIsBest == ASSUME Table!TableAssumption, RowsOK PROVE Table!LookupIsBest
<1> SUFFICES ASSUME NEW dest \in 0 .. Table!Values[Width] - 1, NEW k \in Table!Matching(dest)
             PROVE  LET found == row[Table!Lookup(dest)]
                    IN  \/ found.prefix[2] > row[k].prefix[2]
                        \/ /\ found.prefix = row[k].prefix
                           /\ Table!Distance(found.type) <= Table!Distance(row[k].type)
  BY DEF Table!LookupIsBest
<1> DEFINE f == Table!Lookup(dest)
<1>0. row \in Seq(Row) /\ Ordered(row) /\ Width \in Nat BY TableFacts DEF RowsOK
<1>1. /\ f \in Table!Matching(dest) /\ f <= k /\ Table!Matching(dest) \subseteq 1 .. Len(row)
  BY <1>0, LookupIsFirst
<1>2. /\ Table!Mask(dest, row[f].prefix[2]) = row[f].prefix[1]
      /\ Table!Mask(dest, row[k].prefix[2]) = row[k].prefix[1]
  BY <1>1 DEF Table!Matching
<1> HIDE DEF f
<1>3. f \in 1 .. Len(row) /\ k \in 1 .. Len(row) /\ row[f] \in Row /\ row[k] \in Row
  BY <1>0, <1>1
<1>4. \A x \in Row : /\ x.prefix[1] \in Int /\ x.prefix[2] \in 0 .. Width
                     /\ x.prefix = <<x.prefix[1], x.prefix[2]>> /\ AdminDistance[x.type] \in Nat
  BY TableFacts DEF Row
<1>5. dest \in Nat OBVIOUS
<1>6. CASE f = k BY <1>3, <1>4, <1>6 DEF Table!Distance, f
<1>7. CASE f # k
  <2>1. f < k BY <1>1, <1>3, <1>7
  <2>2. ~ Table!Precedes(row[k], row[f]) BY <1>0, <1>3, <2>1 DEF Ordered
  <2> DEFINE a == row[f].prefix
             b == row[k].prefix
  <2>3. /\ a[1] \in Int /\ a[2] \in 0 .. Width /\ a = <<a[1], a[2]>>
        /\ b[1] \in Int /\ b[2] \in 0 .. Width /\ b = <<b[1], b[2]>>
        /\ AdminDistance[row[f].type] \in Nat /\ AdminDistance[row[k].type] \in Nat
    BY <1>3, <1>4
  <2>4. /\ ~ (b[1] > a[1]) /\ ~ (b[1] = a[1] /\ b[2] > a[2])
        /\ ~ (b = a /\ AdminDistance[row[k].type] < AdminDistance[row[f].type])
    BY <2>2 DEF Table!Precedes, Table!Distance
  <2>5. Table!Mask(dest, a[2]) = a[1] /\ Table!Mask(dest, b[2]) = b[1] BY <1>2
  <2> HIDE DEF a, b
  <2>6. a[2] <= b[2] => a[1] <= b[1] BY <1>0, <1>5, <2>3, <2>5, MaskGrows
  <2>7. a[2] > b[2] \/ (a = b /\ AdminDistance[row[f].type] <= AdminDistance[row[k].type])
    <3> SUFFICES ASSUME ~ (a[2] > b[2]) PROVE a = b /\ AdminDistance[row[f].type] <= AdminDistance[row[k].type]
      OBVIOUS
    <3>1. a[2] <= b[2] /\ a[1] <= b[1] BY <2>3, <2>6
    <3>2. a[1] = b[1] BY <2>3, <2>4, <3>1
    <3>3. a[2] = b[2] BY <2>3, <2>4, <3>1, <3>2
    <3>4. a = b BY <2>3, <3>2, <3>3
    <3> QED BY <2>3, <2>4, <3>4
  <2> QED BY <2>7 DEF a, b, f, Table!Distance
<1> QED BY <1>6, <1>7

\* The first row that matches is the best route, whatever order the rows were written
\* and taken back in.
THEOREM FirstRouteIsBest == Table!TableAssumption => (Table!Spec => []Table!LookupIsBest)
<1> SUFFICES ASSUME Table!TableAssumption PROVE Table!Spec => []Table!LookupIsBest OBVIOUS
<1>1. TableInv => Table!LookupIsBest BY FirstIsBest DEF TableInv
<1> QED BY <1>1, TableAlways, PTL

\* Overlapping faults keep an interface down until the last one ends; its static routes
\* are off exactly then, and no packet waits where nobody would fetch it.
THEOREM FaultsAreFollowed ==
  Table!TableAssumption =>
    (Table!Spec => [](/\ Table!TypeOK /\ Table!DownWhileFaulty
                      /\ Table!StaticRoutesFollow /\ Table!NothingStranded))
<1> SUFFICES ASSUME Table!TableAssumption
             PROVE  Table!Spec => [](/\ Table!TypeOK /\ Table!DownWhileFaulty
                                     /\ Table!StaticRoutesFollow /\ Table!NothingStranded)
  OBVIOUS
<1>1. TableInv => /\ Table!TypeOK /\ Table!DownWhileFaulty
                  /\ Table!StaticRoutesFollow /\ Table!NothingStranded
  <2> SUFFICES ASSUME TableInv PROVE /\ Table!TypeOK /\ Table!DownWhileFaulty
                                     /\ Table!StaticRoutesFollow /\ Table!NothingStranded
    OBVIOUS
  <2>1. FaultsOK /\ row \in Seq(Row) /\ Ordered(row) /\ Follows(row, enabled)
    BY DEF TableInv, RowsOK
  <2>2. DOMAIN row = 1 .. Len(row) BY <2>1
  <2>3. \A j, k \in DOMAIN row : Table!SameKey(row[j], row[k]) => j = k
    <3> SUFFICES ASSUME NEW j \in 1 .. Len(row), NEW k \in 1 .. Len(row), j # k
                 PROVE  ~ Table!SameKey(row[j], row[k])
      BY <2>2
    <3>1. Table!SameKey(row[j], row[k]) <=> Table!SameKey(row[k], row[j]) BY DEF Table!SameKey
    <3>2. j < k \/ k < j OBVIOUS
    <3> QED BY <2>1, <3>1, <3>2 DEF Ordered
  <2>4. Table!TypeOK BY <2>1, <2>3 DEF Table!TypeOK, FaultsOK
  <2>5. Table!DownWhileFaulty /\ Table!NothingStranded
    BY <2>1 DEF Table!DownWhileFaulty, Table!NothingStranded, FaultsOK
  <2>6. Table!StaticRoutesFollow BY <2>1, <2>2 DEF Table!StaticRoutesFollow, Follows
  <2> QED BY <2>4, <2>5, <2>6
<1> QED BY <1>1, TableAlways, PTL

-----------------------------------------------------------------------------
(* The path of packets. *)

CONSTANTS
    Nodes, Nics, Owner, Subnets, SubnetOf, Groups, AnyDest, Cpu, None, Routers, Routes,
    Central, Unlimited, Lossy, Ttl, Sends, Apps, AppNode, AppGroup, MaxUpdates
VARIABLES
    route, multicast, updates, member, app, unsent, backplane, busy, event, air, delivered

Path == INSTANCE IpPath

Dest == Nics \cup Subnets \cup Groups \cup {AnyDest}
Hop == Nics \cup {AnyDest}
Port == Nics \cup {Cpu}
QueueIds == Nodes \cup Nics

\* A packet keeps the destination of its message, and only one for a single node has
\* a source route.
Packet ==
  {p \in [id : Sends, src : Nics, dst : Dest, path : Seq(Nics), ttl : 1 .. Ttl] :
     p.dst = p.id.dst /\ (p.path # <<>> => p.dst \in Nics)}
Waiting == [pkt : Packet, in : Port, out : Port, hop : Hop]
Frame == {f \in [pkt : Packet, from : Nics, to : Nics] : f.to \in Path!Peers(f.from)}
Handing == [id : Sends, at : Nodes, hop : Hop]
Crossing == [in : Port, hop : Hop]

\* A bag of frames.
AirOf == UNION {[fs -> Nat \ {0}] : fs \in SUBSET Frame}

FlowSet ==
  [backplane : [QueueIds -> Seq(Waiting)], busy : [QueueIds -> BOOLEAN],
   event : [QueueIds -> Crossing \cup {None}], air : AirOf, delivered : SUBSET Handing]

\* What is for one interface goes to one next hop, or up at its destination.
OneWay(n, pkt, o, hop) ==
  pkt.dst \in Nics => hop \in Nics /\ (o = Cpu => n = Owner[pkt.dst])
Addressed(s) == \A q \in QueueIds : \A k \in 1 .. Len(s.backplane[q]) :
  LET e == s.backplane[q][k] IN OneWay(Path!NodeOf(q), e.pkt, e.out, e.hop)
HandedRight(s) == \A d \in s.delivered : d.id.dst \in Nics => d.at = Owner[d.id.dst]

\* A queue that is busy has its event, which is that of its first packet.
Crossed(s, q) ==
  /\ s.busy[q] <=> s.event[q] # None
  /\ s.event[q] # None =>
       /\ s.backplane[q] # <<>> /\ s.event[q].hop = Head(s.backplane[q]).hop
       /\ Path!QueueFor(Path!NodeOf(q), s.event[q].in) = q

\* The flow is sound, but for the wakeup of some queues.
SoundBut(s, qs) ==
  /\ s \in FlowSet /\ Addressed(s) /\ HandedRight(s)
  /\ \A q \in QueueIds : Crossed(s, q) /\ Len(s.backplane[q]) <= QueueSize
  /\ \A q \in QueueIds \ qs : s.backplane[q] # <<>> => s.busy[q]

\* The places of a packet.
Enqueued(s, id) ==
  {x \in QueueIds \X (1 .. QueueSize) :
     x[2] <= Len(s.backplane[x[1]]) /\ s.backplane[x[1]][x[2]].pkt.id = id}
Flying(s, id) == {f \in DOMAIN s.air : f.pkt.id = id}
Handed(s, id) == {d \in s.delivered : d.id = id}

Nowhere(s, id) == Enqueued(s, id) = {} /\ Flying(s, id) = {} /\ Handed(s, id) = {}
Once(s, id) ==
  /\ \A x, y \in Enqueued(s, id) : x = y
  /\ \A f, g \in Flying(s, id) : f = g
  /\ \A f \in Flying(s, id) : s.air[f] = 1
  /\ \A d, e \in Handed(s, id) : d = e
  /\ Enqueued(s, id) = {} \/ Flying(s, id) = {}
  /\ Enqueued(s, id) = {} \/ Handed(s, id) = {}
  /\ Flying(s, id) = {} \/ Handed(s, id) = {}

\* What a step does to the packets it is not about, and what it does to its own.
Kept(s, t, id) == (Nowhere(s, id) => Nowhere(t, id)) /\ (Once(s, id) => Once(t, id))
Placed(s, t, id) ==
  /\ \A i \in Sends \ {id} : Kept(s, t, i)
  /\ id.dst \in Nics /\ Nowhere(s, id) => Once(t, id)
Taken(s, t, id) ==
  /\ \A i \in Sends \ {id} : Kept(s, t, i)
  /\ ~ Nowhere(s, id)
  /\ Once(s, id) => Nowhere(t, id)

-----------------------------------------------------------------------------
\* The instance counts as this module does.
LEMMA SameCount ==
  /\ \A S : Path!IsFiniteSet(S) <=> IsFiniteSet(S)
  /\ \A S : Path!Cardinality(S) = Cardinality(S)
<1>1. \A S : Path!IsFiniteSet(S) <=> IsFiniteSet(S) BY Zenon DEF Path!IsFiniteSet, IsFiniteSet
<1>2. \A S : Path!Cardinality(S) = Cardinality(S) BY Zenon DEF Path!Cardinality, Cardinality
<1> QED BY <1>1, <1>2

\* The constants.
LEMMA PathFacts ==
  ASSUME Path!PathAssumption
  PROVE  /\ Owner \in [Nics -> Nodes] /\ SubnetOf \in [Nics -> Subnets]
         /\ Nodes \cap Nics = {} /\ Nics \cap Subnets = {} /\ Nics \cap Groups = {}
         /\ Subnets \cap Groups = {}
         /\ AnyDest \notin Nics /\ AnyDest \notin Groups /\ AnyDest \notin Subnets
         /\ Cpu \notin Nics /\ Cpu \notin Nodes /\ None \notin Crossing
         /\ QueueSize \in Nat \ {0} /\ Ttl \in Nat \ {0}
         /\ IsFiniteSet(Nics) /\ IsFiniteSet(Apps)
         /\ Central \in BOOLEAN /\ Unlimited \in BOOLEAN
         /\ \A s \in Sends : s.src \in Nics /\ s.path \in Seq(Nics) /\ s.dst \in Dest
         /\ \A s \in Sends : s.path # <<>> => s.dst \in Nics
         /\ Routes \subseteq [Nodes \X (Nics \cup Subnets) -> (Nics \X Nics) \cup {None}]
<1> DEFINE kinds == <<Nodes, Nics, Subnets, Groups, {AnyDest}, {Cpu}>>
<1>1. \A i, j \in 1 .. 6 : i # j => kinds[i] \cap kinds[j] = {} BY DEF Path!PathAssumption
<1>2. /\ kinds[1] \cap kinds[2] = {} /\ kinds[2] \cap kinds[3] = {} /\ kinds[2] \cap kinds[4] = {}
      /\ kinds[2] \cap kinds[5] = {} /\ kinds[4] \cap kinds[5] = {} /\ kinds[3] \cap kinds[5] = {}
      /\ kinds[3] \cap kinds[4] = {}
      /\ kinds[2] \cap kinds[6] = {} /\ kinds[1] \cap kinds[6] = {}
  BY <1>1
<1>3. \A s \in Sends : s.path # <<>> => s.dst \in Nics
  <2> SUFFICES ASSUME NEW s \in Sends, s.path # <<>> PROVE s.dst \in Nics OBVIOUS
  <2>1. s.path \in Seq(Nics) /\ Path!Last(s.path) = s.dst BY DEF Path!PathAssumption
  <2>2. Len(s.path) \in 1 .. Len(s.path) BY <2>1, EmptySeq, LenProperties
  <2> QED BY <2>1, <2>2, ElementOfSeq DEF Path!Last
<1>4. IsFiniteSet(Nics) /\ IsFiniteSet(Apps) BY SameCount DEF Path!PathAssumption
<1> QED BY <1>2, <1>3, <1>4 DEF Path!PathAssumption, Crossing, Port, Hop, Dest

\* A queue of a node, and the node of a queue.
LEMMA QueueOfNode ==
  ASSUME Path!PathAssumption, NEW n \in Nodes, NEW i \in Port, i = Cpu \/ Central \/ Owner[i] = n
  PROVE  LET q == Path!QueueFor(n, i)
         IN  q \in QueueIds /\ Path!NodeOf(q) = n /\ Path!QueueFor(Path!NodeOf(q), i) = q
BY PathFacts DEF Path!QueueFor, Path!NodeOf, QueueIds, Port

-----------------------------------------------------------------------------
(* The backplane. *)

\* A queue that has packets and no event gets the event of its first packet.
LEMMA QueueWoken ==
  ASSUME Path!PathAssumption, NEW n \in Nodes, NEW i \in Port, i = Cpu \/ Central \/ Owner[i] = n,
         NEW s, SoundBut(s, {Path!QueueFor(n, i)})
  PROVE  LET t == Path!UseBackplaneIfPossible(s, n, i)
         IN  /\ SoundBut(t, {})
             /\ t.backplane = s.backplane /\ t.air = s.air /\ t.delivered = s.delivered
<1> DEFINE q == Path!QueueFor(n, i)
           e == [in |-> i, hop |-> Head(s.backplane[q]).hop]
           t == [s EXCEPT !.busy[q] = TRUE, !.event[q] = e]
<1>1. q \in QueueIds /\ Path!NodeOf(q) = n /\ Path!QueueFor(n, i) = q BY QueueOfNode
<1>s. s \in FlowSet /\ \A p \in QueueIds : Crossed(s, p) BY DEF SoundBut
<1>2. CASE s.busy[q] \/ s.backplane[q] = <<>>
  <2>1. Path!UseBackplaneIfPossible(s, n, i) = s BY <1>2 DEF Path!UseBackplaneIfPossible
  <2>2. \A p \in QueueIds : s.backplane[p] # <<>> => s.busy[p] BY <1>2 DEF SoundBut
  <2> QED BY <2>1, <2>2 DEF SoundBut
<1>3. CASE ~ (s.busy[q] \/ s.backplane[q] = <<>>)
  <2>1. Path!UseBackplaneIfPossible(s, n, i) = t BY <1>3 DEF Path!UseBackplaneIfPossible
  <2>2. s.backplane[q] \in Seq(Waiting) /\ s.backplane[q] # <<>> BY <1>1, <1>3, <1>s DEF FlowSet
  <2>3. Head(s.backplane[q]) \in Waiting BY <2>2
  <2>4. e \in Crossing BY <2>3 DEF Waiting, Crossing
  <2>5. e # None BY <2>4, PathFacts
  <2> HIDE DEF e, q
  <2>6. /\ t.backplane = s.backplane /\ t.air = s.air /\ t.delivered = s.delivered
        /\ t.busy = [s.busy EXCEPT ![q] = TRUE] /\ t.event = [s.event EXCEPT ![q] = e]
        /\ t \in FlowSet
    BY <1>1, <1>s, <2>4 DEF FlowSet
  <2> HIDE DEF t
  <2>7. \A p \in QueueIds : Crossed(t, p)
    <3> SUFFICES ASSUME NEW p \in QueueIds PROVE Crossed(t, p) OBVIOUS
    <3>1. CASE p = q
      <4>1. t.event[q] = e /\ t.busy[q] = TRUE BY <1>1, <1>s, <2>6 DEF FlowSet
      <4>2. e.in = i /\ e.hop = Head(s.backplane[q]).hop BY DEF e
      <4> QED BY <1>1, <2>2, <2>5, <2>6, <3>1, <4>1, <4>2 DEF Crossed
    <3>2. CASE p # q
      <4>1. t.event[p] = s.event[p] /\ t.busy[p] = s.busy[p] BY <1>s, <2>6, <3>2 DEF FlowSet
      <4> QED BY <1>s, <2>6, <4>1 DEF Crossed
    <3> QED BY <3>1, <3>2
  <2>8. \A p \in QueueIds : t.backplane[p] # <<>> => t.busy[p]
    BY <1>1, <1>s, <2>6 DEF FlowSet, SoundBut, q
  <2>9. Addressed(t) /\ HandedRight(t) BY <2>6 DEF SoundBut, Addressed, HandedRight
  <2>10. \A p \in QueueIds : Len(t.backplane[p]) <= QueueSize BY <2>6 DEF SoundBut
  <2> QED BY <2>1, <2>6, <2>7, <2>8, <2>9, <2>10 DEF SoundBut
<1> QED BY <1>2, <1>3

\* What has the same packets has them in the same places.
LEMMA SamePlaces ==
  ASSUME NEW s, NEW t, NEW id,
         t.backplane = s.backplane, t.air = s.air, t.delivered = s.delivered
  PROVE  /\ Enqueued(t, id) = Enqueued(s, id) /\ Flying(t, id) = Flying(s, id)
         /\ Handed(t, id) = Handed(s, id)
         /\ Nowhere(t, id) = Nowhere(s, id) /\ Once(t, id) = Once(s, id)
BY DEF Enqueued, Flying, Handed, Nowhere, Once

\* A packet is given to the layer above.
LEMMA PacketDelivered ==
  ASSUME Path!PathAssumption, NEW n \in Nodes, NEW pkt \in Packet, NEW hop \in Hop,
         OneWay(n, pkt, Cpu, hop), NEW s, NEW qs, SoundBut(s, qs)
  PROVE  LET t == Path!DeliverPacket(s, n, pkt, hop)
         IN  /\ SoundBut(t, qs) /\ Placed(s, t, pkt.id)
             /\ t.backplane = s.backplane /\ t.busy = s.busy /\ t.event = s.event
<1> DEFINE d == [id |-> pkt.id, at |-> n, hop |-> hop]
           t == [s EXCEPT !.delivered = @ \cup {d}]
<1>1. Path!DeliverPacket(s, n, pkt, hop) = t BY DEF Path!DeliverPacket
<1>2. d \in Handing /\ d.id = pkt.id /\ d.at = n BY DEF Handing, Packet
<1>3. s \in FlowSet BY DEF SoundBut
<1> HIDE DEF d
<1>4. /\ t.backplane = s.backplane /\ t.busy = s.busy /\ t.event = s.event /\ t.air = s.air
      /\ t.delivered = s.delivered \cup {d} /\ t \in FlowSet
  BY <1>2, <1>3 DEF FlowSet
<1> HIDE DEF t
<1>5. HandedRight(t)
  <2>1. pkt.dst \in Nics => n = Owner[pkt.dst] BY DEF OneWay
  <2>2. pkt.dst = pkt.id.dst BY DEF Packet
  <2>3. HandedRight(s) BY DEF SoundBut
  <2> QED BY <1>2, <1>4, <2>1, <2>2, <2>3 DEF HandedRight
<1>6. SoundBut(t, qs) BY <1>4, <1>5 DEF SoundBut, Addressed, Crossed
<1>7. \A i \in Sends : Enqueued(t, i) = Enqueued(s, i) /\ Flying(t, i) = Flying(s, i)
  BY <1>4 DEF Enqueued, Flying
<1>8. \A i \in Sends \ {pkt.id} : Handed(t, i) = Handed(s, i)
  BY <1>2, <1>4 DEF Handed
<1>9. \A i \in Sends \ {pkt.id} : Kept(s, t, i)
  BY <1>4, <1>7, <1>8 DEF Kept, Nowhere, Once
<1>10. pkt.id \in Sends BY DEF Packet
<1>11. Nowhere(s, pkt.id) => Once(t, pkt.id)
  <2> SUFFICES ASSUME Nowhere(s, pkt.id) PROVE Once(t, pkt.id) OBVIOUS
  <2>1. Enqueued(t, pkt.id) = {} /\ Flying(t, pkt.id) = {} BY <1>7, <1>10 DEF Nowhere
  <2>2. \A x \in Handed(t, pkt.id) : x = d BY <1>4 DEF Handed, Nowhere
  <2> QED BY <2>1, <2>2 DEF Once
<1> QED BY <1>1, <1>4, <1>6, <1>9, <1>11 DEF Placed

\* A packet is put on the air, to one neighbour or to all.
LEMMA PacketOnAir ==
  ASSUME Path!PathAssumption, NEW n \in Nodes, NEW pkt \in Packet, NEW o \in Nics,
         NEW hop \in Hop, OneWay(n, pkt, o, hop), NEW s, NEW qs, SoundBut(s, qs)
  PROVE  LET t == Path!QueueUp(s, pkt, o, hop)
         IN  /\ SoundBut(t, qs) /\ Placed(s, t, pkt.id)
             /\ t.backplane = s.backplane /\ t.busy = s.busy /\ t.event = s.event
<1> DEFINE to == IF hop = AnyDest THEN Path!Peers(o) ELSE Path!Peers(o) \cap {hop}
           fs == {[pkt |-> pkt, from |-> o, to |-> j] : j \in to}
           air2 == Path!(+)(s.air, Path!SetToBag(fs))
           t == [s EXCEPT !.air = air2]
<1>1. Path!QueueUp(s, pkt, o, hop) = t BY DEF Path!QueueUp
<1>2. to \subseteq Path!Peers(o) /\ Path!Peers(o) \subseteq Nics BY DEF Path!Peers
<1>3. fs \subseteq Frame /\ \A f \in fs : f.pkt = pkt BY <1>2 DEF Frame
<1>4. s \in FlowSet BY DEF SoundBut
<1>5. pkt.dst \in Nics => \A f, g \in fs : f = g
  <2>1. pkt.dst \in Nics => hop \in Nics /\ hop # AnyDest BY PathFacts DEF OneWay
  <2> QED BY <2>1
<1> HIDE DEF fs
<1>6. air2 = [f \in DOMAIN s.air \cup fs |->
          (IF f \in DOMAIN s.air THEN s.air[f] ELSE 0) + (IF f \in fs THEN 1 ELSE 0)]
  BY DEF Path!(+), Path!SetToBag
<1>7. PICK ds \in SUBSET Frame : s.air \in [ds -> Nat \ {0}] BY <1>4 DEF FlowSet, AirOf
<1>8. DOMAIN s.air = ds /\ \A f \in ds : s.air[f] \in Nat \ {0} BY <1>7
<1> HIDE DEF air2
<1>9. air2 \in [ds \cup fs -> Nat \ {0}] BY <1>6, <1>8
<1>10. air2 \in AirOf BY <1>3, <1>9 DEF AirOf
<1>11. /\ t.backplane = s.backplane /\ t.busy = s.busy /\ t.event = s.event /\ t.air = air2
       /\ t.delivered = s.delivered /\ t \in FlowSet
  BY <1>4, <1>10 DEF FlowSet
<1> HIDE DEF t
<1>12. SoundBut(t, qs) BY <1>11 DEF SoundBut, Addressed, Crossed, HandedRight
<1>13. \A i \in Sends : Enqueued(t, i) = Enqueued(s, i) /\ Handed(t, i) = Handed(s, i)
  BY <1>11 DEF Enqueued, Handed
<1>14. \A i \in Sends \ {pkt.id} : Kept(s, t, i)
  <2> SUFFICES ASSUME NEW i \in Sends \ {pkt.id} PROVE Kept(s, t, i) OBVIOUS
  <2>1. Flying(t, i) = Flying(s, i) BY <1>3, <1>8, <1>9, <1>11 DEF Flying
  <2>2. \A f \in Flying(s, i) : t.air[f] = s.air[f]
    BY <1>3, <1>6, <1>8, <1>11 DEF Flying
  <2> QED BY <1>13, <2>1, <2>2 DEF Kept, Nowhere, Once
<1>15. pkt.id \in Sends BY DEF Packet
<1>16. ASSUME pkt.dst \in Nics, Nowhere(s, pkt.id) PROVE Once(t, pkt.id)
  <2>1. Enqueued(t, pkt.id) = {} /\ Handed(t, pkt.id) = {} BY <1>13, <1>15, <1>16 DEF Nowhere
  <2>2. \A f \in Flying(t, pkt.id) : f \in fs /\ f \notin ds
    BY <1>8, <1>9, <1>11, <1>16 DEF Flying, Nowhere
  <2>3. \A f \in Flying(t, pkt.id) : t.air[f] = 1
    BY <1>6, <1>8, <1>11, <2>2
  <2> QED BY <1>5, <1>16, <2>1, <2>2, <2>3 DEF Once
<1>17. pkt.id.dst = pkt.dst BY DEF Packet
<1> QED BY <1>1, <1>11, <1>12, <1>14, <1>16, <1>17 DEF Placed

\* A packet is put at the end of a queue that has room.
LEMMA PacketQueued ==
  ASSUME Path!PathAssumption, NEW q \in QueueIds, NEW e \in Waiting,
         OneWay(Path!NodeOf(q), e.pkt, e.out, e.hop), NEW s, SoundBut(s, {}),
         Len(s.backplane[q]) # QueueSize
  PROVE  LET t == [s EXCEPT !.backplane[q] = Append(@, e)]
         IN  SoundBut(t, {q}) /\ Placed(s, t, e.pkt.id)
<1> DEFINE l == Len(s.backplane[q])
           t == [s EXCEPT !.backplane[q] = Append(@, e)]
<1>1. s \in FlowSet /\ QueueSize \in Nat BY PathFacts DEF SoundBut
<1>2. /\ s.backplane[q] \in Seq(Waiting) /\ l \in Nat
      /\ Append(s.backplane[q], e) \in Seq(Waiting)
      /\ Len(Append(s.backplane[q], e)) = l + 1
      /\ \A k \in 1 .. l : Append(s.backplane[q], e)[k] = s.backplane[q][k]
      /\ Append(s.backplane[q], e)[l + 1] = e
  BY <1>1 DEF FlowSet
<1>3. l < QueueSize BY <1>1, <1>2 DEF SoundBut
<1>4. /\ t.busy = s.busy /\ t.event = s.event /\ t.air = s.air /\ t.delivered = s.delivered
      /\ t.backplane = [s.backplane EXCEPT ![q] = Append(s.backplane[q], e)] /\ t \in FlowSet
  BY <1>1, <1>2 DEF FlowSet
<1>5. /\ t.backplane[q] = Append(s.backplane[q], e)
      /\ \A p \in QueueIds \ {q} : t.backplane[p] = s.backplane[p]
  BY <1>1, <1>4 DEF FlowSet
<1> HIDE DEF t
<1>6. Addressed(t)
  <2> SUFFICES ASSUME NEW p \in QueueIds, NEW k \in 1 .. Len(t.backplane[p])
               PROVE  OneWay(Path!NodeOf(p), t.backplane[p][k].pkt, t.backplane[p][k].out,
                             t.backplane[p][k].hop)
    BY DEF Addressed
  <2>0. Addressed(s) BY DEF SoundBut
  <2>1. CASE p # q BY <1>5, <2>0, <2>1 DEF Addressed
  <2>2. CASE p = q
    <3>1. k = l + 1 \/ k \in 1 .. l BY <1>2, <1>5, <2>2
    <3>2. CASE k = l + 1 BY <1>2, <1>5, <2>2, <3>2
    <3>3. CASE k \in 1 .. l
      <4>1. t.backplane[p][k] = s.backplane[q][k] BY <1>2, <1>5, <2>2, <3>3
      <4> QED BY <2>0, <2>2, <3>3, <4>1 DEF Addressed
    <3> QED BY <3>1, <3>2, <3>3
  <2> QED BY <2>1, <2>2
<1>7. \A p \in QueueIds : Crossed(t, p) /\ Len(t.backplane[p]) <= QueueSize
  <2> SUFFICES ASSUME NEW p \in QueueIds
               PROVE  Crossed(t, p) /\ Len(t.backplane[p]) <= QueueSize
    OBVIOUS
  <2>1. CASE p # q BY <1>4, <1>5, <2>1 DEF SoundBut, Crossed
  <2>2. CASE p = q
    <3>1. Crossed(s, q) BY DEF SoundBut
    <3>2. s.backplane[q] # <<>> =>
            Append(s.backplane[q], e) # <<>> /\ Head(Append(s.backplane[q], e)) = Head(s.backplane[q])
      BY <1>2
    <3> QED BY <1>1, <1>2, <1>3, <1>4, <1>5, <2>2, <3>1, <3>2 DEF Crossed
  <2> QED BY <2>1, <2>2
<1>8. \A p \in QueueIds \ {q} : t.backplane[p] # <<>> => t.busy[p] BY <1>4, <1>5 DEF SoundBut
<1>9. HandedRight(t) BY <1>4 DEF SoundBut, HandedRight
<1>10. SoundBut(t, {q}) BY <1>4, <1>6, <1>7, <1>8, <1>9 DEF SoundBut
<1>11. \A i \in Sends : /\ Flying(t, i) = Flying(s, i) /\ Handed(t, i) = Handed(s, i)
                        /\ Enqueued(t, i) = Enqueued(s, i) \cup (IF i = e.pkt.id THEN {<<q, l + 1>>} ELSE {})
  <2> SUFFICES ASSUME NEW i \in Sends
               PROVE  Enqueued(t, i) = Enqueued(s, i) \cup (IF i = e.pkt.id THEN {<<q, l + 1>>} ELSE {})
    BY <1>4 DEF Flying, Handed
  <2>1. ASSUME NEW p \in QueueIds, NEW k \in 1 .. QueueSize
        PROVE  <<p, k>> \in Enqueued(t, i) <=>
                 <<p, k>> \in Enqueued(s, i) \cup (IF i = e.pkt.id THEN {<<q, l + 1>>} ELSE {})
    <3>1. CASE p # q BY <1>5, <3>1 DEF Enqueued
    <3>2. CASE p = q /\ k = l + 1 BY <1>2, <1>5, <3>2 DEF Enqueued
    <3>3. CASE p = q /\ k # l + 1
      <4>1. k <= Len(t.backplane[p]) <=> k <= Len(s.backplane[p]) BY <1>2, <1>5, <3>3
      <4>2. k <= Len(s.backplane[p]) => t.backplane[p][k] = s.backplane[p][k]
        BY <1>2, <1>5, <3>3
      <4> QED BY <3>3, <4>1, <4>2 DEF Enqueued
    <3> QED BY <3>1, <3>2, <3>3
  <2>2. <<q, l + 1>> \in QueueIds \X (1 .. QueueSize) BY <1>1, <1>2, <1>3
  <2>3. \A x \in Enqueued(t, i) \cup Enqueued(s, i) : x \in QueueIds \X (1 .. QueueSize) BY DEF Enqueued
  <2> QED BY <2>1, <2>2, <2>3
<1>12. e.pkt.id \in Sends BY DEF Waiting, Packet
<1>13. \A i \in Sends \ {e.pkt.id} : Kept(s, t, i) BY <1>4, <1>11 DEF Kept, Nowhere, Once
<1>14. Nowhere(s, e.pkt.id) => Once(t, e.pkt.id) BY <1>11, <1>12 DEF Nowhere, Once
<1>15. Placed(s, t, e.pkt.id) BY <1>13, <1>14 DEF Placed
<1> QED BY <1>10, <1>15 DEF t

\* What goes through the backplane of a node.
LEMMA PacketSent ==
  ASSUME Path!PathAssumption, NEW n \in Nodes, NEW pkt \in Packet, NEW i \in Port,
         i = Cpu \/ Owner[i] = n, NEW o \in Port, NEW hop \in Hop, OneWay(n, pkt, o, hop),
         NEW s, SoundBut(s, {})
  PROVE  LET t == Path!SendOnBackplane(s, n, pkt, i, o, hop)
         IN  SoundBut(t, {}) /\ Placed(s, t, pkt.id)
<1> DEFINE q == Path!QueueFor(n, i)
           e == [pkt |-> pkt, in |-> i, out |-> o, hop |-> hop]
           u == [s EXCEPT !.backplane[q] = Append(@, e)]
<1>0. Placed(s, s, pkt.id) BY DEF Placed, Kept, Nowhere, Once
<1>1. CASE Unlimited /\ o = Cpu
  BY <1>1, PacketDelivered DEF Path!SendOnBackplane
<1>2. CASE Unlimited /\ o # Cpu
  <2>1. o \in Nics BY <1>2 DEF Port
  <2> QED BY <1>2, <2>1, PacketOnAir DEF Path!SendOnBackplane
<1>3. CASE ~ Unlimited /\ Len(s.backplane[q]) = QueueSize
  <2>1. Path!SendOnBackplane(s, n, pkt, i, o, hop) = s BY <1>3 DEF Path!SendOnBackplane
  <2> QED BY <1>0, <2>1
<1>4. CASE ~ Unlimited /\ Len(s.backplane[q]) # QueueSize
  <2>1. Path!SendOnBackplane(s, n, pkt, i, o, hop) = Path!UseBackplaneIfPossible(u, n, i)
    BY <1>4 DEF Path!SendOnBackplane
  <2>2. q \in QueueIds /\ Path!NodeOf(q) = n BY QueueOfNode
  <2>3. e \in Waiting /\ e.pkt = pkt /\ e.out = o /\ e.hop = hop BY DEF Waiting
  <2> HIDE DEF e, q
  <2>4. SoundBut(u, {q}) /\ Placed(s, u, pkt.id) BY <1>4, <2>2, <2>3, PacketQueued
  <2> HIDE DEF u
  <2> DEFINE t == Path!UseBackplaneIfPossible(u, n, i)
  <2>5. SoundBut(t, {}) /\ t.backplane = u.backplane /\ t.air = u.air /\ t.delivered = u.delivered
    BY <2>4, QueueWoken DEF q
  <2>6. \A x \in Sends : Nowhere(t, x) = Nowhere(u, x) /\ Once(t, x) = Once(u, x)
    BY <2>5, SamePlaces
  <2>7. pkt.id \in Sends BY DEF Packet
  <2>8. Placed(s, t, pkt.id) BY <2>4, <2>6, <2>7 DEF Placed, Kept
  <2> QED BY <2>1, <2>5, <2>8
<1>5. Unlimited \in BOOLEAN BY PathFacts
<1> QED BY <1>1, <1>2, <1>3, <1>4, <1>5

-----------------------------------------------------------------------------
(* Least elements. *)

\* A finite set has a least subset of a kind, if it has one at all.
LEMMA LeastSubset ==
  ASSUME NEW S, IsFiniteSet(S), NEW T, T \subseteq SUBSET S, T # {}
  PROVE  \E s \in T : \A t \in T : t \subseteq s => t = s
<1>1. T \subseteq FiniteSubsetsOf(S) BY FS_Subset DEF FiniteSubsetsOf
<1>2. IsWellFoundedOn(StrictSubsetOrdering(S), FiniteSubsetsOf(S))
  BY FS_StrictSubsetOrderingWellFounded
<1>3. PICK s \in T : \A t \in T : ~ (<<t, s>> \in StrictSubsetOrdering(S))
  BY <1>1, <1>2, WFMin
<1>4. ASSUME NEW t \in T, t \subseteq s, t # s PROVE FALSE
  <2>1. <<t, s>> \in (SUBSET S) \X (SUBSET S) OBVIOUS
  <2> QED BY <1>3, <1>4, <2>1 DEF StrictSubsetOrdering
<1> QED BY <1>3, <1>4

-----------------------------------------------------------------------------
(* Routing. *)

\* What a routing step makes of a sound flow.
Routed(s, t, id) == SoundBut(t, {}) /\ Placed(s, t, id)

\* Doing nothing is one, and so are two steps of a packet that is for many.
LEMMA RoutedTwice ==
  ASSUME NEW s, NEW id, id.dst \notin Nics
  PROVE  /\ SoundBut(s, {}) => Routed(s, s, id)
         /\ \A t, u : Routed(s, t, id) /\ Routed(t, u, id) => Routed(s, u, id)
BY DEF Routed, Placed, Kept

\* A packet that is not placed anywhere is routed as well: nothing happened to it.
LEMMA RoutedNot ==
  ASSUME NEW s, NEW id, SoundBut(s, {})
  PROVE  Routed(s, s, id)
BY DEF Routed, Placed, Kept, Nowhere, Once

\* The equation of the flow after a packet has been sent to the interfaces of a set,
\* one after the other, over a collection of sets.
PickedPort(os) == CHOOSE o \in os : TRUE
IsSent(g, D, s, n, pkt, i) ==
  g = [os \in D |-> IF os = {} THEN s
         ELSE Path!SendOnBackplane(g[os \ {PickedPort(os)}], n, pkt, i, PickedPort(os), AnyDest)]

\* The equation has a solution over the subsets of a finite set: one over the sets of up
\* to k interfaces gives one over those of up to k + 1.
LEMMA SentExists ==
  ASSUME NEW s, NEW n, NEW pkt, NEW i, NEW outs, IsFiniteSet(outs)
  PROVE  \E g : IsSent(g, SUBSET outs, s, n, pkt, i)
<1> DEFINE Sub(k) == {t \in SUBSET outs : Cardinality(t) <= k}
           Solved(k) == \E g : IsSent(g, Sub(k), s, n, pkt, i)
           T == {k \in Nat : ~ Solved(k)}
<1>1. \A t \in SUBSET outs : IsFiniteSet(t) /\ Cardinality(t) \in Nat
  BY FS_Subset, FS_CardinalityType
<1>2. \A t \in SUBSET outs : t # {} =>
        /\ PickedPort(t) \in t /\ t \ {PickedPort(t)} \in SUBSET outs
        /\ Cardinality(t \ {PickedPort(t)}) = Cardinality(t) - 1
  BY <1>1, FS_RemoveElement DEF PickedPort
<1>3. Solved(0)
  <2>1. \A t \in Sub(0) : t = {} BY <1>1, FS_EmptySet
  <2>2. [os \in Sub(0) |-> s]
          = [os \in Sub(0) |-> IF os = {} THEN s
               ELSE Path!SendOnBackplane([o \in Sub(0) |-> s][os \ {PickedPort(os)}],
                                         n, pkt, i, PickedPort(os), AnyDest)]
    BY <2>1
  <2> QED BY <2>2 DEF IsSent
<1>4. ASSUME NEW k \in Nat, Solved(k) PROVE Solved(k + 1)
  <2>1. PICK g : IsSent(g, Sub(k), s, n, pkt, i) BY <1>4
  <2> DEFINE Step(f, os) ==
               Path!SendOnBackplane(f[os \ {PickedPort(os)}], n, pkt, i, PickedPort(os), AnyDest)
             h == [os \in Sub(k + 1) |-> IF os = {} THEN s ELSE Step(g, os)]
  <2>2. \A t \in Sub(k) : g[t] = IF t = {} THEN s ELSE Step(g, t) BY <2>1 DEF IsSent
  <2>3. \A t \in Sub(k + 1) : t # {} => t \ {PickedPort(t)} \in Sub(k) BY <1>1, <1>2
  <2>4. \A t \in Sub(k) : t \in Sub(k + 1) BY <1>1
  <2>5. \A t \in Sub(k) : h[t] = g[t] BY <2>2, <2>4
  <2>6. \A t \in Sub(k + 1) : h[t] = IF t = {} THEN s ELSE Step(h, t)
    <3> SUFFICES ASSUME NEW t \in Sub(k + 1) PROVE h[t] = IF t = {} THEN s ELSE Step(h, t)
      OBVIOUS
    <3>1. h[t] = IF t = {} THEN s ELSE Step(g, t) OBVIOUS
    <3>2. t # {} => h[t \ {PickedPort(t)}] = g[t \ {PickedPort(t)}] BY <2>3, <2>5
    <3> HIDE DEF h
    <3> QED BY <3>1, <3>2
  <2>7. h = [t \in Sub(k + 1) |-> h[t]] OBVIOUS
  <2> HIDE DEF h, Sub
  <2>8. h = [t \in Sub(k + 1) |-> IF t = {} THEN s ELSE Step(h, t)] BY <2>6, <2>7
  <2> QED BY <2>8 DEF IsSent
<1>5. Cardinality(outs) \in Nat /\ Sub(Cardinality(outs)) = SUBSET outs
  BY FS_Subset, FS_CardinalityType
<1>6. Solved(Cardinality(outs)) => \E g : IsSent(g, SUBSET outs, s, n, pkt, i) BY <1>5
<1> HIDE DEF Solved
<1>7. T = {}
  <2> SUFFICES ASSUME T # {} PROVE FALSE OBVIOUS
  <2>1. T \subseteq Nat OBVIOUS
  <2> HIDE DEF T
  <2>2. PICK m \in T : \A k \in T : m <= k BY <2>1, LeastOf
  <2>3. m \in Nat /\ ~ Solved(m) /\ m # 0 BY <1>3, <2>2 DEF T
  <2>4. m - 1 \in Nat /\ ~ (m <= m - 1) BY <2>3
  <2>5. Solved(m - 1) BY <2>2, <2>4 DEF T
  <2> QED BY <1>4, <2>3, <2>4, <2>5
<1> QED BY <1>5, <1>6, <1>7

\* A packet for many that is sent to interfaces of the node's rows.
LEMMA PacketMulticast ==
  ASSUME Path!PathAssumption, NEW n \in Nodes, NEW pkt \in Packet, pkt.dst \notin Nics,
         NEW i \in Port, i = Cpu \/ Owner[i] = n, NEW s, SoundBut(s, {}), NEW outs,
         outs \subseteq Nics, NEW g, IsSent(g, SUBSET outs, s, n, pkt, i)
  PROVE  \A os \in SUBSET outs : Routed(s, g[os], pkt.id)
<1> DEFINE T == {os \in SUBSET outs : ~ Routed(s, g[os], pkt.id)}
<1> SUFFICES ASSUME T # {} PROVE FALSE OBVIOUS
<1>0. IsFiniteSet(Nics) BY PathFacts
<1>00. IsFiniteSet(outs) BY <1>0, FS_Subset
<1>1. T \subseteq SUBSET outs OBVIOUS
<1> HIDE DEF T
<1>2. PICK os \in T : \A t \in T : t \subseteq os => t = os BY <1>00, <1>1, LeastSubset
<1>3. os \in SUBSET outs /\ ~ Routed(s, g[os], pkt.id) BY <1>2 DEF T
<1>4. CASE os = {}
  <2>1. g[os] = s BY <1>3, <1>4 DEF IsSent
  <2> QED BY <1>3, <2>1, RoutedNot
<1>5. CASE os # {}
  <2> DEFINE o == PickedPort(os)
             t == g[os \ {o}]
  <2>1. o \in os BY <1>5 DEF PickedPort
  <2>2. os \ {o} \in SUBSET outs /\ os \ {o} # os /\ os \ {o} \subseteq os BY <1>3, <2>1
  <2>3. Routed(s, t, pkt.id) BY <1>2, <2>2 DEF T
  <2>4. g[os] = Path!SendOnBackplane(t, n, pkt, i, o, AnyDest) BY <1>3, <1>5 DEF IsSent
  <2>5. o \in Port /\ AnyDest \in Hop /\ OneWay(n, pkt, o, AnyDest)
    BY <1>3, <2>1 DEF Port, Hop, OneWay
  <2>6. SoundBut(t, {}) BY <2>3 DEF Routed
  <2> HIDE DEF o, t
  <2>7. Routed(t, g[os], pkt.id) BY <2>4, <2>5, <2>6, PacketSent DEF Routed
  <2>8. pkt.id.dst \notin Nics BY DEF Packet
  <2> QED BY <1>3, <2>3, <2>7, <2>8, RoutedTwice
<1> QED BY <1>4, <1>5

\* What the tables hold.
TablesOK ==
  /\ route \in Routes
  /\ multicast \in SUBSET [node : Nodes, src : Nics, dst : Dest, out : Nics]

\* The rows of the table.
LEMMA TableRouted ==
  ASSUME Path!PathAssumption, TablesOK, NEW n \in Nodes, NEW pkt \in Packet,
         pkt.dst \notin Nics, NEW i \in Port, i = Cpu \/ Owner[i] = n, NEW s, SoundBut(s, {})
  PROVE  Routed(s, Path!RouteByMulticastTable(s, n, pkt, i), pkt.id)
<1> DEFINE outs == {r.out : r \in {m \in multicast :
                      m.node = n /\ m.src = pkt.src /\ m.dst = pkt.dst}}
           g == CHOOSE h : IsSent(h, SUBSET outs, s, n, pkt, i)
<1>1. Path!RouteByMulticastTable(s, n, pkt, i) = g[outs]
  BY Zenon DEF Path!RouteByMulticastTable, IsSent, PickedPort
<1>2. outs \subseteq Nics BY DEF TablesOK
<1> HIDE DEF outs
<1>3. IsFiniteSet(outs) BY <1>2, PathFacts, FS_Subset
<1>4. IsSent(g, SUBSET outs, s, n, pkt, i) BY <1>3, SentExists
<1> HIDE DEF g
<1>5. outs \in SUBSET outs OBVIOUS
<1> QED BY <1>1, <1>2, <1>4, <1>5, PacketMulticast

\* RoutePacketAndSendToMac; a packet to everybody has the interface it leaves by.
LEMMA PacketRouted ==
  ASSUME Path!PathAssumption, TablesOK, NEW n \in Nodes, NEW pkt \in Packet, NEW i \in Port,
         i = Cpu \/ Owner[i] = n, NEW o, pkt.dst = AnyDest => o \in Nics,
         NEW s, SoundBut(s, {})
  PROVE  Routed(s, Path!RoutePacketAndSendToMac(s, n, pkt, i, o), pkt.id)
<1> DEFINE r == Path!RoutePacketAndSendToMac(s, n, pkt, i, o)
           mine == {j \in Nics : Owner[j] = n /\ SubnetOf[j] = pkt.dst}
<1>0. pkt.dst \in Dest /\ (pkt.path # <<>> => pkt.dst \in Nics) BY DEF Packet
<1>1. \A j \in Nics : SubnetOf[j] \in Subnets BY PathFacts
<1>2. (\E j \in Path!NicsOf(n) : SubnetOf[j] = pkt.dst) => pkt.dst \in Subnets
  BY <1>1 DEF Path!NicsOf
<1>3. CASE pkt.dst = AnyDest
  <2>1. r = Path!SendOnBackplane(s, n, pkt, i, o, AnyDest)
    BY <1>0, <1>2, <1>3, PathFacts DEF Path!RoutePacketAndSendToMac
  <2>2. o \in Port /\ AnyDest \in Hop /\ OneWay(n, pkt, o, AnyDest)
    BY <1>3, PathFacts DEF Port, Hop, OneWay
  <2> QED BY <2>1, <2>2, PacketSent DEF Routed
<1>4. CASE pkt.dst \in Groups
  <2>1. r = Path!RouteByMulticastTable(s, n, pkt, i)
    BY <1>0, <1>2, <1>4, PathFacts DEF Path!RoutePacketAndSendToMac
  <2>2. pkt.dst \notin Nics BY <1>4, PathFacts
  <2> QED BY <2>1, <2>2, TableRouted
<1>5. CASE pkt.dst \in Subnets /\ \E j \in Path!NicsOf(n) : SubnetOf[j] = pkt.dst
  <2> DEFINE j == CHOOSE j \in Path!NicsOf(n) : SubnetOf[j] = pkt.dst
  <2>1. r = Path!SendOnBackplane(s, n, pkt, i, j, AnyDest)
    BY <1>0, <1>5, PathFacts DEF Path!RoutePacketAndSendToMac
  <2>2. j \in Nics BY <1>5 DEF Path!NicsOf
  <2> HIDE DEF j
  <2>3. j \in Port /\ AnyDest \in Hop /\ OneWay(n, pkt, j, AnyDest)
    BY <1>5, <2>2, PathFacts DEF Port, Hop, OneWay
  <2> QED BY <2>1, <2>3, PacketSent DEF Routed
<1>6. CASE pkt.dst \in Nics /\ pkt.path # <<>>
  <2>1. r = Path!SourceRoute(s, n, pkt)
    BY <1>2, <1>6, PathFacts DEF Path!RoutePacketAndSendToMac
  <2> DEFINE next == Head(pkt.path)
             j == CHOOSE j \in Path!NicsOf(n) : SubnetOf[j] = SubnetOf[next]
             p == [pkt EXCEPT !.path = Tail(@)]
  <2>2. CASE \E k \in Path!NicsOf(n) : SubnetOf[k] = SubnetOf[next]
    <3>1. r = Path!SendOnBackplane(s, n, p, Cpu, j, next) BY <2>1, <2>2 DEF Path!SourceRoute
    <3>2. j \in Nics BY <2>2 DEF Path!NicsOf
    <3>3. pkt.path \in Seq(Nics) BY DEF Packet
    <3>4. next \in Nics /\ Tail(pkt.path) \in Seq(Nics) BY <1>6, <3>3
    <3>5. p \in Packet /\ p.id = pkt.id /\ p.dst = pkt.dst BY <1>6, <3>4 DEF Packet
    <3> HIDE DEF j, next, p
    <3>6. j \in Port /\ Cpu \in Port /\ next \in Hop /\ OneWay(n, p, j, next)
      BY <3>2, <3>4, PathFacts DEF Port, Hop, OneWay
    <3> QED BY <3>1, <3>5, <3>6, PacketSent DEF Routed
  <2>3. CASE ~ \E k \in Path!NicsOf(n) : SubnetOf[k] = SubnetOf[next]
    <3>1. r = s BY <2>1, <2>3 DEF Path!SourceRoute
    <3> QED BY <3>1, RoutedNot
  <2> QED BY <2>2, <2>3
<1>7. CASE /\ pkt.dst \in Nics \cup Subnets /\ pkt.path = <<>>
           /\ ~ \E j \in Path!NicsOf(n) : SubnetOf[j] = pkt.dst
  <2> DEFINE hop == route[n, pkt.dst]
  <2>1. r = IF hop = None THEN s ELSE Path!SendOnBackplane(s, n, pkt, i, hop[1], hop[2])
    BY <1>7, PathFacts DEF Path!RoutePacketAndSendToMac
  <2>2. hop \in (Nics \X Nics) \cup {None}
    <3>1. route \in [Nodes \X (Nics \cup Subnets) -> (Nics \X Nics) \cup {None}]
      BY PathFacts DEF TablesOK
    <3>2. <<n, pkt.dst>> \in Nodes \X (Nics \cup Subnets) BY <1>7
    <3> QED BY <3>1, <3>2, Zenon
  <2> HIDE DEF hop
  <2>3. CASE hop = None BY <2>1, <2>3, RoutedNot
  <2>4. CASE hop # None
    <3>1. hop[1] \in Nics /\ hop[2] \in Nics BY <2>2, <2>4
    <3>2. hop[1] \in Port /\ hop[2] \in Hop /\ OneWay(n, pkt, hop[1], hop[2])
      BY <3>1, PathFacts DEF Port, Hop, OneWay
    <3> QED BY <2>1, <2>4, <3>2, PacketSent DEF Routed
  <2> QED BY <2>3, <2>4
<1> QED BY <1>0, <1>2, <1>3, <1>4, <1>5, <1>6, <1>7, PathFacts DEF Dest

\* ForwardPacket, of what is not for everybody.
LEMMA PacketForwarded ==
  ASSUME Path!PathAssumption, TablesOK, NEW n \in Nodes, NEW pkt \in Packet,
         pkt.dst # AnyDest, NEW i \in Port, i = Cpu \/ Owner[i] = n, NEW s, SoundBut(s, {})
  PROVE  Routed(s, Path!ForwardPacket(s, n, pkt, i), pkt.id)
<1> DEFINE p == [pkt EXCEPT !.ttl = @ - 1]
<1>1. CASE n \notin Routers \/ pkt.ttl <= 1 \/ (pkt.dst \in Groups /\ pkt.src = i)
  <2>1. Path!ForwardPacket(s, n, pkt, i) = s BY <1>1 DEF Path!ForwardPacket
  <2> QED BY <2>1, RoutedNot
<1>2. CASE ~ (n \notin Routers \/ pkt.ttl <= 1 \/ (pkt.dst \in Groups /\ pkt.src = i))
  <2>1. Path!ForwardPacket(s, n, pkt, i) = Path!RoutePacketAndSendToMac(s, n, p, i, None)
    BY <1>2 DEF Path!ForwardPacket
  <2>2. pkt.ttl \in 1 .. Ttl /\ Ttl \in Nat BY PathFacts DEF Packet
  <2>3. pkt.ttl - 1 \in 1 .. Ttl BY <1>2, <2>2
  <2>4. p \in Packet /\ p.id = pkt.id /\ p.dst = pkt.dst BY <2>3 DEF Packet
  <2> HIDE DEF p
  <2> QED BY <2>1, <2>4, PacketRouted
<1> QED BY <1>1, <1>2

\* NetworkIpReceivePacket: what is for the node goes up, and on if it is for a group.
LEMMA PacketReceived ==
  ASSUME Path!PathAssumption, TablesOK, NEW n \in Nodes, NEW pkt \in Packet,
         NEW prev \in Nics, NEW i \in Nics, Owner[i] = n, NEW s, SoundBut(s, {})
  PROVE  Routed(s, Path!ReceivePacket(s, n, pkt, prev, i), pkt.id)
<1> DEFINE t == Path!SendOnBackplane(s, n, pkt, i, Cpu, prev)
<1>0. i \in Port BY DEF Port
<1>1. CASE ~ Path!IsMyPacket(n, pkt.dst)
  <2>1. Path!ReceivePacket(s, n, pkt, prev, i) = Path!ForwardPacket(s, n, pkt, i)
    BY <1>1 DEF Path!ReceivePacket
  <2>2. pkt.dst # AnyDest BY <1>1 DEF Path!IsMyPacket
  <2> QED BY <1>0, <2>1, <2>2, PacketForwarded
<1>2. CASE Path!IsMyPacket(n, pkt.dst)
  <2>1. Path!ReceivePacket(s, n, pkt, prev, i)
          = IF pkt.dst \in Groups THEN Path!ForwardPacket(t, n, pkt, i) ELSE t
    BY <1>2 DEF Path!ReceivePacket
  <2>2. pkt.dst \in Nics => n = Owner[pkt.dst]
    <3> SUFFICES ASSUME pkt.dst \in Nics PROVE n = Owner[pkt.dst] OBVIOUS
    <3>1. pkt.dst # AnyDest /\ pkt.dst \notin Groups /\ pkt.dst \notin Subnets BY PathFacts
    <3>2. PICK j \in Path!NicsOf(n) : pkt.dst = j \/ pkt.dst = SubnetOf[j]
      BY <1>2, <3>1 DEF Path!IsMyPacket, Path!IsPartOfMulticastGroup
    <3>3. j \in Nics /\ Owner[j] = n /\ SubnetOf[j] \in Subnets BY PathFacts DEF Path!NicsOf
    <3> QED BY <3>1, <3>2, <3>3
  <2>3. Cpu \in Port /\ prev \in Hop /\ OneWay(n, pkt, Cpu, prev)
    BY <2>2 DEF Port, Hop, OneWay
  <2>4. Routed(s, t, pkt.id) BY <1>0, <2>3, PacketSent DEF Routed
  <2> HIDE DEF t
  <2>5. CASE pkt.dst \notin Groups BY <2>1, <2>4, <2>5
  <2>6. CASE pkt.dst \in Groups
    <3>1. pkt.dst # AnyDest /\ pkt.dst \notin Nics /\ pkt.id.dst = pkt.dst
      BY <2>6, PathFacts DEF Packet
    <3>2. SoundBut(t, {}) BY <2>4 DEF Routed
    <3>3. Routed(t, Path!ForwardPacket(t, n, pkt, i), pkt.id)
      BY <1>0, <3>1, <3>2, PacketForwarded
    <3> QED BY <2>1, <2>4, <2>6, <3>1, <3>3, RoutedTwice
  <2> QED BY <2>5, <2>6
<1> QED BY <1>1, <1>2

-----------------------------------------------------------------------------
(* The steps. *)

\* A copy of a packet is taken from the air.
LEMMA FrameTaken ==
  ASSUME Path!PathAssumption, NEW s, SoundBut(s, {}), NEW f \in DOMAIN s.air
  PROVE  LET t == [s EXCEPT !.air = Path!(-)(@, Path!SetToBag({f}))]
         IN  SoundBut(t, {}) /\ Taken(s, t, f.pkt.id) /\ f \in Frame
<1> DEFINE air2 == Path!(-)(s.air, Path!SetToBag({f}))
           t == [s EXCEPT !.air = air2]
           left == {g \in DOMAIN s.air : (IF g = f THEN s.air[g] - 1 ELSE s.air[g]) > 0}
<1>1. s \in FlowSet BY DEF SoundBut
<1>2. PICK ds \in SUBSET Frame : s.air \in [ds -> Nat \ {0}] BY <1>1 DEF FlowSet, AirOf
<1>3. DOMAIN s.air = ds /\ (\A g \in ds : s.air[g] \in Nat \ {0}) /\ f \in ds BY <1>2
<1>4. air2 = [g \in left |-> IF g = f THEN s.air[g] - 1 ELSE s.air[g]]
  BY DEF Path!(-), Path!SetToBag
<1> HIDE DEF air2
<1>5. left \subseteq ds /\ \A g \in left : air2[g] \in Nat \ {0} BY <1>3, <1>4
<1>6. DOMAIN air2 = left /\ (\A g \in left \ {f} : air2[g] = s.air[g]) BY <1>4
<1>6a. f \in left => s.air[f] # 1 BY <1>3
<1>7. air2 \in AirOf
  <2>1. air2 \in [left -> Nat \ {0}] BY <1>4, <1>5
  <2>2. left \in SUBSET Frame BY <1>2, <1>5
  <2> QED BY <2>1, <2>2 DEF AirOf
<1>8. /\ t.backplane = s.backplane /\ t.busy = s.busy /\ t.event = s.event /\ t.air = air2
      /\ t.delivered = s.delivered /\ t \in FlowSet
  BY <1>1, <1>7 DEF FlowSet
<1>9. t = [s EXCEPT !.air = Path!(-)(@, Path!SetToBag({f}))] BY DEF air2
<1> HIDE DEF t
<1>10. SoundBut(t, {}) BY <1>8 DEF SoundBut, Addressed, Crossed, HandedRight
<1>11. \A i \in Sends : Enqueued(t, i) = Enqueued(s, i) /\ Handed(t, i) = Handed(s, i)
  BY <1>8 DEF Enqueued, Handed
<1>12. \A i \in Sends : Flying(t, i) \subseteq Flying(s, i) BY <1>3, <1>5, <1>6, <1>8 DEF Flying
<1>13. \A i \in Sends \ {f.pkt.id} : Kept(s, t, i)
  <2> SUFFICES ASSUME NEW i \in Sends \ {f.pkt.id} PROVE Kept(s, t, i) OBVIOUS
  <2>1. \A g \in Flying(t, i) : g \in left \ {f} BY <1>6, <1>8 DEF Flying
  <2>2. \A g \in Flying(t, i) : t.air[g] = s.air[g] BY <1>6, <1>8, <2>1
  <2> QED BY <1>11, <1>12, <2>2 DEF Kept, Nowhere, Once
<1>14. f \in Frame /\ f \in Flying(s, f.pkt.id) /\ f.pkt.id \in Sends
  BY <1>3 DEF Flying, Frame, Packet
<1>15. ASSUME Once(s, f.pkt.id) PROVE Nowhere(t, f.pkt.id)
  <2>1. s.air[f] = 1 /\ f \notin left BY <1>6a, <1>14, <1>15 DEF Once
  <2>2. \A g \in Flying(s, f.pkt.id) : g = f BY <1>14, <1>15 DEF Once
  <2>3. Flying(t, f.pkt.id) = {} BY <1>6, <1>8, <1>12, <1>14, <2>1, <2>2 DEF Flying
  <2>4. Enqueued(s, f.pkt.id) = {} /\ Handed(s, f.pkt.id) = {} BY <1>14, <1>15 DEF Once
  <2> QED BY <1>11, <1>14, <2>3, <2>4 DEF Nowhere
<1>16. Taken(s, t, f.pkt.id) BY <1>13, <1>14, <1>15 DEF Taken, Nowhere
<1> QED BY <1>9, <1>10, <1>14, <1>16

\* The first packet of a queue is taken out when its event fires.
LEMMA PacketDequeued ==
  ASSUME Path!PathAssumption, NEW s, SoundBut(s, {}), NEW q \in QueueIds, s.event[q] # None
  PROVE  LET e == Head(s.backplane[q])
             t == [s EXCEPT !.backplane[q] = Tail(@), !.busy[q] = FALSE, !.event[q] = None]
         IN  /\ SoundBut(t, {q}) /\ Taken(s, t, e.pkt.id)
             /\ e \in Waiting /\ s.event[q].hop = e.hop
             /\ OneWay(Path!NodeOf(q), e.pkt, e.out, e.hop)
<1> DEFINE b == s.backplane[q]
           t == [s EXCEPT !.backplane[q] = Tail(@), !.busy[q] = FALSE, !.event[q] = None]
           e == Head(b)
<1>1. s \in FlowSet /\ QueueSize \in Nat BY PathFacts DEF SoundBut
<1>2. b \in Seq(Waiting) /\ b # <<>> /\ s.event[q].hop = e.hop
  BY <1>1 DEF FlowSet, SoundBut, Crossed
<1>3. /\ Len(b) \in Nat \ {0} /\ e = b[1] /\ e \in Waiting
      /\ Tail(b) \in Seq(Waiting) /\ Len(Tail(b)) = Len(b) - 1
      /\ \A k \in 1 .. Len(b) - 1 : Tail(b)[k] = b[k + 1]
  BY <1>2
<1>4. /\ t.air = s.air /\ t.delivered = s.delivered
      /\ t.busy = [s.busy EXCEPT ![q] = FALSE] /\ t.event = [s.event EXCEPT ![q] = None]
      /\ t.backplane = [s.backplane EXCEPT ![q] = Tail(b)] /\ t \in FlowSet
  BY <1>1, <1>3 DEF FlowSet
<1> HIDE DEF t, e
<1>5. /\ t.backplane[q] = Tail(b) /\ t.busy[q] = FALSE /\ t.event[q] = None
      /\ \A p \in QueueIds \ {q} : /\ t.backplane[p] = s.backplane[p]
                                   /\ t.busy[p] = s.busy[p] /\ t.event[p] = s.event[p]
  BY <1>1, <1>4 DEF FlowSet
<1>6. Len(b) <= QueueSize BY DEF SoundBut
<1> HIDE DEF b
<1>7. OneWay(Path!NodeOf(q), e.pkt, e.out, e.hop) BY <1>3 DEF SoundBut, Addressed, b
<1>8. Addressed(t)
  <2> SUFFICES ASSUME NEW p \in QueueIds, NEW k \in 1 .. Len(t.backplane[p])
               PROVE  OneWay(Path!NodeOf(p), t.backplane[p][k].pkt, t.backplane[p][k].out,
                             t.backplane[p][k].hop)
    BY DEF Addressed
  <2>0. Addressed(s) BY DEF SoundBut
  <2>1. CASE p # q BY <1>5, <2>0, <2>1 DEF Addressed
  <2>2. CASE p = q
    <3>1. k + 1 \in 1 .. Len(b) /\ t.backplane[p][k] = b[k + 1] BY <1>3, <1>5, <2>2
    <3> QED BY <2>0, <2>2, <3>1 DEF Addressed, b
  <2> QED BY <2>1, <2>2
<1>9. \A p \in QueueIds : Crossed(t, p) /\ Len(t.backplane[p]) <= QueueSize
  <2> SUFFICES ASSUME NEW p \in QueueIds
               PROVE  Crossed(t, p) /\ Len(t.backplane[p]) <= QueueSize
    OBVIOUS
  <2>1. CASE p # q BY <1>5, <2>1 DEF SoundBut, Crossed
  <2>2. CASE p = q BY <1>1, <1>3, <1>5, <1>6, <2>2 DEF Crossed
  <2> QED BY <2>1, <2>2
<1>10. \A p \in QueueIds \ {q} : t.backplane[p] # <<>> => t.busy[p] BY <1>5 DEF SoundBut
<1>11. HandedRight(t) BY <1>4 DEF SoundBut, HandedRight
<1>12. SoundBut(t, {q}) BY <1>4, <1>8, <1>9, <1>10, <1>11 DEF SoundBut
<1>13. \A i \in Sends : Flying(t, i) = Flying(s, i) /\ Handed(t, i) = Handed(s, i)
  BY <1>4 DEF Flying, Handed
<1>14. ASSUME NEW i \in Sends, NEW p \in QueueIds, NEW k \in 1 .. QueueSize
       PROVE  <<p, k>> \in Enqueued(t, i) <=>
                IF p = q THEN k + 1 \in 1 .. QueueSize /\ <<p, k + 1>> \in Enqueued(s, i)
                ELSE <<p, k>> \in Enqueued(s, i)
  <2>1. CASE p # q BY <1>5, <2>1 DEF Enqueued
  <2>2. CASE p = q
    <3>1. k <= Len(t.backplane[p]) <=> k + 1 <= Len(b) BY <1>3, <1>5, <2>2
    <3>2. k + 1 <= Len(b) => k + 1 \in 1 .. QueueSize BY <1>1, <1>3, <1>6
    <3>3. k + 1 <= Len(b) => t.backplane[p][k] = b[k + 1] BY <1>3, <1>5, <2>2
    <3> QED BY <2>2, <3>1, <3>2, <3>3 DEF Enqueued, b
  <2> QED BY <2>1, <2>2
<1>15. \A i \in Sends : \A x \in Enqueued(s, i) \cup Enqueued(t, i) :
         /\ x[1] \in QueueIds /\ x[2] \in 1 .. QueueSize /\ x = <<x[1], x[2]>>
  BY DEF Enqueued
<1>15a. ASSUME NEW i \in Sends, NEW x \in Enqueued(t, i)
        PROVE  IF x[1] = q THEN <<q, x[2] + 1>> \in Enqueued(s, i) ELSE x \in Enqueued(s, i)
  <2> DEFINE p == x[1]
             k == x[2]
  <2>1. p \in QueueIds /\ k \in 1 .. QueueSize /\ x = <<p, k>> BY <1>15
  <2> HIDE DEF p, k
  <2>2. IF p = q THEN <<p, k + 1>> \in Enqueued(s, i) ELSE <<p, k>> \in Enqueued(s, i)
    BY <1>14, <2>1
  <2> QED BY <2>1, <2>2 DEF p, k
<1>16. ASSUME NEW i \in Sends, Enqueued(s, i) = {} PROVE Enqueued(t, i) = {}
  BY <1>15a, <1>16
<1>17. ASSUME NEW i \in Sends, \A x, y \in Enqueued(s, i) : x = y
       PROVE  \A x, y \in Enqueued(t, i) : x = y
  <2> SUFFICES ASSUME NEW x \in Enqueued(t, i), NEW y \in Enqueued(t, i) PROVE x = y OBVIOUS
  <2> DEFINE Back(z) == IF z[1] = q THEN <<z[1], z[2] + 1>> ELSE z
  <2>1. Back(x) \in Enqueued(s, i) /\ Back(y) \in Enqueued(s, i) BY <1>15a
  <2>2. Back(x) = Back(y) BY <1>17, <2>1
  <2>3. x[1] = y[1] /\ x[2] = y[2] BY <1>15, <2>2
  <2> QED BY <1>15, <2>3
<1>18. \A i \in Sends \ {e.pkt.id} : Kept(s, t, i)
  BY <1>4, <1>13, <1>16, <1>17 DEF Kept, Nowhere, Once
<1>19. e.pkt.id \in Sends /\ <<q, 1>> \in Enqueued(s, e.pkt.id)
  BY <1>1, <1>3, <1>6 DEF Enqueued, Waiting, Packet, b
<1>20. ASSUME Once(s, e.pkt.id) PROVE Nowhere(t, e.pkt.id)
  <2>1. \A x \in Enqueued(s, e.pkt.id) : x = <<q, 1>> BY <1>19, <1>20 DEF Once
  <2>2. ASSUME NEW x \in Enqueued(t, e.pkt.id) PROVE FALSE
    <3>1. CASE x[1] = q
      <4>1. <<q, x[2] + 1>> \in Enqueued(s, e.pkt.id) BY <1>15a, <1>19, <3>1
      <4>2. x[2] + 1 = 1 /\ x[2] \in 1 .. QueueSize BY <1>15, <1>19, <2>1, <4>1
      <4> QED BY <4>2
    <3>2. CASE x[1] # q
      <4>1. x \in Enqueued(s, e.pkt.id) BY <1>15a, <1>19, <3>2
      <4> QED BY <2>1, <3>2, <4>1
    <3> QED BY <3>1, <3>2
  <2>3. Flying(s, e.pkt.id) = {} /\ Handed(s, e.pkt.id) = {} BY <1>19, <1>20 DEF Once
  <2> QED BY <1>13, <1>19, <2>2, <2>3 DEF Nowhere
<1>21. Taken(s, t, e.pkt.id) BY <1>18, <1>19, <1>20 DEF Taken, Nowhere
<1> QED BY <1>2, <1>3, <1>7, <1>12, <1>21 DEF t, e, b

\* What holds of the flow of packets.
FlowInv ==
  /\ TablesOK /\ unsent \subseteq Sends
  /\ SoundBut(Path!Flow, {})
  /\ \A id \in Sends : id.dst \in Nics => Once(Path!Flow, id)
  /\ \A id \in unsent : Nowhere(Path!Flow, id)

\* A step that doubles nothing, and brings back nothing that was not there.
Harmless(s, u) == \A i \in Sends : /\ i.dst \in Nics /\ Once(s, i) => Once(u, i)
                                   /\ Nowhere(s, i) => Nowhere(u, i)

\* A packet is taken from where it is and put somewhere.
LEMMA TakenAndPlaced ==
  ASSUME NEW s, NEW t, NEW u, NEW id \in Sends, Taken(s, t, id), Placed(t, u, id)
  PROVE  Harmless(s, u)
BY DEF Harmless, Taken, Placed, Kept

\* The state after a step is the flow the step computes.
LEMMA FlowAfter ==
  ASSUME NEW s \in FlowSet, Path!FlowBecomes(s)
  PROVE  Path!Flow' = s
<1>1. s = [backplane |-> s.backplane, busy |-> s.busy, event |-> s.event, air |-> s.air,
           delivered |-> s.delivered]
  BY DEF FlowSet
<1> QED BY <1>1 DEF Path!FlowBecomes, Path!Flow

\* A harmless step that leaves the tables and the messages alone keeps the invariant.
LEMMA HarmlessStep ==
  ASSUME FlowInv, UNCHANGED <<route, multicast, unsent>>, NEW s, SoundBut(s, {}),
         Harmless(Path!Flow, s), Path!FlowBecomes(s)
  PROVE  FlowInv'
<1>1. Path!Flow' = s BY FlowAfter DEF SoundBut
<1> QED BY <1>1 DEF FlowInv, Harmless, TablesOK

\* NetworkIpSendRawMessage
LEMMA FlowSends ==
  ASSUME Path!PathAssumption, FlowInv, NEW send \in Sends, Path!SendRawMessage(send)
  PROVE  FlowInv'
<1> DEFINE pkt == [id |-> send, src |-> send.src, dst |-> send.dst, path |-> send.path,
                   ttl |-> Ttl]
           s == Path!RoutePacketAndSendToMac(Path!Flow, Owner[send.src], pkt, Cpu, send.src)
<1>1. /\ send \in unsent /\ unsent' = unsent \ {send} /\ Path!FlowBecomes(s)
      /\ UNCHANGED <<route, multicast>>
  BY DEF Path!SendRawMessage, Path!tables
<1>2. pkt \in Packet /\ pkt.id = send BY PathFacts DEF Packet
<1>3. Owner[send.src] \in Nodes /\ Cpu \in Port /\ send.src \in Nics BY PathFacts DEF Port
<1>4. TablesOK /\ SoundBut(Path!Flow, {}) /\ Nowhere(Path!Flow, send) BY <1>1 DEF FlowInv
<1> HIDE DEF pkt
<1>5. Routed(Path!Flow, s, send) BY <1>2, <1>3, <1>4, PacketRouted
<1> HIDE DEF s
<1>6. Path!Flow' = s BY <1>1, <1>5, FlowAfter DEF Routed, SoundBut
<1>7. SoundBut(s, {}) BY <1>5 DEF Routed
<1>8. \A id \in Sends : id.dst \in Nics => Once(s, id)
  BY <1>4, <1>5 DEF Routed, Placed, Kept, FlowInv
<1>9. \A id \in unsent \ {send} : Nowhere(s, id)
  BY <1>5 DEF Routed, Placed, Kept, FlowInv
<1>10. TablesOK' BY <1>1 DEF FlowInv, TablesOK
<1>11. unsent' \subseteq Sends BY <1>1 DEF FlowInv
<1> QED BY <1>1, <1>6, <1>7, <1>8, <1>9, <1>10, <1>11 DEF FlowInv

\* A frame reaches a receiver.
LEMMA FlowReceives ==
  ASSUME Path!PathAssumption, FlowInv, NEW f, Path!Receive(f)
  PROVE  FlowInv'
<1> DEFINE s == Path!Flow
           t == [s EXCEPT !.air = Path!(-)(@, Path!SetToBag({f}))]
           u == Path!ReceivePacket(t, Owner[f.to], f.pkt, f.from, f.to)
<1>1. f \in DOMAIN s.air BY DEF Path!Receive, Path!BagIn, Path!BagToSet, Path!Flow
<1>2. Path!FlowBecomes(u) /\ UNCHANGED <<route, multicast, unsent>>
  BY DEF Path!Receive, Path!tables
<1>3. TablesOK /\ SoundBut(s, {}) BY DEF FlowInv
<1> HIDE DEF s
<1>4. SoundBut(t, {}) /\ Taken(s, t, f.pkt.id) /\ f \in Frame BY <1>1, <1>3, FrameTaken
<1> HIDE DEF t
<1>5. f.pkt \in Packet /\ f.from \in Nics /\ f.to \in Nics /\ f.pkt.id \in Sends
  BY <1>4 DEF Frame, Packet
<1>6. Owner[f.to] \in Nodes BY <1>5, PathFacts
<1>7. Routed(t, u, f.pkt.id) BY <1>3, <1>4, <1>5, <1>6, PacketReceived
<1> HIDE DEF u
<1>8. Harmless(s, u) BY <1>4, <1>5, <1>7, TakenAndPlaced DEF Routed
<1>9. SoundBut(u, {}) BY <1>7 DEF Routed
<1> QED BY <1>2, <1>8, <1>9, HarmlessStep DEF s

\* A frame is lost.
LEMMA FlowLoses ==
  ASSUME Path!PathAssumption, FlowInv, NEW f, Path!Lose(f)
  PROVE  FlowInv'
<1> DEFINE s == Path!Flow
           t == [s EXCEPT !.air = Path!(-)(@, Path!SetToBag({f}))]
<1>1. f \in DOMAIN s.air BY DEF Path!Lose, Path!BagIn, Path!BagToSet, Path!Flow
<1>2. Path!FlowBecomes(t) /\ UNCHANGED <<route, multicast, unsent>>
  BY DEF Path!Lose, Path!tables, Path!FlowBecomes, Path!Flow
<1>3. SoundBut(s, {}) BY DEF FlowInv
<1> HIDE DEF s
<1>4. SoundBut(t, {}) /\ Taken(s, t, f.pkt.id) /\ f \in Frame BY <1>1, <1>3, FrameTaken
<1> HIDE DEF t
<1>5. f.pkt.id \in Sends BY <1>4 DEF Frame, Packet
<1>6. Placed(t, t, f.pkt.id) BY DEF Placed, Kept, Nowhere, Once
<1>7. Harmless(s, t) BY <1>4, <1>5, <1>6, TakenAndPlaced
<1> QED BY <1>2, <1>4, <1>7, HarmlessStep DEF s

\* NetworkIpReceiveFromBackplane
LEMMA FlowCrosses ==
  ASSUME Path!PathAssumption, FlowInv, NEW q \in QueueIds, Path!ReceiveFromBackplane(q)
  PROVE  FlowInv'
<1> DEFINE s == Path!Flow
           e == Head(s.backplane[q])
           t == [s EXCEPT !.backplane[q] = Tail(@), !.busy[q] = FALSE, !.event[q] = None]
           u == IF e.out = Cpu THEN Path!DeliverPacket(t, Path!NodeOf(q), e.pkt, s.event[q].hop)
                ELSE Path!QueueUp(t, e.pkt, e.out, s.event[q].hop)
           v == Path!UseBackplaneIfPossible(u, Path!NodeOf(q), s.event[q].in)
<1>1. s.event[q] # None BY DEF Path!ReceiveFromBackplane, Path!Flow
<1>2. Path!FlowBecomes(v) /\ UNCHANGED <<route, multicast, unsent>>
  BY DEF Path!ReceiveFromBackplane, Path!tables, Path!Flow
<1>3. SoundBut(s, {}) BY DEF FlowInv
<1> DEFINE n == Path!NodeOf(q)
           i == s.event[q].in
<1>4. n \in Nodes BY PathFacts DEF Path!NodeOf, QueueIds
<1>5. /\ i \in Port /\ Path!QueueFor(n, i) = q
      /\ Crossed(s, q)
  <2>1. s.event[q] \in Crossing BY <1>1, <1>3 DEF SoundBut, FlowSet
  <2>2. Crossed(s, q) BY <1>3 DEF SoundBut
  <2> QED BY <1>1, <2>1, <2>2 DEF Crossing, Crossed
<1>5a. i = Cpu \/ Central \/ Owner[i] = n
  BY <1>5, PathFacts DEF Path!QueueFor, Path!NodeOf, Port
<1> HIDE DEF s, n, i
<1>6. /\ SoundBut(t, {q}) /\ Taken(s, t, e.pkt.id) /\ e \in Waiting
      /\ s.event[q].hop = e.hop /\ OneWay(n, e.pkt, e.out, e.hop)
  BY <1>1, <1>3, PacketDequeued DEF n
<1>7. e.pkt \in Packet /\ e.out \in Port /\ e.hop \in Hop /\ e.pkt.id \in Sends
  BY <1>6 DEF Waiting, Packet
<1> HIDE DEF t, e
<1>8. SoundBut(u, {q}) /\ Placed(t, u, e.pkt.id)
  <2>1. CASE e.out = Cpu BY <1>4, <1>6, <1>7, <2>1, PacketDelivered DEF n
  <2>2. CASE e.out # Cpu
    <3>1. e.out \in Nics BY <1>7, <2>2 DEF Port
    <3> QED BY <1>4, <1>6, <1>7, <2>2, <3>1, PacketOnAir DEF n
  <2> QED BY <2>1, <2>2
<1> HIDE DEF u
<1>9. /\ SoundBut(v, {}) /\ v.backplane = u.backplane /\ v.air = u.air
      /\ v.delivered = u.delivered
  BY <1>4, <1>5, <1>5a, <1>8, QueueWoken DEF n, i
<1>10. Placed(t, v, e.pkt.id)
  <2>1. \A x \in Sends : Nowhere(v, x) = Nowhere(u, x) /\ Once(v, x) = Once(u, x)
    BY <1>9, SamePlaces
  <2> QED BY <1>7, <1>8, <2>1 DEF Placed, Kept
<1> HIDE DEF v
<1>11. Harmless(s, v) BY <1>6, <1>7, <1>10, TakenAndPlaced
<1> QED BY <1>2, <1>9, <1>11, HarmlessStep DEF s

\* Groups and rows.
LEMMA FlowRows ==
  ASSUME Path!PathAssumption, FlowInv, Path!Groupwise
  PROVE  FlowInv'
<1>1. UNCHANGED <<route, unsent, backplane, busy, event, air, delivered>>
  BY DEF Path!Groupwise, Path!AddToMulticastGroupList, Path!RemoveFromMulticastGroupList,
         Path!UpdateMulticastForwardingTable, Path!EmptyMulticastForwardingTable, Path!flow
<1>2. multicast' \in SUBSET [node : Nodes, src : Nics, dst : Dest, out : Nics]
  <2>0. multicast \in SUBSET [node : Nodes, src : Nics, dst : Dest, out : Nics]
    BY DEF FlowInv, TablesOK
  <2>1. CASE \E a \in Apps : Path!AddToMulticastGroupList(a) \/ Path!RemoveFromMulticastGroupList(a)
    BY <2>0, <2>1 DEF Path!AddToMulticastGroupList, Path!RemoveFromMulticastGroupList
  <2>2. CASE Path!UpdateMulticastForwardingTable
    <3>1. PICK send \in Sends, i \in Nics :
            multicast' = multicast \cup
              {[node |-> Owner[i], src |-> send.src, dst |-> send.dst, out |-> i]}
      BY <2>2 DEF Path!UpdateMulticastForwardingTable
    <3>2. Owner[i] \in Nodes /\ send.src \in Nics /\ send.dst \in Dest BY PathFacts
    <3> QED BY <2>0, <3>1, <3>2
  <2>3. CASE Path!EmptyMulticastForwardingTable
    BY <2>0, <2>3 DEF Path!EmptyMulticastForwardingTable
  <2> QED BY <2>1, <2>2, <2>3 DEF Path!Groupwise
<1>3. Path!Flow' = Path!Flow BY <1>1 DEF Path!Flow
<1>4. TablesOK' BY <1>1, <1>2 DEF FlowInv, TablesOK
<1> QED BY <1>1, <1>3, <1>4 DEF FlowInv

\* Nothing is under way at first.
LEMMA FlowInit ==
  ASSUME Path!PathAssumption, Path!Init
  PROVE  FlowInv
<1>1. TablesOK /\ unsent \subseteq Sends BY DEF Path!Init, TablesOK
<1> DEFINE s == Path!Flow
<1>2. /\ s.backplane = [q \in QueueIds |-> <<>>] /\ s.busy = [q \in QueueIds |-> FALSE]
      /\ s.event = [q \in QueueIds |-> None] /\ s.delivered = {}
      /\ s.air = [f \in {} |-> 1]
  BY DEF Path!Init, Path!Flow, Path!QueueIds, QueueIds, Path!EmptyBag, Path!SetToBag
<1>3. s = [backplane |-> s.backplane, busy |-> s.busy, event |-> s.event, air |-> s.air,
           delivered |-> s.delivered]
  BY DEF Path!Flow
<1>4. [f \in {} |-> 1] \in [{} -> Nat \ {0}] /\ {} \in SUBSET Frame OBVIOUS
<1>5. [f \in {} |-> 1] \in AirOf BY <1>4 DEF AirOf
<1>6. <<>> \in Seq(Waiting) /\ Len(<<>>) = 0 OBVIOUS
<1> HIDE DEF s
<1>7. s \in FlowSet BY <1>2, <1>3, <1>5, <1>6 DEF FlowSet
<1>8. SoundBut(s, {})
  <2>1. Addressed(s) BY <1>2, <1>6 DEF Addressed
  <2>2. HandedRight(s) BY <1>2 DEF HandedRight
  <2>3. QueueSize \in Nat BY PathFacts
  <2> QED BY <1>2, <1>6, <1>7, <2>1, <2>2, <2>3 DEF SoundBut, Crossed
<1>9. \A id : Nowhere(s, id)
  <2>1. \A q \in QueueIds : Len(s.backplane[q]) = 0 BY <1>2, <1>6
  <2>2. \A id : Enqueued(s, id) = {} BY <2>1 DEF Enqueued
  <2>3. DOMAIN s.air = {} BY <1>2
  <2> QED BY <1>2, <2>2, <2>3 DEF Nowhere, Flying, Handed
<1>10. \A id : Once(s, id) BY <1>9 DEF Nowhere, Once
<1> QED BY <1>1, <1>8, <1>9, <1>10 DEF FlowInv, s

\* Every step of the nodes keeps the invariant of the flow.
LEMMA FlowNext ==
  ASSUME Path!PathAssumption, FlowInv, [Path!Next]_(Path!vars)
  PROVE  FlowInv'
<1>1. CASE \E send \in Sends : Path!SendRawMessage(send) BY <1>1, FlowSends
<1>2. CASE \E q \in Path!QueueIds : Path!ReceiveFromBackplane(q)
  BY <1>2, FlowCrosses DEF Path!QueueIds, QueueIds
<1>3. CASE Path!Carry BY <1>3, FlowReceives, FlowLoses DEF Path!Carry
<1>4. CASE Path!Groupwise BY <1>4, FlowRows
<1>5. CASE UNCHANGED Path!vars
  <2>1. UNCHANGED <<route, multicast, unsent, backplane, busy, event, air, delivered>>
    BY <1>5 DEF Path!vars, Path!tables, Path!flow
  <2>2. Path!Flow' = Path!Flow BY <2>1 DEF Path!Flow
  <2> QED BY <2>1, <2>2 DEF FlowInv, TablesOK
<1> QED BY <1>1, <1>2, <1>3, <1>4, <1>5 DEF Path!Next, Path!Finished

\* The invariant of the flow holds throughout.
LEMMA FlowAlways == Path!PathAssumption => (Path!Spec => []FlowInv)
<1> SUFFICES ASSUME Path!PathAssumption PROVE Path!Spec => []FlowInv OBVIOUS
<1>1. Path!Init => FlowInv BY FlowInit
<1>2. FlowInv /\ [Path!Next]_(Path!vars) => FlowInv' BY FlowNext
<1> QED BY <1>1, <1>2, PTL DEF Path!Spec

\* The members of a group.
MemberOK ==
  /\ member \in [Nodes -> [Groups -> Nat]] /\ app \in [Apps -> {"out", "joined", "left"}]
  /\ \A n \in Nodes, g \in Groups :
       member[n][g] = Cardinality({a \in Apps : AppNode[a] = n /\ AppGroup[a] = g /\ app[a] = "joined"})

\* Nobody has joined at first.
LEMMA MemberInit == ASSUME Path!PathAssumption, Path!Init PROVE MemberOK
<1>1. \A n \in Nodes, g \in Groups :
        {a \in Apps : AppNode[a] = n /\ AppGroup[a] = g /\ app[a] = "joined"} = {}
  BY DEF Path!Init
<1> QED BY <1>1, FS_EmptySet DEF Path!Init, MemberOK

\* Only joining and leaving change a count, by the application that does it.
LEMMA MemberNext ==
  ASSUME Path!PathAssumption, MemberOK, [Path!Next]_(Path!vars)
  PROVE  MemberOK'
<1> DEFINE In(x, n, g) == {a \in Apps : AppNode[a] = n /\ AppGroup[a] = g /\ x[a] = "joined"}
<1>0. IsFiniteSet(Apps) /\ AppNode \in [Apps -> Nodes] /\ AppGroup \in [Apps -> Groups]
  BY PathFacts DEF Path!PathAssumption
<1>1. ASSUME NEW a \in Apps, Path!AddToMulticastGroupList(a) PROVE MemberOK'
  <2>1. /\ app[a] = "out" /\ app' = [app EXCEPT ![a] = "joined"]
        /\ member' = [member EXCEPT ![AppNode[a]][AppGroup[a]] = @ + 1]
    BY <1>1 DEF Path!AddToMulticastGroupList
  <2>2. AppNode[a] \in Nodes /\ AppGroup[a] \in Groups BY <1>0
  <2>3. ASSUME NEW n \in Nodes, NEW g \in Groups
        PROVE  member'[n][g] = Cardinality(In(app', n, g))
    <3>1. member[n][g] = Cardinality(In(app, n, g)) BY DEF MemberOK
    <3>2. IsFiniteSet(In(app, n, g)) BY <1>0, FS_Subset
    <3>3. CASE n = AppNode[a] /\ g = AppGroup[a]
      <4>1. In(app', n, g) = In(app, n, g) \cup {a} /\ a \notin In(app, n, g)
        BY <2>1, <3>3 DEF MemberOK
      <4>2. member'[n][g] = member[n][g] + 1 BY <2>1, <3>3 DEF MemberOK
      <4> HIDE DEF In
      <4> QED BY <3>1, <3>2, <4>1, <4>2, FS_AddElement
    <3>4. CASE ~ (n = AppNode[a] /\ g = AppGroup[a])
      <4>1. In(app', n, g) = In(app, n, g) BY <2>1, <3>4 DEF MemberOK
      <4>2. member'[n][g] = member[n][g] BY <2>1, <2>2, <3>4 DEF MemberOK
      <4> QED BY <3>1, <4>1, <4>2
    <3> QED BY <3>3, <3>4
  <2>4. member' \in [Nodes -> [Groups -> Nat]] /\ app' \in [Apps -> {"out", "joined", "left"}]
    BY <2>1, <2>2 DEF MemberOK
  <2> QED BY <2>3, <2>4 DEF MemberOK
<1>2. ASSUME NEW a \in Apps, Path!RemoveFromMulticastGroupList(a) PROVE MemberOK'
  <2>1. /\ app[a] = "joined" /\ app' = [app EXCEPT ![a] = "left"]
        /\ member' = [member EXCEPT ![AppNode[a]][AppGroup[a]] = IF @ > 0 THEN @ - 1 ELSE 0]
    BY <1>2 DEF Path!RemoveFromMulticastGroupList
  <2>2. AppNode[a] \in Nodes /\ AppGroup[a] \in Groups BY <1>0
  <2>3. ASSUME NEW n \in Nodes, NEW g \in Groups
        PROVE  member'[n][g] = Cardinality(In(app', n, g))
    <3>1. member[n][g] = Cardinality(In(app, n, g)) BY DEF MemberOK
    <3>2. IsFiniteSet(In(app, n, g)) BY <1>0, FS_Subset
    <3>3. CASE n = AppNode[a] /\ g = AppGroup[a]
      <4>1. In(app', n, g) = In(app, n, g) \ {a} /\ a \in In(app, n, g)
        BY <2>1, <3>3 DEF MemberOK
      <4>2. member'[n][g] = IF member[n][g] > 0 THEN member[n][g] - 1 ELSE 0
        BY <2>1, <3>3 DEF MemberOK
      <4> HIDE DEF In
      <4>3. /\ Cardinality(In(app, n, g)) \in Nat /\ Cardinality(In(app, n, g)) # 0
            /\ Cardinality(In(app', n, g)) = Cardinality(In(app, n, g)) - 1
        BY <3>2, <4>1, FS_CardinalityType, FS_EmptySet, FS_RemoveElement
      <4> QED BY <3>1, <4>2, <4>3
    <3>4. CASE ~ (n = AppNode[a] /\ g = AppGroup[a])
      <4>1. In(app', n, g) = In(app, n, g) BY <2>1, <3>4 DEF MemberOK
      <4>2. member'[n][g] = member[n][g] BY <2>1, <2>2, <3>4 DEF MemberOK
      <4> QED BY <3>1, <4>1, <4>2
    <3> QED BY <3>3, <3>4
  <2>4. member' \in [Nodes -> [Groups -> Nat]] /\ app' \in [Apps -> {"out", "joined", "left"}]
    <3>1. member \in [Nodes -> [Groups -> Nat]] BY DEF MemberOK
    <3>2. (IF member[AppNode[a]][AppGroup[a]] > 0 THEN member[AppNode[a]][AppGroup[a]] - 1
           ELSE 0) \in Nat
      BY <2>2, <3>1
    <3> QED BY <2>1, <2>2, <3>1, <3>2 DEF MemberOK
  <2> QED BY <2>3, <2>4 DEF MemberOK
<1>3. ASSUME UNCHANGED <<member, app>> PROVE MemberOK' BY <1>3 DEF MemberOK
<1> QED
  BY <1>1, <1>2, <1>3
  DEF Path!Next, Path!Groupwise, Path!Carry, Path!SendRawMessage, Path!ReceiveFromBackplane,
      Path!Receive, Path!Lose, Path!UpdateMulticastForwardingTable,
      Path!EmptyMulticastForwardingTable, Path!Finished, Path!vars, Path!tables

\* What has at most one element is finite.
LEMMA AtMostOne ==
  ASSUME NEW S, \A x, y \in S : x = y
  PROVE  Cardinality(S) = IF S = {} THEN 0 ELSE 1
<1>1. CASE S = {} BY <1>1, FS_EmptySet
<1>2. CASE S # {}
  <2>1. PICK x \in S : TRUE BY <1>2
  <2>2. S = {x} BY <2>1
  <2> QED BY <1>2, <2>2, FS_Singleton
<1> QED BY <1>1, <1>2

\* A packet that waits in the backplane of a node is always on its way: its queue is
\* busy and has an event, which finds it first and has its next hop.
THEOREM BackplaneAlwaysMoves ==
  Path!PathAssumption => (Path!Spec => [](Path!BackplaneMoves /\ Path!HopOfPacket))
<1> SUFFICES ASSUME Path!PathAssumption
             PROVE  Path!Spec => [](Path!BackplaneMoves /\ Path!HopOfPacket)
  OBVIOUS
<1>1. FlowInv => Path!BackplaneMoves /\ Path!HopOfPacket
  <2> SUFFICES ASSUME FlowInv PROVE Path!BackplaneMoves /\ Path!HopOfPacket OBVIOUS
  <2>1. /\ SoundBut(Path!Flow, {}) /\ Path!Flow.backplane = backplane /\ Path!Flow.busy = busy
        /\ Path!Flow.event = event
    BY DEF FlowInv, Path!Flow
  <2>2. busy \in [QueueIds -> BOOLEAN] BY <2>1 DEF SoundBut, FlowSet
  <2>3. \A q \in QueueIds : Crossed(Path!Flow, q) /\ (backplane[q] # <<>> => busy[q])
    BY <2>1 DEF SoundBut
  <2> QED
    BY <2>1, <2>2, <2>3, ZenonT(60)
    DEF Path!BackplaneMoves, Path!HopOfPacket, Path!QueueIds, QueueIds, Crossed
<1> QED BY <1>1, FlowAlways, PTL

\* Whatever the routes, a packet for one interface is in one queue, or in one frame, or
\* handed up at its destination.
THEOREM UnicastNeverDoubled == Path!PathAssumption => (Path!Spec => []Path!UnicastOnce)
<1> SUFFICES ASSUME Path!PathAssumption PROVE Path!Spec => []Path!UnicastOnce OBVIOUS
<1>1. FlowInv => Path!UnicastOnce
  <2> SUFFICES ASSUME FlowInv, NEW send \in Sends, send.dst \in Nics
               PROVE  /\ Path!Cardinality(Path!InQueues(send)) + Path!Cardinality(Path!InAir(send))
                           + Path!Cardinality(Path!Deliveries(send)) <= 1
                      /\ \A d \in Path!Deliveries(send) : d.at = Owner[send.dst]
    BY DEF Path!UnicastOnce
  <2>1. /\ SoundBut(Path!Flow, {}) /\ Path!Flow.backplane = backplane
        /\ Path!Flow.air = air /\ Path!Flow.delivered = delivered
    BY DEF FlowInv, Path!Flow
  <2>2. /\ Path!InQueues(send) = Enqueued(Path!Flow, send)
        /\ Path!Deliveries(send) = Handed(Path!Flow, send)
    BY <2>1 DEF Path!InQueues, Enqueued, Path!QueueIds, QueueIds, Path!Deliveries, Handed
  <2>3. Path!InAir(send) = UNION {{f} \X (1 .. air[f]) : f \in Flying(Path!Flow, send)}
    BY <2>1 DEF Path!InAir, Flying, Path!BagToSet
  <2>4. Once(Path!Flow, send) BY DEF FlowInv
  <2>5. /\ \A x, y \in Path!InAir(send) : x = y
        /\ Flying(Path!Flow, send) = {} => Path!InAir(send) = {}
    <3>1. \A f \in Flying(Path!Flow, send) : 1 .. air[f] = {1} BY <2>1, <2>4 DEF Once
    <3>2. \A x \in Path!InAir(send) :
            x \in {f : f \in Flying(Path!Flow, send)} \X {1}
      BY <2>3, <3>1
    <3> QED BY <2>3, <2>4, <3>2 DEF Once
  <2>6. /\ \A x, y \in Path!InQueues(send) : x = y
        /\ \A x, y \in Path!Deliveries(send) : x = y
        /\ Path!InQueues(send) = {} \/ Path!Deliveries(send) = {}
        /\ Path!InQueues(send) = {} \/ Path!InAir(send) = {}
        /\ Path!InAir(send) = {} \/ Path!Deliveries(send) = {}
    BY <2>2, <2>4, <2>5 DEF Once
  <2>7. /\ Cardinality(Path!InQueues(send)) = IF Path!InQueues(send) = {} THEN 0 ELSE 1
        /\ Cardinality(Path!InAir(send)) = IF Path!InAir(send) = {} THEN 0 ELSE 1
        /\ Cardinality(Path!Deliveries(send)) = IF Path!Deliveries(send) = {} THEN 0 ELSE 1
    BY <2>5, <2>6, AtMostOne
  <2>8. \A d \in Path!Deliveries(send) : d.at = Owner[send.dst]
    BY <2>1 DEF Path!Deliveries, SoundBut, HandedRight
  <2> QED BY <2>6, <2>7, <2>8, SameCount
<1> QED BY <1>1, FlowAlways, PTL

\* A node counts the applications that have joined a group and not left it.
THEOREM MembersCounted == Path!PathAssumption => (Path!Spec => []Path!MemberCount)
<1> SUFFICES ASSUME Path!PathAssumption PROVE Path!Spec => []Path!MemberCount OBVIOUS
<1>1. Path!Init => MemberOK BY MemberInit
<1>2. MemberOK /\ [Path!Next]_(Path!vars) => MemberOK' BY MemberNext
<1>3. MemberOK => Path!MemberCount BY SameCount DEF MemberOK, Path!MemberCount
<1> QED BY <1>1, <1>2, <1>3, PTL DEF Path!Spec

=============================================================================
