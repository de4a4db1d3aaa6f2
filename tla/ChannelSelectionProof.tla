------------------------ MODULE ChannelSelectionProof ------------------------
(***************************************************************************)
(* The channel selection is correct for every set of surroundings, every    *)
(* set of switchable channels and every threshold.                          *)
(***************************************************************************)
EXTENDS ChannelSelection, FiniteSetTheorems, TLAPS

-----------------------------------------------------------------------------
(* Types. *)

\* A list without one of its entries is a list.
LEMMA WithoutIsNodeList ==
  ASSUME NEW list, NEW addr, IsNodeList(list)
  PROVE  IsNodeList(Without(list, addr))
<1>1. IsFiniteSet(DOMAIN list \ {addr})
  BY FS_Subset DEF IsNodeList
<1>2. Without(list, addr) \in [DOMAIN list \ {addr} -> NodeInfo]
  BY DEF IsNodeList, Without
<1> QED
  BY <1>1, <1>2 DEF IsNodeList, Without

\* The empty list is a list.
LEMMA NoNodesIsNodeList == IsNodeList(NoNodes)
<1>1. IsFiniteSet({})
  BY FS_EmptySet
<1>2. NoNodes \in [{} -> NodeInfo] /\ DOMAIN NoNodes = {}
  BY DEF NoNodes
<1> QED
  BY <1>1, <1>2 DEF IsNodeList

\* Both counts are natural numbers, on every channel.
LEMMA CountsAreNat ==
  ASSUME IsNodeList(rxList), IsNodeList(txList), NEW c \in Channel
  PROVE  Cardinality(Hidden(c)) \in Nat /\ Cardinality(CarrierSensed(c)) \in Nat
<1>1. Hidden(c) \subseteq DOMAIN rxList /\ CarrierSensed(c) \subseteq DOMAIN txList
  BY DEF Hidden, CarrierSensed
<1>2. IsFiniteSet(Hidden(c)) /\ IsFiniteSet(CarrierSensed(c))
  BY <1>1, FS_Subset DEF IsNodeList
<1> QED
  BY <1>2, FS_CardinalityType

\* The body of a pass keeps its local variables in their types.
LEMMA ConsiderType ==
  ASSUME TypeOK, i < NUM_CHANNELS, NEW count \in Nat, Consider(count)
  PROVE  /\ best' \in Channel \cup {-1}
         /\ lowest' \in Nat \cup {-1}
         /\ tied' \in BOOLEAN
<1>1. i \in Channel
  BY SwitchableAssumption DEF TypeOK, Channel
<1> QED
  BY <1>1, SwitchableAssumption DEF TypeOK, Consider, locals

-----------------------------------------------------------------------------
(* One pass over the channels. *)

\* The channels a pass has considered.
Passed == {c \in Switchable : c < i}

\* The loop invariant of a pass over the counts "count": best is a channel
\* considered with the fewest nodes, and tied says whether it is the only one.
PassInv(count) ==
  /\ best = -1 => lowest = -1 /\ ~tied /\ Passed = {}
  /\ best # -1 =>
       /\ best \in Passed /\ lowest = count[best]
       /\ \A c \in Passed : count[best] <= count[c]
       /\ tied <=> \E c \in Passed : c # best /\ count[c] = count[best]

\* Channel numbers are natural numbers below NUM_CHANNELS.
LEMMA SwitchableBounds ==
  \A c \in Switchable : c \in Nat /\ 0 <= c /\ c < NUM_CHANNELS
<1>1. \A c \in Channel : c \in Nat /\ 0 <= c /\ c < NUM_CHANNELS
  BY SwitchableAssumption DEF Channel
<1> QED
  BY <1>1, SwitchableAssumption

\* A pass has considered nothing when it starts.
LEMMA NothingPassed == i' = 0 => Passed' = {}
<1>1. i' = 0 => \A c \in Switchable : ~(c < i')
  BY SwitchableBounds
<1> QED
  BY <1>1 DEF Passed

\* The body of a pass preserves its invariant.
LEMMA PassContinues ==
  ASSUME TypeOK, i < NUM_CHANNELS, NEW count \in [Channel -> Nat], PassInv(count),
         Consider(count[i]), i' = i + 1
  PROVE  PassInv(count)'
<1>1. i \in Channel /\ Passed \subseteq Channel
  BY SwitchableAssumption DEF TypeOK, Channel, Passed
<1>2. Passed' = IF i \in Switchable THEN Passed \cup {i} ELSE Passed
  <2>1. i \in Nat
    BY SwitchableAssumption DEF TypeOK
  <2>2. \A c \in Switchable : c < i' <=> c < i \/ c = i
    BY <2>1, SwitchableBounds
  <2> QED
    BY <2>2 DEF Passed
<1>3. i \notin Passed
  BY <1>1 DEF Passed, Channel
<1>4. \A c \in Passed : count[c] \in Nat
  BY <1>1
<1>5. count[i] \in Nat
  BY <1>1
<1>6. lowest \in Int /\ best \in Channel \cup {-1} /\ tied \in BOOLEAN
  BY DEF TypeOK
<1>a. CASE i \notin Switchable /\ UNCHANGED locals
  BY <1>a, <1>2 DEF PassInv, locals
<1>b. CASE i \in Switchable /\ best < 0 /\ best' = i /\ lowest' = count[i] /\ UNCHANGED tied
  <2>1. best = -1
    BY <1>b, <1>6 DEF Channel
  <2>2. Passed' = {i}
    BY <2>1, <1>b, <1>2 DEF PassInv
  <2>3. ~tied'
    BY <2>1, <1>b DEF PassInv
  <2> QED
    BY <2>2, <2>3, <1>b, <1>1, <1>5 DEF PassInv, Channel
<1>c. CASE i \in Switchable /\ best >= 0 /\ count[i] < lowest
             /\ best' = i /\ lowest' = count[i] /\ tied' = FALSE
  <2>1. best # -1
    BY <1>c, <1>6 DEF Channel
  <2>2. \A c \in Passed : count[i] < count[c]
    BY <2>1, <1>c, <1>1, <1>4, <1>5 DEF PassInv
  <2> QED
    BY <2>2, <1>c, <1>1, <1>2, <1>3, <1>4, <1>5 DEF PassInv, Channel
<1>d. CASE i \in Switchable /\ best >= 0 /\ count[i] >= lowest
             /\ tied' = (tied \/ count[i] = lowest) /\ UNCHANGED <<best, lowest>>
  <2>1. best # -1
    BY <1>d, <1>6 DEF Channel
  <2>2. best \in Passed /\ lowest = count[best]
    BY <2>1 DEF PassInv
  <2>3. \A c \in Passed' : count[best] <= count[c]
    BY <2>1, <2>2, <1>d, <1>2, <1>4, <1>5 DEF PassInv
  <2>4. tied' <=> \E c \in Passed' : c # best /\ count[c] = count[best]
    BY <2>1, <2>2, <1>d, <1>2, <1>3 DEF PassInv
  <2> QED
    BY <2>1, <2>2, <2>3, <2>4, <1>d, <1>2 DEF PassInv
<1> QED
  BY <1>a, <1>b, <1>c, <1>d DEF Consider

\* What a pass has found when it is over.
LEMMA PassEnds ==
  ASSUME TypeOK, i = NUM_CHANNELS, NEW count \in [Channel -> Nat], PassInv(count)
  PROVE  /\ tied => ~IsSingle(Fewest(count))
         /\ ~tied => Fewest(count) = {best} /\ best \in Channel
<1>1. Passed = Switchable
  BY SwitchableBounds DEF Passed
<1>2. best # -1
  BY <1>1, SwitchableAssumption DEF PassInv
<1>3. best \in Fewest(count)
  BY <1>1, <1>2 DEF PassInv, Fewest
<1>4. \A c \in Switchable : count[c] \in Nat
  BY SwitchableAssumption
<1>5. tied => \E c \in Fewest(count) : c # best
  <2> SUFFICES ASSUME tied PROVE \E c \in Fewest(count) : c # best
    OBVIOUS
  <2>1. PICK c \in Switchable : c # best /\ count[c] = count[best]
    BY <1>1, <1>2 DEF PassInv
  <2>2. c \in Fewest(count)
    BY <2>1, <1>3 DEF Fewest
  <2> QED
    BY <2>1, <2>2
<1>6. ~tied => \A c \in Fewest(count) : c = best
  <2> SUFFICES ASSUME ~tied, NEW c \in Fewest(count) PROVE c = best
    OBVIOUS
  <2>1. c \in Switchable /\ best \in Switchable
    BY <1>3 DEF Fewest
  <2>2. count[c] <= count[best] /\ count[best] <= count[c]
    BY <1>3, <2>1 DEF Fewest
  <2>3. count[c] = count[best]
    BY <2>1, <2>2, <1>4
  <2> QED
    BY <2>1, <2>3, <1>1, <1>2 DEF PassInv
<1> QED
  BY <1>3, <1>5, <1>6, SwitchableAssumption DEF IsSingle, Fewest

-----------------------------------------------------------------------------
(* The evaluation. *)

\* Typing alone is not inductive: that the channel chosen is a channel, -1 no
\* longer, follows from the loop invariants.
SelectionInv ==
  /\ TypeOK
  /\ pc = "HN" => PassInv(hn)
  /\ pc = "CS" => PassInv(cs) /\ ~IsSingle(Fewest(hn))
  /\ SelectionCorrect

\* The channel chosen is one of the radio's.
LEMMA ChosenIsChannel ==
  ASSUME TypeOK, SelectionCorrect, pc = "done"
  PROVE  best \in Switchable \cup {cur} /\ best \in Channel
<1>1. \A count : Fewest(count) \subseteq Switchable
  BY DEF Fewest
<1>2. best \in Switchable \cup {cur}
  BY <1>1 DEF SelectionCorrect
<1> QED
  BY <1>2, SwitchableAssumption DEF TypeOK

\* The strengthened invariant holds initially...
LEMMA SelectionInvInit == Init => SelectionInv
<1> SUFFICES ASSUME Init PROVE SelectionInv
  OBVIOUS
<1>1. 0 \in 0 .. NUM_CHANNELS
  BY SwitchableAssumption
<1>2. IsNodeList(seen.rx) /\ IsNodeList(seen.tx)
  BY SurroundingsAssumption DEF Init
<1>3. TypeOK
  <2>1. IsNodeList(rxList) /\ IsNodeList(txList)
    BY NoNodesIsNodeList DEF Init
  <2>2. hn \in [Channel -> Nat] /\ cs \in [Channel -> Nat]
    <3>1. [c \in Channel |-> 0] \in [Channel -> Nat]
      OBVIOUS
    <3> QED
      BY <3>1 DEF Init
  <2>3. i = 0 /\ tied = FALSE /\ round = 0 /\ pc = "collect" /\ cur \in Channel
    BY DEF Init
  <2>4. best = -1 /\ lowest = -1
    BY DEF Init
  <2>5. atRx = 0 /\ atRx \in Int
    BY DEF Init
  <2> QED
    BY <1>1, <1>2, <2>1, <2>2, <2>3, <2>4, <2>5 DEF TypeOK
<1> QED
  BY <1>3 DEF Init, SelectionInv, SelectionCorrect

\* ... and every step preserves it.
LEMMA SelectionInvNext == SelectionInv /\ [Next]_vars => SelectionInv'
<1> SUFFICES ASSUME SelectionInv, [Next]_vars PROVE SelectionInv'
  OBVIOUS
<1>t. TypeOK
  BY DEF SelectionInv
<1> USE DEF lists, counts, locals
<1>1. CASE ParseRxNodeList
  <2>1. IsNodeList(rxList') /\ IsNodeList(txList')
    BY <1>1, <1>t, WithoutIsNodeList DEF ParseRxNodeList, TypeOK
  <2>2. atRx' \in Int
    BY <1>1, <1>t DEF ParseRxNodeList, IsNodeList, NodeInfo, TypeOK
  <2>3. TypeOK'
    BY <1>1, <1>t, <2>1, <2>2 DEF ParseRxNodeList, TypeOK
  <2> QED
    BY <1>1, <2>3 DEF ParseRxNodeList, SelectionInv, SelectionCorrect
<1>2. CASE CountNodes
  <2>1. hn' \in [Channel -> Nat] /\ cs' \in [Channel -> Nat]
    BY <1>2, <1>t, CountsAreNat DEF CountNodes, TypeOK
  <2>2. 0 \in 0 .. NUM_CHANNELS
    BY SwitchableAssumption
  <2>3. TypeOK'
    BY <1>2, <1>t, <2>1, <2>2 DEF CountNodes, StartPass, TypeOK
  <2>4. PassInv(hn)'
    BY <1>2, NothingPassed DEF CountNodes, StartPass, PassInv
  <2> QED
    BY <1>2, <2>3, <2>4 DEF CountNodes, SelectionInv, SelectionCorrect
<1>3. CASE ConsiderHidden
  <2>1. i \in Channel /\ i' \in 0 .. NUM_CHANNELS
    BY <1>3, <1>t, SwitchableAssumption DEF ConsiderHidden, Channel, TypeOK
  <2>2. hn \in [Channel -> Nat] /\ hn[i] \in Nat
    BY <2>1, <1>t DEF TypeOK
  <2>3. TypeOK'
    BY <1>3, <1>t, <2>1, <2>2, ConsiderType DEF ConsiderHidden, TypeOK
  <2>4. PassInv(hn)'
    <3>1. PassInv(hn) /\ hn' = hn
      BY <1>3 DEF ConsiderHidden, SelectionInv
    <3> QED
      BY <1>3, <1>t, <2>2, <3>1, PassContinues DEF ConsiderHidden, PassInv
  <2> QED
    BY <1>3, <2>3, <2>4 DEF ConsiderHidden, SelectionInv, SelectionCorrect
<1>4. CASE ConsiderSensed
  <2>1. i \in Channel /\ i' \in 0 .. NUM_CHANNELS
    BY <1>4, <1>t, SwitchableAssumption DEF ConsiderSensed, Channel, TypeOK
  <2>2. cs \in [Channel -> Nat] /\ cs[i] \in Nat
    BY <2>1, <1>t DEF TypeOK
  <2>3. TypeOK'
    BY <1>4, <1>t, <2>1, <2>2, ConsiderType DEF ConsiderSensed, TypeOK
  <2>4. PassInv(cs)'
    <3>1. PassInv(cs) /\ cs' = cs
      BY <1>4 DEF ConsiderSensed, SelectionInv
    <3> QED
      BY <1>4, <1>t, <2>2, <3>1, PassContinues DEF ConsiderSensed, PassInv
  <2>5. ~IsSingle(Fewest(hn))'
    BY <1>4 DEF ConsiderSensed, SelectionInv, IsSingle, Fewest
  <2> QED
    BY <1>4, <2>3, <2>4, <2>5 DEF ConsiderSensed, SelectionInv, SelectionCorrect
<1>5. CASE HiddenPassEnds
  <2>1. /\ tied => ~IsSingle(Fewest(hn))
        /\ ~tied => Fewest(hn) = {best} /\ best \in Channel
    BY <1>5, <1>t, PassEnds DEF HiddenPassEnds, SelectionInv, TypeOK
  <2>2. CASE ~tied /\ Return(best)
    <3>1. TypeOK'
      BY <2>2, <1>t, NoNodesIsNodeList DEF Return, TypeOK
    <3>2. SelectionCorrect'
      BY <2>1, <2>2 DEF Return, SelectionCorrect, IsSingle, Fewest
    <3> QED
      BY <2>2, <3>1, <3>2 DEF Return, SelectionInv
  <2>3. CASE tied /\ pc' = "CS" /\ StartPass /\ UNCHANGED <<lists, counts, cur, round>>
    <3>1. 0 \in 0 .. NUM_CHANNELS
      BY SwitchableAssumption
    <3>2. TypeOK'
      BY <2>3, <3>1, <1>t DEF StartPass, TypeOK
    <3>3. PassInv(cs)'
      BY <2>3, NothingPassed DEF StartPass, PassInv
    <3>4. ~IsSingle(Fewest(hn))'
      BY <2>1, <2>3 DEF IsSingle, Fewest
    <3> QED
      BY <2>3, <3>2, <3>3, <3>4 DEF SelectionInv, SelectionCorrect
  <2> QED
    BY <1>5, <2>2, <2>3 DEF HiddenPassEnds
<1>6. CASE SensedPassEnds
  <2>1. /\ tied => ~IsSingle(Fewest(cs))
        /\ ~tied => Fewest(cs) = {best} /\ best \in Channel
    BY <1>6, <1>t, PassEnds DEF SensedPassEnds, SelectionInv, TypeOK
  <2>2. ~IsSingle(Fewest(hn))
    BY <1>6 DEF SensedPassEnds, SelectionInv
  <2>3. TypeOK'
    BY <1>6, <2>1, <1>t, NoNodesIsNodeList DEF SensedPassEnds, Return, TypeOK
  <2>4. SelectionCorrect'
    BY <1>6, <2>1, <2>2 DEF SensedPassEnds, Return, SelectionCorrect, IsSingle, Fewest
  <2> QED
    BY <1>6, <2>3, <2>4 DEF SensedPassEnds, Return, SelectionInv
<1>7. CASE NextRound
  <2>1. best \in Channel
    BY <1>7, <1>t, ChosenIsChannel DEF NextRound, SelectionInv
  <2>2. TypeOK'
    BY <1>7, <2>1, <1>t DEF NextRound, TypeOK
  <2> QED
    BY <1>7, <2>2 DEF NextRound, SelectionInv, SelectionCorrect
<1>8. CASE UNCHANGED vars
  BY <1>8 DEF vars, SelectionInv, SelectionCorrect, TypeOK, PassInv, Passed, IsSingle, Fewest
<1> QED
  BY <1>1, <1>2, <1>3, <1>4, <1>5, <1>6, <1>7, <1>8 DEF Next

-----------------------------------------------------------------------------
(* The theorems. *)

\* In every reachable state the evaluation's variables have their types, its
\* loops their invariants, and a finished evaluation is correct.
LEMMA SelectionInvariant == Spec => []SelectionInv
  BY SelectionInvInit, SelectionInvNext, PTL DEF Spec

\* Type correctness.
THEOREM SelectionTypeCorrect == Spec => []TypeOK
<1>1. SelectionInv => TypeOK
  BY DEF SelectionInv
<1> QED
  BY <1>1, SelectionInvariant, PTL

\* The two passes and their tied flag compute the channel with the fewest hidden
\* nodes, or with the fewest carrier sensing nodes among equals, or the current one.
THEOREM SelectionIsCorrect == Spec => []SelectionCorrect
<1>1. SelectionInv => SelectionCorrect
  BY DEF SelectionInv
<1> QED
  BY <1>1, SelectionInvariant, PTL

\* The choice is a switchable channel or the current one, as the protocol model
\* assumes of it.
THEOREM ChoiceIsCandidate == Spec => []BestIsCandidate
<1>1. SelectionInv => BestIsCandidate
  BY ChosenIsChannel DEF SelectionInv, BestIsCandidate
<1> QED
  BY <1>1, SelectionInvariant, PTL

\* Between two switchable channels the client never changes to the one with more
\* hidden nodes.
THEOREM TwoChannelsFewestHidden ==
  ASSUME NEW a, NEW b, Switchable = {a, b}
  PROVE  Spec => []FewestHidden
<1>1. SelectionInv => FewestHidden
  <2> SUFFICES ASSUME TypeOK, SelectionCorrect, pc = "done", best # cur
               PROVE  best \in Fewest(hn)
    BY DEF SelectionInv, FewestHidden
  <2>1. CASE IsSingle(Fewest(hn))
    BY <2>1 DEF SelectionCorrect
  <2>2. CASE ~IsSingle(Fewest(hn))
    <3>1. best \in Switchable
      BY ChosenIsChannel
    <3>2. a \in Channel /\ b \in Channel
      BY SwitchableAssumption
    <3>3. hn[a] \in Nat /\ hn[b] \in Nat
      BY <3>2 DEF TypeOK
    <3>4. a \in Fewest(hn) \/ b \in Fewest(hn)
      BY <3>3 DEF Fewest
    <3>5. Fewest(hn) \subseteq {a, b}
      BY DEF Fewest
    <3> QED
      BY <2>2, <3>1, <3>4, <3>5 DEF IsSingle
  <2> QED
    BY <2>1, <2>2
<1> QED
  BY <1>1, SelectionInvariant, PTL

-----------------------------------------------------------------------------
(* Evaluating again. *)

\* The counts as functions of what the MACs have seen, which no evaluation changes.
SeenAtRx == IF TxAddr \in DOMAIN seen.rx THEN seen.rx[TxAddr].strength ELSE 0
SeenTolerable(info) == NonDb(SeenAtRx) > HnThreshold * (NonDb(info.strength) + Noise)
SeenNegotiable(a) == a \in DOMAIN seen.tx /\ seen.tx[a].strength >= CsThreshold
SeenHidden(c) ==
  {a \in DOMAIN seen.rx \ {TxAddr} :
     /\ seen.rx[a].channel = c
     /\ ~SeenNegotiable(a) /\ ~SeenTolerable(seen.rx[a])}
SeenCarrierSensed(c) ==
  {a \in DOMAIN seen.tx : seen.tx[a].channel = c /\ a # RxAddr /\ SeenNegotiable(a)}
SeenHn == [c \in Channel |-> Cardinality(SeenHidden(c))]
SeenCs == [c \in Channel |-> Cardinality(SeenCarrierSensed(c))]

\* Channel c is the outcome of an evaluation of the counts hn and cs.
IsOutcome(c) ==
  /\ IsSingle(Fewest(hn)) => Fewest(hn) = {c}
  /\ ~IsSingle(Fewest(hn)) /\ IsSingle(Fewest(cs)) => Fewest(cs) = {c}

\* Every evaluation has the same counts, and after the first one the current
\* channel is an outcome of them.
AgainInv ==
  /\ atRx = IF pc = "collect" /\ round = 0 THEN 0 ELSE SeenAtRx
  /\ pc = "count" => rxList = Without(seen.rx, TxAddr) /\ txList = seen.tx
  /\ pc \in {"HN", "CS", "done"} \/ round > 0 => hn = SeenHn /\ cs = SeenCs
  /\ round > 0 => IsOutcome(cur)

\* The lists of the client and its idea of its own strength determine the counts.
LEMMA CountsFromLists ==
  ASSUME rxList = Without(seen.rx, TxAddr), txList = seen.tx, atRx = SeenAtRx
  PROVE  /\ [c \in Channel |-> Cardinality(Hidden(c))] = SeenHn
         /\ [c \in Channel |-> Cardinality(CarrierSensed(c))] = SeenCs
<1>1. \A c : CarrierSensed(c) = SeenCarrierSensed(c)
  BY DEF CarrierSensed, SeenCarrierSensed, Negotiable, SeenNegotiable
<1>2. \A c : Hidden(c) = SeenHidden(c)
  <2>1. DOMAIN rxList = DOMAIN seen.rx \ {TxAddr}
    BY DEF Without
  <2>2. \A a \in DOMAIN rxList : rxList[a] = seen.rx[a]
    BY DEF Without
  <2>3. \A info : Tolerable(info) <=> SeenTolerable(info)
    BY DEF Tolerable, SeenTolerable
  <2>4. \A a : Negotiable(a) <=> SeenNegotiable(a)
    BY DEF Negotiable, SeenNegotiable
  <2> QED
    BY <2>1, <2>2, <2>3, <2>4 DEF Hidden, SeenHidden
<1> QED
  BY <1>1, <1>2 DEF SeenHn, SeenCs

\* What has been seen, and so what is counted, does not change.
LEMMA SeenUnchanged ==
  ASSUME UNCHANGED seen
  PROVE  SeenAtRx' = SeenAtRx /\ SeenHn' = SeenHn /\ SeenCs' = SeenCs
  BY DEF SeenAtRx, SeenHn, SeenCs, SeenHidden, SeenCarrierSensed, SeenTolerable,
         SeenNegotiable

\* The invariant of repeated evaluations is preserved by every step.
LEMMA AgainInvNext == SelectionInv /\ AgainInv /\ [Next]_vars => AgainInv'
<1> SUFFICES ASSUME SelectionInv, AgainInv, [Next]_vars PROVE AgainInv'
  OBVIOUS
<1>t. TypeOK
  BY DEF SelectionInv
<1>s. UNCHANGED seen
  BY DEF Next, ParseRxNodeList, CountNodes, ConsiderHidden, ConsiderSensed,
         HiddenPassEnds, SensedPassEnds, Return, NextRound, lists, vars
<1>u. SeenAtRx' = SeenAtRx /\ SeenHn' = SeenHn /\ SeenCs' = SeenCs
  BY <1>s, SeenUnchanged
<1>o. ASSUME UNCHANGED <<hn, cs, cur>>
      PROVE  IsOutcome(cur)' <=> IsOutcome(cur)
  BY <1>o DEF IsOutcome, IsSingle, Fewest
<1> USE DEF lists, counts, locals
<1>1. CASE ParseRxNodeList
  <2>1. atRx' = SeenAtRx
    BY <1>1 DEF ParseRxNodeList, AgainInv, SeenAtRx
  <2> QED
    BY <1>1, <2>1, <1>u, <1>o DEF ParseRxNodeList, AgainInv
<1>2. CASE CountNodes
  <2>1. hn' = SeenHn /\ cs' = SeenCs
    BY <1>2, CountsFromLists DEF CountNodes, AgainInv
  <2>2. round > 0 => UNCHANGED <<hn, cs, cur>>
    BY <1>2, <2>1 DEF CountNodes, AgainInv
  <2> QED
    BY <1>2, <2>1, <2>2, <1>u, <1>o DEF CountNodes, AgainInv
<1>3. CASE ConsiderHidden
  BY <1>3, <1>u, <1>o DEF ConsiderHidden, AgainInv
<1>4. CASE ConsiderSensed
  BY <1>4, <1>u, <1>o DEF ConsiderSensed, AgainInv
<1>5. CASE HiddenPassEnds
  BY <1>5, <1>u, <1>o DEF HiddenPassEnds, Return, AgainInv
<1>6. CASE SensedPassEnds
  BY <1>6, <1>u, <1>o DEF SensedPassEnds, Return, AgainInv
<1>7. CASE NextRound
  <2>1. IsOutcome(best)
    BY <1>7 DEF NextRound, SelectionInv, SelectionCorrect, IsOutcome
  <2>2. IsOutcome(cur)'
    BY <1>7, <2>1 DEF NextRound, IsOutcome, IsSingle, Fewest
  <2>3. round' > 0
    BY <1>7, <1>t DEF NextRound, TypeOK
  <2> QED
    BY <1>7, <2>2, <2>3, <1>u DEF NextRound, AgainInv
<1>8. CASE UNCHANGED vars
  BY <1>8, <1>u, <1>o DEF vars, AgainInv
<1> QED
  BY <1>1, <1>2, <1>3, <1>4, <1>5, <1>6, <1>7, <1>8 DEF Next

\* The client does not flap: evaluating unchanged surroundings again, from the
\* channel chosen before, chooses that channel.
THEOREM SelectionSettles == Spec => []Settles
<1>1. Init => AgainInv
  BY DEF Init, AgainInv
<1>2. SelectionInv /\ AgainInv => Settles
  <2> SUFFICES ASSUME SelectionInv, AgainInv, pc = "done", round > 0 PROVE best = cur
    BY DEF Settles
  <2>1. IsOutcome(cur) /\ SelectionCorrect
    BY DEF AgainInv, SelectionInv
  <2> QED
    BY <2>1 DEF IsOutcome, SelectionCorrect
<1> QED
  BY <1>1, <1>2, SelectionInvariant, SelectionInvInit, SelectionInvNext, AgainInvNext, PTL
     DEF Spec
=============================================================================
