-------------------------- MODULE ChannelSelection --------------------------
(***************************************************************************)
(* How the ASDCS client chooses a channel from the nodes that it and the    *)
(* server have seen: AppChanswitchClientParseRxNodeList and                 *)
(* AppChanswitchClientEvaluateChannels, one action per loop iteration of    *)
(* the two passes over the channels.  Source: app_chanswitch.cpp.           *)
(***************************************************************************)
EXTENDS Integers, FiniteSets

CONSTANTS
  TxAddr, RxAddr,     \* MAC addresses of the client and of the server
  Surroundings,       \* what the two MACs may have seen, see SurroundingsAssumption
  NUM_CHANNELS,
  Switchable,         \* clientPtr->channelSwitch
  HnThreshold,        \* clientPtr->hnThreshold
  CsThreshold,        \* clientPtr->csThreshold, dBm
  Noise,              \* clientPtr->noise_mW, in the unit of NonDb
  MaxRounds           \* bound: evaluations

Channel == 0 .. NUM_CHANNELS - 1

\* A visible node list holds one entry per MAC address.
NodeInfo == [channel : Channel, strength : Int]
IsNodeList(list) == IsFiniteSet(DOMAIN list) /\ list \in [DOMAIN list -> NodeInfo]
NoNodes == [a \in {} |-> 0]

ASSUME SwitchableAssumption ==
  /\ NUM_CHANNELS \in Nat
  /\ Switchable \subseteq Channel
  /\ Switchable # {}           \* asserted by the code

\* rx is the list of the server's MAC, tx the list of the client's.
ASSUME SurroundingsAssumption ==
  \A s \in Surroundings : IsNodeList(s.rx) /\ IsNodeList(s.tx)

VARIABLES
  seen,             \* the lists of the two MACs
  rxList, txList,   \* rxNodeList and txNodeList of the client
  atRx,             \* signalStrengthAtRx, dBm
  cur,              \* currentChannel
  pc,               \* where the evaluation is
  hn, cs,           \* hiddenNodeCount, csNodeCount
  i, best, lowest, tied,  \* the local variables of the two passes, best is bestChannel
  round             \* evaluations done before this one

lists == <<seen, rxList, txList, atRx>>
counts == <<hn, cs>>
locals == <<best, lowest, tied>>
vars == <<lists, counts, locals, i, cur, pc, round>>

TypeOK ==
  /\ IsNodeList(seen.rx) /\ IsNodeList(seen.tx)
  /\ IsNodeList(rxList) /\ IsNodeList(txList)
  /\ atRx \in Int
  /\ cur \in Channel
  /\ pc \in {"collect", "count", "HN", "CS", "done"}
  /\ hn \in [Channel -> Nat] /\ cs \in [Channel -> Nat]
  /\ i \in 0 .. NUM_CHANNELS
  /\ best \in Channel \cup {-1}
  /\ lowest \in Nat \cup {-1}
  /\ tied \in BOOLEAN
  /\ round \in Nat

Init ==
  /\ seen \in Surroundings
  /\ rxList = NoNodes /\ txList = NoNodes
  /\ atRx = 0
  /\ cur \in Channel
  /\ pc = "collect"
  /\ hn = [c \in Channel |-> 0] /\ cs = [c \in Channel |-> 0]
  /\ i = 0 /\ best = -1 /\ lowest = -1 /\ tied = FALSE
  /\ round = 0

-----------------------------------------------------------------------------
(* The node lists. *)

Without(list, addr) == [a \in DOMAIN list \ {addr} |-> list[a]]

\* ParseRxNodeList on the server's packet, and the client's own list as its scan
\* left it.  The client's entry in the packet says how well the server hears it.
ParseRxNodeList ==
  /\ pc = "collect"
  /\ rxList' = Without(seen.rx, TxAddr)
  /\ txList' = seen.tx
  /\ atRx' = IF TxAddr \in DOMAIN seen.rx THEN seen.rx[TxAddr].strength ELSE atRx
  /\ pc' = "count"
  /\ UNCHANGED <<seen, counts, locals, i, cur, round>>

\* NON_DB, 10^(x/10), in multiples of the power of -90 dBm and for the strengths
\* that are multiples of 3 dB: 3 dB double the power.
NonDb(strength) == IF strength < -90 THEN 0 ELSE 2 ^ ((strength + 90) \div 3)

\* sinr > hnThreshold: the server can receive the client in spite of the node.
Tolerable(info) == NonDb(atRx) > HnThreshold * (NonDb(info.strength) + Noise)

\* The client hears the node well enough to share the channel with it.
Negotiable(a) == a \in DOMAIN txList /\ txList[a].strength >= CsThreshold

\* The hidden nodes on channel c, and the nodes the client has to wait for there.
Hidden(c) ==
  {a \in DOMAIN rxList :
     rxList[a].channel = c /\ ~Negotiable(a) /\ ~Tolerable(rxList[a])}
CarrierSensed(c) ==
  {a \in DOMAIN txList : txList[a].channel = c /\ a # RxAddr /\ Negotiable(a)}

StartPass ==
  i' = 0 /\ best' = -1 /\ lowest' = -1 /\ tied' = FALSE

CountNodes ==
  /\ pc = "count"
  /\ hn' = [c \in Channel |-> Cardinality(Hidden(c))]
  /\ cs' = [c \in Channel |-> Cardinality(CarrierSensed(c))]
  /\ StartPass
  /\ pc' = "HN"
  /\ UNCHANGED <<lists, cur, round>>

-----------------------------------------------------------------------------
(* The two passes: first the fewest hidden nodes, then, if channels are tied, *)
(* the fewest carrier sensing nodes.                                          *)

\* Mutant of Consider: only other channels than the current one are candidates.
ConsiderOthers(count) ==
  \/ i \notin Switchable \ {cur} /\ UNCHANGED locals
  \/ /\ i \in Switchable \ {cur} /\ (best < 0 \/ count < lowest)
     /\ best' = i /\ lowest' = count /\ tied' = FALSE
  \/ /\ i \in Switchable \ {cur} /\ best >= 0 /\ count >= lowest
     /\ tied' = (tied \/ count = lowest) /\ UNCHANGED <<best, lowest>>

\* Mutant of Consider: the first candidate has to be better than none at all.
ConsiderNoFirst(count) ==
  \/ i \notin Switchable /\ UNCHANGED locals
  \/ /\ i \in Switchable /\ count < lowest
     /\ best' = i /\ lowest' = count /\ tied' = FALSE
  \/ /\ i \in Switchable /\ count >= lowest
     /\ tied' = (tied \/ count = lowest) /\ UNCHANGED <<best, lowest>>

\* The loop body for channel i, of which count is the number of nodes.
Consider(count) ==
  \/ i \notin Switchable /\ UNCHANGED locals
  \/ /\ i \in Switchable /\ best < 0
     /\ best' = i /\ lowest' = count /\ UNCHANGED tied
  \/ /\ i \in Switchable /\ best >= 0 /\ count < lowest
     /\ best' = i /\ lowest' = count /\ tied' = FALSE
  \/ /\ i \in Switchable /\ best >= 0 /\ count >= lowest
     /\ tied' = (tied \/ count = lowest) /\ UNCHANGED <<best, lowest>>

ConsiderHidden ==
  /\ pc = "HN" /\ i < NUM_CHANNELS
  /\ Consider(hn[i])
  /\ i' = i + 1
  /\ UNCHANGED <<lists, counts, cur, pc, round>>

ConsiderSensed ==
  /\ pc = "CS" /\ i < NUM_CHANNELS
  /\ Consider(cs[i])
  /\ i' = i + 1
  /\ UNCHANGED <<lists, counts, cur, pc, round>>

\* Both lists are dropped when the function returns.
Return(channel) ==
  /\ best' = channel
  /\ rxList' = NoNodes /\ txList' = NoNodes
  /\ pc' = "done"
  /\ UNCHANGED <<seen, atRx, counts, lowest, tied, i, cur, round>>

\* Mutant of HiddenPassEnds: the carrier sensing nodes always decide.
HiddenPassEndsUntied ==
  /\ pc = "HN" /\ i = NUM_CHANNELS
  /\ pc' = "CS" /\ StartPass /\ UNCHANGED <<lists, counts, cur, round>>

HiddenPassEnds ==
  /\ pc = "HN" /\ i = NUM_CHANNELS
  /\ \/ ~tied /\ Return(best)
     \/ tied /\ pc' = "CS" /\ StartPass /\ UNCHANGED <<lists, counts, cur, round>>

\* The second pass is over all switchable channels, the ones with more hidden
\* nodes included.
SensedPassEnds ==
  /\ pc = "CS" /\ i = NUM_CHANNELS
  /\ \/ ~tied /\ Return(best)
     \/ tied /\ Return(cur)

\* The client has changed to the channel chosen and, later, evaluates again.
NextRound ==
  /\ pc = "done" /\ round < MaxRounds
  /\ cur' = best
  /\ pc' = "collect"
  /\ round' = round + 1
  /\ UNCHANGED <<lists, counts, locals, i>>

Next ==
  \/ ParseRxNodeList
  \/ CountNodes
  \/ ConsiderHidden
  \/ ConsiderSensed
  \/ HiddenPassEnds
  \/ SensedPassEnds
  \/ NextRound

Spec == Init /\ [][Next]_vars

-----------------------------------------------------------------------------
(* Properties. *)

Fewest(count) == {c \in Switchable : \A d \in Switchable : count[c] <= count[d]}
IsSingle(set) == \E c \in set : set = {c}

\* The two passes with their tied flag compute what they are meant to: the one
\* channel with the fewest hidden nodes; when several have as few, the one with
\* the fewest carrier sensing nodes; when that is not one either, the current
\* channel.
SelectionCorrect ==
  pc = "done" =>
    IF IsSingle(Fewest(hn)) THEN Fewest(hn) = {best}
    ELSE IF IsSingle(Fewest(cs)) THEN Fewest(cs) = {best}
    ELSE best = cur

\* The client does not flap: a second evaluation of unchanged surroundings, from
\* the channel the first one chose, stays there.
Settles == pc = "done" /\ round > 0 => best = cur

\* The client never changes to a channel with more hidden nodes than another one
\* it may switch to.  True of two switchable channels; with three or more, the
\* second pass may choose a channel the first pass had ruled out.
FewestHidden ==
  pc = "done" /\ best # cur => best \in Fewest(hn)

\* The choice is a switchable channel or the current one: what the abstraction of this
\* evaluation in the protocol model, BestChannels of AsdcsClient, relies on.
BestIsCandidate == pc = "done" => best \in Switchable \cup {cur}

-----------------------------------------------------------------------------
(* What the source says of itself and does not do: it is checked to fail. *)

\* hnThreshold is a "threshold for strong hidden node in dB": a node is tolerated
\* only if the signal to interference ratio, in dB, exceeds it.
ThresholdInDb ==
  \A a \in DOMAIN rxList :
    Tolerable(rxList[a]) =>
      NonDb(atRx) > 10 ^ (HnThreshold \div 10) * (NonDb(rxList[a].strength) + Noise)
=============================================================================
