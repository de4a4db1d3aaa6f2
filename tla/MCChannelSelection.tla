------------------------- MODULE MCChannelSelection -------------------------
(***************************************************************************)
(* Surroundings for ChannelSelection: every way to place the nodes of       *)
(* Others on the switchable channels and to hear them, at each end, well,   *)
(* badly or not at all.  The two ends always see each other: the probe and  *)
(* its acknowledgement are data frames.                                     *)
(***************************************************************************)
EXTENDS ChannelSelection

CONSTANT Others   \* the addresses of the other nodes

CS_MIN_DBM == -69

Unheard == 0      \* no strength is 0 dBm here
Badly == -81      \* below CsThreshold; tolerable if the client is heard at -60
Well == -66       \* above CsThreshold; never tolerable

Placements ==
  [Others -> [channel : Switchable, rx : {Unheard, Badly, Well}, tx : {Unheard, Badly, Well}]]

\* The list of one end: the peer at strength atPeer, and the others it hears.
Seen(peer, atPeer, place, end) ==
  [a \in {peer} \cup {o \in Others : place[o][end] # Unheard} |->
     IF a = peer THEN [channel |-> 0, strength |-> atPeer]
     ELSE [channel |-> place[a].channel, strength |-> place[a][end]]]

MCSurroundings ==
  {[rx |-> Seen(TxAddr, atPeer, place, "rx"), tx |-> Seen(RxAddr, atPeer, place, "tx")] :
     atPeer \in {-60, -66}, place \in Placements}

\* PHY-CHANSWITCH-CHANNEL-MASK of the instances.
TwoChannels == {1, 2}
ThreeChannels == {1, 2, 3}
=============================================================================
