------------------------------ MODULE MCLink -------------------------------
(***************************************************************************)
(* The radio, the frame exchange and the mesh links of a station on small   *)
(* instances, explored side by side: the initial state chooses the part     *)
(* whose steps the behaviour takes.                                         *)
(***************************************************************************)
EXTENDS Integers, Sequences, TLC

CONSTANT None   \* the variables of a part that is not chosen; no frame, no channel

VARIABLE part   \* the component whose steps this behaviour takes, and its instance

VARIABLES phy, channel, started, phyHeard, waits, alert, sent, retunes,
          phyFailed
phyVars == <<phy, channel, started, phyHeard, waits, alert, sent, retunes,
             phyFailed>>

VARIABLES sta, air, rx, offered, got, acked, dcfFailed
dcfVars == <<sta, air, rx, offered, got, acked, dcfFailed>>

VARIABLES nb, cap, others, wire, heard, lsTimer, missed, losses, failed
meshVars == <<nb, cap, others, wire, heard, lsTimer, missed, losses, failed>>

VARIABLES mp, stations, dataHome, dataGot, dataSent, roams
dataVars == <<mp, stations, dataHome, dataGot, dataSent, roams>>

VARIABLES pannQueue, pannItem, pannTimers, portalSeqNo
pannVars == <<pannQueue, pannItem, pannTimers, portalSeqNo>>

VARIABLES joinSta, listed, joinHeard, dropped, joinAnswers, joinLevel,
          joinMoves, joinLosses, joinFailed
joinVars == <<joinSta, listed, joinHeard, dropped, joinAnswers, joinLevel,
              joinMoves, joinLosses, joinFailed>>

vars == <<part, phyVars, dcfVars, meshVars, dataVars, pannVars, joinVars>>

-----------------------------------------------------------------------------
(* The instances. *)

\* Signals that can be received and, in between, signals that are too weak: one of
\* them is not noticed, two are sensed.
Strength(i) == IF i % 2 = 1 THEN 3 ELSE 1

\* A pair of stations, and two senders hidden from each other around a receiver.
PairDest == ("a" :> "b") @@ ("b" :> "a")
BothWays == ("a" :> 2) @@ ("b" :> 1)
HiddenPair == {{"a", "b"}, {"b", "c"}}
HiddenDest == PairDest @@ ("c" :> "b")
HiddenTraffic == BothWays @@ ("c" :> 1)

\* A ring of four mesh points, all but one of them portals, d the proxy of x.
Both(R) == R \cup {<<x[2], x[1]>> : x \in R}
Ring == Both({<<"a", "b">>, <<"b", "c">>, <<"c", "d">>, <<"d", "a">>})
RingHomes == {("s" :> "a") @@ ("t" :> "a") @@ ("u" :> "c")}
RingAt == ("s" :> "a") @@ ("t" :> "a") @@ ("u" :> "c") @@ ("x" :> "d") @@ ("any" :> "a")
          @@ [p \in {"a", "b", "c", "d"} |-> p]
RingNext == [x \in {"a", "b", "c", "d"} \X DOMAIN RingAt |->
    LET to == RingAt[x[2]] IN
    CASE x[1] = to -> None
      [] <<x[1], to>> \in Ring /\ x # <<"c", "x">> -> to
      [] x = <<"c", "x">> -> "b"
      [] x[1] = "d" /\ to = "b" -> "c"
      [] x[1] = "b" /\ to = "d" -> "a"
      [] OTHER -> "b"]
RingSends == {<<"s", "any">>, <<"a", "any">>, <<"b", "any">>, <<"s", "u">>, <<"s", "t">>, <<"s", "x">>,
  <<"b", "x">>, <<"u", "b">>, <<"c", "a">>, <<"s", "a">>, <<"a", "t">>, <<"c", "x">>, <<"u", "x">>, <<"u", "any">>}

\* A triangle without portals, whose station moves.
Triangle == Both({<<"a", "b">>, <<"b", "c">>, <<"a", "c">>})
TriangleNext == [x \in {"a", "b", "c"} \X {"a", "b", "c", "s", "any"} |->
    CASE x[1] = x[2] -> None [] x[2] = "s" -> "a" [] OTHER -> x[2]]
TriangleSends == {<<"s", "any">>, <<"c", "any">>, <<"b", "s">>}
NoProxy == [x \in {} |-> ""]

\* Two ways from a to d, of two and of three hops, and one more mesh point behind d.
Detour == Both({<<"a", "b">>, <<"b", "d">>, <<"a", "c">>, <<"c", "e">>, <<"e", "d">>, <<"d", "f">>})

\* Four signals under ASDCS, and three when the MAC runs next-channel switching.
Radio == INSTANCE PhyChanSwitch WITH
  heard <- phyHeard, failed <- phyFailed, Channels <- {"c1", "c2"},
  Signals <- 1 .. 4, PowerOf <- [i \in 1 .. 4 |-> Strength(i)],
  NoisePower <- 1, Sensitivity <- 2, NextChannel <- FALSE, MaxSent <- 2,
  MaxRetunes <- 3

NextRadio == INSTANCE PhyChanSwitch WITH
  heard <- phyHeard, failed <- phyFailed, Channels <- {"c1", "c2"},
  Signals <- 1 .. 3, PowerOf <- [i \in 1 .. 3 |-> Strength(i)],
  NoisePower <- 1, Sensitivity <- 2, NextChannel <- TRUE, MaxSent <- 1,
  MaxRetunes <- 2

\* A pair that loses frames, and the hidden senders without and with RTS.
Pair == INSTANCE Dot11Dcf WITH
  failed <- dcfFailed, Station <- {"a", "b"}, Link <- {{"a", "b"}},
  Dest <- PairDest, Packets <- BothWays, UseRts <- FALSE, Noise <- TRUE,
  ShortRetryLimit <- 2, LongRetryLimit <- 2, SeqMod <- 4, NoFrame <- None

Hidden == INSTANCE Dot11Dcf WITH
  failed <- dcfFailed, Station <- {"a", "b", "c"}, Link <- HiddenPair,
  UseRts <- FALSE, Dest <- HiddenDest, Packets <- HiddenTraffic,
  Noise <- FALSE, ShortRetryLimit <- 2, LongRetryLimit <- 2, SeqMod <- 4,
  NoFrame <- None

Rts == INSTANCE Dot11Dcf WITH
  failed <- dcfFailed, Station <- {"a", "b", "c"}, Link <- HiddenPair,
  UseRts <- TRUE, Dest <- HiddenDest, Packets <- HiddenTraffic,
  Noise <- FALSE, ShortRetryLimit <- 2, LongRetryLimit <- 2, SeqMod <- 4,
  NoFrame <- None

\* A pair of mesh points, and one with links to others.
Mesh == INSTANCE MeshPeering WITH
  Capacity <- 1, RequestsMax <- 1, MaxOthers <- 0, MaxLosses <- 1,
  MaxId <- 8, MaxWire <- 2

Others == INSTANCE MeshPeering WITH
  Capacity <- 1, RequestsMax <- 2, MaxOthers <- 1, MaxLosses <- 1,
  MaxId <- 8, MaxWire <- 1

\* Data frames: without losses around a ring, with losses and a station that moves.
RingData == INSTANCE MeshData WITH
  home <- dataHome, got <- dataGot, sent <- dataSent,
  MPs <- {"a", "b", "c", "d"}, MAPs <- {"a", "c"},
  Portals <- {"b", "c", "d"}, Stations <- {"s", "t", "u"}, AnyMac <- "any",
  NoHop <- None, Links <- Ring, InRange <- Ring \cup Both({<<"a", "c">>}),
  Homes <- RingHomes, NextHop <- RingNext, ProxyOf <- ("x" :> "d"),
  TtlMax <- 4, SeqLimit <- 8, HandUp <- FALSE, Lossy <- FALSE,
  Sends <- RingSends, MaxSends <- 2, MaxRoams <- 0

RoamData == INSTANCE MeshData WITH
  home <- dataHome, got <- dataGot, sent <- dataSent, MPs <- {"a", "b", "c"},
  MAPs <- {"a", "c"}, Portals <- {}, Stations <- {"s"}, AnyMac <- "any",
  NoHop <- None, Links <- Triangle, InRange <- Triangle,
  Homes <- {"s" :> "a"}, NextHop <- TriangleNext, ProxyOf <- NoProxy,
  TtlMax <- 3, SeqLimit <- 8, HandUp <- TRUE, Lossy <- TRUE,
  Sends <- TriangleSends, MaxSends <- 2, MaxRoams <- 1

\* Portal announcements: without losses over six mesh points, with losses over three.
Pann == INSTANCE MeshPortal WITH
  queue <- pannQueue, item <- pannItem, timers <- pannTimers,
  seqNo <- portalSeqNo, MPs <- {"a", "b", "c", "d", "e", "f"}, Portals <- {"a"},
  Links <- Detour, InRange <- Detour \cup Both({<<"b", "c">>}), NoHop <- None,
  TtlMax <- 3, Lossy <- FALSE, MaxSeq <- 2

LostPann == INSTANCE MeshPortal WITH
  queue <- pannQueue, item <- pannItem, timers <- pannTimers,
  seqNo <- portalSeqNo, MPs <- {"a", "b", "c"}, Portals <- {"a", "b"},
  Links <- Triangle, InRange <- Triangle, NoHop <- None, TtlMax <- 3,
  Lossy <- TRUE, MaxSeq <- 1

\* A station that joins: it moves among two access points, one of which has a station
\* already; or frames are lost; or the only access point is found by active scanning.
RoamJoin == INSTANCE StaJoin WITH
  sta <- joinSta, heard <- joinHeard, answers <- joinAnswers,
  level <- joinLevel, moves <- joinMoves, losses <- joinLosses,
  failed <- joinFailed, APs <- {"p", "q"},
  ChannelOf <- ("p" :> 0) @@ ("q" :> 1),
  Taken <- ("p" :> {1}) @@ ("q" :> {}), ScanType <- "passive",
  MaxAnswers <- 0, MaxMoves <- 2, MaxLosses <- 0, NumChannels <- 3,
  Foreign <- {}, NoAp <- None, Levels <- {0, 1, 3}, Threshold <- 2,
  MissedMax <- 0, MaxAid <- 2

LossyJoin == INSTANCE StaJoin WITH
  sta <- joinSta, heard <- joinHeard, answers <- joinAnswers,
  level <- joinLevel, moves <- joinMoves, losses <- joinLosses,
  failed <- joinFailed, APs <- {"p", "q"},
  ChannelOf <- ("p" :> 0) @@ ("q" :> 1),
  Taken <- ("p" :> {1}) @@ ("q" :> {}), ScanType <- "passive",
  MaxAnswers <- 0, MaxMoves <- 1, MaxLosses <- 1, NumChannels <- 3,
  Foreign <- {}, NoAp <- None, Levels <- {0, 1, 3}, Threshold <- 2,
  MissedMax <- 0, MaxAid <- 2

ActiveJoin == INSTANCE StaJoin WITH
  sta <- joinSta, heard <- joinHeard, answers <- joinAnswers,
  level <- joinLevel, moves <- joinMoves, losses <- joinLosses,
  failed <- joinFailed, APs <- {"q"}, ChannelOf <- "q" :> 1,
  Taken <- "q" :> {}, ScanType <- "active", MaxAnswers <- 1, MaxMoves <- 1,
  MaxLosses <- 1, NumChannels <- 3, Foreign <- {}, NoAp <- None,
  Levels <- {0, 1, 3}, Threshold <- 2, MissedMax <- 0, MaxAid <- 2

FixedJoin == INSTANCE StaJoin WITH
  sta <- joinSta, heard <- joinHeard, answers <- joinAnswers,
  level <- joinLevel, moves <- joinMoves, losses <- joinLosses,
  failed <- joinFailed, APs <- {"p"}, ChannelOf <- "p" :> 0,
  Taken <- "p" :> {1, 2}, ScanType <- "disabled", MaxAnswers <- 1,
  MaxMoves <- 1, MaxLosses <- 1, NumChannels <- 3, Foreign <- {},
  NoAp <- None, Levels <- {0, 1, 3}, Threshold <- 2, MissedMax <- 0,
  MaxAid <- 2

ForeignJoin == INSTANCE StaJoin WITH
  sta <- joinSta, heard <- joinHeard, answers <- joinAnswers,
  level <- joinLevel, moves <- joinMoves, losses <- joinLosses,
  failed <- joinFailed, APs <- {"p", "q"},
  ChannelOf <- ("p" :> 0) @@ ("q" :> 1),
  Taken <- ("p" :> {1}) @@ ("q" :> {}), ScanType <- "active",
  MaxAnswers <- 0, MaxMoves <- 0, MaxLosses <- 0, NumChannels <- 3,
  Foreign <- {"p"}, NoAp <- None, Levels <- {0, 1, 3}, Threshold <- 2,
  MissedMax <- 0, MaxAid <- 2

-----------------------------------------------------------------------------
(* Only the component chosen at the start takes steps; the others stay None. *)

phyIdle ==
  /\ phy = None /\ channel = None /\ started = None
  /\ phyHeard = None /\ waits = None /\ alert = None /\ sent = None
  /\ retunes = None /\ phyFailed = None
dcfIdle ==
  /\ sta = None /\ air = None /\ rx = None /\ offered = None
  /\ got = None /\ acked = None /\ dcfFailed = None
meshIdle ==
  /\ nb = None /\ cap = None /\ others = None /\ wire = None
  /\ heard = None /\ lsTimer = None /\ missed = None /\ losses = None
  /\ failed = None
dataIdle ==
  /\ mp = None /\ stations = None /\ dataHome = None
  /\ dataGot = None /\ dataSent = None /\ roams = None
pannIdle ==
  /\ pannQueue = None /\ pannItem = None /\ pannTimers = None
  /\ portalSeqNo = None
joinIdle ==
  /\ joinSta = None /\ listed = None /\ joinHeard = None
  /\ dropped = None /\ joinAnswers = None /\ joinLevel = None
  /\ joinMoves = None /\ joinLosses = None /\ joinFailed = None

Init ==
  /\ part \in {"phy", "phy_next", "dcf", "dcf_hidden", "dcf_rts", "mesh",
                 "mesh_others", "mesh_ring", "mesh_roam", "mesh_pann",
                 "mesh_pann_lost", "join_roam", "join_lossy", "join_active",
                 "join_fixed", "join_foreign"}
  /\ CASE part = "phy" -> Radio!Init
       [] part = "phy_next" -> NextRadio!Init
       [] OTHER -> phyIdle
  /\ CASE part = "dcf" -> Pair!Init
       [] part = "dcf_hidden" -> Hidden!Init
       [] part = "dcf_rts" -> Rts!Init
       [] OTHER -> dcfIdle
  /\ CASE part = "mesh" -> Mesh!Init
       [] part = "mesh_others" -> Others!Init
       [] OTHER -> meshIdle
  /\ CASE part = "mesh_ring" -> RingData!Init
       [] part = "mesh_roam" -> RoamData!Init
       [] OTHER -> dataIdle
  /\ CASE part = "mesh_pann" -> Pann!Init
       [] part = "mesh_pann_lost" -> LostPann!Init
       [] OTHER -> pannIdle
  /\ CASE part = "join_roam" -> RoamJoin!Init
       [] part = "join_lossy" -> LossyJoin!Init
       [] part = "join_active" -> ActiveJoin!Init
       [] part = "join_fixed" -> FixedJoin!Init
       [] part = "join_foreign" -> ForeignJoin!Init
       [] OTHER -> joinIdle

phyRest == <<part, dcfVars, meshVars, dataVars, pannVars, joinVars>>
dcfRest == <<part, phyVars, meshVars, dataVars, pannVars, joinVars>>
meshRest == <<part, phyVars, dcfVars, dataVars, pannVars, joinVars>>
dataRest == <<part, phyVars, dcfVars, meshVars, pannVars, joinVars>>
pannRest == <<part, phyVars, dcfVars, meshVars, dataVars, joinVars>>
joinRest == <<part, phyVars, dcfVars, meshVars, dataVars, pannVars>>

Next ==
  \/ part = "phy" /\ Radio!Next /\ UNCHANGED phyRest
  \/ part = "phy_next" /\ NextRadio!Next /\ UNCHANGED phyRest
  \/ part = "dcf" /\ Pair!Next /\ UNCHANGED dcfRest
  \/ part = "dcf_hidden" /\ Hidden!Next /\ UNCHANGED dcfRest
  \/ part = "dcf_rts" /\ Rts!Next /\ UNCHANGED dcfRest
  \/ part = "mesh" /\ Mesh!Next /\ UNCHANGED meshRest
  \/ part = "mesh_others" /\ Others!Next /\ UNCHANGED meshRest
  \/ part = "mesh_ring" /\ RingData!Next /\ UNCHANGED dataRest
  \/ part = "mesh_roam" /\ RoamData!Next /\ UNCHANGED dataRest
  \/ part = "mesh_pann" /\ Pann!Next /\ UNCHANGED pannRest
  \/ part = "mesh_pann_lost" /\ LostPann!Next /\ UNCHANGED pannRest
  \/ part = "join_roam" /\ RoamJoin!Next /\ UNCHANGED joinRest
  \/ part = "join_lossy" /\ LossyJoin!Next /\ UNCHANGED joinRest
  \/ part = "join_active" /\ ActiveJoin!Next /\ UNCHANGED joinRest
  \/ part = "join_fixed" /\ FixedJoin!Next /\ UNCHANGED joinRest
  \/ part = "join_foreign" /\ ForeignJoin!Next /\ UNCHANGED joinRest

Spec == Init /\ [][Next]_vars

ASSUME Assumptions ==
  /\ Radio!PhyAssumption /\ NextRadio!PhyAssumption
  /\ Pair!DcfAssumption /\ Hidden!DcfAssumption /\ Rts!DcfAssumption
  /\ Mesh!MeshAssumption /\ Others!MeshAssumption
  /\ Pann!PortalAssumption /\ LostPann!PortalAssumption
  /\ RingData!DataAssumption /\ RingData!LongLife /\ RoamData!DataAssumption /\ RoamData!LongLife
  /\ RoamJoin!JoinAssumption /\ LossyJoin!JoinAssumption /\ ActiveJoin!JoinAssumption
  /\ FixedJoin!JoinAssumption /\ ForeignJoin!JoinAssumption

-----------------------------------------------------------------------------
(* The properties of each part, where it is the one that runs.  What is said *)
(* of several parts is the same promise made by each.                        *)

\* The interference, which is added to and subtracted from at every start, end and
\* change of channel, is the power of the other signals on the channel; the mode of
\* the radio says whether the medium is busy; and what is received has been listened
\* to since it began, on one channel, the only one that the radio listens to.
ReceptionTrue ==
  /\ part = "phy" => /\ Radio!InterferenceIsSum /\ Radio!SensesMedium
                     /\ Radio!WholeFrames /\ Radio!TunedToOne
  /\ part = "phy_next" => NextRadio!SensesMedium

\* No assertion of the radio and of the frame exchange fails, and the mesh state
\* machine meets no event it calls invalid, whatever is lost, late or simultaneous;
\* and a join is never called complete by a station that is not associated.
AssertionsHold ==
  /\ part = "phy" => Radio!AssertionsHold
  /\ part \in {"dcf_hidden", "dcf_rts"} => Hidden!AssertionsHold
  /\ part \in {"mesh", "mesh_others"} => Mesh!NoInvalidEvent
  /\ part = "join_roam" => RoamJoin!NoJoinError
  /\ part = "join_lossy" => LossyJoin!NoJoinError
  /\ part = "join_active" => ActiveJoin!NoJoinError

\* Who waits has the timer or the transmission under way that ends the wait: the
\* MAC for the PHY, a station for its peer or for the medium, a link for its peer, and
\* a station that wants to join for its access point.
WaitsAreTimed ==
  /\ part = "phy" => Radio!EndWillCome
  /\ part = "phy_next" => NextRadio!EndWillCome
  /\ part = "dcf" => Pair!TimersFitStates
  /\ part = "dcf_hidden" => Hidden!NoStall
  /\ part = "dcf_rts" => Rts!NoStall
  /\ part = "mesh" => Mesh!WaitsAreTimed
  /\ part = "join_roam" => RoamJoin!JoinGoesOn
  /\ part = "join_lossy" => LossyJoin!JoinGoesOn
  /\ part = "join_active" => ActiveJoin!JoinGoesOn
  /\ part = "join_fixed" => FixedJoin!JoinGoesOn
  /\ part = "join_foreign" => ForeignJoin!JoinGoesOn

\* Whatever is lost and repeated, packets are handed up once and in order.
DeliveredOnceInOrder ==
  /\ part = "dcf" => Pair!DeliveredOnceInOrder
  /\ part = "dcf_rts" => Rts!DeliveredOnceInOrder

\* A packet is given up only after it was tried as often as the limit says.
TriedUpToLimit == [][part = "dcf" => Pair!TriedStep]_vars

\* Two mesh points that both took the link as established mean the same link, and
\* an advertised peer capacity never counts a link that is in use as free.  A station
\* listens to the channel of the access point that it uses or asks, and the access
\* point it has joined lists it, under its own id.
LinksConsistent ==
  /\ part = "mesh" => Mesh!LinkIdsAgree /\ Mesh!CapacityNotOverstated
  /\ part = "mesh_others" => Others!CapacityNotOverstated
  /\ part = "join_roam" => RoamJoin!TunedToAp /\ RoamJoin!JoinedIsListed
  /\ part = "join_lossy" => LossyJoin!TunedToAp /\ LossyJoin!JoinedIsListed

\* A packet that enters the mesh is handed to nobody twice and, if nothing is lost and
\* no station moves, to everybody it is for, over whatever paths its copies go round.
MeshDelivers ==
  /\ part = "mesh_ring" => RingData!NeverTwice /\ RingData!AllReached
  /\ part = "mesh_roam" => RoamData!NeverTwice

\* The next hops towards a portal lead there and not in a circle, while announcements
\* are under way or lost as well; without losses each who has one with
\* life left brings it to all its neighbours.
PortalsFound ==
  /\ part = "mesh_pann" => Pann!LeadsToPortal /\ Pann!SpreadsOn
  /\ part = "mesh_pann_lost" => LostPann!LeadsToPortal
=============================================================================
