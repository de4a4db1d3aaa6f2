------------------------------ MODULE MCFair -------------------------------
(***************************************************************************)
(* What must eventually happen, in every part of the model that has such a   *)
(* promise, each under the fairness of its own specification.  The parts are *)
(* explored side by side: the initial state chooses the one that runs.       *)
(***************************************************************************)
EXTENDS Integers, Sequences, TLC

CONSTANT None   \* the variables of a part that is not chosen

VARIABLE part   \* the component whose steps this behaviour takes, and its instance

VARIABLES pending, mac, phy, c2s, s2c, client, server
asdcsVars == <<pending, mac, phy, c2s, s2c, client, server>>

VARIABLES sinrPending, sinrPhy, sinrScan, sinrC2s, sinrS2c, sinrClient,
          sinrServer, aborted
sinrVars == <<sinrPending, sinrPhy, sinrScan, sinrC2s, sinrS2c, sinrClient,
              sinrServer, aborted>>

VARIABLES state, nextPhy, scan, initialDelay, tx, rx, ackDue
nextVars == <<state, nextPhy, scan, initialDelay, tx, rx, ackDue>>

VARIABLES start, frames, paused, over, inbox, videoClient, since
videoVars == <<start, frames, paused, over, inbox, videoClient, since>>

VARIABLES queue, awake, triggerApp, conn, triggerPending, crashed
triggerVars == <<queue, awake, triggerApp, conn, triggerPending, crashed>>

VARIABLES sta, dcfAir, dcfRx, offered, got, acked, dcfFailed
dcfVars == <<sta, dcfAir, dcfRx, offered, got, acked, dcfFailed>>

VARIABLES nb, cap, others, wire, heard, lsTimer, missed, losses, failed
meshVars == <<nb, cap, others, wire, heard, lsTimer, missed, losses, failed>>

VARIABLES route, multicast, updates, member, app, unsent, backplane, busy,
          event, air, delivered
pathVars == <<route, multicast, updates, member, app, unsent, backplane,
              busy, event, air, delivered>>

vars == <<part, asdcsVars, sinrVars, nextVars, videoVars, triggerVars,
          dcfVars, meshVars, pathVars>>

-----------------------------------------------------------------------------
(* The instances. *)

\* Three nodes in a row, b between the others with an interface in each subnet.
MCNics == {"a1", "b1", "b2", "c2"}
MCOwner == [a1 |-> "a", b1 |-> "b", b2 |-> "b", c2 |-> "c"]
MCSubnetOf == [a1 |-> "net1", b1 |-> "net1", b2 |-> "net2", c2 |-> "net2"]

\* Next hops that lead to the destination, and some that loop or are missing.
Dest == MCNics \cup {"net1", "net2"}
Good == [x \in {"a", "b", "c"} \X Dest |->
    LET d == x[2] IN
    CASE x[1] = "a" -> <<"a1", IF d = "a1" THEN "a1" ELSE "b1">>
      [] x[1] = "c" -> <<"c2", IF d = "c2" THEN "c2" ELSE "b2">>
      [] x[1] = "b" /\ d \in {"a1", "net1"} -> <<"b1", "a1">>
      [] OTHER -> <<"b2", "c2">>]
MCSends == {[nr |-> 1, src |-> "a1", dst |-> "c2", path |-> <<>>],
            [nr |-> 2, src |-> "c2", dst |-> "a1", path |-> <<"b2", "a1">>],
            [nr |-> 3, src |-> "a1", dst |-> "AnyDest", path |-> <<>>],
            [nr |-> 4, src |-> "a1", dst |-> "net2", path |-> <<>>]}
NoApp == [x \in {} |-> ""]

\* The network delivers; the radios listen to every channel of the property range.
Session == INSTANCE Asdcs WITH
  Tx <- "tx", Rx <- "rx", BackoffParts <- 1, MaxRounds <- 1,
  NumChannels <- 3, Listenable <- {0, 1, 2}, FirstChannel <- 1,
  Switchable <- {1, 2}, AsdcsInit <- TRUE

\* The network may lose every segment; the radios can listen to part of the range
\* only, with a gap of two channels and one that the scan crosses by wrapping around;
\* the initial channel may not be switched to.
Gaps == INSTANCE Asdcs WITH
  Tx <- "tx", Rx <- "rx", BackoffParts <- 1, MaxRounds <- 1,
  NumChannels <- 6, Listenable <- {0, 3, 4}, FirstChannel <- 0,
  Switchable <- {3, 4}, AsdcsInit <- FALSE

Sinr == INSTANCE SinrSwitch WITH
  pending <- sinrPending, phy <- sinrPhy, scan <- sinrScan, c2s <- sinrC2s,
  s2c <- sinrS2c, client <- sinrClient, server <- sinrServer, Tx <- "tx",
  Rx <- "rx", NumChannels <- 3, Switchable <- {0, 1, 2}, FirstChannel <- 1,
  AsdcsInit <- TRUE, Levels <- {1, 2}

\* The shipped mask: two of the channels, not the one in between.
Follow == INSTANCE NextChannel WITH
  phy <- nextPhy, Tx <- "tx", Rx <- "rx", NumChannels <- 3,
  Switchable <- {0, 2}, FirstChannel <- 0, Initial <- FALSE, Levels <- {1},
  TxDelay <- 2, RxDisconnect <- 1, RxReturn <- 3, InitialDelay <- 2

Video == INSTANCE VideoPause WITH
  client <- videoClient, FramePeriod <- 2, Backoff <- 5, LastStart <- 8,
  MaxRequests <- 2

Trigger == INSTANCE QueueTrigger WITH
  app <- triggerApp, pending <- triggerPending, Client <- {"c1"},
  Server <- {}, NoConn <- "none", NumPriorities <- 1, Tos <- {0},
  QueueSize <- 4, Threshold <- 50, MaxPending <- 3

\* Two senders hidden from each other around a receiver.
Hidden == INSTANCE Dot11Dcf WITH
  air <- dcfAir, rx <- dcfRx, failed <- dcfFailed,
  Station <- {"a", "b", "c"}, Link <- {{"a", "b"}, {"b", "c"}},
  Dest <- ("a" :> "b") @@ ("b" :> "a") @@ ("c" :> "b"),
  Packets <- ("a" :> 1) @@ ("b" :> 1) @@ ("c" :> 1), UseRts <- FALSE,
  Noise <- FALSE, ShortRetryLimit <- 2, LongRetryLimit <- 2, SeqMod <- 4,
  NoFrame <- None

Mesh == INSTANCE MeshPeering WITH
  Capacity <- 2, RequestsMax <- 1, MaxOthers <- 0, MaxLosses <- 1,
  MaxId <- 6, MaxWire <- 1

\* Routes that lead to the destination, a time to live of just the hops, no loss.
Path == INSTANCE IpPath WITH
  Nodes <- {"a", "b", "c"}, Nics <- MCNics, Owner <- MCOwner,
  Subnets <- {"net1", "net2"}, SubnetOf <- MCSubnetOf, Groups <- {"g"},
  AnyDest <- "AnyDest", Cpu <- "Cpu", Routers <- {"a", "b"},
  Routes <- {Good}, Central <- FALSE, Unlimited <- FALSE, QueueSize <- 5,
  Lossy <- FALSE, Ttl <- 2, Sends <- MCSends, Apps <- {}, AppNode <- NoApp,
  AppGroup <- NoApp, MaxUpdates <- 0

-----------------------------------------------------------------------------
(* Only the component chosen at the start takes steps; the others stay None. *)

asdcsIdle ==
  /\ pending = None /\ mac = None /\ phy = None /\ c2s = None
  /\ s2c = None /\ client = None /\ server = None
sinrIdle ==
  /\ sinrPending = None /\ sinrPhy = None /\ sinrScan = None
  /\ sinrC2s = None /\ sinrS2c = None /\ sinrClient = None
  /\ sinrServer = None /\ aborted = None
nextIdle ==
  /\ state = None /\ nextPhy = None /\ scan = None
  /\ initialDelay = None /\ tx = None /\ rx = None /\ ackDue = None
videoIdle ==
  /\ start = None /\ frames = None /\ paused = None
  /\ over = None /\ inbox = None /\ videoClient = None /\ since = None
triggerIdle ==
  /\ queue = None /\ awake = None /\ triggerApp = None
  /\ conn = None /\ triggerPending = None /\ crashed = None
dcfIdle ==
  /\ sta = None /\ dcfAir = None /\ dcfRx = None /\ offered = None
  /\ got = None /\ acked = None /\ dcfFailed = None
meshIdle ==
  /\ nb = None /\ cap = None /\ others = None /\ wire = None
  /\ heard = None /\ lsTimer = None /\ missed = None /\ losses = None
  /\ failed = None
pathIdle ==
  /\ route = None /\ multicast = None /\ updates = None
  /\ member = None /\ app = None /\ unsent = None /\ backplane = None
  /\ busy = None /\ event = None /\ air = None /\ delivered = None

Init ==
  /\ part \in {"asdcs", "asdcs_gaps", "sinr", "next", "video", "trigger",
                 "dcf", "mesh", "path"}
  /\ CASE part = "asdcs" -> Session!Init
       [] part = "asdcs_gaps" -> Gaps!Init
       [] OTHER -> asdcsIdle
  /\ IF part = "sinr" THEN Sinr!Init ELSE sinrIdle
  /\ IF part = "next" THEN Follow!Init ELSE nextIdle
  /\ IF part = "video" THEN Video!Init ELSE videoIdle
  /\ IF part = "trigger" THEN Trigger!Init ELSE triggerIdle
  /\ IF part = "dcf" THEN Hidden!Init ELSE dcfIdle
  /\ IF part = "mesh" THEN Mesh!Init ELSE meshIdle
  /\ IF part = "path" THEN Path!Init ELSE pathIdle

asdcsRest == <<part, sinrVars, nextVars, videoVars, triggerVars, dcfVars,
               meshVars, pathVars>>
sinrRest == <<part, asdcsVars, nextVars, videoVars, triggerVars, dcfVars,
              meshVars, pathVars>>
nextRest == <<part, asdcsVars, sinrVars, videoVars, triggerVars, dcfVars,
              meshVars, pathVars>>
videoRest == <<part, asdcsVars, sinrVars, nextVars, triggerVars, dcfVars,
               meshVars, pathVars>>
triggerRest == <<part, asdcsVars, sinrVars, nextVars, videoVars, dcfVars,
                 meshVars, pathVars>>
dcfRest == <<part, asdcsVars, sinrVars, nextVars, videoVars, triggerVars,
             meshVars, pathVars>>
meshRest == <<part, asdcsVars, sinrVars, nextVars, videoVars, triggerVars,
              dcfVars, pathVars>>
pathRest == <<part, asdcsVars, sinrVars, nextVars, videoVars, triggerVars,
              dcfVars, meshVars>>

Next ==
  \/ part = "asdcs" /\ Session!Next /\ UNCHANGED asdcsRest
  \/ part = "asdcs_gaps" /\ Gaps!Next /\ UNCHANGED asdcsRest
  \/ part = "sinr" /\ Sinr!Next /\ UNCHANGED sinrRest
  \/ part = "next" /\ Follow!Next /\ UNCHANGED nextRest
  \/ part = "video" /\ Video!Next /\ UNCHANGED videoRest
  \/ part = "trigger" /\ Trigger!Next /\ UNCHANGED triggerRest
  \/ part = "dcf" /\ Hidden!Next /\ UNCHANGED dcfRest
  \/ part = "mesh" /\ Mesh!Next /\ UNCHANGED meshRest
  \/ part = "path" /\ Path!Next /\ UNCHANGED pathRest

-----------------------------------------------------------------------------
(* Fairness, part by part as in EventSpec and FairSpec of the modules.  The  *)
(* steps of a part are numbered: since only one part runs, fairness to the   *)
(* k-th step of whichever part it is says the same with fewer formulas.      *)

\* Events and timers of the simulator are handled: of ASDCS, ...
SessionStep(k) ==
  CASE k = 1 -> Session!MacStep("tx")
    [] k = 2 -> Session!MacStep("rx")
    [] k = 3 -> Session!ClientDoes(Session!ClientMACAddress)
    [] k = 4 -> Session!ClientDoes(Session!TxScanFinished)
    [] k = 5 -> Session!ClientDoes(Session!ProbeWfAckTimeout)
    [] k = 6 -> Session!ClientDoes(Session!ChangeWfAckTimeout)
    [] k = 7 -> Session!ClientDoes(Session!VerifyWfAckTimeout)
    [] k = 8 -> Session!ClientDoes(Session!BackoffPartOver \/ Session!ChannelSelectionTimeout)
    [] k = 9 -> Session!ServerDoes(Session!ServerMACAddress)
    [] k = 10 -> Session!ServerDoes(Session!RxScanFinished)
    [] k = 11 -> Session!ServerDoes(Session!RxProbeAckDelay)
    [] k = 12 -> Session!ServerDoes(Session!RxChangeAckDelay)
    [] k = 13 -> Session!ServerDoes(Session!ServerOpen)
    [] OTHER -> FALSE

\* (where the network delivers nothing: only the events)
GapsStep(k) ==
  CASE k = 1 -> Gaps!MacStep("tx")
    [] k = 2 -> Gaps!MacStep("rx")
    [] k = 3 -> Gaps!ClientDoes(Gaps!ClientMACAddress)
    [] k = 4 -> Gaps!ClientDoes(Gaps!TxScanFinished)
    [] k = 5 -> Gaps!ClientDoes(Gaps!ProbeWfAckTimeout)
    [] k = 6 -> Gaps!ClientDoes(Gaps!ChangeWfAckTimeout)
    [] k = 7 -> Gaps!ClientDoes(Gaps!VerifyWfAckTimeout)
    [] k = 8 -> Gaps!ClientDoes(Gaps!BackoffPartOver \/ Gaps!ChannelSelectionTimeout)
    [] k = 9 -> Gaps!ServerDoes(Gaps!ServerMACAddress)
    [] k = 10 -> Gaps!ServerDoes(Gaps!RxScanFinished)
    [] k = 11 -> Gaps!ServerDoes(Gaps!RxProbeAckDelay)
    [] k = 12 -> Gaps!ServerDoes(Gaps!RxChangeAckDelay)
    [] OTHER -> FALSE

\* ... of the SINR switching, the next-channel switching, the video,
SinrStep(k) ==
  CASE k = 1 -> Sinr!ClientEvent
    [] k = 2 -> Sinr!RxScanFinished \/ Sinr!MacEvent
    [] k = 3 -> Sinr!ChangeWfAckTimeout
    [] k = 4 -> Sinr!VerifyTimerMisdelivered
    [] k = 5 -> Sinr!ServerOpen
    [] OTHER -> FALSE

FollowStep(k) ==
  CASE k = 1 -> Follow!Timeout
    [] k = 2 -> Follow!Scanning
    [] k = 3 -> Follow!AckReceived \/ Follow!AckLost
    [] OTHER -> FALSE

VideoStep(k) ==
  CASE k = 1 -> Video!Deliver
    [] k = 2 -> Video!Timeout
    [] OTHER -> FALSE

\* the queue trigger, the frame exchange and the mesh, whose beacons recur,
TriggerStep(k) ==
  CASE k = 1 -> Trigger!Handlers
    [] k = 2 -> Trigger!ChannelSelectionTimeout("c1")
    [] k = 3 -> Trigger!RoundEnds("c1")
    [] OTHER -> FALSE

DcfStep(k) ==
  CASE k = 1 -> Hidden!Step("a")
    [] k = 2 -> Hidden!Step("b")
    [] k = 3 -> Hidden!Step("c")
    [] OTHER -> FALSE

MeshNode(k) == IF k % 2 = 0 THEN 1 ELSE 2
MeshStep(k) ==
  LET n == MeshNode(k) IN
  CASE k \in {1, 2} -> Mesh!TimerFires(n)
    [] k \in {3, 4} -> Mesh!ReceiveBeaconFrame(n)
    [] k \in {5, 6} -> Mesh!LinkSetupEvent(n)
    [] k \in {7, 8} -> Mesh!LinkStateEvent(n)
    [] k \in {9, 10} -> Mesh!SendLinkStateFrame(n)
    [] k \in {11, 12} -> Mesh!ReceiveAssocFrame(n)
    [] k \in {13, 14} -> Mesh!ReceiveLinkStateFrame(n)
    [] k \in {15, 16} -> Mesh!AgeItems(n)

\* and the IP path, whose backplanes finish and whose frames arrive.
PathStep(k) ==
  CASE k = 1 -> Path!Carry
    [] k \in 2 .. 8 ->
         Path!ReceiveFromBackplane(<<"a", "b", "c", "a1", "b1", "b2", "c2">>[k - 1])
    [] OTHER -> FALSE

Step(k) ==
  \/ part = "asdcs" /\ SessionStep(k) /\ UNCHANGED asdcsRest
  \/ part = "asdcs_gaps" /\ GapsStep(k) /\ UNCHANGED asdcsRest
  \/ part = "sinr" /\ ~aborted /\ SinrStep(k) /\ UNCHANGED sinrRest
  \/ part = "next" /\ FollowStep(k) /\ UNCHANGED nextRest
  \/ part = "video" /\ VideoStep(k) /\ UNCHANGED videoRest
  \/ part = "trigger" /\ TriggerStep(k) /\ UNCHANGED triggerRest
  \/ part = "dcf" /\ DcfStep(k) /\ UNCHANGED dcfRest
  \/ part = "mesh" /\ MeshStep(k) /\ UNCHANGED meshRest
  \/ part = "path" /\ PathStep(k) /\ UNCHANGED pathRest

\* What the receiver can again and again hear, its sender not being in a scan, is
\* delivered; time passes.
Delivery ==
  \/ /\ part = "asdcs" /\ Session!ClientDoes(Session!ClientReceives)
     /\ ~mac["rx"].scanStarted /\ UNCHANGED asdcsRest
  \/ part = "sinr" /\ ~aborted /\ Sinr!ChangePktReceived /\ UNCHANGED sinrRest
  \/ part = "next" /\ Follow!DataReceived /\ UNCHANGED nextRest

Reply ==
  \/ /\ part = "asdcs" /\ Session!ServerDoes(Session!ServerReceives)
     /\ ~mac["tx"].scanStarted /\ UNCHANGED asdcsRest
  \/ part = "sinr" /\ ~aborted /\ Sinr!ServerReceives /\ UNCHANGED sinrRest
  \/ part = "next" /\ Follow!AckReceived /\ UNCHANGED nextRest

Tick ==
  \/ part = "next" /\ Follow!Tick /\ UNCHANGED nextRest
  \/ part = "video" /\ Video!Tick /\ UNCHANGED videoRest

Spec ==
  /\ Init /\ [][Next]_vars
  /\ \A k \in 1 .. 16 : WF_vars(Step(k))
  /\ SF_vars(Delivery) /\ SF_vars(Reply) /\ SF_vars(Tick)

ASSUME Assumptions ==
  /\ Sinr!SinrAssumption /\ Follow!NextChannelAssumption /\ Video!VideoAssumption
  /\ Trigger!TriggerAssumption /\ Hidden!DcfAssumption /\ Mesh!MeshAssumption
  /\ Path!PathAssumption

-----------------------------------------------------------------------------
\* A state of the part p.
In(p, P) == part = p /\ P

Closed == client.closed \/ server.closed
Met == client.state = "TX_IDLE" /\ phy["tx"].tx = server.next /\ phy["rx"].tx = server.next

\* A change that was begun is completed.  Once the ASDCS server has accepted one the
\* two nodes meet on the new channel, by the acknowledgement or by trying the channels
\* in turn.  A scan that reached the SINR server ends, or the late acknowledgement
\* ends the program.  A sender that went to the next channel is followed by a
\* receiver that had data before, unless that one listens to a channel on which it
\* does not acknowledge.
ChangeCompletes ==
  \/ In("asdcs", server.state = "RX_CHANGE_ACK")
  \/ In("sinr", sinrServer.state = "RX_SCANNING")
  \/ In("next", state["tx"] = "TX_CHANGED" /\ ~rx.first)
  ~>
  \/ In("asdcs", Met \/ Closed)
  \/ In("sinr", sinrServer.state = "RX_S_IDLE" \/ aborted \/ sinrClient.closed \/ sinrServer.closed)
  \/ In("next", state["tx"] = "N_IDLE" \/ nextPhy["rx"].listening # {nextPhy["rx"].tx})

\* No state that waits lasts for ever.  The ASDCS server comes back to RX_IDLE
\* whatever the network does, and where it delivers a probing round reaches a
\* decision, the probe or its acknowledgement late or not.  The video plays on after
\* a pause, and a client that the queue trigger opened is ready for the next request,
\* unless a request finds no client and the node crashes.
WaitsEnd ==
  \/ In("asdcs_gaps", server.state # "RX_IDLE")
  \/ In("asdcs", client.state = "TX_PROBE_WFACK")
  \/ In("video", paused)
  \/ In("trigger", triggerApp["c1"].opened)
  ~>
  \/ In("asdcs_gaps", server.state = "RX_IDLE")
  \/ In("asdcs", client.state = "TX_CHANGE_WFACK" \/ Closed)
  \/ In("video", ~paused)
  \/ In("trigger", Trigger!Idle("c1") \/ crashed)

\* What only one side still believes does not last.  A client whose probe the network
\* loses stops probing; a mesh link that one end holds and the other lost does not
\* last while the holder advertises capacity.
OneSidedHeals ==
  \/ In("asdcs_gaps", client.state = "TX_PROBING")
  \/ In("mesh", \E n \in Mesh!Nodes : Mesh!HalfOpen(n))
  ~>
  \/ In("asdcs_gaps", client.state # "TX_PROBING")
  \/ In("mesh", \A n \in Mesh!Nodes : ~Mesh!HalfOpen(n) \/ cap[n] <= 0)

\* Once the network layer offers no more, every station comes to rest, each packet
\* acknowledged or given up; over routes that lead to it every packet reaches the
\* nodes it is for.
AtRest ==
  /\ part = "dcf" => \A n \in {"a", "b", "c"} : ~sta[n].has /\ sta[n].state = "IDLE"
  /\ part = "path" => \A send \in MCSends \ unsent : Path!Arrived(send)
EveryPacketEnds == <>[]AtRest
=============================================================================
