---------------------------- MODULE MCSwitching ----------------------------
(***************************************************************************)
(* The components around the ASDCS protocol on small instances.  They share *)
(* no state, so one run explores them side by side: the initial state        *)
(* chooses the part whose steps the behaviour takes.                         *)
(***************************************************************************)
EXTENDS Integers, Sequences

CONSTANT None   \* the variables of a part that is not chosen

VARIABLE part   \* the component whose steps this behaviour takes, and its instance

VARIABLES sinrPending, sinrPhy, sinrScan, sinrC2s, sinrS2c, sinrClient,
          sinrServer, aborted
sinrVars == <<sinrPending, sinrPhy, sinrScan, sinrC2s, sinrS2c, sinrClient,
              sinrServer, aborted>>

VARIABLES state, phy, scan, initialDelay, tx, rx, ackDue
nextVars == <<state, phy, scan, initialDelay, tx, rx, ackDue>>

VARIABLES start, frames, paused, over, inbox, videoClient, since
videoVars == <<start, frames, paused, over, inbox, videoClient, since>>

VARIABLES at, tuned, left, apList, visible, given, current, moved, moves,
          scans
nodesVars == <<at, tuned, left, apList, visible, given, current, moved,
               moves, scans>>

VARIABLES queue, awake, app, conn, pending, crashed
triggerVars == <<queue, awake, app, conn, pending, crashed>>

VARIABLES shareApp, timers, sharePending, shareConn, probes, dwell
shareVars == <<shareApp, timers, sharePending, shareConn, probes, dwell>>

VARIABLES client, read, server, c2s, s2c, writes, rounds
streamVars == <<client, read, server, c2s, s2c, writes, rounds>>

vars == <<part, sinrVars, nextVars, videoVars, nodesVars, triggerVars,
          shareVars, streamVars>>

-----------------------------------------------------------------------------
(* The instances. *)

\* Node lists of the server for AsdcsStream: none to four nodes, with and without
\* the client itself; a byte counts to three, so the longest needs a second byte.
Entry(a, c, p) == [addr |-> a, channel |-> c, strength |-> p]
NodeA == Entry("n1", 1, 3)
NodeB == Entry("n2", 0, 2)
Own == Entry("tx", 1, 5)
Lists == {<<>>, <<Own>>, <<NodeB, NodeA>>, <<NodeA, Own, NodeB>>, <<NodeA, NodeB, Own, NodeA>>}

\* Three channels, all switchable, with two levels of interference.
Sinr == INSTANCE SinrSwitch WITH
  pending <- sinrPending, phy <- sinrPhy, scan <- sinrScan, c2s <- sinrC2s,
  s2c <- sinrS2c, client <- sinrClient, server <- sinrServer, Tx <- "tx",
  Rx <- "rx", NumChannels <- 3, Switchable <- {0, 1, 2}, FirstChannel <- 1,
  AsdcsInit <- FALSE, Levels <- {1, 2}

\* The proportions of the shipped times, the initial channel given.
Follow == INSTANCE NextChannel WITH
  Tx <- "tx", Rx <- "rx", NumChannels <- 3, Switchable <- {0, 1, 2},
  FirstChannel <- 0, Initial <- FALSE, Levels <- {1}, TxDelay <- 4,
  RxDisconnect <- 2, RxReturn <- 6, InitialDelay <- 2

\* The initial channel selected by measuring all three.
Select == INSTANCE NextChannel WITH
  Tx <- "tx", Rx <- "rx", NumChannels <- 3, Switchable <- {0, 1, 2},
  FirstChannel <- 0, Initial <- TRUE, Levels <- {1}, TxDelay <- 2,
  RxDisconnect <- 1, RxReturn <- 3, InitialDelay <- 2

\* The video starts before, during and after the first pause.
Video == INSTANCE VideoPause WITH
  client <- videoClient, FramePeriod <- 2, Backoff <- 5, LastStart <- 8,
  MaxRequests <- 2

\* Two access points and a station that move twice between and during two scans.
Nodes == INSTANCE VisibleNodes WITH
  NumChannels <- 2, Station <- {"s1", "s2", "s3"},
  AccessPoint <- {"s1", "s2"}, Home <- 1, MaxMoves <- 2, MaxScans <- 2

\* A node with a client, and a node with a server only.
Trigger == INSTANCE QueueTrigger WITH
  Client <- {"c1"}, Server <- {}, NoConn <- "none", NumPriorities <- 2,
  Tos <- {0, 1, 5}, QueueSize <- 4, Threshold <- 50, MaxPending <- 3

ServerNode == INSTANCE QueueTrigger WITH
  Client <- {}, Server <- {"s1"}, NoConn <- "none", NumPriorities <- 2,
  Tos <- {0, 1, 5}, QueueSize <- 4, Threshold <- 50, MaxPending <- 3

\* Two clients of one node, and a client and a server of one node.
Clients == INSTANCE SharedMac WITH
  app <- shareApp, pending <- sharePending, conn <- shareConn, Client <- {"c1", "c2"},
  Server <- {}, NoConn <- "none", MaxPending <- 3, MaxProbes <- 2

Both == INSTANCE SharedMac WITH
  app <- shareApp, pending <- sharePending, conn <- shareConn, Client <- {"c1"},
  Server <- {"s1"}, NoConn <- "none", MaxPending <- 3, MaxProbes <- 2

\* Packets that come one by one, and packets handed up together.
Whole == INSTANCE AsdcsStream WITH
  TxAddr <- "tx", Channels <- {0, 1}, Base <- 3, MaxSegment <- 8,
  Coalesce <- FALSE, Leftover <- {0, 1}, MaxRounds <- 2

Together == INSTANCE AsdcsStream WITH
  TxAddr <- "tx", Channels <- {0, 1}, Base <- 3, MaxSegment <- 20,
  Coalesce <- TRUE, Leftover <- {0, 1}, MaxRounds <- 2

-----------------------------------------------------------------------------
(* Only the component chosen at the start takes steps; the others stay None. *)

sinrIdle ==
  /\ sinrPending = None /\ sinrPhy = None /\ sinrScan = None
  /\ sinrC2s = None /\ sinrS2c = None /\ sinrClient = None
  /\ sinrServer = None /\ aborted = None
nextIdle ==
  /\ state = None /\ phy = None /\ scan = None
  /\ initialDelay = None /\ tx = None /\ rx = None /\ ackDue = None
videoIdle ==
  /\ start = None /\ frames = None /\ paused = None
  /\ over = None /\ inbox = None /\ videoClient = None /\ since = None
nodesIdle ==
  /\ at = None /\ tuned = None /\ left = None /\ apList = None
  /\ visible = None /\ given = None /\ current = None /\ moved = None
  /\ moves = None /\ scans = None
triggerIdle ==
  /\ queue = None /\ awake = None /\ app = None /\ conn = None
  /\ pending = None /\ crashed = None
shareIdle ==
  /\ shareApp = None /\ timers = None /\ sharePending = None
  /\ shareConn = None /\ probes = None /\ dwell = None
streamIdle ==
  /\ client = None /\ read = None /\ server = None
  /\ c2s = None /\ s2c = None /\ writes = None /\ rounds = None

Init ==
  /\ part \in {"sinr", "next", "next_initial", "video", "nodes", "trigger",
                 "trigger_server", "clients", "client_server", "stream", "stream_coalesced"}
  /\ IF part = "sinr" THEN Sinr!Init ELSE sinrIdle
  /\ CASE part = "next" -> Follow!Init
       [] part = "next_initial" -> Select!Init
       [] OTHER -> nextIdle
  /\ IF part = "video" THEN Video!Init ELSE videoIdle
  /\ IF part = "nodes" THEN Nodes!Init ELSE nodesIdle
  /\ CASE part = "trigger" -> Trigger!Init
       [] part = "trigger_server" -> ServerNode!Init
       [] OTHER -> triggerIdle
  /\ CASE part = "clients" -> Clients!Init
       [] part = "client_server" -> Both!Init
       [] OTHER -> shareIdle
  /\ CASE part = "stream" -> Whole!Init
       [] part = "stream_coalesced" -> Together!Init
       [] OTHER -> streamIdle

sinrRest == <<part, nextVars, videoVars, nodesVars, triggerVars, shareVars, streamVars>>
nextRest == <<part, sinrVars, videoVars, nodesVars, triggerVars, shareVars, streamVars>>
videoRest == <<part, sinrVars, nextVars, nodesVars, triggerVars, shareVars, streamVars>>
nodesRest == <<part, sinrVars, nextVars, videoVars, triggerVars, shareVars, streamVars>>
triggerRest == <<part, sinrVars, nextVars, videoVars, nodesVars, shareVars, streamVars>>
shareRest == <<part, sinrVars, nextVars, videoVars, nodesVars, triggerVars, streamVars>>
streamRest == <<part, sinrVars, nextVars, videoVars, nodesVars, triggerVars, shareVars>>

Next ==
  \/ part = "sinr" /\ Sinr!Next /\ UNCHANGED sinrRest
  \/ part = "next" /\ Follow!Next /\ UNCHANGED nextRest
  \/ part = "next_initial" /\ Select!Next /\ UNCHANGED nextRest
  \/ part = "video" /\ Video!Next /\ UNCHANGED videoRest
  \/ part = "nodes" /\ Nodes!Next /\ UNCHANGED nodesRest
  \/ part = "trigger" /\ Trigger!Next /\ UNCHANGED triggerRest
  \/ part = "trigger_server" /\ ServerNode!Next /\ UNCHANGED triggerRest
  \/ part = "clients" /\ Clients!Next /\ UNCHANGED shareRest
  \/ part = "client_server" /\ Both!Next /\ UNCHANGED shareRest
  \/ part = "stream" /\ Whole!Next /\ UNCHANGED streamRest
  \/ part = "stream_coalesced" /\ Together!Next /\ UNCHANGED streamRest

Spec == Init /\ [][Next]_vars

ASSUME Assumptions ==
  /\ Sinr!SinrAssumption /\ Follow!NextChannelAssumption /\ Select!NextChannelAssumption
  /\ Video!VideoAssumption /\ Nodes!ListAssumption
  /\ Trigger!TriggerAssumption /\ ServerNode!TriggerAssumption
  /\ Clients!SharedAssumption /\ Both!SharedAssumption
  /\ Whole!StreamAssumption /\ Together!StreamAssumption

-----------------------------------------------------------------------------
(* The properties of each part, where it is the one that runs.  What is said *)
(* of several parts is the same promise made by each.                        *)

\* Outside a scan the two radios of a SINR session hear each other: the scan
\* brings the server back to the channel the client stayed on.
RadiosMeet == part = "sinr" => Sinr!RadiosMeet /\ Sinr!ScanEndsWhereItBegan

\* A channel is chosen only after every switchable one has been measured, by the
\* SINR server and by the initial scan of next-channel switching; and nothing else
\* moves the radio of the sender before its scan is over.
ScansCover ==
  /\ part = "sinr" => Sinr!ChoiceAfterFullScan
  /\ part = "next_initial" => Select!TxScanCovers

\* Nothing is undone too early.  The sender of next-channel switching changes at most
\* once per delay, and not before the receiver has acknowledged something on the
\* channel of the last change.  The list that the MAC has given to the application
\* does not change before it is evaluated, and an access point in it stays one.
HeldLongEnough ==
  [][/\ part = "next" => Follow!SpacedStep
     /\ part = "nodes" => Nodes!ReadStable /\ Nodes!NeverDemoted]_vars

\* A wait for the next change and a search for the sender have the timer that ends
\* them, however data, acknowledgements and timers are interleaved; a video that is
\* not paused goes on, and one that is paused stops within a frame.
NeverStalls ==
  /\ part = "next" => Follow!WaitIsTimed /\ Follow!SearchIsTimed
  /\ part = "video" => Video!NeverStalls /\ Video!PauseStops

\* Who asks the MAC is answered.  The only session of a node, when it waits for its
\* MAC address, has exactly one request, timer or answer under way, however many
\* packets of one instant pull the trigger; and no packet waits while the MAC sleeps.
\* A SINR session has nothing of a second request under way either.  Of several
\* sessions, which share the fields of the MAC, no client gets the answer of another,
\* and a request ends in its answer unless the MAC, serving its session, goes on with
\* a scan or takes a later request.
AskedIsAnswered ==
  /\ [](/\ part = "sinr" => Sinr!OneRequest
        /\ part = "trigger" =>
             Trigger!AskedIsAnswered /\ Trigger!OneRequest /\ Trigger!BacklogIsServed
        /\ part = "trigger_server" => ServerNode!AskedIsAnswered /\ ServerNode!OneRequest
        /\ part = "clients" => Clients!OwnAnswer
        /\ part = "client_server" => Both!OwnAnswer)
  /\ [][/\ part = "clients" => Clients!AnswerStep
       /\ part = "client_server" => Both!AnswerStep]_vars

\* The list of visible nodes counts a station once, says of one that never moved
\* where it is, and has everyone heard in the scan it is handed over after.  As long
\* as packets come whole, the client reads the list the server sent, whatever the
\* memory held in which it puts the channels together; both ends change to the same
\* channel, and the server knows every packet even when several come at once.
ListIsTrue ==
  /\ part = "nodes" => Nodes!CountedOnce /\ Nodes!TrueOfTheStill /\ Nodes!ScanReported
  /\ part = "stream" => Whole!ListAsSent /\ Whole!ChangesAgree
  /\ part \in {"stream", "stream_coalesced"} => Whole!KnownPackets
=============================================================================
