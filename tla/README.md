# Verification of the channel-switching simulator

This directory holds TLA+ models of this repository's code, the TLC configurations that check them on
small instances, and theorems about them whose proofs the TLA+ proof system (TLAPS) checks.

The repository is a fork of a network simulator. Its own logic is a set of schemes by which two 802.11
nodes agree to move to a better radio channel while they exchange data; the simulator's MAC, mesh,
network and application layers are the ground those schemes stand on, and are part of the same build.
Both are modelled: first the schemes, then what they rely on.

Paths below are relative to `src/`; `UM` stands for `libraries/user_models/src`, `W` for
`libraries/wireless/src`, `D` for `libraries/developer/src`.

## 1. The system

### The schemes of this repository

**ASDCS client** (`UM/app_chanswitch.cpp`, `AppLayerChanswitchClient`), on the node that sends the data.
State: `state` (`TX_IDLE`, `TX_PROBE_INIT`, `TX_PROBE_WFACK`, `TX_PROBING`, `TX_PROBE_WFRX`,
`TX_CHANGE_WFACK`, `TX_VERIFY_WFACK`), `got_RX_nodelist`, `currentChannel`, `nextChannel`,
`initBackoff`, `opened`, `sessionIsClosed`, the node lists, and the timers it has sent itself. One
*round*: ask the MAC for address and channel; send `PROBE_PKT`; on `PROBE_ACK` or after 100 ms scan all
channels; wait for the server's `NODE_LIST`; evaluate the channels; send `CHANGE_PKT`; on `CHANGE_ACK`
change channel and be idle; after 200 ms without one, try the new channel (`TX_VERIFY_WFACK`), after
200 ms there the old one, and so on in turn.

**ASDCS server** (same file), on the node that receives. State: `state` (`RX_IDLE`, `RX_PROBE_ACK`,
`RX_CHANGE_ACK`), `currentChannel`, `nextChannel`, two 5 ms delay timers. It answers `PROBE_PKT` with
`PROBE_ACK`, and after the delay scans and sends `NODE_LIST`; it answers `CHANGE_PKT` with `CHANGE_ACK`,
and after the delay changes channel and sends `VERIFY_ACK`. Meanwhile packets that arrive are dropped.

**Channel selection** (`ParseRxNodeList`, `EvaluateChannels`): from the nodes seen at each end, the
channel with the fewest hidden nodes, then with the fewest carrier sensing nodes.

**Requests in the MAC** (`W/mac_dot11.cpp`, `W/mac_dot11-mgmt.cpp`): scan, change channel, report address
and channel, each by a zero-delay *management timer*, of which only the newest is ever dispatched. The
MAC also keeps the *list of visible nodes* that the scans fill. It has one `connectionId`, one timer and one
scan, whatever sessions the node has.

**Queue trigger** (`D/network_ip.cpp`): an IP output queue above its threshold asks the client for a round.

**SINR switching** (`UM/app_chanswitch_sinr.cpp`): the server measures the interference on every channel
and proposes the best. **Next-channel (SIMPLE) switching** (`W/mac_dot11.cpp`): no packets of its own; the
sender moves on when its queue fills, the receiver when it hears nothing. **Pausing the video**
(`D/app_video.cpp`) while a channel is selected. **`phy_chanswitch`** (`UM/phy_chanswitch.cpp`): a radio
that can retune in the middle of anything and keeps the interference as a running sum.

### What they stand on

**Frame exchange** (DCF), **joining and roaming**, and the **802.11s mesh** of the MAC (`W/mac_dot11*.cpp`,
`W/mac_dot11s.cpp`); **IP** (`D/network_ip.cpp`): output queues, fragments, the forwarding table, the
path over a backplane, and the protocols a node runs; **`main/mac.cpp`**: the interfaces, their faults,
and the tables by which events and packets reach a MAC; **`main/application.cpp`**: the sessions of the
application file and the daemons of a node.

### How they interact

The simulator is an event queue. At a node one handler runs at a time; handlers talk by messages, many
of them with delay 0. The ASDCS application asks the MAC by such messages and is answered by them; two
nodes talk by packets that arrive only while the receiver's radio listens to the sender's channel; the
queue tells its MAC of a packet only when it was empty; the MAC drives the radio and is told of its
state. A parallel simulation has one event queue per partition of the nodes; each reads the
configuration for itself.

### What is hard, and what makes each component correct

Messages, timers and packets interleave in orders no scenario exercises: packets of ASDCS carry no round
number and its timers are never cancelled; a scan takes a node off the channel on which its packets
arrive; at a switch two nodes leave at different moments; ACKs are lost after the data was taken; a radio
is retuned in the middle of a frame; fragments, announcements and mesh frames overtake and repeat each
other; faults of an interface overlap; and several dispatch tables written by hand must agree about the
protocols of a build. `PROJECT.json` lists the hazards one by one, each at its line, with the properties
that would catch it.

| component | what makes it correct |
|---|---|
| ASDCS | idle nodes hear each other; a channel counts as agreed only if the server agreed; an accepted change completes; a round decides; nothing of an earlier round is taken for one of this |
| selection | the intended choice from the counts, stable on repetition, never to more hidden nodes |
| MAC requests | a scan probes every channel; who asked is answered; the radio is where the variables say |
| SINR, next-channel | the radios meet again, all channels are measured, changes are spaced, waits are timed |
| video, trigger | a pause ends and stops the video within a frame; a backlog is served |
| radio | the interference is what is on the air; what is received was heard whole |
| frame exchange | once and in order; who waits has a timer; no assertion fails |
| joining | tuned to the AP that is used or asked; a joined station is listed |
| mesh | both ends mean the same link; frames reach all and nobody twice; next hops lead to the portal |
| IP | a first-in first-out queue; whole datagrams; longest prefix; a packet in a queue is on its way; nothing doubled |
| set-up | the partitions agree; a session has both ends; what was begun is dispatched and ended |

## 2. Modules

`Next` of each module has one action per operation, handler or kind of event. An action of an application
is the whole handler of one message or, for received packets, of one state and packet type.

| module | models | source |
|---|---|---|
| `Dot11Mac` | the requests of ASDCS, the active scan and the radio channels, for both nodes | `W/mac_dot11.cpp`, `mac_dot11-mgmt.cpp` |
| `AsdcsLink` | the two packet streams (external) | |
| `AsdcsClient`, `AsdcsServer`, `Asdcs` | the applications and their composition with MAC and link | `UM/app_chanswitch.cpp` |
| `AsdcsStream` | the same packets as bytes that TCP cuts and joins | `UM/app_chanswitch.cpp` |
| `ChannelSelection` | parsing and evaluation, one action per loop iteration | `UM/app_chanswitch.cpp` |
| `VisibleNodes` | the AP list, the list of visible nodes and the pointer into it | `W/mac_dot11-mgmt.cpp` |
| `QueueTrigger` | queue, wake-up, trigger and the request for the address that it leads to | `D/network_ip.cpp` |
| `SharedMac` | the sessions of one node, with the fields, the timer and the scan of the MAC they share | `UM/app_chanswitch.cpp`, `W/mac_dot11.cpp`, `mac_dot11-mgmt.cpp` |
| `SinrSwitch` | both SINR applications with the interference scan | `UM/app_chanswitch_sinr.cpp` |
| `NextChannel` | SIMPLE switching at both ends, in discrete time | `W/mac_dot11.cpp` |
| `VideoPause` | the frame timers and the pause, in discrete time | `D/app_video.cpp` |
| `PhyChanSwitch` | the radio | `UM/phy_chanswitch.cpp` |
| `Dot11Dcf` | the frame exchange of several stations on one medium | `W/mac_dot11.cpp`, `mac_dot11-sta.*` |
| `StaJoin` | scan, authentication, association, resets, roaming | `W/mac_dot11-mgmt.cpp`, `mac_dot11-sta.*` |
| `MeshPeering` | the links of two mesh points | `W/mac_dot11s.cpp` |
| `MeshData`, `MeshPortal` | data frames, portal announcements | `W/mac_dot11s.cpp` |
| `PacketFifo` | what a queue promises: the abstract specification | `D/if_queue.cpp` |
| `IfQueue` | the circular array that implements it | `D/if_queue.cpp` |
| `IfQueueReplicate` | a queue replaced by another while it has packets | `D/if_queue.cpp` |
| `OutputQueues` | what a MAC is shown of, and takes from, the queues and ARP | `D/network_ip.cpp`, `main/mac.cpp` |
| `IpFragment` | fragmentation and reassembly | `D/network_ip.cpp` |
| `ForwardingTable` | rows, lookups, and faults of interfaces | `D/network_ip.cpp`, `main/mac.cpp` |
| `IpPath` | origin, backplane, forwarding, delivery, multicast | `D/network_ip.cpp` |
| `IpProtocols` | the protocols of a node: start, sharing, dispatch, end | `D/network_ip.cpp` |
| `MacSetup` | SUBNET and LINK lines, interfaces, addresses, the fault file | `main/mac.cpp` |
| `MacLayer` | the tables between a MAC, its network layer and its radio | `main/mac.cpp` |
| `AppSessions` | the application file, read by partitions and by restarting nodes | `main/application.cpp` |
| `AppLayer` | the routing daemons and applications: start, dispatch, end | `main/application.cpp` |
| `AsdcsProof`, `AsdcsNodeProof`, `ChannelSelectionProof`, `NodeProof`, `SinrProof`, `NextChannelProof`, `PhyProof`, `LinkProof` | theorems, section 6 | |
| `MCAsdcs`, `MCChannelSelection`, `MCIfQueue` | instances for TLC | |
| `MCSwitching`, `MCLink`, `MCNode`, `MCFair` | the other modules, side by side | |

### ASDCS

`Dot11Mac` is extended by `AsdcsLink`, that by the two applications, and these by `Asdcs`. What the
handlers do to each other goes through three variables:

* `pending[n]`: the zero-delay message on its way inside node `n`. There is at most one: no handler
  sends two. A node is `Quiet` when neither such a message nor a zero-delay timer is outstanding;
  only then does it handle packets and timers that take time, as the event queue does.
* `mac[n].timer`: the current management timer. Starting another one replaces it, which is what the
  comparison with `managementSequenceNumber` does to an older one.
* `c2s`, `s2c`: the packets in flight. A packet is received when it is the first of its stream and the
  receiver listens to the sender's channel (`CanHear`), at any later time: TCP keeps trying.

Timers that last equally long expire in the order they were started: those of change and verify (200 ms)
are one queue, the two delays of the server another. The backoff between rounds is at least `BackoffParts`
times 200 ms and is kept as that many parts, one after the other in the first queue; it also outlasts the
probe timer of its round. Otherwise time is not modelled; a timer may expire sooner or later than a packet
arrives. The scenarios set backoffs of 1 s and more (`BackoffParts` = 5).

Details kept because they decide what happens: the TX_IDLE case without a `break`; the assignment in the
test of the verify timeout; `ChangeInit` overwriting TX_IDLE; the client leaving its radio where the scan
ended when it has the node list already; the comparison with a constant of the wrong enumeration that
sends the client's and the server's channel change through different code; the server changing `phy` but
not `mac[Rx].channel`; `numResults` starting at 1.

History variables, read by no guard: `round`, `listRound`, the round in each packet, `probed`. The one
exception is `MaxRounds`, the bound. Signal strengths, addresses and lists do not enter the protocol:
`BestChannels` offers every switchable channel and the current one. That this covers what the evaluation
can return is a theorem of the other module (`ChoiceIsCandidate`).

### Abstractions of the others

* **External** code (TCP, propagation, the schedulers, ARP, LLC, MPLS, the bodies of routing protocols,
  of other MACs and of the simulator's applications) is modelled by what the code in `src/` relies on;
  the map marks these definitions.
* **Time** is discrete where durations decide (`NextChannel`, `VideoPause`, `IfQueue`, `IpFragment`):
  a tick passes when nothing is due. In `Dot11Dcf` a frame answered after a SIFS comes before every
  longer timer; elsewhere a timer may fire at any time after it was started.
* **Histories** (`delivered`, `got`, `waited`, `current`, and the variables named `last...` and `failed`) are
  read by no guard. `failed` collects the assertions of the code that did not hold.
* **Loops over a configuration** (`AppSessions`, `MacSetup`, `IpProtocols`, `AppLayer`) are one action per
  line, interface or protocol; a dispatch table (a `switch` with its conditional compilation) is a set of
  pairs of a case and the library it needs.

* **Sessions on one MAC** (`SharedMac`): a timer of a kind runs or does not, so one that expires may leave another
  behind; packets may arrive whenever a session takes them. Messages without delay keep their order, which
  is what decides who overtakes whom. Two clients, or a client and a server, have all pairs of requests.

Operators preceded by "Mutant of" are wrong versions of the definition that follows, used to see that a
property notices them; no specification uses them.

### The union modules

Components that share no state are explored by one run: a variable `part` is chosen by `Init`, the
variables of all other parts stay `None`, and `Next` and every property are split by `part`. A part has
its own instance (`INSTANCE M WITH ...`) with its own bounds, and some modules have several: `MCLink` has
three of `Dot11Dcf` (a lossy pair, hidden stations without and with RTS). What several parts promise alike
has one name in the union: that who waits has a timer, or that no assertion fails.

## 3. Runs

| run | parts and bounds | checks |
|---|---|---|
| `asdcs_safety` | 5 channels, {0,1,4} listenable, start on 1, mask {1,4}, 4 rounds, a backoff of 5 parts | safety of ASDCS |
| `selection_two` | 3 other nodes placed in all ways on 2 switchable channels, 2 evaluations | the selection |
| `queue_safety` | 4 messages, one twice as long, at most 4 bytes, an array of 2 that doubles | the queue, and that it implements `PacketFifo` |
| `switching` | SINR and next-channel switching on 3 channels, 3 video starts around a pause, 3 stations that move twice in 2 scans, a client and a server with triggered queues of 4, two clients (and a client and a server) with one MAC, 3 messages and 2 probe requests, lists of up to 4 nodes cut or joined, read into memory of two contents | the other schemes |
| `link` | a radio with 4 signals on 2 channels, the frame exchange of 2 and 3 stations with a retry limit of 2, a link of two mesh points with a loss, data over a ring of 4 and a triangle with a moving station, announcements over 6, a station with 2 APs | the links |
| `node` | 3-message replicas, 2 datagrams cut twice, tables of 3 rows, 2 interfaces with faults, 3 nodes in a row with looping routes, application files with each type of line alone and in pairs, set-ups of 3 nodes in 2 partitions, every MAC, a queue with each kind of frame, each protocol of IP on each kind of interface | a node |
| `fair` | nine parts, with fairness | what must happen |

`switching`, `link`, `node` and `fair` set `CHECK_DEADLOCK FALSE`, and so do the ASDCS and selection runs:
sessions close, traffic and rounds are bounded, simulations end; all those systems may really stop.

**`asdcs_safety`**

* `CommittedTogether`: an idle client is on the channel it has recorded, and its server hears it and is
  heard, or has acknowledged that channel and is about to follow;
* `AckMeansAgreed`: whenever an acknowledgement makes the client idle, its channel is the one the
  server was asked for last;
* `CurrentRound`: no packet, and no change acknowledgement, of an earlier round is ever in flight;
* `NoStrayReply`: the fall-through of TX_IDLE does no harm;
* `ScanUnderWay`: a probing client's scan is requested, running or reported; nothing has made its timer
  stale;
* `ClientTuned`: the client's radio listens to the one channel it sends on, the one its MAC believes in,
  through every scan and change;
* `ServerPhases`: the busy flag covers all of the server's activities, one at a time;
* `FirstScanCovers`: the first scan of each node probes every channel the radio can listen to, also over a
  range with a gap and across the wrap-around.

**`selection_two`**: the two passes compute the intended choice (`SelectionCorrect`), which never leads to
more hidden nodes (`FewestHidden`) and does not flap (`Settles`).

**`queue_safety`**: `TailFollowsHead`, and `ImplementsFifo`: with the array read from the head on as the
list, every step of `IfQueue` is a step of `PacketFifo`.

**`switching`**

* `RadiosMeet`, `ScansCover`: the SINR server comes back from its scan, and nothing is chosen before every
  channel was measured, there and in the initial scan of next-channel switching;
* `HeldLongEnough`: next-channel changes are spaced and follow an acknowledgement; the list given to the
  application does not change under its pointer, an AP stays one;
* `NeverStalls`: a wait for the next change and a search for the sender have their timers, the video plays
  unless paused and stops within a frame when it is;
* `AskedIsAnswered`: the only session of a node, when it waits for its address, has exactly one request
  under way, and no packet waits while the MAC sleeps; of a SINR session nothing is under way twice. With
  several sessions on one MAC no client gets another's answer (it would begin its round anew), and a request
  for the address ends in its answer unless, while the MAC serves its session, a probe request that was still
  queued restarts the timer or a later request is taken. That a request is overtaken does happen: section 4.
  A server may get the answer of a client, when it tunes its radio in between, and begins a scan;
* `ListIsTrue`: a station is counted once, on the channel it is on if it never moved, and heard stations
  are reported. As long as packets come whole, the client reads the list that was sent: nobody lost, in order,
  each strength, its own apart, and of the channels the byte that was sent. What is above that byte is whatever
  the uninitialised int held (`Leftover`, zero or not), the same for all entries, so that nodes are on one
  channel in the list if and only if they are; both ends change to the same channel all the same.

**`link`**

* `ReceptionTrue`: the running sum is the interference, the mode says whether the medium is busy, what is
  received was listened to from its start on the one channel the radio is tuned to;
* `AssertionsHold`: no assertion of radio, frame exchange or mesh fails;
* `WaitsAreTimed`: who waits, in MAC, link or join, has the timer or transmission that ends it;
* `DeliveredOnceInOrder`: the frame exchange over losses; `TriedUpToLimit`: a packet sent without RTS has
  had all its attempts when it is given up. With RTS that does not hold: the count of failed requests is
  carried over from a packet given up before;
* `LinksConsistent`: both ends mean the same link, capacity is not overstated, a station is tuned to its
  AP, which lists it;
* `MeshDelivers`: nobody gets a frame twice (`NeverTwice`) and, without losses, everybody it is for gets it
  (`AllReached`). The first needs frames that live once round the mesh (`LongLife`, see section 4);
* `PortalsFound`: next hops lead to the portal without a circle; without losses, an announcement with life left
  has reached every neighbour of whoever has it, once all is quiet.

**`node`**

* `OrderKept`: a replaced queue has its packets; what a MAC is shown is what it takes next, by index and by
  priority, and what comes up reaches its layer;
* `DatagramsWhole`: whatever is cut, repeated, reordered or lost, what is handed up is one datagram;
* `RoutesFollow`: the first match is the longest prefix of the most trusted protocol; an interface is down
  from the first fault to the last, its static routes with it, and no packet is stranded;
* `BackplaneMoves`, `UnicastOnce`: a packet in a queue is on its way and keeps its hop; no unicast packet is
  doubled, members of groups are counted;
* `SessionsWhole`: two partitions make of the files what one would, each session has both ends, the
  partitions agree on the indices and addresses of interfaces;
* `RestartIsLocal`: a CBR or SUPER-APPLICATION node that restarts creates sessions of its own only;
* `EndsWhatItBegan`: what is started is dispatched, told of packets, shared and ended, in the application,
  network and MAC layers, for each protocol that a build knows.

**`fair`** (fairness in section 5)

* `ChangeCompletes`: after the ASDCS server accepted a change the nodes meet on the new channel; a SINR
  scan ends; a next-channel sender is followed, unless its receiver listens where it does not acknowledge,
  which it may (`Followed` in section 4);
* `WaitsEnd`: the ASDCS server returns to idle whatever the network does, a round decides, a pause ends,
  a triggered client is ready again;
* `OneSidedHeals`: a client whose probe is lost stops probing; a half-open mesh link does not last while
  its holder advertises capacity;
* `EveryPacketEnds`: the stations come to rest with each packet acknowledged or given up; over routes that
  lead there each packet arrives with a TTL of just the hops.

**Why the bounds are enough.** A round of ASDCS inherits whatever the one before leaves behind (timers,
packets, channels, MAC variables), and four in a row reach every such state. The backoff is why nothing
older is left: with a single part of 200 ms four rounds do violate the invariants, since a timer of the
first is still running in the third; with two or more parts they hold. Of the five channels three can be
listened to: the fewest with which a scan passes one that is neither its start nor its end. Two next to each
other cannot, so a scan skips more than one step; one of the three lies across the wrap-around. Two
switchable channels (the shipped mask has two) allow a change there and back. Three stations give a hidden pair with its receiver. A ring of four has two paths; six mesh
points have ways of two and three hops to a node with another one behind it, so that announcements of two
sequence numbers overtake each other. Three messages
under way between two sessions put a request of either before, between and behind those of the other. Memory
that is zero or not above a byte is all that the comparisons of channels tell apart. Two datagrams cut
twice are the least with which fragments can be mixed; three rows let a longest match lie between two
shorter ones; two faults overlap. Two partitions with two nodes and one have sessions inside and across.
The configuration parts enumerate each word of the code's tables, alone and in pairs that meet. Sequence
numbers, identifiers and TTL are counted modulo or up to small bounds named in the constants.

## 4. What the code says and does not do

Five runs each state what the source says, and fail:

* `asdcs_untimed_wait`: `ChangeInit` means to be idle when the best channel is the current one; the
  state is overwritten, and the client waits for ever in TX_CHANGE_WFACK without a timer.
* `asdcs_idle_left`: the verify timeout's test is an assignment; a timer still running when the
  acknowledgement arrives takes the idle client to TX_CHANGE_WFACK and perhaps to another channel.
* `asdcs_second_scan`: after its first scan the server's radio is brought back without
  `mngmtVars->currentChannel` following; its second scan probes one channel twice and one not at all.
* `selection_more_hidden`: when channels tie for the fewest hidden nodes, the second pass considers all
  switchable channels. With two of them this cannot happen (theorem `TwoChannelsFewestHidden`).
* `selection_threshold`: a ratio of powers is compared with a threshold in dB.

More of them were met while modelling. The models keep the behaviour; where a module ends in a section
"What a comment or an assertion of the code says and its actions do not keep", its operators state these
sentences. They are refuted by TLC and listed in no run:

* `SinrSwitch`: the loop of `EvaluateChannels` does not take the least interference (`SelectsLeastInterference`);
  the verify timer is sent to the client's application and ends the program (`VerifyTimeoutHandled`); the
  client never takes a second request (`RequestsAccepted`).
* `NextChannel`: a receiver that returned listens where it does not acknowledge (`Followed`); it may return
  though it has found the sender, and early (`ReturnsOnlyInVain`, `SearchesFullTime`); data moves the radio
  during the initial scan and delay (`RxScanCovers`, `StaysOnInitialChannel`); the initial channel is the one the
  scan ended on, not the quietest (`InitialLeastInterference`).
* `VideoPause`: a resume without a pause starts a second chain of frames (`OneFrameAtATime`).
* `VisibleNodes`: the list is never cleared and is added to outside scans (`ListIsOfThisScan`, `AddedWhileScanning`).
* `QueueTrigger`: a trigger at a node without a client crashes it (`TriggerFindsClient`); only the queue that
  the packet enters is compared (`FullQueueTriggers`).
* `SharedMac`: with a second session a client that asked for its address may wait for ever (`WhoAsksIsAnswered`):
  the second request makes the timer of the first out of date, and nothing but a trigger of an idle client asks
  again. A scan is reported to whoever used the MAC last (`ListToWhoScanned`).
* `AsdcsStream`: a list that is coalesced with an acknowledgement is lost (`ListHeard`); with anything but zero
  above its byte a channel of the list is none, and its node is counted outside the array (`ChannelsRead`).
* `PhyChanSwitch`: two assertions do not hold under next-channel switching (`EndNotTransmitting`, `NoErrorAtTimer`).
* `Dot11Dcf`: an ACK for an earlier frame may be taken for the current one's (`AckedMeansDelivered`).
* `MeshPeering`: a cancel can meet an idle link (`CancelFits`); capacity that leaks stops all attempts (`AttemptsGoOn`).
* `IfQueue`, `IfQueueReplicate`: delay statistics of packets taken from the middle are another packet's
  (`DelaysAreTrue`); times are copied from the wrong entry (`TimesKept`); a suspended queue fails the assertion
  of the copy loop (`MsgIsThere`).
* `IpFragment`: expired queues take fragments until the purge finds them (`ExpiredNotUsed`).
* `ForwardingTable`: tunnels are told "down" also when the interface comes up (`TunnelFollows`).
* `IpPath`: a node forwards its own multicast packet that comes back (`OwnNotForwarded`); the backplane event
  carries the incoming interface of another packet (`IncomingOfPacket`).

Noted without a property:

* Sessions: MESSENGER on another partition leaves its server deaf; VOIP with a gatekeeper at one end only
  leaves half a call; an early `return` in CBR, VOIP and THREADED-APP skips all later lines; a restart
  re-creates other nodes' sessions for all types but CBR and SUPER-APPLICATION, for which alone
  `RestartIsLocal` is claimed; OLSRv2's case in `APP_Finalize` has no `break`.
* Set-up: a link whose ends name different protocols is not noticed; IPv6-only members of a subnet cannot
  use some radios and get no MAC with others; a replacement of an interface card changes the address
  without its link's other end; overlapping faults lose it.
* Queues: with MPLS the functions by priority overwrite the priority; a dropped packet is read with the
  headers of the default interface; on the second path without LLC and with ARP every frame goes to ARP.
* IP: a packet QOSPF has forwarded is given to MPLS as well; the case of static multicast stands in the
  unicast switch, so it is never finalised; per-node finalisers run once per interface.
* Mesh data: a copy of a broadcast with no TTL left is handed up and sent to the stations, but is not entered in
  the list of frames seen, as only `Dot11s_SendDataFrameToMesh` does that; the next copy is handed up again. With
  `TtlMax = 1` on the ring of four TLC finds a node that gets a broadcast twice. From `Cardinality(MPs) - 1`
  on it cannot happen (theorem `DataNeverTwice`).
* Joining: with active scanning an old authentication timer may cut a scan short (so `TunedToAp` is claimed
  for passive scanning only); a stale association request resets a joined station.
  `JoinGoesOn` is shown for active scanning only within the bounds of the run (one move, one loss). With two moves,
  one loss and one channel TLC finds a station stuck after 38 steps: the scan timer of a late probe replaces the join timer,
  the station, already authenticated, begins to authenticate again, and the timer of that finds its step done and
  does nothing while no request, reset or other timer is left. Scanning is active when AP probe (ASDCS) is the
  type of channel switching (`mac_dot11-mgmt.cpp:5919`) or when it is configured; the default is disabled.
* Mesh: after roaming, a station's broadcast may repeat a sequence number its new AP's neighbours have
  seen, and is dropped; the old AP keeps the station. The branch of a better metric is unreachable.
  An announcement need not come as far as its life: a mesh point that hears of it the long way round first
  drops it when it comes the short way, and repeats it for fewer hops. A timer left by an older announcement may repeat
  one whose life is used up; the receiver's `ttl--` then wraps around, and the announcement is repeated once
  more, before its hop count ends it.

## 5. Fairness

The simulator dispatches each event of its queue: weak fairness of every handler of a message or a timer,
part by part. Since one part runs, `MCFair` numbers the steps of each and asks for fairness of the `k`-th.
Opening, closing and requesting are left to the environment. In `asdcs_gaps` nothing else is assumed: the
network may lose everything. Elsewhere:

* `Delivery` and `Reply` are strongly fair: TCP retransmits, so a packet gets through if again and again the
  receiver listens on the sender's channel while the sender's MAC is not scanning. Trying two channels in
  turn makes this hold again and again, not for ever; weak fairness would not do.
* `Tick`: time passes, in the parts that have it.
* In `mesh` the beacons recur and at most one frame is lost (in the DCF, a run of lost retries); in `dcf` every
  transmission ends and each station's timers fire; in `path` the network loses nothing.

One round of ASDCS only in `fair`, for two reasons that are both in the code: in a second round a `PROBE_PKT` can
reach a server still busy with the `CHANGE_PKT` of the first (it is dropped, and `TX_PROBE_WFRX` has no
timeout), and a verify timer of the first can take the client of the second out of its state (section 4).

## 6. Proofs

`AsdcsProof` proves, for every channel range, listenable set, mask and number of rounds, from
`NodesDiffer`, `ChannelAssumption` and `ClientAssumption`:

* `TypeCorrect`: `Spec => []TypeOK`, inductive as it stands; the work is in the channel arithmetic of the
  scan and in the queues.
* `ServerPhasesHold`: `Spec => []ServerPhases`. The server node is in one of seven combinations of the
  application's state, delay timer, message, management timer, probe request and scan flag. With
  `TypeOK` this is inductive: each handler of the server or its MAC takes it from one phase to the next,
  and steps of the client's node leave it alone.
* `ServerIsSerial`: `Spec => []ServerSerial`, a consequence: each phase has one activity, the idle one none.
* `ClientIsTuned`: `Spec => []ClientTuned`, inductive together with the fact that every message and every
  request at that node is the client's own: a change asked for by the other application type would go past
  the management variables.
* `ScanIsUnderWay`: `Spec => []ScanUnderWay`. The invariant says what the client's state excludes: before
  and after a scan no change is on its way that would make the scan's management timer stale.

Its next part spans both nodes, for every number of rounds. The theorems from there on assume in addition
`BackoffParts >= 2`: rounds that are at least two timeouts of 200 ms apart, while the scenarios set five and
more. The inductive invariant `Handshake` has four parts:

* `Conversation`: in each state of the server, which packets may be in flight and which states the client may
  be in meanwhile. There are thirteen such situations; the last four are those of a probe that starts before
  the end of the last change has reached the client.
* `Contents`: what these packets carry belongs to the client's round and to the change it has in hand.
* `Timers`: the timeouts of 200 ms that are running, as a queue that the parts of the backoff separate into
  rounds. It is needed because a verify timer takes the client to `TX_CHANGE_WFACK` from any state; it
  shows that no such timer of an earlier round is left when the client has a change to lose.
* `AskingAddress`: nothing else happens at the client's node while it asks for its address.

From it follow `RoundsDoNotMix` (`Spec => []CurrentRound`), `NoReplyIsStray` (`Spec => []NoStrayReply`) and
`AckAgrees` (`Spec => AckMeansAgreed`).

The last part adds the radios: `TxChannel` and `RxChannel` are the channels they are on or about to go to,
and `Meeting` says that these are the same when the client is idle, and that of the change in hand from the
moment the server has taken it. With `ClientNode` (what is under way at the client's node in each of its
states), `ServerPhases` and `Handshake` it is inductive, and gives `NodesCommitTogether`:
`Spec => []CommittedTogether`, the property the protocol exists for.

The same module proves `FirstScanIsComplete`: `Spec => []FirstScanCovers`, for every range, gap and mask. `Covers`
says which channels lie ahead of a scan: the listenable ones not probed are the current one or within the
steps that `numResults` leaves. A scan covers all if it starts where the MAC believes the radio to be, which
no later round guarantees (section 4); `FirstRound` says what keeps this true of the first: nothing has been
asked of the server, and no timer takes the client out of its scan.

`ChannelSelectionProof` proves, for every surroundings, mask and threshold, from `SwitchableAssumption`
and `SurroundingsAssumption`:

* `SelectionIsCorrect`, with the loop invariant `PassInv` (best is a considered channel with the fewest
  nodes, and `tied` says whether there is another) for each of the passes;
* `SelectionTypeCorrect` and `ChoiceIsCandidate`: typing needs the loop invariant, because -1 stands for
  "none" until a switchable channel is met;
* `TwoChannelsFewestHidden`, from `SelectionIsCorrect`;
* `SelectionSettles`, with the further invariant `AgainInv`: the counts are a function of what has been
  seen, and after a round the current channel is an outcome of them.

`NodeProof` proves, of the queue of an interface, for every set of messages, sizes, limit and initial length, from
`QueueAssumption`:

* `IndicesConsistent`: `Spec => []TailFollowsHead`; head, tail, count and length of the circular array fit
  together through insertion, growth and the three ways to close up. The remainder is replaced by case
  distinctions first, which is what the arithmetic of the prover can follow.
* `QueueImplementsFifo`: `Spec => ImplementsFifo`. The initial states map to the empty list, and each
  step of the array to the step of the list of the same name: growing copies the contents, and closing the
  gap at any index removes just that element.
* `QueueCountsBytes` and `QueueTypes`: the bytes in use are the sum of the sizes of the packets in the array, so
  they stay between 0 and the limit. A sum over positions would be a recursive definition; `BytesAre` says
  instead that a function of partial sums exists, and `BytesAppend` and `BytesWithout` give the next one. By the
  refinement only the steps of the list have to be considered, not those of the array.
* `ReplicaKeepsOrder`: `ReplicateSpec => []OrderKept`. A queue that takes over the packets of another one has each of
  them in its place. The invariant `CopyOK` carries the partial sums of the old queue, which show that every
  packet still to be copied fits: one that was dropped would shift all that follow.

Of the forwarding table (instance `Table`), from `TableAssumption`, for every width of an address, every set of
announced prefixes, types, distances and interfaces:

* `FirstRouteIsBest`: `Spec => []LookupIsBest`. The rows are kept in the order of their masks, and among equal masks
  of their distances (`Ordered`); that this order is what the comparison of masks as numbers gives is the lemma
  `MaskGrows`: a mask of more bits is a larger number. `UpdateForwardingTable` inserts at the first row it may
  precede, so the rows stay ordered, and the first match is then the longest. `Values[bits]`, the number of
  values of so many bits, and `Without`, the rows left after a removal, are recursive functions; that they exist
  and what they return is shown by a least counterexample over the numbers.
* `FaultsAreFollowed`: `DownWhileFaulty`, `StaticRoutesFollow` and `NothingStranded`. The invariant `TableInv` says
  that `faultCount` is the number of faults that last (`FaultsOK`), which a flag would not be, and that a static
  row is disabled exactly while its interface is (`Follows`).

Of the path of packets (instance `Path`), from `PathAssumption`, for every set of nodes, interfaces, tables, limits,
losses and messages:

* `BackplaneAlwaysMoves`: a packet in a queue has the event that takes it out. The invariant (`SoundBut` with
  nothing excepted) says that a queue with packets is busy and that a busy one has the event of its first packet.
  In the middle of a handler the queue being handled is excepted, which is why the invariant has an argument.
* `UnicastNeverDoubled`: `FlowInv` adds that a packet for one interface is in at most one place (`Once`), and that a
  message not sent yet is nowhere (`Nowhere`). Each function of the code is one lemma about a packet in hand
  (`PacketSent`, `PacketRouted`, ...): it puts it in one place or drops it and leaves the others alone.
* `MembersCounted`: a count of members is the number of applications that have joined and not left.

`AsdcsNodeProof` proves what the ASDCS application has to do with the other parts of its node.

* `TriggerAsksOnce`: `Spec => []OneRequest` of `QueueTrigger`, for any number of sessions, queues and packets, from
  `TriggerAssumption`. The invariant `OnceAt` adds that nothing is under way for a session that is not waiting,
  and `Addressed` that a live timer belongs to a session, which types the reply it gives (`TriggerTypeCorrect`).
  `TriggerServesBacklog`: no packet waits while the MAC sleeps.
* `AnsweredUnlessOvertaken`: `Spec => []OwnAnswer /\ EndsInAnswer` for the instance `Shared` of `SharedMac`, any number of
  clients and servers and any bounds, from `SharedAssumption`. `OwnAnswer` is inductive because whatever the MAC
  takes from a client starts a timer, and so makes those of other sessions out of date. That a session that only
  waits does not overtake itself needs `AskedLast`: it asked after whatever else it wants from the MAC, and
  messages without delay are handled in order. `SharedInv` is the two with the types. Each action removes the
  first message, adds one at the end, or both (`SessionStep`, `Follows`), which is all the invariant looks at.
* `NodeListIsTrue` and `LentListIsStable`, for the instance `Nodes` of `VisibleNodes`, from `ListAssumption`:
  `CountedOnce`, `TrueOfTheStill` and `ScanReported`, and the action properties `ReadStable` and `NeverDemoted`. That
  the list handed over after a scan has everybody heard in it needs to say what the access points of a scan
  become when they are added one after the other (`AddAps`): a recursive function of the list of access points.
* `VideoPauseStops`, `VideoNeverStalls` and `VideoTypeCorrect`, for the instance `Playback` of `VideoPause`, every
  period, back-off and start, from `VideoAssumption`. The invariant says that timers fall due in the order
  they were started, and that no frame of a paused video is further away than its period less the pause.

`SinrProof` proves, from `SinrAssumption` and `FirstChannel \in Switchable`, for every range, mask, levels and any
order of packets, timers, scans and closes:

* `SessionStages`: a session goes through six stages. Each says what the two streams hold and in which phases
  the client (`Starting`, `Asked`, `Acknowledged`) and the server (`Before`, `Scanning`, `Deciding`, `Decided`) can be.
  During the scan the invariant counts the steps `d` from the first channel: what is measured is what lies
  before `d`. The scan therefore meets a measured channel exactly when it is back at the first.
* `SinrTypes`, `SinrRadiosMeet`, `SinrScanCovers`, `SinrOneRequest` and `SinrAckMeansAgreed` follow.

The hypothesis on the first channel is needed: the scan never visits a channel outside the mask again, so the
server would be left on another one than its client. The shipped scenarios start on a channel of the mask.

`NextChannelProof` proves, from `NextChannelAssumption`:

* `NextChannelTypes`: typing needs that the queues of timers are in the order they fall due in (`InOrder`), or
  a tick could take one below zero.
* `SenderScanCovers`: the initial scan of the sender measures every switchable channel and nothing else moves
  the radio before it is over, from any first channel. The next channel of the code is a search; that it ends,
  and which channels it passes over, is the lemma `Least` (a least step exists).
* `SenderWaitIsTimed`, `SenderChangesAreSpaced`, `ReceiverSearchIsTimed`, with the initial channel given
  (`~Initial`): one delay at most, and an idle sender has none; a receiver that searches has a return to come.
  After an initial scan they are not claimed: the delay of the scan ends the wait of a change.

`PhyProof` proves, from `PhyAssumption`, for every set of signals and channels, every power and threshold, however
signals, transmissions and retuning interleave:

* `PhyInterferenceIsSum`, `PhyWholeFrames`, `PhyTunedToOne`, `PhyAssertionsHold` under ASDCS (`~NextChannel`). The
  invariant `Tuned` says that the radio listens to its channel alone unless it transmits, and that the
  interference is then complete; without the first the second is lost at the next retuning, which is what
  happens under next-channel switching.
* `PhyTypes`, `PhySensesMedium` and `PhyEndWillCome` under both, from the weaker `Good`.

The code adds a power when a signal starts and subtracts it when it ends; the model's sum takes the signals
out of the set in an order of its own. `SumInAnyOrder` shows that the order does not matter. It is an
induction over finite sets, done by a least counterexample under strict inclusion (`LeastSubset`), which needs
no theorem with an operator for a parameter.

`LinkProof` proves of `Dot11Dcf`, from `DcfAssumption` alone (any stations, any relation of who hears whom, any traffic, losses
and retry limits, with RTS or without):

* `DcfExchange`, the inductive invariant. `Sound` ties a station's state to its packet, its timer, its PHY and the
  one frame it has on the air; `HandedUpFrom` says what has been handed up from each sender, and that it includes
  the packet in hand only if the receiver expects the next sequence number; `NotAcked` that no packet in hand has
  been acknowledged; `Awaited` that the station to which a CTS or ACK is due, or on the air, waits for it.
* `DcfDelivered` (once and in order), `DcfTimersFit`, `DcfNoStall`, `DcfAsserts`, `DcfTypes` and, without RTS,
  `DcfTried` are consequences.

Of the mesh it proves, over instances with constants of their own:

* from `MeshAssumption`, `PeerNoInvalidEvent`, `PeerWaitsAreTimed` and `PeerCapacity` of `MeshPeering`. The
  invariant `PeerInv` says that the timers of an item are exactly those of its association state, that the state
  of the neighbour fits it, that a stranger has no link begun, that who opened or confirms knows the other and
  who is confirmed to knows the sender (so `"unknown"` cannot be reported), and that the capacity accounts for
  the link. Every event of the state machine is one lemma (`IdleResult` ... `HoldingResult`) over arbitrary link
  ids, so nothing depends on the bound of ids or on how they are drawn.
* `PeerLinkIdsAgree` of `MeshPeering`: `Spec /\ []IdLeft => []LinkIdsAgree`. That two ids in use differ is the one
  thing assumed of the random draw (`IdLeft`; that `MaxId` leaves one is part of the `TypeOK` of the run). The invariant
  `IdsInv` is about both ends and the frames between them. `WireFit`: a confirm under way repeats the ids its
  sender has, or is of a link that is gone, and frames of the present link come after all older ones. `Agree`:
  if each end trusts its peer's id, or has a confirm of it under way (`Told`), both mean the same pair. The
  state machine enters as one fact about each state (`IdsOf`): it keeps the ids, draws one or gives them up.
* from `PortalAssumption` (a portal is a mesh point), `PannLeadsToPortal` of `MeshPortal`: a frame in the queue of
  a mesh point is known to it (`Repeats`), and what is known of a portal only becomes later (`Learns`).
  `PannSpreads`: `Spec => []SpreadsOn`, for any topology and any order of the repetitions. The invariant `SpreadInv`
  says that what a neighbour does not know yet is in the queue or will be when the timer fires, and that the life of an
  announcement is what its hops have left of it, which decides whether there is a timer.
* `DataNeverTwice` of `MeshData`: from `DataAssumption` and `LongLife`, `Spec => []NeverTwice`, for any links, paths,
  proxies, sources, losses, drops and moves. In the invariant `DataInv`, `EachOnce` says that a queue has of each packet at
  most one frame for the mesh and one for the stations, and `FrameOK` that its addresses are those of the packet. A
  packet for one destination is in one place only, and nobody has it yet (`OneOK`). Of a broadcast (`CastOK`), who has
  got it or has a copy for his stations is `Final`: he knows every copy left, or all his neighbours know them and have sent theirs. The
  second part is for the mesh point with one neighbour, which does not enter what it does not send on. The first holds
  because a copy's life and the number of those who know it exceed `TtlMax` together (`Lively`): whoever does not
  know a copy yet receives it with life left, and enters it if it has another neighbour. TLC checked `DataInv` on the
  meshes of the run before.

Of joining, which tunes the radio otherwise, `PhyProof` proves, from `JoinAssumption` and `ScanType # "active"`, for any access points, channels, moves of
the station and losses, `JoinNeverStuck`, `JoinTuned` and `JoinListed`. The invariant `JoinInv` says that

* the management queue holds only the request of the station's state, behind it at most the same one sent again,
  and nothing during a scan; a scan that has started has its timer;
* an answer under way answers a request that was sent, and carries the id that the access point lists;
* a reset that was put off is not forgotten before the frame in hand is done with.

It needs, as the model does, that a channel takes longer to scan than an answer waits (the guard of
`ManagementHandleTimeout`). With active scanning the first part is false: a probe left in the queue may be sent
while the station authenticates, and its scan timer then replaces that of the authentication. What comes of it is
at the end of section 4; it is why the scan type is a hypothesis here.

The union runs state these properties of the instances that they explore, under one name for several
components (`ReceptionTrue`, `WaitsAreTimed`, `ScansCover`, ...), so a theorem here proves one of the conjuncts of
such a property for all constants, and the others stay with TLC.

Only model-checked are, of `switching`, the byte streams; of `link`, joining with active scanning and that the data
frames of the mesh reach everybody (`AllReached`); of `node`, fragmentation, the set-up, the sessions, the dispatch tables and the queues as a MAC sees them. Nothing in the provers stands
against their safety, but it is not proved. Out of reach are all liveness properties, for the fairness and
`ENABLED` in them, and what a fold or a recursive function computes for every input, where a least counterexample
over numbers or finite sets does not do. The operators at the end of section 4 are false, so there is nothing to
prove.

## 7. Not modelled

* **The H.264 bitstream library** is a vendored parser; **scenarios** are data; the **GUI** and statistics
  print. The **kernel** (event queue, TCP, UDP, propagation, mobility, partitions' communication) is not in
  `src/` but for its headers; its scheduling is what interleaves the actions.
* **The bodies of the other MACs** (`mac_tdma.cpp` and those dispatched to in `mac.cpp`) and of the routing
  protocols: only their entry points are modelled.
* **802.11**: EDCA and HCCA (the QoS variants of the frames, `mac_dot11-hcca.*`, `mac_dot11-pc.*`), power save,
  ad-hoc (IBSS) beacons and ATIM windows, rate adaptation. The dispatch of received management frames is in
  headers that are not in the repository.
* **Mesh path selection** (HWMP): the active path protocol is external, a fixed next hop per destination;
  it ages and repairs paths by metrics and timers of its own, and would be a model of its own.
* **IP**: IPv6, tunnels, policy routing tables, ICMP's contents, the RED family of queues, the schedulers'
  retrieve functions (not in `src/`), DiffServ conditioners.
* **Memory errors.** Out-of-bounds reads of the evaluation (14 channels whatever the range) and of a split
  node list are modelled up to the point where they decide a value (`Leftover`, `Junk`), not beyond. A counter
  outside its array may end the program (`ChangeInit` of `AsdcsStream`); what else it may overwrite is not
  modelled, and `ChannelSelection` takes the channels as they were sent.
* In ASDCS: the statistics, a failed open, loss of a probe request, other traffic; a connection opens once.
