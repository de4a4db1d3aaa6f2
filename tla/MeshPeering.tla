---------------------------- MODULE MeshPeering ----------------------------
(***************************************************************************)
(* Peer links of two 802.11s mesh points (mac_dot11s.cpp): beacons make    *)
(* candidates, the link setup timer opens a link, opens, confirms and      *)
(* closes go through one state machine per neighbour, a link state frame   *)
(* keeps a link up and the maintenance timer closes one that went silent.  *)
(*                                                                         *)
(* Links to further mesh points only show in the capacity that a beacon    *)
(* advertises.  Frames of a pair keep their order and may be lost, as the  *)
(* acknowledged unicasts of the DCF are when retries run out.              *)
(***************************************************************************)
EXTENDS Integers, Sequences, FiniteSets

CONSTANTS
    Capacity,      \* DOT11s_PEER_CAPACITY_MAX
    RequestsMax,   \* DOT11s_ASSOC_REQUESTS_MAX
    MaxOthers,     \* bound: links a node may have to further neighbours
    MaxLosses,     \* bound: frames or acknowledgements lost in a behaviour
    MaxId,         \* bound: link ids
    MaxWire        \* bound: frames of links under way when a node starts one

MeshAssumption ==
    /\ {Capacity, RequestsMax, MaxId, MaxWire} \subseteq Nat \ {0}
    /\ {MaxOthers, MaxLosses} \subseteq Nat

VARIABLES
    nb,       \* DOT11s_NeighborItem of the other node
    cap,      \* mp->peerCapacity
    others,   \* links to nodes outside of the pair
    wire,     \* frames under way, by sender
    heard,    \* lastBeaconTime is within DOT11s_LINK_SETUP_TIMER
    lsTimer,  \* MSG_MAC_DOT11s_LinkStateFrameTimeout is pending
    missed,   \* no link state frame since a loss
    losses,
    failed    \* the ERROR_ReportError or ERROR_Assert that ended the program

vars == <<nb, cap, others, wire, heard, lsTimer, missed, losses, failed>>

Nodes == {1, 2}
Peer(n) == 3 - n
Ids == 0 .. MaxId

Down == {"SUPERORDINATE_LINK_DOWN", "SUBORDINATE_LINK_DOWN"}
Up == {"SUPERORDINATE_LINK_UP", "SUBORDINATE_LINK_UP"}
NeighborStates ==
    {"NO_CAPABILITY", "CANDIDATE_PEER", "ASSOC_PENDING"} \union Down \union Up
AssocStates == {"IDLE", "LISTEN", "OPEN_SENT", "CONFIRM_RECEIVED",
                "CONFIRM_SENT", "ESTABLISHED", "HOLDING"}
Timers == {"RETRY_TIMEOUT", "OPEN_TIMEOUT", "CANCEL_TIMEOUT"}
Errors == {"none", "timer", "cancel", "open", "unknown"}

Frame(type, item) == [type |-> type, linkId |-> item.linkId,
                      peerLinkId |-> item.peerLinkId]

FreshItem == [known |-> FALSE, assoc |-> "IDLE", state |-> "NO_CAPABILITY",
              linkId |-> 0, peerLinkId |-> 0, retries |-> 0, timers |-> {}]

\* A random link id; two ids in use at one time are taken to differ.
UsedIds ==
    (UNION {{nb[n].linkId, nb[n].peerLinkId} : n \in Nodes}) \union
    (UNION {UNION {{wire[n][i].linkId, wire[n][i].peerLinkId}
                     : i \in DOMAIN wire[n]} : n \in Nodes})
GetRandomLinkId ==
    CHOOSE i \in 1 .. MaxId :
        i \notin UsedIds /\ \A j \in 1 .. i - 1 : j \in UsedIds

-----------------------------------------------------------------------------
(* One event of the state machine yields the new item, the frames it       *)
(* sends, the change of the capacity and the error it reports.             *)

Quiet(item) == [item |-> item, out |-> <<>>, cap |-> 0, err |-> "none"]
Report(item, e) == [Quiet(item) EXCEPT !.err = e]

Request(item) == Frame("open", [item EXCEPT !.peerLinkId = 0])
Confirm(item) == Frame("confirm", item)
Close(item) == Frame("close", item)

\* Dot11sAssoc_SetState to HOLDING, after the frames of out.
Hold(item, out) ==
    [Quiet([item EXCEPT !.assoc = "HOLDING", !.state = "NO_CAPABILITY",
                        !.timers = (@ \ {"RETRY_TIMEOUT", "OPEN_TIMEOUT"})
                                     \union {"CANCEL_TIMEOUT"}])
        EXCEPT !.out = out]

CloseAndHold(item) == Hold(item, <<Close(item)>>)

\* Dot11sAssoc_SetState to IDLE; the timer handles are forgotten, not cancelled.
ToIdle(item) ==
    Quiet([item EXCEPT !.assoc = "IDLE", !.linkId = 0, !.peerLinkId = 0,
                       !.retries = 0])

\* A request is sent or a confirm answered: count, start the retry timer, wait.
Await(item, out, s) ==
    [Quiet([item EXCEPT !.assoc = s, !.state = "ASSOC_PENDING",
                        !.retries = @ + 1, !.timers = @ \union {"RETRY_TIMEOUT"}])
        EXCEPT !.out = out]

\* Dot11sAssoc_SetState to ESTABLISHED.
Establish(n, item, out) ==
    [Quiet([item EXCEPT
        !.assoc = "ESTABLISHED",
        !.timers = @ \ {"RETRY_TIMEOUT", "OPEN_TIMEOUT"},
        !.state = IF Peer(n) > n THEN "SUPERORDINATE_LINK_DOWN"
                                 ELSE "SUBORDINATE_LINK_DOWN"])
        EXCEPT !.out = out, !.cap = -1]

IsValidLinkOpen(item, e) == item.peerLinkId \in {0, e.peerLinkId}

\* Mutant of IsValidLinkClose: the zero ids of a refusal match no link.
IsValidLinkCloseExact(item, e) ==
    e.linkId = item.linkId /\ e.peerLinkId = item.peerLinkId

IsValidLinkClose(item, e) ==
    /\ e.linkId \in {0, item.linkId}
    /\ e.peerLinkId \in {0, item.peerLinkId}

\* Mutant of IsValidLinkConfirm: a confirm of any link is valid.
IsValidLinkConfirmAny(item, e) == e.type = "confirm" \/ item.linkId = e.linkId

IsValidLinkConfirm(item, e) ==
    IsValidLinkOpen(item, e) /\ item.linkId = e.linkId

IdleState(item, e) ==
    CASE e.type = "ACTIVE_OPEN" ->
            LET i == [item EXCEPT !.linkId = GetRandomLinkId]
            IN  Await(i, <<Request(i)>>, "OPEN_SENT")
      [] e.type = "PASSIVE_OPEN" ->
            Quiet([item EXCEPT !.linkId = GetRandomLinkId, !.assoc = "LISTEN"])
      [] e.type = "CANCEL_LINK" -> Report(item, "cancel")
      [] e.type \in Timers -> Report(item, "timer")
      [] OTHER -> Quiet(item)

ListenState(item, e) ==
    CASE e.type = "CANCEL_LINK" -> ToIdle(item)
      [] e.type = "ACTIVE_OPEN" -> Await(item, <<Request(item)>>, "OPEN_SENT")
      [] e.type = "open" ->
            LET i == [item EXCEPT !.peerLinkId = e.peerLinkId]
            IN  IF IsValidLinkOpen(item, e)
                THEN Await(i, <<Request(i), Confirm(i)>>, "CONFIRM_SENT")
                ELSE CloseAndHold([i EXCEPT !.linkId = 0])
      [] e.type \in Timers -> Report(item, "timer")
      [] OTHER -> Quiet(item)

Retry(item, last) ==
    IF item.retries < RequestsMax
    THEN Await(item, <<Request(item)>>, item.assoc)
    ELSE CloseAndHold(last)

OpenSentState(item, e) ==
    LET stopped == [item EXCEPT !.timers = @ \ {"RETRY_TIMEOUT"}]
        met == [stopped EXCEPT !.peerLinkId = e.peerLinkId]
    IN  CASE e.type = "CANCEL_LINK" ->
                CloseAndHold([item EXCEPT !.linkId = 0])
          [] e.type \in {"ACTIVE_OPEN", "PASSIVE_OPEN"} -> Report(item, "open")
          [] e.type = "close" ->
                IF IsValidLinkClose(item, e)
                THEN Hold([item EXCEPT !.linkId = e.linkId,
                                       !.peerLinkId = e.peerLinkId], <<>>)
                ELSE Quiet(item)
          [] e.type = "open" ->
                IF IsValidLinkOpen(item, e)
                THEN Await(met, <<Confirm(met)>>, "CONFIRM_SENT")
                ELSE CloseAndHold([met EXCEPT !.linkId = 0])
          [] e.type = "confirm" ->
                IF IsValidLinkConfirm(item, e)
                THEN [Quiet([met EXCEPT !.assoc = "CONFIRM_RECEIVED",
                                        !.timers = @ \union {"OPEN_TIMEOUT"}])
                        EXCEPT !.out = <<Confirm(met)>>]
                ELSE CloseAndHold(met)
          [] e.type = "RETRY_TIMEOUT" ->
                Retry(item, [item EXCEPT !.linkId = 0])
          [] OTHER -> Report(item, "timer")

ConfirmReceivedState(n, item, e) ==
    CASE e.type \in {"CANCEL_LINK", "OPEN_TIMEOUT"} -> CloseAndHold(item)
      [] e.type \in {"ACTIVE_OPEN", "PASSIVE_OPEN"} -> Report(item, "open")
      [] e.type = "close" /\ IsValidLinkClose(item, e) -> CloseAndHold(item)
      [] e.type = "open" /\ IsValidLinkOpen(item, e) ->
            Establish(n, item, <<Confirm(item)>>)
      [] OTHER -> Quiet(item)

ConfirmSentState(n, item, e) ==
    CASE e.type = "CANCEL_LINK" -> CloseAndHold(item)
      [] e.type \in {"ACTIVE_OPEN", "PASSIVE_OPEN"} -> Report(item, "open")
      [] e.type = "close" ->
            IF IsValidLinkClose(item, e) THEN CloseAndHold(item) ELSE Quiet(item)
      [] e.type = "open" ->
            [Quiet(item) EXCEPT !.out = IF IsValidLinkOpen(item, e)
                                        THEN <<Confirm(item)>> ELSE <<>>]
      [] e.type = "confirm" ->
            IF IsValidLinkConfirm(item, e) THEN Establish(n, item, <<>>)
                                           ELSE CloseAndHold(item)
      [] e.type = "RETRY_TIMEOUT" -> Retry(item, item)
      [] OTHER -> Report(item, "timer")

\* The close that a peer asked for does not give the capacity back.
EstablishedState(item, e) ==
    CASE e.type = "CANCEL_LINK" -> [CloseAndHold(item) EXCEPT !.cap = 1]
      [] e.type \in {"ACTIVE_OPEN", "PASSIVE_OPEN"} -> Report(item, "open")
      [] e.type = "close" ->
            IF IsValidLinkClose(item, e) THEN CloseAndHold(item) ELSE Quiet(item)
      [] e.type = "open" ->
            [Quiet(item) EXCEPT !.out = IF IsValidLinkOpen(item, e)
                                        THEN <<Confirm(item)>> ELSE <<>>]
      [] e.type = "confirm" -> Quiet(item)
      [] OTHER -> Report(item, "timer")

HoldingState(item, e) ==
    CASE e.type \in {"open", "confirm"} ->
            [Quiet(item) EXCEPT !.out = IF IsValidLinkOpen(item, e)
                                        THEN <<>> ELSE <<Close(item)>>]
      [] e.type = "CANCEL_TIMEOUT" ->
            ToIdle([item EXCEPT !.state = "NO_CAPABILITY"])
      [] e.type \in {"RETRY_TIMEOUT", "OPEN_TIMEOUT"} -> Report(item, "timer")
      [] OTHER -> Quiet(item)

AssocStateFn(n, item, e) ==
    CASE item.assoc = "IDLE" -> IdleState(item, e)
      [] item.assoc = "LISTEN" -> ListenState(item, e)
      [] item.assoc = "OPEN_SENT" -> OpenSentState(item, e)
      [] item.assoc = "CONFIRM_RECEIVED" -> ConfirmReceivedState(n, item, e)
      [] item.assoc = "CONFIRM_SENT" -> ConfirmSentState(n, item, e)
      [] item.assoc = "ESTABLISHED" -> EstablishedState(item, e)
      [] item.assoc = "HOLDING" -> HoldingState(item, e)

Event(type) == [type |-> type, linkId |-> 0, peerLinkId |-> 0]

-----------------------------------------------------------------------------
(* Actions.  A node sets up or repeats a link while fewer than MaxWire     *)
(* frames of links are under way; it answers whatever comes.               *)

Running == failed = "none"
Stated(n) == {i \in DOMAIN wire[n] : wire[n][i].type = "linkstate"}
Setup(n) == Len(wire[n]) - Cardinality(Stated(n))
Ready == Running /\ Setup(1) + Setup(2) < MaxWire

\* The item of n takes effect r; the other direction becomes back.
Apply(n, r, back) ==
    /\ nb' = [nb EXCEPT ![n] = r.item]
    /\ cap' = [cap EXCEPT ![n] = @ + r.cap]
    /\ wire' = [wire EXCEPT ![n] = @ \o r.out, ![Peer(n)] = back]
    /\ failed' = r.err

TimerFires(n) ==
    \E t \in nb[n].timers :
        /\ Ready
        /\ Apply(n, AssocStateFn(n, [nb[n] EXCEPT !.timers = @ \ {t}], Event(t)),
                 wire[Peer(n)])
        /\ UNCHANGED <<others, heard, lsTimer, missed, losses>>

\* A beacon of the peer, with the capacity that is left to it.
ReceiveBeaconFrame(n) ==
    LET item == [nb[n] EXCEPT !.known = TRUE]
        left == cap[Peer(n)]
    IN  /\ Running
        /\ heard' = [heard EXCEPT ![n] = TRUE]
        /\ Apply(n,
             CASE left <= 0 /\ item.state = "CANDIDATE_PEER" ->
                    AssocStateFn(n, [item EXCEPT !.state = "NO_CAPABILITY"],
                                 Event("CANCEL_LINK"))
               [] left > 0 /\ item.state = "NO_CAPABILITY" ->
                    AssocStateFn(n, [item EXCEPT !.state = "CANDIDATE_PEER"],
                                 Event("PASSIVE_OPEN"))
               [] OTHER -> Quiet(item),
             wire[Peer(n)])
        /\ UNCHANGED <<others, lsTimer, missed, losses>>

\* MSG_MAC_DOT11s_LinkSetupTimer; its period is that of the beacons it wants.
LinkSetupEvent(n) ==
    /\ Ready
    /\ heard[n]
    /\ heard' = [heard EXCEPT ![n] = FALSE]
    /\ Apply(n, IF nb[n].state = "CANDIDATE_PEER"
                THEN AssocStateFn(n, nb[n], Event("ACTIVE_OPEN"))
                ELSE Quiet(nb[n]),
             wire[Peer(n)])
    /\ UNCHANGED <<others, lsTimer, missed, losses>>

\* MSG_MAC_DOT11s_LinkStateTimer: the delayed frame of a subordinate neighbour.
LinkStateEvent(n) ==
    /\ Running
    /\ nb[n].state \in {"SUBORDINATE_LINK_DOWN", "SUBORDINATE_LINK_UP"}
    /\ ~lsTimer[n]
    /\ lsTimer' = [lsTimer EXCEPT ![n] = TRUE]
    /\ UNCHANGED <<nb, cap, others, wire, heard, missed, losses, failed>>

SendLinkStateFrame(n) ==
    /\ Running
    /\ lsTimer[n]
    /\ Stated(n) = {}
    /\ lsTimer' = [lsTimer EXCEPT ![n] = FALSE]
    /\ wire' = IF nb[n].state \in Down \union Up
               THEN [wire EXCEPT ![n] = Append(@, Event("linkstate"))] ELSE wire
    /\ UNCHANGED <<nb, cap, others, heard, missed, losses, failed>>

\* Dot11s_ReceiveMgmtUnicast: an association frame from m.
ReceiveAssocFrame(m) ==
    LET n == Peer(m)
        frame == Head(wire[m])
        event == [type |-> frame.type, linkId |-> frame.peerLinkId,
                  peerLinkId |-> frame.linkId]
        item == IF nb[n].known THEN nb[n]
                ELSE [nb[n] EXCEPT !.known = TRUE, !.state = "CANDIDATE_PEER"]
    IN  /\ wire[m] # <<>>
        /\ frame.type # "linkstate"
        /\ Running
        /\ Apply(n,
             CASE frame.type = "open" \/ nb[n].known -> AssocStateFn(n, item, event)
               [] frame.type = "close" /\ ~nb[n].known -> Quiet(nb[n])
               [] OTHER -> Report(nb[n], "unknown"),
             Tail(wire[m]))
        /\ UNCHANGED <<others, heard, lsTimer, missed, losses>>

\* A link state frame of m, and the acknowledgement that m may miss.
ReceiveLinkStateFrame(m) ==
    LET n == Peer(m)
        up == [nb EXCEPT ![n].state =
                 IF @ = "SUPERORDINATE_LINK_DOWN" THEN "SUPERORDINATE_LINK_UP"
                                                  ELSE @]
        acked == [up EXCEPT ![m].state =
                 IF @ = "SUBORDINATE_LINK_DOWN" THEN "SUBORDINATE_LINK_UP" ELSE @]
    IN  /\ Running
        /\ wire[m] # <<>>
        /\ Head(wire[m]).type = "linkstate"
        /\ wire' = [wire EXCEPT ![m] = Tail(@)]
        /\ \/ /\ nb' = acked
              /\ missed' = [missed EXCEPT
                    ![n] = @ /\ up[n].state # "SUPERORDINATE_LINK_UP",
                    ![m] = FALSE]
              /\ UNCHANGED losses
           \/ /\ losses < MaxLosses
              /\ losses' = losses + 1
              /\ nb' = up
              /\ missed' = [missed EXCEPT
                    ![n] = @ /\ up[n].state # "SUPERORDINATE_LINK_UP",
                    ![m] = TRUE]
        /\ UNCHANGED <<cap, others, heard, lsTimer, failed>>

\* The DCF gives a frame of m up.
Lose(m) ==
    /\ Running
    /\ wire[m] # <<>>
    /\ losses < MaxLosses
    /\ losses' = losses + 1
    /\ wire' = [wire EXCEPT ![m] = Tail(@)]
    /\ missed' = IF Head(wire[m]).type = "linkstate"
                 THEN [n \in Nodes |-> TRUE] ELSE missed
    /\ UNCHANGED <<nb, cap, others, heard, lsTimer, failed>>

\* No link state frame refreshed lastLinkStateTime for DOT11s_ASSOC_ACTIVE_TIMEOUT:
\* frames were lost, or the peer sends none.
Silent(n) ==
    \/ missed[n]
    \/ /\ nb[n].state = "SUPERORDINATE_LINK_UP"
       /\ nb[Peer(n)].state \notin {"SUBORDINATE_LINK_DOWN", "SUBORDINATE_LINK_UP"}
       /\ Stated(Peer(n)) = {}

\* Dot11sNeighborList_AgeItems, every second.
AgeItems(n) ==
    /\ Running
    /\ nb[n].state \in Up
    /\ Silent(n)
    /\ missed' = [missed EXCEPT ![n] = FALSE]
    /\ Apply(n, AssocStateFn(n, nb[n], Event("CANCEL_LINK")), wire[Peer(n)])
    /\ UNCHANGED <<others, heard, lsTimer, losses>>

\* A link to a further neighbour is established or cancelled.
OtherLink(n) ==
    /\ Running
    /\ \E d \in {-1, 1} :
        /\ others[n] - d \in 0 .. MaxOthers
        /\ others' = [others EXCEPT ![n] = @ - d]
        /\ cap' = [cap EXCEPT ![n] = @ + d]
    /\ UNCHANGED <<nb, wire, heard, lsTimer, missed, losses, failed>>

Init ==
    /\ nb = [n \in Nodes |-> FreshItem]
    /\ cap = [n \in Nodes |-> Capacity]
    /\ others = [n \in Nodes |-> 0]
    /\ wire = [n \in Nodes |-> <<>>]
    /\ heard = [n \in Nodes |-> FALSE]
    /\ lsTimer = [n \in Nodes |-> FALSE]
    /\ missed = [n \in Nodes |-> FALSE]
    /\ losses = 0
    /\ failed = "none"

Next ==
    \E n \in Nodes :
        \/ TimerFires(n)
        \/ ReceiveBeaconFrame(n)
        \/ LinkSetupEvent(n)
        \/ LinkStateEvent(n)
        \/ SendLinkStateFrame(n)
        \/ ReceiveAssocFrame(n)
        \/ ReceiveLinkStateFrame(n)
        \/ Lose(n)
        \/ AgeItems(n)
        \/ OtherLink(n)

Spec == Init /\ [][Next]_vars

\* Beacons and the periodic timers recur; frames are delivered and timers fire.
Fairness ==
    \A n \in Nodes :
        /\ WF_vars(TimerFires(n))
        /\ WF_vars(ReceiveBeaconFrame(n))
        /\ WF_vars(LinkSetupEvent(n))
        /\ WF_vars(LinkStateEvent(n))
        /\ WF_vars(SendLinkStateFrame(n))
        /\ WF_vars(ReceiveAssocFrame(n))
        /\ WF_vars(ReceiveLinkStateFrame(n))
        /\ WF_vars(AgeItems(n))
FairSpec == Spec /\ Fairness
-----------------------------------------------------------------------------
\* Every item, frame, timer and counter has its type, and an id is left to draw.
TypeOK ==
    /\ \A n \in Nodes :
        /\ nb[n].known \in BOOLEAN /\ nb[n].assoc \in AssocStates
        /\ nb[n].state \in NeighborStates /\ nb[n].timers \subseteq Timers
        /\ {nb[n].linkId, nb[n].peerLinkId} \subseteq Ids
        /\ nb[n].retries \in 0 .. RequestsMax + 2
        /\ cap[n] \in - MaxOthers - 1 .. Capacity
        /\ Len(wire[n]) <= 2 * MaxWire + 1
    /\ others \in [Nodes -> 0 .. MaxOthers]
    /\ {heard, lsTimer, missed} \subseteq [Nodes -> BOOLEAN]
    /\ losses \in 0 .. MaxLosses
    /\ failed \in Errors
    /\ Cardinality(UsedIds \ {0}) < MaxId

\* A timer never runs out in a state that calls it invalid, nobody opens a
\* link that is under way or confirms to a stranger (the ERROR_ReportError of
\* the state machine), whatever is lost or late.
NoInvalidEvent == failed \in {"none", "cancel"}

\* A link that waits for its peer has the timer that ends the wait.
WaitsAreTimed ==
    failed = "none" => \A n \in Nodes :
        /\ nb[n].assoc \in {"OPEN_SENT", "CONFIRM_SENT"}
             => "RETRY_TIMEOUT" \in nb[n].timers
        /\ nb[n].assoc = "CONFIRM_RECEIVED" => "OPEN_TIMEOUT" \in nb[n].timers
        /\ nb[n].assoc = "HOLDING" => "CANCEL_TIMEOUT" \in nb[n].timers

Linked(n) == nb[n].assoc = "ESTABLISHED"

\* Two ends that both took the link as established mean the same link.
LinkIdsAgree ==
    (\A n \in Nodes : Linked(n)) =>
        \A n \in Nodes : nb[n].linkId = nb[Peer(n)].peerLinkId

\* An advertised capacity never counts a link that is in use as free.
CapacityNotOverstated ==
    \A n \in Nodes :
        cap[n] + others[n] + (IF Linked(n) THEN 1 ELSE 0) <= Capacity

\* A link that one end holds and the other lost does not last while the holder
\* advertises capacity: the other end opens again, is refused, and closes with
\* the zero ids that match any link; or the link is aged.
HalfOpen(n) == Linked(n) /\ ~Linked(Peer(n))

-----------------------------------------------------------------------------
(* What a comment or an assertion of the code says and its actions do not keep. *)

\* "Invalid cancel event.": a link is cancelled only once it was begun.
CancelFits == failed # "cancel"

\* "As neighbors are found ... on an ongoing basis when the link setup timer
\* fires, initiate authentication / association attempts" (mac_dot11s.cpp:7753):
\* as long as two neighbours that hear each other have no link, both attempt one.
AttemptsGoOn ==
    \A n \in Nodes :
        <>[](\A m \in Nodes : ~Linked(m)) => []<>(nb[n].assoc # "IDLE")
=============================================================================
