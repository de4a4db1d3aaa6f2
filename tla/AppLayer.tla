------------------------------ MODULE AppLayer ------------------------------
(***************************************************************************)
(* The application layer of one node from its initialisation to the end of *)
(* the simulation (application.cpp): the routing daemons that run above    *)
(* UDP are started for the interfaces that name them, their events and     *)
(* those of the applications are dispatched on the protocol of the message, *)
(* and everything is finalised by type.  A daemon that is one of a kind on *)
(* the node is started by the first interface that names it.               *)
(***************************************************************************)
EXTENDS Integers, Sequences, FiniteSets

CONSTANTS
  Interfaces,   \* 1 .. n
  Configs,      \* what the configuration says of a node
  Libraries,    \* what was compiled in
  AppTypes      \* types of application that may come and go

VARIABLES
  config,    \* [version, v4, v6: of each interface; static, hsrp, bgp, mpls, rsvp: of the node]
  phase,     \* what the node does: the parts of APP_Initialize, "run", then APP_Finalize
  next,      \* the interface whose turn it is
  daemons,   \* what was started: protocol and interface, 0 for one of a kind
  olsr,      \* interfaces of OLSR-INRIA and the IP version it was started for
  apps,      \* the list node->appData.appPtr
  finalised, \* what was finalised, as in daemons
  failed

vars == <<config, phase, next, daemons, olsr, apps, finalised, failed>>

Runs(i, v) == config.version[i] \in {v, "dual"}

\* The protocols that the switches of the two versions know.
V4Protocols == {"BELLMANFORD", "RIP", "FISHEYE", "OLSR_INRIA", "OLSRv2_NIIGATA", "STATIC"}
V6Protocols == {"RIPNG", "OLSR_INRIA", "OLSRv2_NIIGATA", "STATIC"}
Protocol4(i) == IF Runs(i, "v4") /\ config.v4[i] \in V4Protocols THEN config.v4[i] ELSE "NONE"
Protocol6(i) == IF Runs(i, "v6") /\ config.v6[i] \in V6Protocols THEN config.v6[i] ELSE "NONE"
Started(d) == \E x \in daemons : x[1] = d

-----------------------------------------------------------------------------
(* APP_Initialize. *)

Init ==
  /\ config \in Configs /\ phase = "static" /\ next = 1 /\ daemons = {}
  /\ olsr = [version |-> "none", count |-> 0] /\ apps = <<>> /\ finalised = {} /\ failed = FALSE

\* Static and default routes are read once for the node.
InitStatic ==
  /\ phase = "static" /\ phase' = "hsrp"
  /\ daemons' = daemons \cup {<<d, 0>> : d \in config.static}
  /\ UNCHANGED <<config, next, olsr, apps, finalised, failed>>

InitHsrp ==
  /\ phase = "hsrp" /\ phase' = "routing"
  /\ IF config.hsrp # {} /\ "ENTERPRISE" \notin Libraries
     THEN failed' = TRUE /\ UNCHANGED daemons
     ELSE failed' = failed /\ daemons' = daemons \cup {<<"HSRP", i>> : i \in config.hsrp}
  /\ UNCHANGED <<config, next, olsr, apps, finalised>>

Wireless == {"FISHEYE", "OLSR_INRIA", "OLSRv2_NIIGATA"}

\* What an interface starts for a protocol of one version of IP.
Starts(d, i, had) ==
  CASE d \in {"BELLMANFORD", "FISHEYE"} -> IF \E x \in had : x[1] = d THEN {} ELSE {<<d, 0>>}
    [] d \in {"RIP", "RIPNG", "OLSRv2_NIIGATA"} -> {<<d, i>>}
    [] d = "OLSR_INRIA" -> {<<d, i>>}
    [] OTHER -> {}

\* One instance of OLSR serves one version of IP and counts its interfaces.
StartOlsr(o, d, v) ==
  IF d # "OLSR_INRIA" THEN o
  ELSE [version |-> IF o.version = "none" THEN v ELSE o.version, count |-> o.count + 1]
Refuses(o, d, v) ==
  \/ d \in Wireless /\ "WIRELESS" \notin Libraries
  \/ d = "OLSR_INRIA" /\ o.version \notin {"none", v}

InitRouting ==
  LET i == next
      v4 == Protocol4(i)
      v6 == Protocol6(i)
      olsr4 == StartOlsr(olsr, v4, "v4")
      had == daemons \cup Starts(v4, i, daemons)
  IN
  /\ phase = "routing" /\ ~ failed /\ i \in Interfaces
  /\ next' = i + 1
  /\ failed' = (Refuses(olsr, v4, "v4") \/ Refuses(olsr4, v6, "v6"))
  /\ olsr' = StartOlsr(olsr4, v6, "v6")
  /\ daemons' = had \cup Starts(v6, i, had)
  /\ UNCHANGED <<config, phase, apps, finalised>>

\* BGP once for the node; LDP for every IPv4 interface that asks for it; the first that
\* asks for RSVP-TE ends the loop.
InitExterior ==
  LET asks == {i \in Interfaces : config.mpls[i] # "none"}
      rsvp == {i \in asks : config.mpls[i] = "RSVP-TE"}
      upTo == {i \in asks : \A k \in rsvp : i <= k}
      uses == config.bgp \/ asks # {}
  IN
  /\ phase = "routing" /\ ~ failed /\ next \notin Interfaces
  /\ IF uses /\ "ENTERPRISE" \notin Libraries
     THEN failed' = TRUE /\ UNCHANGED daemons
     ELSE /\ failed' = (rsvp # {} /\ ~ config.rsvp)
          /\ daemons' = daemons \cup (IF config.bgp THEN {<<"BGPv4", 0>>} ELSE {})
               \cup {<<"LDP", i>> : i \in {k \in upTo : config.mpls[k] = "LDP" /\ Runs(k, "v4")}}
               \cup (IF rsvp # {} /\ config.rsvp THEN {<<"RSVP", 0>>} ELSE {})
  /\ phase' = IF failed' THEN phase ELSE "run"
  /\ UNCHANGED <<config, next, olsr, apps, finalised>>

-----------------------------------------------------------------------------
(* The simulation runs. *)

\* An application is entered at the head of the list of its node.
Register(t) ==
  /\ phase = "run" /\ ~ failed /\ Len(apps) < 2 /\ t \in AppTypes
  /\ apps' = <<t>> \o apps
  /\ UNCHANGED <<config, phase, next, daemons, olsr, finalised, failed>>

\* The cases of APP_ProcessEvent: the routing daemons, the applications that are always
\* there, and those of a library.
RoutingEvents ==
  {"BELLMANFORD", "STATIC", "RIP", "RIPNG"}
  \cup (IF "WIRELESS" \in Libraries THEN Wireless \cup {"NEIGHBOR_PROTOCOL"} ELSE {})
  \cup (IF "ENTERPRISE" \in Libraries THEN {"HSRP", "BGPv4", "LDP"} ELSE {})
ClientServer == {"TELNET", "FTP", "CHANSWITCH", "CHANSWITCH_SINR", "GEN_FTP", "CBR", "MCBR", "HTTP",
                 "TRAFFIC_GEN", "TRAFFIC_TRACE", "LOOKUP", "VIDEO", "WBEST", "VBR", "SUPERAPPLICATION"}
PlainEvents == ClientServer \cup {"FORWARD", "MESSENGER"}
LibraryEvents ==
  (IF "MILITARY" \in Libraries THEN {"THREADEDAPP", "DYNAMIC_THREADEDAPP"} ELSE {})
  \cup (IF "ENTERPRISE" \in Libraries
        THEN {"H323", "SIP", "VOIP_CALL_INITIATOR", "VOIP_CALL_RECEIVER", "H225_RAS", "RTP", "RTCP"} ELSE {})
  \cup (IF "LINK16" \in Libraries THEN {"LINK_16_CBR"} ELSE {})
  \cup (IF "MGEN4" \in Libraries THEN {"MGEN"} ELSE {})
  \cup (IF "MGEN3" \in Libraries THEN {"MGEN3_SENDER", "DREC3_RECEIVER"} ELSE {})
  \cup (IF "CELLULAR" \in Libraries THEN {"CELLULAR_ABSTRACT"} ELSE {})
  \cup (IF "UMTS" \in Libraries THEN {"PHONE_CALL"} ELSE {})

\* An event of something that was started; without a case for it the program aborts.
ProcessEvent ==
  /\ phase = "run" /\ ~ failed
  /\ \E t \in {x[1] : x \in {d \in daemons : d[1] \notin {"STATIC", "DEFAULT", "RSVP"}}}
             \cup {apps[k] : k \in DOMAIN apps} :
       failed' = (t \notin RoutingEvents \cup PlainEvents \cup LibraryEvents)
  /\ UNCHANGED <<config, phase, next, daemons, olsr, apps, finalised>>

StopRunning ==
  /\ phase = "run" /\ ~ failed /\ phase' = "end" /\ next' = 1
  /\ UNCHANGED <<config, daemons, olsr, apps, finalised, failed>>

-----------------------------------------------------------------------------
(* APP_Finalize. *)

\* Mutant of Ends: a protocol with a daemon for every interface is ended once.
EndsOnce(d, i) ==
  CASE d \in {"BELLMANFORD", "FISHEYE", "STATIC"} -> {<<d, 0>>}
    [] d \in {"RIP", "RIPNG", "OLSR_INRIA", "OLSRv2_NIIGATA"} /\ i = 1 -> {<<d, i>>}
    [] OTHER -> {}

\* The case of OLSRv2 has no break and goes on to the one of static routes.
Ends(d, i) ==
  CASE d \in {"BELLMANFORD", "FISHEYE"} -> {<<d, 0>>}
    [] d \in {"RIP", "RIPNG", "OLSR_INRIA"} -> {<<d, i>>}
    [] d = "OLSRv2_NIIGATA" -> {<<d, i>>, <<"STATIC", 0>>}
    [] d = "STATIC" -> {<<d, 0>>}
    [] OTHER -> {}

FinalizeRouting ==
  LET i == next IN
  /\ phase = "end" /\ i \in Interfaces
  /\ finalised' = finalised \cup Ends(Protocol4(i), i) \cup Ends(Protocol6(i), i)
  /\ next' = i + 1
  /\ UNCHANGED <<config, phase, daemons, olsr, apps, failed>>

FinalizeExterior ==
  /\ phase = "end" /\ next \notin Interfaces
  /\ finalised' = finalised \cup {<<"BGPv4", 0>> : x \in {y \in {1} : config.bgp}}
       \cup (IF Started("HSRP") THEN {<<"HSRP", i>> : i \in Interfaces} ELSE {})
  /\ phase' = "apps"
  /\ UNCHANGED <<config, next, daemons, olsr, apps, failed>>

\* The types with a case of their own; any other ends the simulation with an error.
Finalizers ==
  PlainEvents
  \cup (LibraryEvents \ {"H323", "SIP", "H225_RAS", "RTP", "RTCP", "CELLULAR_ABSTRACT", "PHONE_CALL"})
  \cup (IF "WIRELESS" \in Libraries THEN {"NEIGHBOR_PROTOCOL"} ELSE {})
  \cup (IF "ENTERPRISE" \in Libraries THEN {"LDP"} ELSE {})

FinalizeApp ==
  /\ phase = "apps" /\ ~ failed /\ apps # <<>>
  /\ failed' = (Head(apps) \notin Finalizers)
  /\ apps' = Tail(apps)
  /\ UNCHANGED <<config, phase, next, daemons, olsr, finalised>>

Over == (failed \/ (phase = "apps" /\ apps = <<>>)) /\ UNCHANGED vars

Next ==
  \/ InitStatic \/ InitHsrp \/ InitRouting \/ InitExterior
  \/ (\E t \in AppTypes : Register(t)) \/ ProcessEvent \/ StopRunning
  \/ FinalizeRouting \/ FinalizeExterior \/ FinalizeApp
  \/ Over

Spec == Init /\ [][Next]_vars

-----------------------------------------------------------------------------
(* What is promised. *)

TypeOK ==
  /\ config \in Configs
  /\ phase \in {"static", "hsrp", "routing", "run", "end", "apps"}
  /\ next \in 1 .. Cardinality(Interfaces) + 1
  /\ \A x \in daemons \cup finalised : x[2] \in Interfaces \cup {0}
  /\ olsr.count \in 0 .. 2 * Cardinality(Interfaces) /\ failed \in BOOLEAN

\* What ends was begun: no daemon is finalised that was not started for this interface,
\* and none that was is left out.  Static routes are ended on the word of an interface
\* (and, where a break is missing, of OLSRv2), HSRP everywhere if it runs anywhere.
EndsWhatItBegan ==
  phase = "apps" =>
    LET own(S) == {x \in S : x[1] \notin {"STATIC", "DEFAULT", "HSRP", "LDP", "RSVP"}}
    IN own(finalised) = own(daemons)

\* One instance of OLSR counts the interfaces it serves, all of one version of IP.
OlsrServesOneVersion ==
  ~ failed => olsr.count = Cardinality({x \in daemons : x[1] = "OLSR_INRIA"})

\* Whatever was started has a handler and, if it is in the list, a finaliser: neither
\* an event nor the end of the simulation stops it with an error.
AllHandled == phase \in {"run", "end", "apps"} => ~ failed

=============================================================================
