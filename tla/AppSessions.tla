----------------------------- MODULE AppSessions -----------------------------
(***************************************************************************)
(* The application file of a parallel simulation (application.cpp).  Every *)
(* partition reads the whole file, line by line, and creates the ends of a *)
(* session that live on its own nodes: MAPPING_GetNodePtrFromHash answers  *)
(* NULL for the others.  Nobody tells a partition what another one did, so *)
(* a session is whole only if both made the same of its line.  A node that *)
(* restarts has the file read once more for its sake.                      *)
(*                                                                         *)
(* A line is [app, src, dst, to, values, option]: the nodes that its first *)
(* two words denote, what the destination is ("node", "loopback", "group"  *)
(* or "all"), how many values sscanf finds, and the optional words.  The   *)
(* destination of a loopback or group line is no node.                     *)
(***************************************************************************)
EXTENDS Integers, Sequences, FiniteSets

CONSTANTS
  Nodes, NoNode,
  Partitions,
  PartitionOf,   \* where a node is simulated
  Loopback,      \* the nodes with IP loopback enabled
  Routers,       \* nodes with an adaptation layer that are no end systems
  Signalling,    \* of each node: "H323", "SIP" or "none"
  Gatekeepers,   \* H.323 nodes that are no terminals
  Cellular,      \* nodes with a cellular layer 3
  Libraries,     \* what was compiled in
  Ipv6Only,      \* networkProtocol of the first node of a partition
  Files,         \* the files considered
  MaxRestarts

VARIABLES
  file,      \* the lines of APP-CONFIG-FILE
  pc,        \* the line that a partition reads next
  skipped,   \* partitions that returned before the end of the file
  again,     \* the node for whose sake a partition reads the file once more
  runs,      \* clients created, for each node and line: how many
  serves,    \* servers that listen: node, type and line
  old,       \* ends that know an address their client no longer has: node and line
  failed,    \* some partition has reported an error: the simulation is over
  restarts

vars == <<file, pc, skipped, again, runs, serves, old, failed, restarts>>

NodesOf(p) == {n \in Nodes : PartitionOf[n] = p}
Here(n, here) == IF n \in here THEN <<n>> ELSE <<>>
Listen(n, here, type) == IF n \in here THEN {<<n, type>>} ELSE {}

\* What reading a line does: where it goes on ("next", "return" or "error"), the nodes
\* on which a client is created, and the servers that begin to listen.
Out(go, clients, servers) == [go |-> go, clients |-> clients, servers |-> servers]
Skip == Out("next", <<>>, {})
Error == Out("error", <<>>, {})

-----------------------------------------------------------------------------
(* What the branches share. *)

\* APP_SuccessfullyHandledLoopback: the server belongs to the source itself.
IsLoopback(l) == l.to = "loopback" \/ l.src = l.dst

\* Mutant of Both: a server that loops back is left with the destination.
BothApart(l, here, type) == Out("next", Here(l.src, here), Listen(l.dst, here, type))

\* A client here, and the server here or, on loopback, with the client.
Both(l, here, type) ==
  IF l.src \in here /\ IsLoopback(l)
  THEN IF l.src \in Loopback THEN Out("next", <<l.src>>, {<<l.src, type>>})
       ELSE Out("error", <<l.src>>, {})
  ELSE Out("next", Here(l.src, here), Listen(l.dst, here, type))

\* APP_AssignTos: a word and a number for it.
Tos == {"tos"}

\* The values found are the ones of the format, the optional ones with a good TOS.
Formed(l, plain, withTos) == l.values = plain \/ (l.values = withTos /\ l.option \in Tos)

Needs(library, outcomes) == IF library \in Libraries THEN outcomes ELSE {Error}

-----------------------------------------------------------------------------
(* The branches of APP_InitializeApplications: the outcomes of a line, where *)
(* here is the nodes of the partition and back the node that restarts.      *)

Ftp(l, here) == {IF l.values = 4 THEN Both(l, here, "FTP_SERVER") ELSE Error}

Chanswitch(l, here) ==
  {IF l.values = 6 THEN Both(l, here, "CHANSWITCH_SERVER") ELSE Error}

ChanswitchSinr(l, here) ==
  {IF l.values = 4 THEN Both(l, here, "CHANSWITCH_SINR_SERVER") ELSE Error}

GenFtp(l, here) ==
  {IF Formed(l, 6, 8) THEN Both(l, here, "GEN_FTP_SERVER") ELSE Error}

Telnet(l, here) == {IF l.values = 4 THEN Both(l, here, "TELNET_SERVER") ELSE Error}

\* Case 8 of the switch falls into case 9 and case 9 into case 10, which read words
\* that this sscanf did not store.
CbrFormed(l) ==
  CASE l.values = 7 -> {TRUE}
    [] l.values = 8 /\ l.option = "RSVP-TE" -> {TRUE}
    [] l.values = 8 /\ l.option = "tos" -> BOOLEAN
    [] l.values = 9 /\ l.option = "tos" -> {TRUE}
    [] l.values = 9 /\ l.option = "RSVP-TE tos" -> BOOLEAN
    [] l.values = 10 /\ l.option \in {"RSVP-TE tos", "tos RSVP-TE"} -> {TRUE}
    [] OTHER -> {FALSE}

\* Mutant of Cbr: a restart reads the lines of every node.
CbrOfAll(l, here, back) == {IF formed THEN Both(l, here, "CBR_SERVER") ELSE Error : formed \in CbrFormed(l)}

\* The versions of the two addresses are compared when the client is there already.
\* A restart reads only the lines of the node that restarts.
Cbr(l, here, back) ==
  {CASE ~ formed -> Error
     [] formed /\ back \notin {NoNode, l.src} -> Skip
     [] formed /\ back \in {NoNode, l.src} /\ l.src \in here \cap Routers -> Out("return", <<>>, {})
     [] formed /\ back \in {NoNode, l.src} /\ l.src \notin here \cap Routers ->
          IF l.option = "mixed" THEN Out("error", Here(l.src, here), {})
          ELSE Both(l, here, "CBR_SERVER") : formed \in CbrFormed(l)}

Wbest(l, here) == {Both(l, here, "WBEST_SERVER")}

\* Any number of values but none will do.  A source that loops back gets no server.
Video(l, here) ==
  {IF l.values = 0 THEN Error
   ELSE IF l.src \in here /\ IsLoopback(l)
        THEN [Both(l, here, "VIDEO_SERVER") EXCEPT !.servers = {}]
        ELSE Both(l, here, "VIDEO_SERVER")}

Lookup(l, here) == {IF Formed(l, 9, 11) THEN Both(l, here, "LOOKUP_SERVER") ELSE Error}

\* A restart compares a node that was not parsed yet with the one that restarts.
Mcbr(l, here, back) ==
  IF ~ Formed(l, 7, 9) THEN {Error}
  ELSE {Out(IF l.option = "mixed" /\ l.src \in here THEN "error" ELSE "next", Here(l.src, here), {})}
       \cup (IF back = NoNode THEN {} ELSE {Skip})

Mgen(l, here) == Needs("MGEN4", {Out("next", Here(l.src, here), {})})
Mgen3(l, here) == Needs("MGEN3", {Out("next", Here(l.src, here), {})})
Drec(l, here) == Needs("MGEN3", {Out("next", <<>>, Listen(l.src, here, "DREC3_RECEIVER"))})

\* Only the partition of the source looks for the destination.
MessengerChecks(l) ==
  /\ l.values \in {9, 10}
  /\ l.option \in {"UNRELIABLE", "RELIABLE", "MAC", "UNRELIABLE VOICE"}
  /\ ~ (l.option = "RELIABLE" /\ l.to = "all")
  /\ ~ (l.option = "UNRELIABLE VOICE" /\ l.values = 10)
Messenger(l, here) ==
  {IF "MESSENGER" \notin Libraries
   THEN IF l.values >= 1 THEN Out("next", Here(l.src, here), {}) ELSE Error
   ELSE IF ~ MessengerChecks(l) THEN Error
   ELSE IF l.src \notin here THEN Skip
   ELSE Out("next", <<l.src>>,
            IF l.to = "all" THEN {} ELSE Listen(l.dst, here, "MESSENGER"))}

L16Cbr(l, here) ==
  Needs("LINK16", {IF l.values = 7 THEN Out("next", Here(l.src, here), {}) ELSE Error})

InterfaceTutorial(l, here) ==
  Needs("TUTORIAL", {IF l.values = 2 THEN Out("next", Here(l.src, here), {}) ELSE Error})

\* A line with no source is passed over; the rest is looked at by the partition of the
\* source only, which sets up the call in its MAC.
Ale(l, here) ==
  Needs("ALE", {IF l.values = 0 THEN Skip
                ELSE IF l.option = "bad" THEN Error
                ELSE IF l.src \notin here THEN Skip
                ELSE IF l.values < 4 THEN Error ELSE Out("next", <<l.src>>, {})})

Http(l, here) ==
  {IF l.values = 0 THEN Error
   ELSE IF l.src \notin here THEN Skip
   ELSE IF l.values < 5 THEN Error ELSE Out("next", <<l.src>>, {})}

Httpd(l, here) == {IF l.values = 1 THEN Out("next", <<>>, Listen(l.src, here, "HTTP_SERVER")) ELSE Error}

\* Generated and traced traffic: a server for a unicast destination only.
Traffic(l, here, type) ==
  {IF l.values # 2 THEN Error
   ELSE IF l.to \in {"group", "all"} THEN Out("next", Here(l.src, here), {})
   ELSE Both(l, here, type)}
TrafficGen(l, here) == Traffic(l, here, "TRAFFIC_GEN_SERVER")
TrafficTrace(l, here) == Traffic(l, here, "TRAFFIC_TRACE_SERVER")

-----------------------------------------------------------------------------

\* The words of a VOIP line, in the old form and in the new one.
VoipFormed(l) ==
  IF l.option \in {"", "ACCEPT", "REJECT"} THEN l.values \in 5 .. 7 ELSE l.option # "bad"
VoipAccepts(l) == l.option \notin {"REJECT", "CALL-STATUS REJECT"}

\* Each end must have a signalling protocol, and a gatekeeper is no end: the line is
\* passed over by the partition that notices.
VoipEnd(n, here) ==
  CASE n \notin here -> "ok"
    [] n \in here /\ Signalling[n] = "none" -> "error"
    [] n \in here /\ Signalling[n] = "H323" /\ n \in Gatekeepers -> "skip"
    [] OTHER -> "ok"

Voip(l, here) ==
  LET ends == <<VoipEnd(l.dst, here), VoipEnd(l.src, here)>> IN
  Needs("ENTERPRISE",
    {IF ~ VoipFormed(l) THEN Error
     ELSE IF IsLoopback(l) THEN Out("return", <<>>, {})
     ELSE IF ends[1] # "ok" THEN (IF ends[1] = "error" THEN Error ELSE Skip)
     ELSE IF ends[2] # "ok" THEN (IF ends[2] = "error" THEN Error ELSE Skip)
     ELSE Out("next", Here(l.src, here),
              IF VoipAccepts(l) THEN Listen(l.dst, here, "VOIP_RECEIVER") ELSE {})})

\* Both nodes must exist somewhere; the source has the timers of the call.
Call(l, here) ==
  IF l.src = l.dst \/ {l.src, l.dst} \ Nodes # {} THEN Error
  ELSE Out("next", Here(l.src, here), {})

\* The time of a GSM call is looked at where the source is.
Gsm(l, here) ==
  Needs("CELLULAR", {IF l.values # 4 \/ (l.option = "late" /\ l.src \in here) THEN Error
                     ELSE Call(l, here)})

\* Both ends are initialised with the same function, on one node twice.
Vbr(l, here) ==
  {IF Formed(l, 6, 8) THEN Out("next", Here(l.src, here) \o Here(l.dst, here), {}) ELSE Error}

\* Only nodes of a cellular network have the list that the call is entered into.
CellularAbstractApp(l, here) ==
  Needs("CELLULAR",
    {IF l.values # 6 \/ l.option \in {"late", "bad"} \/ l.src \in here \ Cellular THEN Error
     ELSE Call(l, here)})

PhoneCall(l, here) ==
  Needs("UMTS", {IF l.values # 5 \/ l.option = "late" THEN Error ELSE Call(l, here)})

\* Both ends are initialised; a line whose ends are the same, or a loopback address,
\* is passed over.  A restart concerns the ends on the node that restarts, and only
\* within a frame of its being enabled back.
SuperApplication(l, here, back) ==
  CASE l.values < 2 -> {Error}
    [] l.values >= 2 /\ (back \notin {NoNode, l.src, l.dst} \/ IsLoopback(l)) -> {Skip}
    [] l.values >= 2 /\ ~ IsLoopback(l) /\ back \in {l.src, l.dst} \ {NoNode} ->
         {Out("next", <<back>>, {}), Skip}
    [] OTHER -> {Out("next", Here(l.src, here) \o Here(l.dst, here), {})}

ThreadedApp(l, here) ==
  Needs("MILITARY",
    {IF l.values < 2 THEN Error
     ELSE IF l.to # "group" /\ IsLoopback(l) THEN Out("return", <<>>, {})
     ELSE Out("next", Here(l.src, here), {})})

-----------------------------------------------------------------------------

\* Over IPv6 only some of the applications are known.
Ipv6Apps == {"CBR", "FTP/GENERIC", "FTP", "TELNET", "HTTP", "HTTPD", "MCBR", "TRAFFIC-GEN",
             "SUPER-APPLICATION"}

Outcomes(l, here, back) ==
  CASE Ipv6Only /\ l.app \notin Ipv6Apps -> {Error}
    [] OTHER ->
  CASE l.app = "FTP" -> Ftp(l, here)
    [] l.app = "CHANSWITCH" -> Chanswitch(l, here)
    [] l.app = "CHANSWITCH_SINR" -> ChanswitchSinr(l, here)
    [] l.app = "FTP/GENERIC" -> GenFtp(l, here)
    [] l.app = "TELNET" -> Telnet(l, here)
    [] l.app = "CBR" -> Cbr(l, here, back)
    [] l.app = "WBEST" -> Wbest(l, here)
    [] l.app = "VIDEO" -> Video(l, here)
    [] l.app = "LOOKUP" -> Lookup(l, here)
    [] l.app = "MCBR" -> Mcbr(l, here, back)
    [] l.app = "mgen" -> Mgen(l, here)
    [] l.app = "mgen3" -> Mgen3(l, here)
    [] l.app = "drec" -> Drec(l, here)
    [] l.app = "MESSENGER-APP" -> Messenger(l, here)
    [] l.app = "L16-CBR" -> L16Cbr(l, here)
    [] l.app = "INTERFACETUTORIAL" -> InterfaceTutorial(l, here)
    [] l.app = "ALE" -> Ale(l, here)
    [] l.app = "HTTP" -> Http(l, here)
    [] l.app = "HTTPD" -> Httpd(l, here)
    [] l.app = "TRAFFIC-GEN" -> TrafficGen(l, here)
    [] l.app = "TRAFFIC-TRACE" -> TrafficTrace(l, here)
    [] l.app = "VOIP" -> Voip(l, here)
    [] l.app = "GSM" -> Gsm(l, here)
    [] l.app = "VBR" -> Vbr(l, here)
    [] l.app = "CELLULAR-ABSTRACT-APP" -> CellularAbstractApp(l, here)
    [] l.app = "PHONE-CALL" -> PhoneCall(l, here)
    [] l.app = "SUPER-APPLICATION" -> SuperApplication(l, here, back)
    [] l.app = "THREADED-APP" -> ThreadedApp(l, here)
    [] OTHER -> {Error}

-----------------------------------------------------------------------------
(* The partitions. *)

MaxLines == 2
Lines == 1 .. Len(file)
Ends == Nodes \X (1 .. MaxLines)
Count(s, x) == Cardinality({k \in DOMAIN s : s[k] = x})

Init ==
  /\ file \in Files
  /\ pc = [p \in Partitions |-> 1] /\ skipped = {}
  /\ again = [p \in Partitions |-> NoNode]
  /\ runs = [x \in Ends |-> 0] /\ serves = {} /\ old = {}
  \* With these libraries the list of nodes is read before it is known to have one.
  /\ failed = (Libraries \cap {"CELLULAR", "NGCNMS"} # {} /\ \E p \in Partitions : NodesOf(p) = {})
  /\ restarts = 0

Reading(p) == pc[p] <= Len(file) /\ p \notin skipped

ReadLine(p) ==
  /\ ~ failed /\ Reading(p) /\ NodesOf(p) # {}
  /\ \E o \in Outcomes(file[pc[p]], NodesOf(p), again[p]) :
       /\ pc' = [pc EXCEPT ![p] = @ + 1]
       /\ skipped' = IF o.go = "return" THEN skipped \cup {p} ELSE skipped
       /\ failed' = (o.go = "error")
       /\ runs' = [x \in Ends |-> IF x[2] = pc[p] THEN runs[x] + Count(o.clients, x[1]) ELSE runs[x]]
       /\ serves' = serves \cup {<<s[1], s[2], pc[p]>> : s \in o.servers}
  /\ UNCHANGED <<file, again, old, restarts>>

\* APP_Reset of a node that was disabled: its applications are wiped out, and the
\* file is read again with this node in the place of the first.
Restart(n) ==
  LET p == PartitionOf[n] IN
  /\ ~ failed /\ ~ Reading(p) /\ "NGCNMS" \in Libraries /\ restarts < MaxRestarts
  /\ pc' = [pc EXCEPT ![p] = 1] /\ skipped' = skipped \ {p}
  /\ again' = [again EXCEPT ![p] = n]
  /\ runs' = [x \in Ends |-> IF x[1] = n THEN 0 ELSE runs[x]]
  /\ serves' = {s \in serves : s[1] # n}
  /\ restarts' = restarts + 1
  /\ UNCHANGED <<file, old, failed>>

\* APP_ReInitializeApplications: an interface was restarted and has a new address.
\* The clients of two types are told; of a super application the other end is told,
\* if it is in this partition, on the assumption that the client is the one that moved.
Super == {i \in Lines : file[i].app = "SUPER-APPLICATION" /\ ~ IsLoopback(file[i])}
Told(n) == {i \in Lines : file[i].src = n /\ file[i].app \in {"CBR", "MCBR"}} \cup Super
NewAddress(n) ==
  LET moved == {i \in Lines : file[i].src = n /\ runs[n, i] > 0}
      super == Super
      told == moved \cap Told(n)
      far == {i \in moved \cap super : file[i].dst \in Nodes \ NodesOf(PartitionOf[n])}
  IN
  /\ ~ failed /\ ~ Reading(PartitionOf[n]) /\ "NGCNMS" \in Libraries /\ restarts < MaxRestarts
  /\ failed' = (\E i \in super : file[i].dst = n)
  /\ old' = (old \ {<<n, i>> : i \in told})
              \cup {<<n, i>> : i \in moved \ told} \cup {<<file[i].dst, i>> : i \in far}
  /\ restarts' = restarts + 1
  /\ UNCHANGED <<file, pc, skipped, again, runs, serves>>

Finished == failed \/ (\A p \in Partitions : ~ Reading(p) \/ NodesOf(p) = {})
AllRun == Finished /\ UNCHANGED vars

Next ==
  \/ \E p \in Partitions : ReadLine(p)
  \/ \E n \in Nodes : Restart(n) \/ NewAddress(n)
  \/ AllRun

Spec == Init /\ [][Next]_vars

-----------------------------------------------------------------------------
(* What is promised. *)

TypeOK ==
  /\ file \in Files /\ pc \in [Partitions -> 1 .. MaxLines + 1] /\ skipped \subseteq Partitions
  /\ again \in [Partitions -> Nodes \cup {NoNode}]
  /\ runs \in [Ends -> Nat] /\ failed \in BOOLEAN /\ restarts \in 0 .. MaxRestarts

\* The partitions have read the file once, to its end, without an error.
AllRead == Finished /\ ~ failed /\ skipped = {} /\ restarts = 0

\* Whether the line means the same to the partitions it concerns: a messenger and a
\* call from or to a gatekeeper do only when both ends are in one of them.
Near(l) == l.dst \in Nodes => PartitionOf[l.dst] = PartitionOf[l.src]
SameForAll(l) ==
  /\ l.app = "MESSENGER-APP" /\ "MESSENGER" \in Libraries => Near(l)
  /\ l.app = "VOIP" => Near(l) \/ {l.src, l.dst} \cap Gatekeepers = {}

\* However the nodes are divided, the partitions make together what one partition with
\* all of the nodes could make of the line.
SplitDoesNotMatter ==
  AllRead => \A i \in Lines : SameForAll(file[i]) =>
    \E o \in Outcomes(file[i], Nodes, NoNode) :
      /\ o.go = "next"
      /\ \A n \in Nodes : runs[n, i] = Count(o.clients, n)
      /\ {s \in serves : s[3] = i} = {<<s[1], s[2], i>> : s \in o.servers}

\* The types whose sessions have a client and a server.
TwoEnded == {"FTP", "CHANSWITCH", "CHANSWITCH_SINR", "FTP/GENERIC", "TELNET", "CBR", "WBEST", "VIDEO",
             "LOOKUP", "TRAFFIC-GEN", "TRAFFIC-TRACE"}

\* A session has one client, at its source, and one server, where the destination
\* address leads: to the source itself when that is a loopback.
SessionsWhole ==
  AllRead => \A i \in Lines :
    LET l == file[i]
        end == IF IsLoopback(l) THEN l.src ELSE l.dst
        silent == l.to \in {"group", "all"} \/ (l.app = "VIDEO" /\ IsLoopback(l))
    IN l.app \in TwoEnded /\ l.src \in Nodes /\ ~ (l.to = "node" /\ l.dst \notin Nodes) =>
         /\ \A n \in Nodes : runs[n, i] = IF n = l.src THEN 1 ELSE 0
         /\ {s[1] : s \in {t \in serves : t[3] = i}} = IF silent THEN {} ELSE {end}

\* A node that restarts disturbs no session of another one: the files are read for
\* its own constant bit rate sources and super applications only, and an address that
\* changes is known to the client and, in the same partition, to the other end.
RestartIsLocal ==
  /\ \A x \in Ends : x[2] \in Lines /\ file[x[2]].app \in {"CBR", "SUPER-APPLICATION"} => runs[x] <= 1
  /\ \A x \in old : /\ file[x[2]].app \notin {"CBR", "MCBR"}
                     /\ file[x[2]].app = "SUPER-APPLICATION" => ~ Near(file[x[2]])

=============================================================================
