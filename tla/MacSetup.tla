------------------------------ MODULE MacSetup ------------------------------
(***************************************************************************)
(* What MAC_Initialize (main/mac.cpp) makes of a configuration.  Every      *)
(* partition of the simulator reads all SUBNET and LINK lines in their      *)
(* order.  Of its own nodes it builds the interfaces; of the nodes of other *)
(* partitions it only counts them, to know the index that an interface of   *)
(* theirs has over there.  Then it reads the lines of the fault file.       *)
(* Interface indices are the ones of the code, from 0.  A configuration the *)
(* code refuses ends the simulation.                                        *)
(***************************************************************************)
EXTENDS Integers, Sequences, FiniteSets, SequencesExt, TLC

CONSTANTS
  Nodes, Partitions,
  PartitionOf,     \* the partition of each node
  Libraries,       \* the libraries the simulator is built with
  MaxInterfaces,   \* MAX_NUM_INTERFACES
  Unset,           \* no value configured
  Setups           \* configurations: the lines, what they say of each interface, the faults

SetupAssumption ==
  /\ IsFiniteSet(Nodes) /\ PartitionOf \in [Nodes -> Partitions]
  /\ MaxInterfaces \in Nat
  /\ \A s \in Setups : \A i \in DOMAIN s.lines :
       /\ \A x \in DOMAIN s.lines[i].ends : s.lines[i].ends[x] \in Nodes
       /\ \A x, y \in DOMAIN s.lines[i].ends : x # y => s.lines[i].ends[x] # s.lines[i].ends[y]

VARIABLES
  setup,      \* the configuration
  pos,        \* the next line of each partition, those of the fault file after the others
  count,      \* numberInterfaces of each node, as each partition knows it
  nic,        \* the interfaces each node has in its own partition
  members,    \* the member lists of the subnets, of each partition
  siteCounter,
  faults,     \* the fault messages of each node
  exited      \* ERROR_ReportError has ended the simulation
setupVars == <<setup, pos, count, nic, members, siteCounter, faults, exited>>

Config(n, k) == setup.nics[n][k + 1]
IsV4(c) == c.type \in {"IPV4_ONLY", "DUAL_IP", "GSM_LAYER3", "CELLULAR"}
IsV6(c) == c.type \in {"IPV6_ONLY", "DUAL_IP"}
Local(p, n) == PartitionOf[n] = p

-----------------------------------------------------------------------------
(* Hardware addresses. *)

SixByte == {"MAC802.3", "MACDOT11", "ALOHA", "TDMA", "MACA", "GENERICMAC", "CSMA", "MACDOT11e", "MAC802.16",
            "Link", "SWITCHED-ETHERNET"}
FourByte == {"MAC-LINK-11", "MAC-LINK-16", "ALE", "GSM", "MAC-SPAWAR-LINK16", "SATCOM", "ANE",
             "SATELLITE-BENTPIPE", "MAC802.11", "CELLULAR-MAC", "MAC-WORMHOLE", "USAP"}

\* Six bytes name the node and the index of the interface, four its IP address, two
\* only the node.
Six(n, k) == [length |-> 6, own |-> FALSE, node |-> n, nic |-> k]
Four(n, k) == [length |-> 4, own |-> FALSE, node |-> n, nic |-> k]
Two(n) == [length |-> 2, own |-> FALSE, node |-> n, nic |-> 0]
Unreadable == [length |-> 0, own |-> FALSE, node |-> Unset, nic |-> 0]

\* A hardware address can be configured only where ARP finds it: not on an IPv4
\* interface without ARP, whose file is refused even when it is about other interfaces.
ReadsHwAddress(n, k) == Config(n, k).hw.from \in {"parameter", "file"}
HwError(n, k, mac, v4) ==
  LET h == Config(n, k).hw
  IN  \/ v4 /\ ~h.arp /\ h.from # "default"
      \/ ReadsHwAddress(n, k) /\ h.null
      \/ ~ReadsHwAddress(n, k) /\ mac \notin SixByte \cup FourByte \cup {"MAC802.15.4"}

MacConfigureHWAddress(n, k, mac) ==
  CASE ReadsHwAddress(n, k) -> [length |-> Config(n, k).hw.length, own |-> TRUE, node |-> n, nic |-> k]
    [] mac \in SixByte -> Six(n, k)
    [] mac \in FourByte -> Four(n, k)
    [] OTHER -> Two(n)

\* What the other end keeps as linkAddr: anything that is not six bytes long is not
\* copied, and the variable keeps what it had.
ConvertTo802(h) == IF h.length = 6 THEN h ELSE Unreadable

\* By the MAC that runs, an IP address as a hardware address and back (without ARP).
IPv4AddressToHWAddress(mac, n, k) ==
  CASE mac \in {"CSMA", "MACA", "MAC802.3", "ALOHA", "GENERICMAC", "SWITCHED-ETHERNET", "TDMA", "MACDOT11",
                "MACDOT11e", "MAC802.16", "ABSTRACT"} -> Six(n, k)
    [] mac \in {"MAC802.11", "MAC-LINK-16", "MAC-LINK-11", "MAC-SPAWAR-LINK16", "GSM", "ALE", "SATCOM",
                "SATELLITE-BENTPIPE", "ANE", "CELLULAR-MAC", "MAC-WORMHOLE", "USAP"} -> Four(n, k)
    [] mac = "MAC802.15.4" -> Two(n)
MacHWAddressToIpv4Address(h) == IF h.length = 2 THEN <<h.node, 0>> ELSE <<h.node, h.nic>>

-----------------------------------------------------------------------------
(* What every new interface is given. *)

\* The VLAN of a station: none, the null VLAN without a tag, or one in the range.
VlanError(c) == "ENTERPRISE" \in Libraries /\ c.vlan \in {"range", "word"}
MacAddVlanInfo(c) == IF "ENTERPRISE" \notin Libraries \/ c.vlan = "none" THEN Unset ELSE c.vlan

\* The words of the audit files, of wormhole victims, of LLC and the statistics are YES
\* or NO, and the files can be opened.
SetMacConfigParameter(c) == c.words
AuditError(c) == "NETSEC" \in Libraries /\ c.audit \in {"word", "unwritable"}

\* The certificate in the file of an earlier run is read again; an absent one is made.
CertificateError(c) ==
  "NETSEC" \in Libraries /\ c.certificate \in {"word", "corrupt", "of another", "expired"}
Certificate(n, k) ==
  IF "NETSEC" \notin Libraries \/ ~IsV4(Config(n, k)) \/ Config(n, k).certificate = "NO" THEN Unset ELSE <<n, k>>

\* The IP data of an interface, on which nothing runs yet; the MAC data, which says that
\* it is enabled; and its hardware address.  In a dual network the interface that IPv4
\* has just added gets its IPv6 address too.
IpInterface(v4) ==
  [ip |-> IF v4 THEN "IPV4" ELSE "IPV6", site |-> Unset, routing |-> "NONE", multicast |-> FALSE, routed |-> FALSE]
MacInterface ==
  [enabled |-> TRUE, vlan |-> Unset, subnet |-> Unset, mac |-> Unset, phy |-> -1, model |-> Unset,
   security |-> "NO", peer |-> Unset]
NewInterface(n, k, mac, v4) ==
  IpInterface(v4) @@ MacInterface
  @@ [hw |-> MacConfigureHWAddress(n, k, mac), certificate |-> Certificate(n, k)]
AddIpv6(x, site) == [x EXCEPT !.ip = IF @ = "IPV4" THEN "DUAL" ELSE @, !.site = site]
AddError(n, k, mac, v4) ==
  \/ k >= MaxInterfaces
  \/ HwError(n, k, mac, v4)
  \/ v4 /\ (AuditError(Config(n, k)) \/ CertificateError(Config(n, k)))

-----------------------------------------------------------------------------
(* The MAC and the PHY of an interface in a subnet. *)

\* A wired subnet has a least number of members.  Its first member finds out whether
\* the others are in the same partition.
WiredMacs == {"MAC802.3", "SATCOM", "SWITCHED-ETHERNET"}
IsSplit(p, ends, i) == i = 1 /\ \E x \in DOMAIN ends : ~Local(p, ends[x])
Mac802_3Error(p, ends, i) == Len(ends) < 2 \/ IsSplit(p, ends, i)
SatcomError(ends) == Len(ends) < 3
SwitchedEthernetError(p, ends, i) ==
  "ENTERPRISE" \notin Libraries \/ Len(ends) < 2 \/ IsSplit(p, ends, i)
WiredError(p, mac, ends, i) ==
  \/ mac = "MAC802.3" /\ Mac802_3Error(p, ends, i)
  \/ mac = "SATCOM" /\ SatcomError(ends)
  \/ mac = "SWITCHED-ETHERNET" /\ SwitchedEthernetError(p, ends, i)

\* The radios each network accepts, with the library that has them.
Phys4 == {<<"PHY802.11a", "">>, <<"PHY802.11b", "">>, <<"PHY_CHANSWITCH", "">>, <<"PHY-GSM", "CELLULAR">>,
          <<"PHY-CELLULAR", "UMTS">>, <<"PHY-ABSTRACT", "">>, <<"PHY-SPAWAR-LINK16", "LINK16">>,
          <<"SATELLITE-RSV", "SATELLITE">>, <<"PHY802.16", "ADVANCED">>, <<"PHY-JTRS-WNW", "MILITARY">>,
          <<"PHY-JAMMING", "NETSEC">>, <<"PHY802.15.4", "SENSOR">>}
Phys6 == {<<"PHY802.11a", "">>, <<"PHY802.11b", "">>, <<"PHY-GSM", "CELLULAR">>,
          <<"PHY-CELLULAR", "UMTS">>, <<"PHY-ABSTRACT", "">>, <<"PHY-SPAWAR-LINK16", "LINK16">>,
          <<"SATELLITE-RSV", "SATELLITE">>, <<"PHY802.16", "ADVANCED">>, <<"PHY-JTRS-WNW", "MILITARY">>,
          <<"PHY-JAMMING", "NETSEC">>}
PhyError(phy, P) == ~\E x \in P : x[1] = phy /\ x[2] \in Libraries \cup {""}

\* The protocol MacDot11Init is told: PHY-ABSTRACT leaves the one of 802.11b.
PhyModel(phy) == IF phy \in {"PHY802.11a", "PHY_CHANSWITCH"} THEN phy ELSE "PHY802.11b"

\* The MACs of an IPv4 network, and of an IPv6 one.
WirelessMacs == {"CSMA", "MACA", "TDMA", "ALOHA", "GENERICMAC", "MACDOT11", "MACDOT11e"} \X {"WIRELESS"}
Macs4 == WirelessMacs \cup
         {<<"GSM", "CELLULAR">>, <<"ALE", "ALE">>, <<"MAC-SPAWAR-LINK16", "LINK16">>, <<"MAC-LINK-11", "MILITARY">>,
          <<"MAC-LINK-16", "MILITARY">>, <<"USAP", "MILITARY">>, <<"SATELLITE-BENTPIPE", "SATELLITE">>,
          <<"MAC802.16", "ADVANCED">>, <<"CELLULAR-MAC", "CELLULAR">>, <<"CELLULAR-MAC", "UMTS">>,
          <<"MAC-WORMHOLE", "NETSEC">>, <<"MAC802.15.4", "SENSOR">>}
Macs6 == WirelessMacs \cup
         {<<"MAC802.11", "WIRELESS">>, <<"MAC802.16", "ADVANCED">>, <<"SATELLITE-BENTPIPE", "SATELLITE">>,
          <<"USAP", "MILITARY">>, <<"GSM", "CELLULAR">>, <<"CELLULAR-MAC", "CELLULAR">>}
MacError(mac, M) == ~\E x \in M : x[1] = mac /\ x[2] \in Libraries

\* The 802.11 MAC of an IPv4 network is the one that reads the security protocol.
SecurityError(c) == c.mac = "MACDOT11" /\ IsV4(c) /\ "NETSEC" \in Libraries /\ c.security = "word"
Security(c) == IF c.mac = "MACDOT11" /\ IsV4(c) /\ "NETSEC" \in Libraries THEN c.security ELSE "NO"
WormholeError(p, c, ends, i) ==
  c.mac = "MAC-WORMHOLE" /\ (~IsV4(c) \/ Len(ends) < 2 \/ IsSplit(p, ends, i))

RadioError(p, c, ends, i) ==
  \/ c.phy = Unset
  \/ PhyError(c.phy, IF IsV4(c) THEN Phys4 ELSE Phys6)
  \/ MacError(c.mac, IF IsV4(c) THEN Macs4 ELSE Macs6)
  \/ WormholeError(p, c, ends, i)
  \/ SecurityError(c)
AneError == "SATELLITE" \notin Libraries

SubnetError(p, c, ends, i) ==
  CASE c.mac \in WiredMacs -> WiredError(p, c.mac, ends, i)
    [] c.mac = "ANE" -> AneError
    [] OTHER -> RadioError(p, c, ends, i)

\* The radios the node already has give the new one its number.
Radios(n) == Cardinality({k \in DOMAIN nic[n] : nic[n][k].phy >= 0})
IsRadio(c) == c.mac \notin WiredMacs \cup {"ANE"}
WithMac(x, n, c) ==
  [x EXCEPT !.vlan = MacAddVlanInfo(c), !.subnet = Len(members[PartitionOf[n]]),
            !.mac = IF c.mac = "MAC802.11" THEN Unset ELSE c.mac,
            !.phy = IF IsRadio(c) THEN Radios(n) ELSE @,
            !.model = IF IsRadio(c) THEN PhyModel(c.phy) ELSE @,
            !.security = Security(c)]

\* Wired networks have a route to their own subnet from the start.
AddNodeToSubnet(n, k, c) ==
  [WithMac(NewInterface(n, k, c.mac, TRUE), n, c) EXCEPT !.routed = c.mac \in WiredMacs]
AddNodeToIpv6Network(n, k, c) == WithMac(NewInterface(n, k, c.mac, FALSE), n, c)

-----------------------------------------------------------------------------
(* A SUBNET line. *)

\* An index for every member before any interface is built: of a node of its own the
\* partition takes the number, of another one it counts the new interface at once.
SubnetList(p, ends) == [i \in DOMAIN ends |-> [node |-> ends[i], nic |-> count[p][ends[i]]]]

\* MAC_Initialize makes an IPv6 network of the IPv4 one where none is given.
HasIpv4(x) == x.v4
HasNetwork(x) == x.v4 \/ x.v6

MemberError(p, x, i) ==
  LET n == x.ends[i]
      k == count[p][n]
      c == Config(n, k)
  IN  \/ c.mac = Unset
      \/ IsV4(c) /\ ~HasIpv4(x)
      \/ Local(p, n) /\ \/ AddError(n, k, c.mac, IsV4(c))
                        \/ VlanError(c)
                        \/ ~SetMacConfigParameter(c)
                        \/ SubnetError(p, c, x.ends, i)

Built(n, site) ==
  LET k == Len(nic[n])
      c == Config(n, k)
      x == IF IsV4(c) THEN AddNodeToSubnet(n, k, c) ELSE AddNodeToIpv6Network(n, k, c)
  IN  IF IsV6(c) THEN AddIpv6(x, site) ELSE x

\* The site of the IPv6 networks is counted by all partitions together.
ProcessSubnetLine(p, x) ==
  LET list == SubnetList(p, x.ends)
      ends == ToSet(x.ends)
      site == siteCounter + (IF \E m \in ToSet(list) : IsV6(Config(m.node, m.nic)) THEN 1 ELSE 0)
  IN  /\ x.kind = "SUBNET"
      /\ ~\E i \in DOMAIN x.ends : MemberError(p, x, i)
      /\ siteCounter' = site
      /\ nic' = [n \in Nodes |-> IF n \in ends /\ Local(p, n) THEN Append(nic[n], Built(n, site)) ELSE nic[n]]
      /\ count' = [count EXCEPT ![p] = [n \in Nodes |-> @[n] + (IF n \in ends THEN 1 ELSE 0)]]
      /\ members' = [members EXCEPT ![p] = Append(@, list)]

-----------------------------------------------------------------------------
(* A LINK line. *)

\* The second test looks at the type of the first end once more.
LinkIsV4(a, b) == IsV4(a) /\ (b.type \in {"IPV4_ONLY", "DUAL_IP"} \/ a.type \in {"GSM_LAYER3", "CELLULAR"})
LinkIsV6(a, b) == IsV6(a) /\ IsV6(b)

LinkEndError(p, n, k, c, x) ==
  \/ IsV4(c) /\ ~HasIpv4(x)
  \/ Local(p, n) /\ (AddError(n, k, "Link", IsV4(c)) \/ VlanError(c))
LinkError(p, x) ==
  LET n == x.ends[1]
      m == x.ends[2]
      a == Config(n, count[p][n])
      b == Config(m, count[p][m])
  IN  \/ LinkEndError(p, n, count[p][n], a, x)
      \/ LinkEndError(p, m, count[p][m], b, x)
      \/ ~LinkIsV4(a, b) /\ ~LinkIsV6(a, b)
      \/ HwError(n, count[p][n], "Link", LinkIsV4(a, b)) /\ Local(p, m)
      \/ HwError(m, count[p][m], "Link", LinkIsV4(a, b)) /\ Local(p, n)

\* Each end works out the hardware address of the other one by itself, and runs the
\* MAC its own configuration names.
CreateLink(n, c, m, k) ==
  LET mac == IF c.link = Unset THEN "ABSTRACT" ELSE c.link
  IN  [NewInterface(n, Len(nic[n]), "Link", IsV4(c)) EXCEPT
         !.mac = mac,
         !.routed = TRUE,
         !.peer = [node |-> m, nic |-> k,
                   hw |-> IF mac = "ABSTRACT" THEN ConvertTo802(MacConfigureHWAddress(m, k, "Link")) ELSE Unset]]
CreateIpv6Link(n, c, m, k) == [CreateLink(n, c, m, k) EXCEPT !.routed = FALSE]

\* Only the second end of an IPv4 link is asked for its VLAN.
LinkEnd(n, m, k, v4, second, site) ==
  LET c == Config(n, Len(nic[n]))
      x == IF v4 THEN CreateLink(n, c, m, k) ELSE CreateIpv6Link(n, c, m, k)
      y == [x EXCEPT !.vlan = IF second \/ IsV6(c) THEN MacAddVlanInfo(c) ELSE Unset]
  IN  IF IsV6(c) THEN AddIpv6(y, site) ELSE y

ProcessLinkLine(p, x) ==
  LET n == x.ends[1]
      m == x.ends[2]
      a == Config(n, count[p][n])
      b == Config(m, count[p][m])
      site == siteCounter + (IF IsV6(a) THEN 1 ELSE 0)
      v4 == LinkIsV4(a, b)
  IN  /\ x.kind = "LINK"
      /\ ~LinkError(p, x)
      /\ siteCounter' = site
      /\ nic' = [y \in Nodes |->
                   IF ~Local(p, y) \/ y \notin {n, m} THEN nic[y]
                   ELSE IF y = n THEN Append(nic[n], LinkEnd(n, m, count[p][m], v4, FALSE, site))
                   ELSE Append(nic[m], LinkEnd(m, n, count[p][n], v4, TRUE, site))]
      /\ count' = [count EXCEPT ![p][n] = @ + 1, ![p][m] = @ + 1]
      /\ UNCHANGED members

-----------------------------------------------------------------------------
(* The fault file and the switches. *)

\* A line names the address of an interface, with the times of a configured fault or
\* the distributions of random ones.
FaultLineError(p, x) ==
  \/ x.entries < 4
  \/ x.what # "INTERFACE-FAULT"
  \/ x.at = Unset
  \/ /\ x.at # Unset
     /\ Local(p, x.at[1])
     /\ \/ x.at[2] >= Len(nic[x.at[1]])
        \/ ~x.random /\ x.end > 0 /\ x.end < x.start
        \/ ~x.random /\ x.end > 0 /\ x.card = "null"
FaultMessages(x) ==
  IF x.random THEN <<[event |-> "random", nic |-> x.at[2]]>>
  ELSE <<[event |-> "start", nic |-> x.at[2], at |-> x.start]>> \o
       (IF x.end > 0 THEN <<[event |-> "end", nic |-> x.at[2], at |-> x.end, card |-> x.card]>> ELSE <<>>)
FaultLine(p, x) ==
  /\ ~FaultLineError(p, x)
  /\ faults' = [n \in Nodes |->
       IF n = x.at[1] /\ Local(p, n) THEN faults[n] \o FaultMessages(x) ELSE faults[n]]

SwitchError(p) ==
  \E n \in Nodes : Local(p, n) /\ setup.switch[n] \notin {Unset, "YES", "NO"}

-----------------------------------------------------------------------------
Lines == setup.lines
FaultLines == setup.faults
AtLine(p) == pos[p] <= Len(Lines)
AtFault(p) == pos[p] > Len(Lines) /\ pos[p] <= Len(Lines) + Len(FaultLines)
IsDone(p) == pos[p] > Len(Lines) + Len(FaultLines)

Init ==
  /\ setup \in Setups
  /\ pos = [p \in Partitions |-> 1]
  /\ count = [p \in Partitions |-> [n \in Nodes |-> 0]]
  /\ nic = [n \in Nodes |-> <<>>]
  /\ members = [p \in Partitions |-> <<>>]
  /\ siteCounter = 0
  /\ faults = [n \in Nodes |-> <<>>]
  /\ exited = FALSE

ReadLine(p) ==
  /\ ~exited /\ AtLine(p)
  /\ HasNetwork(Lines[pos[p]])
  /\ ProcessSubnetLine(p, Lines[pos[p]]) \/ ProcessLinkLine(p, Lines[pos[p]])
  /\ pos' = [pos EXCEPT ![p] = @ + 1]
  /\ UNCHANGED <<setup, faults, exited>>

\* The switches are set up after the last line and before the first fault.
ReadFault(p) ==
  /\ ~exited /\ AtFault(p)
  /\ ~SwitchError(p)
  /\ FaultLine(p, FaultLines[pos[p] - Len(Lines)])
  /\ pos' = [pos EXCEPT ![p] = @ + 1]
  /\ UNCHANGED <<setup, count, nic, members, siteCounter, exited>>

\* A line that cannot be read ends the simulation, for all partitions.
Refuse(p) ==
  /\ ~exited
  /\ \/ /\ AtLine(p)
        /\ LET x == Lines[pos[p]]
           IN  \/ ~HasNetwork(x)
               \/ x.kind = "SUBNET" /\ \E i \in DOMAIN x.ends : MemberError(p, x, i)
               \/ x.kind = "LINK" /\ LinkError(p, x)
     \/ ~AtLine(p) /\ SwitchError(p)
     \/ AtFault(p) /\ FaultLineError(p, FaultLines[pos[p] - Len(Lines)])
  /\ exited' = TRUE
  /\ UNCHANGED <<setup, pos, count, nic, members, siteCounter, faults>>

Next == \E p \in Partitions : ReadLine(p) \/ ReadFault(p) \/ Refuse(p)

-----------------------------------------------------------------------------
(* Properties. *)

HasRead(p) == IF AtLine(p) THEN pos[p] - 1 ELSE Len(Lines)

\* Partitions that have read the same lines count the same interfaces of every node,
\* their own and the others', and list the same members of every subnet.
IndicesAgree ==
  /\ \A p, q \in Partitions : HasRead(p) = HasRead(q) => count[p] = count[q] /\ members[p] = members[q]
  /\ \A n \in Nodes : count[PartitionOf[n]][n] = Len(nic[n])
  /\ \A p, q \in Partitions : \A s \in DOMAIN members[p] \cap DOMAIN members[q] : members[p][s] = members[q][s]

\* The member that any partition lists is the interface its own partition builds for
\* this subnet; the interfaces a subnet has are all listed, and have different
\* addresses unless their user chose them.
MembersAreBuilt ==
  \A p \in Partitions : \A s \in DOMAIN members[p] :
    \A m \in ToSet(members[p][s]) :
      LET q == PartitionOf[m.node]
      IN  s \in DOMAIN members[q] =>
            /\ m.nic < Len(nic[m.node])
            /\ nic[m.node][m.nic + 1].subnet = s - 1
            /\ \A o \in ToSet(members[p][s]) \ {m} :
                 s \in DOMAIN members[PartitionOf[o.node]] /\ ~nic[m.node][m.nic + 1].hw.own =>
                   nic[o.node][o.nic + 1].hw # nic[m.node][m.nic + 1].hw

\* Two ends of a link that are both there know each other, by index and by the
\* hardware address the other one has.
LinkEndsMeet ==
  \A n \in Nodes : \A k \in DOMAIN nic[n] :
    LET e == nic[n][k].peer
    IN  e # Unset /\ e.nic < Len(nic[e.node]) =>
          LET o == nic[e.node][e.nic + 1]
          IN  /\ o.peer # Unset /\ o.peer.node = n /\ o.peer.nic = k - 1
              /\ e.hw \in {Unset, Unreadable, o.hw}

\* What the table of the running MAC makes of the address of an interface is the
\* hardware address the table of the configured names gave it, and leads back.
AddressesTranslate ==
  \A n \in Nodes : \A k \in DOMAIN nic[n] :
    LET x == nic[n][k]
        h == IPv4AddressToHWAddress(x.mac, n, k - 1)
    IN  x.ip # "IPV6" /\ x.mac # Unset /\ ~x.hw.own =>
          h = x.hw /\ (h.length # 2 \/ k = 1 => MacHWAddressToIpv4Address(h) = <<n, k - 1>>)

\* Once all have read it, every line of the fault file is scheduled once, on the node
\* that has the interface.
FaultsOnce ==
  (\A p \in Partitions : IsDone(p)) =>
    \A n \in Nodes :
      Len(faults[n]) = SumFunction([i \in DOMAIN FaultLines |->
        IF FaultLines[i].at[1] = n THEN Len(FaultMessages(FaultLines[i])) ELSE 0])

SetupIsWhole == IndicesAgree /\ MembersAreBuilt /\ LinkEndsMeet /\ AddressesTranslate /\ FaultsOnce
=============================================================================
