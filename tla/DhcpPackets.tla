---------------------------- MODULE DhcpPackets ----------------------------
(***************************************************************************)
(* The packets of the ProxyDHCP server and its answer to each              *)
(* (internal/proxydhcp/packet.go, handle of proxydhcp.go), with the        *)
(* queries of the host's addresses (internal/netif).                       *)
(*                                                                         *)
(* The area of options is a sequence of numbers.  An address is one number,*)
(* and so is each word a client looks for.                                 *)
(***************************************************************************)
EXTENDS Integers, Sequences

CONSTANTS
  IPv6s,  \* addresses that net.ParseIP takes and To4 does not
  Names,  \* what may stand for server_ip and is no address
  Links,  \* the network interfaces in their order: [up, loopback, addresses]
  Net     \* per address of the host: the peers in its network

NoAddress == 0   \* server_ip left empty; also the address of a client that has none yet
Local == 1  \* 127.0.0.1
NoLink == 0

ASSUME AddressAssumption ==
  /\ IPv6s \cup Names \subseteq Nat \ {NoAddress, Local} /\ IPv6s \cap Names = {}
  /\ DOMAIN Net \subseteq Nat \ (IPv6s \cup Names \cup {NoAddress, Local})
  /\ \A a \in DOMAIN Net : NoAddress \notin Net[a]
  /\ Len(Links) \in Nat
  /\ \A i \in 1..Len(Links) : Links[i].addresses \in Seq(DOMAIN Net)

-----------------------------------------------------------------------------
(* Interfaces.                                                             *)

\* Where the addresses of the interfaces that are up stand: link and place.
Usable ==
  UNION {{<<i, k>> : k \in 1..Len(Links[i].addresses)} :
           i \in {j \in 1..Len(Links) : Links[j].up /\ ~Links[j].loopback}}

AddressAt(u) == Links[u[1]].addresses[u[2]]
FirstOf(places) ==
  CHOOSE u \in places : \A v \in places : u[1] < v[1] \/ (u[1] = v[1] /\ u[2] <= v[2])

LocalIPFor(peer) ==
  LET near == {u \in Usable : peer \in Net[AddressAt(u)]} IN
  IF Usable = {} THEN Local
  ELSE AddressAt(FirstOf(IF near # {} THEN near ELSE Usable))

HasPrimary(link) == link # NoLink /\ Links[link].addresses # <<>>
PrimaryIPv4(link) == Links[link].addresses[1]
Contains(link, ip) == \E k \in 1..Len(Links[link].addresses) : ip \in Net[Links[link].addresses[k]]

-----------------------------------------------------------------------------
(* The format.                                                             *)

MessageType == 53
ServerID == 54
VendorClass == 60
TftpServer == 66
BootFileName == 67
UserClass == 77
ClientArch == 93
End == 255

Discover == 1
Offer == 2
Request == 3
Ack == 5

\* Words.
PXEClient == 1000
IPXE == 1001
NilText == 1002
BootIpxeURL == 1003

\* A set of pairs, one for each code.
NoOptions == {}
Has(options, c) == \E o \in options : o[1] = c
Value(options, c) == IF Has(options, c) THEN (CHOOSE o \in options : o[1] = c)[2] ELSE <<>>

\* An option in front of the rest: of two with the same code the later one wins.
Preceded(rest, c, value) == IF Has(rest, c) THEN rest ELSE rest \cup {<<c, value>>}

\* parse: from option to option.  (Here and below a value that is used more than once is
\* bound by a quantifier or a set, so that TLC computes it once.)
ParseStrict(area) ==
  LET n == Len(area)
      from[i \in 1..(n + 1)] ==
        IF i > n THEN NoOptions
        ELSE IF area[i] = 0 THEN from[i + 1]
        ELSE IF area[i] = End \/ i + 1 > n THEN NoOptions
        ELSE IF i + 1 + area[i + 1] >= n THEN NoOptions
        ELSE UNION {Preceded(rest, area[i], SubSeq(area, i + 2, i + 1 + area[i + 1])) :
                       rest \in {from[i + 2 + area[i + 1]]}}
  IN  from[1]

Parse(area) ==
  LET n == Len(area)
      from[i \in 1..(n + 1)] ==
        IF i > n THEN NoOptions
        ELSE IF area[i] = 0 THEN from[i + 1]
        ELSE IF area[i] = End \/ i + 1 > n THEN NoOptions
        ELSE IF i + 1 + area[i + 1] > n THEN NoOptions
        ELSE UNION {Preceded(rest, area[i], SubSeq(area, i + 2, i + 1 + area[i + 1])) :
                       rest \in {from[i + 2 + area[i + 1]]}}
  IN  from[1]

To4(ip) == IF ip \in IPv6s THEN <<>> ELSE <<ip>>
Text(ip) == IF ip \in IPv6s THEN <<NilText>> ELSE <<ip>>

Option(c, value) == <<c, Len(value)>> \o value

\* build: the length of the server identifier is a constant, whatever To4 gives; the
\* area begins with what is left of the first 300 bytes.
Build(type, ip, bootfile) ==
  <<0, 0>> \o Option(MessageType, <<type>>) \o <<ServerID, 1>> \o To4(ip)
    \o Option(VendorClass, <<PXEClient>>) \o Option(TftpServer, Text(ip))
    \o Option(BootFileName, bootfile) \o <<End>>

-----------------------------------------------------------------------------
(* handle.                                                                 *)

\* Architectures as option 93 writes them.
ArchBIOS == <<0, 0>>
File(name) == <<name>>
Undionly == 2001
IpxeEfi == 2002
Ipxe32Efi == 2003

BootFileNoEBC(arch, isIPXE, url) ==
  IF isIPXE THEN url
  ELSE CASE arch = <<0, 7>> -> File(IpxeEfi)
         [] arch = <<0, 6>> -> File(Ipxe32Efi)
         [] arch = <<0, 11>> -> File(IpxeEfi)
         [] OTHER -> File(Undionly)

BootFile(arch, isIPXE, url) ==
  IF isIPXE THEN url
  ELSE CASE arch \in {<<0, 7>>, <<0, 9>>} -> File(IpxeEfi)
         [] arch = <<0, 6>> -> File(Ipxe32Efi)
         [] arch = <<0, 11>> -> File(IpxeEfi)
         [] OTHER -> File(Undionly)

ServerIP(configured, link, peer) ==
  IF configured # NoAddress /\ configured \notin Names THEN configured
  ELSE IF HasPrimary(link) THEN PrimaryIPv4(link)
  ELSE LocalIPFor(peer)

Type(options) == Value(options, MessageType)
StartsWith(value, word) == value # <<>> /\ value[1] = word
Mentions(value, word) == \E k \in 1..Len(value) : value[k] = word
MentionsOnly(value, word) == value = <<word>>

Answers(p, link) ==
  /\ p.cookie /\ p.op = 1
  /\ \E options \in {Parse(p.area)} :
       /\ StartsWith(Value(options, VendorClass), PXEClient)
       /\ Type(options) \in {<<Discover>>, <<Request>>}
  /\ link # NoLink => p.giaddr = NoAddress \/ Contains(link, p.giaddr)

IsIPXEExactly(options) == MentionsOnly(Value(options, UserClass), IPXE)
IsIPXE(options) == Mentions(Value(options, UserClass), IPXE)

\* The answer to a packet with these options, and the port it goes to: 68 of everybody, or back to port 4011.
Answer(p, options, configured, link) ==
  LET option93 == Value(options, ClientArch)
      arch == IF Len(option93) = 2 THEN option93 ELSE ArchBIOS
      sip == ServerIP(configured, link, p.peer)
      url == <<BootIpxeURL>> \o Text(sip)
      bootfile == BootFile(arch, IsIPXE(options), url)
      type == IF Type(options) = <<Request>> THEN Ack ELSE Offer
  IN  [op |-> 2, cookie |-> TRUE, xid |-> p.xid, giaddr |-> p.giaddr,
       area |-> Build(type, sip, bootfile),
       to |-> IF p.port = 4011 THEN 4011 ELSE 68,
       meant |-> {<<MessageType, <<type>> >>, <<ServerID, <<sip>> >>,
                  <<VendorClass, <<PXEClient>> >>, <<TftpServer, <<sip>> >>,
                  <<BootFileName, bootfile>>}]
=============================================================================
