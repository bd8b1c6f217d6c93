----------------------------- MODULE BootChain -----------------------------
(***************************************************************************)
(* How a machine boots from the server: its firmware is given iPXE by the  *)
(* ProxyDHCP server and TFTP, iPXE the script /boot.ipxe, the script an    *)
(* image of GRUB, and GRUB the menu and an image, each from the address    *)
(* that the step before has handed on.  Files are prepared, the address is *)
(* changed and the program ends and starts again meanwhile (BootFiles).    *)
(*                                                                         *)
(* Firmware, iPXE and GRUB are no part of the program: of them there is    *)
(* what they send, and which address they turn to.                         *)
(***************************************************************************)
EXTENDS BootFiles

CONSTANTS
  DHCPLinks,  \* the interfaces that DHCPInterface may name, NoLink for none
  Machines,   \* [firmware, arch, class: its iPXE's user class, pads, ends]
  Strangers   \* other packets that come to port 67

ASSUME BootChainAssumption ==
  DHCPLinks \subseteq 0..Len(Links)

\* Firmware names the architecture it is for, and iPXE itself.
ASSUME MachinesAssumption ==
  \A m \in Machines :
    /\ <<m.firmware, m.arch>> \in
         {<<"bios", <<0, 0>> >>, <<"efi64", <<0, 7>> >>, <<"efi64", <<0, 9>> >>,
          <<"efi32", <<0, 6>> >>, <<"arm64", <<0, 11>> >>}
    /\ m.class \in Seq(Nat) /\ Mentions(m.class, IPXE)
    /\ m.pads \in Seq({0}) /\ m.ends \in BOOLEAN

VARIABLES
  link,     \* the interface that ProxyDHCP was started for
  machine,  \* the machine
  home,     \* the server's address in the machine's network
  offered,  \* the menu has an enabled entry
  stage,    \* how far the machine is
  wire,     \* the requests under way
  air,      \* the answers under way
  file,     \* the binary the machine has been told to load
  base,     \* the address the machine turns to
  loaded,   \* the binary that runs, or NoFile: the firmware
  calm      \* nothing has disturbed this boot

machineVars == <<link, machine, home, offered, stage, wire, air, file, base, loaded, calm>>
vars == <<filesVars, machineVars>>

NoFile == 0
NoMachine == [firmware |-> "none", arch |-> <<>>, class |-> <<>>, pads |-> <<>>, ends |-> TRUE]

\* A machine reaches the server at its address in the machine's own network.
Reaches(address) == program = "up" /\ address = home

-----------------------------------------------------------------------------
(* What clients send.                                                      *)

Mine == 1

Written(c, value, m) == m.pads \o Option(c, value)

\* The binary that runs, if any, has a user class.
Packet(type, m, binary) ==
  [op |-> 1, cookie |-> TRUE, xid |-> Mine, giaddr |-> NoAddress, peer |-> NoAddress, port |-> 68,
   area |-> Written(MessageType, <<type>>, m) \o Written(ClientArch, m.arch, m)
              \o Written(VendorClass, <<PXEClient, 7>>, m)
              \o (IF binary = NoFile THEN <<>> ELSE Written(UserClass, m.class, m))
              \o (IF m.ends THEN <<End>> ELSE <<>>),
   meant |-> {<<MessageType, <<type>> >>, <<ClientArch, m.arch>>, <<VendorClass, <<PXEClient, 7>> >>}
               \cup (IF binary = NoFile THEN {} ELSE {<<UserClass, m.class>>})]

\* An answer to a request that was given up has another transaction number, and is left
\* out as soon as the next request is sent.
Send(type, m, binary) == wire' = {Packet(type, m, binary)} /\ air' = {}

-----------------------------------------------------------------------------
(* ProxyDHCP on the wire.                                                  *)

\* Somebody else's packet; nobody here waits for the answer.
Stray ==
  /\ stage = "off" /\ wire = {}
  /\ \E p \in Strangers : wire' = {p}
  /\ air' = {}
  /\ UNCHANGED <<filesVars, link, machine, home, offered, stage, file, base, loaded, calm>>

\* Nobody listens while the program is down.
Handle ==
  /\ \E p \in wire : \E options \in {Parse(p.area)} :
       /\ wire' = wire \ {p}
       /\ air' = IF program = "up" /\ Answers(p, link)
                 THEN air \cup {Answer(p, options, serverIP, link)} ELSE air
  /\ UNCHANGED <<filesVars, link, machine, home, offered, stage, file, base, loaded, calm>>

Lose ==
  /\ stage # "off" /\ Fault
  /\ \/ \E p \in wire : wire' = wire \ {p} /\ air' = air
     \/ \E r \in air : air' = air \ {r} /\ wire' = wire
  /\ calm' = FALSE
  /\ UNCHANGED <<program, serverIP, disk, prep, prefix, failed, stale, link, machine, home, offered, stage, file, base, loaded>>

-----------------------------------------------------------------------------
(* The machine.                                                            *)

Waiting == stage \in {"discover", "request"}
Awaited == IF stage = "request" THEN Ack ELSE Offer
AskedFor == IF stage = "request" THEN Request ELSE Discover

\* What the firmware and iPXE look for in an answer.
Acceptable(r) ==
  /\ r.op = 2 /\ r.cookie /\ r.xid = Mine /\ r.to = 68
  /\ \E options \in {Parse(r.area)} :
       /\ Type(options) = <<Awaited>> /\ Value(options, VendorClass) = <<PXEClient>>
       /\ Has(options, TftpServer) /\ Has(options, BootFileName)

\* Here for good: the program is up, the preparation has ended well, and both addresses,
\* the one that ProxyDHCP hands out and the one in the images, are the machine's.
Undisturbed(m, h) ==
  /\ program = "up" /\ prep.at = "done" /\ ~failed /\ ~stale
  /\ m.firmware # "arm64"
  /\ ServerIP(serverIP, link, NoAddress) = h
  /\ (IF serverIP = NoAddress THEN LocalIPFor(NoAddress) ELSE serverIP) = h

PowerOn ==
  /\ stage = "off" /\ wire = {}
  /\ machine' \in Machines /\ home' \in DOMAIN Net
  /\ Send(Discover, machine', NoFile)
  /\ stage' = "discover" /\ loaded' = NoFile /\ file' = NoFile /\ base' = NoAddress
  /\ calm' = Undisturbed(machine', home')
  /\ UNCHANGED <<filesVars, link, offered>>

\* An offer may be confirmed before it is used.
Confirm ==
  /\ stage = "discover" /\ \E r \in air : Acceptable(r)
  /\ Send(Request, machine, loaded)
  /\ stage' = "request"
  /\ UNCHANGED <<filesVars, link, machine, home, offered, file, base, loaded, calm>>

\* The boot file is a name at the TFTP server, or the URL of the script.
Take ==
  /\ Waiting
  /\ \E r \in air : \E options \in {Parse(r.area)} :
       LET bootfile == Value(options, BootFileName) IN
           /\ Acceptable(r)
           /\ IF bootfile[1] = BootIpxeURL
              THEN stage' = "script" /\ base' = bootfile[2] /\ file' = NoFile
              ELSE stage' = "tftp" /\ base' = Value(options, TftpServer)[1] /\ file' = bootfile[1]
  /\ wire' = {} /\ air' = {}
  /\ UNCHANGED <<filesVars, link, machine, home, offered, loaded, calm>>

Unanswered == Waiting /\ wire = {} /\ ~\E r \in air : Acceptable(r)

\* Asking again is left out where it would only bring the same: nobody listens, or the
\* answer was no use.
Again ==
  /\ Unanswered /\ program = "up" /\ air = {}
  /\ Send(AskedFor, machine, loaded)
  /\ UNCHANGED <<filesVars, link, machine, home, offered, stage, file, base, loaded, calm>>

GiveUp ==
  /\ Unanswered
  /\ stage' = "stuck"
  /\ UNCHANGED <<filesVars, link, machine, home, offered, wire, air, file, base, loaded,
                 calm>>

\* The binary for each firmware; there is none for arm64.
Runs(firmware) ==
  CASE firmware = "bios" -> Undionly [] firmware = "efi64" -> IpxeEfi
    [] firmware = "efi32" -> Ipxe32Efi [] OTHER -> NoFile

\* From TFTP, as the file is at this moment; iPXE then asks on its own.
LoadBinary ==
  /\ stage = "tftp"
  /\ IF Reaches(base) /\ disk[file].is = "whole" /\ file = Runs(machine.firmware)
     THEN /\ Send(Discover, machine, file)
          /\ stage' = "discover" /\ loaded' = file
     ELSE stage' = "stuck" /\ UNCHANGED <<wire, air, loaded>>
  /\ UNCHANGED <<filesVars, link, machine, home, offered, file, base, calm>>

-----------------------------------------------------------------------------
(* The script, GRUB and the menu, over HTTP.                               *)

\* The address in a page: the one configured, or the one the client has used.
HTTPBaseConfigured(host) == serverIP
HTTPBase(host) == IF serverIP # NoAddress THEN serverIP ELSE host

\* /boot.ipxe, run by the binary that is loaded.
GrubFor(binary) ==
  CASE binary = Undionly -> GrubBios [] binary = Ipxe32Efi -> GrubIa32 [] OTHER -> GrubX64

\* A step that needs the server at base goes on with another address, or ends the boot.
Fetch(from, to, canGo, next) ==
  /\ stage = from
  /\ IF Reaches(base) /\ canGo THEN stage' = to /\ base' = next
     ELSE stage' = "stuck" /\ base' = base
  /\ UNCHANGED <<filesVars, link, machine, home, wire, air, file, loaded, calm>>

FetchScript == Fetch("script", "chain", TRUE, HTTPBase(base)) /\ offered' = offered

\* GRUB then reads its configuration at the address inside the image.
ChainGrub ==
  LET image == disk[GrubFor(loaded)] IN
  Fetch("chain", "grub", image.is = "whole", image.prefix) /\ offered' = offered

ReadMenu == Fetch("grub", "menu", TRUE, HTTPBase(base)) /\ offered' \in BOOLEAN

BootEntry == offered /\ Fetch("menu", "booted", TRUE, base) /\ offered' = offered

\* The first item is chosen when the time is over: without an entry, "Reboot".
Reboot ==
  /\ stage = "menu" /\ ~offered
  /\ stage' = "off" /\ machine' = NoMachine /\ home' = NoAddress
  /\ file' = NoFile /\ base' = NoAddress /\ loaded' = NoFile /\ calm' = FALSE
  /\ UNCHANGED <<filesVars, link, offered, wire, air>>

-----------------------------------------------------------------------------
\* The server's own steps, and what they do to a boot under way.
Server ==
  \/ Prepare /\ UNCHANGED machineVars
  \/ (SetAddress \/ Crash) /\ calm' = FALSE
       /\ UNCHANGED <<link, machine, home, offered, stage, wire, air, file, base, loaded>>
  \/ Restart /\ link' \in DHCPLinks
       /\ UNCHANGED <<machine, home, offered, stage, wire, air, file, base, loaded, calm>>

Machine ==
  \/ PowerOn \/ Confirm \/ Take \/ Again \/ GiveUp \/ LoadBinary
  \/ FetchScript \/ ChainGrub \/ ReadMenu \/ BootEntry \/ Reboot

Init ==
  /\ FilesInit
  /\ link = NoLink /\ machine = NoMachine /\ home = NoAddress /\ offered = FALSE
  /\ stage = "off" /\ wire = {} /\ air = {} /\ file = NoFile /\ base = NoAddress /\ loaded = NoFile
  /\ calm = FALSE

Next == Server \/ Machine \/ Stray \/ Handle \/ Lose

Ended == stage \in {"booted", "stuck"}

Goes == stage # "off" /\ ~Ended /\ UNCHANGED <<prep, program, serverIP>> /\ (Handle \/ Machine)

\* A machine that is on goes on, and a packet is handled or lost.
Spec ==
  Init /\ [][Next]_vars /\ WF_vars(Goes)

-----------------------------------------------------------------------------
(* Properties.                                                             *)

\* Each variable has its type; the preparation is never past its files.
TypeOK ==
  /\ FilesTypeOK
  /\ link \in DHCPLinks \cup {NoLink} /\ machine \in Machines \cup {NoMachine}
  /\ home \in DOMAIN Net \cup {NoAddress} /\ offered \in BOOLEAN /\ calm \in BOOLEAN
  /\ stage \in {"off", "discover", "request", "tftp", "script", "chain", "grub", "menu",
                "booted", "stuck"}
  /\ file \in IpxeNames \cup {NoFile} /\ loaded \in IpxeNames \cup {NoFile}

\* However a client arranges its options, with padding and without an end mark, the
\* server reads each one, and the client reads each one of the answer's; the exception
\* is an answer for an address that is no IPv4 one.
PacketsReadBack ==
  \A p \in wire \cup air :
    (\A o \in p.meant : o[1] = ServerID => o[2][1] \notin IPv6s) => Parse(p.area) = p.meant

\* The firmware is told to load the binary of its own architecture, of the two codes for
\* x64 too, and iPXE is never told to load a binary again.
RightBinary ==
  stage = "tftp" /\ machine.firmware # "arm64" =>
    file = Runs(machine.firmware) /\ loaded = NoFile

\* In a network where ProxyDHCP and the images name the right address, and as long as
\* nothing is lost, changed or ended, no boot gets stuck at any of its steps, whatever
\* crashes, failed downloads and former addresses came before.
CalmBoots == calm => stage # "stuck"

\* A boot ends, with an entry of the menu or with an error, and only an empty menu starts
\* the machine again: none goes round from iPXE to iPXE, and none waits for ever.
BootEnds == stage # "off" ~> Ended \/ (stage = "off" /\ ~offered)
=============================================================================
