------------------------------ MODULE MCBoot ------------------------------
\* Two networks and an interface without an address; machines of each kind of firmware
\* whose packets differ in padding, end mark and user class; packets of others.
EXTENDS BootChain, TLC

\* Addresses of the host, what the console may set, and a relay agent.
A == 11
B == 12
V6 == 13
Host == 14
Relay == 21
MCLinks == <<[up |-> FALSE, loopback |-> FALSE, addresses |-> <<>>],
             [up |-> TRUE, loopback |-> FALSE, addresses |-> <<A>>],
             [up |-> TRUE, loopback |-> FALSE, addresses |-> <<B>>]>>
MCNet == (A :> {A}) @@ (B :> {B, Relay})
MCIPv6s == {V6}
MCNames == {Host}
MCConfigured == {NoAddress, B, V6}
MCDHCPLinks == {NoLink, 3}

Kind(firmware, arch, class, pads, ends) ==
  [firmware |-> firmware, arch |-> arch, class |-> class, pads |-> pads, ends |-> ends]
MCMachines ==
  {Kind("bios", <<0, 0>>, <<IPXE>>, <<>>, TRUE),
   Kind("efi64", <<0, 7>>, <<4, IPXE>>, <<>>, FALSE),
   Kind("efi64", <<0, 9>>, <<IPXE>>, <<0, 0>>, TRUE),
   Kind("efi32", <<0, 6>>, <<IPXE>>, <<0>>, FALSE),
   Kind("arm64", <<0, 11>>, <<IPXE>>, <<>>, TRUE)}

Plain == [Packet(Discover, [arch |-> <<0, 0>>, class |-> <<>>, pads |-> <<>>, ends |-> TRUE], NoFile)
            EXCEPT !.xid = 2]
MCStrangers ==
  {[Plain EXCEPT !.op = 2],
   [Plain EXCEPT !.cookie = FALSE],
   [Plain EXCEPT !.giaddr = Relay, !.peer = Relay],
   [Plain EXCEPT !.port = 4011, !.peer = Relay],
   [Plain EXCEPT !.area = <<MessageType, 1, 8>>, !.meant = {<<MessageType, <<8>> >>}],
   [Plain EXCEPT !.area = @ \o <<VendorClass, 1, 6>>],
   [Plain EXCEPT !.area = SubSeq(@, 1, Len(@) - 2), !.meant = {o \in @ : o[1] # VendorClass}],
   [Plain EXCEPT !.area = SubSeq(@, 1, Len(@) - 4), !.meant = {o \in @ : o[1] # VendorClass}]}
===========================================================================
