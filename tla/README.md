# iPXE-ISOboot in TLA+

iPXE-ISOboot is one Go binary that lets machines boot ISO images over the
network: a TFTP server, a ProxyDHCP server, an HTTP server with a console, and a
store of menu entries, all in one process. This directory holds TLA+ modules of
its parts, TLC configurations that check them on small instances, and proofs that
TLAPS checks for every instance. `src/` below is the root of the repository.

    tlc -workers 2 -config MCTftp.cfg MCTftp        # model-check
    tlapm TftpProofs.tla                            # check the proofs

`PROJECT.json` lists every run, the code lines behind every definition, and for
each property a bug of the code (a *mutant*) that the property catches. These bugs
are operators such as `TryLeftOneMore`, placed right before the definition they vary;
no other definition uses them.

## The system

| Part | State | Operations | Talks to |
|---|---|---|---|
| TFTP server (`internal/tftp`) | per request: a goroutine with its UDP port, open file, block number, number of tries | `handle`, `sendWaitACK`, `waitACK` | PXE firmware, by UDP |
| ProxyDHCP manager (`internal/proxydhcp/manager.go`) | `running`, `server`, a mutex | `Start`, `Stop`, `Apply`, `Running`, the error callback in `Start` | the console's handlers; one goroutine per `Server` |
| ProxyDHCP server (`proxydhcp.go`, `packet.go`) | `conn`, `ifc` | `Serve`, `Stop`, `handle` (`parse`, `bootFile`, `build`) | PXE firmware and iPXE, by broadcast |
| Menu store (`internal/menu`) | a map of entries under an RWMutex, `menu.json` | `New`, `List`, `Get`, `Put`, `Delete`, `save` | the console's handlers, `grub.cfg` |
| Configuration (`internal/config`) | one `Config` shared by pointer, `config.json` | `Load`, `Save` | everybody; its fields are read and written without a lock |
| Console API (`internal/web/api.go`) | none of its own; the directory `data/iso` | config, menu, upload, quick-add, delete-iso, preview | menu store, configuration, manager, ISO analysis |
| Sessions (`internal/web/auth.go`) | token table under an RWMutex | `handleLogin`, `auth` | every API handler |
| ISO reader and analysis (`internal/iso`) | none | `Open`, `readDir`, `Walk`, `Analyze` | quick-add |
| Generators (`internal/grubcfg`, `internal/ipxescript`) | none | `Generate`, `recipe`, `Boot` | menu store; read by GRUB and iPXE |
| Boot files (`internal/bootfiles`) | files under `data/tftp` | `EnsureIPXE`, `EnsureGRUB`, `download` | run once, in the background, at startup |
| Network interfaces (`internal/netif`) | none | queries of the system | ProxyDHCP, boot files, console |
| Startup and shutdown (`main.go`) | none | starts all of the above | |

The boot chain runs through all of them: firmware asks DHCP, ProxyDHCP adds the
name of an iPXE binary, TFTP delivers it, iPXE asks DHCP again and is sent to
`/boot.ipxe`, which loads a GRUB image from `/grub/`, which reads `grub.cfg`,
generated from the menu, whose entries name files under `/files/iso/`.

What is hard in it:

- **Concurrency.** Each TFTP request, each DHCP packet and each HTTP request runs
  on a goroutine of its own. Two parts release their lock before the operation is
  over: `Manager.Apply` between `Stop` and `Start`, and `Store.Put`/`Delete`
  between changing the map and saving it. The configuration and `Server.conn` are
  shared without any lock.
- **The network.** TFTP runs over datagrams that are lost, repeated and reordered;
  the client may ask twice and be served by two sessions, or disappear.
- **Crashes and failing disks.** Both JSON files are written to `.tmp` and renamed.
- **Numbers.** Block numbers are 16 bits wide and wrap in files of more than
  65535 blocks.

What makes each part correct:

- *TFTP*: what the client accepts is the file, block by block; a session logged as
  done was delivered; the session of a repeated request does not disturb the
  other; few faults do not end a transfer; every goroutine ends.
- *ProxyDHCP manager*: the status the console shows is true; failures show; an
  enabled server is served and a disabled one silent, after any number of saves.
- *Menu store*: an update answered with success survives a restart; the program
  can always read back what it wrote; a failed save changes nothing on disk.
- *Configuration*: the same as the menu store, and a restart brings back what was
  saved.
- *Library (API, uploads)*: entries have names of their own, orders do not collide, an
  offered ISO exists and is whole.
- *ISO analysis and grub.cfg*: the family chosen for an image names files the
  image has.
- *Boot files*: a file under its final name is complete.
- *DHCP packets*: options read back as they were written; no reply to a client
  that is not booting by PXE.
- *The boot as a whole*: each machine gets the binary it can run, a boot in a network that is
  set up right ends at an entry, and no boot goes round or waits for ever.
- *Sessions*: an expired token opens nothing.

## The modules

| Module | Role |
|---|---|
| `FileDelivery` | abstract: a file arrives as its blocks, once each, in order |
| `Tftp` | server sessions, network and client; properties |
| `TftpInv` | the inductive invariants of `Tftp`: `IInv`, and `FaultInv`, the account of faults |
| `TftpProofs` | its proofs, and the refinement of `FileDelivery` |
| `DhcpManager` | manager, server goroutines, configuration handlers and file; properties |
| `DhcpManagerProofs` | proofs about it |
| `DurableMenu` | abstract: one menu in memory, one on disk |
| `MenuStore` | the store over files as names and inodes, with crashes; properties |
| `MenuStoreProofs` | proofs about it, and the refinement of `DurableMenu` |
| `Library` | ISO files and menu entries under the console's handlers; properties |
| `LibraryProofs` | proofs about it |
| `Iso9660` | the reader of images, record by record |
| `ImageFamily` | the rules of the analysis, the recipes of the menu; operators only |
| `ImageBoot` | quick-add of an image and the boot of its entry, composed of the two; properties |
| `ImageFamilyProofs` | proofs about the rules and the recipes |
| `ImageBootProofs` | proofs about the walk, and about the boot of what it has found |
| `DhcpPackets` | option areas, interfaces, and the answer to each packet; operators only |
| `BootFiles` | downloads and GRUB images, prepared in the background; properties |
| `BootChain` | a machine's boot, over `BootFiles` and `DhcpPackets`; properties |
| `BootFilesProofs` | proofs about the boot files under `BootChain` |
| `BootChainProofs` | proofs about packets and about a machine's boot |
| `MCTftp`, `MCDhcpManager`, `MCMenuStore`, `MCLibrary`, `MCImages`, `MCBoot` | what TLC runs |

`BootChain` extends `BootFiles`, which extends `DhcpPackets`; `ImageBoot` extends
`Iso9660` and `ImageFamily`. `Tftp` and `MenuStore` each implement a small abstract
specification (`FileDelivery`, `DurableMenu`).

### Tftp

A *session* is the goroutine `handle` of one request. `pc` says where it is:
`"idle"` (the request has not been read), `"oack"` (in `waitACK` for the options),
`"data"` (in `sendWaitACK` for a block), `"done"`, `"failed"`. `block` is the true
index of the block; the code's `uint16` is `Wire(block)`, the index modulo
`BlockMod`. `cut` says that the read of the current block failed or came short, and
`tries` counts the failed waits of `sendWaitACK`. A read and the first transmission
that follows it are one step: nothing else looks at the session between them.

| Code | Action |
|---|---|
| `Serve` starts `handle`; `safePath` or `Open` fails | `ServeNotFound` |
| `handle`, options present: the OACK | `ServeOptions` |
| `handle`, no options: read and first block | `ServePlain` |
| `waitACK(sess, 0)` true | `OackAcked` |
| `waitACK(sess, block)` true: next block, or the end | `BlockAcked` |
| `waitACK` false: other datagram | `WrongPacket` |
| `waitACK` false: deadline | `Timeout` (in vain), `EarlyTimeout` (before a late answer) |
| `sess.Write` fails | `WriteFails` |

Note that `waitACK` does not wait on after a datagram it does not want: the wrong
packet ends the wait, and costs a try, exactly like the deadline. The OACK is sent
once.

The client and the network are not in the repository. The client is an RFC 1350
client: it keeps to the first port that answers, acknowledges what it expects,
repeats its acknowledgement for a repeated block, answers other ports with an
ERROR, may repeat its request or its last acknowledgement and may be switched off
at any moment. It compares 16-bit numbers, as the server does, so wrapping is not
assumed away. The network is a bag of datagrams. It may deliver in any order; each
loss, each copy, and each timer that fires too early is paid from `MaxFaults`. A
request the server drops without an answer (`DialUDP` fails) is a lost request.

One assumption limits the network, `Fresh`: a datagram does not stay alive while
its session goes on to send `BlockMod - 1` further blocks. With 16 bits that is
65535 round trips. Without it no protocol with wrapping numbers works.

`block`, `tries`, `cut` are kept after the session has ended; they are then
history that the properties use.

### DhcpManager

`Start` and `Stop` run under the mutex and are atomic; `Apply`, which calls them,
is two steps, and reads the flag in a step of its own. The goroutine of each
`Server` goes through `"starting"` (before `ListenUDP`), `"bound"` (the socket is
open but `s.conn` does not show it to `Stop`; `conn` is written and read without a
lock), `"listening"`, `"error"` (`Serve` has returned; the callback waits for the
mutex) and `"exited"`. `port` is who holds udp/67: `Serve` does not close its socket
when reading fails, so the port is only free again when the runtime collects the
socket (`CollectSocket`). Handlers go through `handleConfig`: `Request` (decode and
set the fields), `Save` (take the mutex of package `config` and marshal the fields),
`OpenTemp` (`os.WriteFile` empties `config.json.tmp`), `FillTemp` (and writes it),
`RenameTemp` (which gives the mutex back, too) or, from any of the three, `SaveFailed`;
then `Apply`, `ApplyStop`, `ApplyStart`.

`EnableProxyDHCP` stands for all the fields: another handler may set it between the
`Request` and the `Save` of this one, since no lock covers the fields. `stored` and `temp`
are what `config.json` and `config.json.tmp` hold, as a set of flags: one, or none where the
file is missing or cut. `Crash` may happen at any step and leaves both files as they are.
`Restart` is `Load` followed by `Start` if the flag is set; `Load` of a cut file is an error
that ends the program, so the step is then disabled, and a file that is there and cannot be
read leaves the defaults, which `Load` writes over it at once. `ConfigStaysWhole` says that
`config.json` is never cut, whichever step a crash or an error comes at: the mutex keeps
`config.json.tmp` to one handler until it is renamed, unlike that of the menu store.

`Users` selects how the console is used: a *hasty* user saves at any time, a
*patient* one when nothing is under way, a *careful* one only to switch.

### MenuStore

The two halves of `Put` and `Delete` (`Update`, then `save`) are separate steps
because the lock is given back between them. `save` is `List` (the copy under the
read lock), `Open` (`os.WriteFile` opens `menu.json.tmp` with `O_TRUNC`), `Write`
and `Rename`; each but `List` may fail. Names point at inodes and an open file
keeps its inode, since two handlers share the name `menu.json.tmp`. A file holds a
whole menu or is torn; sizes matter because a shorter menu written over a longer
one leaves its tail. A crash empties the program's state and keeps the file
system's; power failures that undo unsynced writes are not modelled. `Restart` is
`New` as `main` calls it: no file, or one that cannot be *read*, is an empty menu, a
file that cannot be *parsed* ends the program.

Most of what the store promises holds until two updates overlap. `alone` is history: it
says that so far none have and that `New` could read its file; `solo` says it of one
update.

The values of entries, their order and the text of the JSON are abstracted:
`entries` maps identifiers to values.

### Library

The handlers that change `data/iso` and the menu, over the map that `MenuStore` saves
(each `Put` and `Delete` is one step here; that it reaches the disk is `MenuStore`'s
concern). `handleUpload` is `Create` (`os.Create`, which truncates the file of the final
name), `Copy` per chunk, and `Uploaded` or `CopyFails`, which leaves what was copied.
`handleQuickAdd` is `Analyze`, `CountEntries` (`Order: len(List())`), `NumberEntry` (the
second `len(List())`, for a name without a slug) and `PutEntry`: three looks at shared
state that no lock holds together. `handleDeleteISO`, `handleMenu` and
`handleMenuItem` are one step each.

Identifiers are strings of one namespace, whether `slug` has made them of a file's name or
`Sprintf("iso%d")` of a number. In the module the number *k* stands for the string
`iso<k>`, and `Slug` is a table from names to slugs: a name may have none, two names may
share one, and the slug of `iso2.iso` is 2, the identifier that a name without a slug is
given when the menu holds one entry. A *lookalike* is such a name. An image stands for its family. `owner` is
history: the image whose upload was answered last, if nobody else touched its file.

A *tidy* administrator uploads and deletes only files that no entry names, adds a
file once its upload was answered with success, and does not point an edited entry
at another file; a *free* one does anything. A crash in the middle of an upload is
`CopyFails` for the files.

Lookalikes are why `SluggedAddSticks` is about files with a slug that no other file *can be
given* (`OwnSlug`): with `iso2.iso` in the menu as its only entry, a file without a slug
becomes entry 2 in its place. `DefaultStays` asks the same of the files added so far
(`Apart`): of two that share a slug, and of a numbered entry and a file called like it, the
one added later replaces the other, with an order of its own. What is left is a file without a
slug that is given the number of the first entry itself (`TakesNumber`), as happens to the
second of two that are added at once. `QuickAddSticks` leaves all of these conditions out and is violated.

### Iso9660, ImageFamily and ImageBoot

`Open` is one step (`OpenImage`, `Refuse`), `readDir` one step per record or gap
(`SkipRecord`, `TakeRecord`, `Padding`, `EndOfDirectory`, `Panic`), `walk` one step per
entry (`ReportFile`, `Descend`, `Ascend`), with its recursion as a stack. An image is the
places where its records begin; what is not there reads as zeros, behind the end of the
file too, because `readDir` ignores `io.EOF`. `Grow` is an upload that goes on meanwhile.
`Stub` is a record shorter than its own header: the code indexes its 26th byte before it
knows the length (`iso9660.go:99`), so the request panics, which `net/http` catches.

`Clean` gives for each identifier on the disk what `readDir` makes of it (the version
after `;` cut off, a final dot dropped) in the lower case that the rules look at, and `Shown`
what GRUB makes of it. An identifier stands for all a record holds of a name, and the two
differ: `readDir` takes the characters of the tree it reads and passes over the system use
area behind them (`iso9660.go:111-119`), where GRUB finds the Rock Ridge name. So do the
trees: the server prefers Joliet to the primary tree, GRUB prefers a primary tree with Rock
Ridge names to both (`GrubRoot`).

`Family` is the chain of tests of `Analyze`: Windows by files or label, then the rules in
their order. A marker is a substring of a path in the code; `InPath` compares whole names
and leaves the last one open by the table `Starts`. `Outcome` is what the entry of a family
comes to when GRUB opens the whole image: `Recipe` holds the kernel and the initrd each
family's entry names. GRUB looks for them under its own names and in its own tree
(`GrubFiles`); the server may have read another one, under other names (`ListedFiles`), and
possibly only a part of the file.

`KnownImageBoots` says where that does no harm. An image in which GRUB finds a family's
kernel and initrd boots if the name of the *kernel* is whole in the server's tree as well;
every other name may be cut there. Where the kernel's own name is cut to 8.3, in an image
that has Rock Ridge names and no Joliet tree, no rule matches, and a whole image of a known
family becomes a generic entry which only shows a notice. The property leaves such images
out; the run has one.

### DhcpPackets, BootFiles and BootChain

`Parse` and `Build` work on sequences of numbers, with code, length and value as in the
packet; what `parse` makes of one is a set of pairs, one for each code. An address or a word
takes one number, and a number may be any (lengths past 255 are left out: no part of the
system writes one). `Text` and `To4` differ for an address that is not an IPv4 one, as in
the Go library. `LocalIPFor`, `PrimaryIPv4` and `Contains` are the queries of `netif` over a
list of interfaces; `Usable` holds the places in it where an address that counts stands, in
the order in which the code comes by them. `Answer` is `handle`, with the port the answer
goes to: everybody's 68, or 4011 of the one who asked from there.

`BootFiles` is the goroutine of `main.go`: for each iPXE binary `SkipFile` (there and not
empty), or `Get` and `CopyEnds` with `GetFails` and `CopyFails` from source to source; then
`ReadAddress`, and for each GRUB image `MakeImage` and `MakeEnds` or `MakeFails`. `disk` holds
what each *final* name holds; a download's `.tmp` is seen by nobody. `grub-mkimage` writes
the final name in place. `failed` and `stale` are history: something failed since the start,
the address was changed after it was read.

`BootChain` adds one machine. `stage` says how far it is; each stage turns to `base`, the
address that the stage before gave it:

| Stage | What happens | Code |
|---|---|---|
| `discover`, `request` | packets are sent, handled, lost, asked again | `handle`, `proxydhcp.go` |
| `tftp` | the firmware loads a binary, which asks DHCP itself | `bootFile`, TFTP |
| `script` | iPXE reads `/boot.ipxe` | `handleBootIPXE`, `httpBase` |
| `chain` | it loads the image of GRUB for its platform | `ipxescript.Boot` |
| `grub` | GRUB reads `grub.cfg` at the address inside the image | `embedScript`, `handleGrubCfg` |
| `menu` | an entry's file is fetched, or, with no entry, the default is *Reboot* | `Generate` |
| `booted`, `stuck` | the end, or an error message | |

The firmware, iPXE and GRUB are not in the repository. A machine reaches the server only
at the address that the server has in the machine's own network (`home`); it runs only the
binary of its own architecture; iPXE's user class may be preceded by a length. TFTP is
one step here (`Tftp` is about its steps), and so is each HTTP request. GRUB is taken to
open the URL that `recipe` writes; the comment above it (`grubcfg.go:72`) wants the form
`(http,host)/path`. ProxyDHCP is taken to be on; switching it is `DhcpManager`'s subject.
Answers to a relay go to everybody all the same, as `handle` sends them.

## The runs

| Run | Instance | Shows |
|---|---|---|
| `tftp_safety` | 2 sessions, 4 blocks, numbers modulo 3, 2 tries, 2 faults, failing reads | the safety properties, `IInv` and `FaultInv`, refinement of `FileDelivery` |
| `tftp_live` | 2 sessions, 2 blocks, 1 fault, fairness | `SessionsEnd`, `PlainClientServed` |
| `tftp_readerror` | 2 blocks, no faults | **violated**: `CompleteMeansWhole` |
| `dhcp_manager` | 2 handlers, 4 servers, 3 requests, 1 crash, everything may fail | `RunningIsBacked`, `ConfigStaysWhole`, `QuietConfigIsSaved`, `FailureReported` |
| `dhcp_served` | 1 handler, 5 servers, 4 requests, 1 crash, nothing fails | `CarefulDisableWorks`, `EnabledIsServed` |
| `dhcp_disable` | 1 patient user | **violated**: `DisabledIsSilent` |
| `menu_store` | 2 handlers, 4 updates, 2 crashes, failing disk, unreadable file | `SoloUpdateIsDurable`, `AlwaysRestarts`, `ImplementsDurableMenu` |
| `menu_lost_update` | 2 handlers, 2 updates | **violated**: `AcknowledgedIsSaved` |
| `library` | 3 names (with a slug, without, and `iso2.iso`), 2 images of 1 and 2 chunks, 2 handlers of each kind; 2 uploads and 1 quick-add, or 1 and 2, with 1 edit or deletion, or 3 quick-adds; both administrators | `SoloUploadIsWhole`, `TidyMenuBoots`, `SluggedAddSticks`, `DefaultStays` |
| `library_numbers` | 2 names without slugs, 3 quick-adds, 1 deletion | **violated**: `QuickAddSticks` |
| `images` | 17 images, 5 with Rock Ridge names, 5 wrong ones, directories of up to 4 records of all lengths; cut or growing at any sector; fairness | `WalkIsExact`, `KnownImageBoots`, `PartIsNotAnother`, `WalkEnds` |
| `boot` | 5 machines in 2 networks, 8 packets of others, 3 addresses in the configuration, ProxyDHCP bound to an interface or not, 2 faults; fairness | `TypeOK`, `PacketsReadBack`, `DownloadsAreWhole`, `PreparedIsWhole`, `RightBinary`, `CalmBoots`, `BootEnds` |

Why the bounds are enough:

- 4 blocks with numbers modulo 3 wrap inside the file, in both directions of the
  comparison; 2 sessions give the duplicate request; 2 faults with 2 tries reach a
  failed transfer, a failed OACK and every pair of loss, copy and late timer. The
  safety properties are also proved without bounds. `FailureNeedsFaults` (a session gives up
  on a block only after `MaxTries` faults) covers blocks, not the OACK, which has no second
  try, and speaks of the session that a client still listens to.
- `PlainClientServed` speaks of a client without options, needs fewer faults than
  tries, and an instance with more sessions than faults: each fault may cost the
  client a session, and sessions are what bounds its requests.
- A switch of ProxyDHCP involves a server, its successor, and an orphan that no
  longer belongs to the manager: 4 or 5 servers leave one for each request and the
  one `main` starts. One server more than requests is an assumption of the module.
- Lost updates and torn temporary files need two handlers; a third update shows
  what a quiet store makes of what they left. Two crashes reach a crash during the
  first save after a crash.

- The walk gives up below depth 4 instead of 12; the images of the run are at most 4
  directories deep, and those that contain themselves reach the limit. A sector has 5
  units and a record at least 2, so that each kind of gap at its end occurs: none, one
  that a record would fit in, one that none would. A file is cut at sectors, not within.
  The 17 images are every family with its variants, and some that are no family's; those
  with Rock Ridge names have names that survive in the primary tree, an initrd whose name is
  cut, both names cut (without a Joliet tree, and with one) and a name in capitals. `Clean`,
  `Shown` and `Starts` cover the names that occur in them; the theorems hold for any tables, images,
  sizes and depths.
- Two networks are needed for the address handed out to be the wrong one, an interface
  that is down for the queries to skip it. The faults of `boot` are one budget of crashes,
  changes of the address, failed downloads and images, and lost packets: 2 of them reach a
  crash between two images with a changed address, or a failure before a crash. They are
  not bounded in the theorems. One machine is on at a time; the server keeps nothing
  between two packets, so that machines do not meet in it.
- A longer and a shorter image under one name show a tail that was not truncated, two
  uploads at once one file written by both; two quick-adds at once show orders and
  identifiers read before the other's entry is in. Three quick-adds in a row meet every
  identifier twice. The bounds on uploads, additions and edits come as `Mixes`, since each
  property needs many of one kind and few of the others.

The runs of the menu store and the library use symmetry (handlers and inodes are
interchangeable, and neither has a liveness property).

`CHECK_DEADLOCK FALSE` is set in every run: clients, users and bounds stop.

The four violated properties state what a doc or a comment promises; `PROJECT.json`
quotes them under `findings`. In short: a read error becomes a short last block and
the client takes a cut file for whole; saving any setting while ProxyDHCP is on
makes the *old* server's goroutine mark the *new* server as not running, so that it
can no longer be switched off; of two overlapping menu updates the older copy may
reach the disk last; and files whose names have no slug are numbered by the length of
the menu, so that after a deletion one replaces another. Each is accompanied by a property that holds:
`DoneMeansDelivered` and the abstract delivery say exactly what a read error does,
`CarefulDisableWorks` says how the switch can be relied on, `SoloUpdateIsDurable` and
`ImplementsDurableMenu` which updates are safe, and `SluggedAddSticks` which names.

### Fairness

`Tftp!Fairness`: goroutines that can run do; a read deadline that has passed in vain
fires (`SetReadDeadline` before each read); a datagram that is neither lost nor
stuck behind a full number cycle is delivered; a client that hears nothing asks
again. Weak fairness is enough, and nothing is assumed of losses, early timers or
the client's going away. `DhcpManager!Fairness`: goroutines and handlers that can go
on do (the Go scheduler, Go's starvation-free mutex); not requests, not read
errors, not the collection of sockets. `EnabledIsServed` is for the instance in
which the port can be had. `MenuStore` has no liveness property: its only waits are
for a lock that is held across memory operations; nor has `Library`.
`ImageBoot!FairSpec`: the handler that reads an image goes on; not the upload, nor the
choice of an entry. `BootChain!Spec`: of the machine that is on and the packets under way,
something goes on (a packet is handled or lost, the firmware asks again, gives up or
loads); not the preparation, the administrator, or the start of a program that is down. So
`BootEnds` holds even if the preparation never does anything: the boot then ends as stuck.

`CalmBoots` says of that end what it may come from. A boot is *calm* if it began when the
preparation had ended well and both addresses, the one that ProxyDHCP hands out and the one
in the images, were the machine's, and if nothing was lost, changed or ended since. The
second condition is a real restriction: without `server_ip` the images hold the address of
the first interface, while ProxyDHCP hands out that of the interface it was started for, and
a machine in the other's network then loads a GRUB that asks where it cannot.

## The proofs

`TftpProofs` proves, from the assumptions `SessionAssumption` and `NumberAssumption`
alone (for any sessions, length, width of at least 2 values, tries and faults):

- `Invariance`: `Spec => []IInv`. `Lockstep` is not inductive by itself: it needs to
  know what may be in flight. `IInv` adds that an acknowledgement in flight belongs
  to the session the client chose and is not ahead of the client (`AckInv`), that
  data in flight is not ahead of its session and is cut exactly when its session
  saw the read fail (`DataInv`), where block numbers are zero (`BlockInv`,
  `OackInv`), what the client holds (`GotInv`) and how its state and choice of a
  port fit it (`ClientInv`).
- the core lemmas: `Fresh` and the window of one block put every number that can be
  compared within one cycle, where equal wire numbers are equal indices
  (`ModInjective`). So an acknowledgement the session accepts is of its current
  block, and the client, which is then level with it, accepts only the next block.
- `TypeCorrect`, `LockstepHolds`, `DoneHolds`, `StrayHolds` follow; `Refinement` proves
  `Spec => Delivery!Spec`: each step that adds to `got` is a step of
  `FileDelivery`, all others leave it alone. `WholeFile` proves that
  `CompleteMeansWhole`, violated in `tftp_readerror`, holds where reading never fails.
- `AccountHolds`: `Spec => []FaultInv`, on top of `IInv`, and from it `FailureHolds`
  (`FailureNeedsFaults`). A session and its client hand one datagram to and fro; whatever
  else is in flight for the session is a copy, or the answer to a copy or to a timer that
  fired early, and has been paid for. That alone does not do: what costs a try is an *old*
  datagram, an OACK or one about an earlier block, and it costs it without a new fault. So
  the account is that tries and old datagrams together do not exceed the faults used, and
  are fewer where only old ones are in flight, since then the current one was lost or
  waited for in vain. A step that answers a datagram puts one in flight for the one it
  takes; the lemmas `WaitFailedAccount`, `ReceiveAccount` and those around them count `InFlight`, the
  cardinality of a bag's copies, over each such exchange.

`DhcpManagerProofs`, from `ServerAssumption` and `BoundAssumption`: `RunningBacked`
(`TypeOK` and `RunningIsBacked`, jointly inductive, for any number of handlers);
`QuietConfigSaved` (`QuietConfigIsSaved` and `ConfigStaysWhole`), from `ConfigInv`: the mutex
is held exactly while a handler writes, so that a handler about to rename finds in
`config.json.tmp` what it has marshalled, whole; and as long as no field was set that is still
to be saved, what is being written, or was written last, is what is in force; and `CarefulDisable`, for one handler and saves that
succeed, from `CarefulInv`: no goroutine but that of the manager's server can still reset
the flag or answer, and a request to enable finds nothing running.

`MenuStoreProofs`, from `MenuAssumption` and `BoundAssumption`: an update that has the store to
itself carries the menu in force to the temporary file, which nobody else has open
(`SoloInv`), and the temporary file is never the menu (`NamesInv`). `SoloDurable` follows
for every execution, also behind updates that overlapped; `Restarts` and `Refinement` for as
long as none did (`AloneInv`): `Rename` is then the abstract `Commit`, `Crash` the abstract
`Restart`, `Update` itself, and every other step leaves both menus alone.

`LibraryProofs`, from the assumptions of `Library` (more inodes than names and uploads;
nothing of slugs), proves its four properties for any names, slugs, images and handlers.
`SoloWhole`: in `FileInv` a file has one name at most, what lies in a file that one upload
has to itself is the part of the image that was copied (`SoloInv`), and nobody has a file
open whose upload was answered (`OwnerInv`). `TidyBoots` adds `TidyInv`: no upload writes to
a file of the menu, and every entry, and every addition on its way, has the family of the
image uploaded last. `SluggedStay`: the entry of a file with a slug lies under its
slug (`SlugInv`), and what else is put there is the same file's, for no other is given that
identifier. `DefaultKept`: there always is an entry of order 0 that only one of order 0
can replace, as its identifier is its slug or 1 (`FirmEntry`), because a numbered addition has
an order below its number (`LowOrders`); so the oldest entry of order 0 is the first of the list, and a `Put`
comes behind it, unless it takes its identifier. A slug does not, since the names in play are
`Apart`, and a number does only as `TakesNumber` says. The names in play only become more
(`InPlayGrows`), so that they were apart at every step before.

`BootFilesProofs`, from `AddressAssumption`, `BootFilesAssumption` and
`BootChainAssumption`, for executions of `BootChain`: `FilesInvariant`, with
`WholeDownloads` and `PreparedWhole`. `PreparedIsWhole` speaks of the end of the preparation
only; the invariant says it of every point on the way: while nothing has failed, the files
before the current one are whole (`Fetched`), the images before it hold the address that
was read (`Made`), and that is the configured one unless it was changed (`Addressed`).
A crash only has to take the preparation back to its start, because an image is made
again whatever is there.

`ImageFamilyProofs` needs no assumption: whatever files an image has and whatever part of
them was seen. `PartKeepsRecipe`: the first rule that matches has a marker that is a sign of
its family, and an image of one family only has no sign of another, nor has any part of
it. `KnownBoots`: an image whose kernel the analysis has seen matches the rule whose only
marker is that kernel, so it is not generic, and the recipe of the family found is one whose
files GRUB finds, if it finds those of the image's own. `WalkIsExact`
supplies the part.

`ImageBootProofs`, from `SizeAssumption` and `ImageAssumption` (the shape of an image's
records, and nothing about what they say), proves the three safety properties of `ImageBoot`
for every image, size of a sector, depth and growth of the file, along one invariant
(`ReaderInv`, for `ReaderHolds`):

- `WalkInv`: `Reached`, what the walk has reported with what lies below the records on its
  stack and in the directory being read, is part of the files of one tree, and is all of
  them where the file was complete and is well formed. Reporting, descending and
  ascending only move files from one part of `Reached` to another (`VisitPending`,
  `LastPending`, `AppendPending`); `StackInv` says that depth and limit agree, so that no
  directory is given up too early. `FilesWithin` recurses over the depth;
  `ContentIsEntries` unfolds it by one level.
- `DirInv`: `readDir` has found every record that begins before the place where it is. Two
  records of a well formed directory do not overlap (`NoOverlap`), and where no record
  begins none begins before the next sector does (`Gap`), so neither stepping over a record
  nor over padding loses one.

`WalkHolds` follows; `KnownImageBootsHolds` and `PartIsNotAnotherHolds` join it with
`KnownBoots` and `PartKeepsRecipe`.

`BootChainProofs`, from the assumptions of `DhcpPackets`, `BootFiles` and `BootChain`, has
two parts. The first is about areas of options, of any length and content:

- `Parse` is a recursive function from places to options. `ScansExist` shows that there is
  such a function (the definition would say nothing if there were none), `Unit` what it is
  at one place, `Later` that what is found from some place on depends on the rest of the area
  alone. Hence `OptionParsed` and `PadsParsed`: an option in front of an area is one more
  option, unless the area has it too, and padding is nothing.
- Hence `PacketReadsBack` for what clients send, `BuildReadsBack` for what `build` writes, and
  `BuildForIPv6`: an answer for an IPv6 address lacks the option a client looks for, so no
  client takes it. `AnswerSuits` says of `handle` what the second part needs: a request
  of each kind of machine is answered, with the binary for it.

The second part is the invariant `ChainInv`. `RightBinary` and `CalmBoots` do not hold up by
themselves: which answer a machine takes depends on what is under way. `Asked` says that
while it waits this is its own request and answers to it, each made for some address and
interface that were in force; `Calm` that in a calm boot nothing has changed, so each
answer was made for those of now, one answer or the request is still there, and the
address the machine turns to is its own at every stage. `FilesInv` of `BootFilesProofs`
gives the files it loads. `ChainTypes`, `BinaryIsRight` and `CalmBootsHold` follow, for any
machines, networks, addresses and number of faults. `PacketsRead` has a
hypothesis, `StrangersAreRead`: packets of others are constants of the module, each with what
its sender means, and of those the theorem says nothing that they do not say themselves.

`ReaderInv` and `ChainInv` were checked with TLC on the instances of `images` and `boot`
before they were proved; `IInv` and `FaultInv` still are, in `tftp_safety`.

Induction over data appears in these proofs as the smallest counterexample: a set of
numbers has a least element (`NatLessThanWellFounded`, `WFMin`), and the one at which a
recursive function would first differ from what is claimed contradicts its definition.

Only model-checked are the liveness properties, which are out of the prover's reach:
`SessionsEnd`, `PlainClientServed`, `FailureReported`, `EnabledIsServed`, `WalkEnds` and
`BootEnds`. Every invariant and every other action property or refinement of the passing runs
is stated by a theorem.

## Plan

Every part that keeps state, but the sessions, has its module, and every safety property
its theorem. Left:

1. What each stage of `BootEnds` and `WalkEnds` comes down to, as safety: a measure that
   every step of a boot and of a walk decreases.
2. The errors of reading within an image.

## Not modelled

- *Login sessions*: a table of tokens under one mutex that no other part reads. Each of its
  operations is one locked step; what can be said restates its only test.
- *Routes and file server*: a table handed to `net/http`.
- *The browser code*: it keeps no state between calls. What it sends is in `Library`.
- *Text*: log messages, pages, the layout of the generated scripts, the parameters of
  kernels, an entry's own snippet (`CustomCfg`).
- *Rock Ridge beyond names*: symbolic links, and directories that a writer of images moved
  because they lay too deep.
- *Power failure*: a crash ends the process; what the operating system was given survives.
- *Errors in small things*: writing the embedded scripts of the GRUB images, a full disk
  while `main` makes its directories, memory for a directory whose size a wrong image
  claims, reading errors within an image.
- *Shutdown*: the five seconds in which requests may end are not told apart from a crash.
- *What operating system queries return*: interfaces and addresses are constants.
