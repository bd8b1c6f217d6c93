----------------------------- MODULE BootFiles -----------------------------
(***************************************************************************)
(* The files a machine is booted with (internal/bootfiles, and the         *)
(* goroutine of main.go that prepares them): iPXE is downloaded, the GRUB  *)
(* images are made with the address of the server inside.  Both go on in   *)
(* the background while machines are served, the address may be changed at *)
(* the console meanwhile, and the program may end and be started again.    *)
(***************************************************************************)
EXTENDS DhcpPackets

CONSTANTS
  Configured,  \* what the console may set server_ip to
  MaxFaults    \* bound on what disturbs: crashes, changes of the address, failures

ASSUME BootFilesAssumption ==
  Configured \subseteq Nat /\ MaxFaults \in Nat

VARIABLES
  program,   \* "up" or "down"
  serverIP,  \* cfg.ServerIP
  disk,      \* data/tftp: what each file holds
  prep,      \* the goroutine: where it is, at which file, from which source
  prefix,    \* the address for the GRUB images, as it was read
  failed,    \* something has failed since the start of the program
  stale,     \* the address was changed after it had been read
  faults     \* what is left of the bound

filesVars == <<program, serverIP, disk, prep, prefix, failed, stale, faults>>

\* Each file with the number of its sources; each image.
IpxeFiles == <<[name |-> Undionly, urls |-> 1], [name |-> IpxeEfi, urls |-> 2],
               [name |-> Ipxe32Efi, urls |-> 2]>>
GrubX64 == 3001
GrubIa32 == 3002
GrubBios == 3003
GrubImages == <<GrubX64, GrubIa32, GrubBios>>

IpxeNames == {IpxeFiles[n].name : n \in 1..3}
GrubNames == {GrubImages[n] : n \in 1..3}

Missing == [is |-> "missing", prefix |-> NoAddress]
Part == [is |-> "part", prefix |-> NoAddress]
Whole(address) == [is |-> "whole", prefix |-> address]

At(state, n, url) == [at |-> state, n |-> n, url |-> url]
Idle == At("idle", 1, 1)

\* Something that disturbs happens.
Fault == faults > 0 /\ faults' = faults - 1

-----------------------------------------------------------------------------
(* EnsureIPXE.                                                             *)

Name == IpxeFiles[prep.n].name
Fetching(state) == prep.at = state /\ prep.n <= Len(IpxeFiles)

\* A file that is there and not empty is left alone, whatever it holds; another one is
\* downloaded, from its next source when one has failed.
Wanted == (Fetching("ensure") /\ disk[Name] = Missing) \/ Fetching("fetch")

SkipFile ==
  /\ Fetching("ensure") /\ disk[Name] # Missing
  /\ prep' = At("ensure", prep.n + 1, 1)
  /\ UNCHANGED <<program, serverIP, disk, prefix, failed, stale, faults>>

TryNext ==
  /\ failed' = (failed \/ prep.url = IpxeFiles[prep.n].urls)
  /\ prep' = IF prep.url < IpxeFiles[prep.n].urls THEN At("fetch", prep.n, prep.url + 1)
             ELSE At("ensure", prep.n + 1, 1)

\* download: no connection, a status that is not 200, or no place for the file.
GetFails ==
  /\ Wanted /\ Fault /\ TryNext
  /\ UNCHANGED <<program, serverIP, disk, prefix, stale>>

GetInPlace ==
  /\ Wanted
  /\ prep' = [prep EXCEPT !.at = "copy"]
  /\ disk' = [disk EXCEPT ![Name] = Part]
  /\ UNCHANGED <<program, serverIP, prefix, failed, stale, faults>>

\* The copy goes to a file of another name, which nobody reads.
Get ==
  /\ Wanted
  /\ prep' = [prep EXCEPT !.at = "copy"]
  /\ UNCHANGED <<program, serverIP, disk, prefix, failed, stale, faults>>

CopyFails ==
  /\ Fetching("copy") /\ Fault /\ TryNext
  /\ UNCHANGED <<program, serverIP, disk, prefix, stale>>

CopyEnds ==
  /\ Fetching("copy")
  /\ disk' = [disk EXCEPT ![Name] = Whole(NoAddress)]
  /\ prep' = At("ensure", prep.n + 1, 1)
  /\ UNCHANGED <<program, serverIP, prefix, failed, stale, faults>>

-----------------------------------------------------------------------------
(* EnsureGRUB.                                                             *)

Image == GrubImages[prep.n]

\* main reads the address after the downloads.
ReadAddress ==
  /\ prep.at = "ensure" /\ prep.n > Len(IpxeFiles)
  /\ prefix' = IF serverIP = NoAddress THEN LocalIPFor(NoAddress) ELSE serverIP
  /\ stale' = FALSE
  /\ prep' = At("grub", 1, 1)
  /\ UNCHANGED <<program, serverIP, disk, failed, faults>>

\* grub-mkimage is not installed.
NoMkimage ==
  /\ prep.at = "grub" /\ prep.n = 1 /\ Fault
  /\ prep' = Idle /\ failed' = TRUE
  /\ UNCHANGED <<program, serverIP, disk, prefix, stale>>

AfterImagePastEnd ==
  IF prep.n <= Len(GrubImages) THEN At("grub", prep.n + 1, 1) ELSE At("done", 1, 1)

AfterImage == IF prep.n < Len(GrubImages) THEN At("grub", prep.n + 1, 1) ELSE At("done", 1, 1)

MakeImageIfMissing ==
  /\ prep.at = "grub"
  /\ disk' = IF disk[Image] = Missing THEN [disk EXCEPT ![Image] = Part] ELSE disk
  /\ prep' = IF disk[Image] = Missing THEN [prep EXCEPT !.at = "mkimage"] ELSE AfterImage
  /\ UNCHANGED <<program, serverIP, prefix, failed, stale, faults>>

\* grub-mkimage writes the image under its final name, over the one of an earlier start.
MakeImage ==
  /\ prep.at = "grub"
  /\ disk' = [disk EXCEPT ![Image] = Part]
  /\ prep' = [prep EXCEPT !.at = "mkimage"]
  /\ UNCHANGED <<program, serverIP, prefix, failed, stale, faults>>

\* It may fail before it opens the file, and leave what was there.
MakeFails ==
  /\ prep.at \in {"grub", "mkimage"} /\ Fault /\ failed' = TRUE
  /\ prep' = AfterImage
  /\ UNCHANGED <<program, serverIP, disk, prefix, stale>>

MakeEnds ==
  /\ prep.at = "mkimage"
  /\ disk' = [disk EXCEPT ![Image] = Whole(prefix)]
  /\ prep' = AfterImage
  /\ UNCHANGED <<program, serverIP, prefix, failed, stale, faults>>

-----------------------------------------------------------------------------
(* The console and the program.                                            *)

SetAddress ==
  /\ program = "up" /\ Fault
  /\ serverIP' \in Configured \ {serverIP}
  /\ stale' = TRUE
  /\ UNCHANGED <<program, disk, prep, prefix, failed>>

Crash ==
  /\ program = "up" /\ Fault
  /\ program' = "down" /\ prep' = Idle /\ prefix' = NoAddress
  /\ UNCHANGED <<serverIP, disk, failed, stale>>

\* With -no-fetch the files are left as they are.
Restart ==
  /\ program = "down"
  /\ program' = "up" /\ failed' = FALSE /\ stale' = FALSE
  /\ prep' \in {At("ensure", 1, 1), Idle}
  /\ UNCHANGED <<serverIP, disk, prefix, faults>>

-----------------------------------------------------------------------------
FilesInit ==
  /\ program = "down" /\ serverIP = NoAddress
  /\ disk = [f \in IpxeNames \cup GrubNames |-> Missing]
  /\ prep = Idle /\ prefix = NoAddress /\ failed = FALSE /\ stale = FALSE
  /\ faults = MaxFaults

Prepare ==
  \/ SkipFile \/ GetFails \/ Get \/ CopyFails \/ CopyEnds
  \/ ReadAddress \/ NoMkimage \/ MakeImage \/ MakeFails \/ MakeEnds

FilesNext == Prepare \/ SetAddress \/ Crash \/ Restart

FilesSpec == FilesInit /\ [][FilesNext]_filesVars

-----------------------------------------------------------------------------
(* Properties.                                                             *)

\* The preparation is always at a file and at a source that exist, or past the last file.
FilesTypeOK ==
  /\ program \in {"up", "down"} /\ serverIP \in Configured \cup {NoAddress}
  /\ disk = [f \in IpxeNames \cup GrubNames |-> disk[f]]
  /\ \A f \in IpxeNames : disk[f] \in {Missing, Part, Whole(NoAddress)}
  /\ \A f \in GrubNames : disk[f].is \in {"missing", "part", "whole"}
  /\ prep \in [at : {"idle", "ensure", "fetch", "copy", "grub", "mkimage", "done"},
              n : 1..4, url : 1..2]
  /\ prep.at = "ensure" => prep.url = 1
  /\ prep.at \in {"fetch", "copy"} => prep.n \in 1..3 /\ prep.url <= IpxeFiles[prep.n].urls
  /\ prep.at \in {"grub", "mkimage"} => prep.n \in 1..3
  /\ failed \in BOOLEAN /\ stale \in BOOLEAN /\ faults \in 0..MaxFaults

\* A download that breaks off or is interrupted by the end of the program leaves no
\* partial file under the name that TFTP serves and that a later start would keep.
DownloadsAreWhole == \A f \in IpxeNames : disk[f].is # "part"

\* When the preparation has ended and nothing has failed, every file is there and every
\* image holds the address that was read in this run, whatever earlier runs, crashes
\* between the images and changes of the address have left.
PreparedIsWhole ==
  prep.at = "done" /\ ~failed =>
    /\ \A f \in IpxeNames : disk[f].is = "whole"
    /\ \A f \in GrubNames : disk[f] = Whole(prefix)
    /\ ~stale => prefix = IF serverIP = NoAddress THEN LocalIPFor(NoAddress) ELSE serverIP
=============================================================================
