-------------------------- MODULE BootFilesProofs --------------------------
(***************************************************************************)
(* What BootFiles promises holds in every execution of BootChain, for any  *)
(* interfaces, addresses, machines and packets, and any number of faults.  *)
(*                                                                         *)
(* The invariant says how far the preparation has come: while nothing has  *)
(* failed, every file and image before the current one is what it should   *)
(* be.  It says nothing of the machine, so that a step of the machine      *)
(* leaves it alone, and a lost packet only takes from the faults.          *)
(***************************************************************************)
EXTENDS BootChain, TLAPS

Fetched ==
  ~failed => \A k \in 1..3 :
    prep.at \in {"grub", "mkimage", "done"} \/ (prep.at \in {"ensure", "fetch", "copy"} /\ k < prep.n)
      => disk[IpxeFiles[k].name].is = "whole"

Made ==
  ~failed => \A k \in 1..3 :
    prep.at = "done" \/ (prep.at \in {"grub", "mkimage"} /\ k < prep.n)
      => disk[GrubImages[k]] = Whole(prefix)

Addressed ==
  prep.at \in {"grub", "mkimage", "done"} /\ ~stale =>
    prefix = IF serverIP = NoAddress THEN LocalIPFor(NoAddress) ELSE serverIP

FilesInv == FilesTypeOK /\ DownloadsAreWhole /\ Fetched /\ Made /\ Addressed

-----------------------------------------------------------------------------
(* The files and images of the tables.                                     *)

\* The three downloads are three files, and none is one of the three images.
LEMMA Tables ==
  /\ \A k \in 1..3 : IpxeFiles[k].name \in IpxeNames /\ GrubImages[k] \in GrubNames
  /\ \A f \in IpxeNames : \E k \in 1..3 : f = IpxeFiles[k].name
  /\ \A f \in GrubNames : \E k \in 1..3 : f = GrubImages[k]
  /\ \A j, k \in 1..3 : GrubImages[j] = GrubImages[k] => j = k
  /\ IpxeNames \cap GrubNames = {}
  /\ Len(IpxeFiles) = 3 /\ Len(GrubImages) = 3
  /\ \A k \in 1..3 : IpxeFiles[k].urls \in 1..2
<1>1. IpxeFiles[1].name = 2001 /\ IpxeFiles[2].name = 2002 /\ IpxeFiles[3].name = 2003
  BY DEF IpxeFiles, Undionly, IpxeEfi, Ipxe32Efi
<1>2. GrubImages[1] = 3001 /\ GrubImages[2] = 3002 /\ GrubImages[3] = 3003
  BY DEF GrubImages, GrubX64, GrubIa32, GrubBios
<1>3. IpxeFiles[1].urls = 1 /\ IpxeFiles[2].urls = 2 /\ IpxeFiles[3].urls = 2
  BY DEF IpxeFiles
<1>4. Len(IpxeFiles) = 3 /\ Len(GrubImages) = 3
  BY DEF IpxeFiles, GrubImages
<1>5. 1..3 = {1, 2, 3}
  OBVIOUS
<1> QED
  BY <1>1, <1>2, <1>3, <1>4, <1>5 DEF IpxeNames, GrubNames

\* The contents of a file are of three kinds.
LEMMA Contents ==
  /\ Missing.is = "missing" /\ Part.is = "part"
  /\ \A a : Whole(a).is = "whole"
BY DEF Missing, Part, Whole

-----------------------------------------------------------------------------
\* At the start nothing is there and nothing goes on.
LEMMA InitFiles == Init => FilesInv
<1> SUFFICES ASSUME Init PROVE FilesInv
  OBVIOUS
<1>1. FilesTypeOK
  <2>1. /\ prep = [at |-> "idle", n |-> 1, url |-> 1]
        /\ disk = [f \in IpxeNames \cup GrubNames |-> Missing]
    BY DEF Init, FilesInit, Idle, At
  <2>2. disk = [f \in IpxeNames \cup GrubNames |-> disk[f]]
    BY <2>1
  <2>3. program = "down" /\ serverIP = NoAddress /\ faults = MaxFaults
    BY DEF Init, FilesInit
  <2>4. failed \in BOOLEAN /\ stale \in BOOLEAN
    BY DEF Init, FilesInit
  <2>5. MaxFaults \in Nat
    BY BootFilesAssumption
  <2>6. faults \in 0..MaxFaults
    BY <2>3, <2>5
  <2>7. /\ \A f \in IpxeNames : disk[f] \in {Missing, Part, Whole(NoAddress)}
        /\ \A f \in GrubNames : disk[f].is \in {"missing", "part", "whole"}
    BY <2>1, Contents
  <2>8. /\ prep \in [at : {"idle", "ensure", "fetch", "copy", "grub", "mkimage", "done"},
                    n : 1..4, url : 1..2]
        /\ prep.at = "idle"
    BY <2>1
  <2> QED
    BY <2>2, <2>3, <2>4, <2>6, <2>7, <2>8, Zenon DEF FilesTypeOK
<1>2. DownloadsAreWhole
  BY Contents DEF Init, FilesInit, DownloadsAreWhole
<1>3. Fetched /\ Made /\ Addressed
  BY DEF Init, FilesInit, Fetched, Made, Addressed, Idle, At
<1> QED
  BY <1>1, <1>2, <1>3 DEF FilesInv
-----------------------------------------------------------------------------
(* The downloads.                                                          *)

\* The source that follows a failed one exists, and so does the file that follows the
\* last source: past the third only its number goes on.
LEMMA NextSource ==
  ASSUME FilesTypeOK, prep.at \in {"ensure", "fetch", "copy"}, prep.n \in 1..3, TryNext
  PROVE  /\ prep' \in [at : {"ensure", "fetch"}, n : 1..4, url : 1..2]
         /\ failed' \in BOOLEAN
         /\ prep'.at = "ensure" => prep'.url = 1
         /\ prep'.at = "fetch" => prep'.n \in 1..3 /\ prep'.url <= IpxeFiles[prep'.n].urls
         /\ ~failed' => ~failed /\ prep'.n = prep.n
<1>1. IpxeFiles[prep.n].urls \in 1..2
  BY Tables
<1>2. prep.url \in 1..2 /\ failed \in BOOLEAN
  BY DEF FilesTypeOK
<1>3. CASE prep.url < IpxeFiles[prep.n].urls
  <2>1. prep' = [at |-> "fetch", n |-> prep.n, url |-> prep.url + 1]
    BY <1>3 DEF TryNext, At
  <2>2. failed' = failed
    BY <1>1, <1>2, <1>3 DEF TryNext
  <2> QED
    BY <1>1, <1>2, <1>3, <2>1, <2>2
<1>4. CASE ~(prep.url < IpxeFiles[prep.n].urls)
  <2>1. prep' = [at |-> "ensure", n |-> prep.n + 1, url |-> 1]
    BY <1>4 DEF TryNext, At
  <2>2. failed' \in BOOLEAN
    BY DEF TryNext
  <2>3. failed'
    <3>1. prep.url <= IpxeFiles[prep.n].urls
      BY <1>1, <1>2 DEF FilesTypeOK
    <3>2. prep.url = IpxeFiles[prep.n].urls
      BY <3>1, <1>1, <1>2, <1>4
    <3>3. failed' = (failed \/ prep.url = IpxeFiles[prep.n].urls)
      BY DEF TryNext
    <3> QED
      BY <3>2, <3>3, Zenon
  <2> QED
    BY <2>1, <2>2, <2>3
<1> QED
  BY <1>3, <1>4

-----------------------------------------------------------------------------
(* Every step of the preparation, one lemma for the downloads and one for  *)
(* the images.                                                             *)

\* Below the file at hand nothing changes while files are fetched.
LEMMA FetchStep ==
  ASSUME FilesInv, SkipFile \/ GetFails \/ Get \/ CopyFails \/ CopyEnds
  PROVE  FilesInv'
<1> USE DEF FilesInv
<1>0. /\ Len(IpxeFiles) = 3 /\ Len(GrubImages) = 3
      /\ prep \in [at : {"idle", "ensure", "fetch", "copy", "grub", "mkimage", "done"},
                   n : 1..4, url : 1..2]
  BY Tables DEF FilesTypeOK
<1>1. CASE SkipFile
  <2>1. /\ prep.at = "ensure" /\ prep.n \in 1..3
        /\ prep' = [at |-> "ensure", n |-> prep.n + 1, url |-> 1]
        /\ UNCHANGED <<program, serverIP, disk, prefix, failed, stale, faults>>
    BY <1>0, <1>1 DEF SkipFile, Fetching, At
  <2>2. disk[IpxeFiles[prep.n].name].is = "whole"
    <3>1. IpxeFiles[prep.n].name \in IpxeNames
      BY <2>1, Tables
    <3>2. disk[IpxeFiles[prep.n].name] # Missing
      BY <1>1 DEF SkipFile, Name
    <3> QED
      BY <3>1, <3>2, Contents DEF FilesTypeOK, DownloadsAreWhole
  <2>3. FilesTypeOK'
    BY <2>1 DEF FilesTypeOK
  <2>4. Fetched'
    BY <2>1, <2>2 DEF Fetched
  <2> QED
    BY <2>1, <2>3, <2>4 DEF DownloadsAreWhole, Made, Addressed
<1>2. CASE GetFails \/ CopyFails
  <2>1. /\ prep.at \in {"ensure", "fetch", "copy"} /\ prep.n \in 1..3 /\ TryNext
        /\ UNCHANGED <<program, serverIP, disk, prefix, stale>> /\ Fault
    BY <1>0, <1>2 DEF GetFails, CopyFails, Wanted, Fetching
  <2>2. /\ prep' \in [at : {"ensure", "fetch"}, n : 1..4, url : 1..2]
        /\ failed' \in BOOLEAN
        /\ prep'.at = "ensure" => prep'.url = 1
        /\ prep'.at = "fetch" => prep'.n \in 1..3 /\ prep'.url <= IpxeFiles[prep'.n].urls
        /\ ~failed' => ~failed /\ prep'.n = prep.n
    BY <2>1, NextSource
  <2>3. faults' \in 0..MaxFaults
    BY <2>1, BootFilesAssumption DEF Fault, FilesTypeOK
  <2>4. FilesTypeOK'
    BY <2>1, <2>2, <2>3 DEF FilesTypeOK
  <2>5. Fetched'
    BY <2>1, <2>2 DEF Fetched
  <2> QED
    BY <2>1, <2>2, <2>4, <2>5 DEF DownloadsAreWhole, Made, Addressed
<1>3. CASE Get
  <2>1. /\ prep.at \in {"ensure", "fetch"} /\ prep.n \in 1..3
        /\ prep' = [prep EXCEPT !.at = "copy"]
        /\ UNCHANGED <<program, serverIP, disk, prefix, failed, stale, faults>>
    BY <1>0, <1>3 DEF Get, Wanted, Fetching
  <2>2. /\ prep'.at = "copy" /\ prep'.n = prep.n /\ prep'.url = prep.url
        /\ prep' \in [at : {"copy"}, n : 1..4, url : 1..2]
        /\ prep.url <= IpxeFiles[prep.n].urls
    <3>1. IpxeFiles[prep.n].urls \in 1..2
      BY <2>1, Tables
    <3> QED
      BY <1>0, <2>1, <3>1 DEF FilesTypeOK
  <2>3. FilesTypeOK'
    BY <2>1, <2>2 DEF FilesTypeOK
  <2> QED
    BY <2>1, <2>2, <2>3 DEF DownloadsAreWhole, Fetched, Made, Addressed
<1>4. CASE CopyEnds
  <2>1. /\ prep.at = "copy" /\ prep.n \in 1..3
        /\ disk' = [disk EXCEPT ![Name] = Whole(NoAddress)]
        /\ prep' = [at |-> "ensure", n |-> prep.n + 1, url |-> 1]
        /\ UNCHANGED <<program, serverIP, prefix, failed, stale, faults>>
    BY <1>0, <1>4 DEF CopyEnds, Fetching, At
  <2>2. Name = IpxeFiles[prep.n].name /\ Name \in IpxeNames
    BY <2>1, Tables DEF Name
  <2>3. /\ disk' = [f \in IpxeNames \cup GrubNames |-> disk'[f]]
        /\ disk'[Name] = Whole(NoAddress)
        /\ \A f \in IpxeNames \cup GrubNames : f # Name => disk'[f] = disk[f]
    BY <2>1, <2>2 DEF FilesTypeOK
  <2>4. \A f \in GrubNames : disk'[f] = disk[f]
    BY <2>2, <2>3, Tables
  <2>5. FilesTypeOK'
    <3>1. \A f \in IpxeNames : disk'[f] \in {Missing, Part, Whole(NoAddress)}
      BY <2>3 DEF FilesTypeOK
    <3>2. \A f \in GrubNames : disk'[f].is \in {"missing", "part", "whole"}
      BY <2>4 DEF FilesTypeOK
    <3>3. /\ prep' \in [at : {"ensure"}, n : 1..4, url : 1..2]
          /\ prep'.url = 1 /\ prep'.at = "ensure"
      BY <2>1
    <3>4. disk' = [f \in IpxeNames \cup GrubNames |-> disk'[f]]
      BY <2>3
    <3> QED
      BY <2>1, <3>1, <3>2, <3>3, <3>4 DEF FilesTypeOK
  <2>6. DownloadsAreWhole'
    BY <2>3, Contents DEF DownloadsAreWhole
  <2>7. Fetched'
    <3> SUFFICES ASSUME ~failed, NEW k \in 1..3, k < prep.n + 1
                 PROVE  disk'[IpxeFiles[k].name].is = "whole"
      BY <2>1 DEF Fetched
    <3>1. IpxeFiles[k].name \in IpxeNames
      BY Tables
    <3>2. CASE k = prep.n
      BY <2>2, <2>3, <3>2, Contents
    <3>3. CASE k < prep.n
      BY <2>1, <2>3, <3>1, <3>3, Contents DEF Fetched
    <3> QED
      BY <1>0, <3>2, <3>3
  <2> QED
    BY <2>1, <2>5, <2>6, <2>7 DEF Made, Addressed
<1> QED
  BY <1>1, <1>2, <1>3, <1>4

\* The images before the one at hand hold the address, which is read once.
LEMMA ImageStep ==
  ASSUME FilesInv, ReadAddress \/ NoMkimage \/ MakeImage \/ MakeFails \/ MakeEnds
  PROVE  FilesInv'
<1> USE DEF FilesInv
<1>0. /\ Len(IpxeFiles) = 3 /\ Len(GrubImages) = 3
      /\ prep \in [at : {"idle", "ensure", "fetch", "copy", "grub", "mkimage", "done"},
                   n : 1..4, url : 1..2]
      /\ prep.at \in {"grub", "mkimage"} => prep.n \in 1..3
  BY Tables DEF FilesTypeOK
<1>1. CASE ReadAddress
  <2>1. /\ prep.at = "ensure" /\ prep.n = 4
        /\ prefix' = IF serverIP = NoAddress THEN LocalIPFor(NoAddress) ELSE serverIP
        /\ prep' = [at |-> "grub", n |-> 1, url |-> 1] /\ stale' = FALSE
        /\ UNCHANGED <<program, serverIP, disk, failed, faults>>
    BY <1>0, <1>1 DEF ReadAddress, At
  <2>2. FilesTypeOK'
    <3>1. /\ prep'.at = "grub" /\ prep'.n \in 1..3
          /\ prep' \in [at : {"grub"}, n : 1..4, url : 1..2]
      BY <2>1
    <3>4. stale' = FALSE
      BY <1>1 DEF ReadAddress
    <3>5. stale' \in BOOLEAN
      BY <3>4
    <3>2. failed' \in BOOLEAN /\ faults' \in 0..MaxFaults
      BY <2>1 DEF FilesTypeOK
    <3>3. /\ program' \in {"up", "down"} /\ serverIP' \in Configured \cup {NoAddress}
          /\ disk' = [f \in IpxeNames \cup GrubNames |-> disk'[f]]
          /\ \A f \in IpxeNames : disk'[f] \in {Missing, Part, Whole(NoAddress)}
          /\ \A f \in GrubNames : disk'[f].is \in {"missing", "part", "whole"}
      BY <2>1 DEF FilesTypeOK
    <3> QED
      BY <3>1, <3>2, <3>3, <3>5 DEF FilesTypeOK
  <2>3. Fetched'
    BY <2>1 DEF Fetched
  <2>4. Addressed'
    BY <2>1 DEF Addressed
  <2> QED
    BY <2>1, <2>2, <2>3, <2>4 DEF DownloadsAreWhole, Made
<1>2. CASE NoMkimage
  <2>1. /\ prep' = [at |-> "idle", n |-> 1, url |-> 1] /\ failed' = TRUE /\ Fault
        /\ UNCHANGED <<program, serverIP, disk, prefix, stale>>
    BY <1>2 DEF NoMkimage, Idle, At
  <2>2. faults' \in 0..MaxFaults
    BY <2>1, BootFilesAssumption DEF Fault, FilesTypeOK
  <2>3. FilesTypeOK'
    <3>1. /\ prep'.at = "idle" /\ prep' \in [at : {"idle"}, n : 1..4, url : 1..2]
          /\ failed' \in BOOLEAN
      BY <2>1
    <3> QED
      BY <2>1, <2>2, <3>1 DEF FilesTypeOK
  <2>4. prep'.at \notin {"ensure", "fetch", "copy", "grub", "mkimage", "done"}
    BY <2>1
  <2>5. Fetched' /\ Made' /\ Addressed'
    BY <2>4 DEF Fetched, Made, Addressed
  <2> QED
    BY <2>1, <2>3, <2>5 DEF DownloadsAreWhole
<1>3. CASE MakeImage
  <2>1. /\ prep.at = "grub" /\ prep.n \in 1..3
        /\ disk' = [disk EXCEPT ![Image] = Part]
        /\ prep' = [prep EXCEPT !.at = "mkimage"]
        /\ UNCHANGED <<program, serverIP, prefix, failed, stale, faults>>
    BY <1>0, <1>3 DEF MakeImage
  <2>2. /\ prep'.at = "mkimage" /\ prep'.n = prep.n
        /\ prep' \in [at : {"mkimage"}, n : 1..4, url : 1..2]
    BY <1>0, <2>1
  <2>3. /\ disk' = [f \in IpxeNames \cup GrubNames |-> disk'[f]]
        /\ disk'[Image] = Part /\ Image = GrubImages[prep.n]
        /\ \A f \in IpxeNames : disk'[f] = disk[f]
        /\ \A k \in 1..3 : k # prep.n => disk'[GrubImages[k]] = disk[GrubImages[k]]
    <3>1. Image = GrubImages[prep.n] /\ Image \in GrubNames
      BY <2>1, Tables DEF Image
    <3>2. /\ disk' = [f \in IpxeNames \cup GrubNames |-> disk'[f]] /\ disk'[Image] = Part
          /\ \A f \in IpxeNames \cup GrubNames : f # Image => disk'[f] = disk[f]
      BY <2>1, <3>1 DEF FilesTypeOK
    <3> QED
      BY <2>1, <3>1, <3>2, Tables
  <2>4. FilesTypeOK'
    <3>1. \A f \in GrubNames : disk'[f].is \in {"missing", "part", "whole"}
      BY <2>3, Tables, Contents DEF FilesTypeOK
    <3>2. \A f \in IpxeNames : disk'[f] \in {Missing, Part, Whole(NoAddress)}
      BY <2>3 DEF FilesTypeOK
    <3> QED
      BY <2>1, <2>2, <2>3, <3>1, <3>2 DEF FilesTypeOK
  <2>5. DownloadsAreWhole'
    BY <2>3 DEF DownloadsAreWhole
  <2>6. Fetched'
    BY <2>1, <2>2, <2>3, Tables DEF Fetched
  <2>7. Made'
    BY <1>0, <2>1, <2>2, <2>3 DEF Made
  <2> QED
    BY <2>1, <2>2, <2>4, <2>5, <2>6, <2>7 DEF Addressed
<1>4. CASE MakeFails
  <2>1. /\ prep.at \in {"grub", "mkimage"} /\ prep.n \in 1..3 /\ failed' = TRUE /\ Fault /\ prep' = AfterImage
        /\ UNCHANGED <<program, serverIP, disk, prefix, stale>>
    BY <1>0, <1>4 DEF MakeFails
  <2>2. /\ prep' \in [at : {"grub", "done"}, n : 1..4, url : 1..2]
        /\ prep'.at = "grub" => prep'.n \in 1..3
    BY <1>0, <2>1 DEF AfterImage, At
  <2>3. faults' \in 0..MaxFaults
    BY <2>1, BootFilesAssumption DEF Fault, FilesTypeOK
  <2>4. FilesTypeOK'
    BY <2>1, <2>2, <2>3 DEF FilesTypeOK
  <2> QED
    BY <2>1, <2>2, <2>4 DEF DownloadsAreWhole, Fetched, Made, Addressed
<1>5. CASE MakeEnds
  <2>1. /\ prep.at = "mkimage" /\ prep.n \in 1..3
        /\ disk' = [disk EXCEPT ![Image] = Whole(prefix)] /\ prep' = AfterImage
        /\ UNCHANGED <<program, serverIP, prefix, failed, stale, faults>>
    BY <1>0, <1>5 DEF MakeEnds
  <2>2. /\ prep' \in [at : {"grub", "done"}, n : 1..4, url : 1..2]
        /\ prep'.at = "grub" => prep'.n \in 1..3 /\ prep'.n = prep.n + 1
        /\ prep'.at = "done" => prep.n = 3
    BY <1>0, <2>1 DEF AfterImage, At
  <2>3. /\ disk' = [f \in IpxeNames \cup GrubNames |-> disk'[f]]
        /\ disk'[Image] = Whole(prefix) /\ Image = GrubImages[prep.n]
        /\ \A f \in IpxeNames : disk'[f] = disk[f]
        /\ \A k \in 1..3 : k # prep.n => disk'[GrubImages[k]] = disk[GrubImages[k]]
    <3>1. Image = GrubImages[prep.n] /\ Image \in GrubNames
      BY <2>1, Tables DEF Image
    <3>2. /\ disk' = [f \in IpxeNames \cup GrubNames |-> disk'[f]] /\ disk'[Image] = Whole(prefix)
          /\ \A f \in IpxeNames \cup GrubNames : f # Image => disk'[f] = disk[f]
      BY <2>1, <3>1 DEF FilesTypeOK
    <3> QED
      BY <2>1, <3>1, <3>2, Tables
  <2>4. FilesTypeOK'
    <3>1. \A f \in GrubNames : disk'[f].is \in {"missing", "part", "whole"}
      BY <2>3, Tables, Contents DEF FilesTypeOK
    <3>2. \A f \in IpxeNames : disk'[f] \in {Missing, Part, Whole(NoAddress)}
      BY <2>3 DEF FilesTypeOK
    <3> QED
      BY <2>1, <2>2, <2>3, <3>1, <3>2 DEF FilesTypeOK
  <2>5. DownloadsAreWhole'
    BY <2>3 DEF DownloadsAreWhole
  <2>6. Fetched'
    BY <2>1, <2>2, <2>3, Tables DEF Fetched
  <2>7. Made'
    <3> SUFFICES ASSUME ~failed, NEW k \in 1..3, k <= prep.n
                 PROVE  disk'[GrubImages[k]] = Whole(prefix)
      BY <1>0, <2>1, <2>2 DEF Made
    <3>1. CASE k = prep.n
      BY <2>3, <3>1
    <3>2. CASE k < prep.n
      BY <2>1, <2>3, <3>2 DEF Made
    <3> QED
      BY <1>0, <3>1, <3>2
  <2> QED
    BY <2>1, <2>2, <2>4, <2>5, <2>6, <2>7 DEF Addressed
<1> QED
  BY <1>1, <1>2, <1>3, <1>4, <1>5

-----------------------------------------------------------------------------
(* The console, the program, and everybody else.                           *)

\* A change of the address makes it stale, a crash ends the preparation, a start begins
\* a new one.
LEMMA ProgramStep ==
  ASSUME FilesInv, SetAddress \/ Crash \/ Restart
  PROVE  FilesInv'
<1> USE DEF FilesInv
<1>1. CASE SetAddress
  <2>1. /\ serverIP' \in Configured /\ stale' = TRUE /\ Fault
        /\ UNCHANGED <<program, disk, prep, prefix, failed>>
    BY <1>1 DEF SetAddress
  <2>2. faults' \in 0..MaxFaults
    BY <2>1, BootFilesAssumption DEF Fault, FilesTypeOK
  <2>3. stale' \in BOOLEAN
    BY <2>1
  <2>4. FilesTypeOK'
    BY <2>1, <2>2, <2>3 DEF FilesTypeOK
  <2>5. Addressed'
    BY <2>1 DEF Addressed
  <2> QED
    BY <2>1, <2>4, <2>5 DEF DownloadsAreWhole, Fetched, Made
<1>2. CASE Crash
  <2>1. /\ program' = "down" /\ prep' = [at |-> "idle", n |-> 1, url |-> 1] /\ Fault
        /\ UNCHANGED <<serverIP, disk, failed, stale>>
    BY <1>2 DEF Crash, Idle, At
  <2>2. faults' \in 0..MaxFaults
    BY <2>1, BootFilesAssumption DEF Fault, FilesTypeOK
  <2>3. prep'.at = "idle" /\ prep' \in [at : {"idle"}, n : 1..4, url : 1..2]
    BY <2>1
  <2>4. FilesTypeOK'
    BY <2>1, <2>2, <2>3 DEF FilesTypeOK
  <2>5. Fetched' /\ Made' /\ Addressed'
    BY <2>3 DEF Fetched, Made, Addressed
  <2> QED
    BY <2>1, <2>4, <2>5 DEF DownloadsAreWhole
<1>3. CASE Restart
  <2>1. /\ program' = "up" /\ failed' = FALSE /\ stale' = FALSE
        /\ prep' \in {[at |-> "ensure", n |-> 1, url |-> 1], [at |-> "idle", n |-> 1, url |-> 1]}
        /\ UNCHANGED <<serverIP, disk, prefix, faults>>
    BY <1>3 DEF Restart, Idle, At
  <2>2. /\ prep'.at \in {"ensure", "idle"} /\ prep'.n = 1 /\ prep'.url = 1
        /\ prep' \in [at : {"ensure", "idle"}, n : 1..4, url : 1..2]
    BY <2>1
  <2>3. failed' \in BOOLEAN /\ stale' \in BOOLEAN
    <3>1. failed' = FALSE /\ stale' = FALSE
      BY <1>3 DEF Restart
    <3> QED
      BY <3>1
  <2>4. FilesTypeOK'
    BY <2>1, <2>2, <2>3 DEF FilesTypeOK
  <2>5. Fetched' /\ Made' /\ Addressed'
    BY <2>2 DEF Fetched, Made, Addressed
  <2> QED
    BY <2>1, <2>4, <2>5 DEF DownloadsAreWhole
<1> QED
  BY <1>1, <1>2, <1>3

\* Where only the faults may become fewer, the invariant stays.
LEMMA OtherStep ==
  ASSUME FilesInv, UNCHANGED <<program, serverIP, disk, prep, prefix, failed, stale>>,
         faults' = faults \/ Fault
  PROVE  FilesInv'
<1>1. faults' \in 0..MaxFaults
  BY BootFilesAssumption DEF Fault, FilesInv, FilesTypeOK
<1>2. FilesTypeOK'
  BY <1>1 DEF FilesInv, FilesTypeOK
<1> QED
  BY <1>2 DEF FilesInv, DownloadsAreWhole, Fetched, Made, Addressed

\* No step of the server, of the machine or of the network breaks the invariant.
LEMMA NextFiles ==
  ASSUME FilesInv, [Next]_vars
  PROVE  FilesInv'
<1>1. CASE Server
  <2>1. CASE Prepare
    BY <2>1, FetchStep, ImageStep DEF Prepare
  <2>2. CASE SetAddress \/ Crash \/ Restart
    BY <2>2, ProgramStep
  <2> QED
    BY <1>1, <2>1, <2>2 DEF Server
<1>2. CASE Machine \/ Stray \/ Handle \/ UNCHANGED vars
  <2>1. UNCHANGED filesVars
    BY <1>2 DEF Machine, PowerOn, Confirm, Take, Again, GiveUp, LoadBinary, FetchScript, ChainGrub,
                ReadMenu, BootEntry, Reboot, Fetch, Stray, Handle, vars
  <2> QED
    BY <2>1, OtherStep DEF filesVars
<1>3. CASE Lose
  BY <1>3, OtherStep DEF Lose
<1> QED
  BY <1>1, <1>2, <1>3 DEF Next

-----------------------------------------------------------------------------
\* The invariant, in every execution.
THEOREM FilesInvariant == Spec => []FilesInv
<1>1. Init => FilesInv
  BY InitFiles
<1>2. FilesInv /\ [Next]_vars => FilesInv'
  BY NextFiles
<1> QED
  BY <1>1, <1>2, PTL DEF Spec

\* No partial download ever lies under the name that TFTP serves and a later start keeps
\* (EnsureIPXE, download), however often the program is ended in the middle of one.
THEOREM WholeDownloads == Spec => []DownloadsAreWhole
<1>1. FilesInv => DownloadsAreWhole
  BY DEF FilesInv
<1> QED
  BY <1>1, FilesInvariant, PTL

LEMMA FilesReady == FilesInv => PreparedIsWhole
<1> SUFFICES ASSUME FilesInv, prep.at = "done", ~failed
             PROVE  /\ \A f \in IpxeNames : disk[f].is = "whole"
                    /\ \A f \in GrubNames : disk[f] = Whole(prefix)
                    /\ ~stale => prefix = IF serverIP = NoAddress THEN LocalIPFor(NoAddress)
                                          ELSE serverIP
  BY DEF PreparedIsWhole
<1>1. \A f \in IpxeNames : disk[f].is = "whole"
  BY Tables DEF FilesInv, Fetched
<1>2. \A f \in GrubNames : disk[f] = Whole(prefix)
  BY Tables DEF FilesInv, Made
<1> QED
  BY <1>1, <1>2 DEF FilesInv, Addressed

\* A preparation that ends without a failure has left every file whole and every image
\* with the address of this run in it (EnsureGRUB and the goroutine of main).
THEOREM PreparedWhole == Spec => []PreparedIsWhole
  BY FilesReady, FilesInvariant, PTL
=============================================================================
