------------------------------ MODULE Iso9660 ------------------------------
(***************************************************************************)
(* The reader of ISO images (internal/iso/iso9660.go): Open looks for the  *)
(* volume descriptors, readDir goes through the records of one directory,  *)
(* Walk through the directories, depth first.                              *)
(*                                                                         *)
(* A file is a row of sectors of SectorSize units, numbered from the first *)
(* volume descriptor on.  Of a directory only the places where its records *)
(* begin matter; every other unit that the reader looks at is zero.  What  *)
(* lies behind the end of the file reads as zeros, too: readDir ignores    *)
(* io.EOF.  A file may still be growing, as an upload does.                *)
(***************************************************************************)
EXTENDS Integers, Sequences, FiniteSets

CONSTANTS
  SectorSize,   \* units per sector
  DepthLimit,   \* walk gives up below this depth
  VolumeLimit,  \* Open looks at so many sectors
  Images,       \* the images that may be read
  Clean,        \* the name this reader makes of an identifier, lower case included
  Shown         \* the name GRUB makes of it

(* An identifier stands for all that a record holds of a file's name: the  *)
(* characters of its own tree, which the reader takes, and a Rock Ridge    *)
(* name, which it passes over.  GRUB takes the Rock Ridge name where there *)
(* is one; the two names differ where the tree's own is cut.               *)
(* An image is a record with the fields                                    *)
(*   volume   the volume descriptors, [type, lba, size] of the root each   *)
(*   record   from units to the directory records that begin there:        *)
(*            [len, short, id, dir, lba, size]; "self" and "parent" are    *)
(*            the identifiers of the two special ones, "stub" stands for a *)
(*            record shorter than its own header, short says that the      *)
(*            identifier does not fit into the record                      *)
(*   rockridge  the primary tree has Rock Ridge names as well              *)
(*   sectors  its length in sectors                                        *)
(*   label    the keywords its volume label contains                       *)

ASSUME SizeAssumption == SectorSize \in Nat \ {0} /\ {DepthLimit, VolumeLimit} \subseteq Nat
ASSUME ImageAssumption ==
  \A m \in Images :
    /\ \A p \in DOMAIN m.record :
         /\ p \in Nat
         /\ m.record[p] \in [len : Nat \ {0}, short : BOOLEAN, id : DOMAIN Clean,
                             dir : BOOLEAN, lba : Nat, size : Nat]
    /\ m.rockridge \in BOOLEAN
    /\ m.rockridge => \E i \in 1..Len(m.volume) : m.volume[i].type = "primary"
    /\ m.sectors \in Nat /\ m.volume \in Seq([type : STRING, lba : Nat, size : Nat])

VARIABLES
  image,    \* the image that is read
  whole,    \* the file was complete when it was opened
  present,  \* how many sectors of it the file has by now
  at,       \* "open", "read" (in readDir), "walk", "closed", "refused" or "died"
  dir,      \* readDir: where the directory is, how far it was read, what was found
  stack,    \* walk: per level, the path and the entries that are still to be visited
  seen      \* the paths reported so far

readerVars == <<image, whole, present, at, dir, stack, seen>>

-----------------------------------------------------------------------------
(* Open.                                                                   *)

\* The descriptors before the end of the file and the terminator.
Scanned ==
  {i \in 1..Len(image.volume) :
     /\ i <= present /\ i <= VolumeLimit
     /\ \A j \in 1..i : image.volume[j].type # "end"}

Found(type) == {i \in Scanned : image.volume[i].type = type}
Latest(type) == image.volume[CHOOSE i \in Found(type) : \A j \in Found(type) : j <= i]

RootPrimary ==
  IF Found("primary") # {} THEN Latest("primary") ELSE Latest("joliet")

Root ==
  IF Found("joliet") # {} /\ Latest("joliet").lba # 0 THEN Latest("joliet") ELSE Latest("primary")
HasRoot ==
  \/ Found("primary") # {}
  \/ Found("joliet") # {} /\ Latest("joliet").lba # 0

Directory(d, path) == [lba |-> d.lba, size |-> d.size, pos |-> 0, path |-> path, out |-> <<>>]

OpenImage ==
  /\ at = "open" /\ HasRoot
  /\ at' = "read" /\ dir' = Directory(Root, <<>>)
  /\ whole' = (present = image.sectors)
  /\ UNCHANGED <<image, present, stack, seen>>

Refuse ==
  /\ at = "open" /\ ~HasRoot
  /\ at' = "refused"
  /\ UNCHANGED <<image, whole, present, dir, stack, seen>>

-----------------------------------------------------------------------------
(* readDir.                                                                *)

Here == dir.lba * SectorSize + dir.pos
RecordHere == image.record[Here]
RecLen == IF Here \in DOMAIN image.record /\ Here < present * SectorSize THEN RecordHere.len ELSE 0

NextSectorNone == dir.size
NextSector == (dir.pos \div SectorSize + 1) * SectorSize

\* readDir returns, walk starts on what it found, or returns at once.
Listed ==
  /\ at' = "walk"
  /\ stack' = Append(stack, [path |-> dir.path,
                             todo |-> IF Len(stack) > DepthLimit THEN <<>> ELSE dir.out])
  /\ UNCHANGED <<image, whole, present, dir, seen>>

MoveTo(pos, out) ==
  /\ dir' = [dir EXCEPT !.pos = pos, !.out = out]
  /\ UNCHANGED <<image, whole, present, at, stack, seen>>

EndOfDirectory ==
  /\ at = "read"
  /\ \/ dir.pos >= dir.size
     \/ dir.pos < dir.size /\ RecLen = 0 /\ (NextSector <= dir.pos \/ NextSector >= dir.size)
     \/ dir.pos < dir.size /\ dir.pos + RecLen > dir.size
  /\ Listed

Padding ==
  /\ at = "read" /\ dir.pos < dir.size /\ RecLen = 0
  /\ NextSector > dir.pos /\ NextSector < dir.size
  /\ MoveTo(NextSector, dir.out)

AtRecord == at = "read" /\ dir.pos < dir.size /\ RecLen > 0 /\ dir.pos + RecLen <= dir.size
Stub(r) == r.id = "stub"
InRecord == AtRecord /\ ~Stub(RecordHere)
Passed(r) == r.short \/ r.id \in {"self", "parent"}

SkipRecordStays ==
  /\ InRecord /\ Passed(RecordHere)
  /\ MoveTo(dir.pos, dir.out)

SkipRecord ==
  /\ InRecord /\ Passed(RecordHere)
  /\ MoveTo(dir.pos + RecLen, dir.out)

TakeRecord ==
  /\ InRecord /\ ~Passed(RecordHere)
  /\ MoveTo(dir.pos + RecLen, Append(dir.out, RecordHere))

\* The header is read before anything is known of its length: an index out of range ends
\* the request, not the program.
Panic ==
  /\ AtRecord /\ Stub(RecordHere)
  /\ at' = "died"
  /\ UNCHANGED <<image, whole, present, dir, stack, seen>>

-----------------------------------------------------------------------------
(* walk.                                                                   *)

Depth == Len(stack)
Top == stack[Depth]
Visited == [stack EXCEPT ![Depth].todo = Tail(@)]
PathOf(r) == Append(Top.path, Clean[r.id])

ReportFile ==
  /\ at = "walk" /\ Depth > 0 /\ Top.todo # <<>> /\ ~Head(Top.todo).dir
  /\ seen' = seen \cup {PathOf(Head(Top.todo))}
  /\ stack' = Visited
  /\ UNCHANGED <<image, whole, present, at, dir>>

Descend ==
  /\ at = "walk" /\ Depth > 0 /\ Top.todo # <<>> /\ Head(Top.todo).dir
  /\ at' = "read"
  /\ dir' = Directory(Head(Top.todo), PathOf(Head(Top.todo)))
  /\ stack' = Visited
  /\ UNCHANGED <<image, whole, present, seen>>

Ascend ==
  /\ at = "walk" /\ Depth > 0 /\ Top.todo = <<>>
  /\ stack' = SubSeq(stack, 1, Depth - 1)
  /\ at' = IF Depth = 1 THEN "closed" ELSE at
  /\ UNCHANGED <<image, whole, present, dir, seen>>

\* The upload of the file goes on.
Grow ==
  /\ present < image.sectors
  /\ present' \in (present + 1)..image.sectors
  /\ UNCHANGED <<image, whole, at, dir, stack, seen>>

-----------------------------------------------------------------------------
ReaderInit ==
  /\ image \in Images /\ whole = FALSE /\ present \in 0..image.sectors
  /\ at = "open" /\ dir = [lba |-> 0, size |-> 0, pos |-> 0, path |-> <<>>, out |-> <<>>]
  /\ stack = <<>> /\ seen = {}

Read ==
  \/ OpenImage \/ Refuse
  \/ EndOfDirectory \/ Padding \/ SkipRecord \/ TakeRecord \/ Panic
  \/ ReportFile \/ Descend \/ Ascend

-----------------------------------------------------------------------------
(* What an image holds, without regard to how it is read.                  *)

RecordsWithin(m, d) ==
  {p \in DOMAIN m.record : p >= d.lba * SectorSize /\ p < d.lba * SectorSize + d.size}

RecordsOf(m, d) ==
  {m.record[p] : p \in {q \in RecordsWithin(m, d) :
                           ~Passed(m.record[q]) /\ ~Stub(m.record[q])}}

DirectoriesOf(m) ==
  {m.record[p] : p \in DOMAIN m.record} \cup {m.volume[i] : i \in 1..Len(m.volume)}

\* The files below a directory, at most n levels further down, under the names that
\* a reader makes of the identifiers.
Below(m, name) ==
  LET below[n \in 0..DepthLimit] ==
        [d \in DirectoriesOf(m) |->
           {<<name[r.id]>> : r \in {s \in RecordsOf(m, d) : ~s.dir}} \cup
           (IF n = 0 THEN {}
            ELSE UNION {{<<name[r.id]>> \o p : p \in below[n - 1][r]} :
                          r \in {s \in RecordsOf(m, d) : s.dir}})]
  IN  below

FilesWithin(m, name) == Below(m, name)[DepthLimit]

\* The tree with the longer names, where an image has two.
FullRoot(m) ==
  LET best == IF \E i \in 1..Len(m.volume) : m.volume[i].type = "joliet"
              THEN "joliet" ELSE "primary"
  IN  m.volume[CHOOSE i \in 1..Len(m.volume) : m.volume[i].type = best]

\* GRUB prefers Rock Ridge names to a Joliet tree.
GrubRoot(m) ==
  IF m.rockridge
  THEN m.volume[CHOOSE i \in 1..Len(m.volume) : m.volume[i].type = "primary"]
  ELSE FullRoot(m)

\* As it should be: one tree of each kind, described before the terminator; the
\* records of a directory follow each other from the start of each sector on, and
\* none crosses the end of a sector or of the directory.
VolumesWellFormed(m) ==
  /\ Len(m.volume) <= m.sectors /\ Len(m.volume) <= VolumeLimit
  /\ \A i \in 1..Len(m.volume) :
       /\ m.volume[i].type = "end" => i = Len(m.volume)
       /\ m.volume[i].type = "joliet" => m.volume[i].lba # 0
       /\ m.volume[i].type \in {"primary", "joliet"} =>
            \A j \in 1..Len(m.volume) : m.volume[i].type = m.volume[j].type => i = j

DirectoryWellFormed(m, d) ==
  /\ d.size % SectorSize = 0
  /\ \A p \in RecordsWithin(m, d) :
       /\ ~Stub(m.record[p]) /\ p < m.sectors * SectorSize
       /\ (p % SectorSize) + m.record[p].len <= SectorSize
       /\ \/ p % SectorSize = 0
          \/ \E q \in RecordsWithin(m, d) : q + m.record[q].len = p

WellFormed(m) ==
  /\ VolumesWellFormed(m)
  /\ \A i \in 1..Len(m.volume) :
       m.volume[i].type \in {"primary", "joliet"} => DirectoryWellFormed(m, m.volume[i])
  /\ \A p \in DOMAIN m.record :
       m.record[p].dir => DirectoryWellFormed(m, m.record[p])
=============================================================================
