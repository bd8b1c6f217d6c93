------------------------------ MODULE MCImages ------------------------------
(***************************************************************************)
(* ImageBoot with images mastered from a few trees, three kinds of names   *)
(* and directories whose records have all lengths.  A record takes 2 units, or *)
(* more; a sector has 5, so that two short records leave a gap.            *)
(***************************************************************************)
EXTENDS ImageBoot, SequencesExt

Unit == 5
\* Identifiers on the disk; in the primary tree some names are cut.  Those that begin
\* with rr: have a Rock Ridge name besides.
RockRidge ==
  "rr:CASPER" :> "casper" @@ "rr:VMLINUZ.;1" :> "vmlinuz" @@ "rr:INITRD.;1" :> "initrd"
  @@ "rr:INITRD.IMG;1" :> "initrd.img" @@ "rr:LIVE" :> "LIVE"
  @@ "rr:ARCH" :> "arch" @@ "rr:BOOT" :> "boot" @@ "rr:X86_64" :> "x86_64"
  @@ "rr:VMLINUZ_.;1" :> "vmlinuz-linux" @@ "rr:INITRAMF.IMG;1" :> "initramfs-linux.img"
  @@ "rr:INSTALL.AMD" :> "install.amd" @@ "rr:INITRD_M.GZ;1" :> "initrd.gz"

Own ==
  [id \in {"casper", "vmlinuz", "initrd", ".disk", "info", "live", "initrd.img",
           "filesystem.squashfs", "install.amd", "initrd.gz", "images", "pxeboot", "isolinux",
           ".treeinfo", "arch", "boot", "x86_64", "vmlinuz-linux", "initramfs-linux.img",
           "loader", "linux", "vmlinuz-lts", "initramfs-lts", "grub", "grub.cfg",
           "loopback.cfg", "sources", "install.wim", "vmlinuz-6.1", "initrd.lz", "readme",
           "a", "b", "c", "stub", "self", "parent"} |-> id]
  @@ ("ARCH" :> "arch" @@ "BOOT" :> "boot" @@ "X86_64" :> "x86_64"
      @@ "VMLINUZ_.;1" :> "vmlinuz_" @@ "INITRAMF.IMG;1" :> "initramf.img")

MCShown == Own @@ RockRidge
MCClean ==
  Own @@ ("rr:LIVE" :> "live" @@ "rr:VMLINUZ_.;1" :> "vmlinuz_"
          @@ "rr:INITRAMF.IMG;1" :> "initramf.img" @@ "rr:INITRD_M.GZ;1" :> "initrd_m.gz")
      @@ RockRidge

MCStarts == {<<"install.wim", "install">>, <<"vmlinuz-6.1", "vmlinuz">>,
             <<"initrd.img", "initrd">>, <<"vmlinuz-linux", "vmlinuz">>,
             <<"vmlinuz-lts", "vmlinuz">>}

\* A directory is the sequence of its records; [len, id, to] with to = 0 for a file,
\* else the number of the directory it leads to.  Each directory begins in a sector of
\* its own; a record that does not fit goes to the next one.
Place(records) ==
  FoldLeft(LAMBDA places, r :
             LET free == IF places = <<>> THEN 0 ELSE Last(places) + records[Len(places)].len
                 fits == (free % Unit) + r.len <= Unit
             IN  Append(places, IF fits THEN free ELSE (free \div Unit + 1) * Unit),
           <<>>, records)

Sectors(records) == (Last(Place(records)) + Last(records).len + Unit - 1) \div Unit

\* Directory d begins behind the volume descriptors (v of them) and its predecessors.
FirstSector(v, dirs, d) == v + FoldLeft(LAMBDA n, records : n + Sectors(records),
                                        0, SubSeq(dirs, 1, d - 1))
Extent(v, dirs, d) == [lba |-> FirstSector(v, dirs, d), size |-> Sectors(dirs[d]) * Unit]

File(len, id) == [len |-> len, id |-> id, to |-> 0]
Dir(id, to) == [len |-> 2, id |-> id, to |-> to]
Short(id) == [len |-> 1, id |-> id, to |-> 0]
Dots(self, parent) == <<[len |-> 1, id |-> "self", to |-> self], [len |-> 1, id |-> "parent", to |-> parent]>>

\* roots: the directories of the primary and of the Joliet tree; 0 for no such tree.
Master(primary, joliet, dirs, label) ==
  LET volume == SelectSeq(<<[type |-> "primary", root |-> primary],
                            [type |-> "joliet", root |-> joliet],
                            [type |-> "end", root |-> 1]>>, LAMBDA w : w.root # 0)
      v == Len(volume)
      entry(d, k) ==
        LET r == dirs[d][k]
            to == IF r.to = 0 THEN [lba |-> 0, size |-> 0] ELSE Extent(v, dirs, r.to)
        IN  [len |-> r.len, short |-> r.len = 1 /\ r.id \notin {"self", "parent"},
             id |-> r.id, dir |-> r.to # 0, lba |-> to.lba, size |-> to.size]
      begins == [d \in 1..Len(dirs) |->
                   [k \in 1..Len(dirs[d]) |->
                      FirstSector(v, dirs, d) * Unit + Place(dirs[d])[k]]]
      where == UNION {{<<d, k>> : k \in 1..Len(dirs[d])} : d \in 1..Len(dirs)}
  IN  [volume |-> [i \in 1..v |->
                     [type |-> volume[i].type, lba |-> Extent(v, dirs, volume[i].root).lba,
                      size |-> Extent(v, dirs, volume[i].root).size]],
       record |-> [p \in {begins[w[1]][w[2]] : w \in where} |->
                     LET w == CHOOSE x \in where : begins[x[1]][x[2]] = p IN entry(w[1], w[2])],
       rockridge |-> FALSE,
       sectors |-> FirstSector(v, dirs, Len(dirs) + 1),
       label |-> label]

\* A tree with one directory below the root, in both trees alike.
Pair(id, files, label) ==
  Master(1, 1, <<Dots(1, 1) \o <<Dir(id, 2)>>, Dots(2, 1) \o files>>, label)

Ubuntu == <<File(2, "vmlinuz"), File(2, "initrd")>>
Live == <<File(3, "vmlinuz"), File(2, "initrd.img")>>

\* The distributions, some of their variants, and images that are none.
Known == {
  Pair("casper", Ubuntu, {}),
  Pair("casper", Ubuntu, {"server"}),
  Pair("casper", <<File(2, "vmlinuz"), File(2, "initrd.lz")>>, {}),
  Pair("live", Live, {}),
  Pair("live", Live \o <<File(4, "filesystem.squashfs")>>, {}),
  Pair("live", <<File(2, "vmlinuz-6.1"), File(2, "initrd.img")>>, {}),
  Pair("install.amd", <<File(2, "vmlinuz"), File(2, "initrd.gz")>>, {}),
  Pair("boot", <<File(2, "vmlinuz-lts"), File(2, "initramfs-lts")>>, {}),
  Pair("sources", <<File(2, "install.wim")>>, {"cccoma"}),
  \* Linux Mint
  Master(1, 0, <<Dots(1, 1) \o <<Dir("casper", 2), Dir(".disk", 3)>>,
                 Dots(2, 1) \o Ubuntu, Dots(3, 1) \o <<File(2, "info")>> >>, {}),
  \* anaconda, with and without the directory images
  Master(1, 1, <<<<Dir("images", 2), Dir("isolinux", 4), File(2, ".treeinfo")>>,
                 <<Dir("pxeboot", 3)>>, <<File(2, "vmlinuz"), File(2, "initrd.img")>>,
                 <<File(2, "vmlinuz")>> >>, {}),
  Master(1, 1, <<<<Dir("isolinux", 2), File(2, ".treeinfo")>>,
                 <<File(2, "vmlinuz"), File(2, "initrd.img")>> >>, {}),
  \* archiso, whose names the primary tree cuts
  Master(1, 4, <<<<Dir("ARCH", 2)>>, <<Dir("BOOT", 3)>>, <<Dir("X86_64", 7)>>,
                 <<Dir("arch", 5)>>, <<Dir("boot", 6)>>, <<Dir("x86_64", 8)>>,
                 <<File(2, "VMLINUZ_.;1"), File(2, "INITRAMF.IMG;1")>>,
                 <<File(2, "vmlinuz-linux"), File(2, "initramfs-linux.img")>> >>, {}),
  \* openSUSE
  Master(1, 1, <<<<Dir("boot", 2), File(2, ".treeinfo")>>, <<Dir("x86_64", 3)>>,
                 <<Dir("loader", 4)>>, <<File(2, "linux"), File(2, "initrd")>> >>, {}),
  \* two kernels
  Master(1, 1, <<<<Dir("live", 2), Dir("install.amd", 3)>>, Live,
                 <<File(2, "vmlinuz"), File(2, "initrd.gz")>> >>, {}),
  \* a menu of its own, or nothing
  Master(1, 1, <<<<Dir("boot", 2)>>, <<Dir("grub", 3)>>, <<File(2, "loopback.cfg")>> >>, {}),
  Pair("a", <<File(2, "readme")>>, {}) }

\* Rock Ridge: names the primary tree has, too; the initrd's cut; both cut; both cut but
\* in a Joliet tree, which GRUB then does not read; a name in capitals.
WithRockRidge(m) == [m EXCEPT !.rockridge = TRUE]
Archiso == <<<<Dir("rr:ARCH", 2)>>, <<Dir("rr:BOOT", 3)>>, <<Dir("rr:X86_64", 7)>>,
             <<Dir("arch", 5)>>, <<Dir("boot", 6)>>, <<Dir("x86_64", 8)>>,
             <<File(2, "rr:VMLINUZ_.;1"), File(2, "rr:INITRAMF.IMG;1")>>,
             <<File(2, "vmlinuz-linux"), File(2, "initramfs-linux.img")>> >>
Rock == {WithRockRidge(m) : m \in {
  Master(1, 0, <<Dots(1, 1) \o <<Dir("rr:CASPER", 2)>>,
                 Dots(2, 1) \o <<File(2, "rr:VMLINUZ.;1"), File(2, "rr:INITRD.;1")>> >>, {}),
  Master(1, 0, <<Dots(1, 1) \o <<Dir("rr:INSTALL.AMD", 2)>>,
                 Dots(2, 1) \o <<File(2, "rr:VMLINUZ.;1"), File(2, "rr:INITRD_M.GZ;1")>> >>, {}),
  Master(1, 0, Archiso, {}),
  Master(1, 4, Archiso, {}),
  Master(1, 0, <<Dots(1, 1) \o <<Dir("rr:LIVE", 2)>>,
                 Dots(2, 1) \o <<File(2, "rr:VMLINUZ.;1"), File(2, "rr:INITRD.IMG;1")>> >>, {})}}

\* A directory that contains itself, below the depth limit and above; a directory
\* record longer than what is left of its directory; records too short for a name or a header.
Wrong == {
  Master(1, 1, <<Dots(1, 1) \o <<Dir("a", 1), File(2, "b")>> >>, {}),
  Master(1, 0, <<<<Dir("a", 2)>>, <<Dir("b", 1), File(5, "c")>> >>, {}),
  [Pair("casper", Ubuntu, {}) EXCEPT !.volume[2].size = 3],
  Pair("casper", <<Short("a"), File(3, "vmlinuz"), File(2, "initrd")>>, {}),
  Pair("casper", <<File(2, "vmlinuz"), Short("stub"), File(2, "initrd")>>, {}) }

\* Directories of up to 4 records of lengths 2 to 5.
Flat == {Master(1, 0, <<[k \in 1..n |-> File(lens[k], <<"a", "b", "c", "readme">>[k])]>>, {}) :
           n \in 1..4, lens \in [1..4 -> 2..5]}

MCImages == Known \cup Rock \cup Wrong \cup Flat
=============================================================================
