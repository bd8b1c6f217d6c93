---------------------------- MODULE ImageFamily ----------------------------
(***************************************************************************)
(* Which family an image belongs to (Analyze, internal/iso/analyze.go) and *)
(* what the menu entry of each family does with it (recipe,                *)
(* internal/grubcfg/grubcfg.go).                                           *)
(*                                                                         *)
(* A path is the sequence of its names.  A marker is matched as a          *)
(* substring: "/casper/vmlinuz" is in "/casper/vmlinuz.efi".               *)
(***************************************************************************)
EXTENDS Integers, Sequences

CONSTANT
  Starts  \* pairs of names such that the first starts with (or contains) the second

\* The marker's names in a row, the last of which may go on.
InPath(marker, path) ==
  \E k \in 0..(Len(path) - Len(marker)) :
    /\ \A i \in 1..(Len(marker) - 1) : path[k + i] = marker[i]
    /\ LET name == path[k + Len(marker)]
           end == marker[Len(marker)]
       IN  name = end \/ <<name, end>> \in Starts

HasSub(files, marker) == \E p \in files : InPath(marker, p)

Rules == <<
  [family |-> "windows",   markers |-> {<<"sources", "boot.wim">>, <<"bootmgr">>}],
  [family |-> "ubuntu",    markers |-> {<<"casper", "vmlinuz">>}],
  [family |-> "mint",      markers |-> {<<"casper", "vmlinuz">>, <<".disk", "info">>}],
  [family |-> "kali",      markers |-> {<<"live", "vmlinuz">>, <<"live", "filesystem.squashfs">>}],
  [family |-> "debian",    markers |-> {<<"live", "vmlinuz">>}],
  [family |-> "debian_di", markers |-> {<<"install.amd", "vmlinuz">>}],
  [family |-> "rhel",      markers |-> {<<"images", "pxeboot", "vmlinuz">>}],
  [family |-> "rhel",      markers |-> {<<"isolinux", "vmlinuz">>, <<".treeinfo">>}],
  [family |-> "arch",      markers |-> {<<"arch", "boot", "x86_64", "vmlinuz-linux">>}],
  [family |-> "alpine",    markers |-> {<<"boot", "vmlinuz-lts">>}],
  [family |-> "opensuse",  markers |-> {<<"boot", "x86_64", "loader", "linux">>}] >>

WindowsMarkers == {<<"bootmgr">>, <<"sources", "install">>, <<"sources", "boot.wim">>}
WindowsWords ==
  {"windows", "cccoma", "cpba", "ccsa", "cena", "sss_x64", "j_ccsa", "server"}

LooksLikeWindows(files, label) ==
  label \cap WindowsWords # {} \/ \E m \in WindowsMarkers : HasSub(files, m)

MatchesOneOf(i, files) == \E m \in Rules[i].markers : HasSub(files, m)
Matches(i, files) == \A m \in Rules[i].markers : HasSub(files, m)

MatchingRules(files) == {i \in 1..Len(Rules) : Matches(i, files)}

\* The rules in their order, the first one that matches.
Family(files, label) ==
  IF LooksLikeWindows(files, label) THEN "windows"
  ELSE IF MatchingRules(files) = {} THEN "generic"
  ELSE Rules[CHOOSE i \in MatchingRules(files) : \A j \in MatchingRules(files) : i <= j].family

-----------------------------------------------------------------------------
\* The kernel and the initrd that the entry of a family names.
Recipe ==
  LET casper == [kernel |-> <<"casper", "vmlinuz">>, initrd |-> <<"casper", "initrd">>]
      live == [kernel |-> <<"live", "vmlinuz">>, initrd |-> <<"live", "initrd.img">>]
  IN
  [ubuntu |-> casper, mint |-> casper, debian |-> live, kali |-> live,
   debian_di |-> [kernel |-> <<"install.amd", "vmlinuz">>,
                  initrd |-> <<"install.amd", "initrd.gz">>],
   rhel |-> [kernel |-> <<"images", "pxeboot", "vmlinuz">>,
             initrd |-> <<"images", "pxeboot", "initrd.img">>],
   arch |-> [kernel |-> <<"arch", "boot", "x86_64", "vmlinuz-linux">>,
             initrd |-> <<"arch", "boot", "x86_64", "initramfs-linux.img">>],
   alpine |-> [kernel |-> <<"boot", "vmlinuz-lts">>, initrd |-> <<"boot", "initramfs-lts">>],
   opensuse |-> [kernel |-> <<"boot", "x86_64", "loader", "linux">>,
                 initrd |-> <<"boot", "x86_64", "loader", "initrd">>]]

LinuxFamilies == DOMAIN Recipe
InnerConfigs == {<<"boot", "grub", "grub.cfg">>, <<"boot", "grub", "loopback.cfg">>}

\* What GRUB comes to when the entry of a family is chosen for an image with files.
Outcome(family, files) ==
  CASE family = "windows" -> "notice"
    [] family \in LinuxFamilies ->
         IF {Recipe[family].kernel, Recipe[family].initrd} \subseteq files
         THEN "kernel" ELSE "file not found"
    [] OTHER -> IF files \cap InnerConfigs # {} THEN "inner menu" ELSE "notice"

-----------------------------------------------------------------------------
\* The files a family's entry is started from are there.
HasFilesOf(family, files) ==
  {Recipe[family].kernel, Recipe[family].initrd} \subseteq files

\* Files that are found, and found in, images of a family.
Signs(family) ==
  {Recipe[family].kernel} \cup (IF family = "rhel" THEN {<<"isolinux", "vmlinuz">>} ELSE {})

\* No file looks like one of a family whose entry works differently, nor Windows.
OnlyOf(family, files, label) ==
  /\ ~LooksLikeWindows(files, label)
  /\ \A g \in LinuxFamilies : Recipe[g] # Recipe[family] =>
       \A m \in Signs(g) : ~HasSub(files, m)
=============================================================================
