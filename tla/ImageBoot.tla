----------------------------- MODULE ImageBoot -----------------------------
(***************************************************************************)
(* From an ISO file to a booted entry: quick-add reads the image (Iso9660),*)
(* finds its family (ImageFamily) and puts an entry; GRUB later carries    *)
(* out the entry's recipe on the image, which it mounts itself.            *)
(***************************************************************************)
EXTENDS Iso9660, ImageFamily

VARIABLES
  family,  \* the family in the menu entry, or "none" while there is no entry
  outcome  \* what the entry came to when it was chosen, or "none"

vars == <<readerVars, family, outcome>>

\* The files this reader should list of the complete image, and those GRUB finds.
ListedFiles == FilesWithin(image, Clean)[FullRoot(image)]
GrubFiles == FilesWithin(image, Shown)[GrubRoot(image)]

Analyze ==
  /\ at = "closed" /\ family = "none"
  /\ family' = Family(seen, image.label)
  /\ UNCHANGED <<readerVars, outcome>>

Choose ==
  /\ family # "none" /\ outcome = "none" /\ present = image.sectors
  /\ outcome' = Outcome(family, GrubFiles)
  /\ UNCHANGED <<readerVars, family>>

Init == ReaderInit /\ family = "none" /\ outcome = "none"

Next ==
  \/ (Read \/ Grow) /\ UNCHANGED <<family, outcome>>
  \/ Analyze
  \/ Choose

Spec == Init /\ [][Next]_vars

\* A handler that reads goes on; uploads need not, and nobody need choose an entry.
FairSpec == Spec /\ WF_vars(Read /\ UNCHANGED <<family, outcome>>)

-----------------------------------------------------------------------------
(* Properties.                                                             *)

\* At every moment of the walk, over a file that is cut or still growing and over
\* directories that are wrong, only files the image has are reported; a complete and
\* well formed image is reported to the last file (within the depth limit).
WalkIsExact ==
  /\ seen # {} =>
       \E i \in 1..Len(image.volume) : seen \subseteq FilesWithin(image, Clean)[image.volume[i]]
  /\ at = "closed" /\ whole /\ WellFormed(image) => seen = ListedFiles

\* The walk ends on every image, directories that contain themselves included.
WalkEnds == <>(at \in {"closed", "refused", "died"})

\* A complete image in which GRUB finds the kernel and the initrd that a family's entry
\* names boots after a quick-add, if the kernel's name is whole in the tree this reader
\* takes as well and nothing there looks like another family.  The two readers may
\* differ in all other names.
KnownImageBoots ==
  \A f \in LinuxFamilies :
    outcome # "none" /\ whole /\ WellFormed(image) /\ HasFilesOf(f, GrubFiles)
      /\ HasSub(ListedFiles, Recipe[f].kernel) /\ OnlyOf(f, ListedFiles, image.label)
    => outcome = "kernel"

\* An image of which the analysis saw a part, or that grew meanwhile, may end up in the
\* generic family but in none whose entry works differently.  A part may hold one of the
\* image's trees only, so no tree may look like another family.
PartIsNotAnother ==
  \A f \in LinuxFamilies :
    /\ family # "none"
    /\ \A i \in 1..Len(image.volume) :
         OnlyOf(f, FilesWithin(image, Clean)[image.volume[i]], image.label)
    => family = "generic" \/ Recipe[family] = Recipe[f]
=============================================================================
