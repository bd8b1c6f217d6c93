------------------------------ MODULE Library ------------------------------
(***************************************************************************)
(* The ISO files and the menu as the console's API changes them: upload,   *)
(* delete-iso, quick-add and the editing of entries (internal/web/api.go), *)
(* over the order and the replacement of entries in internal/menu/menu.go. *)
(*                                                                         *)
(* An upload truncates the file of its final name and copies into it; a    *)
(* quick-add reads the file, then the menu (twice, for a name without a    *)
(* slug), then puts its entry.  Handlers run at once and share no lock     *)
(* over these steps.  That each Put and Delete is saved is MenuStore's     *)
(* concern; here they change the map.                                      *)
(*                                                                         *)
(* Identifiers are strings.  The number k stands for the string "iso<k>",  *)
(* whether NumberEntry has made it or it is the slug of a file that is     *)
(* called so: Slug[n] = 2 is the slug of iso2.iso, and the second entry of *)
(* the menu may be numbered 2 as well.  No other slug is a number.         *)
(***************************************************************************)
EXTENDS Integers, Sequences, FiniteSets

CONSTANTS
  Isos,        \* names of ISO files, as sanitizeName leaves them
  Slug,        \* the slug of each name, None where it is empty (a title has one, too)
  Images,      \* contents of ISO files; an image stands for its family, too
  Length,      \* number of chunks of each image
  Inodes,
  None,        \* no name, slug, image, family or inode; a chunk never written
  Uploads,     \* handlers of POST /api/upload
  Adds,        \* handlers of POST /api/quick-add
  Mixes,       \* bounds on the requests: how many uploads, adds and edits at most
  Orders,      \* the orders typed into the form (bound)
  Users        \* the kinds of administrator considered

\* A tidy administrator uploads and deletes only files that no entry names, and
\* adds a file once its upload has been answered with success.
UserKinds == {"tidy", "free"}

ASSUME NoneAssumption == None \notin Isos \cup Images \cup Inodes
ASSUME ImageAssumption == Length \in [Images -> Nat \ {0}]
ASSUME BoundAssumption ==
  /\ Mixes \subseteq [uploads : Nat, adds : Nat, edits : Nat] /\ Orders \subseteq Int
  /\ IsFiniteSet(Isos) /\ IsFiniteSet(Uploads) /\ IsFiniteSet(Inodes)
  /\ Cardinality(Inodes) > Cardinality(Isos) + Cardinality(Uploads)
  /\ Users \subseteq UserKinds

VARIABLES
  dir,      \* data/iso: the inode of each name, or None
  content,  \* per inode: its chunks
  upload,   \* per upload handler: where it is, its name, image, inode, chunks done
  solo,     \* per upload handler: nobody else has touched its file so far
  owner,    \* per name: the image whose upload was answered last, undisturbed
  entries,  \* Store.entries: from identifiers to entries
  clock,    \* time.Now, in Puts
  add,      \* per quick-add handler: where it is, its name, family and order, its id
  added,    \* the names that were added and whose entries nobody changed since
  user,     \* the kind of administrator
  simple,   \* so far every name was added at most once and no entry was edited
  uploads, adds, edits  \* what is left of the bounds

fileVars == <<dir, content, upload, solo, owner, uploads>>
menuVars == <<entries, clock, add, added, simple, adds, edits>>
vars == <<fileVars, menuVars, user>>

IdleUpload == [at |-> "idle", iso |-> None, image |-> None, fd |-> None, pos |-> 0]
IdleAdd == [at |-> "idle", iso |-> None, family |-> None, order |-> 0, id |-> 0]

EmptyMenu == [id \in {} |-> None]
Put(f, id, e) == [i \in DOMAIN f \cup {id} |-> IF i = id THEN e ELSE f[i]]
Without(f, id) == [i \in DOMAIN f \ {id} |-> f[i]]
Count == Cardinality(DOMAIN entries)

WholeImage(m) == [i \in 1..Length[m] |-> m]

\* The state of the console's pages as a tidy administrator sees it.
Named(n) ==
  \/ \E id \in DOMAIN entries : entries[id].iso = n
  \/ \E q \in Adds : add[q].iso = n
Uploading(n) == \E u \in Uploads : upload[u].iso = n
MayReplace(n) == user = "tidy" => ~Named(n) /\ ~Uploading(n)

\* List sorts by order, then by creation time.
BeforeNewestFirst(d, e) ==
  d.order < e.order \/ (d.order = e.order /\ d.created > e.created)
Before(d, e) ==
  d.order < e.order \/ (d.order = e.order /\ d.created < e.created)

-----------------------------------------------------------------------------
(* Uploads and the directory.                                              *)

FreeInode == CHOOSE i \in Inodes :
  i \notin {dir[n] : n \in Isos} /\ \A u \in Uploads : upload[u].fd # i

TruncatedNot(chunks) == chunks
Truncated(chunks) == <<>>

\* os.Create: the file of the final name, emptied.
Create(u) ==
  /\ upload[u].at = "idle" /\ uploads > 0
  /\ uploads' = uploads - 1
  /\ \E n \in Isos, m \in Images :
     LET i == IF dir[n] = None THEN FreeInode ELSE dir[n] IN
       /\ MayReplace(n)
       /\ dir' = [dir EXCEPT ![n] = i]
       /\ content' = [content EXCEPT ![i] = Truncated(@)]
       /\ upload' = [upload EXCEPT ![u] =
                       [at |-> "copy", iso |-> n, image |-> m, fd |-> i, pos |-> 0]]
       /\ solo' = [v \in Uploads |->
                     IF v = u THEN \A w \in Uploads : upload[w].fd # i
                              ELSE solo[v] /\ upload[v].fd # i]
       /\ owner' = [owner EXCEPT ![n] = None]
  /\ UNCHANGED <<menuVars, user>>

\* A chunk written at offset k; what lies before it and was never written reads
\* as zeros.
WriteAt(chunks, k, m) ==
  [i \in 1..(IF k > Len(chunks) THEN k ELSE Len(chunks)) |->
     IF i = k THEN m ELSE IF i <= Len(chunks) THEN chunks[i] ELSE None]

Copy(u) ==
  /\ upload[u].at = "copy" /\ upload[u].pos < Length[upload[u].image]
  /\ LET k == upload[u].pos + 1 IN
       /\ content' = [content EXCEPT ![upload[u].fd] = WriteAt(@, k, upload[u].image)]
       /\ upload' = [upload EXCEPT ![u].pos = k]
  /\ UNCHANGED <<dir, solo, owner, uploads, menuVars, user>>

\* The connection breaks or the disk is full: what was copied stays, under the
\* final name, and the console shows an error.
CopyFailsUnnoticed(u) ==
  /\ upload[u].at = "copy"
  /\ owner' = [owner EXCEPT ![upload[u].iso] = IF solo[u] THEN upload[u].image ELSE @]
  /\ upload' = [upload EXCEPT ![u] = IdleUpload]
  /\ UNCHANGED <<dir, content, solo, uploads, menuVars, user>>

CopyFails(u) ==
  /\ upload[u].at = "copy"
  /\ upload' = [upload EXCEPT ![u] = IdleUpload]
  /\ UNCHANGED <<dir, content, solo, owner, uploads, menuVars, user>>

Uploaded(u) ==
  /\ upload[u].at = "copy" /\ upload[u].pos = Length[upload[u].image]
  /\ owner' = [owner EXCEPT ![upload[u].iso] = IF solo[u] THEN upload[u].image ELSE @]
  /\ upload' = [upload EXCEPT ![u] = IdleUpload]
  /\ UNCHANGED <<dir, content, solo, uploads, menuVars, user>>

\* handleDeleteISO.  An upload that has the file open goes on writing to it.
DeleteISO(n) ==
  /\ dir[n] # None /\ edits > 0
  /\ MayReplace(n)
  /\ edits' = edits - 1
  /\ dir' = [dir EXCEPT ![n] = None]
  /\ solo' = [u \in Uploads |-> solo[u] /\ upload[u].fd # dir[n]]
  /\ owner' = [owner EXCEPT ![n] = None]
  /\ UNCHANGED <<content, upload, uploads, entries, clock, add, added, simple, adds, user>>

-----------------------------------------------------------------------------
(* Quick-add and the menu.                                                 *)

\* The header is in the first chunk; of a file that is not all there the
\* directories may be missing, and the family is then a guess.
Families(chunks) ==
  IF \E m \in Images : chunks = WholeImage(m) THEN {chunks[1]} ELSE {chunks[1], None}

\* iso.Analyze; an answer with an error changes nothing.
Analyze(q) ==
  /\ add[q].at = "idle" /\ adds > 0
  /\ adds' = adds - 1
  /\ \E n \in Isos :
       /\ user = "tidy" => owner[n] # None /\ ~Uploading(n)
       /\ dir[n] # None
       /\ LET chunks == content[dir[n]] IN
            /\ chunks # <<>> /\ chunks[1] # None
            /\ \E f \in Families(chunks) :
                 add' = [add EXCEPT ![q] = [at |-> "count", iso |-> n, family |-> f,
                                            order |-> 0, id |-> 0]]
       /\ simple' = (simple /\ ~Named(n))
  /\ UNCHANGED <<fileVars, entries, clock, added, edits, user>>

NextAfterCountAlways(q) == "number"
NextAfterCount(q) == IF Slug[add[q].iso] = None THEN "number" ELSE "put"

\* The entry is built: its order is the length of the menu.
CountEntries(q) ==
  /\ add[q].at = "count"
  /\ add' = [add EXCEPT ![q].order = Count, ![q].id = Slug[add[q].iso],
                        ![q].at = NextAfterCount(q)]
  /\ UNCHANGED <<fileVars, entries, clock, added, simple, adds, edits, user>>

\* A name without a slug is numbered by a second look at the menu.
NumberEntry(q) ==
  /\ add[q].at = "number"
  /\ add' = [add EXCEPT ![q].id = Count + 1, ![q].at = "put"]
  /\ UNCHANGED <<fileVars, entries, clock, added, simple, adds, edits, user>>

\* Store.Put of an entry without a creation time.
PutEntry(q) ==
  /\ add[q].at = "put"
  /\ clock' = clock + 1
  /\ entries' = Put(entries, add[q].id,
                    [iso |-> add[q].iso, family |-> add[q].family,
                     order |-> add[q].order, created |-> clock'])
  /\ added' = added \cup {add[q].iso}
  /\ add' = [add EXCEPT ![q] = IdleAdd]
  /\ UNCHANGED <<fileVars, simple, adds, edits, user>>

Titles == {Slug[n] : n \in Isos} \ {None}

\* What a Put or a Delete of the identifier takes out of the menu.
NamesChanged(id) == {entries[i].iso : i \in DOMAIN entries \cap {id}}

\* The form shows the family of an entry that is edited, and asks for one that is
\* new; the administrator knows what was uploaded last.
ChosenFamily(id, n) ==
  IF n \in NamesChanged(id) THEN entries[id].family ELSE owner[n]

\* handleMenu, for an entry that is there or for a new title.  The console sends
\* no creation time, so Put gives the entry a new one.
EditEntry(id) ==
  /\ edits > 0 /\ edits' = edits - 1
  /\ clock' = clock + 1
  /\ \E n \in Isos, o \in Orders :
       /\ user = "tidy" => IF id \in DOMAIN entries THEN n = entries[id].iso
                           ELSE owner[n] # None /\ ~Uploading(n)
       /\ entries' = Put(entries, id, [iso |-> n, family |-> ChosenFamily(id, n),
                                       order |-> o, created |-> clock'])
  /\ added' = added \ NamesChanged(id)
  /\ simple' = FALSE
  /\ UNCHANGED <<fileVars, add, adds, user>>

\* handleMenuItem, DELETE.
DeleteEntry(id) ==
  /\ edits > 0 /\ edits' = edits - 1
  /\ entries' = Without(entries, id)
  /\ added' = added \ NamesChanged(id)
  /\ simple' = FALSE
  /\ UNCHANGED <<fileVars, clock, add, adds, user>>

-----------------------------------------------------------------------------
Place == CHOOSE p \in [Isos -> Inodes] : \A m, n \in Isos : p[m] = p[n] => m = n

\* Files uploaded earlier may be there; the menu starts empty.
Init ==
  /\ \E present \in SUBSET Isos, image \in [Isos -> Images] :
       /\ dir = [n \in Isos |-> IF n \in present THEN Place[n] ELSE None]
       /\ owner = [n \in Isos |-> IF n \in present THEN image[n] ELSE None]
       /\ content = [i \in Inodes |-> IF \E n \in present : Place[n] = i
                                      THEN WholeImage(image[CHOOSE n \in present : Place[n] = i])
                                      ELSE <<>>]
  /\ upload = [u \in Uploads |-> IdleUpload]
  /\ solo = [u \in Uploads |-> FALSE]
  /\ entries = EmptyMenu /\ clock = 0
  /\ add = [q \in Adds |-> IdleAdd]
  /\ added = {} /\ simple = TRUE
  /\ user \in Users
  /\ \E mix \in Mixes : uploads = mix.uploads /\ adds = mix.adds /\ edits = mix.edits

Upload(u) == Create(u) \/ Copy(u) \/ CopyFails(u) \/ Uploaded(u)

QuickAdd(q) == Analyze(q) \/ CountEntries(q) \/ NumberEntry(q) \/ PutEntry(q)

Next ==
  \/ \E u \in Uploads : Upload(u)
  \/ \E n \in Isos : DeleteISO(n)
  \/ \E q \in Adds : QuickAdd(q)
  \/ \E id \in DOMAIN entries \cup Titles : EditEntry(id)
  \/ \E id \in DOMAIN entries : DeleteEntry(id)

Spec == Init /\ [][Next]_vars

-----------------------------------------------------------------------------
(* Properties.                                                             *)

\* An upload that had its file to itself and was answered with success has left
\* exactly its image, whatever lay there before and for as long as nobody
\* uploads or deletes under the name again.
SoloUploadIsWhole ==
  \A n \in Isos : owner[n] # None =>
    dir[n] # None /\ content[dir[n]] = WholeImage(owner[n])

\* What the console is for: for a tidy administrator, at every moment, every
\* entry of the menu names a file that is all there and of the family the entry
\* was given.
TidyMenuBoots ==
  user = "tidy" => \A id \in DOMAIN entries :
    LET e == entries[id] IN
      /\ e.family \in Images
      /\ dir[e.iso] # None /\ content[dir[e.iso]] = WholeImage(e.family)

\* A file that was added stays in the menu until its entry is edited or deleted,
\* whatever other files are added meanwhile.
InMenu(n) == \E id \in DOMAIN entries : entries[id].iso = n
QuickAddSticks == \A n \in added : InMenu(n)

\* A file without a slug is numbered, and may be given the identifier of a numbered
\* entry or of a file that is called like one.
Lookalike(n) == Slug[n] \in Nat

\* No two of the names are given the same identifier.
Apart(names) ==
  /\ \A m, n \in names : Slug[m] # None /\ Slug[m] = Slug[n] => m = n
  /\ \A m, n \in names : Slug[m] = None => ~Lookalike(n)

\* ... as far as its name has a slug that no other name can be given.
OwnSlug(n) ==
  /\ Slug[n] # None
  /\ \A m \in Isos \ {n} : Slug[m] # Slug[n] /\ (Slug[m] = None => ~Lookalike(n))
SluggedAddSticks == \A n \in added : OwnSlug(n) => InMenu(n)

\* The entry that boots when nobody chooses (the first of List, grub.cfg's
\* default=0) is not changed by adding further files, however the additions overlap,
\* as long as no file is added twice, no entry edited or deleted and the names added
\* so far are given different identifiers.  Only a file without a slug that is given
\* the number of the first entry takes its place.
First == CHOOSE id \in DOMAIN entries :
           \A other \in DOMAIN entries \ {id} : Before(entries[id], entries[other])
DefaultEntry == entries[First]
InPlay == {n \in Isos : n \in added \/ \E q \in Adds : add[q].iso = n}
TakesNumber(id) == \E q \in Adds : PutEntry(q) /\ add[q].id = id /\ Slug[add[q].iso] = None
DefaultStays ==
  [][simple' /\ Apart(InPlay)' /\ DOMAIN entries # {} /\ ~TakesNumber(First)
       => DefaultEntry' = DefaultEntry]_vars
=============================================================================
