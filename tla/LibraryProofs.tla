--------------------------- MODULE LibraryProofs ---------------------------
(***************************************************************************)
(* The safety properties of Library, for any files, slugs, handlers and    *)
(* administrators.                                                         *)
(***************************************************************************)
EXTENDS Library, FiniteSetTheorems, WellFoundedInduction, TLAPS

(***************************************************************************)
(* Files.  As long as nobody else has touched the file of an upload, what  *)
(* lies there is the part of the image that was copied so far.             *)
(***************************************************************************)
Copying == [at : {"copy"}, iso : Isos, image : Images, fd : Inodes, pos : Nat]

FileTypes ==
  /\ dir \in [Isos -> Inodes \cup {None}]
  /\ content = [i \in Inodes |-> content[i]]
  /\ upload \in [Uploads -> {IdleUpload} \cup Copying]
  /\ solo \in [Uploads -> BOOLEAN]
  /\ owner \in [Isos -> Images \cup {None}]

\* A file has one name at most, and a file that is open no other name than that of the upload.
OneName ==
  /\ \A m, n \in Isos : dir[m] = dir[n] /\ dir[m] # None => m = n
  /\ \A u \in Uploads, n \in Isos :
       upload[u].at = "copy" /\ dir[n] = upload[u].fd => n = upload[u].iso

Prefix(m, k) == [i \in 1..k |-> m]

SoloInv ==
  \A u \in Uploads : upload[u].at = "copy" /\ solo[u] =>
    /\ dir[upload[u].iso] = upload[u].fd
    /\ content[upload[u].fd] = Prefix(upload[u].image, upload[u].pos)
    /\ \A v \in Uploads \ {u} : upload[v].fd # upload[u].fd

OwnerInv ==
  \A n \in Isos : owner[n] # None =>
    /\ dir[n] # None /\ content[dir[n]] = WholeImage(owner[n])
    /\ \A u \in Uploads : upload[u].fd # dir[n]

FileInv == FileTypes /\ OneName /\ SoloInv /\ OwnerInv

\* There is an inode for a new file: the names and the uploads are fewer.
LEMMA FreeInodeExists ==
  ASSUME FileTypes
  PROVE  FreeInode \in Inodes /\ (\A n \in Isos : dir[n] # FreeInode)
         /\ \A u \in Uploads : upload[u].fd # FreeInode
<1> DEFINE Named_ == {dir[n] : n \in Isos}
           Open_ == {upload[u].fd : u \in Uploads}
<1>1. IsFiniteSet(Named_) /\ Cardinality(Named_) <= Cardinality(Isos)
  <2>1. [n \in Isos |-> dir[n]] \in Surjection(Isos, Named_)
    BY DEF Surjection
  <2> QED BY <2>1, FS_Surjection, BoundAssumption
<1>2. IsFiniteSet(Open_) /\ Cardinality(Open_) <= Cardinality(Uploads)
  <2>1. [u \in Uploads |-> upload[u].fd] \in Surjection(Uploads, Open_)
    BY DEF Surjection
  <2> QED BY <2>1, FS_Surjection, BoundAssumption
<1>3. ~(Inodes \subseteq Named_ \cup Open_)
  <2> SUFFICES ASSUME Inodes \subseteq Named_ \cup Open_ PROVE FALSE
    OBVIOUS
  <2> HIDE DEF Named_, Open_
  <2>1. /\ Cardinality(Isos) \in Nat /\ Cardinality(Uploads) \in Nat /\ Cardinality(Inodes) \in Nat
        /\ Cardinality(Named_) \in Nat /\ Cardinality(Open_) \in Nat
    BY <1>1, <1>2, FS_CardinalityType, BoundAssumption
  <2>2. IsFiniteSet(Named_ \cap Open_)
    BY <1>1, FS_Intersection
  <2>3. Cardinality(Named_ \cap Open_) \in Nat
    BY <2>2, FS_CardinalityType
  <2>4. /\ IsFiniteSet(Named_ \cup Open_)
        /\ Cardinality(Named_ \cup Open_)
             = Cardinality(Named_) + Cardinality(Open_) - Cardinality(Named_ \cap Open_)
    BY <1>1, <1>2, FS_Union
  <2>5. Cardinality(Inodes) <= Cardinality(Named_ \cup Open_)
    BY <2>4, FS_Subset
  <2> QED BY <1>1, <1>2, <2>1, <2>3, <2>4, <2>5, BoundAssumption
<1>4. \E i \in Inodes : i \notin {dir[n] : n \in Isos} /\ \A u \in Uploads : upload[u].fd # i
  BY <1>3
<1>5. FreeInode \in Inodes /\ FreeInode \notin {dir[n] : n \in Isos}
      /\ \A u \in Uploads : upload[u].fd # FreeInode
  BY <1>4, Zenon DEF FreeInode
<1> QED BY <1>5

LEMMA PlaceExists ==
  Place \in [Isos -> Inodes] /\ \A m, n \in Isos : Place[m] = Place[n] => m = n
<1> DEFINE k == Cardinality(Isos)
           l == Cardinality(Inodes)
<1>1. /\ k \in Nat /\ l \in Nat /\ k <= l
      /\ ExistsBijection(1..k, Isos) /\ ExistsBijection(1..l, Inodes)
  <2>1. /\ k \in Nat /\ l \in Nat /\ Cardinality(Uploads) \in Nat
        /\ ExistsBijection(1..k, Isos) /\ ExistsBijection(1..l, Inodes)
    BY FS_CardinalityType, BoundAssumption
  <2> QED BY <2>1, BoundAssumption
<1>2. PICK f \in [1..k -> Isos] : \A n \in Isos : \E j \in 1..k : f[j] = n
  BY <1>1 DEF ExistsBijection, Bijection, Surjection
<1>3. PICK g \in [1..l -> Inodes] : \A i, j \in 1..l : g[i] = g[j] => i = j
  BY <1>1 DEF ExistsBijection, Bijection, Injection, IsInjective
<1> HIDE DEF k, l
<1> DEFINE at == [n \in Isos |-> CHOOSE j \in 1..k : f[j] = n]
           p == [n \in Isos |-> g[at[n]]]
<1>4. \A n \in Isos : at[n] \in 1..k /\ f[at[n]] = n
  BY <1>2
<1> HIDE DEF at
<1>5. p \in [Isos -> Inodes]
  BY <1>1, <1>3, <1>4
<1>6. ASSUME NEW m \in Isos, NEW n \in Isos, p[m] = p[n] PROVE m = n
  BY <1>1, <1>3, <1>4, <1>6
<1>7. \E q \in [Isos -> Inodes] : \A m, n \in Isos : q[m] = q[n] => m = n
  BY <1>5, <1>6
<1> QED BY <1>7 DEF Place

LEMMA InitFiles == Init => FileInv
<1> SUFFICES ASSUME Init PROVE FileInv
  OBVIOUS
<1>1. PICK present \in SUBSET Isos, image \in [Isos -> Images] :
       /\ dir = [n \in Isos |-> IF n \in present THEN Place[n] ELSE None]
       /\ owner = [n \in Isos |-> IF n \in present THEN image[n] ELSE None]
       /\ content = [i \in Inodes |-> IF \E n \in present : Place[n] = i
                                      THEN WholeImage(image[CHOOSE n \in present : Place[n] = i])
                                      ELSE <<>>]
  BY DEF Init
<1>2. /\ upload = [u \in Uploads |-> IdleUpload] /\ solo = [u \in Uploads |-> FALSE]
      /\ \A u \in Uploads : upload[u].at = "idle" /\ upload[u].fd = None
  BY DEF Init, IdleUpload
<1>3. \A n \in present : (CHOOSE m \in present : Place[m] = Place[n]) = n
  BY PlaceExists
<1>4. \A n \in present : dir[n] \in Inodes /\ dir[n] # None
  BY <1>1, PlaceExists, NoneAssumption
<1>5. \A n \in Isos \ present : dir[n] = None /\ owner[n] = None
  BY <1>1
<1>6. FileTypes
  <2>1. dir \in [Isos -> Inodes \cup {None}] /\ owner \in [Isos -> Images \cup {None}]
    BY <1>1, PlaceExists
  <2>2. content = [i \in Inodes |-> content[i]]
    BY <1>1
  <2> QED BY <1>2, <2>1, <2>2 DEF FileTypes
<1>7. OneName
  BY <1>1, <1>2, <1>5, PlaceExists DEF OneName
<1>8. OwnerInv
  <2> SUFFICES ASSUME NEW n \in Isos, owner[n] # None
               PROVE  /\ dir[n] # None /\ content[dir[n]] = WholeImage(owner[n])
                      /\ \A u \in Uploads : upload[u].fd # dir[n]
    BY DEF OwnerInv
  <2>1. n \in present
    BY <1>5
  <2>2. dir[n] = Place[n] /\ owner[n] = image[n] /\ Place[n] \in Inodes
    BY <1>1, <2>1, PlaceExists
  <2>3. content[Place[n]] = WholeImage(image[n])
    BY <1>1, <1>3, <2>1, <2>2
  <2> QED BY <1>2, <1>4, <2>1, <2>2, <2>3
<1> QED BY <1>2, <1>6, <1>7, <1>8 DEF FileInv, SoloInv

\* A new upload empties its file; whoever had it open, or was answered for it, loses it.
LEMMA CreateStep ==
  ASSUME FileInv, NEW u \in Uploads, Create(u)
  PROVE  FileInv'
<1> USE DEF FileInv
<1>1. PICK n \in Isos, m \in Images :
        LET i == IF dir[n] = None THEN FreeInode ELSE dir[n] IN
          /\ MayReplace(n)
          /\ dir' = [dir EXCEPT ![n] = i]
          /\ content' = [content EXCEPT ![i] = Truncated(@)]
          /\ upload' = [upload EXCEPT ![u] =
                          [at |-> "copy", iso |-> n, image |-> m, fd |-> i, pos |-> 0]]
          /\ solo' = [v \in Uploads |->
                        IF v = u THEN \A w \in Uploads : upload[w].fd # i
                                 ELSE solo[v] /\ upload[v].fd # i]
          /\ owner' = [owner EXCEPT ![n] = None]
  BY DEF Create
<1> DEFINE i == IF dir[n] = None THEN FreeInode ELSE dir[n]
<1>2. /\ i \in Inodes /\ i # None
      /\ \A o \in Isos : dir[o] = i => o = n
      /\ \A v \in Uploads, o \in Isos : upload[v].at = "copy" /\ upload[v].fd = i => upload[v].iso = n
  BY FreeInodeExists, NoneAssumption DEF FileTypes, OneName
<1>3. /\ dir' = [dir EXCEPT ![n] = i]
      /\ content' = [content EXCEPT ![i] = <<>>]
      /\ upload' = [upload EXCEPT ![u] =
                      [at |-> "copy", iso |-> n, image |-> m, fd |-> i, pos |-> 0]]
      /\ solo' = [v \in Uploads |->
                    IF v = u THEN \A w \in Uploads : upload[w].fd # i
                             ELSE solo[v] /\ upload[v].fd # i]
      /\ owner' = [owner EXCEPT ![n] = None]
  BY <1>1 DEF Truncated
<1> HIDE DEF i
<1>4. /\ dir'[n] = i /\ owner'[n] = None /\ content'[i] = <<>>
      /\ \A o \in Isos \ {n} : dir'[o] = dir[o] /\ owner'[o] = owner[o]
      /\ \A j \in Inodes \ {i} : content'[j] = content[j]
      /\ upload'[u] = [at |-> "copy", iso |-> n, image |-> m, fd |-> i, pos |-> 0]
      /\ \A v \in Uploads \ {u} : upload'[v] = upload[v]
      /\ solo'[u] => \A w \in Uploads : upload[w].fd # i
      /\ \A v \in Uploads \ {u} : solo'[v] => solo[v] /\ upload[v].fd # i
  BY <1>2, <1>3 DEF FileTypes
<1>5. FileTypes'
  <2>1. upload' \in [Uploads -> {IdleUpload} \cup Copying]
    BY <1>2, <1>3 DEF FileTypes, Copying
  <2>2. solo' \in [Uploads -> BOOLEAN]
    BY <1>3 DEF FileTypes
  <2>3. content' = [j \in Inodes |-> content'[j]]
    BY <1>3 DEF FileTypes
  <2>4. dir' \in [Isos -> Inodes \cup {None}] /\ owner' \in [Isos -> Images \cup {None}]
    BY <1>2, <1>3 DEF FileTypes
  <2> QED BY <2>1, <2>2, <2>3, <2>4 DEF FileTypes
<1>6. OneName'
  <2>1. ASSUME NEW o \in Isos, NEW q \in Isos, dir'[o] = dir'[q], dir'[o] # None PROVE o = q
    BY <1>2, <1>4, <2>1 DEF OneName
  <2>2. ASSUME NEW v \in Uploads, NEW o \in Isos, upload'[v].at = "copy", dir'[o] = upload'[v].fd
        PROVE  o = upload'[v].iso
    <3>1. CASE v = u
      BY <1>2, <1>4, <2>2, <3>1
    <3>2. CASE v # u
      BY <1>2, <1>4, <2>2, <3>2 DEF OneName
    <3> QED BY <3>1, <3>2
  <2> QED BY <2>1, <2>2 DEF OneName
<1>7. SoloInv'
  <2> SUFFICES ASSUME NEW v \in Uploads, upload'[v].at = "copy", solo'[v]
               PROVE  /\ dir'[upload'[v].iso] = upload'[v].fd
                      /\ content'[upload'[v].fd] = Prefix(upload'[v].image, upload'[v].pos)
                      /\ \A w \in Uploads \ {v} : upload'[w].fd # upload'[v].fd
    BY DEF SoloInv
  <2>1. CASE v = u
    <3>1. Prefix(m, 0) = <<>>
      BY DEF Prefix
    <3> QED BY <1>4, <2>1, <3>1
  <2>2. CASE v # u
    <3>1. upload'[v] = upload[v] /\ solo[v] /\ upload[v].fd # i
      BY <1>4, <2>2
    <3>2. upload[v].iso \in Isos /\ upload[v].fd \in Inodes
      BY <3>1 DEF FileTypes, Copying, IdleUpload
    <3>3. upload[v].iso # n
      <4>1. dir[upload[v].iso] = upload[v].fd /\ upload[v].fd # None
        BY <3>1, <3>2, NoneAssumption DEF SoloInv
      <4> QED BY <3>1, <4>1 DEF i
    <3> QED BY <1>4, <2>2, <3>1, <3>2, <3>3 DEF SoloInv
  <2> QED BY <2>1, <2>2
<1>8. OwnerInv'
  <2> SUFFICES ASSUME NEW o \in Isos, owner'[o] # None
               PROVE  /\ dir'[o] # None /\ content'[dir'[o]] = WholeImage(owner'[o])
                      /\ \A v \in Uploads : upload'[v].fd # dir'[o]
    BY DEF OwnerInv
  <2>1. o # n /\ dir'[o] = dir[o] /\ owner'[o] = owner[o]
    BY <1>4
  <2>2. dir[o] \in Inodes /\ dir[o] # i
    BY <1>2, <2>1 DEF OwnerInv, FileTypes
  <2> QED BY <1>4, <2>1, <2>2 DEF OwnerInv
<1> QED BY <1>5, <1>6, <1>7, <1>8

\* The next chunk goes behind those that are there.
LEMMA CopyStep ==
  ASSUME FileInv, NEW u \in Uploads, Copy(u)
  PROVE  FileInv'
<1> USE DEF FileInv
<1> DEFINE k == upload[u].pos + 1
<1>1. /\ upload[u] \in Copying /\ k \in Nat
      /\ content' = [content EXCEPT ![upload[u].fd] = WriteAt(@, k, upload[u].image)]
      /\ upload' = [upload EXCEPT ![u].pos = k]
      /\ UNCHANGED <<dir, solo, owner>>
  BY DEF Copy, FileTypes, Copying, IdleUpload
<1> HIDE DEF k
<1>2. /\ upload'[u].at = "copy" /\ upload'[u].iso = upload[u].iso /\ upload'[u].image = upload[u].image
      /\ upload'[u].fd = upload[u].fd /\ upload'[u].pos = k /\ upload'[u] \in Copying
      /\ \A v \in Uploads \ {u} : upload'[v] = upload[v]
      /\ content'[upload[u].fd] = WriteAt(content[upload[u].fd], k, upload[u].image)
      /\ \A i \in Inodes \ {upload[u].fd} : content'[i] = content[i]
      /\ upload[u].at = "copy" /\ upload[u].fd \in Inodes
  BY <1>1 DEF FileTypes, Copying
<1>3. FileTypes'
  <2>1. upload' \in [Uploads -> {IdleUpload} \cup Copying]
    BY <1>1, <1>2 DEF FileTypes
  <2>2. content' = [j \in Inodes |-> content'[j]]
    BY <1>1 DEF FileTypes
  <2> QED BY <1>1, <2>1, <2>2 DEF FileTypes
<1>4. OneName'
  BY <1>1, <1>2 DEF OneName
<1>5. SoloInv'
  <2> SUFFICES ASSUME NEW v \in Uploads, upload'[v].at = "copy", solo'[v]
               PROVE  /\ dir'[upload'[v].iso] = upload'[v].fd
                      /\ content'[upload'[v].fd] = Prefix(upload'[v].image, upload'[v].pos)
                      /\ \A w \in Uploads \ {v} : upload'[w].fd # upload'[v].fd
    BY DEF SoloInv
  <2>1. CASE v = u
    <3>1. content[upload[u].fd] = Prefix(upload[u].image, upload[u].pos) /\ upload[u].pos \in Nat
      BY <1>1, <1>2, <2>1 DEF SoloInv, Copying
    <3>2. WriteAt(Prefix(upload[u].image, upload[u].pos), k, upload[u].image) = Prefix(upload[u].image, k)
      <4>1. Len(Prefix(upload[u].image, upload[u].pos)) = upload[u].pos
        BY <3>1 DEF Prefix
      <4> QED BY <3>1, <4>1 DEF WriteAt, Prefix, k
    <3> QED BY <1>1, <1>2, <2>1, <3>1, <3>2 DEF SoloInv
  <2>2. CASE v # u
    <3>1. upload[v].fd \in Inodes
      BY <1>2, <2>2 DEF FileTypes, Copying, IdleUpload
    <3> QED BY <1>1, <1>2, <2>2, <3>1 DEF SoloInv
  <2> QED BY <2>1, <2>2
<1>6. OwnerInv'
  <2> SUFFICES ASSUME NEW o \in Isos, owner'[o] # None
               PROVE  /\ dir'[o] # None /\ content'[dir'[o]] = WholeImage(owner'[o])
                      /\ \A v \in Uploads : upload'[v].fd # dir'[o]
    BY DEF OwnerInv
  <2>1. dir[o] \in Inodes
    BY <1>1 DEF OwnerInv, FileTypes
  <2> QED BY <1>1, <1>2, <2>1 DEF OwnerInv
<1> QED BY <1>3, <1>4, <1>5, <1>6

\* An upload ends: with success, and alone, it leaves a whole image that nobody has open.
LEMMA EndStep ==
  ASSUME FileInv, NEW u \in Uploads, CopyFails(u) \/ Uploaded(u)
  PROVE  FileInv'
<1> USE DEF FileInv
<1>1. /\ upload[u] \in Copying /\ upload' = [upload EXCEPT ![u] = IdleUpload]
      /\ UNCHANGED <<dir, content, solo>>
      /\ IdleUpload.at = "idle" /\ IdleUpload.fd = None
  BY DEF CopyFails, Uploaded, FileTypes, Copying, IdleUpload
<1>2. upload'[u] = IdleUpload /\ \A v \in Uploads \ {u} : upload'[v] = upload[v]
  BY <1>1 DEF FileTypes
<1>3. \A o \in Isos : owner'[o] = owner[o] \/
        (o = upload[u].iso /\ owner'[o] = upload[u].image /\ solo[u]
           /\ upload[u].pos = Length[upload[u].image])
  BY DEF CopyFails, Uploaded, FileTypes
<1>4. FileTypes'
  <2>1. owner' \in [Isos -> Images \cup {None}]
    BY <1>1 DEF CopyFails, Uploaded, FileTypes, Copying
  <2> QED BY <1>1, <2>1 DEF FileTypes
<1>5. OneName'
  BY <1>1, <1>2 DEF OneName
<1>6. SoloInv'
  <2> SUFFICES ASSUME NEW v \in Uploads, upload'[v].at = "copy", solo'[v]
               PROVE  /\ dir'[upload'[v].iso] = upload'[v].fd
                      /\ content'[upload'[v].fd] = Prefix(upload'[v].image, upload'[v].pos)
                      /\ \A w \in Uploads \ {v} : upload'[w].fd # upload'[v].fd
    BY DEF SoloInv
  <2>1. v # u /\ upload'[v] = upload[v] /\ upload[v].fd # None
    BY <1>1, <1>2, NoneAssumption DEF FileTypes, Copying, IdleUpload
  <2> QED BY <1>1, <1>2, <2>1 DEF SoloInv
<1>7. OwnerInv'
  <2> SUFFICES ASSUME NEW o \in Isos, owner'[o] # None
               PROVE  /\ dir[o] # None /\ content[dir[o]] = WholeImage(owner'[o])
                      /\ \A v \in Uploads : upload'[v].fd # dir[o]
    BY <1>1 DEF OwnerInv
  <2>1. CASE owner'[o] = owner[o]
    BY <1>1, <1>2, <2>1 DEF OwnerInv
  <2>2. CASE o = upload[u].iso /\ owner'[o] = upload[u].image /\ solo[u]
               /\ upload[u].pos = Length[upload[u].image]
    BY <1>1, <1>2, <2>2, NoneAssumption DEF SoloInv, Copying, Prefix, WholeImage
  <2> QED BY <1>3, <2>1, <2>2
<1> QED BY <1>4, <1>5, <1>6, <1>7

LEMMA DeleteStep ==
  ASSUME FileInv, NEW n \in Isos, DeleteISO(n)
  PROVE  FileInv'
<1> USE DEF FileInv
<1>1. /\ dir[n] # None /\ dir' = [dir EXCEPT ![n] = None]
      /\ solo' = [u \in Uploads |-> solo[u] /\ upload[u].fd # dir[n]]
      /\ owner' = [owner EXCEPT ![n] = None]
      /\ UNCHANGED <<content, upload>>
  BY DEF DeleteISO
<1>2. /\ dir'[n] = None /\ owner'[n] = None
      /\ \A o \in Isos \ {n} : dir'[o] = dir[o] /\ owner'[o] = owner[o]
      /\ \A u \in Uploads : solo'[u] => solo[u] /\ upload[u].fd # dir[n]
  BY <1>1 DEF FileTypes
<1>3. FileTypes'
  BY <1>1 DEF FileTypes
<1>4. OneName'
  <2>1. \A u \in Uploads : upload[u].at = "copy" => upload[u].fd # None
    BY NoneAssumption DEF FileTypes, Copying, IdleUpload
  <2> QED BY <1>1, <1>2, <2>1 DEF OneName
<1>5. SoloInv'
  BY <1>1, <1>2 DEF SoloInv, FileTypes, Copying, IdleUpload
<1>6. OwnerInv'
  BY <1>1, <1>2 DEF OwnerInv
<1> QED BY <1>3, <1>4, <1>5, <1>6

LEMMA FilesStep ==
  ASSUME FileInv, [Next]_vars
  PROVE  FileInv'
<1>1. CASE UNCHANGED fileVars
  BY <1>1 DEF fileVars, FileInv, FileTypes, OneName, SoloInv, OwnerInv
<1>2. CASE UNCHANGED vars
  BY <1>1, <1>2 DEF vars
<1>3. ASSUME NEW q \in Adds, QuickAdd(q) PROVE FileInv'
  BY <1>1, <1>3 DEF QuickAdd, Analyze, CountEntries, NumberEntry, PutEntry
<1>4. ASSUME NEW id, EditEntry(id) \/ DeleteEntry(id) PROVE FileInv'
  BY <1>1, <1>4 DEF EditEntry, DeleteEntry
<1>5. ASSUME NEW u \in Uploads, Upload(u) PROVE FileInv'
  BY <1>5, CreateStep, CopyStep, EndStep DEF Upload
<1> QED BY <1>2, <1>3, <1>4, <1>5, DeleteStep DEF Next

\* An upload that had its file to itself has left exactly its image, for any number of
\* uploads at once under any names, with failures and deletions at any moment.
THEOREM SoloWhole == Spec => []SoloUploadIsWhole
<1>1. FileInv => SoloUploadIsWhole
  BY DEF FileInv, OwnerInv, SoloUploadIsWhole
<1> QED BY <1>1, InitFiles, FilesStep, PTL DEF Spec

(***************************************************************************)
(* The menu.  A quick-add on its way has the slug of its file as its       *)
(* identifier, or a number if there is none; the two never meet.           *)
(***************************************************************************)
Adding(a) ==
  /\ a = [at |-> a.at, iso |-> a.iso, family |-> a.family, order |-> a.order, id |-> a.id]
  /\ a.at \in {"count", "number", "put"} /\ a.iso \in Isos /\ a.order \in Nat
  /\ a.at = "number" => Slug[a.iso] = None
  /\ a.at = "put" => IF Slug[a.iso] = None THEN a.id \in Nat ELSE a.id = Slug[a.iso]

MenuTypes ==
  /\ entries = [id \in DOMAIN entries |-> entries[id]] /\ IsFiniteSet(DOMAIN entries)
  /\ add = [q \in Adds |-> add[q]]
  /\ \A q \in Adds : add[q] = IdleAdd \/ Adding(add[q])

LEMMA PutDomain ==
  ASSUME MenuTypes, NEW id, NEW e, entries' = Put(entries, id, e)
  PROVE  /\ DOMAIN entries' = DOMAIN entries \cup {id} /\ entries'[id] = e
         /\ \A i \in DOMAIN entries \ {id} : entries'[i] = entries[i]
         /\ entries' = [i \in DOMAIN entries' |-> entries'[i]] /\ IsFiniteSet(DOMAIN entries')
<1>1. IsFiniteSet(DOMAIN entries \cup {id})
  BY FS_AddElement DEF MenuTypes
<1> QED BY <1>1 DEF Put

LEMMA CountType == ASSUME MenuTypes PROVE Count \in Nat
  BY FS_CardinalityType DEF MenuTypes, Count

LEMMA InitMenu == Init => MenuTypes
<1> SUFFICES ASSUME Init PROVE MenuTypes
  OBVIOUS
<1>1. DOMAIN entries = {} /\ entries = [id \in DOMAIN entries |-> entries[id]]
  BY DEF Init, EmptyMenu
<1> QED BY <1>1, FS_EmptySet DEF Init, MenuTypes

LEMMA AnalyzeMenu ==
  ASSUME MenuTypes, NEW q \in Adds, Analyze(q)
  PROVE  MenuTypes'
<1>1. PICK n \in Isos, f \in UNION {Families(content[dir[m]]) : m \in Isos} :
        add' = [add EXCEPT ![q] = [at |-> "count", iso |-> n, family |-> f, order |-> 0, id |-> 0]]
  BY DEF Analyze
<1>2. Adding([at |-> "count", iso |-> n, family |-> f, order |-> 0, id |-> 0])
  BY DEF Adding
<1> QED BY <1>1, <1>2 DEF MenuTypes, Analyze

LEMMA CountMenu ==
  ASSUME MenuTypes, NEW q \in Adds, CountEntries(q)
  PROVE  MenuTypes'
<1>1. add[q].at = "count" /\ Adding(add[q])
  BY DEF CountEntries, MenuTypes, IdleAdd
<1>2. /\ add' = [add EXCEPT ![q].order = Count, ![q].id = Slug[add[q].iso],
                            ![q].at = NextAfterCount(q)]
      /\ UNCHANGED entries
  BY DEF CountEntries
<1>3. add'[q] = [at |-> NextAfterCount(q), iso |-> add[q].iso, family |-> add[q].family,
                 order |-> Count, id |-> Slug[add[q].iso]]
  BY <1>1, <1>2 DEF Adding, MenuTypes
<1>4. Adding(add'[q])
  BY <1>1, <1>3, CountType DEF Adding, NextAfterCount
<1> QED BY <1>2, <1>4 DEF MenuTypes

LEMMA NumberMenu ==
  ASSUME MenuTypes, NEW q \in Adds, NumberEntry(q)
  PROVE  MenuTypes'
<1>1. add[q].at = "number" /\ Adding(add[q])
  BY DEF NumberEntry, MenuTypes, IdleAdd
<1>2. add' = [add EXCEPT ![q].id = Count + 1, ![q].at = "put"] /\ UNCHANGED entries
  BY DEF NumberEntry
<1>3. add'[q] = [at |-> "put", iso |-> add[q].iso, family |-> add[q].family,
                 order |-> add[q].order, id |-> Count + 1]
  BY <1>1, <1>2 DEF Adding, MenuTypes
<1>4. Adding(add'[q])
  BY <1>1, <1>3, CountType DEF Adding
<1> QED BY <1>2, <1>4 DEF MenuTypes

LEMMA PutMenu ==
  ASSUME MenuTypes, NEW q \in Adds, PutEntry(q)
  PROVE  MenuTypes'
<1>1. /\ add' = [add EXCEPT ![q] = IdleAdd]
      /\ entries' = Put(entries, add[q].id, [iso |-> add[q].iso, family |-> add[q].family,
                                             order |-> add[q].order, created |-> clock'])
  BY DEF PutEntry
<1>2. entries' = [id \in DOMAIN entries' |-> entries'[id]] /\ IsFiniteSet(DOMAIN entries')
  BY <1>1, PutDomain
<1> QED BY <1>1, <1>2 DEF MenuTypes

LEMMA EditMenu ==
  ASSUME MenuTypes, NEW id, EditEntry(id) \/ DeleteEntry(id)
  PROVE  MenuTypes'
<1>1. UNCHANGED add
  BY DEF EditEntry, DeleteEntry
<1>2. CASE EditEntry(id)
  <2>1. PICK e : entries' = Put(entries, id, e)
    BY <1>2 DEF EditEntry
  <2>2. entries' = [i \in DOMAIN entries' |-> entries'[i]] /\ IsFiniteSet(DOMAIN entries')
    BY <2>1, PutDomain
  <2> QED BY <1>1, <2>2 DEF MenuTypes
<1>3. CASE DeleteEntry(id)
  <2>1. entries' = [i \in DOMAIN entries \ {id} |-> entries[i]]
    BY <1>3 DEF DeleteEntry, Without
  <2>2. IsFiniteSet(DOMAIN entries \ {id})
    BY FS_Subset DEF MenuTypes
  <2> QED BY <1>1, <2>1, <2>2 DEF MenuTypes
<1> QED BY <1>2, <1>3

LEMMA MenuStep ==
  ASSUME MenuTypes, [Next]_vars
  PROVE  MenuTypes'
<1>1. CASE UNCHANGED <<entries, add>>
  BY <1>1 DEF MenuTypes
<1>2. CASE UNCHANGED vars
  BY <1>1, <1>2 DEF vars, menuVars
<1>3. ASSUME NEW u \in Uploads, Upload(u) PROVE MenuTypes'
  BY <1>1, <1>3 DEF Upload, Create, Copy, CopyFails, Uploaded, menuVars
<1>4. ASSUME NEW n \in Isos, DeleteISO(n) PROVE MenuTypes'
  BY <1>1, <1>4 DEF DeleteISO
<1>5. ASSUME NEW q \in Adds, QuickAdd(q) PROVE MenuTypes'
  BY <1>5, AnalyzeMenu, CountMenu, NumberMenu, PutMenu DEF QuickAdd
<1> QED BY <1>2, <1>3, <1>4, <1>5, EditMenu DEF Next

(***************************************************************************)
(* The entry of a file whose slug no other file is given as its identifier *)
(* lies under the slug.                                                    *)
(***************************************************************************)
SlugInv ==
  \A n \in added : OwnSlug(n) => Slug[n] \in DOMAIN entries /\ entries[Slug[n]].iso = n

LEMMA SlugStep ==
  ASSUME MenuTypes, SlugInv, added \subseteq Isos, [Next]_vars
  PROVE  SlugInv' /\ (added \subseteq Isos)'
<1>1. CASE UNCHANGED <<entries, added>>
  BY <1>1 DEF SlugInv, OwnSlug, Lookalike
<1>2. CASE UNCHANGED vars
  BY <1>1, <1>2 DEF vars, menuVars
<1>3. ASSUME NEW u \in Uploads, Upload(u) PROVE UNCHANGED <<entries, added>>
  BY <1>3 DEF Upload, Create, Copy, CopyFails, Uploaded, menuVars
<1>4. ASSUME NEW n \in Isos, DeleteISO(n) PROVE UNCHANGED <<entries, added>>
  BY <1>4 DEF DeleteISO
<1>5. ASSUME NEW q \in Adds, Analyze(q) \/ CountEntries(q) \/ NumberEntry(q)
      PROVE  UNCHANGED <<entries, added>>
  BY <1>5 DEF Analyze, CountEntries, NumberEntry
<1>6. ASSUME NEW q \in Adds, PutEntry(q) PROVE SlugInv' /\ (added \subseteq Isos)'
  <2>1. PICK e : e.iso = add[q].iso /\ entries' = Put(entries, add[q].id, e)
    BY <1>6 DEF PutEntry
  <2>2. /\ added' = added \cup {add[q].iso} /\ add[q].iso \in Isos
        /\ IF Slug[add[q].iso] = None THEN add[q].id \in Nat ELSE add[q].id = Slug[add[q].iso]
    BY <1>6 DEF PutEntry, MenuTypes, Adding, IdleAdd
  <2>3. /\ DOMAIN entries' = DOMAIN entries \cup {add[q].id} /\ entries'[add[q].id] = e
        /\ \A i \in DOMAIN entries \ {add[q].id} : entries'[i] = entries[i]
    BY <2>1, PutDomain
  <2>4. ASSUME NEW n \in added', OwnSlug(n)
        PROVE  Slug[n] \in DOMAIN entries' /\ entries'[Slug[n]].iso = n
    <3>1. CASE n = add[q].iso
      BY <2>1, <2>2, <2>3, <2>4, <3>1 DEF OwnSlug
    <3>2. CASE n # add[q].iso
      <4>1. n \in added /\ n \in Isos
        BY <2>2, <3>2
      <4>2. Slug[n] # add[q].id
        BY <2>2, <2>4, <3>2, <4>1 DEF OwnSlug, Lookalike
      <4> QED BY <2>3, <2>4, <4>1, <4>2 DEF SlugInv
    <3> QED BY <3>1, <3>2
  <2> QED BY <2>2, <2>4 DEF SlugInv, OwnSlug, Lookalike
<1>7. ASSUME NEW id, EditEntry(id) \/ DeleteEntry(id) PROVE SlugInv' /\ (added \subseteq Isos)'
  <2>1. /\ added' = added \ NamesChanged(id)
        /\ \A i \in DOMAIN entries \ {id} : i \in DOMAIN entries' /\ entries'[i] = entries[i]
    <3>1. CASE EditEntry(id)
      <4>1. PICK e : entries' = Put(entries, id, e)
        BY <3>1 DEF EditEntry
      <4> QED BY <3>1, <4>1 DEF EditEntry, Put
    <3>2. CASE DeleteEntry(id)
      BY <3>2 DEF DeleteEntry, Without
    <3> QED BY <1>7, <3>1, <3>2
  <2> QED BY <2>1 DEF SlugInv, NamesChanged, OwnSlug, Lookalike
<1> QED BY <1>1, <1>2, <1>3, <1>4, <1>5, <1>6, <1>7 DEF Next, QuickAdd

\* A file that was added and whose slug no other file can be given as its identifier, be
\* it as a slug or as a number, stays in the menu until its entry is edited or deleted, for
\* any number of additions at once.
THEOREM SluggedStay == Spec => []SluggedAddSticks
<1>1. SlugInv => SluggedAddSticks
  BY DEF SlugInv, SluggedAddSticks, InMenu
<1>2. Init => SlugInv /\ added \subseteq Isos
  BY DEF Init, SlugInv
<1> QED BY <1>1, <1>2, InitMenu, MenuStep, SlugStep, PTL DEF Spec

(***************************************************************************)
(* A tidy administrator: no upload writes to a file of the menu or of an   *)
(* addition on its way, and each of these has the family of the image that *)
(* was uploaded last.                                                      *)
(***************************************************************************)
IdleUploads == \A u \in Uploads : upload[u].at = "copy" => ~Named(upload[u].iso)
Fits(n, f) == n \in Isos /\ f \in Images /\ owner[n] = f
EntriesFit == \A id \in DOMAIN entries : Fits(entries[id].iso, entries[id].family)
AddsFit == \A q \in Adds : add[q].at # "idle" => Fits(add[q].iso, add[q].family)
TidyInv == IdleUploads /\ EntriesFit /\ AddsFit

LEMMA TidyUpload ==
  ASSUME FileInv, MenuTypes, user = "tidy", TidyInv, NEW u \in Uploads, Upload(u)
  PROVE  TidyInv'
<1>1. UNCHANGED <<entries, add>>
  BY DEF Upload, Create, Copy, CopyFails, Uploaded, menuVars
<1>2. \A n : Named(n)' <=> Named(n)
  BY <1>1 DEF Named
<1>3. \A n \in Isos : Named(n) => owner'[n] = owner[n]
  <2>1. CASE Create(u)
    BY <2>1 DEF Create, MayReplace, FileInv, FileTypes
  <2>2. CASE Copy(u)
    BY <2>2 DEF Copy
  <2>3. CASE CopyFails(u) \/ Uploaded(u)
    BY <2>3 DEF CopyFails, Uploaded, TidyInv, IdleUploads, FileInv, FileTypes
  <2> QED BY <2>1, <2>2, <2>3 DEF Upload
<1>4. \A v \in Uploads : upload'[v].at = "copy" =>
        \/ upload[v].at = "copy" /\ upload'[v].iso = upload[v].iso
        \/ ~Named(upload'[v].iso)
  <2>1. CASE Create(u)
    BY <2>1 DEF Create, MayReplace, FileInv, FileTypes
  <2>2. CASE Copy(u)
    BY <2>2 DEF Copy, FileInv, FileTypes, Copying, IdleUpload
  <2>3. CASE CopyFails(u) \/ Uploaded(u)
    BY <2>3 DEF CopyFails, Uploaded, FileInv, FileTypes, IdleUpload
  <2> QED BY <2>1, <2>2, <2>3 DEF Upload
<1>5. IdleUploads'
  BY <1>2, <1>4 DEF TidyInv, IdleUploads
<1>6. EntriesFit'
  BY <1>1, <1>3 DEF TidyInv, EntriesFit, Fits, Named
<1>7. AddsFit'
  BY <1>1, <1>3 DEF TidyInv, AddsFit, Fits, Named
<1> QED BY <1>5, <1>6, <1>7 DEF TidyInv

LEMMA TidyDelete ==
  ASSUME FileInv, user = "tidy", TidyInv, NEW n \in Isos, DeleteISO(n)
  PROVE  TidyInv'
<1>1. UNCHANGED <<entries, add, upload>> /\ ~Named(n) /\ owner' = [owner EXCEPT ![n] = None]
  BY DEF DeleteISO, MayReplace
<1>2. IdleUploads'
  BY <1>1 DEF TidyInv, IdleUploads, Named
<1>3. EntriesFit' /\ AddsFit'
  <2>1. \A m \in Isos : Named(m) => owner'[m] = owner[m]
    BY <1>1 DEF FileInv, FileTypes
  <2> QED BY <1>1, <2>1 DEF TidyInv, EntriesFit, AddsFit, Fits, Named
<1> QED BY <1>2, <1>3 DEF TidyInv

LEMMA TidyAnalyze ==
  ASSUME FileInv, MenuTypes, user = "tidy", TidyInv, NEW q \in Adds, Analyze(q)
  PROVE  TidyInv'
<1>1. PICK n \in Isos : /\ owner[n] # None /\ ~Uploading(n)
                        /\ \E f \in Families(content[dir[n]]) :
                             add' = [add EXCEPT ![q] = [at |-> "count", iso |-> n, family |-> f,
                                                        order |-> 0, id |-> 0]]
  BY DEF Analyze
<1>2. Families(content[dir[n]]) = {owner[n]} /\ owner[n] \in Images
  <2>1. owner[n] \in Images /\ content[dir[n]] = WholeImage(owner[n])
    BY <1>1 DEF FileInv, FileTypes, OwnerInv
  <2>2. WholeImage(owner[n])[1] = owner[n]
    BY <2>1, ImageAssumption DEF WholeImage
  <2> QED BY <2>1, <2>2 DEF Families
<1>3. UNCHANGED <<upload, owner, entries>>
  BY DEF Analyze, fileVars
<1>4. add'[q].iso = n /\ add'[q].family = owner[n] /\ \A r \in Adds \ {q} : add'[r] = add[r]
  BY <1>1, <1>2 DEF MenuTypes
<1>5. IdleUploads'
  BY <1>1, <1>3, <1>4 DEF TidyInv, IdleUploads, Named, Uploading
<1>6. EntriesFit' /\ AddsFit'
  BY <1>2, <1>3, <1>4 DEF TidyInv, EntriesFit, AddsFit, Fits
<1> QED BY <1>5, <1>6 DEF TidyInv

LEMMA TidyAdd ==
  ASSUME FileInv, MenuTypes, user = "tidy", TidyInv,
         NEW q \in Adds, CountEntries(q) \/ NumberEntry(q) \/ PutEntry(q)
  PROVE  TidyInv'
<1>1. UNCHANGED <<upload, owner>> /\ add[q].at # "idle"
  BY DEF CountEntries, NumberEntry, PutEntry, fileVars
<1>2. \A r \in Adds : add'[r].at # "idle" =>
        add[r].at # "idle" /\ add'[r].iso = add[r].iso /\ add'[r].family = add[r].family
  BY <1>1 DEF CountEntries, NumberEntry, PutEntry, MenuTypes, Adding, IdleAdd
<1>3. \A id \in DOMAIN entries' :
        \/ id \in DOMAIN entries /\ entries'[id] = entries[id]
        \/ entries'[id].iso = add[q].iso /\ entries'[id].family = add[q].family
  <2>1. CASE UNCHANGED entries
    BY <2>1
  <2>2. CASE PutEntry(q)
    <3>1. PICK e : /\ e.iso = add[q].iso /\ e.family = add[q].family
                   /\ entries' = Put(entries, add[q].id, e)
      BY <2>2 DEF PutEntry
    <3>2. /\ DOMAIN entries' = DOMAIN entries \cup {add[q].id} /\ entries'[add[q].id] = e
          /\ \A i \in DOMAIN entries \ {add[q].id} : entries'[i] = entries[i]
      BY <3>1, PutDomain
    <3> QED BY <3>1, <3>2
  <2> QED BY <2>1, <2>2 DEF CountEntries, NumberEntry
<1>4. \A n \in Isos : Named(n)' => Named(n)
  <2>1. \A r \in Adds : add'[r].iso \in Isos => add'[r].iso = add[r].iso
    BY NoneAssumption DEF CountEntries, NumberEntry, PutEntry, MenuTypes, Adding, IdleAdd
  <2> QED BY <1>3, <2>1 DEF Named
<1>5. IdleUploads'
  <2>1. \A u \in Uploads : upload[u].at = "copy" => upload[u].iso \in Isos
    BY DEF FileInv, FileTypes, Copying, IdleUpload
  <2> QED BY <1>1, <1>4, <2>1 DEF TidyInv, IdleUploads
<1>6. EntriesFit'
  BY <1>1, <1>3 DEF TidyInv, EntriesFit, AddsFit, Fits
<1>7. AddsFit'
  BY <1>1, <1>2 DEF TidyInv, AddsFit, Fits
<1> QED BY <1>5, <1>6, <1>7 DEF TidyInv

LEMMA TidyEdit ==
  ASSUME FileInv, MenuTypes, user = "tidy", TidyInv, NEW id, EditEntry(id) \/ DeleteEntry(id)
  PROVE  TidyInv'
<1>1. UNCHANGED <<upload, owner, add>>
  BY DEF EditEntry, DeleteEntry, fileVars
<1>2. \A i \in DOMAIN entries' :
        \/ i \in DOMAIN entries /\ entries'[i] = entries[i]
        \/ /\ Fits(entries'[i].iso, entries'[i].family)
           /\ Named(entries'[i].iso) \/ ~Uploading(entries'[i].iso)
  <2>1. CASE EditEntry(id)
    <3>1. PICK n \in Isos :
            /\ IF id \in DOMAIN entries THEN n = entries[id].iso ELSE owner[n] # None /\ ~Uploading(n)
            /\ \E e : /\ e.iso = n /\ e.family = ChosenFamily(id, n)
                     /\ entries' = Put(entries, id, e)
      BY <2>1 DEF EditEntry
    <3>2. Fits(n, ChosenFamily(id, n))
      BY <3>1 DEF ChosenFamily, NamesChanged, Fits, TidyInv, EntriesFit, FileInv, FileTypes
    <3>3. Named(n) \/ ~Uploading(n)
      BY <3>1 DEF Named
    <3>4. PICK e : /\ e.iso = n /\ e.family = ChosenFamily(id, n)
                   /\ entries' = Put(entries, id, e)
      BY <3>1
    <3>5. /\ DOMAIN entries' = DOMAIN entries \cup {id} /\ entries'[id] = e
          /\ \A i \in DOMAIN entries \ {id} : entries'[i] = entries[i]
      BY <3>4, PutDomain
    <3> QED BY <3>2, <3>3, <3>4, <3>5
  <2>2. CASE DeleteEntry(id)
    BY <2>2 DEF DeleteEntry, Without
  <2> QED BY <2>1, <2>2
<1>3. IdleUploads'
  BY <1>1, <1>2 DEF TidyInv, IdleUploads, Named, Uploading
<1>4. EntriesFit'
  BY <1>1, <1>2 DEF TidyInv, EntriesFit, Fits
<1>5. AddsFit'
  BY <1>1 DEF TidyInv, AddsFit, Fits
<1> QED BY <1>3, <1>4, <1>5 DEF TidyInv

LEMMA TidyStep ==
  ASSUME FileInv, MenuTypes, user = "tidy" => TidyInv, [Next]_vars
  PROVE  (user = "tidy" => TidyInv)'
<1>1. UNCHANGED user
  BY DEF Next, Upload, Create, Copy, CopyFails, Uploaded, DeleteISO, QuickAdd, Analyze, CountEntries,
         NumberEntry, PutEntry, EditEntry, DeleteEntry, vars
<1>2. CASE UNCHANGED vars
  BY <1>2 DEF vars, menuVars, fileVars, TidyInv, IdleUploads, EntriesFit, AddsFit, Fits, Named
<1> QED BY <1>1, <1>2, TidyUpload, TidyDelete, TidyAnalyze, TidyAdd, TidyEdit DEF Next, QuickAdd

\* For a tidy administrator every entry of the menu names, at every moment, a file that is all
\* there and of the family the entry was given: for any files, uploads and additions at once.
THEOREM TidyBoots == Spec => []TidyMenuBoots
<1>1. FileInv /\ (user = "tidy" => TidyInv) => TidyMenuBoots
  BY NoneAssumption DEF FileInv, OwnerInv, TidyInv, EntriesFit, Fits, TidyMenuBoots
<1>2. Init => (user = "tidy" => TidyInv)
  BY NoneAssumption
     DEF Init, EmptyMenu, IdleUpload, IdleAdd, TidyInv, IdleUploads, EntriesFit, AddsFit
<1> QED BY <1>1, <1>2, InitFiles, FilesStep, InitMenu, MenuStep, TidyStep, PTL DEF Spec

(***************************************************************************)
(* The first entry, as long as every file is added once at most and no     *)
(* entry is edited and the names in play are given different identifiers.  *)
(* There always is an entry of order 0 that no later one replaces, unless  *)
(* it has order 0 as well: the entry of a file with a slug, or number 1.   *)
(***************************************************************************)
EntryShapes ==
  /\ clock \in Nat /\ added \subseteq Isos
  /\ \A id \in DOMAIN entries :
       /\ entries[id].iso \in added /\ entries[id].order \in Nat /\ entries[id].created \in Nat
       /\ entries[id].created <= clock
       /\ IF Slug[entries[id].iso] = None THEN id \in Nat ELSE id = Slug[entries[id].iso]
  /\ \A i, j \in DOMAIN entries : entries[i].created = entries[j].created => i = j

Firm(id) == entries[id].order = 0 /\ (Slug[entries[id].iso] = None => id = 1)
FirmEntry == DOMAIN entries # {} => \E id \in DOMAIN entries : Firm(id)

Slugged(q) == add[q].at # "idle" /\ Slug[add[q].iso] # None
NewSlugs ==
  /\ \A q \in Adds : Slugged(q) => Slug[add[q].iso] \notin DOMAIN entries
  /\ \A q, r \in Adds : q # r /\ Slugged(q) /\ Slugged(r) => add[q].iso # add[r].iso

LowOrders ==
  \A q \in Adds : add[q].at \in {"number", "put"} =>
    /\ add[q].order <= Count
    /\ add[q].at = "put" /\ Slug[add[q].iso] = None =>
         add[q].order < add[q].id /\ add[q].id <= Count + 1

OrderInv == EntryShapes /\ FirmEntry /\ NewSlugs /\ LowOrders

LEMMA OrderAnalyze ==
  ASSUME MenuTypes, Apart(InPlay)', simple', OrderInv, NEW q \in Adds, Analyze(q)
  PROVE  OrderInv'
<1>1. PICK n \in Isos, f \in UNION {Families(content[dir[m]]) : m \in Isos} :
        /\ add' = [add EXCEPT ![q] = [at |-> "count", iso |-> n, family |-> f, order |-> 0, id |-> 0]]
        /\ ~Named(n)
  BY DEF Analyze
<1>2. /\ add'[q].at = "count" /\ add'[q].iso = n
      /\ \A r \in Adds \ {q} : add'[r] = add[r]
      /\ UNCHANGED <<entries, clock, added>>
  BY <1>1 DEF MenuTypes, Analyze
<1>3. Slug[n] # None => Slug[n] \notin DOMAIN entries
  <2> SUFFICES ASSUME Slug[n] # None, Slug[n] \in DOMAIN entries PROVE FALSE
    OBVIOUS
  <2> DEFINE m == entries[Slug[n]].iso
  <2>1. m \in added /\ m \in Isos /\ (IF Slug[m] = None THEN Slug[n] \in Nat ELSE Slug[n] = Slug[m])
    BY DEF OrderInv, EntryShapes
  <2>2. m # n
    BY <1>1 DEF Named
  <2>3. m \in InPlay' /\ n \in InPlay'
    BY <1>2, <2>1 DEF InPlay
  <2> HIDE DEF m
  <2> QED BY <2>1, <2>2, <2>3 DEF Apart, Lookalike
<1>4. NewSlugs'
  BY <1>1, <1>2, <1>3 DEF OrderInv, NewSlugs, Slugged, Named
<1>5. LowOrders'
  BY <1>2 DEF OrderInv, LowOrders, Count
<1>6. EntryShapes' /\ FirmEntry'
  BY <1>2 DEF OrderInv, EntryShapes, FirmEntry, Firm
<1> QED BY <1>4, <1>5, <1>6 DEF OrderInv

LEMMA OrderCount ==
  ASSUME MenuTypes, OrderInv, NEW q \in Adds, CountEntries(q) \/ NumberEntry(q)
  PROVE  OrderInv'
<1>1. UNCHANGED <<entries, clock, added>> /\ add[q].at \in {"count", "number"}
  BY DEF CountEntries, NumberEntry
<1>2. Adding(add[q])
  BY <1>1 DEF MenuTypes, IdleAdd
<1>3. /\ add'[q].at # "idle" /\ add'[q].iso = add[q].iso
      /\ \A r \in Adds \ {q} : add'[r] = add[r]
  BY <1>1, <1>2 DEF CountEntries, NumberEntry, MenuTypes, Adding, NextAfterCount
<1>4. add'[q].order <= Count /\ add'[q].order \in Nat
      /\ (add'[q].at = "put" /\ Slug[add[q].iso] = None => add'[q].id = Count + 1)
  <2>1. CASE CountEntries(q)
    BY <1>2, <2>1, CountType DEF CountEntries, MenuTypes, Adding, NextAfterCount
  <2>2. CASE NumberEntry(q)
    BY <1>2, <2>2 DEF NumberEntry, MenuTypes, Adding, OrderInv, LowOrders
  <2> QED BY <2>1, <2>2
<1>5. NewSlugs'
  BY <1>1, <1>3 DEF OrderInv, NewSlugs, Slugged
<1>6. LowOrders'
  <2>1. Count' = Count
    BY <1>1 DEF Count
  <2> QED BY <1>3, <1>4, <2>1, CountType DEF OrderInv, LowOrders
<1>7. EntryShapes' /\ FirmEntry'
  BY <1>1 DEF OrderInv, EntryShapes, FirmEntry, Firm
<1> QED BY <1>5, <1>6, <1>7 DEF OrderInv

\* What a Put leaves: the identifier is a slug that is new, or a number beyond the order.
LEMMA PutFacts ==
  ASSUME MenuTypes, OrderInv, NEW q \in Adds, PutEntry(q)
  PROVE  /\ DOMAIN entries' = DOMAIN entries \cup {add[q].id}
         /\ \A i \in DOMAIN entries \ {add[q].id} : entries'[i] = entries[i]
         /\ entries'[add[q].id].iso = add[q].iso /\ add[q].iso \in Isos
         /\ entries'[add[q].id].order = add[q].order /\ add[q].order \in Nat
         /\ entries'[add[q].id].created = clock + 1 /\ clock' = clock + 1
         /\ add'[q] = IdleAdd /\ \A r \in Adds \ {q} : add'[r] = add[r]
         /\ add[q].order <= Count
         /\ Slug[add[q].iso] # None => add[q].id = Slug[add[q].iso] /\ add[q].id \notin DOMAIN entries
         /\ Slug[add[q].iso] = None =>
              add[q].id \in Nat /\ add[q].order < add[q].id /\ add[q].id <= Count + 1
         /\ Count' \in {Count, Count + 1} /\ added' = added \cup {add[q].iso}
<1>1. PICK e : /\ e = [iso |-> add[q].iso, family |-> add[q].family,
                       order |-> add[q].order, created |-> clock']
               /\ entries' = Put(entries, add[q].id, e)
  BY DEF PutEntry
<1>2. /\ DOMAIN entries' = DOMAIN entries \cup {add[q].id} /\ entries'[add[q].id] = e
      /\ \A i \in DOMAIN entries \ {add[q].id} : entries'[i] = entries[i]
  BY <1>1, PutDomain
<1>3. add[q].at = "put" /\ Adding(add[q]) /\ clock' = clock + 1
  BY DEF PutEntry, MenuTypes, IdleAdd
<1>4. /\ add'[q] = IdleAdd /\ \A r \in Adds \ {q} : add'[r] = add[r]
      /\ added' = added \cup {add[q].iso}
  BY DEF PutEntry, MenuTypes
<1>5. Count' \in {Count, Count + 1}
  BY <1>2, FS_AddElement DEF Count, MenuTypes
<1>6. /\ add[q].order <= Count
      /\ Slug[add[q].iso] # None => add[q].id = Slug[add[q].iso] /\ add[q].id \notin DOMAIN entries
      /\ Slug[add[q].iso] = None =>
           add[q].id \in Nat /\ add[q].order < add[q].id /\ add[q].id <= Count + 1
  BY <1>3 DEF Adding, OrderInv, NewSlugs, Slugged, LowOrders
<1>7. e.iso = add[q].iso /\ e.order = add[q].order /\ e.created = clock + 1
  BY <1>1, <1>3
<1>8. add[q].iso \in Isos /\ add[q].order \in Nat
  BY <1>3 DEF Adding
<1> QED BY <1>2, <1>3, <1>4, <1>5, <1>6, <1>7, <1>8

LEMMA OrderPut ==
  ASSUME MenuTypes, Apart(InPlay)', OrderInv, NEW q \in Adds, PutEntry(q)
  PROVE  OrderInv'
<1> DEFINE d == add[q].id
<1>1. /\ DOMAIN entries' = DOMAIN entries \cup {d}
      /\ \A i \in DOMAIN entries \ {d} : entries'[i] = entries[i]
      /\ entries'[d].iso = add[q].iso /\ add[q].iso \in Isos
      /\ entries'[d].order = add[q].order /\ add[q].order \in Nat
      /\ entries'[d].created = clock + 1 /\ clock' = clock + 1
  BY PutFacts
<1>2. add'[q] = IdleAdd /\ \A r \in Adds \ {q} : add'[r] = add[r]
  BY PutFacts
<1>3. /\ add[q].order <= Count
      /\ Slug[add[q].iso] # None => d = Slug[add[q].iso] /\ d \notin DOMAIN entries
      /\ Slug[add[q].iso] = None => d \in Nat /\ add[q].order < d /\ d <= Count + 1
  BY PutFacts
<1>4. Count' \in {Count, Count + 1} /\ added' = added \cup {add[q].iso}
  BY PutFacts
<1> HIDE DEF d
<1>9. InPlay' = InPlay /\ add[q].iso \in InPlay
  BY <1>1, <1>2, <1>4, NoneAssumption DEF InPlay, IdleAdd
<1>5. EntryShapes'
  BY <1>1, <1>3, <1>4 DEF OrderInv, EntryShapes
<1>6. FirmEntry'
  <2>1. CASE DOMAIN entries = {}
    <3>1. Count = 0
      BY <2>1, FS_EmptySet DEF Count
    <3>2. entries'[d].order = 0 /\ (Slug[add[q].iso] = None => d = 1)
      BY <1>1, <1>3, <3>1
    <3> QED BY <1>1, <3>2 DEF FirmEntry, Firm
  <2>2. CASE DOMAIN entries # {}
    <3>1. PICK w \in DOMAIN entries : Firm(w)
      BY <2>2 DEF OrderInv, FirmEntry
    <3>2. CASE w # d
      BY <1>1, <3>1, <3>2 DEF FirmEntry, Firm
    <3>3. CASE w = d
      <4>1. Slug[add[q].iso] = None /\ d \in Nat /\ add[q].order < d
        BY <1>3, <3>1, <3>3
      <4>2. Slug[entries[d].iso] = None
        <5>1. entries[d].iso \in InPlay /\ (Slug[entries[d].iso] # None => d = Slug[entries[d].iso])
          BY <3>1, <3>3 DEF OrderInv, EntryShapes, InPlay
        <5> QED BY <1>9, <4>1, <5>1 DEF Apart, Lookalike
      <4>3. d = 1
        BY <3>1, <3>3, <4>2 DEF Firm
      <4> QED BY <1>1, <4>1, <4>3 DEF FirmEntry, Firm
    <3> QED BY <3>2, <3>3
  <2> QED BY <2>1, <2>2
<1>7. NewSlugs'
  <2>1. ASSUME NEW r \in Adds, Slugged(r)'
        PROVE  r # q /\ add'[r] = add[r] /\ Slugged(r) /\ add[r].iso \in Isos
    BY <1>2, <2>1 DEF Slugged, IdleAdd, MenuTypes, Adding
  <2>2. ASSUME NEW r \in Adds, Slugged(r)'
        PROVE  Slug[add'[r].iso] \notin DOMAIN entries'
    <3>1. Slug[add[r].iso] \notin DOMAIN entries
      BY <2>1, <2>2 DEF OrderInv, NewSlugs
    <3>3. add[r].iso \in InPlay
      BY <2>1, <2>2 DEF InPlay
    <3>2. Slug[add[r].iso] # d
      <4>1. CASE Slug[add[q].iso] = None
        BY <1>3, <1>9, <2>1, <2>2, <3>3, <4>1 DEF Apart, Lookalike, Slugged
      <4>2. CASE Slug[add[q].iso] # None
        <5>1. Slugged(q)
          BY <4>2 DEF Slugged, PutEntry
        <5>2. add[r].iso # add[q].iso
          BY <2>1, <2>2, <5>1 DEF OrderInv, NewSlugs
        <5> QED BY <1>3, <1>9, <2>1, <3>3, <4>2, <5>2 DEF Apart
      <4> QED BY <4>1, <4>2
    <3> QED BY <1>1, <2>1, <2>2, <3>1, <3>2
  <2> QED BY <2>1, <2>2 DEF OrderInv, NewSlugs
<1>8. LowOrders'
  <2> SUFFICES ASSUME NEW r \in Adds, add'[r].at \in {"number", "put"}
               PROVE  /\ add'[r].order <= Count'
                      /\ add'[r].at = "put" /\ Slug[add'[r].iso] = None =>
                           add'[r].order < add'[r].id /\ add'[r].id <= Count' + 1
    BY DEF LowOrders
  <2>1. r # q /\ add'[r] = add[r]
    BY <1>2 DEF IdleAdd
  <2>2. Adding(add[r])
    BY <2>1 DEF MenuTypes, IdleAdd
  <2> QED BY <1>4, <2>1, <2>2, CountType DEF Adding, OrderInv, LowOrders
<1> QED BY <1>5, <1>6, <1>7, <1>8 DEF OrderInv

\* While no entry is edited, names only join those in play.
LEMMA InPlayGrows ==
  ASSUME MenuTypes, added \subseteq Isos, [Next]_vars, simple'
  PROVE  InPlay \subseteq InPlay' /\ (added \subseteq Isos)'
<1>1. ASSUME UNCHANGED <<add, added>> PROVE InPlay \subseteq InPlay' /\ (added \subseteq Isos)'
  BY <1>1 DEF InPlay
<1>2. CASE UNCHANGED vars
  BY <1>1, <1>2 DEF vars, menuVars
<1>3. ASSUME NEW u \in Uploads, Upload(u) PROVE UNCHANGED <<add, added>>
  BY <1>3 DEF Upload, Create, Copy, CopyFails, Uploaded, menuVars
<1>4. ASSUME NEW n \in Isos, DeleteISO(n) PROVE UNCHANGED <<add, added>>
  BY <1>4 DEF DeleteISO
<1>5. ASSUME NEW q \in Adds, QuickAdd(q)
      PROVE  InPlay \subseteq InPlay' /\ (added \subseteq Isos)'
  <2>1. /\ \A r \in Adds \ {q} : add'[r] = add[r]
        /\ add[q].iso \in Isos => add'[q].iso = add[q].iso \/ add[q].iso \in added'
        /\ added \subseteq added' /\ added' \subseteq Isos
    <3>1. CASE Analyze(q)
      BY <3>1, NoneAssumption DEF Analyze, MenuTypes, Adding, IdleAdd
    <3>2. CASE CountEntries(q)
      BY <3>2 DEF CountEntries, MenuTypes, Adding, IdleAdd
    <3>3. CASE NumberEntry(q)
      BY <3>3 DEF NumberEntry, MenuTypes, Adding, IdleAdd
    <3>4. CASE PutEntry(q)
      BY <3>4 DEF PutEntry, MenuTypes, Adding, IdleAdd
    <3> QED BY <1>5, <3>1, <3>2, <3>3, <3>4 DEF QuickAdd
  <2> QED BY <2>1 DEF InPlay
<1>6. ASSUME NEW id, EditEntry(id) \/ DeleteEntry(id) PROVE FALSE
  BY <1>6 DEF EditEntry, DeleteEntry
<1> QED BY <1>1, <1>2, <1>3, <1>4, <1>5, <1>6 DEF Next

LEMMA OrderStep ==
  ASSUME MenuTypes, added \subseteq Isos, simple /\ Apart(InPlay) => OrderInv, [Next]_vars
  PROVE  (simple /\ Apart(InPlay) => OrderInv)'
<1> SUFFICES ASSUME simple', Apart(InPlay)' PROVE OrderInv'
  OBVIOUS
<1>0. simple => OrderInv
  BY InPlayGrows DEF Apart, Lookalike
<1>1. ASSUME UNCHANGED <<entries, clock, add, added, simple>> PROVE OrderInv'
  BY <1>0, <1>1 DEF OrderInv, EntryShapes, FirmEntry, Firm, NewSlugs, Slugged, LowOrders, Count
<1>2. CASE UNCHANGED vars
  BY <1>1, <1>2 DEF vars, menuVars
<1>3. ASSUME NEW u \in Uploads, Upload(u) PROVE OrderInv'
  BY <1>1, <1>3 DEF Upload, Create, Copy, CopyFails, Uploaded, menuVars
<1>4. ASSUME NEW n \in Isos, DeleteISO(n) PROVE OrderInv'
  BY <1>1, <1>4 DEF DeleteISO
<1>5. ASSUME NEW q \in Adds, QuickAdd(q) PROVE OrderInv'
  <2>1. simple
    BY <1>5 DEF QuickAdd, Analyze, CountEntries, NumberEntry, PutEntry
  <2> QED BY <1>0, <1>5, <2>1, OrderAnalyze, OrderCount, OrderPut DEF QuickAdd
<1>6. ASSUME NEW id, EditEntry(id) \/ DeleteEntry(id) PROVE FALSE
  BY <1>6 DEF EditEntry, DeleteEntry
<1> QED BY <1>2, <1>3, <1>4, <1>5, <1>6 DEF Next

\* The first entry is the oldest of order 0, and the only one before all others.
Leads(f) ==
  /\ f \in DOMAIN entries /\ entries[f].order = 0
  /\ \A i \in DOMAIN entries \ {f} : Before(entries[f], entries[i])

LEMMA LeaderExists ==
  ASSUME EntryShapes, FirmEntry, DOMAIN entries # {}
  PROVE  \E f : Leads(f)
<1> DEFINE Zero == {id \in DOMAIN entries : entries[id].order = 0}
           Times == {entries[id].created : id \in Zero}
           R == OpToRel(<, Nat)
<1>1. Times \subseteq Nat /\ Times # {}
  BY DEF EntryShapes, FirmEntry, Firm
<1>2. PICK t \in Times : \A s \in Times : ~(<<s, t>> \in R)
  <2> HIDE DEF Times, R
  <2> QED BY <1>1, NatLessThanWellFounded, WFMin DEF R
<1>3. \A s \in Times : ~(s < t)
  BY <1>1, <1>2 DEF OpToRel
<1>4. PICK f \in Zero : entries[f].created = t
  BY <1>2
<1>5. ASSUME NEW i \in DOMAIN entries \ {f} PROVE Before(entries[f], entries[i])
  <2>1. CASE entries[i].order = 0
    <3>1. ~(entries[i].created < entries[f].created)
      BY <1>3, <1>4, <2>1
    <3> QED BY <1>4, <2>1, <3>1 DEF EntryShapes, Before
  <2>2. CASE entries[i].order # 0
    BY <1>4, <2>2 DEF EntryShapes, Before
  <2> QED BY <2>1, <2>2
<1> QED BY <1>4, <1>5 DEF Leads

LEMMA FirstLeads ==
  ASSUME EntryShapes, NEW f, Leads(f)
  PROVE  First = f
<1>1. ASSUME NEW g \in DOMAIN entries, \A i \in DOMAIN entries \ {g} : Before(entries[g], entries[i])
      PROVE  g = f
  BY <1>1 DEF Leads, Before, EntryShapes
<1> QED BY <1>1 DEF First, Leads

LEMMA PutKeepsDefault ==
  ASSUME MenuTypes, Apart(InPlay)', OrderInv, DOMAIN entries # {},
         NEW q \in Adds, PutEntry(q), ~TakesNumber(First)
  PROVE  DefaultEntry' = DefaultEntry
<1>1. PICK f : Leads(f)
  BY LeaderExists DEF OrderInv
<1>2. First = f
  BY <1>1, FirstLeads DEF OrderInv
<1>3. f # add[q].id
  BY <1>1, <1>2, PutFacts DEF Leads, TakesNumber
<1>4. entries'[f] = entries[f]
  BY <1>1, <1>3, PutFacts DEF Leads
<1>5. Leads(f)'
  <2>1. /\ DOMAIN entries' = DOMAIN entries \cup {add[q].id}
        /\ \A i \in DOMAIN entries \ {add[q].id} : entries'[i] = entries[i]
        /\ entries'[add[q].id].order \in Nat /\ entries'[add[q].id].created = clock + 1
    BY PutFacts
  <2>2. Before(entries'[f], entries'[add[q].id])
    BY <1>1, <1>4, <2>1 DEF Leads, Before, OrderInv, EntryShapes
  <2> QED BY <1>1, <1>3, <1>4, <2>1, <2>2 DEF Leads
<1>6. EntryShapes'
  BY OrderPut DEF OrderInv
<1>7. First' = f
  <2>1. ASSUME NEW g \in DOMAIN entries',
               \A i \in DOMAIN entries' \ {g} : Before(entries'[g], entries'[i])
        PROVE  g = f
    BY <1>5, <1>6, <2>1 DEF Leads, Before, EntryShapes
  <2> QED BY <1>5, <2>1 DEF First, Leads
<1> QED BY <1>2, <1>4, <1>7 DEF DefaultEntry

\* Adding further files leaves the entry that boots when nobody chooses what it was, for
\* any number of additions at once, unless a file without a slug is given its number.
THEOREM DefaultKept == Spec => DefaultStays
<1> DEFINE Inv == simple /\ Apart(InPlay) => OrderInv
<1>1. ASSUME MenuTypes, added \subseteq Isos, Inv, Next,
             simple', Apart(InPlay)', DOMAIN entries # {}, ~TakesNumber(First)
      PROVE  DefaultEntry' = DefaultEntry
  <2>1. ASSUME UNCHANGED entries PROVE DefaultEntry' = DefaultEntry
    BY <2>1 DEF DefaultEntry, First, Before
  <2>2. ASSUME NEW q \in Adds, PutEntry(q) PROVE DefaultEntry' = DefaultEntry
    <3>1. simple /\ Apart(InPlay)
      BY <1>1, <2>2, InPlayGrows DEF PutEntry, Apart, Lookalike
    <3> QED BY <1>1, <2>2, <3>1, PutKeepsDefault
  <2>3. ASSUME NEW q \in Adds, QuickAdd(q) PROVE DefaultEntry' = DefaultEntry
    BY <2>1, <2>2, <2>3 DEF QuickAdd, Analyze, CountEntries, NumberEntry
  <2>4. ASSUME NEW u \in Uploads, Upload(u) PROVE DefaultEntry' = DefaultEntry
    BY <2>1, <2>4 DEF Upload, Create, Copy, CopyFails, Uploaded, menuVars
  <2>5. ASSUME NEW n \in Isos, DeleteISO(n) PROVE DefaultEntry' = DefaultEntry
    BY <2>1, <2>5 DEF DeleteISO
  <2>6. ASSUME NEW id, EditEntry(id) \/ DeleteEntry(id) PROVE FALSE
    BY <1>1, <2>6 DEF EditEntry, DeleteEntry
  <2> QED BY <1>1, <2>3, <2>4, <2>5, <2>6 DEF Next
<1>2. Init => Inv /\ added \subseteq Isos
  <2> SUFFICES ASSUME Init PROVE OrderInv /\ added \subseteq Isos
    OBVIOUS
  <2>1. DOMAIN entries = {} /\ clock = 0 /\ added = {} /\ \A q \in Adds : add[q].at = "idle"
    BY DEF Init, EmptyMenu, IdleAdd
  <2> QED BY <2>1 DEF OrderInv, EntryShapes, FirmEntry, NewSlugs, Slugged, LowOrders
<1>3. ASSUME MenuTypes, added \subseteq Isos, Inv, [Next]_vars
      PROVE  [simple' /\ Apart(InPlay)' /\ DOMAIN entries # {} /\ ~TakesNumber(First)
                => DefaultEntry' = DefaultEntry]_vars
  BY <1>1, <1>3, Zenon
<1>4. Init => SlugInv
  BY DEF Init, SlugInv
<1> HIDE DEF Inv
<1>5. ASSUME MenuTypes, added \subseteq Isos, Inv, [Next]_vars PROVE Inv'
  BY <1>5, OrderStep DEF Inv
<1> QED BY <1>2, <1>3, <1>4, <1>5, InitMenu, MenuStep, SlugStep, PTL DEF Spec, DefaultStays
=============================================================================
