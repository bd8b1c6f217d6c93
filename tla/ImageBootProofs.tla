--------------------------- MODULE ImageBootProofs ---------------------------
(***************************************************************************)
(* What the analysis of an ISO file sees, for every image, every size of a *)
(* sector and every depth: the walk reports only files the image has, and  *)
(* all of them where the image is whole and well formed; what is booted    *)
(* from the menu entry follows from that by the theorems on families.      *)
(*                                                                         *)
(* The files a walk has reported and those it still has before it          *)
(* (Reached) are always files of the tree it began with; they are all of   *)
(* them as long as no record of a directory is overlooked, which the order *)
(* of the records within sectors guarantees (NoOverlap, Gap).              *)
(***************************************************************************)
EXTENDS ImageBoot, ImageFamilyProofs, SequenceTheorems

Name == {Clean[x] : x \in DOMAIN Clean}
Paths == Seq(Name)
Recs(m) == {m.record[p] : p \in DOMAIN m.record}
RecordType ==
  [len : Nat \ {0}, short : BOOLEAN, id : DOMAIN Clean, dir : BOOLEAN, lba : Nat, size : Nat]

LEMMA ImageTypes ==
  ASSUME NEW m \in Images
  PROVE  /\ DOMAIN m.record \subseteq Nat
         /\ \A p \in DOMAIN m.record : m.record[p] \in RecordType
         /\ Recs(m) \subseteq RecordType
         /\ Recs(m) \subseteq DirectoriesOf(m)
         /\ \A d : RecordsOf(m, d) \subseteq Recs(m)
         /\ m.sectors \in Nat
         /\ Len(m.volume) \in Nat
         /\ \A i \in 1..Len(m.volume) :
              /\ m.volume[i] \in [type : STRING, lba : Nat, size : Nat]
              /\ m.volume[i] \in DirectoriesOf(m)
<1>1. /\ DOMAIN m.record \subseteq Nat
      /\ \A p \in DOMAIN m.record : m.record[p] \in RecordType
      /\ m.sectors \in Nat /\ m.volume \in Seq([type : STRING, lba : Nat, size : Nat])
  BY ImageAssumption DEF RecordType
<1>2. Recs(m) \subseteq RecordType
  BY <1>1 DEF Recs
<1>3. \A d : RecordsOf(m, d) \subseteq Recs(m)
  BY DEF RecordsOf, RecordsWithin, Recs
<1>4. Recs(m) \subseteq DirectoriesOf(m)
  BY DEF Recs, DirectoriesOf
<1>5. ASSUME NEW i \in 1..Len(m.volume)
      PROVE  /\ m.volume[i] \in [type : STRING, lba : Nat, size : Nat]
             /\ m.volume[i] \in DirectoriesOf(m)
  <2>1. m.volume[i] \in DirectoriesOf(m)
    BY DEF DirectoriesOf
  <2>2. m.volume[i] \in [type : STRING, lba : Nat, size : Nat]
    BY <1>1, ElementOfSeq
  <2> QED BY <2>1, <2>2
<1> QED BY <1>1, <1>2, <1>3, <1>4, <1>5

-----------------------------------------------------------------------------
(* The smallest element of a set of numbers.                               *)

LEMMA SmallestExists ==
  ASSUME NEW S, S \subseteq Nat, S # {}
  PROVE  \E n \in S : \A k \in S : n <= k
<1> DEFINE R == OpToRel(<, Nat)
<1>1. PICK n \in S : \A k \in S : ~(<<k, n>> \in R)
  <2> HIDE DEF R
  <2> QED BY NatLessThanWellFounded, WFMin DEF R
<1>2. \A k \in S : ~(k < n)
  BY <1>1 DEF OpToRel
<1> QED BY <1>2

-----------------------------------------------------------------------------
(* The files below a directory.                                            *)

\* The body of the recursive definition in Below; lower is the level below.
Layer(m, n, lower) ==
  [d \in DirectoriesOf(m) |->
     {<<Clean[r.id]>> : r \in {s \in RecordsOf(m, d) : ~s.dir}} \cup
     (IF n = 0 THEN {}
      ELSE UNION {{<<Clean[r.id]>> \o p : p \in lower[r]} :
                    r \in {s \in RecordsOf(m, d) : s.dir}})]

Level(m, n, f) == Layer(m, n, f[n - 1])

LEMMA LevelOf ==
  ASSUME NEW m, NEW n \in Nat, NEW f, NEW g, n # 0 => f[n - 1] = g[n - 1]
  PROVE  Level(m, n, f) = Level(m, n, g)
<1>1. CASE n = 0
  BY <1>1 DEF Level, Layer
<1>2. CASE n # 0
  BY <1>2 DEF Level
<1> QED BY <1>1, <1>2

LEMMA LevelsExist ==
  ASSUME NEW m, NEW n \in Nat
  PROVE  \E f : f = [k \in 0..n |-> Level(m, k, f)]
<1> DEFINE P(j) == \E f : f = [k \in 0..j |-> Level(m, k, f)]
           S == {j \in Nat : ~P(j)}
<1>1. SUFFICES ASSUME S # {} PROVE FALSE
  OBVIOUS
<1>2. PICK j \in S : \A k \in S : j <= k
  <2> HIDE DEF S
  <2>1. S \subseteq Nat
    BY DEF S
  <2> QED BY <1>1, <2>1, SmallestExists
<1>3. CASE j = 0
  <2> DEFINE f == [k \in 0..0 |-> Level(m, 0, <<>>)]
  <2>1. f = [k \in 0..0 |-> Level(m, k, f)]
    <3>1. ASSUME NEW k \in 0..0 PROVE Level(m, 0, <<>>) = Level(m, k, f)
      <4>1. k = 0
        OBVIOUS
      <4> HIDE DEF f
      <4> QED BY <4>1, LevelOf
    <3> QED BY <3>1
  <2> QED BY <1>2, <1>3, <2>1
<1>4. CASE j # 0
  <2>1. j - 1 \in Nat /\ j - 1 \notin S
    BY <1>2, <1>4
  <2>2. PICK f : f = [k \in 0..(j - 1) |-> Level(m, k, f)]
    BY <2>1
  <2> DEFINE g == [k \in 0..j |-> IF k = j THEN Level(m, j, f) ELSE f[k]]
  <2>3. ASSUME NEW k \in 0..j PROVE g[k] = Level(m, k, g)
    <3>1. k \in Nat /\ (k # 0 => g[k - 1] = f[k - 1])
      BY <2>1
    <3>2. g[k] = Level(m, k, f)
      <4>1. CASE k = j
        BY <4>1
      <4>2. CASE k # j
        BY <2>2, <4>2
      <4> QED BY <4>1, <4>2
    <3> HIDE DEF g
    <3> QED BY <3>1, <3>2, LevelOf
  <2>4. g = [k \in 0..j |-> g[k]]
    OBVIOUS
  <2> HIDE DEF g
  <2>5. g = [k \in 0..j |-> Level(m, k, g)]
    BY <2>3, <2>4
  <2> QED BY <1>2, <2>5
<1> QED BY <1>3, <1>4

LEMMA BelowUnfolds ==
  ASSUME NEW m, NEW n \in 0..DepthLimit
  PROVE  Below(m, Clean)[n] = Level(m, n, Below(m, Clean))
<1>1. DepthLimit \in Nat
  BY SizeAssumption
<1> DEFINE B == CHOOSE f : f = [k \in 0..DepthLimit |-> Level(m, k, f)]
<1>2. B = [k \in 0..DepthLimit |-> Level(m, k, B)]
  BY <1>1, LevelsExist
<1>3. Below(m, Clean) = B
  BY DEF Below, Level, Layer
<1> QED BY <1>2, <1>3

IsBelow(m, n, d, q) ==
  \E r \in RecordsOf(m, d) :
    \/ ~r.dir /\ q = <<Clean[r.id]>>
    \/ r.dir /\ n # 0 /\ \E p \in Below(m, Clean)[n - 1][r] : q = <<Clean[r.id]>> \o p

LEMMA BelowMember ==
  ASSUME NEW m, NEW n \in 0..DepthLimit, NEW d \in DirectoriesOf(m), NEW q
  PROVE  q \in Below(m, Clean)[n][d] <=> IsBelow(m, n, d, q)
<1> DEFINE lower == Below(m, Clean)[n - 1]
           files == {<<Clean[r.id]>> : r \in {s \in RecordsOf(m, d) : ~s.dir}}
           in(r) == {<<Clean[r.id]>> \o p : p \in lower[r]}
           further == UNION {in(r) : r \in {s \in RecordsOf(m, d) : s.dir}}
<1>1. Below(m, Clean)[n][d] = files \cup (IF n = 0 THEN {} ELSE further)
  <2> HIDE DEF lower
  <2>1. Below(m, Clean)[n] = Layer(m, n, lower)
    BY BelowUnfolds DEF Level, lower
  <2> QED BY <2>1, Zenon DEF Layer
<1>2. q \in files <=> \E r \in RecordsOf(m, d) : ~r.dir /\ q = <<Clean[r.id]>>
  OBVIOUS
<1>3. \A r : q \in in(r) <=> \E p \in lower[r] : q = <<Clean[r.id]>> \o p
  OBVIOUS
<1> HIDE DEF in
<1>4. q \in further <=> \E r \in RecordsOf(m, d) : r.dir /\ q \in in(r)
  OBVIOUS
<1> HIDE DEF files, further, lower
<1>5. q \in Below(m, Clean)[n][d] <=>
        \/ \E r \in RecordsOf(m, d) : ~r.dir /\ q = <<Clean[r.id]>>
        \/ n # 0 /\ \E r \in RecordsOf(m, d) : r.dir /\ \E p \in lower[r] : q = <<Clean[r.id]>> \o p
  BY <1>1, <1>2, <1>3, <1>4, Zenon
<1> QED BY <1>5, Zenon DEF IsBelow, lower

LEMMA BelowType ==
  ASSUME NEW m \in Images, NEW n \in 0..DepthLimit
  PROVE  \A d \in DirectoriesOf(m) : Below(m, Clean)[n][d] \subseteq Paths
<1> DEFINE P(j) == \A d \in DirectoriesOf(m) : Below(m, Clean)[j][d] \subseteq Paths
           S == {j \in 0..DepthLimit : ~P(j)}
<1>1. SUFFICES ASSUME S # {} PROVE FALSE
  OBVIOUS
<1>2. PICK j \in S : \A k \in S : j <= k
  <2> HIDE DEF P
  <2>1. S \subseteq Nat
    BY SizeAssumption
  <2> HIDE DEF S
  <2> QED BY <1>1, <2>1, SmallestExists
<1>3. j \in 0..DepthLimit /\ j \in Nat
  BY SizeAssumption
<1>4. ASSUME NEW d \in DirectoriesOf(m), NEW q \in Below(m, Clean)[j][d] PROVE q \in Paths
  <2>1. PICK r \in RecordsOf(m, d) :
          \/ ~r.dir /\ q = <<Clean[r.id]>>
          \/ r.dir /\ j # 0 /\ \E p \in Below(m, Clean)[j - 1][r] : q = <<Clean[r.id]>> \o p
    <3>1. IsBelow(m, j, d, q)
      BY <1>3, BelowMember
    <3> QED BY <3>1, Zenon DEF IsBelow
  <2>2. Clean[r.id] \in Name /\ r \in DirectoriesOf(m)
    BY ImageTypes DEF Name, RecordType
  <2>3. <<Clean[r.id]>> \in Paths
    BY <2>2 DEF Paths
  <2>4. ASSUME j # 0, NEW p \in Below(m, Clean)[j - 1][r], q = <<Clean[r.id]>> \o p PROVE q \in Paths
    <3>1. j - 1 \in 0..DepthLimit /\ ~(j <= j - 1)
      BY <1>3, <2>4, SizeAssumption
    <3>2. j - 1 \notin S
      <4> HIDE DEF S
      <4> QED BY <1>2, <3>1
    <3>3. P(j - 1)
      BY <3>1, <3>2
    <3>4. p \in Paths
      BY <2>2, <2>4, <3>3
    <3> QED BY <2>3, <2>4, <3>4, ConcatProperties DEF Paths
  <2> QED BY <2>1, <2>3, <2>4
<1>5. P(j)
  BY <1>4
<1> QED BY <1>2, <1>5

\* The files in directory d, which is reached by path, and below; what one of the
\* records of such a directory stands for.
Content(m, path, d) ==
  IF Len(path) > DepthLimit THEN {}
  ELSE {path \o q : q \in Below(m, Clean)[DepthLimit - Len(path)][d]}

FromEntry(m, path, r) ==
  IF r.dir THEN Content(m, Append(path, Clean[r.id]), r) ELSE {Append(path, Clean[r.id])}

Entries(m, path, d) ==
  IF Len(path) > DepthLimit THEN {} ELSE UNION {FromEntry(m, path, r) : r \in RecordsOf(m, d)}

LEMMA ContentIsEntries ==
  ASSUME NEW m \in Images, NEW path \in Paths, NEW d \in DirectoriesOf(m)
  PROVE  Content(m, path, d) = Entries(m, path, d)
<1>0. Len(path) \in Nat /\ DepthLimit \in Nat
  BY SizeAssumption DEF Paths
<1>1. CASE Len(path) > DepthLimit
  BY <1>1 DEF Content, Entries
<1>2. CASE ~(Len(path) > DepthLimit)
  <2> DEFINE n == DepthLimit - Len(path)
  <2>1. n \in 0..DepthLimit
    BY <1>0, <1>2
  <2>2. ASSUME NEW r \in RecordsOf(m, d)
        PROVE  /\ r \in DirectoriesOf(m) /\ Clean[r.id] \in Name /\ r.dir \in BOOLEAN
               /\ Append(path, Clean[r.id]) \in Paths
               /\ Len(Append(path, Clean[r.id])) = Len(path) + 1
               /\ path \o <<Clean[r.id]>> = Append(path, Clean[r.id])
               /\ \A p \in Paths : path \o (<<Clean[r.id]>> \o p) = Append(path, Clean[r.id]) \o p
    <3>1. r \in DirectoriesOf(m) /\ Clean[r.id] \in Name /\ r.dir \in BOOLEAN
      BY ImageTypes DEF Name, RecordType
    <3> DEFINE c == Clean[r.id]
    <3> HIDE DEF c
    <3>2. c \in Name
      BY <3>1 DEF c
    <3>3. /\ Append(path, c) \in Paths /\ Len(Append(path, c)) = Len(path) + 1
          /\ path \o <<c>> = Append(path, c)
      BY <3>2, AppendProperties, AppendIsConcat DEF Paths
    <3>4. \A p \in Paths : path \o (<<c>> \o p) = Append(path, c) \o p
      <4> TAKE p \in Paths
      <4>1. <<c>> \in Seq(Name)
        BY <3>2
      <4>2. path \o (<<c>> \o p) = (path \o <<c>>) \o p
        BY <4>1, ConcatAssociative DEF Paths
      <4> QED BY <3>3, <4>2
    <3> QED BY <3>1, <3>3, <3>4 DEF c
  <2>3. ASSUME NEW x \in Content(m, path, d) PROVE x \in Entries(m, path, d)
    <3>1. PICK q \in Below(m, Clean)[n][d] : x = path \o q
      BY <1>2 DEF Content
    <3>2. PICK r \in RecordsOf(m, d) :
            \/ ~r.dir /\ q = <<Clean[r.id]>>
            \/ r.dir /\ n # 0 /\ \E p \in Below(m, Clean)[n - 1][r] : q = <<Clean[r.id]>> \o p
      <4>1. IsBelow(m, n, d, q)
        BY <2>1, <3>1, BelowMember
      <4> QED BY <4>1, Zenon DEF IsBelow
    <3>3. x \in FromEntry(m, path, r)
      <4>1. CASE ~r.dir /\ q = <<Clean[r.id]>>
        BY <2>2, <3>1, <4>1 DEF FromEntry
      <4>2. CASE r.dir /\ n # 0 /\ \E p \in Below(m, Clean)[n - 1][r] : q = <<Clean[r.id]>> \o p
        <5>1. PICK p \in Below(m, Clean)[n - 1][r] : q = <<Clean[r.id]>> \o p
          BY <4>2
        <5>2. p \in Paths
          <6>1. n - 1 \in 0..DepthLimit
            BY <1>0, <2>1, <4>2
          <6> QED BY <2>2, <6>1, BelowType
        <5>3. x = Append(path, Clean[r.id]) \o p
          BY <2>2, <3>1, <5>1, <5>2
        <5>4. DepthLimit - Len(Append(path, Clean[r.id])) = n - 1
              /\ ~(Len(Append(path, Clean[r.id])) > DepthLimit)
          BY <1>0, <2>1, <2>2, <4>2
        <5> QED BY <4>2, <5>3, <5>4 DEF FromEntry, Content
      <4> QED BY <3>2, <4>1, <4>2
    <3> QED BY <1>2, <3>3 DEF Entries
  <2>4. ASSUME NEW x \in Entries(m, path, d) PROVE x \in Content(m, path, d)
    <3>1. PICK r \in RecordsOf(m, d) : x \in FromEntry(m, path, r)
      BY <1>2, <2>4 DEF Entries
    <3>2. \E q \in Below(m, Clean)[n][d] : x = path \o q
      <4>1. CASE ~r.dir
        <5>1. x = path \o <<Clean[r.id]>>
          BY <2>2, <3>1, <4>1 DEF FromEntry
        <5>2. IsBelow(m, n, d, <<Clean[r.id]>>)
          BY <4>1, Zenon DEF IsBelow
        <5>3. <<Clean[r.id]>> \in Below(m, Clean)[n][d]
          BY <2>1, <5>2, BelowMember
        <5> QED BY <5>1, <5>3
      <4>2. CASE r.dir
        <5>1. /\ ~(Len(path) + 1 > DepthLimit)
              /\ \E p \in Below(m, Clean)[DepthLimit - (Len(path) + 1)][r] : x = Append(path, Clean[r.id]) \o p
          BY <2>2, <3>1, <4>2 DEF FromEntry, Content
        <5>2. n # 0 /\ n - 1 = DepthLimit - (Len(path) + 1) /\ n - 1 \in 0..DepthLimit
          BY <1>0, <2>1, <5>1
        <5>3. PICK p \in Below(m, Clean)[n - 1][r] : x = Append(path, Clean[r.id]) \o p
          BY <5>1, <5>2
        <5>4. p \in Paths
          BY <2>2, <5>2, BelowType
        <5>5. x = path \o (<<Clean[r.id]>> \o p)
          BY <2>2, <5>3, <5>4
        <5>6. IsBelow(m, n, d, <<Clean[r.id]>> \o p)
          BY <4>2, <5>2, Zenon DEF IsBelow
        <5>7. <<Clean[r.id]>> \o p \in Below(m, Clean)[n][d]
          BY <2>1, <5>6, BelowMember
        <5> QED BY <5>5, <5>7
      <4> QED BY <2>2, <4>1, <4>2
    <3> QED BY <1>2, <3>2 DEF Content
  <2> QED BY <2>3, <2>4
<1> QED BY <1>1, <1>2

-----------------------------------------------------------------------------
(* Sectors.                                                                *)

LEMMA DivMod ==
  ASSUME NEW a \in Nat, NEW M \in Nat \ {0}
  PROVE  a = M * (a \div M) + (a % M) /\ a \div M \in Nat /\ a % M \in 0..(M - 1)
OBVIOUS

LEMMA MultAtLeast ==
  ASSUME NEW x \in Int, NEW M \in Nat \ {0}, x >= 1
  PROVE  M * x >= M
OBVIOUS

LEMMA DivUnique ==
  ASSUME NEW a \in Nat, NEW M \in Nat \ {0}, NEW k \in Nat, NEW r \in 0..(M - 1), a = M * k + r
  PROVE  a \div M = k /\ a % M = r
<1> DEFINE p == a \div M
           t == a % M
<1>1. a = M * p + t /\ p \in Nat /\ t \in 0..(M - 1)
  BY DivMod
<1> HIDE DEF p, t
<1>2. M * p \in Int /\ M * k \in Int
  BY <1>1
<1>3. M * p - M * k = r - t
  BY <1>1, <1>2
<1>4. M * (p - k) = M * p - M * k /\ M * (k - p) = M * k - M * p
  BY <1>1
<1>5. ~(p - k >= 1)
  BY <1>1, <1>3, <1>4, MultAtLeast
<1>6. ~(k - p >= 1)
  <2> SUFFICES ASSUME k - p >= 1 PROVE FALSE
    OBVIOUS
  <2>1. M * (k - p) >= M
    BY <1>1, MultAtLeast
  <2> QED BY <2>1, <1>1, <1>2, <1>3, <1>4
<1>7. p = k
  BY <1>1, <1>5, <1>6
<1> QED BY <1>1, <1>2, <1>3, <1>7 DEF p, t

\* The end of the sector that x is in.
End(x) == (x \div SectorSize + 1) * SectorSize

LEMMA SectorFacts ==
  ASSUME NEW x \in Nat
  PROVE  /\ End(x) \in Nat /\ x < End(x) /\ End(x) % SectorSize = 0
         /\ x % SectorSize \in Nat /\ End(x) = x - (x % SectorSize) + SectorSize
         /\ \A y \in Nat : y > x /\ y % SectorSize = 0 => y >= End(x)
         /\ \A l \in Nat : /\ l * SectorSize \in Nat
                           /\ (l * SectorSize + x) % SectorSize = x % SectorSize
                           /\ End(l * SectorSize + x) = l * SectorSize + End(x)
<1> DEFINE S == SectorSize
           q == x \div SectorSize
           r == x % SectorSize
<1>0. S \in Nat \ {0}
  BY SizeAssumption
<1> HIDE DEF S
<1>1. x = S * q + r /\ q \in Nat /\ r \in 0..(S - 1)
  BY <1>0, DivMod DEF S
<1>2. End(x) = S * q + S /\ S * q \in Nat
  BY <1>0, <1>1 DEF End, S
<1>3. End(x) % S = 0 /\ End(x) \in Nat
  <2>1. End(x) = S * (q + 1) + 0 /\ q + 1 \in Nat /\ 0 \in 0..(S - 1) /\ End(x) \in Nat
    BY <1>0, <1>1, <1>2
  <2> HIDE DEF q
  <2> QED BY <1>0, <2>1, DivUnique
<1> HIDE DEF q, r
<1>4. ASSUME NEW y \in Nat, y > x, y % S = 0 PROVE y >= End(x)
  <2>1. PICK k \in Nat : y = S * k
    <3>1. y = S * (y \div S) + (y % S) /\ y \div S \in Nat
      BY <1>0, DivMod
    <3>2. S * (y \div S) \in Nat
      BY <1>0, <3>1
    <3> QED BY <1>4, <3>1, <3>2
  <2>2. k >= q + 1
    <3> SUFFICES ASSUME q - k >= 0 PROVE FALSE
      BY <1>1
    <3>1. S * (q - k) >= 0 /\ S * (q - k) = S * q - S * k
      BY <1>0, <1>1
    <3>2. S * k \in Nat
      BY <1>0
    <3> QED BY <1>1, <1>2, <1>4, <2>1, <3>1, <3>2
  <2>3. S * (k - (q + 1)) >= 0 /\ S * (k - (q + 1)) = S * k - S * q - S
    BY <1>0, <1>1, <2>2
  <2>4. S * k \in Nat
    BY <1>0
  <2> QED BY <1>0, <1>2, <2>1, <2>3, <2>4
<1>5. ASSUME NEW l \in Nat
      PROVE  /\ l * S \in Nat
             /\ (l * S + x) % S = x % S
             /\ End(l * S + x) = l * S + End(x)
  <2>1. l * S \in Nat /\ l + q \in Nat /\ l * S + x \in Nat /\ S * (l + q) = l * S + S * q
    BY <1>0, <1>1
  <2>2. l * S + x = S * (l + q) + r
    BY <1>0, <1>1, <1>2, <2>1
  <2>3. (l * S + x) \div S = l + q /\ (l * S + x) % S = r
    BY <1>0, <1>1, <2>1, <2>2, DivUnique
  <2>4. End(l * S + x) = (l + q + 1) * S
    BY <2>3 DEF End, S
  <2>5. (l + q + 1) * S = l * S + S * q + S
    BY <1>0, <1>1
  <2>6. End(l * S + x) = l * S + End(x)
    BY <1>0, <1>2, <2>1, <2>4, <2>5
  <2>7. (l * S + x) % S = x % S
    BY <2>3 DEF r, S
  <2> QED BY <2>1, <2>6, <2>7
<1>6. x < End(x) /\ r \in Nat /\ End(x) = x - r + S
  BY <1>0, <1>1, <1>2
<1>7. x % S \in Nat /\ End(x) = x - (x % S) + S
  BY <1>6 DEF r, S
<1> QED BY <1>3, <1>4, <1>5, <1>6, <1>7, Zenon DEF S

LEMMA FitsSector ==
  ASSUME NEW x \in Nat, NEW n \in Nat, (x % SectorSize) + n <= SectorSize
  PROVE  x + n <= End(x)
<1> DEFINE r == x % SectorSize
<1>1. End(x) = x - r + SectorSize /\ r \in Nat
  BY SectorFacts
<1>2. r + n <= SectorSize
  OBVIOUS
<1> HIDE DEF r
<1> QED BY <1>1, <1>2, SizeAssumption

\* The records of a well formed directory do not overlap.
LEMMA NoOverlap ==
  ASSUME NEW m \in Images, NEW d, DirectoryWellFormed(m, d),
         NEW a \in RecordsWithin(m, d), NEW b \in RecordsWithin(m, d), a < b
  PROVE  a + m.record[a].len <= b
<1> DEFINE D == RecordsWithin(m, d)
           S == {y \in D : \E x \in D : x < y /\ y < x + m.record[x].len}
<1>1. D \subseteq Nat /\ \A x \in D : m.record[x].len \in Nat \ {0}
  BY ImageTypes DEF RecordsWithin, RecordType
<1>2. SUFFICES ASSUME S # {} PROVE FALSE
  BY <1>1
<1>3. PICK y \in S : \A z \in S : y <= z
  <2>1. S \subseteq Nat
    BY <1>1
  <2> HIDE DEF S
  <2> QED BY <1>2, <2>1, SmallestExists
<1>4. PICK x \in D : x < y /\ y < x + m.record[x].len
  BY <1>3
<1>5. y \in D /\ y \in Nat /\ x \in Nat /\ m.record[x].len \in Nat
  BY <1>1, <1>3, <1>4
<1>6. x + m.record[x].len <= End(x)
  <2>1. (x % SectorSize) + m.record[x].len <= SectorSize
    BY <1>4 DEF DirectoryWellFormed
  <2> QED BY <1>5, <2>1, FitsSector
<1>7. y % SectorSize # 0
  <2>1. End(x) \in Nat /\ (y % SectorSize = 0 => y >= End(x))
    BY <1>4, <1>5, SectorFacts
  <2> QED BY <1>4, <1>5, <1>6, <2>1
<1>8. PICK z \in D : z + m.record[z].len = y
  BY <1>5, <1>7 DEF DirectoryWellFormed
<1>9. z \in Nat /\ m.record[z].len \in Nat \ {0}
  BY <1>1
<1>10. CASE z = x
  BY <1>4, <1>5, <1>8, <1>9, <1>10
<1>11. CASE z < x
  <2>1. x \in S
    BY <1>4, <1>8, <1>11
  <2> HIDE DEF S
  <2> QED BY <1>3, <1>4, <1>5, <2>1
<1>12. CASE x < z
  <2>1. z < y
    BY <1>5, <1>8, <1>9
  <2>2. z \in S
    BY <1>4, <1>5, <1>9, <1>12, <2>1
  <2> HIDE DEF S
  <2> QED BY <1>3, <1>5, <1>9, <2>1, <2>2
<1> QED BY <1>5, <1>9, <1>10, <1>11, <1>12

\* Where a record may begin and none does, none begins before the next sector.
Aligned(m, d, x) ==
  x % SectorSize = 0 \/ \E q \in RecordsWithin(m, d) : q + m.record[q].len = x

LEMMA Gap ==
  ASSUME NEW m \in Images, NEW d, DirectoryWellFormed(m, d),
         NEW x \in Nat, Aligned(m, d, x), x \notin RecordsWithin(m, d),
         NEW p \in RecordsWithin(m, d), x < p
  PROVE  End(x) <= p
<1> DEFINE D == RecordsWithin(m, d)
           S == {y \in D : x < y /\ y < End(x)}
<1>1. D \subseteq Nat /\ \A z \in D : m.record[z].len \in Nat \ {0}
  BY ImageTypes DEF RecordsWithin, RecordType
<1>2. SUFFICES ASSUME S # {} PROVE FALSE
  BY <1>1, SectorFacts
<1>3. PICK y \in S : \A z \in S : y <= z
  <2>1. S \subseteq Nat
    BY <1>1
  <2> HIDE DEF S
  <2> QED BY <1>2, <2>1, SmallestExists
<1>4. y \in D /\ y \in Nat /\ x < y /\ y < End(x)
  BY <1>1, <1>3
<1>5. y % SectorSize # 0
  BY <1>4, SectorFacts
<1>6. PICK q \in D : q + m.record[q].len = y
  BY <1>4, <1>5 DEF DirectoryWellFormed
<1>7. q \in Nat /\ m.record[q].len \in Nat \ {0} /\ q < y
  BY <1>1, <1>4, <1>6
<1>8. q # x
  OBVIOUS
<1>9. ~(x < q)
  <2> SUFFICES ASSUME x < q PROVE FALSE
    OBVIOUS
  <2>1. q \in S
    BY <1>4, <1>7, SectorFacts
  <2> HIDE DEF S
  <2> QED BY <1>3, <1>4, <1>7, <2>1
<1>10. q < x
  BY <1>7, <1>8, <1>9
<1>11. x % SectorSize # 0
  <2>1. y <= End(q)
    <3>1. (q % SectorSize) + m.record[q].len <= SectorSize
      BY <1>6 DEF DirectoryWellFormed
    <3> QED BY <1>6, <1>7, <3>1, FitsSector
  <2>2. End(q) \in Nat
    BY <1>7, SectorFacts
  <2> QED BY <1>4, <1>7, <1>10, <2>1, <2>2, SectorFacts
<1>12. PICK r \in D : r + m.record[r].len = x
  BY <1>11 DEF Aligned
<1>13. r \in Nat /\ m.record[r].len \in Nat \ {0}
  BY <1>1
<1>14. CASE r = q
  BY <1>4, <1>6, <1>12, <1>14
<1>15. CASE r < q
  <2>1. x <= q
    BY <1>12, <1>15, NoOverlap
  <2> QED BY <1>7, <1>10, <2>1
<1>16. CASE q < r
  <2>1. y <= r
    BY <1>6, <1>16, NoOverlap
  <2> QED BY <1>4, <1>12, <1>13, <2>1
<1> QED BY <1>7, <1>13, <1>14, <1>15, <1>16

-----------------------------------------------------------------------------
(* The inductive invariant.                                                *)

LevelType(m) == [path : Paths, todo : Seq(Recs(m))]

TodoOf(m, e) == UNION {FromEntry(m, e.path, e.todo[j]) : j \in 1..Len(e.todo)}
PendingOf(m, st) == UNION {TodoOf(m, st[k]) : k \in 1..Len(st)}

\* The files reported, and those of the directory being read and of the records that are
\* still to be visited.
Reached ==
  seen \cup PendingOf(image, stack)
    \cup (IF at = "read" THEN Entries(image, dir.path, dir) ELSE {})

ReaderType ==
  /\ image \in Images /\ present \in 0..image.sectors
  /\ whole \in BOOLEAN /\ (whole => present = image.sectors)
  /\ at \in {"open", "read", "walk", "closed", "refused", "died"}
  /\ dir \in [lba : Nat, size : Nat, pos : Nat, path : Paths, out : Seq(Recs(image))]
  /\ stack \in Seq(LevelType(image))
  /\ at \in {"open", "refused"} => seen = {}
  /\ at \in {"open", "refused", "closed"} => stack = <<>>

\* Level k of the stack holds a directory k - 1 steps below the root, and nothing to visit
\* below the depth limit.
StackInv ==
  /\ \A k \in 1..Len(stack) :
       /\ Len(stack[k].path) = k - 1
       /\ stack[k].todo # <<>> => k - 1 <= DepthLimit
  /\ at = "read" => Len(dir.path) = Len(stack)

\* What readDir has found in the part it has read.
ListedSoFar == {dir.out[j] : j \in 1..Len(dir.out)}
DirInv ==
  at = "read" =>
    /\ ListedSoFar \subseteq RecordsOf(image, dir)
    /\ whole /\ WellFormed(image) =>
         /\ DirectoryWellFormed(image, dir)
         /\ Aligned(image, dir, Here)
         /\ \A p \in RecordsWithin(image, dir) :
              p < Here /\ ~Passed(image.record[p]) => image.record[p] \in ListedSoFar

WalkInv ==
  at \notin {"open", "refused"} =>
    \E i \in 1..Len(image.volume) :
      /\ Reached \subseteq FilesWithin(image, Clean)[image.volume[i]]
      /\ whole /\ WellFormed(image) =>
           /\ image.volume[i] = FullRoot(image)
           /\ at # "died" => Reached = FilesWithin(image, Clean)[image.volume[i]]

ReaderInv == ReaderType /\ StackInv /\ DirInv /\ WalkInv

\* The family is that of the files reported; the outcome is that of its recipe.
EntryInv ==
  /\ family # "none" => at = "closed" /\ family = Family(seen, image.label)
  /\ outcome # "none" => family # "none" /\ outcome = Outcome(family, GrubFiles)


-----------------------------------------------------------------------------
(* What is pending, as the stack grows and shrinks.                        *)

LEMMA TodoTail ==
  ASSUME NEW m, NEW T, NEW e, e.todo \in Seq(T), e.todo # <<>>,
         NEW f, f.path = e.path, f.todo = Tail(e.todo)
  PROVE  TodoOf(m, e) = FromEntry(m, e.path, Head(e.todo)) \cup TodoOf(m, f)
<1> DEFINE s == e.todo
           t == f.todo
           F(r) == FromEntry(m, e.path, r)
<1>1. /\ Len(s) \in Nat \ {0} /\ Len(t) = Len(s) - 1 /\ Head(s) = s[1]
      /\ \A j \in 1..Len(t) : t[j] = s[j + 1]
  BY HeadTailProperties, EmptySeq, LenProperties
<1>2. /\ TodoOf(m, e) = UNION {F(s[j]) : j \in 1..Len(s)}
      /\ TodoOf(m, f) = UNION {F(t[j]) : j \in 1..Len(t)}
  BY DEF TodoOf
<1> HIDE DEF s, t, F
<1>3. ASSUME NEW x PROVE x \in TodoOf(m, e) => x \in F(s[1]) \cup TodoOf(m, f)
  <2> SUFFICES ASSUME NEW j \in 1..Len(s), x \in F(s[j]), j # 1 PROVE x \in TodoOf(m, f)
    BY <1>2
  <2>1. j - 1 \in 1..Len(t) /\ t[j - 1] = s[j]
    BY <1>1
  <2> QED BY <1>2, <2>1
<1>4. ASSUME NEW x PROVE x \in F(s[1]) \cup TodoOf(m, f) => x \in TodoOf(m, e)
  <2>1. 1 \in 1..Len(s) /\ \A j \in 1..Len(t) : j + 1 \in 1..Len(s)
    BY <1>1
  <2> QED BY <1>1, <1>2, <2>1
<1>5. TodoOf(m, e) = F(s[1]) \cup TodoOf(m, f)
  BY <1>3, <1>4
<1> QED BY <1>1, <1>5 DEF F, s

LEMMA AppendPending ==
  ASSUME NEW m, NEW T, NEW st \in Seq(T), NEW e \in T
  PROVE  PendingOf(m, Append(st, e)) = PendingOf(m, st) \cup TodoOf(m, e)
<1> DEFINE s == Append(st, e)
           F(r) == TodoOf(m, r)
<1>1. /\ Len(st) \in Nat /\ Len(s) = Len(st) + 1 /\ s[Len(st) + 1] = e
      /\ \A j \in 1..Len(st) : s[j] = st[j]
  BY AppendProperties, LenProperties
<1>2. /\ PendingOf(m, s) = UNION {F(s[j]) : j \in 1..Len(s)}
      /\ PendingOf(m, st) = UNION {F(st[j]) : j \in 1..Len(st)}
  BY DEF PendingOf
<1> HIDE DEF s, F
<1>3. ASSUME NEW x PROVE x \in PendingOf(m, s) <=> x \in PendingOf(m, st) \cup F(e)
  <2>1. \A j : j \in 1..Len(s) <=> j \in 1..Len(st) \/ j = Len(st) + 1
    BY <1>1
  <2> QED BY <1>1, <1>2, <2>1
<1>4. PendingOf(m, s) = PendingOf(m, st) \cup F(e)
  BY <1>3
<1> QED BY <1>4 DEF s, F

LEMMA LastPending ==
  ASSUME NEW m, NEW T, NEW st \in Seq(T), st # <<>>
  PROVE  PendingOf(m, st) =
           PendingOf(m, SubSeq(st, 1, Len(st) - 1)) \cup TodoOf(m, st[Len(st)])
<1> DEFINE n == Len(st)
           s == SubSeq(st, 1, n - 1)
<1>1. n \in Nat \ {0}
  BY EmptySeq, LenProperties
<1>2. s \in Seq(T) /\ st[n] \in T /\ st = Append(s, st[n])
  <2>1. s \in Seq(T) /\ Len(s) = n - 1 /\ \A j \in 1..(n - 1) : s[j] = st[j]
    <3>1. 1 \in Int /\ n - 1 \in Int /\ \A j \in 1..(n - 1) : st[j] \in T
      BY <1>1, ElementOfSeq
    <3> HIDE DEF n
    <3>2. /\ s \in Seq(T) /\ Len(s) = (IF 1 <= n - 1 THEN (n - 1) - 1 + 1 ELSE 0)
          /\ \A j \in 1..((n - 1) - 1 + 1) : s[j] = st[1 + j - 1]
      BY <3>1, SubSeqProperties
    <3>3. \A j \in 1..(n - 1) : j \in 1..((n - 1) - 1 + 1) /\ 1 + j - 1 = j
      BY <1>1
    <3> QED BY <1>1, <3>2, <3>3
  <2>2. st[n] \in T
    BY <1>1, ElementOfSeq
  <2> HIDE DEF s, n
  <2>3. Append(s, st[n]) \in Seq(T) /\ Len(Append(s, st[n])) = n
        /\ \A j \in 1..n : Append(s, st[n])[j] = st[j]
    BY <1>1, <2>1, <2>2, AppendProperties
  <2> QED BY <2>1, <2>2, <2>3, SeqEqual DEF n
<1> HIDE DEF s, n
<1>3. PendingOf(m, Append(s, st[n])) = PendingOf(m, s) \cup TodoOf(m, st[n])
  <2>1. \A u \in Seq(T), e \in T : PendingOf(m, Append(u, e)) = PendingOf(m, u) \cup TodoOf(m, e)
    BY AppendPending
  <2> QED BY <1>2, <2>1, Zenon
<1>4. PendingOf(m, st) = PendingOf(m, s) \cup TodoOf(m, st[n])
  BY <1>2, <1>3
<1> QED BY <1>4 DEF s, n

\* One record of the last level visited.
LEMMA VisitPending ==
  ASSUME NEW m, NEW st \in Seq(LevelType(m)), st # <<>>, st[Len(st)].todo # <<>>
  PROVE  LET n == Len(st)
             visited == [st EXCEPT ![n].todo = Tail(@)]
         IN  /\ visited \in Seq(LevelType(m)) /\ Len(visited) = n
             /\ \A k \in 1..n : visited[k].path = st[k].path
             /\ \A k \in 1..n : k # n => visited[k] = st[k]
             /\ visited[n].todo = Tail(st[n].todo)
             /\ Head(st[n].todo) \in Recs(m) /\ st[n].path \in Paths
             /\ PendingOf(m, st) =
                  PendingOf(m, visited) \cup FromEntry(m, st[n].path, Head(st[n].todo))
<1> DEFINE n == Len(st)
           top == [st[n] EXCEPT !.todo = Tail(@)]
           visited == [st EXCEPT ![n] = top]
           s == SubSeq(st, 1, n - 1)
<1>1. n \in 1..n /\ n \in Nat /\ st[n] \in LevelType(m)
  BY EmptySeq, LenProperties, ElementOfSeq
<1>2. visited = [st EXCEPT ![n].todo = Tail(@)]
  OBVIOUS
<1>3. /\ st[n].path \in Paths /\ st[n].todo \in Seq(Recs(m))
      /\ top \in LevelType(m) /\ top.path = st[n].path /\ top.todo = Tail(st[n].todo)
      /\ Head(st[n].todo) \in Recs(m)
  <2>1. st[n].path \in Paths /\ st[n].todo \in Seq(Recs(m))
    BY <1>1 DEF LevelType
  <2>2. Tail(st[n].todo) \in Seq(Recs(m)) /\ Head(st[n].todo) \in Recs(m)
    BY <2>1, HeadTailProperties
  <2> QED BY <1>1, <2>1, <2>2 DEF LevelType
<1>4. TodoOf(m, st[n]) = FromEntry(m, st[n].path, Head(st[n].todo)) \cup TodoOf(m, top)
  <2> HIDE DEF n, top
  <2> QED BY <1>3, TodoTail DEF n
<1>5. /\ visited \in Seq(LevelType(m)) /\ Len(visited) = n
      /\ \A k \in 1..n : visited[k] = IF k = n THEN top ELSE st[k]
  BY <1>1, <1>3, ExceptSeq
<1>6. SubSeq(visited, 1, n - 1) = s
  <2> HIDE DEF visited, n, top
  <2>1. \A k \in 1..(n - 1) : visited[k] = st[k]
    BY <1>1, <1>5
  <2>2. n - 1 = Len(s) /\ n - 1 = Len(SubSeq(visited, 1, n - 1))
    BY <1>1
  <2> QED BY <1>1, <2>1
<1>7. visited # <<>> /\ visited[n] = top
  BY <1>1, <1>5
<1> HIDE DEF visited, top, n
<1>8. PendingOf(m, visited) = PendingOf(m, s) \cup TodoOf(m, top)
  BY <1>5, <1>6, <1>7, LastPending, Zenon
<1> HIDE DEF s
<1>9. PendingOf(m, st) = PendingOf(m, s) \cup TodoOf(m, st[n])
  BY LastPending, Zenon DEF n, s
<1>10. PendingOf(m, st) = PendingOf(m, visited) \cup FromEntry(m, st[n].path, Head(st[n].todo))
  BY <1>4, <1>8, <1>9
<1>11. \A k \in 1..n : visited[k].path = st[k].path /\ (k # n => visited[k] = st[k])
  BY <1>3, <1>5
<1>12. visited[n].todo = Tail(st[n].todo)
  BY <1>3, <1>7
<1>13. [st EXCEPT ![n].todo = Tail(@)] = visited
  BY <1>2
<1> QED BY <1>3, <1>5, <1>10, <1>11, <1>12, <1>13 DEF n

-----------------------------------------------------------------------------
(* The root.                                                               *)

LEMMA LatestIsFound ==
  ASSUME image \in Images, NEW type, Found(type) # {}
  PROVE  \E i \in Found(type) : Latest(type) = image.volume[i]
<1> DEFINE n == Len(image.volume)
           S == {k \in 0..n : n - k \in Found(type)}
<1>1. n \in Nat /\ Found(type) \subseteq 1..n
  BY ImageTypes DEF Found, Scanned
<1> HIDE DEF n
<1>2. PICK k \in S : \A l \in S : k <= l
  <2>1. PICK i \in Found(type) : TRUE
    OBVIOUS
  <2>2. i \in 1..n /\ n - (n - i) = i /\ n - i \in 0..n
    BY <1>1, <2>1
  <2>3. n - i \in S
    BY <2>1, <2>2
  <2>4. S \subseteq Nat /\ S # {}
    BY <1>1, <2>3
  <2> HIDE DEF S
  <2> QED BY <2>4, SmallestExists
<1>3. \A j \in Found(type) : j <= n - k
  <2> TAKE j \in Found(type)
  <2>1. j \in 1..n /\ n - (n - j) = j /\ n - j \in 0..n
    BY <1>1
  <2>2. k <= n - j
    BY <1>2, <2>1
  <2> QED BY <1>1, <1>2, <2>1, <2>2
<1>4. n - k \in Found(type)
  BY <1>2
<1>5. (CHOOSE i \in Found(type) : \A j \in Found(type) : j <= i) \in Found(type)
  BY <1>3, <1>4
<1> QED BY <1>5 DEF Latest

LEMMA RootFacts ==
  ASSUME image \in Images, HasRoot
  PROVE  /\ \E i \in 1..Len(image.volume) :
              Root = image.volume[i] /\ image.volume[i].type \in {"primary", "joliet"}
         /\ present = image.sectors /\ VolumesWellFormed(image) => Root = FullRoot(image)
<1> DEFINE n == Len(image.volume)
           v(i) == image.volume[i]
<1>0. n \in Nat /\ \A type : Found(type) = {i \in Scanned : v(i).type = type}
  BY ImageTypes DEF Found
<1>1. Scanned \subseteq 1..n
  BY DEF Scanned
<1>2. \E type \in {"primary", "joliet"} : Found(type) # {} /\ Root = Latest(type)
  BY DEF HasRoot, Root
<1>3. PICK type \in {"primary", "joliet"} : Found(type) # {} /\ Root = Latest(type)
  BY <1>2
<1>4. PICK i \in Found(type) : Root = v(i)
  BY <1>3, LatestIsFound
<1>5. i \in 1..n /\ v(i).type = type
  BY <1>0, <1>1, <1>4
<1>6. ASSUME present = image.sectors, VolumesWellFormed(image)
      PROVE  Root = FullRoot(image)
  <2>1. \A j \in 1..n : v(j).type # "end" => j \in Scanned
    <3> SUFFICES ASSUME NEW j \in 1..n, v(j).type # "end", NEW k \in 1..j, v(k).type = "end"
                 PROVE  FALSE
      <4>1. \A j \in 1..n : j <= present /\ j <= VolumeLimit
        BY <1>0, <1>6, ImageTypes, SizeAssumption DEF VolumesWellFormed
      <4> QED BY <4>1 DEF Scanned
    <3>1. k \in 1..n
      BY <1>0
    <3>2. k = n
      BY <1>6, <3>1 DEF VolumesWellFormed
    <3> QED BY <1>0, <3>2
  <2>2. \A t \in {"primary", "joliet"}, j \in 1..n : v(j).type = t => j \in Found(t)
    BY <1>0, <2>1
  <2>3. type = "primary" => Found("joliet") = {}
    <3> SUFFICES ASSUME type = "primary", NEW j \in Found("joliet") PROVE FALSE
      OBVIOUS
    <3>1. PICK l \in Found("joliet") : Latest("joliet") = v(l)
      BY LatestIsFound
    <3>2. l \in 1..n /\ v(l).type = "joliet"
      BY <1>0, <1>1, <3>1
    <3>3. Latest("joliet").lba # 0
      BY <1>6, <3>1, <3>2 DEF VolumesWellFormed
    <3>4. Root = v(l)
      BY <3>1, <3>3 DEF Root
    <3> QED BY <1>4, <1>5, <3>2, <3>4
  <2>4. type = (IF \E j \in 1..n : v(j).type = "joliet" THEN "joliet" ELSE "primary")
    BY <1>5, <2>2, <2>3
  <2>5. \A j \in 1..n : v(j).type = type => j = i
    BY <1>5, <1>6 DEF VolumesWellFormed
  <2>6. i = CHOOSE j \in 1..n : v(j).type = type
    BY <1>5, <2>5
  <2> QED BY <1>4, <2>4, <2>6 DEF FullRoot
<1> QED BY <1>3, <1>4, <1>5, <1>6

-----------------------------------------------------------------------------
(* The steps of the reader.                                                *)

LEMMA SameDirectory ==
  ASSUME NEW m, NEW d, NEW e, d.lba = e.lba, d.size = e.size
  PROVE  /\ RecordsWithin(m, d) = RecordsWithin(m, e)
         /\ RecordsOf(m, d) = RecordsOf(m, e)
         /\ DirectoryWellFormed(m, d) <=> DirectoryWellFormed(m, e)
         /\ \A x : Aligned(m, d, x) <=> Aligned(m, e, x)
         /\ \A path : Entries(m, path, d) = Entries(m, path, e)
<1>1. RecordsWithin(m, d) = RecordsWithin(m, e)
  BY DEF RecordsWithin
<1>2. RecordsOf(m, d) = RecordsOf(m, e)
  BY <1>1 DEF RecordsOf
<1> QED BY <1>1, <1>2 DEF DirectoryWellFormed, Aligned, Entries

\* A step that loses nothing of what is reached.
LEMMA WalkKept ==
  ASSUME WalkInv, at \notin {"open", "refused", "died"}, image' = image, whole' = whole,
         Reached' \subseteq Reached,
         whole /\ WellFormed(image) /\ at' # "died" => Reached' = Reached
  PROVE  WalkInv'
<1>1. PICK i \in 1..Len(image.volume) :
        /\ Reached \subseteq FilesWithin(image, Clean)[image.volume[i]]
        /\ whole /\ WellFormed(image) =>
             /\ image.volume[i] = FullRoot(image)
             /\ Reached = FilesWithin(image, Clean)[image.volume[i]]
  BY DEF WalkInv
<1>2. /\ Reached' \subseteq FilesWithin(image', Clean)[image'.volume[i]]
      /\ whole' /\ WellFormed(image') =>
           /\ image'.volume[i] = FullRoot(image')
           /\ at' # "died" => Reached' = FilesWithin(image', Clean)[image'.volume[i]]
  BY <1>1
<1>3. i \in 1..Len(image'.volume)
  BY <1>1
<1> QED BY <1>2, <1>3 DEF WalkInv

LEMMA KeepReader ==
  ASSUME ReaderInv, UNCHANGED readerVars
  PROVE  ReaderInv'
BY DEF ReaderInv, ReaderType, StackInv, DirInv, WalkInv, Reached, ListedSoFar, Here, readerVars

LEMMA GrowInv ==
  ASSUME ReaderInv, Grow
  PROVE  ReaderInv'
<1>1. ReaderType'
  <2>1. ~whole
    BY DEF ReaderInv, ReaderType, Grow
  <2>2. image' = image /\ image.sectors \in Nat
    BY ImageTypes DEF ReaderInv, ReaderType, Grow
  <2> QED BY <2>1, <2>2 DEF ReaderInv, ReaderType, Grow
<1>2. StackInv' /\ DirInv' /\ WalkInv'
  BY DEF ReaderInv, StackInv, DirInv, WalkInv, Reached, ListedSoFar, Here, Grow
<1> QED BY <1>1, <1>2 DEF ReaderInv

LEMMA OpenInv ==
  ASSUME ReaderInv, OpenImage
  PROVE  ReaderInv'
<1>1. /\ image \in Images /\ seen = {} /\ stack = <<>> /\ at = "open" /\ present \in 0..image.sectors
      /\ UNCHANGED <<image, present, stack, seen>> /\ at' = "read"
      /\ whole' = (present = image.sectors)
  BY DEF ReaderInv, ReaderType, OpenImage
<1>2. PICK i \in 1..Len(image.volume) :
        Root = image.volume[i] /\ image.volume[i].type \in {"primary", "joliet"}
  BY <1>1, RootFacts DEF OpenImage
<1>3. /\ Root \in [type : STRING, lba : Nat, size : Nat] /\ Root \in DirectoriesOf(image)
      /\ Root.lba \in Nat /\ Root.size \in Nat
  BY <1>1, <1>2, ImageTypes
<1> DEFINE root == Root
<1>4. dir' = [lba |-> root.lba, size |-> root.size, pos |-> 0, path |-> <<>>, out |-> <<>>]
  BY DEF OpenImage, Directory
<1> HIDE DEF root
<1>5. root = image.volume[i] /\ root \in DirectoriesOf(image) /\ root.lba \in Nat /\ root.size \in Nat
  BY <1>2, <1>3 DEF root
<1>6. ReaderType'
  <2>1. <<>> \in Paths /\ <<>> \in Seq(Recs(image)) /\ <<>> \in Seq(LevelType(image))
    BY EmptySeq DEF Paths
  <2>2. dir' \in [lba : Nat, size : Nat, pos : Nat, path : Paths, out : Seq(Recs(image))]
    BY <1>4, <1>5, <2>1
  <2>3. whole' \in BOOLEAN /\ (whole' => present' = image'.sectors)
    BY <1>1
  <2> QED BY <1>1, <2>1, <2>2, <2>3 DEF ReaderType
<1>7. StackInv'
  BY <1>1, <1>4 DEF StackInv
<1>8. DirInv'
  <2>1. ListedSoFar' = {}
    BY <1>4 DEF ListedSoFar
  <2>2. ASSUME whole', WellFormed(image)
        PROVE  DirectoryWellFormed(image, dir') /\ Aligned(image, dir', root.lba * SectorSize)
    <3>1. DirectoryWellFormed(image, root)
      BY <1>2, <1>5, <2>2 DEF WellFormed
    <3>2. (root.lba * SectorSize + 0) % SectorSize = 0 /\ root.lba * SectorSize \in Nat
      <4>1. /\ root.lba * SectorSize \in Nat
            /\ (root.lba * SectorSize + 0) % SectorSize = 0 % SectorSize
        BY <1>5, SectorFacts
      <4>2. 0 % SectorSize = 0
        BY SizeAssumption
      <4> QED BY <4>1, <4>2
    <3>3. root.lba = dir'.lba /\ root.size = dir'.size
      BY <1>4
    <3>4. Aligned(image, root, root.lba * SectorSize)
      BY <3>2 DEF Aligned
    <3> QED BY <3>1, <3>3, <3>4, SameDirectory
  <2>3. Here' = root.lba * SectorSize
    <3>1. root.lba * SectorSize + 0 = root.lba * SectorSize
      BY <1>5, SizeAssumption
    <3> QED BY <1>4, <3>1 DEF Here
  <2>4. \A p \in RecordsWithin(image, dir') : ~(p < root.lba * SectorSize)
    <3>1. root.lba * SectorSize \in Nat
      BY <1>5, SizeAssumption
    <3>2. DOMAIN image.record \subseteq Nat
      BY <1>1, ImageTypes
    <3> QED BY <1>4, <3>1, <3>2 DEF RecordsWithin
  <2> QED BY <1>1, <2>1, <2>2, <2>3, <2>4 DEF DirInv
<1>9. WalkInv'
  <2>1. Reached' = Entries(image, <<>>, dir')
    <3>1. PendingOf(image, <<>>) = {}
      BY DEF PendingOf
    <3> QED BY <1>1, <1>4, <3>1 DEF Reached
  <2>2. Entries(image, <<>>, dir') = Entries(image, <<>>, root)
    BY <1>4, SameDirectory
  <2>3. <<>> \in Paths /\ Len(<<>>) = 0
    BY DEF Paths
  <2>4. Entries(image, <<>>, root) = Content(image, <<>>, root)
    BY <1>1, <1>5, <2>3, ContentIsEntries
  <2>5. Content(image, <<>>, root) = FilesWithin(image, Clean)[root]
    <3> DEFINE f == Below(image, Clean)[DepthLimit]
    <3>1. f[root] \subseteq Paths
      BY <1>1, <1>5, BelowType, SizeAssumption
    <3>2. Content(image, <<>>, root) = {<<>> \o q : q \in f[root]}
      <4>1. ~(0 > DepthLimit) /\ DepthLimit - 0 = DepthLimit
        BY SizeAssumption
      <4> QED BY <2>3, <4>1 DEF Content
    <3> HIDE DEF f
    <3>3. \A q \in Paths : <<>> \o q = q
      BY ConcatEmptySeq DEF Paths
    <3>4. {<<>> \o q : q \in f[root]} = f[root]
      BY <3>1, <3>3
    <3> QED BY <3>2, <3>4 DEF FilesWithin, f
  <2>6. Reached' = FilesWithin(image, Clean)[image.volume[i]]
    BY <1>5, <2>1, <2>2, <2>4, <2>5
  <2>7. whole' /\ WellFormed(image) => image.volume[i] = FullRoot(image)
    BY <1>1, <1>2, RootFacts DEF OpenImage, WellFormed
  <2> QED BY <1>1, <2>6, <2>7 DEF WalkInv
<1> QED BY <1>6, <1>7, <1>8, <1>9 DEF ReaderInv

\* What readDir has read when it is at x.
CompleteUpTo(m, d, x, found) ==
  \A p \in RecordsWithin(m, d) : p < x /\ ~Passed(m.record[p]) => m.record[p] \in found

LEMMA MoveInv ==
  ASSUME ReaderInv, at = "read", NEW pos \in Nat, NEW out \in Seq(Recs(image)), MoveTo(pos, out),
         {out[j] : j \in 1..Len(out)} \subseteq RecordsOf(image, dir),
         whole /\ WellFormed(image) =>
           /\ Aligned(image, dir, dir.lba * SectorSize + pos)
           /\ CompleteUpTo(image, dir, dir.lba * SectorSize + pos, {out[j] : j \in 1..Len(out)})
  PROVE  ReaderInv'
<1>1. UNCHANGED <<image, whole, present, at, stack, seen>> /\ at' = "read"
  BY DEF MoveTo
<1>2. /\ dir' \in [lba : Nat, size : Nat, pos : Nat, path : Paths, out : Seq(Recs(image))]
      /\ dir'.lba = dir.lba /\ dir'.size = dir.size /\ dir'.path = dir.path
      /\ dir'.pos = pos /\ dir'.out = out
  BY DEF MoveTo, ReaderInv, ReaderType
<1>3. ReaderType'
  BY <1>1, <1>2 DEF ReaderInv, ReaderType
<1>4. StackInv'
  BY <1>1, <1>2 DEF ReaderInv, StackInv
<1>5. /\ RecordsWithin(image, dir') = RecordsWithin(image, dir)
      /\ RecordsOf(image, dir') = RecordsOf(image, dir)
      /\ DirectoryWellFormed(image, dir') <=> DirectoryWellFormed(image, dir)
      /\ \A x : Aligned(image, dir', x) <=> Aligned(image, dir, x)
      /\ Entries(image, dir'.path, dir') = Entries(image, dir.path, dir)
  <2> DEFINE d == dir
             e == dir'
             path == d.path
  <2>1. e.lba = d.lba /\ e.size = d.size /\ e.path = path
    BY <1>2
  <2> HIDE DEF d, e, path
  <2>2. /\ RecordsWithin(image, e) = RecordsWithin(image, d)
        /\ RecordsOf(image, e) = RecordsOf(image, d)
        /\ DirectoryWellFormed(image, e) <=> DirectoryWellFormed(image, d)
        /\ \A x : Aligned(image, e, x) <=> Aligned(image, d, x)
        /\ Entries(image, path, e) = Entries(image, path, d)
    <3>1. \A a, b : a.lba = b.lba /\ a.size = b.size =>
            /\ RecordsWithin(image, a) = RecordsWithin(image, b)
            /\ RecordsOf(image, a) = RecordsOf(image, b)
            /\ DirectoryWellFormed(image, a) <=> DirectoryWellFormed(image, b)
            /\ \A x : Aligned(image, a, x) <=> Aligned(image, b, x)
            /\ \A p : Entries(image, p, a) = Entries(image, p, b)
      BY SameDirectory
    <3> QED BY <2>1, <3>1, Zenon
  <2> QED BY <2>1, <2>2 DEF d, e, path
<1>6. DirInv'
  <2>1. Here' = dir.lba * SectorSize + pos /\ ListedSoFar' = {out[j] : j \in 1..Len(out)}
    BY <1>2 DEF Here, ListedSoFar
  <2>2. whole' /\ WellFormed(image) => DirectoryWellFormed(image, dir)
    BY <1>1 DEF ReaderInv, DirInv
  <2> QED BY <1>1, <1>5, <2>1, <2>2 DEF DirInv, CompleteUpTo
<1>7. Reached' = Reached
  BY <1>1, <1>5 DEF Reached
<1>8. WalkInv'
  BY <1>1, <1>7, WalkKept DEF ReaderInv
<1> QED BY <1>3, <1>4, <1>6, <1>8 DEF ReaderInv

\* Where readDir is.
LEMMA HereFacts ==
  ASSUME ReaderInv, at = "read"
  PROVE  /\ dir.lba * SectorSize \in Nat /\ Here \in Nat /\ Here = dir.lba * SectorSize + dir.pos
         /\ dir.pos \in Nat /\ dir.size \in Nat /\ dir.out \in Seq(Recs(image))
         /\ image \in Images
         /\ NextSector = End(dir.pos) /\ End(Here) = dir.lba * SectorSize + End(dir.pos)
         /\ RecLen \in Nat
         /\ RecLen > 0 => /\ Here \in DOMAIN image.record /\ RecLen = RecordHere.len
                          /\ dir.pos < dir.size => Here \in RecordsWithin(image, dir)
         /\ whole /\ WellFormed(image) /\ Here \in RecordsWithin(image, dir) =>
              RecLen > 0
         /\ \A p \in RecordsWithin(image, dir) :
              p \in Nat /\ p >= dir.lba * SectorSize /\ p < dir.lba * SectorSize + dir.size
<1> DEFINE base == dir.lba * SectorSize
<1>1. /\ image \in Images /\ dir.lba \in Nat /\ dir.size \in Nat /\ dir.pos \in Nat
      /\ dir.out \in Seq(Recs(image)) /\ base \in Nat /\ SectorSize \in Nat \ {0}
  BY SizeAssumption DEF ReaderInv, ReaderType
<1>2. Here = base + dir.pos /\ Here \in Nat
  BY <1>1 DEF Here
<1>3. NextSector = End(dir.pos) /\ End(Here) = base + End(dir.pos)
  BY <1>1, <1>2, SectorFacts DEF NextSector, End
<1>4. DOMAIN image.record \subseteq Nat /\ \A p \in DOMAIN image.record : image.record[p].len \in Nat \ {0}
  BY <1>1, ImageTypes DEF RecordType
<1>5. RecLen \in Nat /\ (RecLen > 0 => Here \in DOMAIN image.record /\ RecLen = RecordHere.len)
  BY <1>4 DEF RecLen, RecordHere
<1>6. \A p \in RecordsWithin(image, dir) : p \in DOMAIN image.record /\ p \in Nat /\ p >= base /\ p < base + dir.size
  BY <1>4 DEF RecordsWithin
<1>7. RecLen > 0 /\ dir.pos < dir.size => Here \in RecordsWithin(image, dir)
  BY <1>1, <1>2, <1>5 DEF RecordsWithin
<1>8. whole /\ WellFormed(image) /\ Here \in RecordsWithin(image, dir) => RecLen > 0
  <2> SUFFICES ASSUME whole, WellFormed(image), Here \in RecordsWithin(image, dir) PROVE RecLen > 0
    OBVIOUS
  <2>1. Here \in DOMAIN image.record /\ Here < image.sectors * SectorSize
    BY <1>6 DEF ReaderInv, DirInv, DirectoryWellFormed
  <2>2. present = image.sectors
    BY DEF ReaderInv, ReaderType
  <2> QED BY <1>4, <2>1, <2>2 DEF RecLen, RecordHere
<1> QED BY <1>1, <1>2, <1>3, <1>5, <1>6, <1>7, <1>8

LEMMA PaddingInv ==
  ASSUME ReaderInv, Padding
  PROVE  ReaderInv'
<1> DEFINE base == dir.lba * SectorSize
           D == RecordsWithin(image, dir)
<1>1. at = "read" /\ RecLen = 0 /\ MoveTo(NextSector, dir.out)
  BY DEF Padding
<1>2. NextSector = End(dir.pos) /\ NextSector \in Nat
  BY <1>1, HereFacts, SectorFacts
<1>3. ASSUME whole, WellFormed(image)
      PROVE  Aligned(image, dir, base + NextSector) /\ CompleteUpTo(image, dir, base + NextSector, ListedSoFar)
  <2>1. /\ DirectoryWellFormed(image, dir) /\ Aligned(image, dir, Here)
        /\ CompleteUpTo(image, dir, Here, ListedSoFar)
    BY <1>1, <1>3 DEF ReaderInv, DirInv, CompleteUpTo
  <2>2. Here \notin D
    BY <1>1, <1>3, HereFacts
  <2>3. base + NextSector = End(Here) /\ Here \in Nat /\ End(Here) \in Nat
    BY <1>1, <1>2, HereFacts
  <2>4. Aligned(image, dir, End(Here))
    BY <2>3, SectorFacts DEF Aligned
  <2>5. ASSUME NEW p \in D, p < End(Here) PROVE p < Here
    <3>1. p \in Nat /\ p # Here
      BY <1>1, <2>2, HereFacts
    <3>2. ~(Here < p)
      BY <1>1, <2>1, <2>2, <2>3, <2>5, <3>1, Gap, HereFacts
    <3> QED BY <2>3, <3>1, <3>2
  <2> QED BY <2>1, <2>3, <2>4, <2>5 DEF CompleteUpTo
<1>4. ListedSoFar = {dir.out[j] : j \in 1..Len(dir.out)} /\ ListedSoFar \subseteq RecordsOf(image, dir)
  BY <1>1 DEF ReaderInv, DirInv, ListedSoFar
<1>5. dir.out \in Seq(Recs(image))
  BY <1>1, HereFacts
<1> QED BY <1>1, <1>2, <1>3, <1>4, <1>5, MoveInv

\* Behind a record readDir can read, either taken or passed over.
LEMMA PastRecord ==
  ASSUME ReaderInv, InRecord, NEW found, ListedSoFar \subseteq found,
         ~Passed(RecordHere) => RecordHere \in found, whole, WellFormed(image)
  PROVE  /\ Aligned(image, dir, dir.lba * SectorSize + (dir.pos + RecLen))
         /\ CompleteUpTo(image, dir, dir.lba * SectorSize + (dir.pos + RecLen), found)
<1> DEFINE base == dir.lba * SectorSize
           D == RecordsWithin(image, dir)
<1>1. at = "read" /\ RecLen > 0 /\ dir.pos < dir.size
  BY DEF InRecord, AtRecord
<1>2. Here \in D /\ RecLen = image.record[Here].len /\ RecLen \in Nat /\ Here \in Nat
  BY <1>1, HereFacts DEF RecordHere
<1>3. base + (dir.pos + RecLen) = Here + RecLen
  BY <1>1, HereFacts
<1>4. Aligned(image, dir, Here + RecLen)
  BY <1>2 DEF Aligned
<1>5. DirectoryWellFormed(image, dir) /\ CompleteUpTo(image, dir, Here, ListedSoFar)
  BY <1>1 DEF ReaderInv, DirInv, CompleteUpTo
<1>6. ASSUME NEW p \in D, p < Here + RecLen, ~Passed(image.record[p]) PROVE image.record[p] \in found
  <2>1. p \in Nat
    BY <1>1, HereFacts
  <2>2. ~(Here < p)
    <3> SUFFICES ASSUME Here < p PROVE FALSE
      OBVIOUS
    <3>1. Here + image.record[Here].len <= p
      BY <1>1, <1>2, <1>5, NoOverlap, HereFacts
    <3> QED BY <1>2, <1>6, <2>1, <3>1
  <2>3. CASE p = Here
    BY <1>6, <2>3 DEF RecordHere
  <2>4. CASE p < Here
    BY <1>5, <1>6, <2>4 DEF CompleteUpTo
  <2> QED BY <1>2, <2>1, <2>2, <2>3, <2>4
<1> QED BY <1>3, <1>4, <1>6 DEF CompleteUpTo

LEMMA SkipInv ==
  ASSUME ReaderInv, SkipRecord
  PROVE  ReaderInv'
<1>1. at = "read" /\ InRecord /\ Passed(RecordHere) /\ MoveTo(dir.pos + RecLen, dir.out)
  BY DEF SkipRecord, InRecord, AtRecord
<1>2. dir.pos + RecLen \in Nat /\ dir.out \in Seq(Recs(image))
  BY <1>1, HereFacts
<1>3. ListedSoFar = {dir.out[j] : j \in 1..Len(dir.out)} /\ ListedSoFar \subseteq RecordsOf(image, dir)
  BY <1>1 DEF ReaderInv, DirInv, ListedSoFar
<1>4. whole /\ WellFormed(image) =>
        /\ Aligned(image, dir, dir.lba * SectorSize + (dir.pos + RecLen))
        /\ CompleteUpTo(image, dir, dir.lba * SectorSize + (dir.pos + RecLen), ListedSoFar)
  BY <1>1, PastRecord
<1> QED BY <1>1, <1>2, <1>3, <1>4, MoveInv

LEMMA TakeInv ==
  ASSUME ReaderInv, TakeRecord
  PROVE  ReaderInv'
<1> DEFINE out == Append(dir.out, RecordHere)
<1>1. /\ at = "read" /\ InRecord /\ ~Passed(RecordHere) /\ MoveTo(dir.pos + RecLen, out)
      /\ RecLen > 0 /\ dir.pos < dir.size /\ ~Stub(RecordHere)
  BY DEF TakeRecord, InRecord, AtRecord
<1>2. dir.pos + RecLen \in Nat /\ dir.out \in Seq(Recs(image)) /\ Here \in RecordsWithin(image, dir)
  BY <1>1, HereFacts
<1>3. RecordHere \in RecordsOf(image, dir) /\ RecordHere \in Recs(image)
  BY <1>1, <1>2 DEF RecordHere, RecordsOf, Recs, RecordsWithin
<1>4. out \in Seq(Recs(image)) /\ {out[j] : j \in 1..Len(out)} = ListedSoFar \cup {RecordHere}
  <2> DEFINE r == RecordHere
  <2>1. dir.out \in Seq(Recs(image)) /\ r \in Recs(image)
    BY <1>2, <1>3
  <2> HIDE DEF r
  <2>2. /\ Append(dir.out, r) \in Seq(Recs(image)) /\ Len(dir.out) \in Nat
        /\ Len(Append(dir.out, r)) = Len(dir.out) + 1
        /\ \A i \in 1..Len(dir.out) : Append(dir.out, r)[i] = dir.out[i]
        /\ Append(dir.out, r)[Len(dir.out) + 1] = r
    BY <2>1, AppendProperties, LenProperties
  <2>3. \A i : i \in 1..Len(Append(dir.out, r)) <=> i \in 1..Len(dir.out) \/ i = Len(dir.out) + 1
    BY <2>2
  <2> QED BY <2>2, <2>3 DEF ListedSoFar, r
<1>5. ListedSoFar \subseteq RecordsOf(image, dir)
  BY <1>1 DEF ReaderInv, DirInv
<1>6. whole /\ WellFormed(image) =>
        /\ Aligned(image, dir, dir.lba * SectorSize + (dir.pos + RecLen))
        /\ CompleteUpTo(image, dir, dir.lba * SectorSize + (dir.pos + RecLen), ListedSoFar \cup {RecordHere})
  BY <1>1, PastRecord
<1> HIDE DEF out
<1> QED BY <1>1, <1>2, <1>3, <1>4, <1>5, <1>6, MoveInv

LEMMA EndOfDirectoryInv ==
  ASSUME ReaderInv, EndOfDirectory
  PROVE  ReaderInv'
<1> DEFINE base == dir.lba * SectorSize
           D == RecordsWithin(image, dir)
           level == [path |-> dir.path, todo |-> IF Len(stack) > DepthLimit THEN <<>> ELSE dir.out]
<1>1. /\ at = "read" /\ at' = "walk" /\ stack' = Append(stack, level)
      /\ UNCHANGED <<image, whole, present, dir, seen>>
  BY DEF EndOfDirectory, Listed
<1>2. /\ dir.path \in Paths /\ dir.out \in Seq(Recs(image)) /\ Len(stack) \in Nat
      /\ stack \in Seq(LevelType(image)) /\ Len(dir.path) = Len(stack) /\ DepthLimit \in Nat
  BY <1>1, LenProperties, SizeAssumption DEF ReaderInv, ReaderType, StackInv
<1>3. level \in LevelType(image) /\ level.path = dir.path
      /\ level.todo = IF Len(stack) > DepthLimit THEN <<>> ELSE dir.out
  BY <1>2, EmptySeq DEF LevelType
<1>4. /\ Append(stack, level) \in Seq(LevelType(image)) /\ Len(Append(stack, level)) = Len(stack) + 1
      /\ \A k \in 1..Len(stack) : Append(stack, level)[k] = stack[k]
      /\ Append(stack, level)[Len(stack) + 1] = level
  BY <1>2, <1>3, AppendProperties
<1>5. ReaderType'
  BY <1>1, <1>4 DEF ReaderInv, ReaderType
<1>6. StackInv'
  <2> HIDE DEF level
  <2>1. ASSUME NEW k \in 1..Len(stack')
        PROVE  Len(stack'[k].path) = k - 1 /\ (stack'[k].todo # <<>> => k - 1 <= DepthLimit)
    <3>1. CASE k \in 1..Len(stack)
      BY <1>1, <1>4, <3>1 DEF ReaderInv, StackInv
    <3>2. CASE k = Len(stack) + 1
      BY <1>1, <1>2, <1>3, <1>4, <3>2
    <3> QED BY <1>1, <1>2, <1>4, <3>1, <3>2
  <2> QED BY <1>1, <2>1 DEF StackInv
<1>7. DirInv'
  BY <1>1 DEF DirInv
<1>8. Entries(image, dir.path, dir) =
        IF Len(stack) > DepthLimit THEN {}
        ELSE UNION {FromEntry(image, dir.path, r) : r \in RecordsOf(image, dir)}
  BY <1>2 DEF Entries
<1>9. TodoOf(image, level) =
        IF Len(stack) > DepthLimit THEN {}
        ELSE UNION {FromEntry(image, dir.path, r) : r \in ListedSoFar}
  <2>1. CASE Len(stack) > DepthLimit
    BY <2>1 DEF TodoOf
  <2>2. CASE ~(Len(stack) > DepthLimit)
    <3>1. TodoOf(image, level) = UNION {FromEntry(image, dir.path, dir.out[j]) : j \in 1..Len(dir.out)}
      BY <2>2 DEF TodoOf
    <3> QED BY <2>2, <3>1 DEF ListedSoFar
  <2> QED BY <2>1, <2>2
<1>10. ListedSoFar \subseteq RecordsOf(image, dir)
  BY <1>1 DEF ReaderInv, DirInv
<1>11. whole /\ WellFormed(image) => RecordsOf(image, dir) \subseteq ListedSoFar
  <2> SUFFICES ASSUME whole, WellFormed(image),
                      NEW p \in D, ~Passed(image.record[p]) PROVE image.record[p] \in ListedSoFar
    BY DEF RecordsOf
  <2>1. /\ DirectoryWellFormed(image, dir) /\ Aligned(image, dir, Here)
        /\ CompleteUpTo(image, dir, Here, ListedSoFar)
    BY <1>1 DEF ReaderInv, DirInv, CompleteUpTo
  <2>2. /\ p \in Nat /\ p < base + dir.size /\ Here \in Nat /\ Here = base + dir.pos /\ base \in Nat
        /\ dir.pos \in Nat /\ dir.size \in Nat /\ image \in Images
        /\ NextSector = End(dir.pos) /\ End(Here) = base + End(dir.pos) /\ RecLen \in Nat
        /\ End(dir.pos) \in Nat /\ dir.pos < End(dir.pos)
    BY <1>1, HereFacts, SectorFacts
  <2>3. CASE dir.pos >= dir.size
    <3>1. p < Here
      BY <2>2, <2>3
    <3> QED BY <2>1, <3>1 DEF CompleteUpTo
  <2>4. CASE dir.pos < dir.size /\ RecLen = 0 /\ (NextSector <= dir.pos \/ NextSector >= dir.size)
    <3>1. Here \notin D
      BY <1>1, <2>4, HereFacts
    <3>2. ~(Here < p)
      <4> SUFFICES ASSUME Here < p PROVE FALSE
        OBVIOUS
      <4>1. End(Here) <= p
        BY <2>1, <2>2, <3>1, Gap
      <4> QED BY <2>2, <2>4, <4>1
    <3>3. p # Here
      BY <3>1
    <3>4. p < Here
      BY <2>2, <3>2, <3>3
    <3> QED BY <2>1, <3>4 DEF CompleteUpTo
  <2>5. CASE dir.pos < dir.size /\ dir.pos + RecLen > dir.size
    <3>1. Here \in D /\ RecLen = image.record[Here].len
      BY <1>1, <2>2, <2>5, HereFacts DEF RecordHere
    <3>2. (Here % SectorSize) + RecLen <= SectorSize /\ dir.size % SectorSize = 0
      BY <2>1, <3>1 DEF DirectoryWellFormed
    <3>3. Here + RecLen <= End(Here)
      BY <2>2, <3>2, FitsSector
    <3>4. dir.size >= End(dir.pos)
      BY <2>2, <2>5, <3>2, SectorFacts
    <3> QED BY <2>2, <2>5, <3>3, <3>4
  <2> QED BY <2>3, <2>4, <2>5 DEF EndOfDirectory
<1>12. PendingOf(image, stack') = PendingOf(image, stack) \cup TodoOf(image, level)
  <2> HIDE DEF level
  <2> QED BY <1>1, <1>2, <1>3, AppendPending
<1>13. TodoOf(image, level) \subseteq Entries(image, dir.path, dir)
  BY <1>8, <1>9, <1>10
<1>14. whole /\ WellFormed(image) => TodoOf(image, level) = Entries(image, dir.path, dir)
  <2> SUFFICES ASSUME whole, WellFormed(image)
               PROVE  TodoOf(image, level) = Entries(image, dir.path, dir)
    OBVIOUS
  <2>1. ListedSoFar = RecordsOf(image, dir)
    BY <1>10, <1>11
  <2> QED BY <1>8, <1>9, <2>1
<1>15. /\ Reached' = seen \cup (PendingOf(image, stack) \cup TodoOf(image, level))
       /\ Reached = seen \cup PendingOf(image, stack) \cup Entries(image, dir.path, dir)
  BY <1>1, <1>12 DEF Reached
<1>16. Reached' \subseteq Reached /\ (whole /\ WellFormed(image) => Reached' = Reached)
  BY <1>13, <1>14, <1>15
<1>17. WalkInv'
  BY <1>1, <1>16, WalkKept DEF ReaderInv
<1> QED BY <1>5, <1>6, <1>7, <1>17 DEF ReaderInv

LEMMA PanicInv ==
  ASSUME ReaderInv, Panic
  PROVE  ReaderInv'
<1>1. at = "read" /\ at' = "died" /\ UNCHANGED <<image, whole, present, dir, stack, seen>>
  BY DEF Panic, AtRecord
<1>2. Reached' \subseteq Reached
  BY <1>1 DEF Reached
<1>3. WalkInv'
  BY <1>1, <1>2, WalkKept DEF ReaderInv
<1>4. ReaderType' /\ StackInv' /\ DirInv'
  BY <1>1 DEF ReaderInv, ReaderType, StackInv, DirInv
<1> QED BY <1>3, <1>4 DEF ReaderInv

\* The next record of the last level.
LEMMA TopFacts ==
  ASSUME ReaderInv, at = "walk", Depth > 0, Top.todo # <<>>
  PROVE  /\ Visited \in Seq(LevelType(image)) /\ Len(Visited) = Depth
         /\ \A k \in 1..Depth : /\ Len(Visited[k].path) = k - 1
                                /\ Visited[k].todo # <<>> => k - 1 <= DepthLimit
         /\ Top.path \in Paths /\ Len(Top.path) = Depth - 1 /\ Depth \in Nat
         /\ Head(Top.todo) \in Recs(image) /\ PathOf(Head(Top.todo)) \in Paths
         /\ Len(PathOf(Head(Top.todo))) = Depth
         /\ Reached = seen \cup PendingOf(image, Visited)
                        \cup FromEntry(image, Top.path, Head(Top.todo))
<1>1. stack \in Seq(LevelType(image)) /\ stack # <<>> /\ Depth \in Nat /\ image \in Images
  BY LenProperties, EmptySeq DEF ReaderInv, ReaderType, Depth
<1>2. /\ Visited \in Seq(LevelType(image)) /\ Len(Visited) = Depth
      /\ \A k \in 1..Depth : Visited[k].path = stack[k].path
      /\ \A k \in 1..Depth : k # Depth => Visited[k] = stack[k]
      /\ Head(Top.todo) \in Recs(image) /\ Top.path \in Paths
      /\ PendingOf(image, stack) =
           PendingOf(image, Visited) \cup FromEntry(image, Top.path, Head(Top.todo))
  BY <1>1, VisitPending DEF Visited, Top, Depth
<1>3. \A k \in 1..Depth : Len(stack[k].path) = k - 1 /\ (stack[k].todo # <<>> => k - 1 <= DepthLimit)
  BY DEF ReaderInv, StackInv, Depth
<1>4. Depth \in 1..Depth /\ Top = stack[Depth]
  BY <1>1 DEF Top
<1>5. \A k \in 1..Depth : /\ Len(Visited[k].path) = k - 1
                          /\ Visited[k].todo # <<>> => k - 1 <= DepthLimit
  <2> TAKE k \in 1..Depth
  <2>1. CASE k = Depth
    BY <1>2, <1>3, <1>4, <2>1
  <2>2. CASE k # Depth
    BY <1>2, <1>3, <2>2
  <2> QED BY <2>1, <2>2
<1>6. Reached = seen \cup PendingOf(image, stack)
  BY DEF Reached
<1>7. PathOf(Head(Top.todo)) \in Paths /\ Len(PathOf(Head(Top.todo))) = Depth
  <2> DEFINE c == Clean[Head(Top.todo).id]
             path == Top.path
  <2>1. c \in Name
    BY <1>1, <1>2, ImageTypes DEF Name, RecordType
  <2>2. path \in Seq(Name) /\ Len(path) = Depth - 1
    BY <1>2, <1>3, <1>4 DEF Paths
  <2> HIDE DEF c, path
  <2>3. Append(path, c) \in Seq(Name) /\ Len(Append(path, c)) = Len(path) + 1
    BY <2>1, <2>2, AppendProperties
  <2>4. PathOf(Head(Top.todo)) = Append(path, c)
    BY DEF PathOf, path, c
  <2> QED BY <1>1, <2>2, <2>3, <2>4 DEF Paths
<1> QED BY <1>1, <1>2, <1>3, <1>4, <1>5, <1>6, <1>7

LEMMA ReportFileInv ==
  ASSUME ReaderInv, ReportFile
  PROVE  ReaderInv'
<1> DEFINE r == Head(Top.todo)
<1>1. /\ at = "walk" /\ Depth > 0 /\ Top.todo # <<>> /\ ~r.dir
      /\ seen' = seen \cup {PathOf(r)} /\ stack' = Visited
      /\ UNCHANGED <<image, whole, present, at, dir>>
  BY DEF ReportFile
<1>2. ReaderType'
  BY <1>1, TopFacts DEF ReaderInv, ReaderType
<1>3. StackInv' /\ DirInv'
  BY <1>1, TopFacts DEF StackInv, DirInv
<1>4. FromEntry(image, Top.path, r) = {PathOf(r)}
  BY <1>1 DEF FromEntry, PathOf
<1>5. Reached' = seen' \cup PendingOf(image, stack')
  BY <1>1 DEF Reached
<1> HIDE DEF r
<1>6. Reached = seen \cup PendingOf(image, Visited) \cup FromEntry(image, Top.path, r)
  BY <1>1, TopFacts DEF r
<1>7. Reached' = Reached
  BY <1>1, <1>4, <1>5, <1>6
<1>8. WalkInv'
  BY <1>1, <1>7, WalkKept DEF ReaderInv
<1> QED BY <1>2, <1>3, <1>8 DEF ReaderInv

LEMMA DescendInv ==
  ASSUME ReaderInv, Descend
  PROVE  ReaderInv'
<1> DEFINE r == Head(Top.todo)
           path == PathOf(r)
<1>1. /\ at = "walk" /\ Depth > 0 /\ Top.todo # <<>> /\ r.dir /\ at' = "read"
      /\ dir' = [lba |-> r.lba, size |-> r.size, pos |-> 0, path |-> path, out |-> <<>>]
      /\ stack' = Visited
      /\ UNCHANGED <<image, whole, present, seen>>
  BY DEF Descend, Directory
<1>2. image \in Images /\ r \in Recs(image) /\ path \in Paths /\ Len(path) = Depth /\ Len(Visited) = Depth
  BY <1>1, TopFacts DEF ReaderInv, ReaderType
<1>3. r \in DirectoriesOf(image) /\ r.lba \in Nat /\ r.size \in Nat
      /\ \E p \in DOMAIN image.record : r = image.record[p]
  <2>1. r \in DirectoriesOf(image) /\ r \in RecordType
    BY <1>2, ImageTypes
  <2> HIDE DEF r
  <2> QED BY <1>2, <2>1 DEF RecordType, Recs
<1>4. Reached = seen \cup PendingOf(image, Visited) \cup FromEntry(image, Top.path, r)
  BY <1>1, TopFacts
<1>5. FromEntry(image, Top.path, r) = Content(image, path, r)
  BY <1>1 DEF FromEntry, PathOf
<1>6. Visited \in Seq(LevelType(image))
      /\ \A k \in 1..Depth : /\ Len(Visited[k].path) = k - 1
                             /\ Visited[k].todo # <<>> => k - 1 <= DepthLimit
  BY <1>1, TopFacts
<1>7. r.dir /\ WellFormed(image) => DirectoryWellFormed(image, r)
  BY <1>3 DEF WellFormed
<1> HIDE DEF r, path
<1>8. /\ dir'.lba = r.lba /\ dir'.size = r.size /\ dir'.path = path /\ dir'.pos = 0 /\ dir'.out = <<>>
      /\ dir' \in [lba : Nat, size : Nat, pos : Nat, path : Paths, out : Seq(Recs(image))]
  <2>1. <<>> \in Seq(Recs(image))
    BY EmptySeq
  <2> QED BY <1>1, <1>2, <1>3, <2>1
<1>9. ReaderType'
  BY <1>1, <1>6, <1>8 DEF ReaderInv, ReaderType
<1>10. StackInv'
  BY <1>1, <1>2, <1>6, <1>8 DEF StackInv
<1>11. /\ RecordsWithin(image, dir') = RecordsWithin(image, r)
       /\ DirectoryWellFormed(image, dir') <=> DirectoryWellFormed(image, r)
       /\ \A x : Aligned(image, dir', x) <=> Aligned(image, r, x)
       /\ Entries(image, dir'.path, dir') = Entries(image, path, r)
  <2> DEFINE e == dir'
  <2>1. e.lba = r.lba /\ e.size = r.size /\ e.path = path
    BY <1>8
  <2> HIDE DEF e
  <2> QED BY <2>1, SameDirectory DEF e
<1>12. DirInv'
  <2>1. r.lba * SectorSize \in Nat /\ (r.lba * SectorSize) % SectorSize = 0
        /\ Here' = r.lba * SectorSize
    <3>1. r.lba * SectorSize \in Nat /\ (r.lba * SectorSize + 0) % SectorSize = 0 % SectorSize
      BY <1>3, SectorFacts
    <3>2. 0 % SectorSize = 0 /\ r.lba * SectorSize + 0 = r.lba * SectorSize
      BY <3>1, SizeAssumption
    <3> QED BY <1>8, <3>1, <3>2 DEF Here
  <2>2. Aligned(image, r, r.lba * SectorSize)
    BY <2>1 DEF Aligned
  <2>3. \A p \in RecordsWithin(image, r) : ~(p < r.lba * SectorSize)
    <3>1. DOMAIN image.record \subseteq Nat
      BY <1>2, ImageTypes
    <3> QED BY <2>1, <3>1 DEF RecordsWithin
  <2>4. ListedSoFar' = {}
    BY <1>8 DEF ListedSoFar
  <2> QED BY <1>1, <1>7, <1>11, <2>1, <2>2, <2>3, <2>4 DEF DirInv
<1>13. WalkInv'
  <2>1. Content(image, path, r) = Entries(image, path, r)
    BY <1>2, <1>3, ContentIsEntries
  <2>2. Reached' = seen \cup PendingOf(image, Visited) \cup Entries(image, dir'.path, dir')
    BY <1>1 DEF Reached
  <2>3. Reached' = Reached
    BY <1>4, <1>5, <1>11, <2>1, <2>2
  <2> QED BY <1>1, <2>3, WalkKept DEF ReaderInv
<1> QED BY <1>9, <1>10, <1>12, <1>13 DEF ReaderInv

LEMMA AscendInv ==
  ASSUME ReaderInv, Ascend
  PROVE  ReaderInv'
<1> DEFINE s == SubSeq(stack, 1, Depth - 1)
<1>1. /\ at = "walk" /\ Depth > 0 /\ Top.todo = <<>> /\ stack' = s
      /\ at' = IF Depth = 1 THEN "closed" ELSE at
      /\ UNCHANGED <<image, whole, present, dir, seen>>
  BY DEF Ascend
<1>2. stack \in Seq(LevelType(image)) /\ stack # <<>> /\ Depth \in Nat /\ Depth = Len(stack)
  BY <1>1, LenProperties, EmptySeq DEF ReaderInv, ReaderType, Depth
<1>3. s \in Seq(LevelType(image)) /\ Len(s) = Depth - 1 /\ \A k \in 1..(Depth - 1) : s[k] = stack[k]
  <2>1. 1 \in Int /\ Depth - 1 \in Int /\ \A j \in 1..(Depth - 1) : stack[j] \in LevelType(image)
    BY <1>1, <1>2, ElementOfSeq
  <2>2. /\ s \in Seq(LevelType(image))
        /\ Len(s) = (IF 1 <= Depth - 1 THEN (Depth - 1) - 1 + 1 ELSE 0)
        /\ \A j \in 1..((Depth - 1) - 1 + 1) : s[j] = stack[1 + j - 1]
    BY <2>1, SubSeqProperties
  <2>3. \A j \in 1..(Depth - 1) : j \in 1..((Depth - 1) - 1 + 1) /\ 1 + j - 1 = j
    BY <1>1, <1>2
  <2> HIDE DEF s
  <2> QED BY <1>1, <1>2, <2>2, <2>3
<1>4. Depth = 1 => s = <<>>
  BY <1>3, EmptySeq
<1>5. TodoOf(image, Top) = {}
  BY <1>1 DEF TodoOf
<1>6. PendingOf(image, stack) = PendingOf(image, s) \cup TodoOf(image, Top)
  BY <1>2, LastPending DEF Top
<1> HIDE DEF s
<1>7. at' # "read" /\ at' \in {"walk", "closed"} /\ (at' = "closed" => s = <<>>)
  BY <1>1, <1>4
<1>8. ReaderType'
  BY <1>1, <1>3, <1>7 DEF ReaderInv, ReaderType
<1>9. StackInv' /\ DirInv'
  <2>1. \A k \in 1..Len(s) : k \in 1..Len(stack) /\ s[k] = stack[k]
    BY <1>2, <1>3
  <2> QED BY <1>1, <1>7, <2>1 DEF ReaderInv, StackInv, DirInv
<1>10. Reached' = Reached
  BY <1>1, <1>5, <1>6, <1>7 DEF Reached
<1>11. WalkInv'
  BY <1>1, <1>7, <1>10, WalkKept DEF ReaderInv
<1> QED BY <1>8, <1>9, <1>11 DEF ReaderInv

LEMMA ReaderStep ==
  ASSUME ReaderInv, Read
  PROVE  ReaderInv'
<1>1. CASE OpenImage
  BY <1>1, OpenInv
<1>2. CASE Refuse
  <2>1. ReaderType' /\ StackInv' /\ DirInv' /\ WalkInv'
    BY <1>2 DEF ReaderInv, ReaderType, StackInv, DirInv, WalkInv, Refuse
  <2> QED BY <2>1 DEF ReaderInv
<1>3. CASE EndOfDirectory
  BY <1>3, EndOfDirectoryInv
<1>4. CASE Padding
  BY <1>4, PaddingInv
<1>5. CASE SkipRecord
  BY <1>5, SkipInv
<1>6. CASE TakeRecord
  BY <1>6, TakeInv
<1>7. CASE Panic
  BY <1>7, PanicInv
<1>8. CASE ReportFile
  BY <1>8, ReportFileInv
<1>9. CASE Descend
  BY <1>9, DescendInv
<1>10. CASE Ascend
  BY <1>10, AscendInv
<1> QED BY <1>1, <1>2, <1>3, <1>4, <1>5, <1>6, <1>7, <1>8, <1>9, <1>10 DEF Read

LEMMA InitReader ==
  ASSUME Init
  PROVE  ReaderInv
<1>1. /\ image \in Images /\ whole = FALSE /\ present \in 0..image.sectors /\ at = "open"
      /\ dir = [lba |-> 0, size |-> 0, pos |-> 0, path |-> <<>>, out |-> <<>>]
      /\ stack = <<>> /\ seen = {}
  BY DEF Init, ReaderInit
<1>2. /\ <<>> \in Paths /\ <<>> \in Seq(Recs(image)) /\ <<>> \in Seq(LevelType(image))
  BY EmptySeq DEF Paths
<1>3. ReaderType
  BY <1>1, <1>2 DEF ReaderType
<1>4. StackInv /\ DirInv /\ WalkInv
  BY <1>1 DEF StackInv, DirInv, WalkInv
<1> QED BY <1>3, <1>4 DEF ReaderInv

LEMMA NextReader ==
  ASSUME ReaderInv, [Next]_vars
  PROVE  ReaderInv'
<1>1. CASE Read
  BY <1>1, ReaderStep
<1>2. CASE Grow
  BY <1>2, GrowInv
<1>3. CASE Analyze \/ Choose \/ UNCHANGED vars
  BY <1>3, KeepReader DEF Analyze, Choose, vars, readerVars
<1> QED BY <1>1, <1>2, <1>3 DEF Next

-----------------------------------------------------------------------------
(* The theorems.                                                           *)

\* Whatever the state of the file and of its directories: what has been reported and what
\* is still to come are files of one of the image's trees, and the whole of the tree with
\* the full names where the image is whole and well formed.
THEOREM ReaderHolds == Spec => []ReaderInv
<1>1. Init => ReaderInv
  BY InitReader
<1>2. ReaderInv /\ [Next]_vars => ReaderInv'
  BY NextReader
<1> QED BY <1>1, <1>2, PTL DEF Spec

\* The walk (Walk, readDir) reports only files the image has, and every one of them.
THEOREM WalkHolds == Spec => []WalkIsExact
<1>1. ReaderInv => WalkIsExact
  <2> SUFFICES ASSUME ReaderInv PROVE WalkIsExact
    OBVIOUS
  <2>1. ASSUME seen # {}
        PROVE  \E i \in 1..Len(image.volume) : seen \subseteq FilesWithin(image, Clean)[image.volume[i]]
    <3>1. at \notin {"open", "refused"}
      BY <2>1 DEF ReaderInv, ReaderType
    <3>2. seen \subseteq Reached
      BY DEF Reached
    <3> QED BY <3>1, <3>2 DEF ReaderInv, WalkInv
  <2>2. ASSUME at = "closed", whole, WellFormed(image) PROVE seen = ListedFiles
    <3>1. Reached = seen
      <4>1. PendingOf(image, <<>>) = {}
        BY DEF PendingOf
      <4>2. stack = <<>>
        BY <2>2 DEF ReaderInv, ReaderType
      <4> QED BY <2>2, <4>1, <4>2 DEF Reached
    <3> QED BY <2>2, <3>1 DEF ReaderInv, WalkInv, ListedFiles
  <2> QED BY <2>1, <2>2 DEF WalkIsExact
<1> QED BY <1>1, ReaderHolds, PTL

\* The entry, too.
LEMMA EntryStep ==
  ASSUME EntryInv, [Next]_vars
  PROVE  EntryInv'
<1>1. CASE (Read \/ Grow) /\ UNCHANGED <<family, outcome>>
  <2>1. CASE Grow
    BY <1>1, <2>1 DEF EntryInv, Grow, GrubFiles
  <2>2. CASE Read
    <3>1. at # "closed" /\ image' = image
      BY <2>2 DEF Read, OpenImage, Refuse, EndOfDirectory, Listed, Padding, SkipRecord,
                  TakeRecord, Panic, InRecord, AtRecord, MoveTo, ReportFile, Descend, Ascend
    <3> QED BY <1>1, <3>1 DEF EntryInv
  <2> QED BY <1>1, <2>1, <2>2
<1>2. CASE Analyze
  BY <1>2 DEF EntryInv, Analyze, GrubFiles, readerVars
<1>3. CASE Choose
  BY <1>3 DEF EntryInv, Choose, GrubFiles, readerVars
<1>4. CASE UNCHANGED vars
  BY <1>4 DEF EntryInv, GrubFiles, vars, readerVars
<1> QED BY <1>1, <1>2, <1>3, <1>4 DEF Next

LEMMA EntryHolds == Spec => []EntryInv
<1>1. Init => EntryInv
  BY DEF Init, EntryInv
<1>2. EntryInv /\ [Next]_vars => EntryInv'
  BY EntryStep
<1> QED BY <1>1, <1>2, PTL DEF Spec

\* Quick-add of a whole and well formed image of a known family, whose kernel's name both
\* readers find whole, makes an entry that boots (Analyze in internal/iso, recipe in
\* internal/grubcfg).
THEOREM KnownImageBootsHolds == Spec => []KnownImageBoots
<1>1. ReaderInv /\ EntryInv /\ WalkIsExact => KnownImageBoots
  <2> SUFFICES ASSUME ReaderInv, EntryInv, WalkIsExact, NEW f \in LinuxFamilies,
                      outcome # "none", whole, WellFormed(image), HasFilesOf(f, GrubFiles),
                      HasSub(ListedFiles, Recipe[f].kernel),
                      OnlyOf(f, ListedFiles, image.label)
               PROVE  outcome = "kernel"
    BY DEF KnownImageBoots
  <2>1. at = "closed" /\ family = Family(seen, image.label) /\ outcome = Outcome(family, GrubFiles)
    BY DEF EntryInv
  <2>2. seen = ListedFiles
    BY <2>1 DEF WalkIsExact
  <2> QED BY <2>1, <2>2, KnownBoots
<1> QED BY <1>1, ReaderHolds, EntryHolds, WalkHolds, PTL

\* Quick-add of an image of which a part can be read (cut, growing, or with directories
\* that are wrong) never makes an entry that works differently.
THEOREM PartIsNotAnotherHolds == Spec => []PartIsNotAnother
<1>1. ReaderInv /\ EntryInv => PartIsNotAnother
  <2> SUFFICES ASSUME ReaderInv, EntryInv, NEW f \in LinuxFamilies, family # "none",
                      \A i \in 1..Len(image.volume) :
                        OnlyOf(f, FilesWithin(image, Clean)[image.volume[i]], image.label)
               PROVE  family = "generic" \/ Recipe[family] = Recipe[f]
    BY DEF PartIsNotAnother
  <2>1. at = "closed" /\ family = Family(seen, image.label)
    BY DEF EntryInv
  <2>2. PICK i \in 1..Len(image.volume) : Reached \subseteq FilesWithin(image, Clean)[image.volume[i]]
    BY <2>1 DEF ReaderInv, WalkInv
  <2>3. seen \in SUBSET FilesWithin(image, Clean)[image.volume[i]]
    BY <2>2 DEF Reached
  <2> QED BY <2>1, <2>3, PartKeepsRecipe
<1> QED BY <1>1, ReaderHolds, EntryHolds, PTL
=============================================================================
