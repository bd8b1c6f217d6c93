--------------------------- MODULE BootChainProofs ---------------------------
(***************************************************************************)
(* How a machine boots, for every machine, address and interface and any   *)
(* number of faults: packets are read as they are meant, each firmware is  *)
(* told to load its own binary and iPXE none, and a boot that nothing      *)
(* disturbs is stuck at no step.                                           *)
(*                                                                         *)
(* The first part follows the format: what parse makes of one option in    *)
(* front of an area, and from that of a whole packet of either side.       *)
(***************************************************************************)
EXTENDS BootFilesProofs, SequenceTheorems, WellFoundedInduction

\* An area of options: of numbers.
Area == Seq(Nat)

LEMMA SmallestExists ==
  ASSUME NEW S, S \subseteq Nat, S # {}
  PROVE  \E n \in S : \A k \in S : n <= k
<1> DEFINE R == OpToRel(<, Nat)
<1>1. PICK n \in S : \A k \in S : ~(<<k, n>> \in R)
  <2> HIDE DEF R
  <2> QED BY NatLessThanWellFounded, WFMin DEF R
<1>2. \A k \in S : ~(k < n)
  BY <1>1 DEF OpToRel
<1> QED BY <1>2

-----------------------------------------------------------------------------
(* Areas put together.                                                     *)

LEMMA Joined ==
  ASSUME NEW X \in Area, NEW Y \in Area
  PROVE  /\ X \o Y \in Area /\ Len(X) \in Nat /\ Len(Y) \in Nat
         /\ Len(X \o Y) = Len(X) + Len(Y)
         /\ \A i \in 1..Len(X) : (X \o Y)[i] = X[i]
         /\ \A i \in 1..Len(Y) : (X \o Y)[Len(X) + i] = Y[i]
BY ConcatProperties, LenProperties DEF Area

LEMMA Regrouped ==
  ASSUME NEW X \in Area, NEW Y \in Area, NEW Z \in Area
  PROVE  (X \o Y) \o Z = X \o (Y \o Z)
BY ConcatAssociative, SMTT(30) DEF Area

-----------------------------------------------------------------------------
(* parse, unit by unit.                                                    *)

\* What is found from place i on, if f has what is found from the later places on.
Found(area, i, f) ==
  IF i > Len(area) THEN NoOptions
  ELSE IF area[i] = 0 THEN f[i + 1]
  ELSE IF area[i] = End \/ i + 1 > Len(area) THEN NoOptions
  ELSE IF i + 1 + area[i + 1] > Len(area) THEN NoOptions
  ELSE UNION {Preceded(rest, area[i], SubSeq(area, i + 2, i + 1 + area[i + 1])) :
                 rest \in {f[i + 2 + area[i + 1]]}}

Scan(area) == CHOOSE f : f = [i \in 1..(Len(area) + 1) |-> Found(area, i, f)]

LEMMA FoundOf ==
  ASSUME NEW area \in Area, NEW i \in Nat \ {0}, NEW f, NEW g,
         \A j \in (i + 1)..(Len(area) + 1) : f[j] = g[j]
  PROVE  Found(area, i, f) = Found(area, i, g)
<1> DEFINE n == Len(area)
<1>1. n \in Nat /\ \A j \in 1..n : area[j] \in Nat
  BY LenProperties, ElementOfSeq DEF Area
<1>2. CASE i > n
  BY <1>2 DEF Found
<1>3. CASE i <= n /\ area[i] = 0
  <2>1. i + 1 \in (i + 1)..(n + 1)
    BY <1>1, <1>3
  <2> QED BY <1>1, <1>3, <2>1 DEF Found
<1>4. CASE i <= n /\ area[i] # 0
  <2>1. CASE area[i] = End \/ i + 1 > n
    BY <1>1, <1>4, <2>1 DEF Found
  <2>2. CASE area[i] # End /\ i + 1 <= n /\ i + 1 + area[i + 1] > n
    BY <1>1, <1>4, <2>2 DEF Found
  <2>3. CASE area[i] # End /\ i + 1 <= n /\ ~(i + 1 + area[i + 1] > n)
    <3>1. area[i + 1] \in Nat
      BY <1>1, <2>3
    <3>2. i + 2 + area[i + 1] \in (i + 1)..(n + 1)
      BY <1>1, <2>3, <3>1
    <3>3. f[i + 2 + area[i + 1]] = g[i + 2 + area[i + 1]]
      BY <3>2
    <3> QED BY <1>1, <1>4, <2>3, <3>3 DEF Found
  <2> QED BY <1>1, <2>1, <2>2, <2>3
<1> QED BY <1>1, <1>2, <1>3, <1>4

LEMMA ScansExist ==
  ASSUME NEW area \in Area
  PROVE  \E f : f = [i \in 1..(Len(area) + 1) |-> Found(area, i, f)]
<1> DEFINE n == Len(area)
           P(k) == \E f : f = [i \in (n + 1 - k)..(n + 1) |-> Found(area, i, f)]
           S == {k \in 0..n : ~P(k)}
<1>1. n \in Nat
  BY LenProperties DEF Area
<1>2. SUFFICES ASSUME S # {} PROVE FALSE
  <2>1. P(n)
    BY <1>1, <1>2
  <2>2. n + 1 - n = 1
    BY <1>1
  <2> HIDE DEF n
  <2> QED BY <2>1, <2>2 DEF n
<1>3. PICK k \in S : \A j \in S : k <= j
  <2> HIDE DEF P
  <2>1. S \subseteq Nat
    OBVIOUS
  <2> HIDE DEF S
  <2> QED BY <1>2, <2>1, SmallestExists
<1>4. k \in 0..n
  OBVIOUS
<1> DEFINE b == n + 1 - k
<1>5. b \in 1..(n + 1)
  BY <1>1, <1>4
<1>6. CASE k = 0
  <2> DEFINE f == [i \in b..(n + 1) |-> NoOptions]
  <2>1. ASSUME NEW i \in b..(n + 1) PROVE Found(area, i, f) = NoOptions
    BY <1>1, <1>6 DEF Found
  <2>2. f = [i \in b..(n + 1) |-> Found(area, i, f)]
    <3> HIDE DEF b
    <3> QED BY <2>1
  <2> QED BY <1>3, <2>2
<1>7. CASE k # 0
  <2>1. k - 1 \in 0..n /\ ~(k <= k - 1) /\ n + 1 - (k - 1) = b + 1
    BY <1>1, <1>4, <1>7
  <2>2. k - 1 \notin S
    <3> HIDE DEF S
    <3> QED BY <1>3, <2>1
  <2>3. P(k - 1)
    BY <2>1, <2>2
  <2>4. PICK f : f = [i \in (b + 1)..(n + 1) |-> Found(area, i, f)]
    BY <2>1, <2>3
  <2> DEFINE g == [i \in b..(n + 1) |-> IF i = b THEN Found(area, b, f) ELSE f[i]]
  <2>5. ASSUME NEW i \in b..(n + 1) PROVE g[i] = Found(area, i, g)
    <3>1. i \in Nat \ {0} /\ \A j \in (i + 1)..(n + 1) : g[j] = f[j]
      BY <1>1, <1>5
    <3>2. g[i] = Found(area, i, f)
      <4>1. CASE i = b
        BY <4>1
      <4>2. CASE i # b
        <5>1. i \in (b + 1)..(n + 1)
          BY <1>1, <1>5, <4>2
        <5>2. f[i] = Found(area, i, f)
          BY <2>4, <5>1
        <5> QED BY <4>2, <5>2
      <4> QED BY <4>1, <4>2
    <3> HIDE DEF g
    <3> QED BY <3>1, <3>2, FoundOf
  <2>6. g = [i \in b..(n + 1) |-> g[i]]
    OBVIOUS
  <2> HIDE DEF g, b
  <2>7. g = [i \in b..(n + 1) |-> Found(area, i, g)]
    BY <2>5, <2>6
  <2> QED BY <1>3, <2>7 DEF b
<1> QED BY <1>6, <1>7

LEMMA ScanUnfolds ==
  ASSUME NEW area \in Area
  PROVE  /\ \A i \in 1..(Len(area) + 1) : Scan(area)[i] = Found(area, i, Scan(area))
         /\ Parse(area) = Scan(area)[1]
<1>1. Scan(area) = [i \in 1..(Len(area) + 1) |-> Found(area, i, Scan(area))]
  BY ScansExist DEF Scan
<1>2. Parse(area) = Scan(area)[1]
  BY Zenon DEF Parse, Scan, Found
<1> QED BY <1>1, <1>2

\* The kinds of unit.
LEMMA Unit ==
  ASSUME NEW area \in Area, NEW i \in 1..(Len(area) + 1)
  PROVE  /\ i > Len(area) => Scan(area)[i] = NoOptions
         /\ i <= Len(area) /\ area[i] = 0 => Scan(area)[i] = Scan(area)[i + 1]
         /\ i <= Len(area) /\ area[i] = End => Scan(area)[i] = NoOptions
         /\ i <= Len(area) /\ area[i] \notin {0, End} =>
              IF i + 1 <= Len(area) /\ i + 1 + area[i + 1] <= Len(area)
              THEN Scan(area)[i] = Preceded(Scan(area)[i + 2 + area[i + 1]], area[i],
                                            SubSeq(area, i + 2, i + 1 + area[i + 1]))
              ELSE Scan(area)[i] = NoOptions
<1> DEFINE n == Len(area)
           s == Scan(area)
<1>1. n \in Nat /\ \A j \in 1..n : area[j] \in Nat
  BY LenProperties, ElementOfSeq DEF Area
<1>2. s[i] = Found(area, i, s)
  BY ScanUnfolds
<1>3. \A rest, c, v : UNION {Preceded(r, c, v) : r \in {rest}} = Preceded(rest, c, v)
  OBVIOUS
<1> HIDE DEF s
<1>4. i > n => s[i] = NoOptions
  BY <1>1, <1>2 DEF Found
<1>5. i <= n /\ area[i] = 0 => s[i] = s[i + 1]
  BY <1>1, <1>2 DEF Found
<1>6. i <= n /\ area[i] = End => s[i] = NoOptions
  BY <1>1, <1>2 DEF Found, End
<1>7. ASSUME i <= n, area[i] \notin {0, End}
      PROVE  IF i + 1 <= n /\ i + 1 + area[i + 1] <= n
             THEN s[i] = Preceded(s[i + 2 + area[i + 1]], area[i],
                                  SubSeq(area, i + 2, i + 1 + area[i + 1]))
             ELSE s[i] = NoOptions
  <2>1. CASE i + 1 > n
    BY <1>1, <1>2, <1>7, <2>1 DEF Found
  <2>2. CASE i + 1 <= n
    <3>1. area[i + 1] \in Nat
      BY <1>1, <2>2
    <3>2. CASE i + 1 + area[i + 1] > n
      BY <1>1, <1>2, <1>7, <2>2, <3>1, <3>2 DEF Found
    <3>3. CASE i + 1 + area[i + 1] <= n
      <4>1. ~(i > n) /\ ~(i + 1 > n) /\ ~(i + 1 + area[i + 1] > n) /\ i + 1 <= n
        BY <1>1, <1>7, <2>2, <3>1, <3>3
      <4>2. s[i] = UNION {Preceded(rest, area[i], SubSeq(area, i + 2, i + 1 + area[i + 1])) :
                           rest \in {s[i + 2 + area[i + 1]]}}
        BY <1>2, <1>7, <4>1 DEF Found
      <4>3. s[i] = Preceded(s[i + 2 + area[i + 1]], area[i],
                            SubSeq(area, i + 2, i + 1 + area[i + 1]))
        BY <1>3, <4>2, Zenon
      <4> QED BY <2>2, <3>3, <4>3
    <3> QED BY <1>1, <3>1, <3>2, <3>3
  <2> QED BY <1>1, <2>1, <2>2
<1> QED BY <1>1, <1>4, <1>5, <1>6, <1>7 DEF s

LEMMA Piece ==
  ASSUME NEW X \in Area, NEW a \in 1..(Len(X) + 1), NEW b \in (a - 1)..Len(X)
  PROVE  /\ SubSeq(X, a, b) \in Area /\ Len(SubSeq(X, a, b)) = b - a + 1
         /\ \A i \in 1..(b - a + 1) : SubSeq(X, a, b)[i] = X[a + i - 1]
<1>1. Len(X) \in Nat /\ a \in Int /\ b \in Int /\ \A i \in a..b : X[i] \in Nat
  BY LenProperties, ElementOfSeq DEF Area
<1>2. /\ SubSeq(X, a, b) \in Seq(Nat)
      /\ Len(SubSeq(X, a, b)) = IF a <= b THEN b - a + 1 ELSE 0
      /\ \A i \in 1..(b - a + 1) : SubSeq(X, a, b)[i] = X[a + i - 1]
  <2>1. \A s : \A m, n \in Int : (\A i \in m..n : s[i] \in Nat) =>
          /\ SubSeq(s, m, n) \in Seq(Nat)
          /\ Len(SubSeq(s, m, n)) = IF m <= n THEN n - m + 1 ELSE 0
          /\ \A i \in 1..(n - m + 1) : SubSeq(s, m, n)[i] = s[m + i - 1]
    BY SubSeqProperties
  <2> QED BY <1>1, <2>1, Zenon
<1>3. (IF a <= b THEN b - a + 1 ELSE 0) = b - a + 1
  BY <1>1
<1> QED BY <1>2, <1>3 DEF Area

\* A piece of a later part.
LEMMA PieceOfLater ==
  ASSUME NEW X \in Area, NEW Y \in Area, NEW a \in 1..(Len(Y) + 1), NEW b \in (a - 1)..Len(Y)
  PROVE  SubSeq(X \o Y, Len(X) + a, Len(X) + b) = SubSeq(Y, a, b)
<1>1. /\ X \o Y \in Area /\ Len(X) \in Nat /\ Len(Y) \in Nat
      /\ Len(X \o Y) = Len(X) + Len(Y)
      /\ \A i \in 1..Len(Y) : (X \o Y)[Len(X) + i] = Y[i]
  BY Joined
<1> DEFINE p == SubSeq(X \o Y, Len(X) + a, Len(X) + b)
           q == SubSeq(Y, a, b)
<1>2. /\ p \in Seq(Nat) /\ Len(p) = b - a + 1
      /\ \A i \in 1..(b - a + 1) : p[i] = (X \o Y)[Len(X) + a + i - 1]
  <2>1. Len(X) + a \in 1..(Len(X \o Y) + 1) /\ Len(X) + b \in (Len(X) + a - 1)..Len(X \o Y)
    BY <1>1
  <2>2. Len(X) + b - (Len(X) + a) + 1 = b - a + 1
    BY <1>1
  <2> DEFINE Z == X \o Y
             a2 == Len(X) + a
             b2 == Len(X) + b
  <2>3. Z \in Area /\ a2 \in 1..(Len(Z) + 1) /\ b2 \in (a2 - 1)..Len(Z)
    BY <1>1, <2>1
  <2> HIDE DEF Z, a2, b2
  <2>4. /\ SubSeq(Z, a2, b2) \in Area /\ Len(SubSeq(Z, a2, b2)) = b2 - a2 + 1
        /\ \A i \in 1..(b2 - a2 + 1) : SubSeq(Z, a2, b2)[i] = Z[a2 + i - 1]
    BY <2>3, Piece
  <2>5. b2 - a2 + 1 = b - a + 1
    BY <2>2 DEF a2, b2
  <2> QED BY <2>4, <2>5 DEF Area, Z, a2, b2
<1>3. /\ q \in Seq(Nat) /\ Len(q) = b - a + 1 /\ \A i \in 1..(b - a + 1) : q[i] = Y[a + i - 1]
  BY Piece DEF Area
<1>4. ASSUME NEW i \in 1..(b - a + 1) PROVE p[i] = q[i]
  <2>1. a + i - 1 \in 1..Len(Y) /\ Len(X) + a + i - 1 = Len(X) + (a + i - 1)
    BY <1>1
  <2>2. (X \o Y)[Len(X) + (a + i - 1)] = Y[a + i - 1]
    BY <1>1, <2>1
  <2>3. (X \o Y)[Len(X) + a + i - 1] = Y[a + i - 1]
    BY <2>1, <2>2
  <2> HIDE DEF p, q
  <2> QED BY <1>2, <1>3, <2>3
<1> HIDE DEF p, q
<1>5. p = q
  BY <1>2, <1>3, <1>4, SeqEqual
<1> QED BY <1>5 DEF p, q

-----------------------------------------------------------------------------
(* parse of an area whose first part is known.                             *)

\* What is found from a place of the later part on does not depend on the earlier part.
LEMMA Later ==
  ASSUME NEW X \in Area, NEW Y \in Area
  PROVE  \A i \in 1..(Len(Y) + 1) : Scan(X \o Y)[Len(X) + i] = Scan(Y)[i]
<1> DEFINE Z == X \o Y
           l == Len(X)
           m == Len(Y)
           P(i) == Scan(Z)[l + i] = Scan(Y)[i]
           S == {k \in 0..m : ~P(m + 1 - k)}
<1>1. /\ Z \in Area /\ l \in Nat /\ m \in Nat /\ Len(Z) = l + m
      /\ \A i \in 1..m : Z[l + i] = Y[i] /\ Y[i] \in Nat
  BY Joined, ElementOfSeq DEF Area
<1>2. SUFFICES ASSUME NEW j \in 1..(m + 1), ~P(j) PROVE FALSE
  OBVIOUS
<1>3. PICK k \in S : \A other \in S : k <= other
  <2>1. m + 1 - j \in 0..m /\ m + 1 - (m + 1 - j) = j
    BY <1>1
  <2>2. S # {} /\ S \subseteq Nat
    <3> HIDE DEF P, m
    <3> QED BY <1>2, <2>1
  <2> HIDE DEF S
  <2> QED BY <2>2, SmallestExists
<1> DEFINE i == m + 1 - k
<1>4. i \in 1..(m + 1) /\ ~P(i) /\ k = m + 1 - i
  <2> HIDE DEF P, m
  <2> QED BY <1>1, <1>3
<1>5. ASSUME NEW n \in (i + 1)..(m + 1) PROVE P(n)
  <2>1. m + 1 - n \in 0..m /\ m + 1 - (m + 1 - n) = n /\ ~(k <= m + 1 - n)
    BY <1>1, <1>4
  <2>2. m + 1 - n \notin S
    <3> HIDE DEF S, m
    <3> QED BY <1>3, <2>1
  <2> HIDE DEF P, m
  <2> QED BY <2>1, <2>2
<1> HIDE DEF i, Z, l, m
<1>6. l + i \in 1..(Len(Z) + 1) /\ Len(Z) = l + m /\ i \in 1..(m + 1)
  BY <1>1, <1>4
<1>7. CASE i > m
  <2>1. l + i > Len(Z)
    BY <1>1, <1>4, <1>6, <1>7
  <2>2. Scan(Z)[l + i] = NoOptions
    BY <1>1, <1>6, <2>1, Unit
  <2>3. Scan(Y)[i] = NoOptions
    BY <1>6, <1>7, Unit DEF m
  <2> QED BY <1>4, <2>2, <2>3
<1>8. CASE i <= m
  <2>1. Z[l + i] = Y[i] /\ l + i <= Len(Z) /\ i \in 1..m
    BY <1>1, <1>4, <1>8
  <2>2. CASE Y[i] = 0
    <3>1. Scan(Z)[l + i] = Scan(Z)[l + i + 1]
      BY <1>1, <1>6, <2>1, <2>2, Unit
    <3>2. Scan(Y)[i] = Scan(Y)[i + 1]
      BY <1>6, <1>8, <2>2, Unit DEF m
    <3>3. P(i + 1) /\ l + (i + 1) = l + i + 1
      BY <1>1, <1>5, <1>4, <1>8
    <3> QED BY <1>4, <3>1, <3>2, <3>3
  <2>3. CASE Y[i] = End
    <3>1. Scan(Z)[l + i] = NoOptions
      BY <1>1, <1>6, <2>1, <2>3, Unit
    <3>2. Scan(Y)[i] = NoOptions
      BY <1>6, <1>8, <2>3, Unit DEF m
    <3> QED BY <1>4, <3>1, <3>2
  <2>4. CASE Y[i] \notin {0, End} /\ ~(i + 1 <= m /\ i + 1 + Y[i + 1] <= m)
    <3>1. Scan(Y)[i] = NoOptions
      BY <1>6, <1>8, <2>4, Unit DEF m
    <3>2. ~(l + i + 1 <= Len(Z) /\ l + i + 1 + Z[l + i + 1] <= Len(Z))
      <4>1. CASE i + 1 > m
        BY <1>1, <1>4, <4>1
      <4>2. CASE i + 1 <= m
        <5>1. i + 1 \in 1..m /\ l + i + 1 = l + (i + 1)
          BY <1>1, <1>4, <4>2
        <5>2. Z[l + i + 1] = Y[i + 1] /\ Y[i + 1] \in Nat
          BY <1>1, <5>1
        <5> QED BY <1>1, <1>4, <2>4, <4>2, <5>2
      <4> QED BY <1>1, <1>4, <4>1, <4>2
    <3>3. Scan(Z)[l + i] = NoOptions
      BY <1>1, <1>6, <2>1, <2>4, <3>2, Unit
    <3> QED BY <1>4, <3>1, <3>3
  <2>5. CASE Y[i] \notin {0, End} /\ i + 1 <= m /\ i + 1 + Y[i + 1] <= m
    <3> DEFINE v == Y[i + 1]
    <3>1. i + 1 \in 1..m /\ l + i + 1 = l + (i + 1)
      BY <1>1, <1>4, <2>5
    <3>2. Z[l + i + 1] = v /\ v \in Nat
      BY <1>1, <3>1
    <3>3. /\ l + i + 1 <= Len(Z) /\ l + i + 1 + v <= Len(Z)
          /\ l + i + 2 + v = l + (i + 2 + v) /\ l + i + 2 = l + (i + 2)
          /\ l + i + 1 + v = l + (i + 1 + v) /\ i + 2 + v \in (i + 1)..(m + 1)
          /\ i + 2 \in 1..(m + 1) /\ i + 1 + v \in ((i + 2) - 1)..m
      <4>1. i \in Nat /\ i >= 1 /\ i <= m /\ l \in Nat /\ m \in Nat /\ Len(Z) = l + m /\ v \in Nat
            /\ i + 1 <= m /\ i + 1 + v <= m
        BY <1>1, <1>4, <1>8, <2>5, <3>2
      <4> HIDE DEF v
      <4> QED BY <4>1
    <3>4. Scan(Y)[i] = Preceded(Scan(Y)[i + 2 + v], Y[i], SubSeq(Y, i + 2, i + 1 + v))
      BY <1>6, <1>8, <2>5, Unit DEF m
    <3>5. Scan(Z)[l + i] = Preceded(Scan(Z)[l + i + 2 + v], Z[l + i],
                                    SubSeq(Z, l + i + 2, l + i + 1 + v))
      BY <1>1, <1>6, <2>1, <2>5, <3>2, <3>3, Unit
    <3>6. Scan(Z)[l + i + 2 + v] = Scan(Y)[i + 2 + v]
      BY <1>5, <3>3
    <3>7. SubSeq(Z, l + (i + 2), l + (i + 1 + v)) = SubSeq(Y, i + 2, i + 1 + v)
      <4>1. \A a \in 1..(m + 1) : \A b \in (a - 1)..m : SubSeq(Z, l + a, l + b) = SubSeq(Y, a, b)
        BY PieceOfLater DEF Z, l, m
      <4> HIDE DEF v
      <4> QED BY <3>3, <4>1, Zenon
    <3> QED BY <1>4, <2>1, <3>3, <3>4, <3>5, <3>6, <3>7
  <2> QED BY <2>2, <2>3, <2>4, <2>5
<1> QED BY <1>1, <1>4, <1>7, <1>8

LEMMA FirstUnit ==
  ASSUME NEW area \in Area
  PROVE  /\ Len(area) = 0 => Parse(area) = NoOptions
         /\ Len(area) > 0 /\ area[1] = End => Parse(area) = NoOptions
<1>1. Len(area) \in Nat
  BY LenProperties DEF Area
<1>2. 1 \in 1..(Len(area) + 1) /\ Parse(area) = Scan(area)[1]
  BY <1>1, ScanUnfolds
<1>3. Len(area) = 0 => Parse(area) = NoOptions
  BY <1>1, <1>2, Unit
<1>4. Len(area) > 0 /\ area[1] = End => Parse(area) = NoOptions
  BY <1>1, <1>2, Unit
<1> QED BY <1>3, <1>4

LEMMA NothingParsed == <<>> \in Area /\ Parse(<<>>) = NoOptions
<1>1. <<>> \in Area /\ Len(<<>>) = 0
  BY EmptySeq, LenProperties DEF Area
<1> QED BY <1>1, FirstUnit

\* Padding is passed over.
LEMMA PadsParsed ==
  ASSUME NEW pads \in Seq({0}), NEW Y \in Area
  PROVE  pads \in Area /\ pads \o Y \in Area /\ Parse(pads \o Y) = Parse(Y)
<1> DEFINE Z == pads \o Y
           l == Len(pads)
<1>1. /\ pads \in Area /\ l \in Nat /\ \A i \in 1..l : pads[i] = 0
  <2>1. l \in Nat /\ \A i \in 1..l : pads[i] \in {0}
    BY LenProperties, ElementOfSeq
  <2>2. pads \in Seq(Nat)
    BY <2>1, SeqDef
  <2> QED BY <2>1, <2>2 DEF Area
<1>2. /\ Z \in Area /\ Len(Y) \in Nat /\ Len(Z) = l + Len(Y)
      /\ \A i \in 1..l : Z[i] = 0
  BY <1>1, Joined
<1> DEFINE S == {k \in 0..l : Scan(Z)[l + 1 - k] # Scan(Y)[1]}
<1>3. S = {}
  <2>1. SUFFICES ASSUME S # {} PROVE FALSE
    OBVIOUS
  <2>2. PICK k \in S : \A other \in S : k <= other
    <3>1. S \subseteq Nat
      OBVIOUS
    <3> HIDE DEF S
    <3> QED BY <2>1, <3>1, SmallestExists
  <2>3. k \in 0..l /\ Scan(Z)[l + 1 - k] # Scan(Y)[1]
    OBVIOUS
  <2>4. k # 0
    <3>1. 1 \in 1..(Len(Y) + 1)
      BY <1>2
    <3>2. Scan(Z)[l + 1] = Scan(Y)[1]
      BY <1>1, <3>1, Later
    <3>3. l + 1 - 0 = l + 1
      BY <1>1
    <3> HIDE DEF l, Z, S
    <3> QED BY <2>3, <3>2, <3>3
  <2>5. k - 1 \in 0..l /\ ~(k <= k - 1)
    BY <1>1, <2>3, <2>4
  <2>6. Scan(Z)[l + 1 - (k - 1)] = Scan(Y)[1]
    <3>1. k - 1 \notin S
      <4> HIDE DEF S
      <4> QED BY <2>2, <2>5
    <3> HIDE DEF l, Z
    <3> QED BY <2>5, <3>1
  <2> DEFINE i == l + 1 - k
  <2>7. i \in 1..l /\ i + 1 = l + 1 - (k - 1) /\ i \in 1..(Len(Z) + 1) /\ i <= Len(Z)
    BY <1>1, <1>2, <2>3, <2>4
  <2> HIDE DEF Z, i
  <2>8. Scan(Z)[i] = Scan(Z)[i + 1]
    BY <1>2, <2>7, Unit
  <2> HIDE DEF l, S
  <2> QED BY <2>3, <2>6, <2>7, <2>8 DEF i
<1>4. Scan(Z)[1] = Scan(Y)[1]
  <2>1. l \in 0..l /\ l + 1 - l = 1
    BY <1>1
  <2> HIDE DEF l, Z
  <2> QED BY <1>3, <2>1
<1>5. Parse(Z) = Scan(Z)[1] /\ Parse(Y) = Scan(Y)[1]
  BY <1>2, ScanUnfolds
<1> QED BY <1>1, <1>2, <1>4, <1>5

\* An option with any value is read, and the rest as if it stood alone.
LEMMA OptionParsed ==
  ASSUME NEW c \in Nat \ {0, End}, NEW v \in Area, NEW Y \in Area
  PROVE  /\ Option(c, v) \in Area /\ Option(c, v) \o Y \in Area
         /\ Parse(Option(c, v) \o Y) = Preceded(Parse(Y), c, v)
<1> DEFINE h == <<c, Len(v)>>
           X == h \o v
           Z == X \o Y
           n == Len(v)
<1>1. n \in Nat /\ h \in Area /\ Len(h) = 2 /\ h[1] = c /\ h[2] = n /\ Len(Y) \in Nat
  BY LenProperties DEF Area
<1>2. /\ X \in Area /\ Len(X) = 2 + n
      /\ X[1] = c /\ X[2] = n /\ \A i \in 1..n : X[2 + i] = v[i]
  BY <1>1, Joined
<1>3. /\ Z \in Area /\ Len(Z) = 2 + n + Len(Y)
      /\ \A i \in 1..(2 + n) : Z[i] = X[i]
  <2> HIDE DEF X
  <2>1. /\ X \o Y \in Area /\ Len(X \o Y) = Len(X) + Len(Y)
        /\ \A i \in 1..Len(X) : (X \o Y)[i] = X[i]
    BY <1>2, Joined
  <2> HIDE DEF n
  <2> QED BY <1>2, <2>1
<1>4. Z[1] = c /\ Z[2] = n /\ \A i \in 1..n : Z[2 + i] = v[i]
  <2>1. 1 \in 1..(2 + n) /\ 2 \in 1..(2 + n) /\ \A i \in 1..n : 2 + i \in 1..(2 + n)
    BY <1>1
  <2> HIDE DEF X, Z, n
  <2> QED BY <1>2, <1>3, <2>1
<1>5. X = Option(c, v)
  BY DEF Option
<1> HIDE DEF X, h
<1>6. Scan(Z)[2 + n + 1] = Scan(Y)[1]
  <2>1. 1 \in 1..(Len(Y) + 1)
    BY <1>1
  <2> QED BY <1>2, <2>1, Later
<1> HIDE DEF Z
<1>7. SubSeq(Z, 3, 2 + n) = v
  <2>1. 3 \in 1..(Len(Z) + 1) /\ 2 + n \in (3 - 1)..Len(Z) /\ 2 + n - 3 + 1 = n
    BY <1>1, <1>3
  <2> DEFINE p == SubSeq(Z, 3, 2 + n)
  <2>2. p \in Area /\ Len(p) = n /\ \A i \in 1..n : p[i] = Z[3 + i - 1]
    <3> DEFINE b == 2 + n
    <3>1. b \in (3 - 1)..Len(Z) /\ b - 3 + 1 = n
      BY <2>1
    <3> HIDE DEF b
    <3>2. /\ SubSeq(Z, 3, b) \in Area /\ Len(SubSeq(Z, 3, b)) = b - 3 + 1
          /\ \A i \in 1..(b - 3 + 1) : SubSeq(Z, 3, b)[i] = Z[3 + i - 1]
      BY <1>3, <2>1, <3>1, Piece
    <3> QED BY <3>1, <3>2 DEF b
  <2> HIDE DEF p
  <2>3. \A i \in 1..n : 3 + i - 1 = 2 + i
    BY <1>1
  <2>4. \A i \in 1..Len(p) : p[i] = v[i]
    <3> HIDE DEF n
    <3> QED BY <1>4, <2>2, <2>3
  <2>5. p = v
    BY <2>2, <2>4, SeqEqual DEF Area
  <2> QED BY <2>5 DEF p
<1>8. 1 \in 1..(Len(Z) + 1) /\ 1 <= Len(Z) /\ 1 + 1 <= Len(Z) /\ 1 + 1 + Z[1 + 1] <= Len(Z)
      /\ 1 + 1 = 2 /\ 1 + 2 = 3 /\ 1 + 1 + n = 2 + n /\ 3 + n = 2 + n + 1
  BY <1>1, <1>3, <1>4
<1>9. Scan(Z)[1] = Preceded(Scan(Z)[1 + 2 + Z[1 + 1]], Z[1], SubSeq(Z, 1 + 2, 1 + 1 + Z[1 + 1]))
  BY <1>3, <1>4, <1>8, Unit
<1>10. Scan(Z)[1] = Preceded(Scan(Y)[1], c, v)
  BY <1>4, <1>6, <1>7, <1>8, <1>9
<1>11. Parse(Z) = Scan(Z)[1] /\ Parse(Y) = Scan(Y)[1]
  BY <1>3, ScanUnfolds
<1> QED BY <1>2, <1>3, <1>5, <1>10, <1>11 DEF Z

-----------------------------------------------------------------------------
(* Packets.                                                                *)

LEMMA Words ==
  /\ MessageType \in Nat \ {0, End} /\ ServerID \in Nat \ {0, End}
  /\ VendorClass \in Nat \ {0, End} /\ TftpServer \in Nat \ {0, End}
  /\ BootFileName \in Nat \ {0, End} /\ UserClass \in Nat \ {0, End}
  /\ ClientArch \in Nat \ {0, End} /\ PXEClient \in Nat /\ BootIpxeURL \in Nat /\ NilText \in Nat
  /\ Discover \in Nat /\ Offer \in Nat /\ Request \in Nat /\ Ack \in Nat
  /\ \A n \in Nat : <<n>> \in Area
  /\ \A n, k \in Nat : <<n, k>> \in Area
BY DEF MessageType, ServerID, VendorClass, TftpServer, BootFileName, UserClass, ClientArch, End,
       PXEClient, BootIpxeURL, NilText, Discover, Offer, Request, Ack, Area

LEMMA ValueIs ==
  ASSUME NEW options, NEW c, NEW v, <<c, v>> \in options,
         \A o \in options : o[1] = c => o = <<c, v>>
  PROVE  Has(options, c) /\ Value(options, c) = v
<1>1. Has(options, c)
  BY DEF Has
<1>2. (CHOOSE o \in options : o[1] = c) = <<c, v>>
  OBVIOUS
<1> QED BY <1>1, <1>2 DEF Value

LEMMA WrittenParsed ==
  ASSUME NEW m \in Machines, NEW c \in Nat \ {0, End}, NEW v \in Area, NEW Y \in Area
  PROVE  /\ Written(c, v, m) \in Area /\ Written(c, v, m) \o Y \in Area
         /\ Parse(Written(c, v, m) \o Y) = Preceded(Parse(Y), c, v)
<1> DEFINE o == Option(c, v)
<1>1. m.pads \in Seq({0})
  BY MachinesAssumption
<1>2. o \in Area /\ o \o Y \in Area /\ Parse(o \o Y) = Preceded(Parse(Y), c, v)
  BY OptionParsed
<1> HIDE DEF o
<1>3. /\ m.pads \in Area /\ m.pads \o o \in Area
      /\ m.pads \o (o \o Y) \in Area /\ Parse(m.pads \o (o \o Y)) = Parse(o \o Y)
  <2> DEFINE x == m.pads
             z == o \o Y
  <2>1. x \in Seq({0}) /\ z \in Area
    BY <1>1, <1>2
  <2> HIDE DEF x, z
  <2>2. x \in Area /\ x \o o \in Area
    BY <1>2, <2>1, PadsParsed
  <2>3. x \o z \in Area /\ Parse(x \o z) = Parse(z)
    BY <2>1, PadsParsed
  <2> QED BY <2>2, <2>3 DEF x, z
<1>4. (m.pads \o o) \o Y = m.pads \o (o \o Y)
  <2> DEFINE x == m.pads
  <2>1. x \in Area
    BY <1>3
  <2> HIDE DEF x
  <2>2. (x \o o) \o Y = x \o (o \o Y)
    BY <1>2, <2>1, Regrouped
  <2> QED BY <2>2 DEF x
<1> QED BY <1>2, <1>3, <1>4 DEF Written, o

\* Five parts from the right.
FromTheRight(P, Q, R, S, T) ==
  /\ P \o Q \o R \o S \o T = P \o (Q \o (R \o (S \o T)))
  /\ S \o T \in Area /\ R \o (S \o T) \in Area /\ Q \o (R \o (S \o T)) \in Area
  /\ P \o (Q \o (R \o (S \o T))) \in Area

LEMMA Grouped ==
  ASSUME NEW P \in Area, NEW Q \in Area, NEW R \in Area, NEW S \in Area, NEW T \in Area
  PROVE  FromTheRight(P, Q, R, S, T)
<1> DEFINE A == P \o Q
           B == A \o R
           C == S \o T
           D == R \o C
           G == Q \o D
<1>1. A \in Area
  BY Joined
<1>2. B \in Area
  <2> HIDE DEF A
  <2> QED BY <1>1, Joined
<1>3. C \in Area
  BY Joined
<1>4. D \in Area
  <2> HIDE DEF C
  <2> QED BY <1>3, Joined
<1>5. G \in Area /\ P \o G \in Area
  <2> HIDE DEF D
  <2>1. G \in Area
    BY <1>4, Joined
  <2> HIDE DEF G
  <2> QED BY <2>1, Joined
<1>6. (B \o S) \o T = B \o C
  <2> HIDE DEF B
  <2> QED BY <1>2, Regrouped
<1>7. B \o C = A \o D
  <2> HIDE DEF A, C
  <2> QED BY <1>1, <1>3, Regrouped, SMTT(30)
<1>8. A \o D = P \o G
  <2> HIDE DEF D
  <2> QED BY <1>4, Regrouped, SMTT(30)
<1>9. (B \o S) \o T = P \o G
  <2> HIDE DEF A, B, C, D, G
  <2> QED BY <1>6, <1>7, <1>8
<1> QED BY <1>3, <1>4, <1>5, <1>9, Zenon DEF FromTheRight

\* What stands behind the vendor class in a client's packet.
LEMMA TailParsed ==
  ASSUME NEW m \in Machines, NEW binary
  PROVE  LET U == IF binary = NoFile THEN <<>> ELSE Written(UserClass, m.class, m)
             E == IF m.ends THEN <<End>> ELSE <<>>
         IN  /\ U \in Area /\ E \in Area
             /\ Parse(U \o E) = IF binary = NoFile THEN {} ELSE {<<UserClass, m.class>>}
<1> DEFINE U == IF binary = NoFile THEN <<>> ELSE Written(UserClass, m.class, m)
           E == IF m.ends THEN <<End>> ELSE <<>>
<1>1. E \in Area /\ Parse(E) = NoOptions
  <2>1. <<End>> \in Area /\ Len(<<End>>) = 1 /\ <<End>>[1] = End
    BY DEF Area, End
  <2>2. Parse(<<End>>) = NoOptions
    BY <2>1, FirstUnit
  <2> QED BY <2>1, <2>2, NothingParsed
<1> HIDE DEF E
<1>2. CASE binary = NoFile
  <2>1. <<>> \in Seq({0})
    BY EmptySeq
  <2>2. <<>> \in Area /\ Parse(<<>> \o E) = NoOptions
    BY <1>1, <2>1, PadsParsed
  <2> QED BY <1>1, <1>2, <2>2 DEF E, NoOptions
<1>3. CASE binary # NoFile
  <2>1. m.class \in Area
    BY MachinesAssumption DEF Area
  <2>2. /\ Written(UserClass, m.class, m) \in Area
        /\ Parse(Written(UserClass, m.class, m) \o E) = Preceded(Parse(E), UserClass, m.class)
    BY <1>1, <2>1, Words, WrittenParsed
  <2>3. Preceded(NoOptions, UserClass, m.class) = {<<UserClass, m.class>>}
    BY DEF Preceded, Has, NoOptions
  <2> QED BY <1>1, <1>3, <2>2, <2>3 DEF E
<1> QED BY <1>2, <1>3 DEF E

\* What a machine sends is read as it is meant.
LEMMA PacketReadsBack ==
  ASSUME NEW m \in Machines, NEW type \in Nat, NEW binary
  PROVE  LET p == Packet(type, m, binary) IN p.area \in Area /\ Parse(p.area) = p.meant
<1> DEFINE P == Written(MessageType, <<type>>, m)
           Q == Written(ClientArch, m.arch, m)
           R == Written(VendorClass, <<PXEClient, 7>>, m)
           U == IF binary = NoFile THEN <<>> ELSE Written(UserClass, m.class, m)
           E == IF m.ends THEN <<End>> ELSE <<>>
           tail == IF binary = NoFile THEN {} ELSE {<<UserClass, m.class>>}
<1>1. <<type>> \in Area /\ m.arch \in Area /\ <<PXEClient, 7>> \in Area
  <2>1. \E a, b \in Nat : m.arch = <<a, b>>
    BY MachinesAssumption
  <2> QED BY <2>1, Words
<1>2. U \in Area /\ E \in Area /\ Parse(U \o E) = tail
  BY TailParsed
<1> HIDE DEF U, E
<1>3. P \in Area /\ Q \in Area /\ R \in Area
  BY <1>1, <1>2, Words, WrittenParsed
<1>4. P \o Q \o R \o U \o E = P \o (Q \o (R \o (U \o E)))
      /\ U \o E \in Area /\ R \o (U \o E) \in Area /\ Q \o (R \o (U \o E)) \in Area
      /\ P \o (Q \o (R \o (U \o E))) \in Area
  <2> HIDE DEF P, Q, R
  <2> DEFINE u == U
             e == E
  <2>1. P \in Area /\ Q \in Area /\ R \in Area /\ u \in Area /\ e \in Area
    BY <1>2, <1>3
  <2> HIDE DEF u, e
  <2>2. FromTheRight(P, Q, R, u, e)
    BY <2>1, Grouped
  <2> QED BY <2>2 DEF u, e, FromTheRight
<1> HIDE DEF tail
<1> DEFINE y5 == U \o E
           v5 == <<PXEClient, 7>>
<1>5. Parse(R \o (U \o E)) = Preceded(tail, VendorClass, <<PXEClient, 7>>)
  <2>1. y5 \in Area /\ v5 \in Area /\ Parse(y5) = tail
    BY <1>1, <1>2, <1>4
  <2> HIDE DEF y5, v5
  <2>2. Parse(Written(VendorClass, v5, m) \o y5) = Preceded(Parse(y5), VendorClass, v5)
    BY <2>1, Words, WrittenParsed
  <2> QED BY <2>1, <2>2 DEF y5, v5
<1> DEFINE y6 == R \o (U \o E)
<1>6. Parse(Q \o (R \o (U \o E))) = Preceded(Parse(R \o (U \o E)), ClientArch, m.arch)
  <2>1. y6 \in Area
    BY <1>4
  <2> HIDE DEF y6
  <2>2. Parse(Written(ClientArch, m.arch, m) \o y6) = Preceded(Parse(y6), ClientArch, m.arch)
    BY <1>1, <2>1, Words, WrittenParsed
  <2> QED BY <2>2 DEF y6
<1> DEFINE y7 == Q \o (R \o (U \o E))
           v7 == <<type>>
<1>7. Parse(P \o (Q \o (R \o (U \o E)))) = Preceded(Parse(Q \o (R \o (U \o E))), MessageType, <<type>>)
  <2>1. y7 \in Area /\ v7 \in Area
    BY <1>1, <1>4
  <2> HIDE DEF y7, v7
  <2>2. Parse(Written(MessageType, v7, m) \o y7) = Preceded(Parse(y7), MessageType, v7)
    BY <2>1, Words, WrittenParsed
  <2> QED BY <2>2 DEF y7, v7
<1>8. Preceded(tail, VendorClass, <<PXEClient, 7>>) = tail \cup {<<VendorClass, <<PXEClient, 7>> >>}
  BY DEF Preceded, Has, VendorClass, UserClass, tail
<1> DEFINE t2 == tail \cup {<<VendorClass, <<PXEClient, 7>> >>}
           t3 == t2 \cup {<<ClientArch, m.arch>>}
<1>9. Preceded(t2, ClientArch, m.arch) = t3
  BY DEF Preceded, Has, VendorClass, UserClass, ClientArch, tail
<1>10. Preceded(t3, MessageType, <<type>>) = t3 \cup {<<MessageType, <<type>> >>}
  BY DEF Preceded, Has, VendorClass, UserClass, ClientArch, MessageType, tail
<1>11. Parse(P \o Q \o R \o U \o E) = t3 \cup {<<MessageType, <<type>> >>}
  <2> HIDE DEF P, Q, R, t2, t3
  <2> QED BY <1>4, <1>5, <1>6, <1>7, <1>8, <1>9, <1>10 DEF t2, t3
<1>12. Packet(type, m, binary).area = P \o Q \o R \o U \o E
  BY DEF Packet, U, E
<1>13. Packet(type, m, binary).meant = t3 \cup {<<MessageType, <<type>> >>}
  BY DEF Packet, tail
<1> HIDE DEF P, Q, R, t3
<1> QED BY <1>4, <1>11, <1>12, <1>13

-----------------------------------------------------------------------------
(* The answer.                                                             *)

LEMMA FirstExists ==
  ASSUME NEW places, places \subseteq Nat \X Nat, places # {}
  PROVE  FirstOf(places) \in places
<1> DEFINE S1 == {u[1] : u \in places}
<1>1. S1 \subseteq Nat /\ S1 # {}
  OBVIOUS
<1>2. PICK a \in S1 : \A k \in S1 : a <= k
  <2> HIDE DEF S1
  <2> QED BY <1>1, SmallestExists
<1> DEFINE S2 == {u[2] : u \in {v \in places : v[1] = a}}
<1>3. S2 \subseteq Nat /\ S2 # {}
  BY <1>2
<1>4. PICK b \in S2 : \A k \in S2 : b <= k
  <2> HIDE DEF S2
  <2> QED BY <1>3, SmallestExists
<1>5. PICK u \in places : u[1] = a /\ u[2] = b
  BY <1>4
<1>6. ASSUME NEW v \in places PROVE u[1] < v[1] \/ (u[1] = v[1] /\ u[2] <= v[2])
  <2>1. v[1] \in S1 /\ u[1] \in Nat /\ v[1] \in Nat /\ a <= v[1]
    BY <1>2
  <2>2. CASE v[1] = a
    <3>1. v[2] \in S2
      BY <2>2
    <3> QED BY <1>4, <1>5, <2>2, <3>1
  <2>3. CASE v[1] # a
    BY <1>5, <2>1, <2>3
  <2> QED BY <2>2, <2>3
<1>7. \E w \in places : \A v \in places : w[1] < v[1] \/ (w[1] = v[1] /\ w[2] <= v[2])
  BY <1>6
<1> QED BY <1>7, Zenon DEF FirstOf

LEMMA Addresses ==
  /\ DOMAIN Net \subseteq Nat \ (IPv6s \cup Names \cup {NoAddress, Local})
  /\ \A u \in Usable : u \in Nat \X Nat /\ AddressAt(u) \in DOMAIN Net
  /\ \A peer : LocalIPFor(peer) \in DOMAIN Net \cup {Local}
  /\ \A l \in 0..Len(Links) : HasPrimary(l) => PrimaryIPv4(l) \in DOMAIN Net
<1>1. ASSUME NEW i \in 1..Len(Links)
      PROVE  /\ Len(Links[i].addresses) \in Nat
             /\ \A k \in 1..Len(Links[i].addresses) : Links[i].addresses[k] \in DOMAIN Net
  <2>1. Links[i].addresses \in Seq(DOMAIN Net)
    BY AddressAssumption
  <2> QED BY <2>1, LenProperties, ElementOfSeq
<1>2. \A u \in Usable : u \in Nat \X Nat /\ AddressAt(u) \in DOMAIN Net
  BY <1>1, AddressAssumption DEF Usable, AddressAt
<1>3. ASSUME NEW peer PROVE LocalIPFor(peer) \in DOMAIN Net \cup {Local}
  <2> DEFINE near == {u \in Usable : peer \in Net[AddressAt(u)]}
             places == IF near # {} THEN near ELSE Usable
  <2>1. CASE Usable = {}
    BY <2>1 DEF LocalIPFor
  <2>2. CASE Usable # {}
    <3>1. places \subseteq Usable /\ places # {} /\ places \subseteq Nat \X Nat
      BY <1>2, <2>2
    <3> HIDE DEF places
    <3>2. FirstOf(places) \in Usable
      BY <3>1, FirstExists
    <3>3. LocalIPFor(peer) = AddressAt(FirstOf(places))
      BY <2>2 DEF LocalIPFor, places
    <3> QED BY <1>2, <3>2, <3>3
  <2> QED BY <2>1, <2>2
<1>4. ASSUME NEW l \in 0..Len(Links), HasPrimary(l) PROVE PrimaryIPv4(l) \in DOMAIN Net
  <2>1. l \in 1..Len(Links) /\ Links[l].addresses # <<>>
    BY <1>4, AddressAssumption DEF HasPrimary, NoLink
  <2>2. Links[l].addresses \in Seq(DOMAIN Net)
    BY <2>1, AddressAssumption
  <2>3. Len(Links[l].addresses) > 0
    BY <2>1, <2>2, EmptySeq, LenProperties
  <2> QED BY <1>1, <2>1, <2>3 DEF PrimaryIPv4
<1> QED BY <1>2, <1>3, <1>4, AddressAssumption

LEMMA ServerIPTyped ==
  ASSUME NEW configured \in Nat, NEW l \in 0..Len(Links), NEW peer
  PROVE  ServerIP(configured, l, peer) \in Nat
BY Addresses DEF ServerIP, Local

LEMMA OptionTyped ==
  ASSUME NEW c \in Nat, NEW v \in Area
  PROVE  Option(c, v) \in Area /\ Len(Option(c, v)) = 2 + Len(v)
<1> DEFINE h == <<c, Len(v)>>
<1>1. h \in Area /\ Len(h) = 2
  BY LenProperties DEF Area
<1> HIDE DEF h
<1>2. h \o v \in Area /\ Len(h \o v) = Len(h) + Len(v)
  BY <1>1, Joined
<1> QED BY <1>1, <1>2 DEF h, Option

\* The rest of an answer, behind the server identifier.
Rest(ip, bootfile) ==
  Option(VendorClass, <<PXEClient>>)
    \o (Option(TftpServer, Text(ip)) \o (Option(BootFileName, bootfile) \o <<End>>))

LEMMA BuildGrouped ==
  ASSUME NEW type \in Nat, NEW ip \in Nat, NEW bootfile \in Area
  PROVE  /\ Rest(ip, bootfile) \in Area /\ To4(ip) \in Area /\ Text(ip) \in Area
         /\ Option(TftpServer, Text(ip)) \o (Option(BootFileName, bootfile) \o <<End>>) \in Area
         /\ Option(BootFileName, bootfile) \o <<End>> \in Area
         /\ <<ServerID, 1>> \o (To4(ip) \o Rest(ip, bootfile)) \in Area
         /\ Build(type, ip, bootfile) =
              <<0, 0>> \o (Option(MessageType, <<type>>)
                 \o (<<ServerID, 1>> \o (To4(ip) \o Rest(ip, bootfile))))
<1> DEFINE Z == <<0, 0>>
           O53 == Option(MessageType, <<type>>)
           S == <<ServerID, 1>>
           T4 == To4(ip)
           O60 == Option(VendorClass, <<PXEClient>>)
           O66 == Option(TftpServer, Text(ip))
           O67 == Option(BootFileName, bootfile)
           E == <<End>>
           Pre == Z \o O53 \o S \o T4
           R == Rest(ip, bootfile)
<1>1. T4 \in Area /\ Text(ip) \in Area
  <2>1. <<>> \in Area /\ <<ip>> \in Area /\ <<NilText>> \in Area
    BY Words, NothingParsed
  <2> QED BY <2>1 DEF To4, Text
<1>2. Z \in Area /\ S \in Area /\ E \in Area
  BY DEF ServerID, End, Area
<1>3. O53 \in Area /\ O60 \in Area /\ O66 \in Area /\ O67 \in Area
  <2>1. <<type>> \in Area /\ <<PXEClient>> \in Area
    BY Words
  <2> QED BY <1>1, <2>1, Words, OptionTyped
<1> HIDE DEF Z, O53, S, T4, O60, O66, O67, E
<1>4. Pre \in Area
  <2> DEFINE A == Z \o O53
             B == A \o S
  <2>1. A \in Area
    BY <1>2, <1>3, Joined
  <2> HIDE DEF A
  <2>2. B \in Area
    BY <1>2, <2>1, Joined
  <2> HIDE DEF B
  <2>3. B \o T4 \in Area
    BY <1>1, <2>2, Joined
  <2> QED BY <2>3 DEF A, B
<1> HIDE DEF Pre
<1>5. FromTheRight(Pre, O60, O66, O67, E)
  BY <1>2, <1>3, <1>4, Grouped
<1>6. /\ Pre \o O60 \o O66 \o O67 \o E = Pre \o R
      /\ R \in Area /\ O66 \o (O67 \o E) \in Area /\ O67 \o E \in Area
  BY <1>5 DEF FromTheRight, Rest, O60, O66, O67, E
<1> HIDE DEF R
<1>7. FromTheRight(Z, O53, S, T4, R)
  BY <1>1, <1>2, <1>3, <1>6, Grouped
<1>8. Pre \o R = Z \o (O53 \o (S \o (T4 \o R))) /\ S \o (T4 \o R) \in Area
  BY <1>7 DEF FromTheRight, Pre
<1>9. Build(type, ip, bootfile) = Pre \o O60 \o O66 \o O67 \o E
  BY DEF Build, Pre, Z, O53, S, T4, O60, O66, O67, E
<1>10. Build(type, ip, bootfile) = Z \o (O53 \o (S \o (T4 \o R)))
  BY <1>6, <1>8, <1>9
<1> QED BY <1>1, <1>6, <1>8, <1>10 DEF Z, O53, S, T4, O66, O67, E, R

\* An answer for an IPv4 address is read as it is meant.
LEMMA BuildReadsBack ==
  ASSUME NEW type \in Nat, NEW ip \in Nat \ IPv6s, NEW bootfile \in Area
  PROVE  Parse(Build(type, ip, bootfile)) =
           {<<MessageType, <<type>> >>, <<ServerID, <<ip>> >>, <<VendorClass, <<PXEClient>> >>,
            <<TftpServer, <<ip>> >>, <<BootFileName, bootfile>>}
<1> DEFINE T67 == Option(BootFileName, bootfile) \o <<End>>
           T66 == Option(TftpServer, Text(ip)) \o T67
           T60 == Rest(ip, bootfile)
           T54 == <<ServerID, 1>> \o (To4(ip) \o T60)
           T53 == Option(MessageType, <<type>>) \o T54
<1>1. /\ T60 \in Area /\ T66 \in Area /\ T67 \in Area /\ T54 \in Area
      /\ Build(type, ip, bootfile) = <<0, 0>> \o T53
  BY BuildGrouped
<1>2. To4(ip) = <<ip>> /\ Text(ip) = <<ip>> /\ <<ip>> \in Area /\ <<PXEClient>> \in Area
      /\ <<type>> \in Area
  BY Words DEF To4, Text
<1>3. Parse(T67) = {<<BootFileName, bootfile>>}
  <2>1. <<End>> \in Area /\ Len(<<End>>) = 1 /\ <<End>>[1] = End
    BY DEF Area, End
  <2>2. Parse(<<End>>) = NoOptions
    BY <2>1, FirstUnit
  <2> DEFINE e == <<End>>
  <2>3. e \in Area /\ Parse(e) = NoOptions
    BY <2>1, <2>2
  <2> HIDE DEF e
  <2>4. Parse(Option(BootFileName, bootfile) \o e) = Preceded(Parse(e), BootFileName, bootfile)
    BY <2>3, Words, OptionParsed
  <2>5. Preceded(NoOptions, BootFileName, bootfile) = {<<BootFileName, bootfile>>}
    BY DEF Preceded, NoOptions, Has
  <2> QED BY <2>3, <2>4, <2>5 DEF e
<1>4. Parse(T66) = Preceded(Parse(T67), TftpServer, <<ip>>)
  <2> HIDE DEF T67
  <2> DEFINE v == <<ip>>
  <2>1. v \in Area /\ T66 = Option(TftpServer, v) \o T67
    BY <1>2
  <2> HIDE DEF v, T66
  <2>2. Parse(T66) = Preceded(Parse(T67), TftpServer, v)
    BY <1>1, <2>1, Words, OptionParsed
  <2> QED BY <2>2 DEF v
<1>5. Parse(T60) = Preceded(Parse(T66), VendorClass, <<PXEClient>>)
  <2> DEFINE v == <<PXEClient>>
  <2>1. v \in Area /\ T60 = Option(VendorClass, v) \o T66
    BY <1>2 DEF Rest
  <2> HIDE DEF v, T66, T60
  <2>2. Parse(T60) = Preceded(Parse(T66), VendorClass, v)
    BY <1>1, <2>1, Words, OptionParsed
  <2> QED BY <2>2 DEF v
<1>6. Parse(T54) = Preceded(Parse(T60), ServerID, <<ip>>)
  <2> DEFINE v == <<ip>>
             h == <<ServerID, 1>>
  <2>1. v \in Area /\ h \in Area /\ T54 = h \o (v \o T60) /\ Option(ServerID, v) = h \o v
    BY <1>2 DEF Option, ServerID, Area
  <2> HIDE DEF v, h, T54, T60
  <2> DEFINE t == T60
  <2>0. t \in Area
    BY <1>1
  <2>2. T54 = Option(ServerID, v) \o T60
    <3> HIDE DEF t
    <3>1. (h \o v) \o t = h \o (v \o t)
      BY <2>0, <2>1, Regrouped
    <3> QED BY <2>1, <3>1 DEF t
  <2>3. Parse(T54) = Preceded(Parse(T60), ServerID, v)
    BY <1>1, <2>1, <2>2, Words, OptionParsed
  <2> QED BY <2>3 DEF v
<1>7. T53 \in Area /\ Parse(T53) = Preceded(Parse(T54), MessageType, <<type>>)
  <2> DEFINE v == <<type>>
  <2>1. v \in Area /\ T53 = Option(MessageType, v) \o T54
    BY <1>2
  <2> HIDE DEF v, T54, T53
  <2>2. T53 \in Area /\ Parse(T53) = Preceded(Parse(T54), MessageType, v)
    BY <1>1, <2>1, Words, OptionParsed
  <2> QED BY <2>2 DEF v
<1>8. Parse(<<0, 0>> \o T53) = Parse(T53)
  <2> DEFINE z == <<0, 0>>
  <2>1. z \in Seq({0})
    OBVIOUS
  <2> HIDE DEF T53, z
  <2>2. Parse(z \o T53) = Parse(T53)
    BY <1>7, <2>1, PadsParsed
  <2> QED BY <2>2 DEF z
<1> HIDE DEF T53, T54, T60, T66, T67
<1> DEFINE o67 == {<<BootFileName, bootfile>>}
           o66 == o67 \cup {<<TftpServer, <<ip>> >>}
           o60 == o66 \cup {<<VendorClass, <<PXEClient>> >>}
           o54 == o60 \cup {<<ServerID, <<ip>> >>}
<1>9. /\ Preceded(o67, TftpServer, <<ip>>) = o66
      /\ Preceded(o66, VendorClass, <<PXEClient>>) = o60
      /\ Preceded(o60, ServerID, <<ip>>) = o54
      /\ Preceded(o54, MessageType, <<type>>) = o54 \cup {<<MessageType, <<type>> >>}
  BY DEF Preceded, Has, MessageType, ServerID, VendorClass, TftpServer, BootFileName
<1>10. Parse(Build(type, ip, bootfile)) = o54 \cup {<<MessageType, <<type>> >>}
  <2> HIDE DEF o67, o66, o60, o54
  <2> QED BY <1>1, <1>3, <1>4, <1>5, <1>6, <1>7, <1>8, <1>9 DEF o67
<1> QED BY <1>10

Short(bootfile) == Len(bootfile) <= 2

\* For an IPv6 address the rest is taken for the value of an option that does not fit, and
\* the answer names no server.
LEMMA BuildForIPv6 ==
  ASSUME NEW type \in Nat, NEW ip \in Nat, ip \in IPv6s, NEW bootfile \in Area,
         Short(bootfile)
  PROVE  ~Has(Parse(Build(type, ip, bootfile)), TftpServer)
<1> DEFINE T67 == Option(BootFileName, bootfile) \o <<End>>
           T66 == Option(TftpServer, Text(ip)) \o T67
           T60 == Rest(ip, bootfile)
           T54 == <<ServerID, 1>> \o (To4(ip) \o T60)
           T53 == Option(MessageType, <<type>>) \o T54
           tooLong == <<1, PXEClient>> \o T66
<1>1. /\ T60 \in Area /\ T66 \in Area /\ T67 \in Area /\ T54 \in Area
      /\ Build(type, ip, bootfile) = <<0, 0>> \o T53
  BY BuildGrouped
<1>2. To4(ip) = <<>> /\ Text(ip) = <<NilText>> /\ <<NilText>> \in Area /\ <<type>> \in Area
  BY Words DEF To4, Text
<1>3. Len(T66) <= 10
  <2> DEFINE a == Option(BootFileName, bootfile)
             b == Option(TftpServer, Text(ip))
             e == <<End>>
  <2>1. Len(bootfile) \in Nat /\ a \in Area /\ Len(a) = 2 + Len(bootfile)
    BY Words, OptionTyped, LenProperties DEF Area
  <2>9. Len(bootfile) <= 2
    BY DEF Short
  <2>2. b \in Area /\ Len(b) = 3
    <3>1. Len(<<NilText>>) = 1
      OBVIOUS
    <3> DEFINE n == <<NilText>>
    <3>2. n \in Area /\ Len(n) = 1 /\ b = Option(TftpServer, n)
      BY <1>2, <3>1
    <3> HIDE DEF n, b
    <3>3. TftpServer \in Nat
      BY Words
    <3>4. Option(TftpServer, n) \in Area /\ Len(Option(TftpServer, n)) = 2 + Len(n)
      BY <3>2, <3>3, OptionTyped
    <3> QED BY <3>2, <3>4
  <2>3. e \in Area /\ Len(e) = 1
    BY DEF Area, End
  <2> HIDE DEF a, b, e
  <2>4. Len(a \o e) = Len(a) + Len(e) /\ a \o e \in Area
    BY <2>1, <2>3, Joined
  <2> DEFINE t == a \o e
  <2>5. t \in Area /\ Len(t) <= 5 /\ Len(t) \in Nat
    BY <2>1, <2>3, <2>4, <2>9
  <2> HIDE DEF t
  <2>6. Len(b \o t) = Len(b) + Len(t)
    BY <2>2, <2>5, Joined
  <2>7. Len(b \o t) <= 10
    BY <2>2, <2>5, <2>6
  <2> QED BY <2>7 DEF t, a, b, e
<1>4. tooLong \in Area /\ Parse(tooLong) = NoOptions
  <2> DEFINE h == <<1, PXEClient>>
  <2>1. h \in Area /\ Len(h) = 2 /\ h[1] = 1 /\ h[2] = 1000
    BY DEF Area, PXEClient
  <2> DEFINE z == h \o T66
             t == T66
  <2>2. z \in Area /\ Len(T66) \in Nat /\ Len(z) = Len(h) + Len(T66)
        /\ \A i \in 1..Len(h) : z[i] = h[i]
    <3>1. t \in Area /\ h \in Area
      BY <1>1, <2>1
    <3> HIDE DEF h, t
    <3>2. h \o t \in Area /\ Len(t) \in Nat /\ Len(h \o t) = Len(h) + Len(t)
          /\ \A i \in 1..Len(h) : (h \o t)[i] = h[i]
      BY <3>1, Joined
    <3> QED BY <3>2 DEF t
  <2> HIDE DEF h, T66, z
  <2>3. 1 \in 1..(Len(z) + 1) /\ 1 <= Len(z) /\ z[1] = 1 /\ z[1 + 1] = 1000
        /\ ~(1 + 1 + 1000 <= Len(z))
    BY <1>3, <2>1, <2>2
  <2>4. z[1] \notin {0, End}
    BY <2>3 DEF End
  <2>5. Scan(z)[1] = NoOptions
    BY <2>2, <2>3, <2>4, Unit
  <2>6. Parse(z) = Scan(z)[1]
    BY <2>2, ScanUnfolds
  <2> QED BY <2>2, <2>5, <2>6 DEF z, h, T66
<1>5. T54 = Option(ServerID, <<VendorClass>>) \o tooLong
  <2> DEFINE h == <<ServerID, 1>>
             g == <<VendorClass, 1>>
             v == <<PXEClient>>
             w == <<VendorClass>>
             x == <<1, PXEClient>>
  <2>1. h \in Area /\ g \in Area /\ v \in Area /\ w \in Area /\ x \in Area
    BY DEF Area, ServerID, VendorClass, PXEClient
  <2>2. g \o v = w \o x
    OBVIOUS
  <2>3. Option(VendorClass, v) = g \o v /\ Option(ServerID, w) = h \o w
    BY DEF Option
  <2>4. T60 = Option(VendorClass, v) \o T66 /\ To4(ip) \o T60 = T60
    BY <1>1, <1>2, ConcatEmptySeq DEF Rest, Area
  <2> DEFINE t == T66
             y == x \o T66
  <2>0. t \in Area
    BY <1>1
  <2> HIDE DEF h, g, v, w, x
  <2>5. (w \o x) \o T66 = w \o (x \o T66)
    <3> HIDE DEF t
    <3>1. w \in Area /\ x \in Area
      BY <2>1
    <3>2. (w \o x) \o t = w \o (x \o t)
      BY <2>0, <3>1, Regrouped
    <3> QED BY <3>2 DEF t
  <2>6. y \in Area
    <3> HIDE DEF t
    <3>1. x \o t \in Area
      BY <2>0, <2>1, Joined
    <3> QED BY <3>1 DEF t
  <2> HIDE DEF T60, T66
  <2>7. (h \o w) \o y = h \o (w \o y)
    <3> HIDE DEF y
    <3>1. h \in Area /\ w \in Area
      BY <2>1
    <3> QED BY <2>6, <3>1, Regrouped
  <2>8. h \o (To4(ip) \o T60) = Option(ServerID, w) \o y
    BY <2>2, <2>3, <2>4, <2>5, <2>7
  <2> QED BY <2>8 DEF h, w, x, T66, T60
<1>6. Parse(T54) = {<<ServerID, <<VendorClass>> >>}
  <2> DEFINE v == <<VendorClass>>
  <2>1. v \in Area /\ T54 = Option(ServerID, v) \o tooLong
    BY <1>5, Words
  <2> HIDE DEF v, T54, tooLong
  <2>2. Parse(T54) = Preceded(Parse(tooLong), ServerID, v)
    BY <1>4, <2>1, Words, OptionParsed
  <2>3. Preceded(NoOptions, ServerID, v) = {<<ServerID, v>>}
    BY DEF Preceded, NoOptions, Has
  <2> QED BY <1>4, <2>2, <2>3 DEF v
<1>7. T53 \in Area /\ Parse(T53) = Preceded(Parse(T54), MessageType, <<type>>)
  <2> DEFINE v == <<type>>
  <2>1. v \in Area /\ T53 = Option(MessageType, v) \o T54
    BY <1>2
  <2> HIDE DEF v, T54, T53
  <2>2. T53 \in Area /\ Parse(T53) = Preceded(Parse(T54), MessageType, v)
    BY <1>1, <2>1, Words, OptionParsed
  <2> QED BY <2>2 DEF v
<1>8. Parse(<<0, 0>> \o T53) = Parse(T53)
  <2> DEFINE z == <<0, 0>>
  <2>1. z \in Seq({0})
    OBVIOUS
  <2> HIDE DEF T53, z
  <2>2. Parse(z \o T53) = Parse(T53)
    BY <1>7, <2>1, PadsParsed
  <2> QED BY <2>2 DEF z
<1> HIDE DEF T53, T54
<1>9. ~Has(Preceded({<<ServerID, <<VendorClass>> >>}, MessageType, <<type>>), TftpServer)
  BY DEF Preceded, Has, MessageType, ServerID, VendorClass, TftpServer
<1> QED BY <1>1, <1>6, <1>7, <1>8, <1>9

LEMMA PairJoined ==
  ASSUME NEW x \in Nat, NEW y \in Nat
  PROVE  <<x>> \o <<y>> = <<x, y>>
<1> DEFINE a == <<x>>
           b == <<y>>
           c == <<x, y>>
<1>1. a \in Area /\ b \in Area /\ Len(a) = 1 /\ Len(b) = 1 /\ a[1] = x /\ b[1] = y
  BY DEF Area
<1>2. c \in Area /\ Len(c) = 2 /\ c[1] = x /\ c[2] = y
  BY DEF Area
<1> HIDE DEF a, b, c
<1>3. /\ a \o b \in Area /\ Len(a \o b) = Len(a) + Len(b)
      /\ \A i \in 1..Len(a) : (a \o b)[i] = a[i]
      /\ \A i \in 1..Len(b) : (a \o b)[Len(a) + i] = b[i]
  BY <1>1, Joined
<1> DEFINE d == a \o b
<1>4. d \in Area /\ Len(d) = 2 /\ d[1] = x /\ d[1 + 1] = y
  BY <1>1, <1>3
<1> HIDE DEF d
<1>5. d[2] = y
  BY <1>4
<1>6. \A i \in 1..Len(d) : d[i] = c[i]
  BY <1>2, <1>4, <1>5
<1>7. d = c
  BY <1>2, <1>4, <1>6, SeqEqual DEF Area
<1> QED BY <1>7 DEF a, b, c, d

\* The answer to a packet, as its options are read.
AnswerTo(p, ip, l) == Answer(p, Parse(p.area), ip, l)

LEMMA AnswerHead ==
  ASSUME NEW p, NEW ip, NEW l
  PROVE  /\ AnswerTo(p, ip, l).op = 2 /\ AnswerTo(p, ip, l).xid = p.xid
         /\ AnswerTo(p, ip, l).to = IF p.port = 4011 THEN 4011 ELSE 68
BY DEF AnswerTo, Answer

LEMMA AnswerCookie ==
  ASSUME NEW p, NEW ip, NEW l
  PROVE  AnswerTo(p, ip, l).cookie = TRUE
BY DEF AnswerTo, Answer

LEMMA BootFileTyped ==
  ASSUME NEW arch, NEW isIPXE \in BOOLEAN, NEW ip \in Nat
  PROVE  LET bootfile == BootFile(arch, isIPXE, <<BootIpxeURL>> \o Text(ip))
         IN  bootfile \in Area /\ Short(bootfile)
<1> DEFINE url == <<BootIpxeURL>> \o Text(ip)
<1>1. url \in Area /\ Short(url)
  <2>1. url = <<BootIpxeURL, NilText>> \/ url = <<BootIpxeURL, ip>>
    BY PairJoined, Words DEF Text
  <2>2. ASSUME NEW n \in Nat PROVE <<BootIpxeURL, n>> \in Area /\ Short(<<BootIpxeURL, n>>)
    BY Words DEF Short
  <2>3. NilText \in Nat
    BY Words
  <2> HIDE DEF url
  <2> QED BY <2>1, <2>2, <2>3
<1>2. File(IpxeEfi) \in Area /\ File(Ipxe32Efi) \in Area /\ File(Undionly) \in Area
  BY Words DEF File, IpxeEfi, Ipxe32Efi, Undionly
<1>3. Short(File(IpxeEfi)) /\ Short(File(Ipxe32Efi)) /\ Short(File(Undionly))
  BY DEF File, Short
<1> HIDE DEF url
<1>4. BootFile(arch, isIPXE, url) \in {url, File(IpxeEfi), File(Ipxe32Efi), File(Undionly)}
  BY DEF BootFile
<1> QED BY <1>1, <1>2, <1>3, <1>4 DEF url

\* Whatever was asked, the answer for an IPv4 address is read as it is meant.
LEMMA AnswerReadsBack ==
  ASSUME NEW p, NEW ip \in Nat, NEW l \in 0..Len(Links)
  PROVE  LET a == AnswerTo(p, ip, l)
             sip == ServerIP(ip, l, p.peer)
         IN  /\ <<ServerID, <<sip>> >> \in a.meant
             /\ sip \notin IPv6s => Parse(a.area) = a.meant
             /\ sip \in IPv6s => ~Has(Parse(a.area), TftpServer)
<1> DEFINE options == Parse(p.area)
           option93 == Value(options, ClientArch)
           arch == IF Len(option93) = 2 THEN option93 ELSE ArchBIOS
           sip == ServerIP(ip, l, p.peer)
           isIPXE == IsIPXE(options)
           bootfile == BootFile(arch, isIPXE, <<BootIpxeURL>> \o Text(sip))
           type == IF Type(options) = <<Request>> THEN Ack ELSE Offer
           a == AnswerTo(p, ip, l)
<1>1. sip \in Nat
  BY ServerIPTyped
<1>2. isIPXE \in BOOLEAN
  BY DEF IsIPXE, Mentions
<1>3. bootfile \in Area /\ Short(bootfile)
  <2> HIDE DEF sip, isIPXE, arch
  <2> QED BY <1>1, <1>2, BootFileTyped
<1>4. type \in Nat
  BY DEF Ack, Offer
<1>5. /\ a.area = Build(type, sip, bootfile)
      /\ a.meant = {<<MessageType, <<type>> >>, <<ServerID, <<sip>> >>,
                    <<VendorClass, <<PXEClient>> >>, <<TftpServer, <<sip>> >>,
                    <<BootFileName, bootfile>>}
  BY DEF AnswerTo, Answer
<1> HIDE DEF sip, bootfile, type, a
<1>6. sip \notin IPv6s => Parse(a.area) = a.meant
  BY <1>1, <1>3, <1>4, <1>5, BuildReadsBack
<1>7. sip \in IPv6s => ~Has(Parse(a.area), TftpServer)
  BY <1>1, <1>3, <1>4, <1>5, BuildForIPv6
<1> QED BY <1>5, <1>6, <1>7 DEF sip, a

\* What firmware of an architecture is told to load.
Told(arch) ==
  IF arch \in {<<0, 7>>, <<0, 9>>, <<0, 11>>} THEN IpxeEfi
  ELSE IF arch = <<0, 6>> THEN Ipxe32Efi ELSE Undionly

LEMMA ToldRight ==
  ASSUME NEW m \in Machines
  PROVE  /\ Told(m.arch) \in IpxeNames /\ Told(m.arch) # BootIpxeURL
         /\ m.firmware # "arm64" => Told(m.arch) = Runs(m.firmware)
         /\ Len(m.arch) = 2
<1>1. <<m.firmware, m.arch>> \in
         {<<"bios", <<0, 0>> >>, <<"efi64", <<0, 7>> >>, <<"efi64", <<0, 9>> >>,
          <<"efi32", <<0, 6>> >>, <<"arm64", <<0, 11>> >>}
  BY MachinesAssumption
<1>2. {Undionly, IpxeEfi, Ipxe32Efi} \subseteq IpxeNames
  BY DEF IpxeNames, IpxeFiles
<1>3. /\ <<0, 0>> \notin {<<0, 7>>, <<0, 9>>, <<0, 11>>, <<0, 6>>}
      /\ <<0, 6>> \notin {<<0, 7>>, <<0, 9>>, <<0, 11>>}
  OBVIOUS
<1>4. m.firmware # "arm64" => Told(m.arch) = Runs(m.firmware)
  BY <1>1, <1>3 DEF Told, Runs
<1>5. Told(m.arch) # BootIpxeURL
  BY DEF Told, BootIpxeURL, Undionly, IpxeEfi, Ipxe32Efi
<1>6. Told(m.arch) \in IpxeNames
  BY <1>2 DEF Told
<1>7. Len(m.arch) = 2
  BY <1>1
<1> QED BY <1>4, <1>5, <1>6, <1>7

\* What a machine gets for its packet.
Suits(a, type, m, binary, sip) ==
  LET options == Parse(a.area) IN
  /\ a.op = 2 /\ a.xid = Mine /\ a.to = 68
  /\ sip \in IPv6s => ~Has(options, TftpServer)
  /\ sip \notin IPv6s =>
       /\ Type(options) = <<IF type = Request THEN Ack ELSE Offer>>
       /\ Value(options, VendorClass) = <<PXEClient>>
       /\ Has(options, TftpServer) /\ Value(options, TftpServer) = <<sip>>
       /\ Has(options, BootFileName)
       /\ Value(options, BootFileName) =
            IF binary # NoFile THEN <<BootIpxeURL, sip>> ELSE <<Told(m.arch)>>

LEMMA AnswerSuits ==
  ASSUME NEW m \in Machines, NEW type \in {Discover, Request}, NEW binary,
         NEW ip \in Nat, NEW l \in 0..Len(Links)
  PROVE  /\ Answers(Packet(type, m, binary), l)
         /\ Suits(AnswerTo(Packet(type, m, binary), ip, l), type, m, binary,
                  ServerIP(ip, l, NoAddress))
<1> DEFINE q == Packet(type, m, binary)
           a == AnswerTo(q, ip, l)
           sip == ServerIP(ip, l, NoAddress)
           asked == Parse(q.area)
<1>0. sip \in Nat
  BY ServerIPTyped
<1>1. type \in Nat
  BY Words
<1>2. asked = q.meant
  BY <1>1, PacketReadsBack
<1>3. q.meant = {<<MessageType, <<type>> >>, <<ClientArch, m.arch>>, <<VendorClass, <<PXEClient, 7>> >>}
                  \cup (IF binary = NoFile THEN {} ELSE {<<UserClass, m.class>>})
  BY DEF Packet
<1> HIDE DEF asked
<1>4. Value(asked, MessageType) = <<type>>
  <2>1. <<MessageType, <<type>> >> \in asked
    BY <1>2, <1>3
  <2>2. \A o \in asked : o[1] = MessageType => o = <<MessageType, <<type>> >>
    BY <1>2, <1>3 DEF MessageType, ClientArch, VendorClass, UserClass
  <2> QED BY <2>1, <2>2, ValueIs
<1>5. Value(asked, ClientArch) = m.arch
  <2>1. <<ClientArch, m.arch>> \in asked
    BY <1>2, <1>3
  <2>2. \A o \in asked : o[1] = ClientArch => o = <<ClientArch, m.arch>>
    BY <1>2, <1>3 DEF MessageType, ClientArch, VendorClass, UserClass
  <2> QED BY <2>1, <2>2, ValueIs
<1>6. Value(asked, VendorClass) = <<PXEClient, 7>>
  <2>1. <<VendorClass, <<PXEClient, 7>> >> \in asked
    BY <1>2, <1>3
  <2>2. \A o \in asked : o[1] = VendorClass => o = <<VendorClass, <<PXEClient, 7>> >>
    BY <1>2, <1>3 DEF MessageType, ClientArch, VendorClass, UserClass
  <2> QED BY <2>1, <2>2, ValueIs
<1>7. IsIPXE(asked) = (binary # NoFile)
  <2>1. CASE binary # NoFile
    <3>1. <<UserClass, m.class>> \in asked
      BY <1>2, <1>3, <2>1
    <3>2. \A o \in asked : o[1] = UserClass => o = <<UserClass, m.class>>
      BY <1>2, <1>3, <2>1 DEF MessageType, ClientArch, VendorClass, UserClass
    <3>3. Value(asked, UserClass) = m.class
      BY <3>1, <3>2, ValueIs
    <3>4. Mentions(m.class, IPXE)
      BY MachinesAssumption
    <3> QED BY <2>1, <3>3, <3>4 DEF IsIPXE
  <2>2. CASE binary = NoFile
    <3>1. ~Has(asked, UserClass)
      BY <1>2, <1>3, <2>2 DEF Has, MessageType, ClientArch, VendorClass, UserClass
    <3>2. Value(asked, UserClass) = <<>>
      BY <3>1 DEF Value
    <3>3. ~Mentions(<<>>, IPXE)
      BY DEF Mentions
    <3>4. ~IsIPXE(asked)
      BY <3>2, <3>3 DEF IsIPXE
    <3>5. IsIPXE(asked) \in BOOLEAN
      BY DEF IsIPXE, Mentions
    <3> QED BY <2>2, <3>4, <3>5
  <2> QED BY <2>1, <2>2
<1>8. Answers(q, l)
  <2>1. q.cookie /\ q.op = 1 /\ q.giaddr = NoAddress
    BY DEF Packet
  <2>2. StartsWith(<<PXEClient, 7>>, PXEClient)
    BY DEF StartsWith
  <2>3. Type(asked) \in {<<Discover>>, <<Request>>}
    BY <1>4 DEF Type
  <2> HIDE DEF q
  <2> QED BY <1>6, <2>1, <2>2, <2>3 DEF Answers, asked
<1> DEFINE bootfile == IF binary # NoFile THEN <<BootIpxeURL>> \o Text(sip) ELSE <<Told(m.arch)>>
           kind == IF type = Request THEN Ack ELSE Offer
<1>9. BootFile(m.arch, binary # NoFile, <<BootIpxeURL>> \o Text(sip)) = bootfile
  <2>1. CASE binary # NoFile
    BY <2>1 DEF BootFile
  <2>2. CASE binary = NoFile
    <3>1. m.arch \in {<<0, 0>>, <<0, 7>>, <<0, 9>>, <<0, 6>>, <<0, 11>>}
      BY MachinesAssumption
    <3> QED BY <2>2, <3>1 DEF BootFile, Told, File
  <2> QED BY <2>1, <2>2
<1>10. /\ a.op = 2 /\ a.xid = Mine /\ a.to = 68
       /\ a.meant = {<<MessageType, <<kind>> >>, <<ServerID, <<sip>> >>,
                     <<VendorClass, <<PXEClient>> >>, <<TftpServer, <<sip>> >>,
                     <<BootFileName, bootfile>>}
  <2>1. q.peer = NoAddress /\ q.xid = Mine /\ q.port = 68
    BY DEF Packet
  <2>2. (IF Type(asked) = <<Request>> THEN Ack ELSE Offer) = kind
    <3>1. <<type>> = <<Request>> <=> type = Request
      OBVIOUS
    <3> QED BY <1>4, <3>1 DEF Type
  <2>3. (IF Len(Value(asked, ClientArch)) = 2 THEN Value(asked, ClientArch) ELSE ArchBIOS) = m.arch
    BY <1>5, ToldRight
  <2>4. BootFile(m.arch, IsIPXE(asked), <<BootIpxeURL>> \o Text(sip)) = bootfile
    BY <1>7, <1>9
  <2> DEFINE arch == IF Len(Value(asked, ClientArch)) = 2 THEN Value(asked, ClientArch) ELSE ArchBIOS
             named == BootFile(arch, IsIPXE(asked), <<BootIpxeURL>> \o Text(sip))
             t == IF Type(asked) = <<Request>> THEN Ack ELSE Offer
  <2> HIDE DEF q, kind, bootfile
  <2>5. a.op = 2 /\ a.xid = Mine /\ a.to = 68
    <3>1. q.port # 4011
      BY <2>1
    <3>2. a.op = 2 /\ a.xid = q.xid /\ a.to = IF q.port = 4011 THEN 4011 ELSE 68
      BY AnswerHead
    <3>3. a.xid = Mine /\ a.to = 68
      BY <2>1, <3>1, <3>2
    <3> HIDE DEF a
    <3> QED BY <3>2, <3>3
  <2>6. a.meant = {<<MessageType, <<t>> >>, <<ServerID, <<sip>> >>,
                   <<VendorClass, <<PXEClient>> >>, <<TftpServer, <<sip>> >>,
                   <<BootFileName, named>>}
    BY <2>1 DEF AnswerTo, Answer, asked
  <2>7. t = kind /\ named = bootfile
    BY <2>2, <2>3, <2>4
  <2> HIDE DEF t, named, a, sip
  <2> QED BY <2>5, <2>6, <2>7
<1>11. /\ sip \notin IPv6s => Parse(a.area) = a.meant
       /\ sip \in IPv6s => ~Has(Parse(a.area), TftpServer)
  <2>1. q.peer = NoAddress
    BY DEF Packet
  <2> HIDE DEF q
  <2> QED BY <2>1, AnswerReadsBack
<1> HIDE DEF q, a, kind, bootfile
<1>12. ASSUME sip \notin IPv6s
       PROVE  LET options == Parse(a.area) IN
              /\ Type(options) = <<kind>>
              /\ Value(options, VendorClass) = <<PXEClient>>
              /\ Has(options, TftpServer) /\ Value(options, TftpServer) = <<sip>>
              /\ Has(options, BootFileName) /\ Value(options, BootFileName) = bootfile
  <2> DEFINE options == Parse(a.area)
  <2>1. options = {<<MessageType, <<kind>> >>, <<ServerID, <<sip>> >>,
                     <<VendorClass, <<PXEClient>> >>, <<TftpServer, <<sip>> >>,
                     <<BootFileName, bootfile>>}
    BY <1>10, <1>11, <1>12
  <2> HIDE DEF options, sip
  <2>2. /\ <<MessageType, <<kind>> >> \in options
        /\ \A o \in options : o[1] = MessageType => o = <<MessageType, <<kind>> >>
    BY <2>1 DEF MessageType, ServerID, VendorClass, TftpServer, BootFileName
  <2>3. /\ <<VendorClass, <<PXEClient>> >> \in options
        /\ \A o \in options : o[1] = VendorClass => o = <<VendorClass, <<PXEClient>> >>
    BY <2>1 DEF MessageType, ServerID, VendorClass, TftpServer, BootFileName
  <2>4. /\ <<TftpServer, <<sip>> >> \in options
        /\ \A o \in options : o[1] = TftpServer => o = <<TftpServer, <<sip>> >>
    BY <2>1 DEF MessageType, ServerID, VendorClass, TftpServer, BootFileName
  <2>5. /\ <<BootFileName, bootfile>> \in options
        /\ \A o \in options : o[1] = BootFileName => o = <<BootFileName, bootfile>>
    BY <2>1 DEF MessageType, ServerID, VendorClass, TftpServer, BootFileName
  <2>6. Type(options) = <<kind>>
    BY <2>2, ValueIs DEF Type
  <2>7. Value(options, VendorClass) = <<PXEClient>>
    BY <2>3, ValueIs
  <2>8. Has(options, TftpServer) /\ Value(options, TftpServer) = <<sip>>
    BY <2>4, ValueIs
  <2>9. Has(options, BootFileName) /\ Value(options, BootFileName) = bootfile
    BY <2>5, ValueIs
  <2> QED BY <2>6, <2>7, <2>8, <2>9 DEF options
<1>13. sip \notin IPv6s =>
         bootfile = IF binary # NoFile THEN <<BootIpxeURL, sip>> ELSE <<Told(m.arch)>>
  BY <1>0, PairJoined, Words DEF bootfile, Text
<1> HIDE DEF sip
<1>14. Suits(a, type, m, binary, sip)
  BY <1>10, <1>11, <1>12, <1>13 DEF Suits, kind
<1> QED BY <1>8, <1>14 DEF q, a, sip

-----------------------------------------------------------------------------
(* The invariant of the boot.                                              *)

\* The request the machine waits with.
Asking == Packet(AskedFor, machine, loaded)

\* While it waits, nothing is under way but its request and answers to it, each for an
\* address and an interface of some moment.
Asked ==
  Waiting =>
    /\ wire \subseteq {Asking}
    /\ \A r \in air : \E ip \in Configured \cup {NoAddress}, l \in DHCPLinks \cup {NoLink} :
         r = AnswerTo(Asking, ip, l)

MachineOn == stage # "off" => machine \in Machines

\* In a calm boot nothing has changed since the start, each answer is the right one, one
\* of them or the request is still there, and the address is handed on from step to step.
Calm ==
  calm =>
    /\ Undisturbed(machine, home) /\ home \in DOMAIN Net
    /\ stage \notin {"off", "stuck"}
    /\ Waiting => /\ \A r \in air : r = AnswerTo(Asking, serverIP, link)
                  /\ wire # {} \/ air # {}
    /\ stage \in {"tftp", "script", "chain", "grub", "menu"} => base = home

ChainInv == FilesInv /\ TypeOK /\ MachineOn /\ Asked /\ RightBinary /\ Calm

\* An interface of the kinds it may be; addresses are numbers.
LEMMA Typed ==
  ASSUME TypeOK
  PROVE  /\ link \in 0..Len(Links) /\ serverIP \in Nat
         /\ \A ip \in Configured \cup {NoAddress} : ip \in Nat
         /\ \A l \in DHCPLinks \cup {NoLink} : l \in 0..Len(Links)
         /\ AskedFor \in {Discover, Request} /\ serverIP \in Configured \cup {NoAddress}
<1>1. \A l \in DHCPLinks \cup {NoLink} : l \in 0..Len(Links)
  BY AddressAssumption, BootChainAssumption DEF NoLink
<1>2. \A ip \in Configured \cup {NoAddress} : ip \in Nat
  BY BootFilesAssumption DEF NoAddress
<1> QED BY <1>1, <1>2 DEF TypeOK, FilesTypeOK, AskedFor

\* An answer the machine takes names one address, and is for its firmware or for iPXE; in
\* a calm boot the address is the machine's.
LEMMA AnswerTaken ==
  ASSUME ChainInv, Waiting, NEW r \in air, Acceptable(r)
  PROVE  \E sip :
           /\ Value(Parse(r.area), TftpServer) = <<sip>>
           /\ Value(Parse(r.area), BootFileName) =
                IF loaded # NoFile THEN <<BootIpxeURL, sip>> ELSE <<Told(machine.arch)>>
           /\ calm => sip = home
<1>1. machine \in Machines
  BY DEF ChainInv, MachineOn, Waiting
<1>2. PICK ip \in Configured \cup {NoAddress}, l \in DHCPLinks \cup {NoLink} :
        /\ r = AnswerTo(Asking, ip, l)
        /\ calm => ip = serverIP /\ l = link
  <2>1. CASE calm
    <3>1. r = AnswerTo(Asking, serverIP, link)
      BY <2>1 DEF ChainInv, Calm
    <3>2. serverIP \in Configured \cup {NoAddress} /\ link \in DHCPLinks \cup {NoLink}
      BY DEF ChainInv, TypeOK, FilesTypeOK
    <3> QED BY <3>1, <3>2
  <2>2. CASE ~calm
    BY <2>2 DEF ChainInv, Asked
  <2> QED BY <2>1, <2>2
<1>3. ip \in Nat /\ l \in 0..Len(Links) /\ AskedFor \in {Discover, Request}
  BY Typed DEF ChainInv
<1> DEFINE sip == ServerIP(ip, l, NoAddress)
           options == Parse(r.area)
<1>4. Has(options, TftpServer)
  BY DEF Acceptable
<1>5. Suits(r, AskedFor, machine, loaded, sip)
  <2>1. Suits(AnswerTo(Packet(AskedFor, machine, loaded), ip, l), AskedFor, machine, loaded, sip)
    BY <1>1, <1>3, AnswerSuits
  <2> QED BY <1>2, <2>1 DEF Asking
<1> HIDE DEF sip
<1>6. sip \notin IPv6s
  BY <1>4, <1>5 DEF Suits
<1>7. /\ Value(options, TftpServer) = <<sip>>
      /\ Value(options, BootFileName) =
           IF loaded # NoFile THEN <<BootIpxeURL, sip>> ELSE <<Told(machine.arch)>>
  BY <1>5, <1>6 DEF Suits
<1>8. calm => sip = home
  <2>1. calm => ServerIP(serverIP, link, NoAddress) = home
    BY DEF ChainInv, Calm, Undisturbed
  <2> QED BY <1>2, <2>1 DEF sip
<1> QED BY <1>7, <1>8

\* In a calm boot each answer is of use.
LEMMA AnswerUseful ==
  ASSUME ChainInv, Waiting, calm, NEW r \in air
  PROVE  Acceptable(r)
<1>1. machine \in Machines
  BY DEF ChainInv, MachineOn, Waiting
<1>2. r = AnswerTo(Packet(AskedFor, machine, loaded), serverIP, link)
  BY DEF ChainInv, Calm, Asking
<1>3. serverIP \in Nat /\ link \in 0..Len(Links) /\ AskedFor \in {Discover, Request}
  BY Typed DEF ChainInv
<1>4. ServerIP(serverIP, link, NoAddress) \notin IPv6s
  <2>1. ServerIP(serverIP, link, NoAddress) \in DOMAIN Net
    BY DEF ChainInv, Calm, Undisturbed
  <2> QED BY <2>1, Addresses
<1>5. Awaited = IF AskedFor = Request THEN Ack ELSE Offer
  BY DEF Awaited, AskedFor, Request, Discover
<1> DEFINE options == Parse(r.area)
           sip == ServerIP(serverIP, link, NoAddress)
<1>6. Suits(r, AskedFor, machine, loaded, sip)
  <2>1. Suits(AnswerTo(Packet(AskedFor, machine, loaded), serverIP, link),
              AskedFor, machine, loaded, sip)
    BY <1>1, <1>3, AnswerSuits
  <2> QED BY <1>2, <2>1
<1> HIDE DEF sip
<1>7. r.cookie
  <2>1. r.cookie = TRUE
    BY <1>2, AnswerCookie
  <2> QED BY <2>1, Zenon
<1>8. /\ Type(options) = <<Awaited>> /\ Value(options, VendorClass) = <<PXEClient>>
      /\ Has(options, TftpServer) /\ Has(options, BootFileName)
  BY <1>4, <1>5, <1>6 DEF Suits, sip
<1> HIDE DEF options
<1>9. \E o \in {options} :
        /\ Type(o) = <<Awaited>> /\ Value(o, VendorClass) = <<PXEClient>>
        /\ Has(o, TftpServer) /\ Has(o, BootFileName)
  BY <1>8
<1>10. r.op = 2 /\ r.xid = Mine /\ r.to = 68
  BY <1>6 DEF Suits
<1> QED BY <1>7, <1>9, <1>10, Zenon DEF Acceptable, options

LEMMA InitChain == Init => ChainInv
<1> SUFFICES ASSUME Init PROVE ChainInv
  OBVIOUS
<1>1. FilesInv
  BY InitFiles
<1>2. TypeOK
  BY <1>1 DEF Init, TypeOK, FilesInv
<1> QED BY <1>1, <1>2 DEF Init, ChainInv, MachineOn, Asked, RightBinary, Calm, Waiting

\* The server's own steps leave the machine and the network as they are, and none is
\* taken in a calm boot that would not end it.
LEMMA ServerStep ==
  ASSUME ChainInv, FilesInv', Server
  PROVE  ChainInv'
<1>1. UNCHANGED <<machine, home, offered, stage, wire, air, file, base, loaded>>
  BY DEF Server, machineVars
<1>2. link' \in DHCPLinks \cup {NoLink} /\ calm' \in BOOLEAN
  BY DEF Server, machineVars, ChainInv, TypeOK
<1>3. TypeOK'
  BY <1>1, <1>2 DEF ChainInv, TypeOK, FilesInv
<1>4. MachineOn' /\ Asked' /\ RightBinary'
  BY <1>1 DEF ChainInv, MachineOn, Asked, RightBinary, Waiting, Asking, AskedFor
<1>5. ~calm'
  <2>1. CASE Prepare
    <3>1. prep.at # "done"
      BY <2>1 DEF Prepare, SkipFile, GetFails, Get, CopyFails, CopyEnds, ReadAddress, NoMkimage,
                  MakeImage, MakeFails, MakeEnds, Wanted, Fetching
    <3>2. ~calm
      BY <3>1 DEF ChainInv, Calm, Undisturbed
    <3>3. calm' = calm \/ calm' = FALSE
      BY DEF Server, machineVars
    <3> QED BY <3>2, <3>3
  <2>2. CASE (SetAddress \/ Crash) /\ calm' = FALSE
    BY <2>2
  <2>3. CASE Restart
    <3>1. ~calm
      BY <2>3 DEF Restart, ChainInv, Calm, Undisturbed
    <3>2. calm' = calm \/ calm' = FALSE
      BY DEF Server, machineVars
    <3> QED BY <3>1, <3>2
  <2> QED BY <2>1, <2>2, <2>3 DEF Server
<1>6. Calm'
  BY <1>5 DEF Calm
<1> QED BY <1>3, <1>4, <1>6 DEF ChainInv

-----------------------------------------------------------------------------
(* The steps of the network and of the machine.                            *)

\* Where the machine stands still, and nothing of the program changes, it is the packets
\* under way that matter.
LEMMA StandsStill ==
  ASSUME ChainInv, FilesInv',
         UNCHANGED <<link, machine, home, offered, stage, file, base, loaded>>,
         calm' \in BOOLEAN, Asked', Calm'
  PROVE  ChainInv'
<1>1. TypeOK'
  BY DEF ChainInv, TypeOK, FilesInv
<1>2. MachineOn' /\ RightBinary'
  BY DEF ChainInv, MachineOn, RightBinary
<1> QED BY <1>1, <1>2 DEF ChainInv

LEMMA StrayStep ==
  ASSUME ChainInv, FilesInv', Stray
  PROVE  ChainInv'
<1>1. /\ UNCHANGED <<link, machine, home, offered, stage, file, base, loaded, calm>>
      /\ stage = "off"
  BY DEF Stray
<1>2. ~calm /\ calm \in BOOLEAN
  BY <1>1 DEF ChainInv, Calm, TypeOK
<1>3. Asked' /\ Calm'
  BY <1>1, <1>2 DEF Asked, Calm, Waiting
<1> QED BY <1>1, <1>2, <1>3, StandsStill

LEMMA HandleStep ==
  ASSUME ChainInv, FilesInv', Handle
  PROVE  ChainInv'
<1>1. UNCHANGED <<filesVars, link, machine, home, offered, stage, file, base, loaded, calm>>
  BY DEF Handle, AnswerTo
<1>2. PICK p \in wire :
        /\ wire' = wire \ {p}
        /\ air' = IF program = "up" /\ Answers(p, link) THEN air \cup {AnswerTo(p, serverIP, link)}
                  ELSE air
  BY DEF Handle, AnswerTo
<1>3. calm' \in BOOLEAN
  BY <1>1 DEF ChainInv, TypeOK
<1>4. Asking' = Asking /\ Waiting' = Waiting
  BY <1>1 DEF Asking, AskedFor, Waiting
<1>5. Waiting => p = Asking
  BY <1>2 DEF ChainInv, Asked
<1>6. /\ serverIP \in Configured \cup {NoAddress} /\ link \in DHCPLinks \cup {NoLink}
  BY DEF ChainInv, TypeOK, FilesTypeOK
<1>7. Asked'
  <2> SUFFICES ASSUME Waiting
               PROVE  /\ wire' \subseteq {Asking}
                      /\ \A r \in air' : \E ip \in Configured \cup {NoAddress},
                                            l \in DHCPLinks \cup {NoLink} :
                           r = AnswerTo(Asking, ip, l)
    BY <1>4 DEF Asked
  <2>1. wire \subseteq {Asking}
        /\ \A r \in air : \E ip \in Configured \cup {NoAddress}, l \in DHCPLinks \cup {NoLink} :
             r = AnswerTo(Asking, ip, l)
    BY DEF ChainInv, Asked
  <2>2. \A r \in air' : r \in air \/ r = AnswerTo(Asking, serverIP, link)
    BY <1>2, <1>5
  <2> QED BY <1>2, <1>6, <2>1, <2>2
<1>8. Calm'
  <2> SUFFICES ASSUME calm PROVE Calm'
    BY <1>1 DEF Calm
  <2>1. Undisturbed(machine, home)'
    BY <1>1 DEF ChainInv, Calm, Undisturbed, filesVars
  <2>2. ASSUME Waiting
        PROVE  (\A r \in air' : r = AnswerTo(Asking, serverIP, link)) /\ air' # {}
    <3>1. Answers(p, link)
      <4>1. machine \in Machines
        BY <2>2 DEF ChainInv, MachineOn, Waiting
      <4>2. link \in 0..Len(Links) /\ AskedFor \in {Discover, Request} /\ serverIP \in Nat
        BY Typed DEF ChainInv
      <4>3. Answers(Packet(AskedFor, machine, loaded), link)
        BY <4>1, <4>2, AnswerSuits
      <4> QED BY <1>5, <2>2, <4>3 DEF Asking
    <3>2. program = "up"
      BY DEF ChainInv, Calm, Undisturbed
    <3>3. air' = air \cup {AnswerTo(Asking, serverIP, link)}
      BY <1>2, <1>5, <2>2, <3>1, <3>2
    <3> QED BY <2>2, <3>3 DEF ChainInv, Calm
  <2>3. serverIP' = serverIP
    BY <1>1 DEF filesVars
  <2> QED BY <1>1, <1>4, <2>1, <2>2, <2>3 DEF ChainInv, Calm
<1> QED BY <1>1, <1>3, <1>7, <1>8, StandsStill

LEMMA LoseStep ==
  ASSUME ChainInv, FilesInv', Lose
  PROVE  ChainInv'
<1>1. /\ UNCHANGED <<link, machine, home, offered, stage, file, base, loaded>>
      /\ calm' = FALSE /\ wire' \subseteq wire /\ air' \subseteq air
  BY DEF Lose
<1>2. Asked'
  BY <1>1 DEF ChainInv, Asked, Waiting, Asking, AskedFor
<1>3. Calm' /\ calm' \in BOOLEAN
  BY <1>1 DEF Calm
<1> QED BY <1>1, <1>2, <1>3, StandsStill

LEMMA PowerOnStep ==
  ASSUME ChainInv, FilesInv', PowerOn
  PROVE  ChainInv'
<1>1. /\ machine' \in Machines /\ home' \in DOMAIN Net
      /\ wire' = {Packet(Discover, machine', NoFile)} /\ air' = {}
      /\ stage' = "discover" /\ loaded' = NoFile /\ file' = NoFile /\ base' = NoAddress
      /\ UNCHANGED <<filesVars, link, offered>>
  BY DEF PowerOn, Send
<1>2. calm' = Undisturbed(machine', home')
  BY DEF PowerOn
<1>3. calm' \in BOOLEAN
  <2>1. Undisturbed(machine', home') \in BOOLEAN
    BY DEF Undisturbed
  <2> QED BY <1>2, <2>1
<1>4. TypeOK'
  BY <1>1, <1>3 DEF ChainInv, TypeOK, FilesInv
<1>5. Asking' = Packet(Discover, machine', NoFile)
  BY <1>1 DEF Asking, AskedFor
<1>6. MachineOn' /\ Asked' /\ RightBinary'
  BY <1>1, <1>5 DEF MachineOn, Asked, RightBinary
<1>7. Calm'
  <2> SUFFICES ASSUME calm' PROVE Calm'
    BY DEF Calm
  <2>1. Undisturbed(machine', home')
    BY <1>2
  <2>2. Undisturbed(machine, home)'
    BY <1>1, <2>1 DEF Undisturbed, filesVars
  <2> QED BY <1>1, <2>2 DEF Calm
<1> QED BY <1>4, <1>6, <1>7 DEF ChainInv

\* A request is sent again, or for the offer.
LEMMA AskStep ==
  ASSUME ChainInv, FilesInv', Confirm \/ Again
  PROVE  ChainInv'
<1>1. /\ UNCHANGED <<filesVars, link, machine, home, offered, file, base, loaded, calm>>
      /\ Waiting /\ Waiting' /\ wire' = {Asking'} /\ air' = {}
      /\ stage' \in {"discover", "request"}
  <2>1. CASE Confirm
    BY <2>1 DEF Confirm, Send, Waiting, Asking, AskedFor
  <2>2. CASE Again
    BY <2>2 DEF Again, Unanswered, Send, Waiting, Asking, AskedFor
  <2> QED BY <2>1, <2>2
<1>2. TypeOK'
  BY <1>1 DEF ChainInv, TypeOK, FilesInv
<1>3. MachineOn' /\ Asked' /\ RightBinary'
  BY <1>1 DEF ChainInv, MachineOn, Asked, RightBinary, Waiting
<1>4. Calm'
  <2> SUFFICES ASSUME calm PROVE Calm'
    BY <1>1 DEF Calm
  <2>1. Undisturbed(machine, home)'
    BY <1>1 DEF ChainInv, Calm, Undisturbed, filesVars
  <2> QED BY <1>1, <2>1 DEF ChainInv, Calm
<1> QED BY <1>2, <1>3, <1>4 DEF ChainInv

LEMMA TakeStep ==
  ASSUME ChainInv, FilesInv', Take
  PROVE  ChainInv'
<1>1. /\ Waiting /\ UNCHANGED <<filesVars, link, machine, home, offered, loaded, calm>>
      /\ machine \in Machines
  BY DEF Take, Waiting, ChainInv, MachineOn
<1>2. PICK r \in air :
        /\ Acceptable(r)
        /\ IF Value(Parse(r.area), BootFileName)[1] = BootIpxeURL
           THEN stage' = "script" /\ base' = Value(Parse(r.area), BootFileName)[2] /\ file' = NoFile
           ELSE /\ stage' = "tftp" /\ base' = Value(Parse(r.area), TftpServer)[1]
                /\ file' = Value(Parse(r.area), BootFileName)[1]
  BY DEF Take
<1>3. PICK sip :
        /\ Value(Parse(r.area), TftpServer) = <<sip>>
        /\ Value(Parse(r.area), BootFileName) =
             IF loaded # NoFile THEN <<BootIpxeURL, sip>> ELSE <<Told(machine.arch)>>
        /\ calm => sip = home
  BY <1>1, <1>2, AnswerTaken
<1>4. /\ Told(machine.arch) \in IpxeNames /\ Told(machine.arch) # BootIpxeURL
      /\ machine.firmware # "arm64" => Told(machine.arch) = Runs(machine.firmware)
  BY <1>1, ToldRight
<1>5. /\ base' = sip
      /\ \/ stage' = "script" /\ file' = NoFile
         \/ stage' = "tftp" /\ file' = Told(machine.arch) /\ loaded = NoFile
  <2>1. CASE loaded # NoFile
    <3>1. Value(Parse(r.area), BootFileName) = <<BootIpxeURL, sip>>
      BY <1>3, <2>1
    <3> QED BY <1>2, <3>1
  <2>2. CASE loaded = NoFile
    <3>1. Value(Parse(r.area), BootFileName) = <<Told(machine.arch)>>
      BY <1>3, <2>2
    <3> QED BY <1>2, <1>3, <1>4, <2>2, <3>1
  <2> QED BY <2>1, <2>2
<1>6. TypeOK'
  BY <1>1, <1>4, <1>5 DEF ChainInv, TypeOK, FilesInv
<1>7. MachineOn' /\ Asked' /\ RightBinary'
  BY <1>1, <1>4, <1>5 DEF MachineOn, Asked, RightBinary, Waiting
<1>8. Calm'
  <2> SUFFICES ASSUME calm PROVE Calm'
    BY <1>1 DEF Calm
  <2>1. Undisturbed(machine, home)'
    BY <1>1 DEF ChainInv, Calm, Undisturbed, filesVars
  <2> QED BY <1>1, <1>3, <1>5, <2>1 DEF ChainInv, Calm, Waiting
<1> QED BY <1>6, <1>7, <1>8 DEF ChainInv

\* A machine that is answered does not give up.
LEMMA GiveUpStep ==
  ASSUME ChainInv, FilesInv', GiveUp
  PROVE  ChainInv'
<1>1. /\ stage' = "stuck" /\ Waiting /\ wire = {} /\ ~\E r \in air : Acceptable(r)
      /\ UNCHANGED <<filesVars, link, machine, home, offered, wire, air, file, base, loaded, calm>>
  BY DEF GiveUp, Unanswered
<1>2. ~calm
  BY <1>1, AnswerUseful DEF ChainInv, Calm
<1>3. TypeOK'
  BY <1>1 DEF ChainInv, TypeOK, FilesInv
<1>4. MachineOn' /\ Asked' /\ RightBinary' /\ Calm'
  BY <1>1, <1>2 DEF ChainInv, MachineOn, Asked, RightBinary, Calm, Waiting
<1> QED BY <1>3, <1>4 DEF ChainInv

\* In a calm boot the preparation has ended well.
LEMMA CalmFiles ==
  ASSUME ChainInv, calm
  PROVE  /\ program = "up" /\ prep.at = "done"
         /\ \A f \in IpxeNames : disk[f].is = "whole"
         /\ \A f \in GrubNames : disk[f].is = "whole" /\ disk[f].prefix = home
<1>1. /\ program = "up" /\ prep.at = "done" /\ ~failed /\ ~stale
      /\ (IF serverIP = NoAddress THEN LocalIPFor(NoAddress) ELSE serverIP) = home
  BY DEF ChainInv, Calm, Undisturbed
<1>2. PreparedIsWhole
  BY FilesReady DEF ChainInv
<1> QED BY <1>1, <1>2 DEF PreparedIsWhole, Whole

LEMMA LoadStep ==
  ASSUME ChainInv, FilesInv', LoadBinary
  PROVE  ChainInv'
<1>1. /\ stage = "tftp" /\ UNCHANGED <<filesVars, link, machine, home, offered, file, base, calm>>
      /\ machine \in Machines
  BY DEF LoadBinary, ChainInv, MachineOn
<1>2. \/ /\ stage' = "discover" /\ loaded' = file
         /\ wire' = {Packet(Discover, machine, file)} /\ air' = {}
      \/ /\ ~(Reaches(base) /\ disk[file].is = "whole" /\ file = Runs(machine.firmware))
         /\ stage' = "stuck" /\ UNCHANGED <<wire, air, loaded>>
  BY DEF LoadBinary, Send
<1>3. file \in IpxeNames \cup {NoFile} /\ loaded \in IpxeNames \cup {NoFile}
  BY DEF ChainInv, TypeOK
<1>4. TypeOK'
  BY <1>1, <1>2, <1>3 DEF ChainInv, TypeOK, FilesInv
<1>5. stage' = "discover" => wire' = {Asking'} /\ air' = {}
  BY <1>1, <1>2 DEF Asking, AskedFor
<1>6. MachineOn' /\ Asked' /\ RightBinary'
  BY <1>1, <1>2, <1>5 DEF MachineOn, Asked, RightBinary, Waiting
<1>7. Calm'
  <2> SUFFICES ASSUME calm PROVE Calm'
    BY <1>1 DEF Calm
  <2>1. Undisturbed(machine, home)'
    BY <1>1 DEF ChainInv, Calm, Undisturbed, filesVars
  <2>2. base = home /\ machine.firmware # "arm64"
    BY <1>1 DEF ChainInv, Calm, Undisturbed
  <2>3. file = Runs(machine.firmware)
    BY <1>1, <2>2 DEF ChainInv, RightBinary
  <2>4. file \in IpxeNames
    <3>1. Told(machine.arch) \in IpxeNames /\ Told(machine.arch) = Runs(machine.firmware)
      BY <1>1, <2>2, ToldRight
    <3> QED BY <2>3, <3>1
  <2>5. Reaches(base) /\ disk[file].is = "whole"
    BY <2>2, <2>4, CalmFiles DEF Reaches
  <2>6. stage' = "discover"
    BY <1>2, <2>3, <2>5
  <2> QED BY <1>1, <1>5, <2>1, <2>6 DEF ChainInv, Calm
<1> QED BY <1>4, <1>6, <1>7 DEF ChainInv

\* A page is fetched, or the boot ends.
LEMMA PageStep ==
  ASSUME ChainInv, FilesInv', offered' \in BOOLEAN,
         UNCHANGED <<filesVars, link, machine, home, wire, air, file, loaded, calm>>,
         stage \in {"script", "chain", "grub", "menu"},
         stage' \in {"chain", "grub", "menu", "booted", "stuck"},
         calm => stage' # "stuck" /\ base' = home
  PROVE  ChainInv'
<1>1. TypeOK'
  BY DEF ChainInv, TypeOK, FilesInv
<1>2. MachineOn' /\ Asked' /\ RightBinary'
  BY DEF ChainInv, MachineOn, Asked, RightBinary, Waiting
<1>3. Calm'
  <2> SUFFICES ASSUME calm PROVE Calm'
    BY DEF Calm
  <2>1. Undisturbed(machine, home)'
    BY DEF ChainInv, Calm, Undisturbed, filesVars
  <2> QED BY <2>1 DEF ChainInv, Calm, Waiting
<1> QED BY <1>1, <1>2, <1>3 DEF ChainInv

\* The address that the pages of a calm boot name.
LEMMA CalmBase ==
  ASSUME ChainInv, calm, stage \in {"script", "chain", "grub", "menu"}
  PROVE  Reaches(base) /\ HTTPBase(base) = home /\ base = home
<1>1. base = home /\ Undisturbed(machine, home)
  BY DEF ChainInv, Calm
<1> QED BY <1>1 DEF Undisturbed, Reaches, HTTPBase

LEMMA GrubNamed == \A binary : GrubFor(binary) \in GrubNames
<1>1. GrubBios \in GrubNames /\ GrubIa32 \in GrubNames /\ GrubX64 \in GrubNames
  BY DEF GrubNames, GrubImages
<1> QED BY <1>1 DEF GrubFor

LEMMA PagesStep ==
  ASSUME ChainInv, FilesInv', FetchScript \/ ChainGrub \/ ReadMenu \/ BootEntry
  PROVE  ChainInv'
<1>1. offered \in BOOLEAN
  BY DEF ChainInv, TypeOK
<1>2. CASE FetchScript
  <2>1. /\ stage = "script" /\ offered' = offered
        /\ \/ Reaches(base) /\ stage' = "chain" /\ base' = HTTPBase(base)
           \/ ~Reaches(base) /\ stage' = "stuck" /\ base' = base
        /\ UNCHANGED <<filesVars, link, machine, home, wire, air, file, loaded, calm>>
    BY <1>2 DEF FetchScript, Fetch
  <2>2. calm => stage' # "stuck" /\ base' = home
    BY <2>1, CalmBase
  <2> QED BY <1>1, <2>1, <2>2, PageStep
<1>3. CASE ChainGrub
  <2> DEFINE image == disk[GrubFor(loaded)]
  <2>1. /\ stage = "chain" /\ offered' = offered
        /\ \/ stage' = "grub" /\ base' = image.prefix
           \/ ~(Reaches(base) /\ image.is = "whole") /\ stage' = "stuck" /\ base' = base
        /\ UNCHANGED <<filesVars, link, machine, home, wire, air, file, loaded, calm>>
    BY <1>3 DEF ChainGrub, Fetch
  <2>2. calm => stage' # "stuck" /\ base' = home
    BY <2>1, CalmBase, CalmFiles, GrubNamed
  <2> QED BY <1>1, <2>1, <2>2, PageStep
<1>4. CASE ReadMenu
  <2>1. /\ stage = "grub" /\ offered' \in BOOLEAN
        /\ \/ Reaches(base) /\ stage' = "menu" /\ base' = HTTPBase(base)
           \/ ~Reaches(base) /\ stage' = "stuck" /\ base' = base
        /\ UNCHANGED <<filesVars, link, machine, home, wire, air, file, loaded, calm>>
    BY <1>4 DEF ReadMenu, Fetch
  <2>2. calm => stage' # "stuck" /\ base' = home
    BY <2>1, CalmBase
  <2> QED BY <2>1, <2>2, PageStep
<1>5. CASE BootEntry
  <2>1. /\ stage = "menu" /\ offered' = offered /\ base' = base
        /\ \/ Reaches(base) /\ stage' = "booted"
           \/ ~Reaches(base) /\ stage' = "stuck"
        /\ UNCHANGED <<filesVars, link, machine, home, wire, air, file, loaded, calm>>
    BY <1>5 DEF BootEntry, Fetch
  <2>2. calm => stage' # "stuck" /\ base' = home
    BY <2>1, CalmBase
  <2> QED BY <1>1, <2>1, <2>2, PageStep
<1> QED BY <1>2, <1>3, <1>4, <1>5

LEMMA RebootStep ==
  ASSUME ChainInv, FilesInv', Reboot
  PROVE  ChainInv'
<1>1. /\ stage' = "off" /\ machine' = NoMachine /\ home' = NoAddress
      /\ file' = NoFile /\ base' = NoAddress /\ loaded' = NoFile /\ calm' = FALSE
      /\ UNCHANGED <<filesVars, link, offered, wire, air>>
  BY DEF Reboot
<1>2. TypeOK'
  <2>1. calm' \in BOOLEAN
    BY <1>1
  <2> QED BY <1>1, <2>1 DEF ChainInv, TypeOK, FilesInv
<1>3. MachineOn' /\ Asked' /\ RightBinary' /\ Calm'
  BY <1>1 DEF MachineOn, Asked, RightBinary, Calm, Waiting
<1> QED BY <1>2, <1>3 DEF ChainInv

LEMMA NextChain ==
  ASSUME ChainInv, [Next]_vars
  PROVE  ChainInv'
<1>1. FilesInv'
  BY NextFiles DEF ChainInv
<1>2. CASE Server
  BY <1>1, <1>2, ServerStep
<1>3. CASE Machine
  BY <1>1, <1>3, PowerOnStep, AskStep, TakeStep, GiveUpStep, LoadStep, PagesStep, RebootStep
     DEF Machine
<1>4. CASE Stray \/ Handle \/ Lose
  BY <1>1, <1>4, StrayStep, HandleStep, LoseStep
<1>5. CASE UNCHANGED vars
  <2>1. UNCHANGED <<filesVars, link, machine, home, offered, stage, wire, air, file, base, loaded, calm>>
    BY <1>5 DEF vars, machineVars
  <2>2. Asked'
    BY <2>1 DEF ChainInv, Asked, Waiting, Asking, AskedFor
  <2>3. Undisturbed(machine, home)' = Undisturbed(machine, home)
    BY <2>1 DEF Undisturbed, filesVars
  <2>4. Calm' /\ calm' \in BOOLEAN
    BY <2>1, <2>3 DEF ChainInv, Calm, TypeOK, Waiting, Asking, AskedFor, filesVars
  <2> QED BY <1>1, <2>1, <2>2, <2>4, StandsStill
<1> QED BY <1>2, <1>3, <1>4, <1>5 DEF Next

\* The invariant, in every execution, for every machine, interface and address.
THEOREM ChainInvariant == Spec => []ChainInv
<1>1. ChainInv /\ [Next]_vars => ChainInv'
  BY NextChain
<1> QED BY <1>1, InitChain, PTL DEF Spec

-----------------------------------------------------------------------------
(* What packets mean.                                                      *)

\* An area holds the options that were meant, or names a server at an IPv6 address.
ReadsBack(p) ==
  (\A o \in p.meant : o[1] = ServerID => o[2][1] \notin IPv6s) => Parse(p.area) = p.meant

\* Of a stranger's packet meant is what its area says.
StrangersAreRead == \A p \in Strangers : ReadsBack(p)

LEMMA AnswersRead ==
  ASSUME NEW p, NEW ip \in Nat, NEW l \in 0..Len(Links)
  PROVE  ReadsBack(AnswerTo(p, ip, l))
<1> DEFINE a == AnswerTo(p, ip, l)
           sip == ServerIP(ip, l, p.peer)
<1>1. <<ServerID, <<sip>> >> \in a.meant /\ (sip \notin IPv6s => Parse(a.area) = a.meant)
  BY AnswerReadsBack
<1> HIDE DEF a, sip
<1>2. SUFFICES ASSUME \A o \in a.meant : o[1] = ServerID => o[2][1] \notin IPv6s
               PROVE  Parse(a.area) = a.meant
  BY DEF ReadsBack, a
<1>3. sip \notin IPv6s
  <2> DEFINE o == <<ServerID, <<sip>> >>
  <2>1. o \in a.meant /\ o[1] = ServerID /\ o[2][1] = sip
    BY <1>1
  <2> HIDE DEF o
  <2> QED BY <1>2, <2>1
<1> QED BY <1>1, <1>3

LEMMA RequestsRead ==
  ASSUME NEW m \in Machines, NEW type \in Nat, NEW binary
  PROVE  ReadsBack(Packet(type, m, binary))
BY PacketReadsBack DEF ReadsBack

LEMMA NextRead ==
  ASSUME StrangersAreRead, ChainInv, PacketsReadBack, [Next]_vars
  PROVE  PacketsReadBack'
<1>1. \A p \in wire \cup air : ReadsBack(p)
  BY DEF PacketsReadBack, ReadsBack
<1>2. \A p \in wire' \cup air' :
        \/ p \in wire \cup air
        \/ p \in Strangers
        \/ \E q : p = AnswerTo(q, serverIP, link)
        \/ \E m \in Machines, type \in {Discover, Request} : \E binary : p = Packet(type, m, binary)
  <2>1. CASE Server \/ UNCHANGED vars
    <3>1. wire' = wire /\ air' = air
      BY <2>1 DEF Server, vars, machineVars
    <3> QED BY <3>1
  <2>2. CASE Stray
    BY <2>2 DEF Stray
  <2>3. CASE Lose
    BY <2>3 DEF Lose
  <2>4. CASE Handle
    <3>1. PICK q \in wire : wire' = wire \ {q} /\
            air' = IF program = "up" /\ Answers(q, link) THEN air \cup {AnswerTo(q, serverIP, link)}
                   ELSE air
      BY <2>4 DEF Handle, AnswerTo
    <3> QED BY <3>1
  <2>5. CASE PowerOn
    <3>1. machine' \in Machines /\ wire' = {Packet(Discover, machine', NoFile)} /\ air' = {}
      BY <2>5 DEF PowerOn, Send
    <3> QED BY <3>1
  <2>6. CASE Confirm \/ Again \/ LoadBinary
    <3>1. machine \in Machines
      BY <2>6 DEF Confirm, Again, Unanswered, Waiting, LoadBinary, ChainInv, MachineOn
    <3>2. \/ wire' = wire /\ air' = air
          \/ /\ \E type \in {Discover, Request} : \E binary : wire' = {Packet(type, machine, binary)}
             /\ air' = {}
      BY <2>6 DEF Confirm, Again, LoadBinary, Send, AskedFor
    <3> QED BY <3>1, <3>2
  <2>7. CASE Take
    BY <2>7 DEF Take
  <2>8. CASE GiveUp \/ FetchScript \/ ChainGrub \/ ReadMenu \/ BootEntry \/ Reboot
    <3>1. wire' = wire /\ air' = air
      BY <2>8 DEF GiveUp, FetchScript, ChainGrub, ReadMenu, BootEntry, Reboot, Fetch
    <3> QED BY <3>1
  <2> QED BY <2>1, <2>2, <2>3, <2>4, <2>5, <2>6, <2>7, <2>8 DEF Next, Machine
<1>3. serverIP \in Nat /\ link \in 0..Len(Links)
  BY Typed DEF ChainInv
<1>4. \A q : ReadsBack(AnswerTo(q, serverIP, link))
  BY <1>3, AnswersRead
<1>5. \A m \in Machines, type \in {Discover, Request} : \A binary : ReadsBack(Packet(type, m, binary))
  BY RequestsRead, Words
<1>6. \A p \in wire' \cup air' : ReadsBack(p)
  BY <1>1, <1>2, <1>4, <1>5 DEF StrangersAreRead
<1> QED BY <1>6 DEF PacketsReadBack, ReadsBack

-----------------------------------------------------------------------------
(* What the program promises.                                              *)

\* Every variable keeps its type: the machine is never told of a file that is none of the
\* three binaries, and the preparation is never past its files.
THEOREM ChainTypes == Spec => []TypeOK
<1>1. ChainInv => TypeOK
  BY DEF ChainInv
<1> QED BY <1>1, ChainInvariant, PTL

\* However the options of a packet are arranged, padded and ended, the server reads from a
\* request, and the client from an answer, what was put in (parse and build of packet.go),
\* whatever address is configured, but for an answer with an IPv6 one.
THEOREM PacketsRead == StrangersAreRead => (Spec => []PacketsReadBack)
<1> SUFFICES ASSUME StrangersAreRead PROVE Spec => []PacketsReadBack
  OBVIOUS
<1>1. Init => PacketsReadBack
  BY DEF Init, PacketsReadBack
<1>2. ChainInv /\ PacketsReadBack /\ [Next]_vars => PacketsReadBack'
  BY NextRead
<1>3. Spec => []PacketsReadBack
  BY <1>1, <1>2, ChainInvariant, PTL DEF Spec
<1> QED BY <1>3

\* Each firmware is told to load the binary of its own architecture and iPXE is told to
\* load none (handle of proxydhcp.go), whichever answer is taken, of whatever moment.
THEOREM BinaryIsRight == Spec => []RightBinary
<1>1. ChainInv => RightBinary
  BY DEF ChainInv
<1> QED BY <1>1, ChainInvariant, PTL

\* Where the preparation has ended well and both addresses are the machine's, a boot that
\* nothing disturbs gets through every step, whatever came before it.
THEOREM CalmBootsHold == Spec => []CalmBoots
<1>1. ChainInv => CalmBoots
  BY DEF ChainInv, Calm, CalmBoots
<1> QED BY <1>1, ChainInvariant, PTL
=============================================================================
