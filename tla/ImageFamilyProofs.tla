------------------------- MODULE ImageFamilyProofs -------------------------
(***************************************************************************)
(* What the rule table and the recipes do for every image, whatever its    *)
(* files and however their names begin.                                    *)
(***************************************************************************)
EXTENDS ImageFamily, WellFoundedInduction, TLAPS

LEMMA MoreFilesMoreMarkers ==
  ASSUME NEW files, NEW part \in SUBSET files, NEW marker, HasSub(part, marker)
  PROVE  HasSub(files, marker)
BY DEF HasSub

\* What a rule looks for: a sign of the family, or Windows.
LEMMA RuleSigns ==
  ASSUME NEW i \in 1..Len(Rules)
  PROVE  \/ <<"sources", "boot.wim">> \in Rules[i].markers
         \/ /\ Rules[i].family \in LinuxFamilies
            /\ \E m \in Signs(Rules[i].family) : m \in Rules[i].markers
<1>1. Len(Rules) = 11
  BY DEF Rules
<1>2. i \in {1, 2, 3, 4, 5, 6, 7, 8, 9, 10, 11}
  BY <1>1
<1>3. CASE i = 1
  BY <1>3 DEF Rules
<1>4. CASE i \in {2, 3}
  BY <1>4 DEF Rules, Signs, Recipe, LinuxFamilies
<1>5. CASE i \in {4, 5}
  BY <1>5 DEF Rules, Signs, Recipe, LinuxFamilies
<1>6. CASE i = 6
  BY <1>6 DEF Rules, Signs, Recipe, LinuxFamilies
<1>7. CASE i = 7
  BY <1>7 DEF Rules, Signs, Recipe, LinuxFamilies
<1>8. CASE i = 8
  BY <1>8 DEF Rules, Signs, Recipe, LinuxFamilies
<1>9. CASE i = 9
  BY <1>9 DEF Rules, Signs, Recipe, LinuxFamilies
<1>10. CASE i = 10
  BY <1>10 DEF Rules, Signs, Recipe, LinuxFamilies
<1>11. CASE i = 11
  BY <1>11 DEF Rules, Signs, Recipe, LinuxFamilies
<1> QED BY <1>2, <1>3, <1>4, <1>5, <1>6, <1>7, <1>8, <1>9, <1>10, <1>11

LEMMA FirstRule ==
  ASSUME NEW files, MatchingRules(files) # {}
  PROVE  \E i \in MatchingRules(files) : \A j \in MatchingRules(files) : i <= j
<1> DEFINE M == MatchingRules(files)
           R == OpToRel(<, Nat)
<1>1. M \subseteq Nat /\ M # {}
  BY DEF MatchingRules, Rules
<1>2. PICK i \in M : \A j \in M : ~(<<j, i>> \in R)
  <2> HIDE DEF M, R
  <2> QED BY <1>1, NatLessThanWellFounded, WFMin DEF R
<1>3. \A j \in M : ~(j < i)
  BY <1>1, <1>2 DEF OpToRel
<1> QED BY <1>1, <1>3

\* The family of an image is generic or that of the first rule, all of whose markers
\* it has; the rule for Windows is never the one, since its first marker is tested
\* before.
LEMMA FamilyHasRule ==
  ASSUME NEW files, NEW label, ~LooksLikeWindows(files, label)
  PROVE  \/ Family(files, label) = "generic"
         \/ /\ Family(files, label) \in LinuxFamilies
            /\ \E m \in Signs(Family(files, label)) : HasSub(files, m)
<1>1. CASE MatchingRules(files) = {}
  BY <1>1 DEF Family
<1>2. CASE MatchingRules(files) # {}
  <2>1. PICK i \in MatchingRules(files) : Family(files, label) = Rules[i].family
    BY <1>2, FirstRule DEF Family
  <2>2. i \in 1..Len(Rules) /\ \A m \in Rules[i].markers : HasSub(files, m)
    BY <2>1 DEF MatchingRules, Matches
  <2>3. ~HasSub(files, <<"sources", "boot.wim">>)
    BY DEF LooksLikeWindows, WindowsMarkers
  <2> QED BY <2>1, <2>2, <2>3, RuleSigns
<1> QED BY <1>1, <1>2

\* Whatever part of an image an analysis sees, and however its files begin: where no
\* file of the whole image looks like one of another family, the part is put into the
\* generic family or into one with the same entry.
THEOREM PartKeepsRecipe ==
  ASSUME NEW files, NEW part \in SUBSET files, NEW label, NEW f \in LinuxFamilies,
         OnlyOf(f, files, label)
  PROVE  \/ Family(part, label) = "generic"
         \/ Recipe[Family(part, label)] = Recipe[f]
<1>1. ~LooksLikeWindows(part, label)
  BY MoreFilesMoreMarkers DEF OnlyOf, LooksLikeWindows
<1>2. SUFFICES ASSUME Family(part, label) # "generic", Recipe[Family(part, label)] # Recipe[f]
               PROVE  FALSE
  OBVIOUS
<1>3. PICK m \in Signs(Family(part, label)) : HasSub(part, m)
  BY <1>1, <1>2, FamilyHasRule
<1>4. HasSub(files, m)
  BY <1>3, MoreFilesMoreMarkers
<1>5. Family(part, label) \in LinuxFamilies
  BY <1>1, <1>2, FamilyHasRule
<1> QED BY <1>2, <1>4, <1>5 DEF OnlyOf

\* An image in whose files an analysis finds the kernel of a family's entry, and nothing
\* that looks like another family, boots that kernel after a quick-add, if the one who
\* mounts it later, under names that may differ, finds the kernel and the initrd.
THEOREM KnownBoots ==
  ASSUME NEW files, NEW mounted, NEW label, NEW f \in LinuxFamilies,
         OnlyOf(f, files, label), HasSub(files, Recipe[f].kernel), HasFilesOf(f, mounted)
  PROVE  Outcome(Family(files, label), mounted) = "kernel"
<1>1. ~LooksLikeWindows(files, label)
  BY DEF OnlyOf
<1>2. \E i \in 1..Len(Rules) : Rules[i].markers = {Recipe[f].kernel}
  <2>1. Len(Rules) = 11
    BY DEF Rules
  <2>2. CASE f \in {"ubuntu", "mint"}
    <3>1. Rules[2].markers = {Recipe[f].kernel}
      BY <2>2, SMTT(30) DEF Rules, Recipe
    <3> QED BY <2>1, <3>1
  <2>3. CASE f \in {"debian", "kali"}
    <3>1. Rules[5].markers = {Recipe[f].kernel}
      BY <2>3, SMTT(30) DEF Rules, Recipe
    <3> QED BY <2>1, <3>1
  <2>4. CASE f = "debian_di"
    <3>1. Rules[6].markers = {Recipe[f].kernel}
      BY <2>4 DEF Rules, Recipe
    <3> QED BY <2>1, <3>1
  <2>5. CASE f = "rhel"
    <3>1. Rules[7].markers = {Recipe[f].kernel}
      BY <2>5 DEF Rules, Recipe
    <3> QED BY <2>1, <3>1
  <2>6. CASE f = "arch"
    <3>1. Rules[9].markers = {Recipe[f].kernel}
      BY <2>6 DEF Rules, Recipe
    <3> QED BY <2>1, <3>1
  <2>7. CASE f = "alpine"
    <3>1. Rules[10].markers = {Recipe[f].kernel}
      BY <2>7 DEF Rules, Recipe
    <3> QED BY <2>1, <3>1
  <2>8. CASE f = "opensuse"
    <3>1. Rules[11].markers = {Recipe[f].kernel}
      BY <2>8 DEF Rules, Recipe
    <3> QED BY <2>1, <3>1
  <2> QED BY <2>2, <2>3, <2>4, <2>5, <2>6, <2>7, <2>8 DEF LinuxFamilies, Recipe
<1>3. MatchingRules(files) # {}
  BY <1>2 DEF MatchingRules, Matches
<1>4. PICK i \in MatchingRules(files) : Family(files, label) = Rules[i].family
  BY <1>1, <1>3, FirstRule DEF Family
<1>5. Family(files, label) \in LinuxFamilies
  <2>1. i \in 1..Len(Rules) /\ \A m \in Rules[i].markers : HasSub(files, m)
    BY <1>4 DEF MatchingRules, Matches
  <2>2. ~HasSub(files, <<"sources", "boot.wim">>)
    BY <1>1 DEF LooksLikeWindows, WindowsMarkers
  <2> QED BY <1>4, <2>1, <2>2, RuleSigns
<1>6. Family(files, label) # "generic" /\ Family(files, label) # "windows"
  BY <1>5 DEF LinuxFamilies, Recipe
<1>7. Recipe[Family(files, label)] = Recipe[f]
  BY <1>6, PartKeepsRecipe
<1> QED BY <1>5, <1>6, <1>7 DEF Outcome, HasFilesOf
=============================================================================
