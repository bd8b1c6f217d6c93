----------------------------- MODULE MCLibrary -----------------------------
(* Library with up to three names: one with a slug of its own, one without a *)
(* slug, and one that is called like a numbered entry; a short and a long    *)
(* image.                                                                    *)
EXTENDS Library, TLC

CONSTANTS a, b, iso2, slugA, short, long

MCSlug == [n \in Isos |-> CASE n = a -> slugA [] n = iso2 -> 2 [] OTHER -> None]
MCNoSlug == [n \in Isos |-> None]
MCLength == [m \in Images |-> IF m = short THEN 1 ELSE 2]
Mix(u, q, e) == [uploads |-> u, adds |-> q, edits |-> e]
MCMixes == {Mix(2, 1, 1), Mix(1, 2, 1), Mix(0, 3, 0)}
MCFewFiles == {Mix(0, 3, 1)}
Handlers == Permutations(Uploads) \cup Permutations(Adds)
=============================================================================
