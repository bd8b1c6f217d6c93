---------------------------- MODULE MCMenuStore ----------------------------
(* MenuStore with two entries, a few updates and crashes. *)
EXTENDS MenuStore, TLC

\* Which handler runs and which inode a file gets makes no difference.
Alike == Permutations(Handlers) \cup Permutations(Inodes)
=============================================================================
