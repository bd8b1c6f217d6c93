------------------------------- MODULE MCTftp -------------------------------
(* Tftp on small files, small block numbers and few faults. *)
EXTENDS TftpInv
=============================================================================
