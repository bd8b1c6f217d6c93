--------------------------- MODULE MCDhcpManager ---------------------------
(* DhcpManager with a few requests and as many servers as they can start. *)
EXTENDS DhcpManager
=============================================================================
