---------------------------- MODULE FileDelivery ----------------------------
(***************************************************************************)
(* What a read-only TFTP server promises the machine that boots from it:   *)
(* the file arrives as its blocks 1, 2, ..., LastBlock, each once and in   *)
(* order.  A delivery may stop at any point.  When the server cannot read  *)
(* the file (ReadFails) the delivery may also end early with a block that  *)
(* is not the file's: the payload Cut.                                     *)
(***************************************************************************)
EXTENDS Integers, Sequences

CONSTANTS
  LastBlock,  \* number of blocks of the file, the short (or empty) last one included
  ReadFails   \* whether reading the file may fail

Cut == 0      \* the payload of a block sent after a failed read

VARIABLE delivered  \* the payloads the client has accepted, in order

Finished == delivered # <<>> /\ delivered[Len(delivered)] \in {LastBlock, Cut}

Init == delivered = <<>>

DeliverNext ==
  /\ ~Finished
  /\ delivered' = Append(delivered, Len(delivered) + 1)

DeliverCut ==
  /\ ReadFails
  /\ ~Finished
  /\ delivered' = Append(delivered, Cut)

Next == DeliverNext \/ DeliverCut

Spec == Init /\ [][Next]_delivered
=============================================================================
