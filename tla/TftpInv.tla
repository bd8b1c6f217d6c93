------------------------------ MODULE TftpInv ------------------------------
(***************************************************************************)
(* The inductive invariant of Tftp: what is in flight agrees with the      *)
(* sessions and with what the client has accepted (IInv), and each failed  *)
(* wait is paid for by a fault (FaultInv).  TftpProofs proves both.        *)
(***************************************************************************)
EXTENDS Tftp

BlockInv ==
  \A s \in Sessions :
    /\ pc[s] \in {"idle", "oack"} => block[s] = 0
    /\ pc[s] \in {"data", "done"} => block[s] > 0
    /\ cut[s] => block[s] > 0 /\ ReadFails

AckInv ==
  \A s \in Sessions, i \in 0..LastBlock :
    net[Ack(s, i)] > 0 => s = peer /\ i <= Len(got)

DataInv ==
  \A s \in Sessions, i \in 1..LastBlock, c \in BOOLEAN :
    net[Data(s, i, c)] > 0 =>
      /\ i <= block[s]
      /\ c => cut[s]
      /\ i = block[s] => c = cut[s]
      /\ i # block[s] => ~c

OackInv == \A s \in Sessions : net[Oack(s)] > 0 => pc[s] # "idle"

\* What the client holds: the file's blocks, except that the last of them may
\* be the cut block its session is waiting about.
GotInv ==
  \A i \in 1..Len(got) :
    \/ got[i] = i
    \/ got[i] = Cut /\ i = Len(got) /\ i = block[peer] /\ cut[peer]

Whole == got # <<>> /\ got[Len(got)] \in {LastBlock, Cut}

ClientInv ==
  /\ client = "request" => peer = NoSession
  /\ client = "transfer" => peer # NoSession /\ ~Whole
  /\ client = "complete" => peer # NoSession /\ Whole
  /\ peer = NoSession => got = <<>>
  /\ peer # NoSession => pc[peer] # "idle"

IInv ==
  /\ TypeOK
  /\ Lockstep /\ DoneMeansDelivered /\ StraySessionsStall
  /\ BlockInv /\ AckInv /\ DataInv /\ OackInv /\ GotInv /\ ClientInv

-----------------------------------------------------------------------------
(* The account of faults, for the session a client that still listens uses *)
(* or may yet choose.  A datagram in flight is old if it is an OACK or is   *)
(* about an earlier block: it can only make the session send once more, or  *)
(* the client acknowledge once more.  Each datagram in flight but one, each *)
(* failed wait and each old datagram has been paid for by a fault.          *)

Mine(s) == {m \in Messages : m.type \in {"OACK", "ACK", "DATA"} /\ m.session = s}
Old(s, b) == {m \in Mine(s) : m.type = "OACK" \/ m.index < b}

\* The datagrams of n that are in M, each copy counted.
Copies(n, M) == UNION {{m} \X (1..n[m]) : m \in M}
InFlight(n, M) == Cardinality(Copies(n, M))

Used == MaxFaults - faults
Watched(s) == peer \in {s, NoSession} /\ ~ClientEnded

\* Nothing in flight is about the block the session waits for.
OnlyOld(s) == \A m \in Mine(s) \ Old(s, block[s]) : net[m] = 0

Account(s) ==
  /\ IsFiniteSet(Copies(net, Mine(s)))
  /\ net[Abort(s)] = 0
  /\ pc[s] \in {"oack", "data"} => InFlight(net, Mine(s)) <= 1 + Used
  /\ pc[s] = "data" => tries[s] + InFlight(net, Old(s, block[s])) <= Used
  /\ pc[s] = "data" /\ OnlyOld(s) => tries[s] + InFlight(net, Old(s, block[s])) < Used
  /\ pc[s] = "failed" /\ block[s] > 0 => MaxTries <= Used

FaultInv == \A s \in Sessions : Watched(s) => Account(s)
=============================================================================
