-------------------------------- MODULE Tftp --------------------------------
(***************************************************************************)
(* The TFTP server (internal/tftp/tftp.go): one goroutine (a session, with *)
(* its own UDP port) per read request, the network between it and one      *)
(* booting client, and that client.                                        *)
(*                                                                         *)
(* A block is identified by its true index 1..LastBlock; on the wire it    *)
(* carries Wire(index), the code's uint16.  The network is a bag: it may   *)
(* lose, duplicate and reorder datagrams, and each such fault, as well as  *)
(* each timer that fires although the answer is on its way, is paid from   *)
(* the budget MaxFaults.  The one thing the network may not do is keep a   *)
(* datagram while the session sends BlockMod - 1 further blocks (Fresh).   *)
(***************************************************************************)
EXTENDS Integers, Sequences, FiniteSets

CONSTANTS
  Sessions,   \* server goroutines, one per request received (bounds the requests)
  NoSession,  \* the client has not chosen a server port yet
  LastBlock,  \* number of DATA blocks of the file, the short last one included
  BlockMod,   \* 2^16 in the code: block numbers wrap
  MaxTries,   \* 5 in the code: transmissions of one block
  MaxFaults,  \* bound on the faults of the network and of the timers
  ReadFails   \* whether f.Read may return an error or less than the file holds

ASSUME SessionAssumption == NoSession \notin Sessions
ASSUME NumberAssumption ==
  /\ LastBlock \in Nat \ {0}
  /\ BlockMod \in Nat \ {0, 1}
  /\ MaxTries \in Nat \ {0}
  /\ MaxFaults \in Nat
  /\ ReadFails \in BOOLEAN

VARIABLES
  pc,      \* per session: "idle", "oack", "data", "done" or "failed"
  block,   \* per session: index of the block being sent, 0 before the first
  cut,     \* per session: the read for the current block failed
  tries,   \* per session: failed waits for the current block (r in sendWaitACK)
  net,     \* datagrams in flight: how many copies of each message
  opts,    \* the client's request carries options (blksize, tsize)
  client,  \* "request", "transfer", "complete", "refused" or "gone"
  peer,    \* the session the client has chosen, or NoSession
  got,     \* payloads the client has accepted, in order
  faults   \* what is left of the fault budget

serverVars == <<pc, block, cut, tries>>
clientVars == <<client, peer, got>>
vars == <<serverVars, net, opts, clientVars, faults>>

Delivery == INSTANCE FileDelivery WITH delivered <- got

Cut == 0
WireNeverAdvanced(i) == 1
Wire(i) == i % BlockMod
Payload(b, c) == IF c THEN Cut ELSE b

Rrq == [type |-> "RRQ"]
Oack(s) == [type |-> "OACK", session |-> s]
Error(s) == [type |-> "ERROR", session |-> s]             \* server to client
Abort(s) == [type |-> "ABORT", session |-> s]             \* client's ERROR to s
Ack(s, i) == [type |-> "ACK", session |-> s, index |-> i]
Data(s, i, c) == [type |-> "DATA", session |-> s, index |-> i, cut |-> c]

Messages ==
  {Rrq}
  \cup {Oack(s) : s \in Sessions} \cup {Error(s) : s \in Sessions}
  \cup {Abort(s) : s \in Sessions}
  \cup {Ack(s, i) : s \in Sessions, i \in 0..LastBlock}
  \cup {Data(s, i, c) : s \in Sessions, i \in 1..LastBlock, c \in BOOLEAN}

Plus(n, m) == [n EXCEPT ![m] = @ + 1]
Minus(n, m) == [n EXCEPT ![m] = @ - 1]

\* A datagram about block i of session s is still alive: it has not been
\* overtaken by a full cycle of block numbers.
Fresh(s, i) == block[s] - i < BlockMod - 1

\* Nothing is under way between session s and a client that still listens, so
\* a timer of either side that fires now has waited in vain.
ClientEnded == client \in {"refused", "gone"}
Quiet(s) ==
  \/ ClientEnded
  \/ /\ net[Oack(s)] + net[Error(s)] + net[Abort(s)] = 0
     /\ \A i \in 0..LastBlock : Fresh(s, i) => net[Ack(s, i)] = 0
     /\ \A i \in 1..LastBlock, c \in BOOLEAN : Fresh(s, i) => net[Data(s, i, c)] = 0

-----------------------------------------------------------------------------
(* The server: handle, sendWaitACK and waitACK.                            *)

\* f.Read and the first transmission of block b; n is the network before it.
SendBlock(s, b, n) ==
  /\ pc' = [pc EXCEPT ![s] = "data"]
  /\ block' = [block EXCEPT ![s] = b]
  /\ tries' = [tries EXCEPT ![s] = 0]
  /\ \E c \in IF ReadFails THEN BOOLEAN ELSE {FALSE} :
       /\ cut' = [cut EXCEPT ![s] = c]
       /\ net' = Plus(n, Data(s, b, c))

\* Serve starts a goroutine for each request; handle opens the file and
\* answers with an ERROR, an OACK or the first block.
ServeNotFound(s) ==
  /\ pc[s] = "idle" /\ net[Rrq] > 0
  /\ pc' = [pc EXCEPT ![s] = "failed"]
  /\ net' = Plus(Minus(net, Rrq), Error(s))
  /\ UNCHANGED <<block, cut, tries, opts, clientVars, faults>>

ServeOptions(s) ==
  /\ pc[s] = "idle" /\ net[Rrq] > 0 /\ opts
  /\ pc' = [pc EXCEPT ![s] = "oack"]
  /\ net' = Plus(Minus(net, Rrq), Oack(s))
  /\ UNCHANGED <<block, cut, tries, opts, clientVars, faults>>

ServePlain(s) ==
  /\ pc[s] = "idle" /\ net[Rrq] > 0 /\ ~opts
  /\ SendBlock(s, 1, Minus(net, Rrq))
  /\ UNCHANGED <<opts, clientVars, faults>>

\* The datagrams that can reach session s's socket.
Arrives(s, m) ==
  /\ net[m] > 0
  /\ m \in {Abort(s)} \cup {Ack(s, i) : i \in {j \in 0..LastBlock : Fresh(s, j)}}

\* waitACK returns true: an ACK with exactly the number waited for.
AwaitedAnyNumber(s, m) == m.type = "ACK"
AwaitedAnyOpcode(s, m) == m.type = "ACK" => Wire(m.index) = Wire(block[s])
Awaited(s, m) == m.type = "ACK" /\ Wire(m.index) = Wire(block[s])

OackAcked(s) ==
  /\ pc[s] = "oack"
  /\ \E m \in Messages :
       /\ Arrives(s, m) /\ Awaited(s, m)
       /\ SendBlock(s, 1, Minus(net, m))
  /\ UNCHANGED <<opts, clientVars, faults>>

\* The block in flight is shorter than blksize, or reading it failed.
LastSentAlways(s) == TRUE
LastSent(s) == cut[s] \/ block[s] = LastBlock

BlockAcked(s) ==
  /\ pc[s] = "data"
  /\ \E m \in Messages :
       /\ Arrives(s, m) /\ Awaited(s, m)
       /\ \/ /\ LastSent(s)
             /\ pc' = [pc EXCEPT ![s] = "done"]
             /\ net' = Minus(net, m)
             /\ UNCHANGED <<block, cut, tries>>
          \/ /\ ~LastSent(s)
             /\ SendBlock(s, block[s] + 1, Minus(net, m))
  /\ UNCHANGED <<opts, clientVars, faults>>

\* sendWaitACK sends a block MaxTries times before it gives up.
TryLeftOneMore(s) == tries[s] + 1 <= MaxTries
TryLeftOneLess(s) == tries[s] + 2 < MaxTries
TryLeft(s) == tries[s] + 1 < MaxTries

\* waitACK returned false.  The OACK is sent once only; a block is sent again
\* until sendWaitACK has used up its tries.  n is the network left behind.
WaitFailed(s, n) ==
  /\ \/ /\ pc[s] = "data" /\ TryLeft(s)
        /\ tries' = [tries EXCEPT ![s] = @ + 1]
        /\ net' = Plus(n, Data(s, block[s], cut[s]))
        /\ UNCHANGED pc
     \/ /\ pc[s] = "oack" \/ (pc[s] = "data" /\ ~TryLeft(s))
        /\ pc' = [pc EXCEPT ![s] = "failed"]
        /\ net' = n
        /\ UNCHANGED tries
  /\ UNCHANGED <<block, cut, opts, clientVars>>

\* Any other datagram ends the wait at once, exactly like the timeout.
WrongPacket(s) ==
  /\ \E m \in Messages :
       /\ Arrives(s, m) /\ ~Awaited(s, m)
       /\ WaitFailed(s, Minus(net, m))
  /\ UNCHANGED faults

TimeoutWithoutDeadline(s) == FALSE

\* The 3 s read deadline passes: in vain, or (a fault) before a late answer.
Timeout(s) == Quiet(s) /\ WaitFailed(s, net) /\ UNCHANGED faults

EarlyTimeout(s) == faults > 0 /\ WaitFailed(s, net) /\ faults' = faults - 1

\* The client's port is closed and sess.Write reports it.
WriteFails(s) ==
  /\ pc[s] = "data" /\ ClientEnded
  /\ pc' = [pc EXCEPT ![s] = "failed"]
  /\ UNCHANGED <<block, cut, tries, net, opts, clientVars, faults>>

-----------------------------------------------------------------------------
(* The client, external to the repository: an RFC 1350 client that keeps   *)
(* to the first port that answers, acknowledges what it expects, repeats   *)
(* its acknowledgement for a repeated block and rejects other ports.       *)

RecvOack(s) ==
  /\ net[Oack(s)] > 0 /\ ~ClientEnded
  /\ \/ /\ client = "request"
        /\ client' = "transfer" /\ peer' = s
        /\ net' = Plus(Minus(net, Oack(s)), Ack(s, 0))
     \/ /\ peer = s /\ got = <<>>
        /\ net' = Plus(Minus(net, Oack(s)), Ack(s, 0))
        /\ UNCHANGED <<client, peer>>
     \/ /\ peer = s /\ got # <<>>
        /\ net' = Minus(net, Oack(s))
        /\ UNCHANGED <<client, peer>>
     \/ /\ peer \notin {s, NoSession}
        /\ net' = Plus(Minus(net, Oack(s)), Abort(s))
        /\ UNCHANGED <<client, peer>>
  /\ UNCHANGED <<serverVars, opts, got, faults>>

Expected(s, i) ==
  /\ client = "request" \/ (client = "transfer" /\ peer = s)
  /\ Wire(i) = Wire(Len(got) + 1)
Repeated(s, i) == peer = s /\ got # <<>> /\ Wire(i) = Wire(Len(got))
Stray(s) == peer \notin {s, NoSession}

RecvData(s) ==
  /\ ~ClientEnded
  /\ \E i \in 1..LastBlock, c \in BOOLEAN :
       /\ net[Data(s, i, c)] > 0 /\ Fresh(s, i)
       /\ \/ /\ Expected(s, i)
             /\ peer' = s
             /\ got' = Append(got, Payload(i, c))
             /\ client' = IF c \/ i = LastBlock THEN "complete" ELSE "transfer"
             /\ net' = Plus(Minus(net, Data(s, i, c)), Ack(s, Len(got) + 1))
          \/ /\ ~Expected(s, i) /\ Repeated(s, i)
             /\ net' = Plus(Minus(net, Data(s, i, c)), Ack(s, Len(got)))
             /\ UNCHANGED clientVars
          \/ /\ Stray(s)
             /\ net' = Plus(Minus(net, Data(s, i, c)), Abort(s))
             /\ UNCHANGED clientVars
          \/ /\ ~Expected(s, i) /\ ~Repeated(s, i) /\ ~Stray(s)
             /\ net' = Minus(net, Data(s, i, c))
             /\ UNCHANGED clientVars
  /\ UNCHANGED <<serverVars, opts, faults>>

RecvError(s) ==
  /\ net[Error(s)] > 0 /\ ~ClientEnded
  /\ net' = Minus(net, Error(s))
  /\ client' = IF client = "request" THEN "refused" ELSE client
  /\ UNCHANGED <<serverVars, opts, peer, got, faults>>

\* Bound: the client asks again only while a session is left to answer.
SessionLeft == Cardinality({s \in Sessions : pc[s] = "idle"}) > net[Rrq]

RetryRequest ==
  /\ client = "request" /\ SessionLeft
  /\ net[Rrq] = 0 /\ \A s \in Sessions : Quiet(s)
  /\ net' = Plus(net, Rrq)
  /\ UNCHANGED <<serverVars, opts, clientVars, faults>>

EarlyRetryRequest ==
  /\ client = "request" /\ SessionLeft
  /\ faults > 0 /\ faults' = faults - 1
  /\ net' = Plus(net, Rrq)
  /\ UNCHANGED <<serverVars, opts, clientVars>>

\* The client's own timer: it repeats its last acknowledgement.
RetryAck ==
  /\ client = "transfer" /\ faults > 0
  /\ faults' = faults - 1
  /\ net' = Plus(net, Ack(peer, Len(got)))
  /\ UNCHANGED <<serverVars, opts, clientVars>>

\* The client is switched off, or closes its port when it has the file.
Vanish ==
  /\ client \in {"request", "transfer", "complete"}
  /\ client' = "gone"
  /\ UNCHANGED <<serverVars, net, opts, peer, got, faults>>

-----------------------------------------------------------------------------
(* The network.                                                            *)

Lose(m) ==
  /\ net[m] > 0 /\ faults > 0
  /\ net' = Minus(net, m) /\ faults' = faults - 1
  /\ UNCHANGED <<serverVars, opts, clientVars>>

Duplicate(m) ==
  /\ net[m] > 0 /\ faults > 0
  /\ m = Rrq => SessionLeft
  /\ net' = Plus(net, m) /\ faults' = faults - 1
  /\ UNCHANGED <<serverVars, opts, clientVars>>

-----------------------------------------------------------------------------
Init ==
  /\ pc = [s \in Sessions |-> "idle"]
  /\ block = [s \in Sessions |-> 0]
  /\ cut = [s \in Sessions |-> FALSE]
  /\ tries = [s \in Sessions |-> 0]
  /\ net = [m \in Messages |-> IF m = Rrq THEN 1 ELSE 0]
  /\ opts \in BOOLEAN
  /\ client = "request" /\ peer = NoSession /\ got = <<>>
  /\ faults = MaxFaults

Server(s) ==
  \/ ServeNotFound(s) \/ ServeOptions(s) \/ ServePlain(s)
  \/ OackAcked(s) \/ BlockAcked(s)
  \/ WrongPacket(s) \/ Timeout(s) \/ EarlyTimeout(s) \/ WriteFails(s)

Client ==
  \/ \E s \in Sessions : RecvOack(s) \/ RecvData(s) \/ RecvError(s)
  \/ RetryRequest \/ EarlyRetryRequest \/ RetryAck \/ Vanish

Network == \E m \in Messages : Lose(m) \/ Duplicate(m)

Next == (\E s \in Sessions : Server(s)) \/ Client \/ Network

Spec == Init /\ [][Next]_vars

\* The goroutine runs, its read deadline fires, the network delivers what it
\* does not lose, and a client that hears nothing asks again.
Fairness ==
  /\ \A s \in Sessions :
       /\ WF_vars(ServeNotFound(s) \/ ServeOptions(s) \/ ServePlain(s))
       /\ WF_vars(OackAcked(s) \/ BlockAcked(s))
       /\ WF_vars(WrongPacket(s))
       /\ WF_vars(Timeout(s))
       /\ WF_vars(RecvOack(s) \/ RecvData(s) \/ RecvError(s))
  /\ WF_vars(RetryRequest)

FairSpec == Spec /\ Fairness

-----------------------------------------------------------------------------
(* Properties.                                                             *)

TypeOK ==
  /\ pc \in [Sessions -> {"idle", "oack", "data", "done", "failed"}]
  /\ block \in [Sessions -> 0..LastBlock]
  /\ cut \in [Sessions -> BOOLEAN]
  /\ tries \in [Sessions -> 0..(MaxTries - 1)]
  /\ net \in [Messages -> Nat]
  /\ opts \in BOOLEAN
  /\ client \in {"request", "transfer", "complete", "refused", "gone"}
  /\ peer \in Sessions \cup {NoSession}
  /\ got \in Seq(0..LastBlock)
  /\ faults \in 0..MaxFaults

\* The stop-and-wait window: the session the client talks to is never more
\* than one block ahead of it and never behind it, however the datagrams are
\* lost, repeated and reordered and however the block numbers wrap.
Lockstep ==
  peer # NoSession => block[peer] - 1 <= Len(got) /\ Len(got) <= block[peer]

\* The log line "done" is true: a session that ends without an error has had
\* the client accept every block it read, up to the file's last or to the one
\* whose read failed.
DoneMeansDelivered ==
  \A s \in Sessions : pc[s] = "done" =>
     /\ s = peer /\ Len(got) = block[s]
     /\ block[s] = LastBlock \/ cut[s]

\* A session of a repeated or duplicated request, whose port the client does
\* not use, never gets past its first block.
StraySessionsStall ==
  \A s \in Sessions \ {peer} : block[s] <= 1 /\ pc[s] # "done"

\* The transfer survives MaxTries - 1 faults: the session the client uses gives
\* up on a block only after that many datagrams were lost, duplicated or late.
\* A duplicate is echoed on every later block (each spurious ACK makes the
\* server send again, each repeated block makes the client acknowledge again),
\* but the echoes do not multiply.
FailureNeedsFaults ==
  \A s \in Sessions :
    (s = peer /\ pc[s] = "failed" /\ block[s] > 0 /\ ~ClientEnded)
      => MaxFaults - faults >= MaxTries

\* A client that has seen the short last block holds the whole file.
CompleteMeansWhole ==
  client = "complete" => got = [i \in 1..LastBlock |-> i]

\* The client receives the file's blocks once each and in order.
ImplementsDelivery == Delivery!Spec

\* Every goroutine ends: no session waits for ever for its client.
SessionsEnd ==
  \A s \in Sessions : pc[s] \in {"oack", "data"} ~> pc[s] \in {"done", "failed"}

\* A client that asks without options gets its answer although datagrams are
\* lost or late, as long as there are fewer of these than tries.
PlainClientServed ==
  ~opts /\ MaxFaults < MaxTries => <>(client \in {"complete", "refused", "gone"})
=============================================================================
