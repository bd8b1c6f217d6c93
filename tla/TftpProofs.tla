----------------------------- MODULE TftpProofs -----------------------------
(***************************************************************************)
(* Proofs about Tftp: its inductive invariant, the safety properties that  *)
(* follow from it, and the refinement of FileDelivery, for every set of    *)
(* sessions, file length, width of the block number, number of tries and   *)
(* number of faults.                                                       *)
(*                                                                         *)
(* Most actions only echo: they put in flight nothing but copies of what   *)
(* the two ends have already committed to (Echo, EchoStep).  The steps     *)
(* that commit to something new are a session's next block (SendBlockStep) *)
(* and the client's acceptance of an OACK or a block.                      *)
(*                                                                         *)
(* The last part keeps the account of faults (FaultInv), by the number of  *)
(* datagrams that are in flight for a session and in the old part of them. *)
(***************************************************************************)
EXTENDS TftpInv, FiniteSetTheorems, TLAPS

-----------------------------------------------------------------------------
(* Block numbers.                                                          *)

LEMMA DivMod ==
  ASSUME NEW a \in Nat, NEW M \in Nat \ {0}
  PROVE  a = M * (a \div M) + (a % M) /\ a \div M \in Nat /\ a % M \in 0..(M - 1)
OBVIOUS

LEMMA MultAtLeast ==
  ASSUME NEW x \in Int, NEW M \in Nat \ {0}, x >= 1
  PROVE  M * x >= M
OBVIOUS

\* Two numbers less than M apart that agree modulo M are equal.
LEMMA ModInjective ==
  ASSUME NEW M \in Nat \ {0}, NEW a \in Nat, NEW b \in Nat,
         b <= a, a - b < M, a % M = b % M
  PROVE  a = b
<1> DEFINE p == a \div M
           q == b \div M
<1>1. a = M * p + (a % M) /\ b = M * q + (b % M) /\ p \in Nat /\ q \in Nat
  BY DivMod
<1> HIDE DEF p, q
<1>2. M * p \in Int /\ M * q \in Int /\ a % M \in Int /\ b % M \in Int
  BY <1>1
<1>3. a - b = M * p - M * q
  BY <1>1, <1>2
<1>4. M * p - M * q = M * (p - q)
  BY <1>1
<1>5. ~(p - q >= 1)
  BY <1>1, <1>3, <1>4, MultAtLeast
<1>6. ~(q - p >= 1)
  <2>1. SUFFICES ASSUME q - p >= 1 PROVE FALSE
    OBVIOUS
  <2>2. M * (q - p) >= M
    BY <2>1, <1>1, MultAtLeast
  <2>3. M * (q - p) = M * q - M * p
    BY <1>1
  <2> QED BY <2>2, <2>3, <1>3, <1>2
<1>7. p = q
  BY <1>5, <1>6, <1>1
<1> QED BY <1>7, <1>1, <1>2

-----------------------------------------------------------------------------
(* Messages.                                                               *)

LEMMA AckFields ==
  \A s, i : Ack(s, i).type = "ACK" /\ Ack(s, i).session = s /\ Ack(s, i).index = i
BY DEF Ack

LEMMA DataFields ==
  \A s, i, c : /\ Data(s, i, c).type = "DATA" /\ Data(s, i, c).session = s
               /\ Data(s, i, c).index = i /\ Data(s, i, c).cut = c
BY DEF Data

LEMMA OackFields == \A s : Oack(s).type = "OACK" /\ Oack(s).session = s
BY DEF Oack

\* The messages the inductive invariant says nothing about.
Others == {Rrq} \cup {Error(s) : s \in Sessions} \cup {Abort(s) : s \in Sessions}

LEMMA OtherFields == \A k \in Others : k.type \notin {"ACK", "DATA", "OACK"}
BY DEF Others, Rrq, Error, Abort

LEMMA MessageType ==
  ASSUME NEW s \in Sessions
  PROVE  /\ Oack(s) \in Messages
         /\ Rrq \in Others /\ Error(s) \in Others /\ Abort(s) \in Others
         /\ Others \subseteq Messages
         /\ \A i \in 0..LastBlock : Ack(s, i) \in Messages
         /\ \A i \in 1..LastBlock, c \in BOOLEAN : Data(s, i, c) \in Messages
BY DEF Messages, Others

\* n holds no message that is not in net.
Within(n) ==
  /\ n \in [Messages -> Nat]
  /\ \A k \in Messages : n[k] > 0 => net[k] > 0

LEMMA MinusWithin ==
  ASSUME net \in [Messages -> Nat], NEW m \in Messages, net[m] > 0
  PROVE  Within(Minus(net, m))
BY DEF Minus, Within

LEMMA PlusType ==
  ASSUME NEW n, Within(n), NEW m \in Messages
  PROVE  /\ Plus(n, m) \in [Messages -> Nat]
         /\ \A k \in Messages : Plus(n, m)[k] > 0 => net[k] > 0 \/ k = m
BY DEF Plus, Within

-----------------------------------------------------------------------------
(* Echoes.                                                                 *)

\* What may be put in flight, again, without anybody committing to anything.
Echo(k) ==
  \/ net[k] > 0
  \/ k \in Others
  \/ peer # NoSession /\ k = Ack(peer, Len(got))
  \/ \E s \in Sessions : pc[s] = "data" /\ k = Data(s, block[s], cut[s])

Echoes ==
  /\ net' \in [Messages -> Nat]
  /\ \A k \in Messages : net'[k] > 0 => Echo(k)

\* The messages of each kind after a step of echoes.
LEMMA EchoKinds ==
  ASSUME Echoes
  PROVE  /\ \A s \in Sessions, i \in 0..LastBlock :
              net'[Ack(s, i)] > 0 =>
                net[Ack(s, i)] > 0 \/ (s = peer /\ i = Len(got))
         /\ \A s \in Sessions, i \in 1..LastBlock, c \in BOOLEAN :
              net'[Data(s, i, c)] > 0 =>
                net[Data(s, i, c)] > 0 \/ (i = block[s] /\ c = cut[s])
         /\ \A s \in Sessions : net'[Oack(s)] > 0 => net[Oack(s)] > 0
<1>1. ASSUME NEW s \in Sessions, NEW i \in 0..LastBlock, net'[Ack(s, i)] > 0
      PROVE  net[Ack(s, i)] > 0 \/ (s = peer /\ i = Len(got))
  <2>1. Echo(Ack(s, i))
    BY <1>1, MessageType DEF Echoes
  <2>2. Ack(s, i) \notin Others
    BY AckFields, OtherFields
  <2>3. ASSUME Ack(s, i) = Ack(peer, Len(got)) PROVE s = peer /\ i = Len(got)
    BY <2>3, AckFields
  <2>4. ASSUME NEW t \in Sessions PROVE Ack(s, i) # Data(t, block[t], cut[t])
    BY AckFields, DataFields
  <2> QED BY <2>1, <2>2, <2>3, <2>4 DEF Echo
<1>2. ASSUME NEW s \in Sessions, NEW i \in 1..LastBlock, NEW c \in BOOLEAN,
             net'[Data(s, i, c)] > 0
      PROVE  net[Data(s, i, c)] > 0 \/ (i = block[s] /\ c = cut[s])
  <2>1. Echo(Data(s, i, c))
    BY <1>2, MessageType DEF Echoes
  <2>2. Data(s, i, c) \notin Others
    BY DataFields, OtherFields
  <2>3. Data(s, i, c) # Ack(peer, Len(got))
    BY AckFields, DataFields
  <2>4. ASSUME NEW t \in Sessions, Data(s, i, c) = Data(t, block[t], cut[t])
        PROVE  i = block[s] /\ c = cut[s]
    BY <2>4, DataFields
  <2> QED BY <2>1, <2>2, <2>3, <2>4 DEF Echo
<1>3. ASSUME NEW s \in Sessions, net'[Oack(s)] > 0
      PROVE  net[Oack(s)] > 0
  <2>1. Echo(Oack(s))
    BY <1>3, MessageType DEF Echoes
  <2>2. Oack(s) \notin Others
    BY OackFields, OtherFields
  <2>3. Oack(s) # Ack(peer, Len(got))
    BY AckFields, OackFields
  <2>4. ASSUME NEW t \in Sessions PROVE Oack(s) # Data(t, block[t], cut[t])
    BY OackFields, DataFields
  <2> QED BY <2>1, <2>2, <2>3, <2>4 DEF Echo
<1> QED BY <1>1, <1>2, <1>3

\* A step in which sessions may fail, the client may give up and only echoes
\* are sent preserves the invariant.
LEMMA EchoStep ==
  ASSUME IInv, Echoes,
         UNCHANGED <<block, cut, opts, peer, got>>,
         pc' \in [Sessions -> {"idle", "oack", "data", "done", "failed"}],
         \A s \in Sessions : pc'[s] \in {pc[s], "failed"},
         tries' \in [Sessions -> 0..(MaxTries - 1)],
         faults' \in 0..MaxFaults,
         client' \in {client, "gone"} \/ (client = "request" /\ client' = "refused")
  PROVE  IInv'
<1> USE SessionAssumption, NumberAssumption
<1>1. TypeOK'
  BY DEF IInv, TypeOK, Echoes
<1>2. Lockstep'
  BY DEF IInv, Lockstep
<1>3. DoneMeansDelivered'
  BY DEF IInv, DoneMeansDelivered
<1>4. StraySessionsStall'
  BY DEF IInv, StraySessionsStall
<1>5. BlockInv'
  BY DEF IInv, BlockInv
<1>6. AckInv'
  BY EchoKinds DEF IInv, AckInv, TypeOK
<1>7. DataInv'
  BY EchoKinds DEF IInv, DataInv, TypeOK
<1>8. OackInv'
  BY EchoKinds DEF IInv, OackInv
<1>9. GotInv'
  BY DEF IInv, GotInv
<1>10. ClientInv'
  BY DEF IInv, ClientInv, Whole, TypeOK
<1> QED BY <1>1, <1>2, <1>3, <1>4, <1>5, <1>6, <1>7, <1>8, <1>9, <1>10 DEF IInv

-----------------------------------------------------------------------------
(* A session commits to its next block.                                    *)

LEMMA SendBlockStep ==
  ASSUME IInv, NEW s \in Sessions, NEW n, Within(n),
         SendBlock(s, block[s] + 1, n),
         UNCHANGED <<opts, clientVars, faults>>,
         block[s] < LastBlock, ~cut[s], pc[s] # "done",
         s = peer => Len(got) = block[s],
         s # peer => block[s] = 0
  PROVE  IInv'
<1> USE SessionAssumption, NumberAssumption DEF clientVars
<1>1. PICK c \in BOOLEAN :
        /\ c => ReadFails
        /\ cut' = [cut EXCEPT ![s] = c]
        /\ net' = Plus(n, Data(s, block[s] + 1, c))
  BY DEF SendBlock
<1>2. /\ block \in [Sessions -> 0..LastBlock] /\ cut \in [Sessions -> BOOLEAN]
      /\ pc \in [Sessions -> {"idle", "oack", "data", "done", "failed"}]
      /\ block[s] + 1 \in 1..LastBlock
  BY DEF IInv, TypeOK
<1>3. /\ pc' = [pc EXCEPT ![s] = "data"]
      /\ block' = [block EXCEPT ![s] = block[s] + 1]
      /\ tries' = [tries EXCEPT ![s] = 0]
  BY DEF SendBlock
<1>4. /\ net' \in [Messages -> Nat]
      /\ \A k \in Messages : net'[k] > 0 => net[k] > 0 \/ k = Data(s, block[s] + 1, c)
  <2>1. Data(s, block[s] + 1, c) \in Messages
    BY <1>2, MessageType
  <2> QED BY <1>1, <2>1, PlusType
<1>5. TypeOK'
  BY <1>1, <1>2, <1>3, <1>4 DEF IInv, TypeOK
<1>6. Lockstep'
  BY <1>2, <1>3 DEF IInv, Lockstep, TypeOK
<1>7. DoneMeansDelivered'
  BY <1>1, <1>2, <1>3 DEF IInv, DoneMeansDelivered
<1>8. StraySessionsStall'
  BY <1>2, <1>3 DEF IInv, StraySessionsStall
<1>9. BlockInv'
  BY <1>1, <1>2, <1>3 DEF IInv, BlockInv
<1>10. AckInv'
  <2> SUFFICES ASSUME NEW t \in Sessions, NEW i \in 0..LastBlock, net'[Ack(t, i)] > 0
               PROVE  net[Ack(t, i)] > 0
    BY DEF IInv, AckInv
  <2>1. Ack(t, i) # Data(s, block[s] + 1, c)
    BY AckFields, DataFields
  <2> QED BY <2>1, <1>4, MessageType
<1>11. DataInv'
  <2> SUFFICES ASSUME NEW t \in Sessions, NEW i \in 1..LastBlock, NEW d \in BOOLEAN,
                      net'[Data(t, i, d)] > 0
               PROVE  /\ i <= block'[t] /\ (d => cut'[t])
                      /\ i = block'[t] => d = cut'[t]
                      /\ i # block'[t] => ~d
    BY DEF DataInv
  <2>1. CASE Data(t, i, d) = Data(s, block[s] + 1, c)
    <3>1. t = s /\ i = block[s] + 1 /\ d = c
      BY <2>1, DataFields
    <3> QED BY <3>1, <1>1, <1>2, <1>3
  <2>2. CASE Data(t, i, d) # Data(s, block[s] + 1, c)
    <3>1. net[Data(t, i, d)] > 0
      BY <2>2, <1>4, MessageType
    <3>2. /\ i <= block[t] /\ (d => cut[t])
          /\ i = block[t] => d = cut[t]
          /\ i # block[t] => ~d
      BY <3>1 DEF IInv, DataInv
    <3>3. CASE t = s
      BY <3>2, <3>3, <1>1, <1>2, <1>3
    <3>4. CASE t # s
      BY <3>2, <3>4, <1>1, <1>2, <1>3
    <3> QED BY <3>3, <3>4
  <2> QED BY <2>1, <2>2
<1>12. OackInv'
  <2> SUFFICES ASSUME NEW t \in Sessions, net'[Oack(t)] > 0
               PROVE  pc'[t] # "idle"
    BY DEF OackInv
  <2>1. Oack(t) # Data(s, block[s] + 1, c)
    BY OackFields, DataFields
  <2>2. net[Oack(t)] > 0
    BY <2>1, <1>4, MessageType
  <2> QED BY <2>2, <1>2, <1>3 DEF IInv, OackInv
<1>13. GotInv'
  BY <1>1, <1>2, <1>3 DEF IInv, GotInv
<1>14. ClientInv'
  BY <1>2, <1>3 DEF IInv, ClientInv, Whole, TypeOK
<1> QED BY <1>5, <1>6, <1>7, <1>8, <1>9, <1>10, <1>11, <1>12, <1>13, <1>14 DEF IInv
-----------------------------------------------------------------------------
(* The server's steps.                                                     *)

LEMMA TypeFacts ==
  ASSUME IInv
  PROVE  /\ net \in [Messages -> Nat] /\ faults \in 0..MaxFaults
         /\ pc \in [Sessions -> {"idle", "oack", "data", "done", "failed"}]
         /\ tries \in [Sessions -> 0..(MaxTries - 1)]
         /\ block \in [Sessions -> 0..LastBlock] /\ cut \in [Sessions -> BOOLEAN]
         /\ got \in Seq(0..LastBlock) /\ peer \in Sessions \cup {NoSession}
BY DEF IInv, TypeOK

LEMMA ServeNotFoundStep ==
  ASSUME IInv, NEW s \in Sessions, ServeNotFound(s)
  PROVE  IInv'
<1>1. Within(Minus(net, Rrq))
  BY TypeFacts, MessageType, MinusWithin DEF ServeNotFound
<1>2. Echoes
  BY <1>1, MessageType, PlusType DEF ServeNotFound, Echoes, Echo
<1> QED BY <1>2, TypeFacts, EchoStep DEF ServeNotFound, clientVars

LEMMA ServeOptionsStep ==
  ASSUME IInv, NEW s \in Sessions, ServeOptions(s)
  PROVE  IInv'
<1> USE SessionAssumption DEF clientVars
<1>1. Within(Minus(net, Rrq))
  BY TypeFacts, MessageType, MinusWithin DEF ServeOptions
<1>2. /\ net' \in [Messages -> Nat]
      /\ \A k \in Messages : net'[k] > 0 => net[k] > 0 \/ k = Oack(s)
  BY <1>1, MessageType, PlusType DEF ServeOptions
<1>3. /\ pc' = [pc EXCEPT ![s] = "oack"] /\ pc[s] = "idle"
      /\ UNCHANGED <<block, cut, tries, opts, client, peer, got, faults>>
  BY DEF ServeOptions
<1>4. \A t \in Sessions : t # s => pc'[t] = pc[t]
  BY <1>3, TypeFacts
<1>5. pc'[s] = "oack" /\ s # peer
  BY <1>3, TypeFacts DEF IInv, ClientInv
<1>6. \A t \in Sessions, i \in 0..LastBlock : net'[Ack(t, i)] > 0 => net[Ack(t, i)] > 0
  <2> TAKE t \in Sessions, i \in 0..LastBlock
  <2>1. Ack(t, i) # Oack(s)
    BY AckFields, OackFields
  <2> QED BY <2>1, <1>2, MessageType
<1>7. \A t \in Sessions, i \in 1..LastBlock, c \in BOOLEAN :
        net'[Data(t, i, c)] > 0 => net[Data(t, i, c)] > 0
  <2> TAKE t \in Sessions, i \in 1..LastBlock, c \in BOOLEAN
  <2>1. Data(t, i, c) # Oack(s)
    BY DataFields, OackFields
  <2> QED BY <2>1, <1>2, MessageType
<1>8. \A t \in Sessions : net'[Oack(t)] > 0 => net[Oack(t)] > 0 \/ t = s
  <2> TAKE t \in Sessions
  <2>1. Oack(t) = Oack(s) => t = s
    BY OackFields
  <2> QED BY <2>1, <1>2, MessageType
<1>9. TypeOK'
  BY <1>2, <1>3 DEF IInv, TypeOK
<1>10. Lockstep' /\ GotInv'
  BY <1>3 DEF IInv, Lockstep, GotInv
<1>11. DoneMeansDelivered' /\ StraySessionsStall'
  BY <1>3, <1>4, <1>5 DEF IInv, DoneMeansDelivered, StraySessionsStall
<1>12. BlockInv'
  BY <1>3, <1>4, <1>5 DEF IInv, BlockInv
<1>13. AckInv'
  BY <1>3, <1>6 DEF IInv, AckInv
<1>14. DataInv'
  BY <1>3, <1>7 DEF IInv, DataInv
<1>15. OackInv'
  BY <1>4, <1>5, <1>8 DEF IInv, OackInv
<1>16. ClientInv'
  BY <1>3, <1>4, <1>5, TypeFacts DEF IInv, ClientInv, Whole
<1> QED BY <1>9, <1>10, <1>11, <1>12, <1>13, <1>14, <1>15, <1>16 DEF IInv

LEMMA ServePlainStep ==
  ASSUME IInv, NEW s \in Sessions, ServePlain(s)
  PROVE  IInv'
<1>1. Within(Minus(net, Rrq))
  BY TypeFacts, MessageType, MinusWithin DEF ServePlain
<1>2. block[s] = 0 /\ ~cut[s] /\ s # peer /\ pc[s] # "done"
  BY SessionAssumption, TypeFacts DEF ServePlain, IInv, BlockInv, ClientInv
<1>3. SendBlock(s, block[s] + 1, Minus(net, Rrq))
  BY <1>2 DEF ServePlain
<1> QED BY <1>1, <1>2, <1>3, NumberAssumption, SendBlockStep DEF ServePlain

\* An acknowledgement the session waits for is the client's answer to the block
\* it has just accepted: the block number on the wire does not deceive it.
LEMMA AwaitedAck ==
  ASSUME IInv, NEW s \in Sessions, NEW m \in Messages, Arrives(s, m), Awaited(s, m)
  PROVE  s = peer /\ Len(got) = block[s] /\ Within(Minus(net, m))
<1> USE SessionAssumption, NumberAssumption
<1>1. PICK i \in 0..LastBlock : m = Ack(s, i) /\ Fresh(s, i)
  <2>1. m # Abort(s)
    BY DEF Awaited, Abort
  <2> QED BY <2>1 DEF Arrives
<1>2. net[m] > 0 /\ s = peer /\ i <= Len(got)
  BY <1>1 DEF Arrives, IInv, AckInv
<1>3. Len(got) \in Nat /\ Len(got) <= block[s] /\ block[s] \in Nat
  BY <1>2, TypeFacts DEF IInv, Lockstep
<1>4. block[s] % BlockMod = i % BlockMod /\ block[s] - i < BlockMod - 1
  BY <1>1, AckFields DEF Awaited, Wire, Fresh
<1>5. /\ BlockMod \in Nat \ {0} /\ i \in Nat
      /\ i <= block[s] /\ block[s] - i < BlockMod
  BY <1>2, <1>3, <1>4
<1>6. block[s] = i
  BY <1>3, <1>4, <1>5, ModInjective
<1> QED BY <1>2, <1>3, <1>6, TypeFacts, MinusWithin

LEMMA OackAckedStep ==
  ASSUME IInv, NEW s \in Sessions, OackAcked(s)
  PROVE  IInv'
<1>1. PICK m \in Messages :
        Arrives(s, m) /\ Awaited(s, m) /\ SendBlock(s, 1, Minus(net, m))
  BY DEF OackAcked
<1>2. s = peer /\ Len(got) = block[s] /\ Within(Minus(net, m))
  BY <1>1, AwaitedAck
<1>3. block[s] = 0 /\ ~cut[s] /\ pc[s] # "done"
  BY TypeFacts DEF OackAcked, IInv, BlockInv
<1>4. SendBlock(s, block[s] + 1, Minus(net, m))
  BY <1>1, <1>3
<1> QED BY <1>2, <1>3, <1>4, NumberAssumption, SendBlockStep DEF OackAcked

LEMMA BlockAckedStep ==
  ASSUME IInv, NEW s \in Sessions, BlockAcked(s)
  PROVE  IInv'
<1> USE SessionAssumption, NumberAssumption
<1>1. PICK m \in Messages :
        /\ Arrives(s, m) /\ Awaited(s, m)
        /\ \/ /\ cut[s] \/ block[s] = LastBlock
              /\ pc' = [pc EXCEPT ![s] = "done"]
              /\ net' = Minus(net, m)
              /\ UNCHANGED <<block, cut, tries>>
           \/ /\ ~cut[s] /\ block[s] # LastBlock
              /\ SendBlock(s, block[s] + 1, Minus(net, m))
  BY DEF BlockAcked, LastSent
<1>2. s = peer /\ Len(got) = block[s] /\ Within(Minus(net, m))
  BY <1>1, AwaitedAck
<1>3. CASE ~cut[s] /\ block[s] # LastBlock /\ SendBlock(s, block[s] + 1, Minus(net, m))
  <2>1. block[s] < LastBlock
    BY <1>3, TypeFacts
  <2> QED BY <1>2, <1>3, <2>1, SendBlockStep DEF BlockAcked
<1>4. CASE /\ cut[s] \/ block[s] = LastBlock
           /\ pc' = [pc EXCEPT ![s] = "done"]
           /\ net' = Minus(net, m)
           /\ UNCHANGED <<block, cut, tries>>
  <2>1. /\ net' \in [Messages -> Nat]
        /\ \A k \in Messages : net'[k] > 0 => net[k] > 0
    BY <1>2, <1>4 DEF Within
  <2>2. UNCHANGED <<block, cut, tries, opts, client, peer, got, faults>> /\ pc[s] = "data"
    BY <1>4 DEF BlockAcked, clientVars
  <2>3. pc'[s] = "done" /\ \A t \in Sessions : t # s => pc'[t] = pc[t]
    BY <1>4, TypeFacts
  <2>4. TypeOK'
    BY <1>4, <2>1, <2>2 DEF IInv, TypeOK
  <2>5. Lockstep' /\ GotInv'
    BY <2>2 DEF IInv, Lockstep, GotInv
  <2>6. DoneMeansDelivered' /\ StraySessionsStall'
    BY <1>2, <1>4, <2>2, <2>3 DEF IInv, DoneMeansDelivered, StraySessionsStall
  <2>7. BlockInv'
    BY <2>2, <2>3 DEF IInv, BlockInv
  <2>8. AckInv'
    BY <2>1, <2>2, MessageType DEF IInv, AckInv
  <2>9. DataInv'
    BY <2>1, <2>2, MessageType DEF IInv, DataInv
  <2>10. OackInv'
    BY <2>1, <2>3, MessageType DEF IInv, OackInv
  <2>11. ClientInv'
    BY <1>2, <2>2, <2>3 DEF IInv, ClientInv, Whole
  <2> QED BY <2>4, <2>5, <2>6, <2>7, <2>8, <2>9, <2>10, <2>11 DEF IInv
<1> QED BY <1>1, <1>3, <1>4

LEMMA WaitFailedStep ==
  ASSUME IInv, NEW s \in Sessions, NEW n, Within(n), WaitFailed(s, n),
         faults' \in 0..MaxFaults
  PROVE  IInv'
<1>1. /\ pc' \in [Sessions -> {"idle", "oack", "data", "done", "failed"}]
      /\ \A t \in Sessions : pc'[t] \in {pc[t], "failed"}
  BY TypeFacts DEF WaitFailed
<1>2. tries' \in [Sessions -> 0..(MaxTries - 1)]
  <2>1. tries[s] \in Nat /\ MaxTries \in Nat
    BY TypeFacts, NumberAssumption
  <2>2. CASE tries' = tries
    BY <2>2, TypeFacts
  <2>3. CASE tries[s] + 1 < MaxTries /\ tries' = [tries EXCEPT ![s] = @ + 1]
    <3>1. tries[s] + 1 \in 0..(MaxTries - 1)
      BY <2>1, <2>3
    <3> QED BY <2>3, <3>1, TypeFacts
  <2> QED BY <2>2, <2>3 DEF WaitFailed, TryLeft
<1>3. Echoes
  <2>1. CASE net' = n
    BY <2>1 DEF Within, Echoes, Echo
  <2>2. CASE pc[s] = "data" /\ net' = Plus(n, Data(s, block[s], cut[s]))
    <3>1. block[s] \in 1..LastBlock /\ cut[s] \in BOOLEAN
      BY <2>2, TypeFacts DEF IInv, BlockInv
    <3>2. Data(s, block[s], cut[s]) \in Messages
      BY <3>1, MessageType
    <3> QED BY <2>2, <3>2, PlusType DEF Echoes, Echo
  <2> QED BY <2>1, <2>2 DEF WaitFailed
<1> QED BY <1>1, <1>2, <1>3, EchoStep DEF WaitFailed, clientVars
-----------------------------------------------------------------------------
(* The steps of the client and of the network.                             *)

LEMMA RecvOackStep ==
  ASSUME IInv, NEW s \in Sessions, RecvOack(s)
  PROVE  IInv'
<1> USE SessionAssumption, NumberAssumption DEF serverVars
<1>0. net[Oack(s)] > 0 /\ UNCHANGED <<pc, block, cut, tries, opts, got, faults>>
  BY DEF RecvOack
<1>1. Within(Minus(net, Oack(s)))
  BY <1>0, TypeFacts, MessageType, MinusWithin
<1>2. CASE /\ client = "request"
           /\ client' = "transfer" /\ peer' = s
           /\ net' = Plus(Minus(net, Oack(s)), Ack(s, 0))
  <2>1. peer = NoSession /\ got = <<>> /\ pc[s] # "idle"
    BY <1>0, <1>2 DEF IInv, ClientInv, OackInv
  <2>2. /\ net' \in [Messages -> Nat]
        /\ \A k \in Messages : net'[k] > 0 => net[k] > 0 \/ k = Ack(s, 0)
    BY <1>1, <1>2, PlusType, MessageType
  <2>3. TypeOK'
    BY <1>0, <1>2, <2>2 DEF IInv, TypeOK
  <2>4. block[s] \in {0, 1}
    BY <2>1, TypeFacts DEF IInv, StraySessionsStall
  <2>5. Lockstep' /\ GotInv'
    BY <1>0, <1>2, <2>1, <2>4 DEF Lockstep, GotInv
  <2>6. DoneMeansDelivered' /\ StraySessionsStall'
    BY <1>0, <1>2, <2>1 DEF IInv, DoneMeansDelivered, StraySessionsStall
  <2>7. BlockInv'
    BY <1>0 DEF IInv, BlockInv
  <2>8. AckInv'
    <3> SUFFICES ASSUME NEW t \in Sessions, NEW i \in 0..LastBlock, net'[Ack(t, i)] > 0
                 PROVE  t = s /\ i = 0
      BY <1>0, <1>2, <2>1 DEF AckInv
    <3>1. ~(net[Ack(t, i)] > 0)
      BY <2>1 DEF IInv, AckInv
    <3>2. Ack(t, i) = Ack(s, 0)
      BY <2>2, <3>1, MessageType
    <3> QED BY <3>2, AckFields
  <2>9. DataInv'
    <3>1. \A t \in Sessions, i \in 1..LastBlock, c \in BOOLEAN :
            net'[Data(t, i, c)] > 0 => net[Data(t, i, c)] > 0
      <4> TAKE t \in Sessions, i \in 1..LastBlock, c \in BOOLEAN
      <4>1. Data(t, i, c) # Ack(s, 0)
        BY AckFields, DataFields
      <4> QED BY <4>1, <2>2, MessageType
    <3> QED BY <1>0, <3>1 DEF IInv, DataInv
  <2>10. OackInv'
    <3>1. \A t \in Sessions : net'[Oack(t)] > 0 => net[Oack(t)] > 0
      <4> TAKE t \in Sessions
      <4>1. Oack(t) # Ack(s, 0)
        BY AckFields, OackFields
      <4> QED BY <4>1, <2>2, MessageType
    <3> QED BY <1>0, <3>1 DEF IInv, OackInv
  <2>11. ClientInv'
    BY <1>0, <1>2, <2>1 DEF ClientInv, Whole
  <2> QED BY <2>3, <2>5, <2>6, <2>7, <2>8, <2>9, <2>10, <2>11 DEF IInv
<1>3. CASE /\ UNCHANGED <<client, peer>>
           /\ \/ peer = s /\ got = <<>> /\ net' = Plus(Minus(net, Oack(s)), Ack(s, 0))
              \/ net' = Minus(net, Oack(s))
              \/ net' = Plus(Minus(net, Oack(s)), Abort(s))
  <2>1. Echoes
    <3>1. CASE peer = s /\ got = <<>> /\ net' = Plus(Minus(net, Oack(s)), Ack(s, 0))
      <4>1. peer # NoSession /\ Len(got) = 0 /\ Ack(s, 0) \in Messages
        BY <3>1, MessageType
      <4> QED BY <1>1, <3>1, <4>1, PlusType DEF Echoes, Echo
    <3>2. CASE net' = Minus(net, Oack(s))
      BY <1>1, <3>2 DEF Within, Echoes, Echo
    <3>3. CASE net' = Plus(Minus(net, Oack(s)), Abort(s))
      BY <1>1, <3>3, PlusType, MessageType DEF Echoes, Echo
    <3> QED BY <1>3, <3>1, <3>2, <3>3
  <2> QED BY <1>0, <1>3, <2>1, TypeFacts, EchoStep
<1> QED BY <1>2, <1>3 DEF RecvOack

\* A block the client accepts is the one after the last it has accepted, and
\* its session is about to learn that.
LEMMA AcceptedBlock ==
  ASSUME IInv, NEW s \in Sessions, NEW i \in 1..LastBlock, NEW c \in BOOLEAN,
         net[Data(s, i, c)] > 0, Fresh(s, i), Expected(s, i)
  PROVE  /\ i = Len(got) + 1 /\ i = block[s] /\ c = cut[s] /\ ~Whole
         /\ pc[s] \notin {"idle", "oack", "done"}
         /\ peer \in {s, NoSession}
         /\ \A j \in 1..Len(got) : got[j] = j
<1> USE SessionAssumption, NumberAssumption
<1>1. /\ i <= block[s] /\ (i = block[s] => c = cut[s])
      /\ block[s] \in Nat /\ Len(got) \in Nat
  BY TypeFacts DEF IInv, DataInv
<1>2. /\ block[s] - 1 <= Len(got) /\ Len(got) <= block[s]
      /\ peer \in {s, NoSession} /\ ~Whole
  <2>1. CASE client = "request"
    <3>1. peer = NoSession /\ got = <<>>
      BY <2>1 DEF IInv, ClientInv
    <3>2. block[s] <= 1
      BY <3>1 DEF IInv, StraySessionsStall
    <3> QED BY <1>1, <3>1, <3>2 DEF Whole
  <2>2. CASE client = "transfer" /\ peer = s
    BY <2>2 DEF IInv, Lockstep, ClientInv
  <2> QED BY <2>1, <2>2 DEF Expected
<1>3. i % BlockMod = (Len(got) + 1) % BlockMod /\ block[s] - i < BlockMod - 1
  BY DEF Expected, Wire, Fresh
<1>4. /\ BlockMod \in Nat \ {0} /\ i \in Nat /\ Len(got) + 1 \in Nat
      /\ i <= Len(got) + 1 /\ (Len(got) + 1) - i < BlockMod
  BY <1>1, <1>2, <1>3
<1>5. i = Len(got) + 1
  BY <1>3, <1>4, ModInjective
<1>6. i = block[s]
  BY <1>1, <1>2, <1>5
<1>7. pc[s] \notin {"idle", "oack", "done"}
  BY <1>1, <1>5, <1>6 DEF IInv, BlockInv, DoneMeansDelivered
<1>8. \A j \in 1..Len(got) : got[j] = j
  BY <1>2 DEF IInv, GotInv, Whole
<1> QED BY <1>1, <1>2, <1>5, <1>6, <1>7, <1>8
LEMMA AcceptStep ==
  ASSUME IInv, NEW s \in Sessions, NEW i \in 1..LastBlock, NEW c \in BOOLEAN,
         net[Data(s, i, c)] > 0, Fresh(s, i), Expected(s, i),
         peer' = s, got' = Append(got, Payload(i, c)),
         client' = IF c \/ i = LastBlock THEN "complete" ELSE "transfer",
         net' = Plus(Minus(net, Data(s, i, c)), Ack(s, Len(got) + 1)),
         UNCHANGED <<pc, block, cut, tries, opts, faults>>
  PROVE  IInv'
<1> USE SessionAssumption, NumberAssumption
<1>1. /\ i = Len(got) + 1 /\ i = block[s] /\ c = cut[s] /\ ~Whole
      /\ pc[s] \notin {"idle", "oack", "done"}
      /\ peer \in {s, NoSession}
      /\ \A j \in 1..Len(got) : got[j] = j
  BY AcceptedBlock
<1>2. /\ net' \in [Messages -> Nat]
      /\ \A k \in Messages : net'[k] > 0 => net[k] > 0 \/ k = Ack(s, i)
  <2>1. Within(Minus(net, Data(s, i, c)))
    BY TypeFacts, MessageType, MinusWithin
  <2>2. Ack(s, i) \in Messages
    BY MessageType
  <2> QED BY <1>1, <2>1, <2>2, PlusType
<1>3. got \in Seq(0..LastBlock) /\ Payload(i, c) \in 0..LastBlock
  BY TypeFacts DEF Payload, Cut
<1>4. /\ got' \in Seq(0..LastBlock) /\ Len(got') = i
      /\ got'[i] = Payload(i, c)
      /\ \A j \in 1..Len(got) : got'[j] = j
  BY <1>1, <1>3
<1>5. TypeOK'
  BY <1>2, <1>4 DEF IInv, TypeOK
<1>6. Lockstep'
  BY <1>1, <1>4 DEF Lockstep
<1>7. DoneMeansDelivered' /\ StraySessionsStall'
  BY <1>1 DEF IInv, DoneMeansDelivered, StraySessionsStall
<1>8. BlockInv'
  BY DEF IInv, BlockInv
<1>9. AckInv'
  <2> SUFFICES ASSUME NEW t \in Sessions, NEW j \in 0..LastBlock, net'[Ack(t, j)] > 0
               PROVE  t = s /\ j <= i
    BY <1>4 DEF AckInv
  <2>1. CASE net[Ack(t, j)] > 0
    BY <2>1, <1>1 DEF IInv, AckInv
  <2>2. CASE Ack(t, j) = Ack(s, i)
    BY <2>2, AckFields
  <2> QED BY <1>2, <2>1, <2>2, MessageType
<1>10. DataInv'
  <2>1. \A t \in Sessions, j \in 1..LastBlock, d \in BOOLEAN :
          net'[Data(t, j, d)] > 0 => net[Data(t, j, d)] > 0
    <3> TAKE t \in Sessions, j \in 1..LastBlock, d \in BOOLEAN
    <3>1. Data(t, j, d) # Ack(s, i)
      BY AckFields, DataFields
    <3> QED BY <3>1, <1>2, MessageType
  <2> QED BY <2>1 DEF IInv, DataInv
<1>11. OackInv'
  <2>1. \A t \in Sessions : net'[Oack(t)] > 0 => net[Oack(t)] > 0
    <3> TAKE t \in Sessions
    <3>1. Oack(t) # Ack(s, i)
      BY AckFields, OackFields
    <3> QED BY <3>1, <1>2, MessageType
  <2> QED BY <2>1 DEF IInv, OackInv
<1>12. GotInv'
  BY <1>1, <1>4 DEF GotInv, Payload
<1>13. ClientInv'
  <2>1. Whole' <=> c \/ i = LastBlock
    BY <1>4 DEF Whole, Payload, Cut
  <2> QED BY <1>1, <1>4, <2>1 DEF ClientInv
<1> QED BY <1>5, <1>6, <1>7, <1>8, <1>9, <1>10, <1>11, <1>12, <1>13 DEF IInv

LEMMA RecvDataStep ==
  ASSUME IInv, NEW s \in Sessions, RecvData(s)
  PROVE  IInv'
<1> USE SessionAssumption, NumberAssumption
<1>0. UNCHANGED <<pc, block, cut, tries, opts, faults>>
  BY DEF RecvData, serverVars
<1>1. PICK i \in 1..LastBlock, c \in BOOLEAN :
        /\ net[Data(s, i, c)] > 0 /\ Fresh(s, i)
        /\ \/ /\ Expected(s, i)
              /\ peer' = s
              /\ got' = Append(got, Payload(i, c))
              /\ client' = IF c \/ i = LastBlock THEN "complete" ELSE "transfer"
              /\ net' = Plus(Minus(net, Data(s, i, c)), Ack(s, Len(got) + 1))
           \/ /\ UNCHANGED clientVars
              /\ \/ Repeated(s, i) /\ net' = Plus(Minus(net, Data(s, i, c)), Ack(s, Len(got)))
                 \/ net' = Plus(Minus(net, Data(s, i, c)), Abort(s))
                 \/ net' = Minus(net, Data(s, i, c))
  BY DEF RecvData
<1>2. CASE /\ Expected(s, i)
           /\ peer' = s
           /\ got' = Append(got, Payload(i, c))
           /\ client' = IF c \/ i = LastBlock THEN "complete" ELSE "transfer"
           /\ net' = Plus(Minus(net, Data(s, i, c)), Ack(s, Len(got) + 1))
  BY <1>0, <1>1, <1>2, AcceptStep
<1>3. CASE /\ UNCHANGED clientVars
           /\ \/ Repeated(s, i) /\ net' = Plus(Minus(net, Data(s, i, c)), Ack(s, Len(got)))
              \/ net' = Plus(Minus(net, Data(s, i, c)), Abort(s))
              \/ net' = Minus(net, Data(s, i, c))
  <2>1. Within(Minus(net, Data(s, i, c)))
    BY <1>1, TypeFacts, MessageType, MinusWithin
  <2>2. Echoes
    <3>1. CASE Repeated(s, i) /\ net' = Plus(Minus(net, Data(s, i, c)), Ack(s, Len(got)))
      <4>1. peer = s /\ Len(got) \in 0..LastBlock
        BY <3>1, TypeFacts DEF Repeated, IInv, Lockstep
      <4>2. Ack(s, Len(got)) \in Messages
        BY <4>1, MessageType
      <4> QED BY <2>1, <3>1, <4>1, <4>2, PlusType DEF Echoes, Echo
    <3>2. CASE net' = Plus(Minus(net, Data(s, i, c)), Abort(s))
      BY <2>1, <3>2, PlusType, MessageType DEF Echoes, Echo
    <3>3. CASE net' = Minus(net, Data(s, i, c))
      BY <2>1, <3>3 DEF Within, Echoes, Echo
    <3> QED BY <1>3, <3>1, <3>2, <3>3
  <2> QED BY <1>0, <1>3, <2>2, TypeFacts, EchoStep DEF clientVars
<1> QED BY <1>1, <1>2, <1>3

\* The client's other steps and the network's send nothing but echoes.
LEMMA OtherClientStep ==
  ASSUME IInv,
         \/ \E s \in Sessions : RecvError(s)
         \/ RetryRequest \/ EarlyRetryRequest \/ RetryAck \/ Vanish \/ Network
  PROVE  IInv'
<1> USE SessionAssumption, NumberAssumption
<1>0. Within(net)
  BY TypeFacts DEF Within
<1>1. Echoes
  <2>1. ASSUME NEW s \in Sessions, RecvError(s) PROVE Echoes
    BY <2>1, TypeFacts, MessageType, MinusWithin DEF RecvError, Within, Echoes, Echo
  <2>2. CASE RetryRequest \/ EarlyRetryRequest
    <3>1. net' = Plus(net, Rrq) /\ Rrq \in Messages
      BY <2>2 DEF RetryRequest, EarlyRetryRequest, Messages
    <3> QED BY <1>0, <3>1, PlusType DEF Echoes, Echo, Others
  <2>3. CASE RetryAck
    <3>1. peer \in Sessions /\ Len(got) \in 0..LastBlock
      BY <2>3, TypeFacts DEF RetryAck, IInv, ClientInv, Lockstep
    <3>2. Ack(peer, Len(got)) \in Messages
      BY <3>1, MessageType
    <3> QED BY <1>0, <2>3, <3>1, <3>2, PlusType DEF RetryAck, Echoes, Echo
  <2>4. CASE Vanish
    BY <1>0, <2>4 DEF Vanish, Within, Echoes, Echo
  <2>5. ASSUME NEW m \in Messages, Lose(m) PROVE Echoes
    BY <2>5, TypeFacts, MinusWithin DEF Lose, Within, Echoes, Echo
  <2>6. ASSUME NEW m \in Messages, Duplicate(m) PROVE Echoes
    BY <1>0, <2>6, PlusType DEF Duplicate, Echoes, Echo
  <2> QED BY <2>1, <2>2, <2>3, <2>4, <2>5, <2>6 DEF Network
<1>2. UNCHANGED <<pc, block, cut, tries, opts, peer, got>>
  BY DEF RecvError, RetryRequest, EarlyRetryRequest, RetryAck, Vanish, Network,
         Lose, Duplicate, serverVars, clientVars
<1>3. faults' \in 0..MaxFaults
  BY TypeFacts DEF RecvError, RetryRequest, EarlyRetryRequest, RetryAck, Vanish, Network,
                   Lose, Duplicate
<1>4. client' \in {client, "gone"} \/ (client = "request" /\ client' = "refused")
  BY DEF RecvError, RetryRequest, EarlyRetryRequest, RetryAck, Vanish, Network,
         Lose, Duplicate, clientVars
<1> QED BY <1>1, <1>2, <1>3, <1>4, TypeFacts, EchoStep

LEMMA OtherServerStep ==
  ASSUME IInv, NEW s \in Sessions,
         WrongPacket(s) \/ Timeout(s) \/ EarlyTimeout(s) \/ WriteFails(s)
  PROVE  IInv'
<1> USE SessionAssumption, NumberAssumption
<1>0. Within(net)
  BY TypeFacts DEF Within
<1>1. CASE WrongPacket(s)
  <2>1. PICK m \in Messages : net[m] > 0 /\ WaitFailed(s, Minus(net, m))
    BY <1>1 DEF WrongPacket, Arrives
  <2>2. faults' \in 0..MaxFaults
    BY <1>1, TypeFacts DEF WrongPacket
  <2> QED BY <2>1, <2>2, TypeFacts, MinusWithin, WaitFailedStep
<1>2. CASE Timeout(s) \/ EarlyTimeout(s)
  <2>1. WaitFailed(s, net) /\ faults' \in 0..MaxFaults
    BY <1>2, TypeFacts DEF Timeout, EarlyTimeout
  <2> QED BY <1>0, <2>1, WaitFailedStep
<1>3. CASE WriteFails(s)
  <2>1. Echoes
    BY <1>0, <1>3 DEF WriteFails, Within, Echoes, Echo
  <2> QED BY <1>3, <2>1, TypeFacts, EchoStep DEF WriteFails, clientVars
<1> QED BY <1>1, <1>2, <1>3

-----------------------------------------------------------------------------
(* The inductive invariant.                                                *)

LEMMA InitInv ==
  ASSUME Init
  PROVE  IInv
<1> USE SessionAssumption, NumberAssumption DEF Init
<1>1. net \in [Messages -> Nat] /\ \A k \in Messages : net[k] > 0 => k = Rrq
  OBVIOUS
<1>2. TypeOK
  BY <1>1 DEF TypeOK
<1>3. \A s \in Sessions :
        /\ \A i \in 0..LastBlock : ~(net[Ack(s, i)] > 0)
        /\ \A i \in 1..LastBlock, c \in BOOLEAN : ~(net[Data(s, i, c)] > 0)
        /\ ~(net[Oack(s)] > 0)
  <2> TAKE s \in Sessions
  <2>1. \A i \in 0..LastBlock : Ack(s, i) # Rrq
    BY AckFields DEF Rrq
  <2>2. ASSUME NEW i \in 1..LastBlock, NEW c \in BOOLEAN PROVE Data(s, i, c) # Rrq
    BY DataFields DEF Rrq
  <2>3. Oack(s) # Rrq
    BY OackFields DEF Rrq
  <2> QED BY <1>1, <2>1, <2>2, <2>3, MessageType
<1>4. AckInv /\ DataInv /\ OackInv
  BY <1>3 DEF AckInv, DataInv, OackInv
<1>5. Lockstep /\ DoneMeansDelivered /\ StraySessionsStall /\ BlockInv /\ GotInv /\ ClientInv
  BY DEF Lockstep, DoneMeansDelivered, StraySessionsStall, BlockInv, GotInv, ClientInv
<1> QED BY <1>2, <1>4, <1>5 DEF IInv

LEMMA NextInv ==
  ASSUME IInv, [Next]_vars
  PROVE  IInv'
<1>1. ASSUME NEW s \in Sessions, Server(s) PROVE IInv'
  BY <1>1, ServeNotFoundStep, ServeOptionsStep, ServePlainStep, OackAckedStep,
     BlockAckedStep, OtherServerStep DEF Server
<1>2. CASE Client
  BY <1>2, RecvOackStep, RecvDataStep, OtherClientStep DEF Client
<1>3. CASE Network
  BY <1>3, OtherClientStep
<1>4. CASE UNCHANGED vars
  BY <1>4 DEF vars, serverVars, clientVars, IInv, TypeOK, Lockstep, DoneMeansDelivered,
              StraySessionsStall, BlockInv, AckInv, DataInv, OackInv, GotInv, ClientInv, Whole
<1> QED BY <1>1, <1>2, <1>3, <1>4 DEF Next

-----------------------------------------------------------------------------
(* Counting what is in flight.                                             *)

LEMMA CopiesMember ==
  \A n, M, t : t \in Copies(n, M) <=> \E m \in M : \E k \in 1..n[m] : t = <<m, k>>
BY DEF Copies

LEMMA CopiesSame ==
  ASSUME NEW n, NEW p, NEW M, \A l \in M : p[l] = n[l]
  PROVE  Copies(p, M) = Copies(n, M)
<1>1. ASSUME NEW t \in Copies(p, M) PROVE t \in Copies(n, M)
  <2>1. PICK l \in M : \E k \in 1..p[l] : t = <<l, k>>
    BY CopiesMember
  <2>2. \E k \in 1..n[l] : t = <<l, k>>
    BY <2>1
  <2> QED BY <2>2, CopiesMember
<1>2. ASSUME NEW t \in Copies(n, M) PROVE t \in Copies(p, M)
  <2>1. PICK l \in M : \E k \in 1..n[l] : t = <<l, k>>
    BY CopiesMember
  <2>2. \E k \in 1..p[l] : t = <<l, k>>
    BY <2>1
  <2> QED BY <2>2, CopiesMember
<1> QED BY <1>1, <1>2

LEMMA NoCopies ==
  ASSUME NEW n, NEW M, \A m \in M : n[m] = 0
  PROVE  Copies(n, M) = {}
<1> SUFFICES ASSUME NEW t \in Copies(n, M) PROVE FALSE
  OBVIOUS
<1>1. PICK m \in M : \E k \in 1..n[m] : t = <<m, k>>
  BY CopiesMember
<1> QED BY <1>1

LEMMA PlusCount ==
  ASSUME NEW n \in [Messages -> Nat], NEW m \in Messages,
         NEW M \in SUBSET Messages, IsFiniteSet(Copies(n, M))
  PROVE  /\ IsFiniteSet(Copies(Plus(n, m), M))
         /\ InFlight(Plus(n, m), M) = InFlight(n, M) + (IF m \in M THEN 1 ELSE 0)
<1> DEFINE p == Plus(n, m)
           x == <<m, n[m] + 1>>
<1>1. p \in [Messages -> Nat] /\ p[m] = n[m] + 1 /\ \A k \in Messages \ {m} : p[k] = n[k]
  BY DEF Plus
<1> HIDE DEF p
<1>2. CASE m \in M
  <2>1. Copies(p, M) = Copies(n, M) \cup {x}
    <3>1. ASSUME NEW t \in Copies(p, M) PROVE t \in Copies(n, M) \cup {x}
      <4>1. PICK l \in M, k \in Nat : k \in 1..p[l] /\ t = <<l, k>>
        BY CopiesMember
      <4>2. l # m \/ k # n[m] + 1 => k \in 1..n[l]
        BY <1>1, <4>1
      <4> QED BY <4>1, <4>2, CopiesMember
    <3>2. ASSUME NEW t \in Copies(n, M) PROVE t \in Copies(p, M)
      <4>1. PICK l \in M, k \in Nat : k \in 1..n[l] /\ t = <<l, k>>
        BY CopiesMember
      <4>2. k \in 1..p[l]
        BY <1>1, <4>1
      <4> QED BY <4>1, <4>2, CopiesMember
    <3>3. n[m] + 1 \in 1..p[m]
      BY <1>1
    <3>4. x \in Copies(p, M)
      BY <1>2, <3>3, CopiesMember
    <3> QED BY <3>1, <3>2, <3>4
  <2>2. x \notin Copies(n, M)
    <3> SUFFICES ASSUME NEW l \in M, NEW k \in 1..n[l], x = <<l, k>> PROVE FALSE
      BY CopiesMember
    <3> QED OBVIOUS
  <2> QED BY <1>2, <2>1, <2>2, FS_AddElement DEF InFlight, p
<1>3. CASE m \notin M
  <2>1. \A l \in M : p[l] = n[l]
    BY <1>1, <1>3
  <2>2. Copies(p, M) = Copies(n, M)
    BY <2>1, CopiesSame
  <2> QED BY <1>3, <2>2, FS_CardinalityType DEF InFlight, p
<1> QED BY <1>2, <1>3

LEMMA MinusCount ==
  ASSUME NEW n \in [Messages -> Nat], NEW m \in Messages, n[m] > 0,
         NEW M \in SUBSET Messages, IsFiniteSet(Copies(n, M))
  PROVE  /\ Minus(n, m) \in [Messages -> Nat]
         /\ IsFiniteSet(Copies(Minus(n, m), M))
         /\ InFlight(Minus(n, m), M) = InFlight(n, M) - (IF m \in M THEN 1 ELSE 0)
<1> DEFINE p == Minus(n, m)
           x == <<m, n[m]>>
<1>1. p \in [Messages -> Nat] /\ p[m] = n[m] - 1 /\ \A k \in Messages \ {m} : p[k] = n[k]
  BY DEF Minus
<1> HIDE DEF p
<1>2. CASE m \in M
  <2>1. Copies(p, M) = Copies(n, M) \ {x}
    <3>1. ASSUME NEW t \in Copies(n, M), t # x PROVE t \in Copies(p, M)
      <4>1. PICK l \in M, k \in Nat : k \in 1..n[l] /\ t = <<l, k>>
        BY CopiesMember
      <4>2. k \in 1..p[l]
        BY <1>1, <3>1, <4>1
      <4> QED BY <4>1, <4>2, CopiesMember
    <3>2. ASSUME NEW t \in Copies(p, M) PROVE t \in Copies(n, M) /\ t # x
      <4>1. PICK l \in M, k \in Nat : k \in 1..p[l] /\ t = <<l, k>>
        BY CopiesMember
      <4>2. k \in 1..n[l] /\ (l = m => k # n[m])
        BY <1>1, <4>1
      <4> QED BY <4>1, <4>2, CopiesMember
    <3> QED BY <3>1, <3>2
  <2>2. x \in Copies(n, M)
    <3>1. n[m] \in 1..n[m]
      BY <1>1
    <3> QED BY <1>2, <3>1, CopiesMember
  <2> QED BY <1>1, <1>2, <2>1, <2>2, FS_RemoveElement DEF InFlight, p
<1>3. CASE m \notin M
  <2>1. \A l \in M : p[l] = n[l]
    BY <1>1, <1>3
  <2>2. Copies(p, M) = Copies(n, M)
    BY <2>1, CopiesSame
  <2> QED BY <1>1, <1>3, <2>2, FS_CardinalityType DEF InFlight, p
<1> QED BY <1>2, <1>3

LEMMA PlusIn ==
  ASSUME NEW n \in [Messages -> Nat], NEW M \in SUBSET Messages, NEW m \in M,
         IsFiniteSet(Copies(n, M))
  PROVE  /\ IsFiniteSet(Copies(Plus(n, m), M))
         /\ InFlight(Plus(n, m), M) = InFlight(n, M) + 1
<1>1. m \in Messages
  OBVIOUS
<1> QED BY <1>1, PlusCount

LEMMA MinusIn ==
  ASSUME NEW n \in [Messages -> Nat], NEW M \in SUBSET Messages, NEW m \in M,
         n[m] > 0, IsFiniteSet(Copies(n, M))
  PROVE  /\ Minus(n, m) \in [Messages -> Nat]
         /\ IsFiniteSet(Copies(Minus(n, m), M))
         /\ InFlight(Minus(n, m), M) = InFlight(n, M) - 1
<1>1. m \in Messages
  OBVIOUS
<1> QED BY <1>1, MinusCount

LEMMA MinusOut ==
  ASSUME NEW n \in [Messages -> Nat], NEW M \in SUBSET Messages,
         NEW m \in Messages \ M, n[m] > 0, IsFiniteSet(Copies(n, M))
  PROVE  /\ Minus(n, m) \in [Messages -> Nat]
         /\ IsFiniteSet(Copies(Minus(n, m), M))
         /\ InFlight(Minus(n, m), M) = InFlight(n, M)
<1>1. InFlight(n, M) \in Nat
  BY FS_CardinalityType DEF InFlight
<1>2. InFlight(Minus(n, m), M) = InFlight(n, M) - 0
  BY MinusCount
<1>3. Minus(n, m) \in [Messages -> Nat] /\ IsFiniteSet(Copies(Minus(n, m), M))
  BY MinusCount
<1> QED BY <1>1, <1>2, <1>3

LEMMA SubCount ==
  ASSUME NEW n \in [Messages -> Nat], NEW M \in SUBSET Messages, NEW S \in SUBSET M,
         IsFiniteSet(Copies(n, M))
  PROVE  /\ IsFiniteSet(Copies(n, S))
         /\ InFlight(n, M) \in Nat /\ InFlight(n, S) \in Nat
         /\ InFlight(n, S) <= InFlight(n, M)
         /\ (\A m \in M \ S : n[m] = 0) => InFlight(n, S) = InFlight(n, M)
<1>1. Copies(n, S) \subseteq Copies(n, M)
  <2> SUFFICES ASSUME NEW t \in Copies(n, S) PROVE t \in Copies(n, M)
    OBVIOUS
  <2>1. PICK m \in S : \E k \in 1..n[m] : t = <<m, k>>
    BY CopiesMember
  <2>2. m \in M
    OBVIOUS
  <2> QED BY <2>1, <2>2, CopiesMember
<1>2. ASSUME \A m \in M \ S : n[m] = 0 PROVE Copies(n, S) = Copies(n, M)
  <2> SUFFICES ASSUME NEW t \in Copies(n, M) PROVE t \in Copies(n, S)
    BY <1>1
  <2>1. PICK m \in M : \E k \in 1..n[m] : t = <<m, k>>
    BY CopiesMember
  <2>2. m \in S
    BY <1>2, <2>1
  <2> QED BY <2>1, <2>2, CopiesMember
<1> QED BY <1>1, <1>2, FS_Subset, FS_CardinalityType DEF InFlight

-----------------------------------------------------------------------------
(* The account of faults.                                                  *)

LEMMA MineSets ==
  ASSUME NEW s, NEW b
  PROVE  /\ Mine(s) \in SUBSET Messages
         /\ Old(s, b) \in SUBSET Messages /\ Old(s, b) \in SUBSET Mine(s)
BY DEF Mine, Old

LEMMA OackMine ==
  ASSUME NEW s \in Sessions, NEW b
  PROVE  Oack(s) \in Messages /\ Oack(s) \in Mine(s) /\ Oack(s) \in Old(s, b)
<1>1. Oack(s) \in Mine(s)
  BY MessageType, OackFields DEF Mine
<1> QED BY <1>1, OackFields, MineSets DEF Old

LEMMA AckMine ==
  ASSUME NEW s \in Sessions, NEW i \in 0..LastBlock, NEW b
  PROVE  Ack(s, i) \in Messages /\ Ack(s, i) \in Mine(s) /\ (Ack(s, i) \in Old(s, b) <=> i < b)
<1>1. Ack(s, i) \in Messages
  BY MessageType
<1>2. Ack(s, i) \in Mine(s)
  BY <1>1, AckFields DEF Mine
<1> QED BY <1>1, <1>2, AckFields DEF Old

LEMMA DataMine ==
  ASSUME NEW s \in Sessions, NEW i \in 1..LastBlock, NEW c \in BOOLEAN, NEW b
  PROVE  /\ Data(s, i, c) \in Messages /\ Data(s, i, c) \in Mine(s)
         /\ Data(s, i, c) \in Old(s, b) <=> i < b
<1>1. Data(s, i, c) \in Messages
  BY MessageType
<1>2. Data(s, i, c) \in Mine(s)
  BY <1>1, DataFields DEF Mine
<1> QED BY <1>1, <1>2, DataFields DEF Old

LEMMA OtherNotMine ==
  ASSUME NEW s, NEW m \in Others
  PROVE  m \notin Mine(s)
BY OtherFields DEF Mine

LEMMA AbortNotMine ==
  ASSUME NEW s \in Sessions, NEW t
  PROVE  Abort(s) \in Messages /\ Abort(s) \notin Mine(t)
<1>1. Abort(s) \in Others /\ Abort(s) \in Messages
  BY MessageType
<1> QED BY <1>1, OtherNotMine

LEMMA RrqNotMine ==
  ASSUME NEW s \in Sessions
  PROVE  Rrq \in Messages /\ Rrq \notin Mine(s) /\ Rrq # Abort(s)
<1>1. Rrq \in Others /\ Rrq \in Messages
  BY MessageType
<1>2. Rrq # Abort(s)
  BY DEF Rrq, Abort
<1> QED BY <1>1, <1>2, OtherNotMine

\* A datagram of session s is one of these.
LEMMA MineKinds ==
  ASSUME NEW s \in Sessions, NEW m \in Mine(s)
  PROVE  \/ m = Oack(s)
         \/ \E i \in 0..LastBlock : m = Ack(s, i)
         \/ \E i \in 1..LastBlock, c \in BOOLEAN : m = Data(s, i, c)
<1>1. m \in Messages /\ m.type \in {"OACK", "ACK", "DATA"} /\ m.session = s
  BY DEF Mine
<1>2. m \notin Others
  BY <1>1, OtherFields
<1>3. \/ \E t \in Sessions : m = Oack(t)
      \/ \E t \in Sessions, i \in 0..LastBlock : m = Ack(t, i)
      \/ \E t \in Sessions, i \in 1..LastBlock, c \in BOOLEAN : m = Data(t, i, c)
  BY <1>1, <1>2 DEF Messages, Others
<1>4. ASSUME NEW t \in Sessions, m = Oack(t) PROVE m = Oack(s)
  BY <1>1, <1>4, OackFields
<1>5. ASSUME NEW t \in Sessions, NEW i \in 0..LastBlock, m = Ack(t, i) PROVE m = Ack(s, i)
  BY <1>1, <1>5, AckFields
<1>6. ASSUME NEW t \in Sessions, NEW i \in 1..LastBlock, NEW c \in BOOLEAN, m = Data(t, i, c)
      PROVE  m = Data(s, i, c)
  BY <1>1, <1>6, DataFields
<1> QED BY <1>3, <1>4, <1>5, <1>6

\* Of f faults left, g are left: what was paid for stays paid for.
LEMMA PaidInFlight ==
  ASSUME NEW f \in Nat, NEW g \in Nat, NEW M \in Nat, NEW x \in Nat, NEW y \in Nat,
         x <= 1 + (M - f), y <= x + (f - g)
  PROVE  y <= 1 + (M - g)
OBVIOUS

LEMMA PaidOld ==
  ASSUME NEW f \in Nat, NEW g \in Nat, NEW M \in Nat, NEW x \in Nat, NEW y \in Nat,
         NEW t \in Nat, t + x <= M - f, y <= x + (f - g)
  PROVE  t + y <= M - g
OBVIOUS

LEMMA PaidStrict ==
  ASSUME NEW f \in Nat, NEW g \in Nat, NEW M \in Nat, NEW x \in Nat, NEW y \in Nat,
         NEW t \in Nat, t + x <= M - f, y <= x + (f - g),
         t + x < M - f \/ y < x + (f - g)
  PROVE  t + y < M - g
OBVIOUS

\* The session itself does nothing: what it has in flight grows by no more
\* than the faults paid, and so does the old part of it.
LEMMA KeepAccount ==
  ASSUME IInv, NEW s \in Sessions, Account(s),
         pc'[s] = pc[s], block'[s] = block[s], tries'[s] = tries[s],
         faults' \in 0..MaxFaults, faults' <= faults,
         net' \in [Messages -> Nat], net'[Abort(s)] = 0,
         IsFiniteSet(Copies(net', Mine(s))),
         InFlight(net', Mine(s)) <= InFlight(net, Mine(s)) + (faults - faults'),
         InFlight(net', Old(s, block[s])) <= InFlight(net, Old(s, block[s])) + (faults - faults'),
         OnlyOld(s)' =>
           \/ OnlyOld(s)
           \/ InFlight(net', Old(s, block[s])) < InFlight(net, Old(s, block[s])) + (faults - faults')
  PROVE  Account(s)'
<1> DEFINE a == InFlight(net, Mine(s))
           o == InFlight(net, Old(s, block[s]))
           aa == InFlight(net', Mine(s))
           oo == InFlight(net', Old(s, block[s]))
<1>0. Mine(s) \in SUBSET Messages /\ Old(s, block[s]) \in SUBSET Mine(s)
  BY MineSets
<1>1. a \in Nat /\ o \in Nat
  BY <1>0, TypeFacts, SubCount DEF Account
<1>2. aa \in Nat /\ oo \in Nat
  BY <1>0, SubCount
<1>3. faults \in Nat /\ faults' \in Nat /\ MaxFaults \in Nat /\ tries[s] \in Nat /\ MaxTries \in Nat
  BY TypeFacts, NumberAssumption
<1>4. /\ pc[s] \in {"oack", "data"} => a <= 1 + (MaxFaults - faults)
      /\ pc[s] = "data" => tries[s] + o <= MaxFaults - faults
      /\ pc[s] = "data" /\ OnlyOld(s) => tries[s] + o < MaxFaults - faults
      /\ pc[s] = "failed" /\ block[s] > 0 => MaxTries <= MaxFaults - faults
  BY DEF Account, Used
<1>5. /\ aa <= a + (faults - faults') /\ oo <= o + (faults - faults')
      /\ OnlyOld(s)' => OnlyOld(s) \/ oo < o + (faults - faults')
  OBVIOUS
<1> HIDE DEF a, o, aa, oo
<1>6. /\ pc[s] \in {"oack", "data"} => aa <= 1 + (MaxFaults - faults')
      /\ pc[s] = "data" => tries[s] + oo <= MaxFaults - faults'
      /\ pc[s] = "data" /\ OnlyOld(s)' => tries[s] + oo < MaxFaults - faults'
      /\ pc[s] = "failed" /\ block[s] > 0 => MaxTries <= MaxFaults - faults'
  <2>1. ASSUME pc[s] \in {"oack", "data"} PROVE aa <= 1 + (MaxFaults - faults')
    <3>1. a <= 1 + (MaxFaults - faults) /\ aa <= a + (faults - faults')
      BY <1>4, <1>5, <2>1
    <3> QED BY <1>1, <1>2, <1>3, <3>1, PaidInFlight
  <2>2. ASSUME pc[s] = "data" PROVE tries[s] + oo <= MaxFaults - faults'
    <3>1. tries[s] + o <= MaxFaults - faults /\ oo <= o + (faults - faults')
      BY <1>4, <1>5, <2>2
    <3> QED BY <1>1, <1>2, <1>3, <3>1, PaidOld
  <2>3. ASSUME pc[s] = "data", OnlyOld(s)' PROVE tries[s] + oo < MaxFaults - faults'
    <3>1. /\ tries[s] + o <= MaxFaults - faults /\ oo <= o + (faults - faults')
          /\ tries[s] + o < MaxFaults - faults \/ oo < o + (faults - faults')
      BY <1>4, <1>5, <2>3
    <3> QED BY <1>1, <1>2, <1>3, <3>1, PaidStrict
  <2>4. ASSUME pc[s] = "failed", block[s] > 0 PROVE MaxTries <= MaxFaults - faults'
    <3>1. MaxTries <= MaxFaults - faults /\ faults' <= faults
      BY <1>4, <2>4
    <3> QED BY <1>3, <3>1
  <2> QED BY <2>1, <2>2, <2>3, <2>4
<1> QED BY <1>6 DEF Account, Used, aa, oo

\* n is net but for what session s neither sends nor receives.
Untouched(s, n) == \A k \in Mine(s) \cup {Abort(s)} : n[k] = net[k]

LEMMA UntouchedAccount ==
  ASSUME IInv, NEW s \in Sessions, Account(s),
         pc'[s] = pc[s], block'[s] = block[s], tries'[s] = tries[s],
         faults' \in 0..MaxFaults, faults' <= faults,
         net' \in [Messages -> Nat], Untouched(s, net')
  PROVE  Account(s)'
<1> DEFINE O == Old(s, block[s])
<1>0. Mine(s) \in SUBSET Messages /\ O \in SUBSET Mine(s)
  BY MineSets
<1>1. /\ \A m \in Mine(s) : net'[m] = net[m]
      /\ net'[Abort(s)] = net[Abort(s)]
  BY DEF Untouched
<1>2. Copies(net', Mine(s)) = Copies(net, Mine(s))
  BY <1>1, CopiesSame
<1>3. Copies(net', O) = Copies(net, O)
  <2>1. \A m \in O : net'[m] = net[m]
    BY <1>0, <1>1
  <2> HIDE DEF O
  <2> QED BY <2>1, CopiesSame
<1>4. OnlyOld(s)' => OnlyOld(s)
  BY <1>1 DEF OnlyOld
<1>5. InFlight(net, Mine(s)) \in Nat /\ InFlight(net, O) \in Nat
  BY <1>0, TypeFacts, SubCount DEF Account
<1>6. faults \in Nat /\ faults' \in Nat
  BY TypeFacts, NumberAssumption
<1>7. IsFiniteSet(Copies(net', Mine(s))) /\ net'[Abort(s)] = 0
  BY <1>1, <1>2 DEF Account
<1>8. /\ InFlight(net', Mine(s)) <= InFlight(net, Mine(s)) + (faults - faults')
      /\ InFlight(net', O) <= InFlight(net, O) + (faults - faults')
  BY <1>2, <1>3, <1>5, <1>6 DEF InFlight
<1> QED BY <1>4, <1>7, <1>8, KeepAccount

\* n is net or what is left of it after an old datagram was received: the
\* session sends its block once more, or gives up.
LEMMA WaitFailedAccount ==
  ASSUME IInv, NEW s \in Sessions, NEW n \in [Messages -> Nat], WaitFailed(s, n),
         n[Abort(s)] = 0, IsFiniteSet(Copies(n, Mine(s))),
         faults' \in 0..MaxFaults,
         pc[s] = "data" =>
           /\ tries[s] + InFlight(n, Old(s, block[s])) + 1 <= MaxFaults - faults'
           /\ InFlight(n, Mine(s)) <= MaxFaults - faults'
  PROVE  Account(s)'
<1> DEFINE d == Data(s, block[s], cut[s])
           o == InFlight(n, Old(s, block[s]))
<1>1. block'[s] = block[s]
  BY DEF WaitFailed
<1>2. InFlight(n, Mine(s)) \in Nat /\ o \in Nat /\ IsFiniteSet(Copies(n, Old(s, block[s])))
  <2>1. Mine(s) \in SUBSET Messages /\ Old(s, block[s]) \in SUBSET Mine(s)
    BY MineSets
  <2> QED BY <2>1, SubCount
<1>3. faults' \in Nat /\ MaxFaults \in Nat /\ tries[s] \in Nat /\ MaxTries \in Nat
  BY TypeFacts, NumberAssumption
<1>4. CASE /\ pc[s] = "data" /\ TryLeft(s)
           /\ tries' = [tries EXCEPT ![s] = @ + 1]
           /\ net' = Plus(n, d)
           /\ UNCHANGED pc
  <2>1. block[s] \in 1..LastBlock /\ cut[s] \in BOOLEAN
    BY <1>4, TypeFacts DEF IInv, BlockInv
  <2>2. /\ d \in Messages /\ d \in Mine(s) /\ d \notin Old(s, block[s])
        /\ Mine(s) \in SUBSET Messages /\ Old(s, block[s]) \in SUBSET Messages
    <3>1. ~(block[s] < block[s])
      BY <2>1
    <3> QED BY <2>1, <3>1, DataMine, MineSets
  <2>3. /\ IsFiniteSet(Copies(net', Mine(s)))
        /\ InFlight(net', Mine(s)) = InFlight(n, Mine(s)) + 1
        /\ InFlight(net', Old(s, block[s])) = o
    BY <1>2, <1>4, <2>2, PlusCount
  <2>4. net'[d] > 0 /\ net'[Abort(s)] = 0
    <3>1. d # Abort(s)
      BY DataFields DEF Abort
    <3>2. Abort(s) \in Messages
      BY AbortNotMine
    <3> QED BY <1>4, <2>2, <3>1, <3>2 DEF Plus
  <2>5. ~OnlyOld(s)'
    BY <1>1, <2>2, <2>4 DEF OnlyOld
  <2>6. tries'[s] = tries[s] + 1 /\ pc'[s] = "data"
    BY <1>4, TypeFacts
  <2> HIDE DEF d, o
  <2>7. /\ InFlight(net', Mine(s)) <= 1 + (MaxFaults - faults')
        /\ tries'[s] + InFlight(net', Old(s, block[s])) <= MaxFaults - faults'
    BY <1>2, <1>3, <1>4, <2>3, <2>6 DEF o
  <2> QED BY <1>1, <2>3, <2>4, <2>5, <2>6, <2>7 DEF Account, Used
<1>5. CASE /\ pc[s] = "oack" \/ (pc[s] = "data" /\ ~TryLeft(s))
           /\ pc' = [pc EXCEPT ![s] = "failed"]
           /\ net' = n
           /\ UNCHANGED tries
  <2>1. pc'[s] = "failed"
    BY <1>5, TypeFacts
  <2>2. pc[s] = "oack" => block[s] = 0
    BY DEF IInv, BlockInv
  <2>3. pc[s] = "data" => MaxTries <= MaxFaults - faults'
    BY <1>2, <1>3, <1>5 DEF TryLeft
  <2> QED BY <1>1, <1>5, <2>1, <2>2, <2>3 DEF Account, Used
<1> QED BY <1>4, <1>5 DEF WaitFailed

\* n is what is left of net after the request or the acknowledgement of the
\* block before was received: the session sends its next block.
LEMMA SendBlockAccount ==
  ASSUME IInv, NEW s \in Sessions, NEW n \in [Messages -> Nat],
         SendBlock(s, block[s] + 1, n), block[s] < LastBlock,
         n[Abort(s)] = 0, IsFiniteSet(Copies(n, Mine(s))), UNCHANGED faults,
         InFlight(n, Mine(s)) <= MaxFaults - faults
  PROVE  Account(s)'
<1> DEFINE b == block[s] + 1
<1>1. block'[s] = b /\ pc'[s] = "data" /\ tries'[s] = 0
  BY TypeFacts DEF SendBlock
<1>2. PICK c \in BOOLEAN : net' = Plus(n, Data(s, b, c))
  BY DEF SendBlock
<1>3. b \in 1..LastBlock
  BY TypeFacts, NumberAssumption
<1>4. /\ Data(s, b, c) \in Messages /\ Data(s, b, c) \in Mine(s) /\ Data(s, b, c) \notin Old(s, b)
      /\ Mine(s) \in SUBSET Messages /\ Old(s, b) \in SUBSET Messages
  <2>1. ~(b < b)
    BY <1>3
  <2> QED BY <1>3, <2>1, DataMine, MineSets
<1>5. /\ InFlight(n, Mine(s)) \in Nat /\ InFlight(n, Old(s, b)) \in Nat
      /\ InFlight(n, Old(s, b)) <= InFlight(n, Mine(s))
      /\ IsFiniteSet(Copies(n, Old(s, b)))
  <2>1. Mine(s) \in SUBSET Messages /\ Old(s, b) \in SUBSET Mine(s)
    BY MineSets
  <2> QED BY <2>1, SubCount
<1>6. /\ IsFiniteSet(Copies(net', Mine(s)))
      /\ InFlight(net', Mine(s)) = InFlight(n, Mine(s)) + 1
      /\ InFlight(net', Old(s, b)) = InFlight(n, Old(s, b))
  BY <1>2, <1>4, <1>5, PlusCount
<1>7. net'[Data(s, b, c)] > 0 /\ net'[Abort(s)] = 0
  <2>1. Data(s, b, c) # Abort(s)
    BY DataFields DEF Abort
  <2>2. Abort(s) \in Messages
    BY AbortNotMine
  <2> QED BY <1>2, <1>4, <2>1, <2>2 DEF Plus
<1> HIDE DEF b
<1>8. ~OnlyOld(s)'
  BY <1>1, <1>4, <1>7 DEF OnlyOld
<1>9. /\ InFlight(net', Mine(s)) <= 1 + (MaxFaults - faults)
      /\ 0 + InFlight(net', Old(s, b)) <= MaxFaults - faults
  <2>1. MaxFaults \in Nat /\ faults \in Nat
    BY TypeFacts, NumberAssumption
  <2> QED BY <1>5, <1>6, <2>1
<1> QED BY <1>1, <1>6, <1>7, <1>8, <1>9 DEF Account, Used

\* What session s neither sends nor receives.
Apart(s) == {m \in Messages : m \notin Mine(s) /\ m # Abort(s)}

LEMMA RrqApart ==
  ASSUME NEW s \in Sessions
  PROVE  Rrq \in Apart(s)
BY RrqNotMine DEF Apart

LEMMA ErrorApart ==
  ASSUME NEW s \in Sessions, NEW t \in Sessions
  PROVE  Error(t) \in Apart(s)
<1>1. Error(t) \in Others /\ Error(t) \in Messages
  BY MessageType
<1>2. Error(t) # Abort(s)
  BY DEF Error, Abort
<1> QED BY <1>1, <1>2, OtherNotMine DEF Apart

LEMMA OackApart ==
  ASSUME NEW s \in Sessions, NEW t \in Sessions, t # s
  PROVE  Oack(t) \in Apart(s)
<1>1. Oack(t) \notin Mine(s) /\ Oack(t) # Abort(s)
  BY OackFields DEF Mine, Abort
<1> QED BY <1>1, MessageType DEF Apart

LEMMA AbortApart ==
  ASSUME NEW s \in Sessions, NEW t \in Sessions, t # s
  PROVE  Abort(t) \in Apart(s)
<1>1. Abort(t) # Abort(s)
  BY DEF Abort
<1> QED BY <1>1, AbortNotMine DEF Apart

LEMMA AckApart ==
  ASSUME NEW s \in Sessions, NEW t \in Sessions, t # s, NEW i \in 0..LastBlock
  PROVE  Ack(t, i) \in Apart(s)
<1>1. Ack(t, i) \notin Mine(s) /\ Ack(t, i) # Abort(s)
  BY AckFields DEF Mine, Abort
<1> QED BY <1>1, MessageType DEF Apart

LEMMA DataApart ==
  ASSUME NEW s \in Sessions, NEW t \in Sessions, t # s,
         NEW i \in 1..LastBlock, NEW c \in BOOLEAN
  PROVE  Data(t, i, c) \in Apart(s)
<1>1. Data(t, i, c) \notin Mine(s) /\ Data(t, i, c) # Abort(s)
  BY DataFields DEF Mine, Abort
<1> QED BY <1>1, MessageType DEF Apart

LEMMA ArrivesApart ==
  ASSUME NEW s \in Sessions, NEW t \in Sessions, t # s,
         NEW m \in Messages, Arrives(t, m)
  PROVE  m \in Apart(s)
<1>1. m = Abort(t) \/ \E i \in 0..LastBlock : m = Ack(t, i)
  BY DEF Arrives
<1> QED BY <1>1, AbortApart, AckApart

LEMMA PlusUntouched ==
  ASSUME NEW s \in Sessions, NEW n \in [Messages -> Nat], NEW m \in Apart(s), Untouched(s, n)
  PROVE  Untouched(s, Plus(n, m))
<1> SUFFICES ASSUME NEW k \in Mine(s) \cup {Abort(s)} PROVE Plus(n, m)[k] = n[k]
  BY DEF Untouched
<1>1. k \in Messages
  BY MineSets, AbortNotMine
<1>2. k # m
  BY DEF Apart
<1> QED BY <1>1, <1>2 DEF Plus

LEMMA MinusUntouched ==
  ASSUME NEW s \in Sessions, net \in [Messages -> Nat], NEW m \in Apart(s), net[m] > 0
  PROVE  Minus(net, m) \in [Messages -> Nat] /\ Untouched(s, Minus(net, m))
<1>1. Minus(net, m) \in [Messages -> Nat]
  BY DEF Minus, Apart
<1> SUFFICES ASSUME NEW k \in Mine(s) \cup {Abort(s)} PROVE Minus(net, m)[k] = net[k]
  BY <1>1 DEF Untouched
<1>2. k \in Messages
  BY MineSets, AbortNotMine
<1>3. k # m
  BY DEF Apart
<1> QED BY <1>2, <1>3 DEF Minus

LEMMA NetUntouched == \A s : Untouched(s, net)
BY DEF Untouched

\* A step of another session.
LEMMA SendBlockApart ==
  ASSUME IInv, NEW s \in Sessions, NEW t \in Sessions, t # s,
         NEW b \in 1..LastBlock, NEW n \in [Messages -> Nat], Untouched(s, n),
         SendBlock(t, b, n)
  PROVE  /\ pc'[s] = pc[s] /\ block'[s] = block[s] /\ tries'[s] = tries[s]
         /\ Untouched(s, net')
<1>1. pc'[s] = pc[s] /\ block'[s] = block[s] /\ tries'[s] = tries[s]
  BY TypeFacts DEF SendBlock
<1>2. PICK c \in BOOLEAN : net' = Plus(n, Data(t, b, c))
  BY DEF SendBlock
<1>3. Data(t, b, c) \in Apart(s)
  BY DataApart
<1>4. Untouched(s, net')
  BY <1>2, <1>3, PlusUntouched
<1> QED BY <1>1, <1>4

LEMMA WaitFailedApart ==
  ASSUME IInv, NEW s \in Sessions, NEW t \in Sessions, t # s,
         NEW n \in [Messages -> Nat], Untouched(s, n), WaitFailed(t, n)
  PROVE  /\ pc'[s] = pc[s] /\ block'[s] = block[s] /\ tries'[s] = tries[s]
         /\ Untouched(s, net')
<1>1. pc'[s] = pc[s] /\ block'[s] = block[s] /\ tries'[s] = tries[s]
  BY TypeFacts DEF WaitFailed
<1>2. CASE net' = n
  BY <1>1, <1>2
<1>3. CASE pc[t] = "data" /\ net' = Plus(n, Data(t, block[t], cut[t]))
  <2>1. block[t] \in 1..LastBlock /\ cut[t] \in BOOLEAN
    BY <1>3, TypeFacts, NumberAssumption DEF IInv, BlockInv
  <2>2. Data(t, block[t], cut[t]) \in Apart(s)
    BY <2>1, DataApart
  <2>3. Untouched(s, net')
    BY <1>3, <2>2, PlusUntouched
  <2> QED BY <1>1, <2>3
<1> QED BY <1>2, <1>3 DEF WaitFailed

\* A step of another session.
LEMMA ServerApart ==
  ASSUME IInv, NEW s \in Sessions, NEW t \in Sessions, t # s, Server(t)
  PROVE  /\ pc'[s] = pc[s] /\ block'[s] = block[s] /\ tries'[s] = tries[s]
         /\ faults' <= faults
         /\ Untouched(s, net')
<1> USE TypeFacts
<1>0. net \in [Messages -> Nat] /\ faults \in Nat
  BY NumberAssumption
<1>1. ASSUME net[Rrq] > 0
      PROVE  Minus(net, Rrq) \in [Messages -> Nat] /\ Untouched(s, Minus(net, Rrq))
  BY <1>0, <1>1, RrqApart, MinusUntouched
<1>2. ASSUME NEW m \in Messages, Arrives(t, m)
      PROVE  Minus(net, m) \in [Messages -> Nat] /\ Untouched(s, Minus(net, m))
  <2>1. m \in Apart(s) /\ net[m] > 0
    BY <1>2, ArrivesApart DEF Arrives
  <2> QED BY <1>0, <2>1, MinusUntouched
<1>3. CASE ServeNotFound(t)
  <2>1. Untouched(s, Plus(Minus(net, Rrq), Error(t)))
    BY <1>1, <1>3, ErrorApart, PlusUntouched DEF ServeNotFound
  <2> QED BY <1>0, <1>3, <2>1 DEF ServeNotFound
<1>4. CASE ServeOptions(t)
  <2>1. Untouched(s, Plus(Minus(net, Rrq), Oack(t)))
    BY <1>1, <1>4, OackApart, PlusUntouched DEF ServeOptions
  <2> QED BY <1>0, <1>4, <2>1 DEF ServeOptions
<1>5. CASE ServePlain(t)
  <2>1. SendBlock(t, 1, Minus(net, Rrq)) /\ net[Rrq] > 0 /\ faults' = faults
    BY <1>5 DEF ServePlain
  <2>2. 1 \in 1..LastBlock
    BY NumberAssumption
  <2> QED BY <1>0, <1>1, <2>1, <2>2, SendBlockApart
<1>6. CASE OackAcked(t)
  <2>1. PICK m \in Messages : Arrives(t, m) /\ SendBlock(t, 1, Minus(net, m))
    BY <1>6 DEF OackAcked
  <2>2. 1 \in 1..LastBlock /\ faults' = faults
    BY <1>6, NumberAssumption DEF OackAcked
  <2> QED BY <1>0, <1>2, <2>1, <2>2, SendBlockApart
<1>7. CASE BlockAcked(t)
  <2>1. PICK m \in Messages :
          /\ Arrives(t, m)
          /\ \/ pc' = [pc EXCEPT ![t] = "done"] /\ net' = Minus(net, m) /\ UNCHANGED <<block, tries>>
             \/ ~LastSent(t) /\ SendBlock(t, block[t] + 1, Minus(net, m))
    BY <1>7 DEF BlockAcked
  <2>2. faults' = faults
    BY <1>7 DEF BlockAcked
  <2>3. CASE pc' = [pc EXCEPT ![t] = "done"] /\ net' = Minus(net, m) /\ UNCHANGED <<block, tries>>
    BY <1>0, <1>2, <2>1, <2>2, <2>3
  <2>4. CASE ~LastSent(t) /\ SendBlock(t, block[t] + 1, Minus(net, m))
    <3>1. block[t] + 1 \in 1..LastBlock
      BY <2>4, NumberAssumption DEF LastSent
    <3> QED BY <1>0, <1>2, <2>1, <2>2, <2>4, <3>1, SendBlockApart
  <2> QED BY <2>1, <2>3, <2>4
<1>8. CASE WrongPacket(t)
  <2>1. PICK m \in Messages : Arrives(t, m) /\ WaitFailed(t, Minus(net, m))
    BY <1>8 DEF WrongPacket
  <2>2. faults' = faults
    BY <1>8 DEF WrongPacket
  <2> QED BY <1>0, <1>2, <2>1, <2>2, WaitFailedApart
<1>9. CASE Timeout(t)
  <2>1. WaitFailed(t, net) /\ faults' = faults
    BY <1>9 DEF Timeout
  <2> QED BY <1>0, <2>1, NetUntouched, WaitFailedApart
<1>10. CASE EarlyTimeout(t)
  <2>1. WaitFailed(t, net) /\ faults' = faults - 1
    BY <1>10 DEF EarlyTimeout
  <2> QED BY <1>0, <2>1, NetUntouched, WaitFailedApart
<1>11. CASE WriteFails(t)
  BY <1>0, <1>11, NetUntouched DEF WriteFails
<1> QED BY <1>3, <1>4, <1>5, <1>6, <1>7, <1>8, <1>9, <1>10, <1>11 DEF Server

\* A step of the session itself.  Only the acknowledgement of its block, which
\* is not old, makes it send the next one; a timer that fires in vain finds
\* nothing in flight but old datagrams.
LEMMA ServerAccount ==
  ASSUME IInv, NEW s \in Sessions, Watched(s), Account(s), Server(s), faults' \in 0..MaxFaults
  PROVE  Account(s)'
<1> USE TypeFacts, NumberAssumption, SessionAssumption
<1> DEFINE a == InFlight(net, Mine(s))
           o == InFlight(net, Old(s, block[s]))
<1>0. /\ IsFiniteSet(Copies(net, Mine(s))) /\ net[Abort(s)] = 0
      /\ IsFiniteSet(Copies(net, Old(s, block[s])))
      /\ a \in Nat /\ o \in Nat
      /\ Mine(s) \in SUBSET Messages /\ Old(s, block[s]) \in SUBSET Mine(s)
      /\ Old(s, block[s]) \in SUBSET Messages
  <2>1. Mine(s) \in SUBSET Messages /\ Old(s, block[s]) \in SUBSET Mine(s)
    BY MineSets
  <2>2. IsFiniteSet(Copies(net, Mine(s))) /\ net[Abort(s)] = 0
    BY DEF Account
  <2> QED BY <2>1, <2>2, SubCount
<1>1. /\ pc[s] \in {"oack", "data"} => a <= 1 + (MaxFaults - faults)
      /\ pc[s] = "data" => tries[s] + o <= MaxFaults - faults
      /\ pc[s] = "data" /\ OnlyOld(s) => tries[s] + o < MaxFaults - faults
  BY DEF Account, Used
<1>2. /\ Rrq \in Messages /\ Rrq \notin Mine(s) /\ Rrq # Abort(s)
      /\ Abort(s) \in Messages /\ Abort(s) \notin Mine(s)
  BY RrqNotMine, AbortNotMine
<1>3. ASSUME pc[s] = "idle" PROVE a = 0 /\ block[s] = 0
  <2>1. block[s] = 0 /\ s # peer
    BY <1>3 DEF IInv, BlockInv, ClientInv
  <2>2. ASSUME NEW m \in Mine(s) PROVE net[m] = 0
    <3>1. \/ m = Oack(s)
          \/ \E i \in 0..LastBlock : m = Ack(s, i)
          \/ \E i \in 1..LastBlock, c \in BOOLEAN : m = Data(s, i, c)
      BY MineKinds
    <3>2. m \in Messages
      BY <1>0
    <3>3. ~(net[m] > 0)
      <4>1. CASE m = Oack(s)
        BY <1>3, <4>1 DEF IInv, OackInv
      <4>2. ASSUME NEW i \in 0..LastBlock, m = Ack(s, i) PROVE ~(net[m] > 0)
        BY <2>1, <4>2 DEF IInv, AckInv
      <4>3. ASSUME NEW i \in 1..LastBlock, NEW c \in BOOLEAN, m = Data(s, i, c)
            PROVE  ~(net[m] > 0)
        <5>1. ~(i <= block[s])
          BY <2>1
        <5> QED BY <4>3, <5>1 DEF IInv, DataInv
      <4> QED BY <3>1, <4>1, <4>2, <4>3
    <3> QED BY <3>2, <3>3
  <2>3. Copies(net, Mine(s)) = {}
    BY <2>2, NoCopies
  <2> QED BY <2>1, <2>3, FS_EmptySet DEF InFlight
<1>4. ASSUME NEW m \in Messages, Arrives(s, m)
      PROVE  /\ m \in Mine(s) /\ net[m] > 0
             /\ Minus(net, m) \in [Messages -> Nat]
             /\ IsFiniteSet(Copies(Minus(net, m), Mine(s)))
             /\ InFlight(Minus(net, m), Mine(s)) = a - 1
             /\ Minus(net, m)[Abort(s)] = 0
             /\ InFlight(Minus(net, m), Old(s, block[s])) =
                  o - (IF m \in Old(s, block[s]) THEN 1 ELSE 0)
  <2>1. m \in Mine(s) /\ net[m] > 0
    <3>1. net[m] > 0 /\ (m = Abort(s) \/ \E i \in 0..LastBlock : m = Ack(s, i))
      BY <1>4 DEF Arrives
    <3>2. m # Abort(s)
      BY <1>0, <3>1
    <3> QED BY <3>1, <3>2, AckMine
  <2>2. Minus(net, m)[Abort(s)] = 0
    BY <1>0, <1>2, <2>1 DEF Minus
  <2>3. /\ Minus(net, m) \in [Messages -> Nat]
        /\ IsFiniteSet(Copies(Minus(net, m), Mine(s)))
        /\ InFlight(Minus(net, m), Mine(s)) = a - 1
    BY <1>0, <2>1, MinusIn
  <2>4. CASE m \in Old(s, block[s])
    <3>1. InFlight(Minus(net, m), Old(s, block[s])) = o - 1
      BY <1>0, <2>1, <2>4, MinusIn
    <3> QED BY <2>1, <2>2, <2>3, <2>4, <3>1
  <2>5. CASE m \notin Old(s, block[s])
    <3>1. InFlight(Minus(net, m), Old(s, block[s])) = o
      BY <1>0, <2>1, <2>5, MinusOut
    <3> QED BY <1>0, <2>1, <2>2, <2>3, <2>5, <3>1
  <2> QED BY <2>4, <2>5
<1> HIDE DEF a, o
<1>5. CASE ServeNotFound(s)
  <2>1. pc'[s] = "failed" /\ block'[s] = 0
    BY <1>3, <1>5 DEF ServeNotFound
  <2>2. net' = Plus(Minus(net, Rrq), Error(s)) /\ net[Rrq] > 0
    BY <1>5 DEF ServeNotFound
  <2>3. Minus(net, Rrq) \in [Messages -> Nat] /\ Untouched(s, Minus(net, Rrq))
    BY <2>2, RrqApart, MinusUntouched
  <2>4. Untouched(s, net')
    BY <2>2, <2>3, ErrorApart, PlusUntouched
  <2>5. Copies(net', Mine(s)) = Copies(net, Mine(s)) /\ net'[Abort(s)] = 0
    BY <1>0, <2>4, CopiesSame DEF Untouched
  <2> QED BY <1>0, <2>1, <2>5 DEF Account
<1>6. CASE ServeOptions(s)
  <2> DEFINE n == Minus(net, Rrq)
  <2>1. net' = Plus(n, Oack(s)) /\ net[Rrq] > 0 /\ pc[s] = "idle"
    BY <1>6 DEF ServeOptions
  <2>2. /\ n \in [Messages -> Nat] /\ IsFiniteSet(Copies(n, Mine(s)))
        /\ InFlight(n, Mine(s)) = 0
    BY <1>0, <1>2, <1>3, <2>1, MinusOut DEF a
  <2>3. Oack(s) \in Messages /\ Oack(s) \in Mine(s) /\ Oack(s) # Abort(s)
    BY <1>2, OackMine
  <2>4. n[Abort(s)] = 0
    BY <1>0, <1>2 DEF Minus
  <2> HIDE DEF n
  <2>5. /\ IsFiniteSet(Copies(Plus(n, Oack(s)), Mine(s)))
        /\ InFlight(Plus(n, Oack(s)), Mine(s)) = 0 + 1
    BY <1>0, <2>2, <2>3, PlusIn
  <2>7. net'[Abort(s)] = 0
    BY <1>2, <2>1, <2>2, <2>3, <2>4 DEF Plus
  <2>6. pc'[s] = "oack" /\ faults' = faults /\ faults <= MaxFaults
    BY <1>6 DEF ServeOptions
  <2>8. InFlight(net', Mine(s)) <= 1 + (MaxFaults - faults)
    BY <2>1, <2>5, <2>6
  <2> QED BY <2>1, <2>5, <2>6, <2>7, <2>8 DEF Account, Used
<1>7. CASE ServePlain(s)
  <2> DEFINE n == Minus(net, Rrq)
  <2>1. /\ SendBlock(s, block[s] + 1, n) /\ net[Rrq] > 0 /\ pc[s] = "idle"
        /\ UNCHANGED faults /\ block[s] < LastBlock
    <3>1. SendBlock(s, 1, n) /\ net[Rrq] > 0 /\ pc[s] = "idle" /\ UNCHANGED faults
      BY <1>7 DEF ServePlain
    <3>2. block[s] = 0 /\ block[s] + 1 = 1 /\ block[s] < LastBlock
      BY <1>3, <3>1
    <3> QED BY <3>1, <3>2
  <2>2. /\ n \in [Messages -> Nat] /\ IsFiniteSet(Copies(n, Mine(s)))
        /\ InFlight(n, Mine(s)) = 0
    BY <1>0, <1>2, <1>3, <2>1, MinusOut DEF a
  <2>3. n[Abort(s)] = 0
    BY <1>0, <1>2 DEF Minus
  <2> HIDE DEF n
  <2>4. InFlight(n, Mine(s)) <= MaxFaults - faults
    <3>1. 0 <= MaxFaults - faults
      OBVIOUS
    <3> QED BY <2>2, <3>1
  <2> QED BY <2>1, <2>2, <2>3, <2>4, SendBlockAccount
<1>8. CASE OackAcked(s) \/ BlockAcked(s)
  <2>1. PICK m \in Messages :
          /\ Arrives(s, m) /\ Awaited(s, m)
          /\ \/ SendBlock(s, block[s] + 1, Minus(net, m)) /\ block[s] < LastBlock
             \/ pc' = [pc EXCEPT ![s] = "done"] /\ net' = Minus(net, m) /\ pc[s] = "data"
    BY <1>8 DEF OackAcked, BlockAcked, LastSent, IInv, BlockInv
  <2>2. pc[s] \in {"oack", "data"} /\ UNCHANGED faults
    BY <1>8 DEF OackAcked, BlockAcked
  <2>3. InFlight(Minus(net, m), Mine(s)) <= MaxFaults - faults
    BY <1>0, <1>1, <1>4, <2>1, <2>2
  <2>4. CASE SendBlock(s, block[s] + 1, Minus(net, m)) /\ block[s] < LastBlock
    <3> DEFINE n == Minus(net, m)
    <3>1. /\ n \in [Messages -> Nat] /\ IsFiniteSet(Copies(n, Mine(s))) /\ n[Abort(s)] = 0
      BY <1>4, <2>1
    <3>2. SendBlock(s, block[s] + 1, n) /\ InFlight(n, Mine(s)) <= MaxFaults - faults
      BY <2>3, <2>4
    <3> HIDE DEF n
    <3> QED BY <2>2, <2>4, <3>1, <3>2, SendBlockAccount
  <2>5. CASE pc' = [pc EXCEPT ![s] = "done"] /\ net' = Minus(net, m)
    BY <1>4, <2>1, <2>5 DEF Account
  <2> QED BY <2>1, <2>4, <2>5
<1>9. CASE WrongPacket(s)
  <2>1. PICK m \in Messages :
          Arrives(s, m) /\ ~Awaited(s, m) /\ WaitFailed(s, Minus(net, m))
    BY <1>9 DEF WrongPacket
  <2>2. UNCHANGED faults
    BY <1>9 DEF WrongPacket
  <2>3. ASSUME pc[s] = "data" PROVE m \in Old(s, block[s])
    <3>1. net[m] > 0 /\ (m = Abort(s) \/ \E i \in 0..LastBlock : m = Ack(s, i))
      BY <2>1 DEF Arrives
    <3>2. m # Abort(s)
      BY <1>0, <3>1
    <3>3. PICK i \in 0..LastBlock : m = Ack(s, i)
      BY <3>1, <3>2
    <3>4. s = peer /\ i <= Len(got)
      BY <3>1, <3>3 DEF IInv, AckInv
    <3>5. Len(got) <= block[s] /\ Len(got) \in Nat
      BY <3>4 DEF IInv, Lockstep
    <3>6. i # block[s]
      BY <2>1, <3>3, AckFields DEF Awaited, Wire
    <3>7. i < block[s]
      BY <3>4, <3>5, <3>6
    <3> QED BY <3>3, <3>7, AckMine
  <2> DEFINE n == Minus(net, m)
  <2>4. /\ n \in [Messages -> Nat] /\ IsFiniteSet(Copies(n, Mine(s))) /\ n[Abort(s)] = 0
        /\ InFlight(n, Mine(s)) = a - 1
        /\ pc[s] = "data" => InFlight(n, Old(s, block[s])) = o - 1
    BY <1>4, <2>1, <2>3
  <2>5. WaitFailed(s, n)
    BY <2>1
  <2> HIDE DEF n
  <2>6. pc[s] = "data" =>
          /\ tries[s] + InFlight(n, Old(s, block[s])) + 1 <= MaxFaults - faults'
          /\ InFlight(n, Mine(s)) <= MaxFaults - faults'
    BY <1>0, <1>1, <2>2, <2>4
  <2> QED BY <2>4, <2>5, <2>6, WaitFailedAccount
<1>10. CASE Timeout(s)
  <2>1. Quiet(s) /\ WaitFailed(s, net) /\ UNCHANGED faults
    BY <1>10 DEF Timeout
  <2>2. ASSUME pc[s] = "data" PROVE OnlyOld(s)
    <3> SUFFICES ASSUME NEW m \in Mine(s) \ Old(s, block[s]) PROVE net[m] = 0
      BY DEF OnlyOld
    <3>1. \/ \E i \in 0..LastBlock : m = Ack(s, i)
          \/ \E i \in 1..LastBlock, c \in BOOLEAN : m = Data(s, i, c)
      <4>1. m # Oack(s)
        BY OackMine
      <4>2. m \in Mine(s)
        OBVIOUS
      <4> QED BY <4>1, <4>2, MineKinds
    <3>2. CASE \E i \in 0..LastBlock : m = Ack(s, i)
      <4>1. PICK i \in 0..LastBlock : m = Ack(s, i)
        BY <3>2
      <4>2. Fresh(s, i)
        <5>1. ~(i < block[s])
          BY <4>1, AckMine
        <5> QED BY <5>1 DEF Fresh
      <4> QED BY <2>1, <4>1, <4>2 DEF Quiet, Watched
    <3>3. CASE \E i \in 1..LastBlock, c \in BOOLEAN : m = Data(s, i, c)
      <4>1. PICK i \in 1..LastBlock, c \in BOOLEAN : m = Data(s, i, c)
        BY <3>3
      <4>2. Fresh(s, i)
        <5>1. ~(i < block[s])
          BY <4>1, DataMine
        <5> QED BY <5>1 DEF Fresh
      <4> QED BY <2>1, <4>1, <4>2 DEF Quiet, Watched
    <3> QED BY <3>1, <3>2, <3>3
  <2>3. ASSUME pc[s] = "data" PROVE a = o
    BY <1>0, <2>2, <2>3, SubCount DEF OnlyOld, a, o
  <2>4. pc[s] = "data" => tries[s] + o + 1 <= MaxFaults - faults' /\ a <= MaxFaults - faults'
    BY <1>0, <1>1, <2>1, <2>2, <2>3
  <2> QED BY <1>0, <2>1, <2>4, WaitFailedAccount DEF a, o
<1>11. CASE EarlyTimeout(s)
  <2>1. WaitFailed(s, net) /\ faults' = faults - 1
    BY <1>11 DEF EarlyTimeout
  <2>2. pc[s] = "data" => tries[s] + o + 1 <= MaxFaults - faults' /\ a <= MaxFaults - faults'
    <3>1. tries[s] \in Nat /\ faults \in Nat /\ MaxFaults \in Nat
      OBVIOUS
    <3> QED BY <1>0, <1>1, <2>1, <3>1
  <2> QED BY <1>0, <2>1, <2>2, WaitFailedAccount DEF a, o
<1>12. ~WriteFails(s)
  BY DEF WriteFails, Watched
<1> QED BY <1>5, <1>6, <1>7, <1>8, <1>9, <1>10, <1>11, <1>12 DEF Server

\* The client answers a datagram: the answer to an old one is old.
LEMMA AnswerAccount ==
  ASSUME IInv, NEW s \in Sessions, Account(s), UNCHANGED <<pc, block, tries, faults>>,
         NEW m \in Mine(s), net[m] > 0,
         \/ net' = Minus(net, m) /\ m \in Old(s, block[s])
         \/ \E k \in Mine(s) : /\ net' = Plus(Minus(net, m), k)
                               /\ k \in Old(s, block[s]) => m \in Old(s, block[s])
  PROVE  Account(s)'
<1> DEFINE n == Minus(net, m)
           O == Old(s, block[s])
<1>0. /\ IsFiniteSet(Copies(net, Mine(s))) /\ net[Abort(s)] = 0
      /\ IsFiniteSet(Copies(net, O)) /\ net \in [Messages -> Nat]
      /\ InFlight(net, Mine(s)) \in Nat /\ InFlight(net, O) \in Nat
      /\ Mine(s) \in SUBSET Messages /\ O \in SUBSET Messages /\ O \subseteq Mine(s)
      /\ faults \in 0..MaxFaults /\ Abort(s) \in Messages /\ Abort(s) \notin Mine(s)
  <2>1. Mine(s) \in SUBSET Messages /\ O \in SUBSET Messages /\ O \in SUBSET Mine(s)
    BY MineSets
  <2>2. IsFiniteSet(Copies(net, Mine(s))) /\ net[Abort(s)] = 0
    BY DEF Account
  <2>3. net \in [Messages -> Nat] /\ faults \in 0..MaxFaults
    BY TypeFacts
  <2> HIDE DEF O
  <2>4. /\ IsFiniteSet(Copies(net, O))
        /\ InFlight(net, Mine(s)) \in Nat /\ InFlight(net, O) \in Nat
    BY <2>1, <2>2, <2>3, SubCount
  <2> QED BY <2>1, <2>2, <2>3, <2>4, AbortNotMine
<1> HIDE DEF O
<1>1. /\ n \in [Messages -> Nat] /\ n[Abort(s)] = 0
      /\ IsFiniteSet(Copies(n, Mine(s))) /\ IsFiniteSet(Copies(n, O))
      /\ InFlight(n, Mine(s)) = InFlight(net, Mine(s)) - 1
      /\ InFlight(n, O) = InFlight(net, O) - (IF m \in O THEN 1 ELSE 0)
      /\ \A l \in Mine(s) : l # m => n[l] = net[l]
  <2>1. n[Abort(s)] = 0 /\ \A l \in Mine(s) : l # m => n[l] = net[l]
    BY <1>0 DEF Minus
  <2>2. m \in Messages
    BY <1>0
  <2> QED BY <1>0, <2>1, <2>2, MinusCount
<1>2. CASE net' = n /\ m \in O
  <2>1. OnlyOld(s)' => OnlyOld(s)
    BY <1>1, <1>2 DEF OnlyOld, O
  <2> HIDE DEF n
  <2>2. /\ InFlight(net', Mine(s)) <= InFlight(net, Mine(s)) + (faults - faults')
        /\ InFlight(net', O) <= InFlight(net, O) + (faults - faults')
    BY <1>0, <1>1, <1>2
  <2> QED BY <1>0, <1>1, <1>2, <2>1, <2>2, KeepAccount DEF O
<1>3. ASSUME NEW k \in Mine(s), net' = Plus(n, k), k \in O => m \in O PROVE Account(s)'
  <2> HIDE DEF n
  <2>1. k \in Messages
    BY <1>0
  <2>2. /\ IsFiniteSet(Copies(net', Mine(s)))
        /\ InFlight(net', Mine(s)) = InFlight(n, Mine(s)) + 1
        /\ InFlight(net', O) = InFlight(n, O) + (IF k \in O THEN 1 ELSE 0)
    BY <1>0, <1>1, <1>3, <2>1, PlusCount
  <2>3. /\ net' \in [Messages -> Nat] /\ net'[Abort(s)] = 0 /\ net'[k] > 0
        /\ \A l \in Mine(s) : l # k => net'[l] = n[l]
    BY <1>0, <1>1, <1>3, <2>1 DEF Plus
  <2>4. OnlyOld(s)' => OnlyOld(s)
    BY <1>0, <1>1, <1>3, <2>3 DEF OnlyOld, O
  <2>5. /\ InFlight(net', Mine(s)) <= InFlight(net, Mine(s)) + (faults - faults')
        /\ InFlight(net', O) <= InFlight(net, O) + (faults - faults')
    BY <1>0, <1>1, <1>3, <2>2
  <2> QED BY <1>0, <2>2, <2>3, <2>4, <2>5, KeepAccount DEF O
<1> QED BY <1>2, <1>3 DEF n, O

\* A fault pays for one datagram more, or for the loss of one.
LEMMA PaidAccount ==
  ASSUME IInv, NEW s \in Sessions, Account(s), UNCHANGED <<pc, block, tries>>,
         faults > 0, faults' = faults - 1, NEW m \in Messages, m # Abort(s),
         \/ net' = Plus(net, m)
         \/ net[m] > 0 /\ net' = Minus(net, m)
  PROVE  Account(s)'
<1> DEFINE O == Old(s, block[s])
<1>0. /\ IsFiniteSet(Copies(net, Mine(s))) /\ net[Abort(s)] = 0
      /\ IsFiniteSet(Copies(net, O)) /\ net \in [Messages -> Nat]
      /\ InFlight(net, Mine(s)) \in Nat /\ InFlight(net, O) \in Nat
      /\ Mine(s) \in SUBSET Messages /\ O \in SUBSET Messages
      /\ faults' \in 0..MaxFaults /\ faults \in Nat /\ Abort(s) \in Messages
  <2>1. Mine(s) \in SUBSET Messages /\ O \in SUBSET Messages /\ O \in SUBSET Mine(s)
    BY MineSets
  <2>2. IsFiniteSet(Copies(net, Mine(s))) /\ net[Abort(s)] = 0
    BY DEF Account
  <2>3. /\ net \in [Messages -> Nat] /\ faults' \in 0..MaxFaults /\ faults \in Nat
    BY TypeFacts, NumberAssumption
  <2> HIDE DEF O
  <2>4. /\ IsFiniteSet(Copies(net, O))
        /\ InFlight(net, Mine(s)) \in Nat /\ InFlight(net, O) \in Nat
    BY <2>1, <2>2, <2>3, SubCount
  <2> QED BY <2>1, <2>2, <2>3, <2>4, AbortNotMine
<1> HIDE DEF O
<1>1. /\ net' \in [Messages -> Nat] /\ net'[Abort(s)] = 0
      /\ IsFiniteSet(Copies(net', Mine(s)))
  BY <1>0, PlusCount, MinusCount DEF Plus, Minus
<1>2. CASE net' = Plus(net, m)
  <2>1. OnlyOld(s)' => OnlyOld(s)
    <3>1. \A l \in Messages : net'[l] = 0 => net[l] = 0
      BY <1>0, <1>2 DEF Plus
    <3> QED BY <1>0, <3>1 DEF OnlyOld, Old
  <2>2. /\ InFlight(net', Mine(s)) = InFlight(net, Mine(s)) + (IF m \in Mine(s) THEN 1 ELSE 0)
        /\ InFlight(net', O) = InFlight(net, O) + (IF m \in O THEN 1 ELSE 0)
    BY <1>0, <1>2, PlusCount
  <2>3. /\ InFlight(net', Mine(s)) <= InFlight(net, Mine(s)) + (faults - faults')
        /\ InFlight(net', O) <= InFlight(net, O) + (faults - faults')
    BY <1>0, <2>2
  <2> QED BY <1>0, <1>1, <2>1, <2>3, KeepAccount DEF O
<1>3. CASE net[m] > 0 /\ net' = Minus(net, m)
  <2>1. /\ InFlight(net', Mine(s)) = InFlight(net, Mine(s)) - (IF m \in Mine(s) THEN 1 ELSE 0)
        /\ InFlight(net', O) = InFlight(net, O) - (IF m \in O THEN 1 ELSE 0)
    BY <1>0, <1>3, MinusCount
  <2>2. /\ InFlight(net', Mine(s)) <= InFlight(net, Mine(s)) + (faults - faults')
        /\ InFlight(net', O) < InFlight(net, O) + (faults - faults')
    BY <1>0, <2>1
  <2>3. InFlight(net', O) <= InFlight(net, O) + (faults - faults')
    BY <1>0, <2>1
  <2> QED BY <1>0, <1>1, <2>2, <2>3, KeepAccount DEF O
<1> QED BY <1>2, <1>3

\* The datagrams the client ignores are old: it answers the block its session
\* waits for, whether it expects it or has it already.
LEMMA IgnoredIsOld ==
  ASSUME IInv, NEW s \in Sessions, Watched(s), NEW i \in 1..LastBlock, NEW c \in BOOLEAN,
         net[Data(s, i, c)] > 0, ~Expected(s, i)
  PROVE  /\ ~Repeated(s, i) => i < block[s]
         /\ Repeated(s, i) /\ Len(got) < block[s] => i < block[s]
<1> USE TypeFacts, NumberAssumption, SessionAssumption
<1>1. i <= block[s] /\ block[s] \in 0..LastBlock /\ Len(got) \in Nat
  BY DEF IInv, DataInv
<1>2. ASSUME Repeated(s, i), Len(got) < block[s], i = block[s] PROVE FALSE
  <2>1. Len(got) = block[s] - 1
    BY <1>1, <1>2 DEF Repeated, IInv, Lockstep
  <2> DEFINE j == i - 1
  <2>2. i \in Nat /\ j \in Nat /\ j <= i /\ i - j < BlockMod /\ BlockMod \in Nat \ {0} /\ i # j
    OBVIOUS
  <2>3. j = Len(got)
    BY <1>2, <2>1
  <2>4. i % BlockMod = j % BlockMod
    BY <1>2, <2>3 DEF Repeated, Wire
  <2> HIDE DEF j
  <2> QED BY <2>2, <2>4, ModInjective
<1>3. ASSUME ~Repeated(s, i), i = block[s] PROVE FALSE
  <2>1. CASE peer = s
    <3>1. Len(got) # block[s]
      <4> SUFFICES ASSUME Len(got) = block[s] PROVE FALSE
        OBVIOUS
      <4>1. got # <<>>
        BY <1>3
      <4> QED BY <1>3, <2>1, <4>1 DEF Repeated
    <3>2. Len(got) + 1 = i
      BY <1>1, <1>3, <2>1, <3>1 DEF IInv, Lockstep
    <3>3. client = "complete"
      BY <2>1, <3>2 DEF Expected, Watched, ClientEnded, IInv, TypeOK
    <3>4. Whole
      BY <3>3 DEF IInv, ClientInv
    <3>5. Len(got) \in 1..Len(got) /\ got[Len(got)] \in {LastBlock, Cut}
      BY <1>1, <3>4 DEF Whole
    <3>6. got[Len(got)] = Len(got) \/ Len(got) = block[peer]
      BY <3>5 DEF IInv, GotInv
    <3> QED BY <1>1, <1>3, <2>1, <3>2, <3>5, <3>6 DEF Cut
  <2>2. CASE peer = NoSession
    <3>1. client = "request" /\ got = <<>> /\ block[s] <= 1
      BY <2>2 DEF Watched, ClientEnded, IInv, TypeOK, ClientInv, StraySessionsStall
    <3>2. i = Len(got) + 1
      BY <1>3, <3>1
    <3> QED BY <3>1, <3>2 DEF Expected
  <2> QED BY <2>1, <2>2 DEF Watched
<1> QED BY <1>1, <1>2, <1>3

LEMMA GotLength ==
  ASSUME IInv, peer \in Sessions
  PROVE  Len(got) \in 0..LastBlock
<1>1. peer # NoSession /\ block[peer] \in 0..LastBlock /\ Len(got) \in Nat
  BY TypeFacts, SessionAssumption
<1>2. Len(got) <= block[peer]
  BY <1>1 DEF IInv, Lockstep
<1> QED BY <1>1, <1>2, NumberAssumption

\* The client receives a datagram of another session.
LEMMA ReceiveApart ==
  ASSUME IInv, NEW s \in Sessions, NEW t \in Sessions, t # s,
         RecvOack(t) \/ RecvData(t) \/ RecvError(t)
  PROVE  Untouched(s, net')
<1> USE TypeFacts
<1>1. ASSUME NEW m \in Apart(s), net[m] > 0, NEW k \in Apart(s),
             net' = Minus(net, m) \/ net' = Plus(Minus(net, m), k)
      PROVE  Untouched(s, net')
  <2>1. Minus(net, m) \in [Messages -> Nat] /\ Untouched(s, Minus(net, m))
    BY <1>1, MinusUntouched
  <2> QED BY <1>1, <2>1, PlusUntouched
<1>2. Abort(t) \in Apart(s)
  BY AbortApart
<1>3. CASE RecvOack(t)
  <2>1. /\ net[Oack(t)] > 0
        /\ \/ net' = Minus(net, Oack(t))
           \/ net' = Plus(Minus(net, Oack(t)), Ack(t, 0))
           \/ net' = Plus(Minus(net, Oack(t)), Abort(t))
    BY <1>3 DEF RecvOack
  <2>2. 0 \in 0..LastBlock
    BY NumberAssumption
  <2>3. Oack(t) \in Apart(s) /\ Ack(t, 0) \in Apart(s)
    BY <2>2, OackApart, AckApart
  <2> QED BY <1>1, <1>2, <2>1, <2>3
<1>4. CASE RecvData(t)
  <2>1. PICK i \in 1..LastBlock, c \in BOOLEAN :
          /\ net[Data(t, i, c)] > 0 /\ Fresh(t, i)
          /\ \/ /\ Expected(t, i)
                /\ net' = Plus(Minus(net, Data(t, i, c)), Ack(t, Len(got) + 1))
             \/ /\ Repeated(t, i)
                /\ net' = Plus(Minus(net, Data(t, i, c)), Ack(t, Len(got)))
             \/ net' = Plus(Minus(net, Data(t, i, c)), Abort(t))
             \/ net' = Minus(net, Data(t, i, c))
    BY <1>4 DEF RecvData
  <2>2. Data(t, i, c) \in Apart(s)
    BY DataApart
  <2>3. ASSUME Expected(t, i) PROVE Ack(t, Len(got) + 1) \in Apart(s)
    <3>1. i = Len(got) + 1
      BY <2>1, <2>3, AcceptedBlock
    <3>2. Len(got) + 1 \in 0..LastBlock
      BY <3>1
    <3> QED BY <3>2, AckApart
  <2>4. ASSUME Repeated(t, i) PROVE Ack(t, Len(got)) \in Apart(s)
    <3>1. Len(got) \in 0..LastBlock
      BY <2>4, GotLength DEF Repeated
    <3> QED BY <3>1, AckApart
  <2> QED BY <1>1, <1>2, <2>1, <2>2, <2>3, <2>4
<1>5. CASE RecvError(t)
  <2>1. net[Error(t)] > 0 /\ net' = Minus(net, Error(t))
    BY <1>5 DEF RecvError
  <2>2. Error(t) \in Apart(s)
    BY ErrorApart
  <2> QED BY <1>1, <2>1, <2>2
<1> QED BY <1>3, <1>4, <1>5

\* A step of the client.
LEMMA ReceiveAccount ==
  ASSUME IInv, NEW s \in Sessions, Watched(s), Account(s),
         NEW t \in Sessions, RecvOack(t) \/ RecvData(t) \/ RecvError(t),
         net' \in [Messages -> Nat]
  PROVE  Account(s)'
<1> USE TypeFacts, NumberAssumption, SessionAssumption
<1>0. /\ UNCHANGED <<pc, block, cut, tries, faults>>
      /\ faults \in 0..MaxFaults /\ faults' <= faults
  BY DEF RecvOack, RecvData, RecvError, serverVars
<1>1. ASSUME Untouched(s, net') PROVE Account(s)'
  BY <1>0, <1>1, UntouchedAccount
<1>2. CASE t # s
  BY <1>1, <1>2, ReceiveApart
<1>3. CASE RecvOack(s)
  <2>1. Oack(s) \in Mine(s) /\ Oack(s) \in Old(s, block[s]) /\ Ack(s, 0) \in Mine(s)
    <3>1. 0 \in 0..LastBlock
      OBVIOUS
    <3> QED BY <3>1, OackMine, AckMine
  <2>2. /\ net[Oack(s)] > 0
        /\ \/ net' = Plus(Minus(net, Oack(s)), Ack(s, 0))
           \/ net' = Minus(net, Oack(s))
    BY <1>3 DEF RecvOack, Watched
  <2> QED BY <1>0, <2>1, <2>2, AnswerAccount
<1>4. CASE RecvData(s)
  <2>1. PICK i \in 1..LastBlock, c \in BOOLEAN :
          /\ net[Data(s, i, c)] > 0 /\ Fresh(s, i)
          /\ \/ /\ Expected(s, i)
                /\ net' = Plus(Minus(net, Data(s, i, c)), Ack(s, Len(got) + 1))
             \/ /\ ~Expected(s, i) /\ Repeated(s, i)
                /\ net' = Plus(Minus(net, Data(s, i, c)), Ack(s, Len(got)))
             \/ /\ ~Expected(s, i) /\ ~Repeated(s, i)
                /\ net' = Minus(net, Data(s, i, c))
    BY <1>4 DEF RecvData, Stray, Watched
  <2> DEFINE m == Data(s, i, c)
  <2>2. m \in Mine(s) /\ (m \in Old(s, block[s]) <=> i < block[s])
    BY DataMine
  <2> HIDE DEF m
  <2>3. CASE Expected(s, i) /\ net' = Plus(Minus(net, m), Ack(s, Len(got) + 1))
    <3>1. i = Len(got) + 1 /\ i = block[s]
      BY <2>1, <2>3, AcceptedBlock
    <3>2. Ack(s, i) \in Mine(s) /\ Ack(s, i) \notin Old(s, block[s])
      <4>1. i \in 0..LastBlock /\ ~(i < block[s])
        BY <3>1
      <4> QED BY <4>1, AckMine
    <3> QED BY <1>0, <2>1, <2>2, <2>3, <3>1, <3>2, AnswerAccount DEF m
  <2>4. CASE ~Expected(s, i) /\ Repeated(s, i) /\ net' = Plus(Minus(net, m), Ack(s, Len(got)))
    <3>1. Len(got) \in 0..LastBlock
      BY <2>4, GotLength DEF Repeated
    <3>2. Len(got) < block[s] => i < block[s]
      BY <2>1, <2>4, IgnoredIsOld
    <3>3. Ack(s, Len(got)) \in Mine(s) /\ (Ack(s, Len(got)) \in Old(s, block[s]) => m \in Old(s, block[s]))
      BY <2>2, <3>1, <3>2, AckMine
    <3> QED BY <1>0, <2>1, <2>2, <2>4, <3>3, AnswerAccount DEF m
  <2>5. CASE ~Expected(s, i) /\ ~Repeated(s, i) /\ net' = Minus(net, m)
    <3>1. m \in Old(s, block[s])
      BY <2>1, <2>2, <2>5, IgnoredIsOld
    <3> QED BY <1>0, <2>1, <2>2, <2>5, <3>1, AnswerAccount DEF m
  <2> QED BY <2>1, <2>3, <2>4, <2>5 DEF m
<1>5. CASE RecvError(s)
  <2>1. net[Error(s)] > 0 /\ net' = Minus(net, Error(s))
    BY <1>5 DEF RecvError
  <2>2. Untouched(s, net')
    BY <2>1, ErrorApart, MinusUntouched
  <2> QED BY <1>1, <2>2
<1> QED BY <1>2, <1>3, <1>4, <1>5

LEMMA NetworkAccount ==
  ASSUME IInv, NEW s \in Sessions, Watched(s), Account(s),
         RetryRequest \/ EarlyRetryRequest \/ RetryAck \/ Network,
         net' \in [Messages -> Nat]
  PROVE  Account(s)'
<1> USE TypeFacts, NumberAssumption, SessionAssumption
<1>1. CASE RetryRequest \/ EarlyRetryRequest
  <2>1. net' = Plus(net, Rrq)
    BY <1>1 DEF RetryRequest, EarlyRetryRequest
  <2>2. Untouched(s, net')
    BY <2>1, RrqApart, NetUntouched, PlusUntouched
  <2>3. /\ UNCHANGED <<pc, block, tries>>
        /\ faults' \in 0..MaxFaults /\ faults' <= faults
    BY <1>1 DEF RetryRequest, EarlyRetryRequest, serverVars
  <2> QED BY <2>2, <2>3, UntouchedAccount
<1>2. CASE RetryAck
  <2>1. peer = s /\ Len(got) \in 0..LastBlock
    <3>1. peer = s
      BY <1>2 DEF RetryAck, Watched, IInv, ClientInv
    <3> QED BY <3>1, GotLength
  <2>2. Ack(s, Len(got)) \in Messages /\ Ack(s, Len(got)) # Abort(s)
    <3>1. Ack(s, Len(got)) \in Messages /\ Ack(s, Len(got)) \in Mine(s)
      BY <2>1, AckMine
    <3> QED BY <3>1, AbortNotMine
  <2>3. /\ UNCHANGED <<pc, block, tries>> /\ faults > 0 /\ faults' = faults - 1
        /\ net' = Plus(net, Ack(s, Len(got)))
    BY <1>2, <2>1 DEF RetryAck, serverVars
  <2> QED BY <2>2, <2>3, PaidAccount
<1>3. CASE Network
  <2>1. PICK m \in Messages : Lose(m) \/ Duplicate(m)
    BY <1>3 DEF Network
  <2>2. /\ UNCHANGED <<pc, block, tries>> /\ faults > 0 /\ faults' = faults - 1
        /\ net[m] > 0 /\ net' \in {Plus(net, m), Minus(net, m)}
    BY <2>1 DEF Lose, Duplicate, serverVars
  <2>3. m # Abort(s)
    BY <2>2 DEF Account
  <2> QED BY <2>2, <2>3, PaidAccount
<1> QED BY <1>1, <1>2, <1>3

LEMMA FaultStep ==
  ASSUME IInv, FaultInv, [Next]_vars
  PROVE  FaultInv'
<1> USE SessionAssumption
<1> SUFFICES ASSUME NEW s \in Sessions, Watched(s)'
             PROVE  Account(s)'
  BY DEF FaultInv
<1>0. net' \in [Messages -> Nat] /\ faults' \in 0..MaxFaults
  BY NextInv DEF IInv, TypeOK
<1>1. CASE UNCHANGED vars
  BY <1>1 DEF vars, serverVars, clientVars, FaultInv, Watched, ClientEnded, Account, Used,
              OnlyOld
<1>2. ASSUME NEW t \in Sessions, Server(t) PROVE Account(s)'
  <2>1. UNCHANGED clientVars
    BY <1>2 DEF Server, ServeNotFound, ServeOptions, ServePlain, OackAcked, BlockAcked,
                WrongPacket, Timeout, EarlyTimeout, WriteFails, WaitFailed
  <2>2. Watched(s) /\ Account(s)
    BY <2>1 DEF clientVars, Watched, ClientEnded, FaultInv
  <2>3. CASE t = s
    BY <1>0, <1>2, <2>2, <2>3, ServerAccount
  <2>4. CASE t # s
    <3>1. /\ pc'[s] = pc[s] /\ block'[s] = block[s] /\ tries'[s] = tries[s]
          /\ faults' <= faults /\ Untouched(s, net')
      BY <1>2, <2>4, ServerApart
    <3> QED BY <1>0, <2>2, <3>1, UntouchedAccount
  <2> QED BY <2>3, <2>4
<1>3. ASSUME NEW t \in Sessions, RecvOack(t) \/ RecvData(t) \/ RecvError(t) PROVE Account(s)'
  <2>1. ~ClientEnded
    BY <1>3 DEF RecvOack, RecvData, RecvError
  <2>2. peer \in {s, NoSession}
    <3>1. peer' = peer \/ (peer \in {t, NoSession} /\ peer' = t)
      <4>1. CASE RecvOack(t)
        BY <4>1 DEF RecvOack, IInv, ClientInv
      <4>2. CASE RecvData(t)
        BY <4>2 DEF RecvData, Expected, IInv, ClientInv, clientVars
      <4>3. CASE RecvError(t)
        BY <4>3 DEF RecvError
      <4> QED BY <1>3, <4>1, <4>2, <4>3
    <3> QED BY <3>1 DEF Watched
  <2> QED BY <1>0, <1>3, <2>1, <2>2, ReceiveAccount DEF Watched, FaultInv
<1>4. CASE RetryRequest \/ EarlyRetryRequest \/ RetryAck \/ Network
  <2>1. UNCHANGED clientVars
    BY <1>4 DEF RetryRequest, EarlyRetryRequest, RetryAck, Network, Lose, Duplicate
  <2>2. Watched(s) /\ Account(s)
    BY <2>1 DEF clientVars, Watched, ClientEnded, FaultInv
  <2> QED BY <1>0, <1>4, <2>2, NetworkAccount
<1>5. CASE Vanish
  BY <1>5 DEF Vanish, Watched, ClientEnded
<1> QED BY <1>1, <1>2, <1>3, <1>4, <1>5 DEF Next, Client

LEMMA FaultInit ==
  ASSUME Init
  PROVE  FaultInv
<1> SUFFICES ASSUME NEW s \in Sessions PROVE Account(s)
  BY DEF FaultInv
<1>1. ASSUME NEW m \in Messages, m # Rrq PROVE net[m] = 0
  BY <1>1 DEF Init
<1>2. Copies(net, Mine(s)) = {} /\ net[Abort(s)] = 0
  <2>1. \A m \in Mine(s) : net[m] = 0
    BY <1>1, MineSets, RrqNotMine
  <2>2. net[Abort(s)] = 0
    BY <1>1, AbortNotMine, RrqNotMine
  <2> QED BY <2>1, <2>2, NoCopies
<1> QED BY <1>1, <1>2, FS_EmptySet DEF Account, Init

-----------------------------------------------------------------------------
(* The theorems.                                                           *)

\* The inductive invariant holds in every reachable state: what is in flight
\* agrees with the sessions and with what the client has accepted.
THEOREM Invariance == Spec => []IInv
<1>1. Init => IInv
  BY InitInv
<1>2. IInv /\ [Next]_vars => IInv'
  BY NextInv
<1> QED BY <1>1, <1>2, PTL DEF Spec

\* Every variable keeps its type: no session counts past the file's last block
\* or past its last try.
THEOREM TypeCorrect == Spec => []TypeOK
<1>1. IInv => TypeOK
  BY DEF IInv
<1> QED BY <1>1, Invariance, PTL

\* Stop-and-wait keeps the two ends within one block of each other, for every
\* width of the block number.
THEOREM LockstepHolds == Spec => []Lockstep
<1>1. IInv => Lockstep
  BY DEF IInv
<1> QED BY <1>1, Invariance, PTL

\* "done" is logged only for a client that has accepted everything read.
THEOREM DoneHolds == Spec => []DoneMeansDelivered
<1>1. IInv => DoneMeansDelivered
  BY DEF IInv
<1> QED BY <1>1, Invariance, PTL

\* A session the client did not choose stays at its first block.
THEOREM StrayHolds == Spec => []StraySessionsStall
<1>1. IInv => StraySessionsStall
  BY DEF IInv
<1> QED BY <1>1, Invariance, PTL

\* The account of faults balances in every reachable state.
THEOREM AccountHolds == Spec => []FaultInv
<1>1. Init => FaultInv
  BY FaultInit
<1>2. IInv /\ FaultInv /\ [Next]_vars => FaultInv'
  BY FaultStep
<1> QED BY <1>1, <1>2, Invariance, PTL DEF Spec

\* The session the client uses gives a block up only after MaxTries faults: a
\* duplicate is echoed on every later block, but the echoes do not multiply.
THEOREM FailureHolds == Spec => []FailureNeedsFaults
<1>1. IInv /\ FaultInv => FailureNeedsFaults
  <2> SUFFICES ASSUME IInv, FaultInv,
                      NEW s \in Sessions, s = peer, pc[s] = "failed", block[s] > 0, ~ClientEnded
               PROVE  MaxFaults - faults >= MaxTries
    BY DEF FailureNeedsFaults
  <2>1. MaxTries <= MaxFaults - faults
    BY DEF FaultInv, Watched, Account, Used
  <2> QED BY <2>1, TypeFacts, NumberAssumption
<1> QED BY <1>1, Invariance, AccountHolds, PTL

LEMMA DeliveryStep ==
  ASSUME IInv, [Next]_vars
  PROVE  [Delivery!Next]_got
<1> USE SessionAssumption, NumberAssumption
<1> SUFFICES ASSUME got' # got PROVE Delivery!Next
  OBVIOUS
<1>1. PICK s \in Sessions, i \in 1..LastBlock, c \in BOOLEAN :
        /\ net[Data(s, i, c)] > 0 /\ Fresh(s, i) /\ Expected(s, i)
        /\ got' = Append(got, Payload(i, c))
  <2>1. ASSUME NEW s \in Sessions, Server(s) PROVE FALSE
    BY <2>1 DEF Server, ServeNotFound, ServeOptions, ServePlain, OackAcked, BlockAcked,
                WrongPacket, Timeout, EarlyTimeout, WriteFails, WaitFailed, clientVars
  <2>2. ASSUME NEW s \in Sessions, RecvOack(s) \/ RecvError(s) PROVE FALSE
    BY <2>2 DEF RecvOack, RecvError
  <2>3. ASSUME RetryRequest \/ EarlyRetryRequest \/ RetryAck \/ Vanish \/ Network
        PROVE  FALSE
    BY <2>3 DEF RetryRequest, EarlyRetryRequest, RetryAck, Vanish, Network, Lose,
                Duplicate, clientVars
  <2>4. Next
    BY DEF vars, clientVars
  <2>5. \E s \in Sessions : RecvData(s)
    BY <2>1, <2>2, <2>3, <2>4 DEF Next, Client
  <2> QED BY <2>5 DEF RecvData, clientVars
<1>2. /\ i = Len(got) + 1 /\ c = cut[s] /\ ~Whole
  BY <1>1, AcceptedBlock
<1>3. c => ReadFails
  BY <1>2 DEF IInv, BlockInv
<1>4. ~Delivery!Finished
  BY <1>2 DEF Whole, Cut, Delivery!Finished, Delivery!Cut
<1> QED BY <1>1, <1>2, <1>3, <1>4 DEF Payload, Cut, Delivery!Next, Delivery!DeliverNext,
           Delivery!DeliverCut, Delivery!Cut
\* The server, its network and its client implement the abstract delivery: the
\* client accepts the file's blocks once each and in order, whatever the network
\* loses, repeats or reorders.
THEOREM Refinement == Spec => ImplementsDelivery
<1>1. Init => Delivery!Init
  BY DEF Init, Delivery!Init
<1>2. IInv /\ [Next]_vars => [Delivery!Next]_got
  BY DeliveryStep
<1> QED BY <1>1, <1>2, Invariance, PTL DEF Spec, ImplementsDelivery, Delivery!Spec

\* Where reading the file never fails, a client that has seen the last block
\* holds the whole file.
THEOREM WholeFile ==
  ASSUME ~ReadFails
  PROVE  Spec => []CompleteMeansWhole
<1>1. IInv => CompleteMeansWhole
  <2> SUFFICES ASSUME IInv, client = "complete"
               PROVE  got = [i \in 1..LastBlock |-> i]
    BY DEF CompleteMeansWhole
  <2>1. got \in Seq(0..LastBlock) /\ peer \in Sessions /\ Whole
    BY TypeFacts DEF IInv, ClientInv
  <2>2. \A i \in 1..Len(got) : got[i] = i
    BY <2>1 DEF IInv, GotInv, BlockInv
  <2>3. Len(got) = LastBlock
    BY <2>1, <2>2, NumberAssumption DEF Whole, Cut
  <2> QED BY <2>1, <2>2, <2>3
<1> QED BY <1>1, Invariance, PTL
=============================================================================
