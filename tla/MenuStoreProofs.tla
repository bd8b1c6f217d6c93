-------------------------- MODULE MenuStoreProofs --------------------------
(***************************************************************************)
(* What single updates may rely on, for any entries, handlers, crashes and *)
(* failures of the disk, and the refinement of DurableMenu.                *)
(***************************************************************************)
EXTENDS MenuStore, FiniteSetTheorems, TLAPS

IsIdle(h) == handler[h].at = "idle"
AllIdle == \A h \in Handlers : IsIdle(h)

\* The name of the temporary file never points at the menu; no handler is under way
\* while the program is down.
NamesInv ==
  /\ name.tmp # NoFile => name.tmp # name.menu
  /\ \A h \in Handlers : handler[h].at = "write" => handler[h].fd # NoFile
  /\ program # "up" => outcome = "none" /\ AllIdle

\* An update that has the store to itself carries the menu that is in force to the
\* temporary file, which is its own.
Carries(h) ==
  /\ handler[h].at \in {"open", "write"} => handler[h].list = entries
  /\ handler[h].at = "write" =>
       handler[h].fd = name.tmp /\ file[name.tmp].size = 0
  /\ handler[h].at = "rename" =>
       name.tmp # NoFile /\ file[name.tmp] = Whole(entries)

SoloInv ==
  \A h \in Handlers : solo[h] /\ ~IsIdle(h) =>
    (\A g \in Handlers \ {h} : IsIdle(g)) /\ Carries(h)

OutcomeInv ==
  /\ outcome = "ok" => AllIdle /\ Readable /\ Saved = entries
  /\ outcome # "tmp gone"

AloneInv ==
  alone => /\ program # "dead" /\ Readable
           /\ \A h \in Handlers : ~IsIdle(h) => solo[h]

IInv == TypeOK /\ NamesInv /\ SoloInv /\ OutcomeInv /\ AloneInv

LEMMA Sizes ==
  /\ Cardinality(Ids) \in Nat
  /\ \A menu \in Menus : Size(menu) \in 1..(Cardinality(Ids) + 1)
<1>1. Cardinality(Ids) \in Nat
  BY FS_CardinalityType, BoundAssumption
<1>2. ASSUME NEW menu \in Menus PROVE Size(menu) \in 1..(Cardinality(Ids) + 1)
  <2> DEFINE Used == {id \in Ids : menu[id] # NoEntry}
  <2>1. IsFiniteSet(Used) /\ Cardinality(Used) <= Cardinality(Ids)
    BY FS_Subset, BoundAssumption
  <2>2. Cardinality(Used) \in Nat
    BY <2>1, FS_CardinalityType
  <2>3. Size(menu) = Cardinality(Used) + 1
    BY DEF Size
  <2> QED BY <1>1, <2>1, <2>2, <2>3
<1> QED BY <1>1, <1>2

LEMMA EmptyIsMenu == EmptyMenu \in Menus
  BY DEF EmptyMenu, Menus

LEMMA InitInv == Init => IInv
  BY Sizes, EmptyIsMenu, BoundAssumption, MenuAssumption
     DEF Init, IInv, TypeOK, NamesInv, SoloInv, OutcomeInv, AloneInv, AllIdle, IsIdle, Idle, Torn,
         Readable, Saved

LEMMA UpdateStep ==
  ASSUME IInv, NEW h \in Handlers, Update(h)
  PROVE  IInv'
<1> USE DEF IInv
<1>1. PICK id \in Ids, v \in Values \cup {NoEntry} : entries' = [entries EXCEPT ![id] = v]
  BY DEF Update
<1>2. /\ program = "up" /\ updates > 0 /\ updates' = updates - 1
      /\ handler' = [handler EXCEPT ![h].at = "list"]
      /\ solo' = [g \in Handlers |-> g = h /\ Active = {}]
      /\ outcome' = "none" /\ alone' = (alone /\ Active = {})
      /\ UNCHANGED <<program, name, file, allOk, crashes>>
  BY DEF Update
<1>3. /\ handler'[h].at = "list" /\ \A g \in Handlers \ {h} : handler'[g] = handler[g]
      /\ Active = {} => AllIdle
  BY <1>2 DEF TypeOK, Active, AllIdle, IsIdle
<1>4. TypeOK'
  <2>1. entries' \in Menus
    BY <1>1 DEF TypeOK, Menus
  <2>2. handler' \in [Handlers -> [at : {"idle", "list", "open", "write", "rename"},
                                   list : Menus, fd : Inodes \cup {NoFile}]]
    BY <1>2 DEF TypeOK
  <2>3. updates' \in 0..MaxUpdates
    <3>1. updates \in 0..MaxUpdates /\ MaxUpdates \in Nat
      BY BoundAssumption DEF TypeOK
    <3> QED BY <1>2, <3>1
  <2>4. solo' \in [Handlers -> BOOLEAN] /\ alone' \in BOOLEAN
    BY <1>2 DEF TypeOK
  <2> QED BY <1>2, <2>1, <2>2, <2>3, <2>4 DEF TypeOK
<1>5. NamesInv'
  BY <1>2, <1>3 DEF NamesInv
<1>6. SoloInv'
  BY <1>2, <1>3 DEF SoloInv, Carries, AllIdle, IsIdle
<1>7. OutcomeInv'
  BY <1>2 DEF OutcomeInv
<1>8. AloneInv'
  BY <1>2, <1>3 DEF AloneInv, Readable, AllIdle, IsIdle
<1> QED BY <1>4, <1>5, <1>6, <1>7, <1>8

\* While one handler is under way no other update has the store to itself.
LEMMA OnlySolo ==
  ASSUME IInv, NEW h \in Handlers, ~IsIdle(h), NEW g \in Handlers, solo[g], ~IsIdle(g)
  PROVE  g = h
BY DEF IInv, SoloInv

LEMMA ListStep ==
  ASSUME IInv, NEW h \in Handlers, List(h)
  PROVE  IInv'
<1> USE DEF IInv
<1>1. /\ ~IsIdle(h)
      /\ handler' = [handler EXCEPT ![h] = [@ EXCEPT !.at = "open", !.list = entries]]
      /\ UNCHANGED <<program, entries, name, file, solo, outcome, allOk, alone, updates, crashes>>
  BY DEF List, IsIdle
<1>2. /\ handler'[h].at = "open" /\ handler'[h].list = entries
      /\ \A g \in Handlers \ {h} : handler'[g] = handler[g]
  BY <1>1 DEF TypeOK
<1>3. TypeOK'
  BY <1>1 DEF TypeOK
<1>4. NamesInv'
  BY <1>1, <1>2 DEF NamesInv, AllIdle, IsIdle
<1>5. SoloInv'
  BY <1>1, <1>2, OnlySolo DEF SoloInv, Carries, IsIdle
<1>6. OutcomeInv' /\ AloneInv'
  BY <1>1, <1>2 DEF OutcomeInv, AloneInv, Readable, Saved, AllIdle, IsIdle
<1> QED BY <1>3, <1>4, <1>5, <1>6

LEMMA OpenStep ==
  ASSUME IInv, NEW h \in Handlers, Open(h)
  PROVE  IInv'
<1> USE DEF IInv
<1>1. PICK i \in Inodes :
        /\ IF name.tmp = NoFile THEN Free(i) ELSE i = name.tmp
        /\ name' = [name EXCEPT !.tmp = i]
        /\ file' = [file EXCEPT ![i] = Opened(@)]
        /\ handler' = [handler EXCEPT ![h] = [@ EXCEPT !.at = "write", !.fd = i]]
  BY DEF Open
<1>2. /\ handler[h].at = "open" /\ ~IsIdle(h)
      /\ UNCHANGED <<program, entries, solo, outcome, allOk, alone, updates, crashes>>
  BY DEF Open, IsIdle
<1>3. /\ handler'[h].at = "write" /\ handler'[h].fd = i /\ handler'[h].list = handler[h].list
      /\ \A g \in Handlers \ {h} : handler'[g] = handler[g]
      /\ name'.tmp = i /\ name'.menu = name.menu /\ i # name.menu /\ i # NoFile
      /\ file'[i] = Torn(0) /\ \A j \in Inodes \ {i} : file'[j] = file[j]
  BY <1>1, MenuAssumption DEF TypeOK, NamesInv, Free, Opened
<1>4. TypeOK'
  <2>1. Torn(0) \in [whole : BOOLEAN, menu : Menus, size : 0..(Cardinality(Ids) + 1)]
    BY Sizes, EmptyIsMenu DEF Torn
  <2> QED BY <1>1, <1>2, <2>1 DEF TypeOK, Opened
<1>5. NamesInv'
  BY <1>2, <1>3 DEF NamesInv, AllIdle, IsIdle
<1>6. SoloInv'
  <2>1. file'[name'.tmp].size = 0
    BY <1>3 DEF Torn
  <2>2. solo[h] => handler[h].list = entries
    BY <1>2 DEF SoloInv, Carries
  <2> QED BY <1>2, <1>3, <2>1, <2>2, OnlySolo DEF SoloInv, Carries, IsIdle
<1>7. (Readable' <=> Readable) /\ Saved' = Saved
  BY <1>3 DEF Readable, Saved, TypeOK
<1>8. OutcomeInv' /\ AloneInv'
  BY <1>2, <1>3, <1>7 DEF OutcomeInv, AloneInv, AllIdle, IsIdle
<1> QED BY <1>4, <1>5, <1>6, <1>8

\* An update that has ended, in whatever way: the others are what they were.
LEMMA EndStep ==
  ASSUME IInv, NEW h \in Handlers, ~IsIdle(h), NEW result \in {"ok", "disk error"},
         Finish(h, result), TypeOK', (name.tmp # NoFile => name.tmp # name.menu)',
         result = "ok" /\ solo[h] => Readable' /\ Saved' = entries,
         alone => Readable'
  PROVE  IInv'
<1> USE DEF IInv
<1>1. /\ handler' = [handler EXCEPT ![h] = Idle]
      /\ outcome' = IF solo[h] THEN result ELSE "contended"
      /\ UNCHANGED <<program, entries, solo, alone, updates, crashes>>
  BY DEF Finish
<1>2. handler'[h].at = "idle" /\ \A g \in Handlers \ {h} : handler'[g] = handler[g]
  BY <1>1 DEF TypeOK, Idle
<1>3. program = "up"
  BY DEF NamesInv, AllIdle
<1>4. NamesInv'
  BY <1>1, <1>2, <1>3 DEF NamesInv
<1>5. SoloInv'
  BY <1>1, <1>2, OnlySolo DEF SoloInv, IsIdle
<1>6. OutcomeInv'
  <2>1. solo[h] => AllIdle'
    <3>1. solo[h] => \A g \in Handlers \ {h} : IsIdle(g)
      BY DEF SoloInv
    <3> QED BY <1>2, <3>1 DEF AllIdle, IsIdle
  <2> QED BY <1>1, <2>1 DEF OutcomeInv
<1>7. AloneInv'
  BY <1>1, <1>2 DEF AloneInv, IsIdle
<1> QED BY <1>4, <1>5, <1>6, <1>7

LEMMA OpenFailsStep ==
  ASSUME IInv, NEW h \in Handlers, OpenFails(h)
  PROVE  IInv'
<1>1. ~IsIdle(h) /\ Finish(h, "disk error") /\ UNCHANGED <<name, file>>
  BY DEF OpenFails, IsIdle
<1>2. TypeOK'
  BY <1>1, EmptyIsMenu DEF IInv, TypeOK, Finish, Idle
<1>3. alone => Readable'
  BY <1>1 DEF IInv, AloneInv, Readable
<1>4. (name.tmp # NoFile => name.tmp # name.menu)'
  BY <1>1 DEF IInv, NamesInv
<1> QED BY <1>1, <1>2, <1>3, <1>4, EndStep

\* What a handler writes to: as long as updates come one after the other, the
\* temporary file.
LEMMA WritesToTmp ==
  ASSUME IInv, NEW h \in Handlers, handler[h].at = "write"
  PROVE  /\ handler[h].fd \in Inodes
         /\ solo[h] => handler[h].fd = name.tmp /\ handler[h].fd # name.menu
         /\ alone => solo[h]
BY DEF IInv, TypeOK, NamesInv, SoloInv, Carries, AloneInv, IsIdle

LEMMA WriteStep ==
  ASSUME IInv, NEW h \in Handlers, Write(h)
  PROVE  IInv'
<1> USE DEF IInv
<1> DEFINE i == handler[h].fd
           list == handler[h].list
<1>1. /\ handler[h].at = "write" /\ ~IsIdle(h)
      /\ file' = [file EXCEPT ![i] = Overwrite(@, list)]
      /\ handler' = [handler EXCEPT ![h] = [@ EXCEPT !.at = "rename", !.fd = NoFile]]
      /\ UNCHANGED <<program, entries, name, solo, outcome, allOk, alone, updates, crashes>>
  BY DEF Write, IsIdle
<1>2. /\ i \in Inodes
      /\ solo[h] => i = name.tmp /\ i # name.menu
      /\ alone => solo[h]
  BY <1>1, WritesToTmp
<1>3. /\ list \in Menus /\ Size(list) \in 1..(Cardinality(Ids) + 1)
      /\ file[i].size \in 0..(Cardinality(Ids) + 1) /\ Cardinality(Ids) \in Nat
  <2>1. list \in Menus /\ file[i].size \in 0..(Cardinality(Ids) + 1)
    BY <1>2 DEF TypeOK
  <2> QED BY <2>1, Sizes
<1>4. /\ handler'[h].at = "rename" /\ \A g \in Handlers \ {h} : handler'[g] = handler[g]
      /\ file'[i] = Overwrite(file[i], list) /\ \A j \in Inodes \ {i} : file'[j] = file[j]
  BY <1>1, <1>2 DEF TypeOK
<1>5. TypeOK'
  <2>1. Overwrite(file[i], list) \in [whole : BOOLEAN, menu : Menus, size : 0..(Cardinality(Ids) + 1)]
    BY <1>3, EmptyIsMenu DEF Overwrite, Whole, Torn
  <2> HIDE DEF i, list
  <2> QED BY <1>1, <2>1 DEF TypeOK
<1>6. NamesInv'
  BY <1>1, <1>4 DEF NamesInv, AllIdle, IsIdle
<1>7. SoloInv'
  <2>1. solo[h] => name.tmp # NoFile /\ file'[name.tmp] = Whole(entries)
    <3>1. solo[h] => list = entries /\ file[i].size = 0 /\ i = name.tmp
      BY <1>1 DEF SoloInv, Carries
    <3>2. solo[h] => Overwrite(file[i], list) = Whole(entries)
      BY <1>3, <3>1 DEF Overwrite
    <3> QED BY <1>2, <1>4, <3>1, <3>2, MenuAssumption
  <2> QED BY <1>1, <1>4, <2>1, OnlySolo DEF SoloInv, Carries, IsIdle
<1>8. OutcomeInv' /\ AloneInv'
  <2>1. outcome # "ok"
    BY <1>1 DEF OutcomeInv, AllIdle
  <2>2. alone => Readable'
    BY <1>1, <1>2, <1>4 DEF AloneInv, Readable, TypeOK
  <2> QED BY <1>1, <1>4, <2>1, <2>2 DEF OutcomeInv, AloneInv, IsIdle
<1> QED BY <1>5, <1>6, <1>7, <1>8

LEMMA WriteFailsStep ==
  ASSUME IInv, NEW h \in Handlers, WriteFails(h)
  PROVE  IInv'
<1> DEFINE i == handler[h].fd
<1>1. /\ handler[h].at = "write" /\ ~IsIdle(h) /\ Finish(h, "disk error") /\ UNCHANGED name
  BY DEF WriteFails, IsIdle
<1>2. PICK n \in 0..(Size(handler[h].list) - 1) : file' = [file EXCEPT ![i] = Partial(@, n)]
  BY DEF WriteFails
<1>3. i \in Inodes /\ (alone => i # name.menu)
  BY <1>1, WritesToTmp
<1>4. TypeOK'
  <2>1. Partial(file[i], n) \in [whole : BOOLEAN, menu : Menus, size : 0..(Cardinality(Ids) + 1)]
    <3>1. file[i] \in [whole : BOOLEAN, menu : Menus, size : 0..(Cardinality(Ids) + 1)]
      BY <1>3 DEF IInv, TypeOK
    <3>2. n \in 0..(Cardinality(Ids) + 1)
      <4>1. handler[h].list \in Menus
        BY DEF IInv, TypeOK
      <4>2. Size(handler[h].list) \in 1..(Cardinality(Ids) + 1) /\ Cardinality(Ids) \in Nat
        BY <4>1, Sizes
      <4> QED BY <4>2
    <3> QED BY <3>1, <3>2, Sizes, EmptyIsMenu DEF Partial, Torn
  <2> HIDE DEF i
  <2> QED BY <1>1, <1>2, <2>1, EmptyIsMenu DEF IInv, TypeOK, Finish, Idle
<1>5. alone => Readable'
  BY <1>1, <1>2, <1>3 DEF IInv, AloneInv, Readable, TypeOK
<1>6. (name.tmp # NoFile => name.tmp # name.menu)'
  BY <1>1 DEF IInv, NamesInv
<1> QED BY <1>1, <1>4, <1>5, <1>6, EndStep

LEMMA RenameStep ==
  ASSUME IInv, NEW h \in Handlers, Rename(h)
  PROVE  IInv'
<1>1. handler[h].at = "rename" /\ ~IsIdle(h) /\ UNCHANGED file
  BY DEF Rename, IsIdle
<1>2. solo[h] => name.tmp # NoFile /\ file[name.tmp] = Whole(entries)
  BY <1>1 DEF IInv, SoloInv, Carries
<1>3. alone => solo[h]
  BY <1>1 DEF IInv, AloneInv
<1>4. CASE name.tmp # NoFile
  <2>1. name' = [menu |-> name.tmp, tmp |-> NoFile] /\ Finish(h, "ok")
    BY <1>4 DEF Rename
  <2>2. TypeOK'
    BY <1>1, <2>1, EmptyIsMenu DEF IInv, TypeOK, Finish, Idle
  <2>3. solo[h] => Readable' /\ Saved' = entries
    BY <1>1, <1>2, <2>1 DEF Readable, Saved, Whole
  <2>4. (name.tmp # NoFile => name.tmp # name.menu)'
    BY <2>1
  <2> QED BY <1>1, <1>3, <2>1, <2>2, <2>3, <2>4, EndStep
<1>5. CASE name.tmp = NoFile
  \* Another update has renamed the file: this one did not have the store to itself.
  <2>1. ~solo[h] /\ ~alone
    BY <1>2, <1>3, <1>5
  <2>2. Finish(h, "tmp gone") /\ UNCHANGED name
    BY <1>5 DEF Rename
  <2>3. /\ handler' = [handler EXCEPT ![h] = Idle] /\ outcome' = "contended"
        /\ allOk' \in BOOLEAN
        /\ UNCHANGED <<program, entries, name, file, solo, alone, updates, crashes>>
    BY <1>1, <2>1, <2>2 DEF Finish, IInv, TypeOK
  <2>4. handler'[h].at = "idle" /\ \A g \in Handlers \ {h} : handler'[g] = handler[g]
    BY <2>3 DEF IInv, TypeOK, Idle
  <2>5. TypeOK'
    BY <2>3, EmptyIsMenu DEF IInv, TypeOK, Idle
  <2>6. NamesInv'
    BY <1>1, <2>3, <2>4 DEF IInv, NamesInv, AllIdle
  <2>7. SoloInv'
    BY <1>1, <2>3, <2>4, OnlySolo DEF SoloInv, IsIdle
  <2>8. OutcomeInv' /\ AloneInv'
    BY <2>1, <2>3 DEF OutcomeInv, AloneInv
  <2> QED BY <2>5, <2>6, <2>7, <2>8 DEF IInv
<1> QED BY <1>4, <1>5

LEMMA CrashStep == ASSUME IInv, Crash PROVE IInv'
<1> USE DEF IInv
<1>1. /\ program' = "down" /\ entries' = EmptyMenu /\ handler' = [h \in Handlers |-> Idle]
      /\ outcome' = "none" /\ allOk' = TRUE /\ crashes > 0 /\ crashes' = crashes - 1
      /\ UNCHANGED <<name, file, solo, alone, updates>>
  BY DEF Crash
<1>2. \A h \in Handlers : handler'[h].at = "idle"
  BY <1>1 DEF Idle
<1>3. TypeOK'
  <2>1. crashes \in 0..MaxCrashes /\ MaxCrashes \in Nat
    BY BoundAssumption DEF TypeOK
  <2>2. crashes' \in 0..MaxCrashes
    BY <1>1, <2>1
  <2>3. Idle \in [at : {"idle", "list", "open", "write", "rename"}, list : Menus,
                 fd : Inodes \cup {NoFile}]
    BY EmptyIsMenu DEF Idle
  <2> QED BY <1>1, <2>2, <2>3, EmptyIsMenu DEF TypeOK
<1>4. NamesInv' /\ SoloInv'
  BY <1>1, <1>2 DEF NamesInv, SoloInv, AllIdle, IsIdle
<1>5. OutcomeInv' /\ AloneInv'
  BY <1>1, <1>2 DEF OutcomeInv, AloneInv, Readable, IsIdle
<1> QED BY <1>3, <1>4, <1>5

LEMMA RestartStep == ASSUME IInv, Restart PROVE IInv'
<1> USE DEF IInv
<1>1. /\ program = "down" /\ outcome = "none" /\ AllIdle
      /\ UNCHANGED <<name, file, handler, solo, outcome, allOk, updates, crashes>>
  BY DEF Restart, NamesInv
<1>2. /\ program' \in {"up", "dead"} /\ entries' \in Menus /\ alone' \in BOOLEAN
      /\ alone' => alone /\ program' = (IF Readable THEN "up" ELSE "dead")
  <2>1. Saved \in Menus
    BY EmptyIsMenu DEF TypeOK, Saved
  <2>2. CASE UNCHANGED alone /\ program' = (IF Readable THEN "up" ELSE "dead")
               /\ entries' = IF Readable THEN Saved ELSE EmptyMenu
    BY <2>1, <2>2, EmptyIsMenu DEF TypeOK
  <2>3. CASE program' = "up" /\ entries' = EmptyMenu /\ alone' = FALSE
    BY <2>3, EmptyIsMenu
  <2> QED BY <2>2, <2>3, Zenon DEF Restart
<1>3. TypeOK'
  BY <1>1, <1>2 DEF TypeOK
<1>4. NamesInv' /\ SoloInv' /\ OutcomeInv'
  BY <1>1 DEF NamesInv, SoloInv, OutcomeInv, AllIdle, IsIdle
<1>5. AloneInv'
  BY <1>1, <1>2 DEF AloneInv, Readable, AllIdle, IsIdle
<1> QED BY <1>3, <1>4, <1>5

LEMMA Step == ASSUME IInv, [Next]_vars PROVE IInv'
<1>1. CASE UNCHANGED vars
  BY <1>1 DEF vars, IInv, TypeOK, NamesInv, SoloInv, Carries, OutcomeInv, AloneInv, AllIdle, IsIdle,
              Readable, Saved
<1> QED BY <1>1, UpdateStep, ListStep, OpenStep, OpenFailsStep, WriteStep, WriteFailsStep, RenameStep,
           CrashStep, RestartStep DEF Next, Save

LEMMA Invariance == Spec => []IInv
BY InitInv, Step, PTL DEF Spec

\* The variables keep their types.
THEOREM TypeCorrect == Spec => []TypeOK
BY Invariance, PTL DEF IInv

\* An update that had the store to itself and was answered with success is on disk, whatever
\* overlapping updates, failures and crashes came before it.
THEOREM SoloDurable == Spec => []SoloUpdateIsDurable
<1>1. IInv => SoloUpdateIsDurable
  BY DEF IInv, OutcomeInv, SoloUpdateIsDurable
<1> QED BY <1>1, Invariance, PTL

\* As long as updates come one after the other, the program comes up again after a crash at
\* any point.
THEOREM Restarts == Spec => []AlwaysRestarts
<1>1. IInv => AlwaysRestarts
  BY DEF IInv, AloneInv, AlwaysRestarts
<1> QED BY <1>1, Invariance, PTL

(***************************************************************************)
(* The refinement: what the server shows is the map while the program is   *)
(* up, and what a restart would bring back otherwise.                      *)
(***************************************************************************)
\* A step that leaves the menu file, its contents and the map alone is a stutter.
LEMMA Stutter ==
  ASSUME UNCHANGED <<program, entries>>, Saved' = Saved
  PROVE  Durable!Step
BY DEF Durable!Step

LEMMA SaveRefines ==
  ASSUME IInv, alone, NEW h \in Handlers, Save(h)
  PROVE  Durable!Step
<1>1. UNCHANGED <<program, entries>>
  BY DEF Save, List, Open, OpenFails, Write, WriteFails, Rename, Finish
<1>2. CASE List(h) \/ OpenFails(h)
  <2>1. Saved' = Saved
    BY <1>2 DEF List, OpenFails, Saved
  <2> QED BY <1>1, <2>1, Stutter
<1>3. CASE Open(h)
  <2>1. PICK i \in Inodes : /\ IF name.tmp = NoFile THEN Free(i) ELSE i = name.tmp
                            /\ name' = [name EXCEPT !.tmp = i]
                            /\ file' = [file EXCEPT ![i] = Opened(@)]
    BY <1>3 DEF Open
  <2>2. i # name.menu /\ name'.menu = name.menu
    BY <2>1 DEF IInv, TypeOK, NamesInv, Free
  <2>3. Saved' = Saved
    BY <2>1, <2>2 DEF Saved, IInv, TypeOK
  <2> QED BY <1>1, <2>3, Stutter
<1>4. CASE Write(h) \/ WriteFails(h)
  <2>1. handler[h].at = "write" /\ UNCHANGED name
    BY <1>4 DEF Write, WriteFails
  <2>2. handler[h].fd # name.menu
    BY <2>1, WritesToTmp
  <2>3. PICK c : file' = [file EXCEPT ![handler[h].fd] = c]
    BY <1>4 DEF Write, WriteFails
  <2>4. Saved' = Saved
    BY <2>1, <2>2, <2>3 DEF Saved, IInv, TypeOK
  <2> QED BY <1>1, <2>4, Stutter
<1>5. CASE Rename(h)
  <2>1. /\ handler[h].at = "rename" /\ ~IsIdle(h)
        /\ name.tmp # NoFile /\ file[name.tmp] = Whole(entries)
    BY <1>5 DEF Rename, IsIdle, IInv, AloneInv, SoloInv, Carries
  <2>2. name' = [menu |-> name.tmp, tmp |-> NoFile] /\ UNCHANGED file
    BY <1>5, <2>1 DEF Rename
  <2>3. Saved' = entries
    BY <2>1, <2>2 DEF Saved, Whole
  <2>4. program = "up"
    BY <2>1 DEF IInv, NamesInv, AllIdle
  <2> QED BY <1>1, <2>3, <2>4 DEF Durable!Step, Durable!Next, Durable!Commit
<1> QED BY <1>2, <1>3, <1>4, <1>5 DEF Save

LEMMA StepRefines ==
  ASSUME IInv, Next, alone'
  PROVE  Durable!Step
<1>1. ASSUME NEW h \in Handlers, Update(h) PROVE Durable!Step
  <2>1. program = "up" /\ UNCHANGED <<program, name, file>>
    BY <1>1 DEF Update
  <2>2. \E id \in Ids, v \in Values \cup {NoEntry} : entries' = [entries EXCEPT ![id] = v]
    BY <1>1 DEF Update
  <2>3. Saved' = Saved
    BY <2>1 DEF Saved
  <2> QED BY <2>1, <2>2, <2>3 DEF Durable!Step, Durable!Next, Durable!Update
<1>2. ASSUME NEW h \in Handlers, Save(h) PROVE Durable!Step
  <2>1. alone
    BY <1>2 DEF Save, List, Open, OpenFails, Write, WriteFails, Rename, Finish
  <2> QED BY <1>2, <2>1, SaveRefines
<1>3. CASE Crash
  <2>1. program' # "up" /\ UNCHANGED <<name, file>>
    BY <1>3 DEF Crash
  <2>2. Saved' = Saved
    BY <2>1 DEF Saved
  <2> QED BY <2>1, <2>2 DEF Durable!Step, Durable!Next, Durable!Restart
<1>4. CASE Restart
  <2>1. UNCHANGED alone /\ UNCHANGED <<name, file>> /\ program = "down"
        /\ program' = (IF Readable THEN "up" ELSE "dead")
        /\ entries' = (IF Readable THEN Saved ELSE EmptyMenu)
    BY <1>4 DEF Restart
  <2>2. Readable
    BY <2>1 DEF IInv, AloneInv
  <2>3. Saved' = Saved
    BY <2>1 DEF Saved
  <2> QED BY <2>1, <2>2, <2>3 DEF Durable!Step
<1> QED BY <1>1, <1>2, <1>3, <1>4 DEF Next

\* As long as updates come one after the other, the store is the durable menu: each change
\* is saved as a whole or not at all, and a restart brings back what was saved last.
THEOREM Refinement == Spec => ImplementsDurableMenu
<1>1. Init => Durable!Init
  BY DEF Init, Saved, EmptyMenu, Durable!Init, Durable!Empty
<1>2. ASSUME IInv, [Next]_vars PROVE [alone' => Durable!Step]_vars
  BY <1>2, StepRefines, Zenon
<1> QED BY <1>1, <1>2, Invariance, PTL DEF Spec, ImplementsDurableMenu
=============================================================================
