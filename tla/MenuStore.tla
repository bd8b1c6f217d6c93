----------------------------- MODULE MenuStore -----------------------------
(***************************************************************************)
(* The menu store (internal/menu/menu.go) under the handlers that update   *)
(* it, with the directory that holds menu.json, and crashes of the program.*)
(*                                                                         *)
(* Put and Delete change the map with the mutex held and save after giving *)
(* it back: save copies the map with the read lock held, then writes       *)
(* menu.json.tmp and renames it, with no lock at all.  Files are modelled  *)
(* as the operating system keeps them: names point at inodes, a handler    *)
(* that has opened a file keeps its inode whatever becomes of the name.    *)
(* A crash loses the program's state; the file system survives it.         *)
(***************************************************************************)
EXTENDS Integers, FiniteSets

CONSTANTS
  Ids, Values, NoEntry,  \* see DurableMenu
  Handlers,     \* HTTP handlers that update the menu
  Inodes, NoFile,
  MaxUpdates,   \* bound on the updates
  MaxCrashes,   \* bound on the crashes
  DiskFails,    \* whether opening or writing the file may fail
  LoadFails     \* whether New may fail to read a menu.json that is there

ASSUME MenuAssumption == NoEntry \notin Values /\ NoFile \notin Inodes
ASSUME BoundAssumption ==
  /\ IsFiniteSet(Handlers) /\ IsFiniteSet(Inodes) /\ IsFiniteSet(Ids)
  /\ Cardinality(Inodes) >= Cardinality(Handlers) + 2
  /\ MaxUpdates \in Nat /\ MaxCrashes \in Nat
  /\ DiskFails \in BOOLEAN /\ LoadFails \in BOOLEAN

VARIABLES
  program,  \* "up", "down" or "dead" (New refused the file: log.Fatalf)
  entries,  \* Store.entries
  name,     \* the directory: the inodes of menu.json and menu.json.tmp
  file,     \* per inode: its contents
  handler,  \* per handler: where it is, the menu it saves, the inode it has open
  solo,     \* per handler: no other update was under way during its own
  outcome,  \* how the update that ended last ended
  allOk,    \* no update has been answered with an error since the start
  alone,    \* so far no two updates were under way at once and New could read its file
  updates, crashes  \* what is left of the two bounds

vars == <<program, entries, name, file, handler, solo, outcome, allOk, alone, updates,
          crashes>>

Menus == [Ids -> Values \cup {NoEntry}]
EmptyMenu == [id \in Ids |-> NoEntry]
Size(menu) == Cardinality({id \in Ids : menu[id] # NoEntry}) + 1

\* The contents of a file: a whole menu, or bytes that are not one ("torn"; a
\* file of size 0 is one of these).
Whole(menu) == [whole |-> TRUE, menu |-> menu, size |-> Size(menu)]
Torn(n) == [whole |-> FALSE, menu |-> EmptyMenu, size |-> n]

\* One write of a menu at the start of a file: what was longer sticks out.
Overwrite(old, menu) == IF Size(menu) >= old.size THEN Whole(menu) ELSE Torn(old.size)

\* Only the first n units of a menu are written.
Partial(old, n) == IF n = 0 THEN old ELSE Torn(IF n > old.size THEN n ELSE old.size)

Idle == [at |-> "idle", list |-> EmptyMenu, fd |-> NoFile]
Active == {h \in Handlers : handler[h].at # "idle"}
Free(i) == i \notin {name.menu, name.tmp} /\ \A h \in Handlers : handler[h].fd # i

\* What New reads from menu.json.
Readable == name.menu # NoFile => file[name.menu].whole
Saved == IF name.menu = NoFile THEN EmptyMenu ELSE file[name.menu].menu

-----------------------------------------------------------------------------
\* Put and Delete: the change of the map.
Update(h) ==
  /\ program = "up" /\ handler[h].at = "idle" /\ updates > 0
  /\ updates' = updates - 1
  /\ \E id \in Ids, v \in Values \cup {NoEntry} : entries' = [entries EXCEPT ![id] = v]
  /\ handler' = [handler EXCEPT ![h].at = "list"]
  /\ solo' = [g \in Handlers |-> g = h /\ Active = {}]
  /\ outcome' = "none"
  /\ alone' = (alone /\ Active = {})
  /\ UNCHANGED <<program, name, file, allOk, crashes>>

\* save: the copy of the map.
List(h) ==
  /\ handler[h].at = "list"
  /\ handler' = [handler EXCEPT ![h] = [@ EXCEPT !.at = "open", !.list = entries]]
  /\ UNCHANGED <<program, entries, name, file, solo, outcome, allOk, alone, updates, crashes>>

Finish(h, result) ==
  /\ handler' = [handler EXCEPT ![h] = Idle]
  /\ outcome' = IF solo[h] THEN result ELSE "contended"
  /\ allOk' = (allOk /\ result = "ok")
  /\ UNCHANGED <<program, entries, solo, alone, updates, crashes>>

\* O_TRUNC: what the file held is gone.
OpenedUntruncated(old) == old
Opened(old) == Torn(0)

\* os.WriteFile(tmp): open with O_CREATE and O_TRUNC.
Open(h) ==
  /\ handler[h].at = "open"
  /\ \E i \in Inodes :
       /\ IF name.tmp = NoFile THEN Free(i) ELSE i = name.tmp
       /\ name' = [name EXCEPT !.tmp = i]
       /\ file' = [file EXCEPT ![i] = Opened(@)]
       /\ handler' = [handler EXCEPT ![h] = [@ EXCEPT !.at = "write", !.fd = i]]
  /\ UNCHANGED <<program, entries, solo, outcome, allOk, alone, updates, crashes>>

OpenFails(h) ==
  /\ handler[h].at = "open" /\ DiskFails
  /\ Finish(h, "disk error")
  /\ UNCHANGED <<name, file>>

\* os.WriteFile(tmp): the write and the close.
Write(h) ==
  /\ handler[h].at = "write"
  /\ LET i == handler[h].fd
     IN  file' = [file EXCEPT ![i] = Overwrite(@, handler[h].list)]
  /\ handler' = [handler EXCEPT ![h] = [@ EXCEPT !.at = "rename", !.fd = NoFile]]
  /\ UNCHANGED <<program, entries, name, solo, outcome, allOk, alone, updates, crashes>>

WriteFailsUnnoticed(h) ==
  /\ handler[h].at = "write" /\ DiskFails
  /\ LET i == handler[h].fd
     IN  \E n \in 0..(Size(handler[h].list) - 1) : file' = [file EXCEPT ![i] = Partial(@, n)]
  /\ handler' = [handler EXCEPT ![h] = [@ EXCEPT !.at = "rename", !.fd = NoFile]]
  /\ UNCHANGED <<program, entries, name, solo, outcome, allOk, alone, updates, crashes>>

\* The disk is full: part of the menu is written.
WriteFails(h) ==
  /\ handler[h].at = "write" /\ DiskFails
  /\ LET i == handler[h].fd
     IN  \E n \in 0..(Size(handler[h].list) - 1) : file' = [file EXCEPT ![i] = Partial(@, n)]
  /\ Finish(h, "disk error")
  /\ UNCHANGED name

\* os.Rename(tmp, path) moves whatever inode the name tmp points at by now.
Rename(h) ==
  /\ handler[h].at = "rename"
  /\ \/ /\ name.tmp # NoFile
        /\ name' = [menu |-> name.tmp, tmp |-> NoFile]
        /\ Finish(h, "ok")
     \/ /\ name.tmp = NoFile
        /\ Finish(h, "tmp gone")
        /\ UNCHANGED name
  /\ UNCHANGED file

Crash ==
  /\ program = "up" /\ crashes > 0
  /\ crashes' = crashes - 1
  /\ program' = "down"
  /\ entries' = EmptyMenu
  /\ handler' = [h \in Handlers |-> Idle]
  /\ outcome' = "none" /\ allOk' = TRUE
  /\ UNCHANGED <<name, file, solo, alone, updates>>

\* New, called by main: a menu that cannot be parsed ends the program, a file that
\* cannot be read counts as no menu.
Restart ==
  /\ program = "down"
  /\ \/ /\ program' = IF Readable THEN "up" ELSE "dead"
        /\ entries' = IF Readable THEN Saved ELSE EmptyMenu
        /\ UNCHANGED alone
     \/ /\ LoadFails /\ name.menu # NoFile
        /\ program' = "up"
        /\ entries' = EmptyMenu
        /\ alone' = FALSE
  /\ UNCHANGED <<name, file, handler, solo, outcome, allOk, updates, crashes>>

-----------------------------------------------------------------------------
Init ==
  /\ program = "down"
  /\ entries = EmptyMenu
  /\ name = [menu |-> NoFile, tmp |-> NoFile]
  /\ file = [i \in Inodes |-> Torn(0)]
  /\ handler = [h \in Handlers |-> Idle]
  /\ solo = [h \in Handlers |-> FALSE]
  /\ outcome = "none" /\ allOk = TRUE /\ alone = TRUE
  /\ updates = MaxUpdates /\ crashes = MaxCrashes

Save(h) ==
  List(h) \/ Open(h) \/ OpenFails(h) \/ Write(h) \/ WriteFails(h) \/ Rename(h)

Next == (\E h \in Handlers : Update(h) \/ Save(h)) \/ Crash \/ Restart

Spec == Init /\ [][Next]_vars

-----------------------------------------------------------------------------
(* Properties.                                                             *)

TypeOK ==
  /\ program \in {"up", "down", "dead"}
  /\ entries \in Menus
  /\ name \in [menu : Inodes \cup {NoFile}, tmp : Inodes \cup {NoFile}]
  /\ file \in [Inodes -> [whole : BOOLEAN, menu : Menus, size : 0..(Cardinality(Ids) + 1)]]
  /\ handler \in [Handlers -> [at : {"idle", "list", "open", "write", "rename"},
                              list : Menus, fd : Inodes \cup {NoFile}]]
  /\ solo \in [Handlers -> BOOLEAN]
  /\ outcome \in {"none", "ok", "disk error", "tmp gone", "contended"}
  /\ allOk \in BOOLEAN /\ alone \in BOOLEAN
  /\ updates \in 0..MaxUpdates /\ crashes \in 0..MaxCrashes

\* An update that had the store to itself and was answered with success is on
\* disk, whatever earlier updates and crashes have left there; and only the disk
\* can make it fail.
SoloUpdateIsDurable ==
  /\ outcome = "ok" => Readable /\ Saved = entries
  /\ outcome # "tmp gone"

\* As long as updates have come one after the other, through crashes at any point
\* and failing disks, menu.json can be read back and the program comes up again.
AlwaysRestarts == alone => program # "dead" /\ Readable

\* ... and every step is one of the abstract durable menu.
Durable == INSTANCE DurableMenu
             WITH menu <- IF program = "up" THEN entries ELSE Saved, saved <- Saved
ImplementsDurableMenu == Durable!Init /\ [][alone' => Durable!Step]_vars

\* Where nothing is under way and every update was answered with success, a
\* restart would bring back the menu the server shows.
AcknowledgedIsSaved ==
  program = "up" /\ Active = {} /\ allOk => Readable /\ Saved = entries
=============================================================================
