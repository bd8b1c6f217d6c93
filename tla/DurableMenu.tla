---------------------------- MODULE DurableMenu ----------------------------
(***************************************************************************)
(* What the menu store promises a single administrator: the menu changes   *)
(* one entry at a time, each change is either saved as a whole or not at   *)
(* all, and a restart brings back the menu that was saved last.            *)
(***************************************************************************)
CONSTANTS
  Ids,     \* menu entry identifiers
  Values,  \* what an entry may hold
  NoEntry  \* no entry under this identifier

VARIABLES
  menu,  \* the menu the server shows
  saved  \* the menu a restart would bring back

Empty == [id \in Ids |-> NoEntry]

Init == menu = Empty /\ saved = Empty

Update ==
  /\ \E id \in Ids, v \in Values \cup {NoEntry} : menu' = [menu EXCEPT ![id] = v]
  /\ UNCHANGED saved

Commit == saved' = menu /\ UNCHANGED menu

Restart == menu' = saved /\ UNCHANGED saved

Next == Update \/ Commit \/ Restart

Step == Next \/ UNCHANGED <<menu, saved>>

Spec == Init /\ [][Next]_<<menu, saved>>
=============================================================================
