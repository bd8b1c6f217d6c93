---------------------------- MODULE DhcpManager ----------------------------
(***************************************************************************)
(* Switching the built-in ProxyDHCP on and off while the program runs, and *)
(* keeping the switch over restarts (internal/proxydhcp/manager.go, Serve  *)
(* and Stop of proxydhcp.go, internal/config/config.go, and the POST half  *)
(* of handleConfig, internal/web/api.go).                                  *)
(*                                                                         *)
(* Handlers serve POST /api/config, each request setting the flag          *)
(* EnableProxyDHCP, saving the configuration and calling Apply.  Start and *)
(* Stop hold the manager's mutex and are atomic here; Apply is not, and    *)
(* the goroutine of each Server runs Serve without the mutex.  The flag    *)
(* stands for all fields of the configuration: they are set without a      *)
(* lock and saved under the one of package config.                         *)
(***************************************************************************)
EXTENDS Integers, FiniteSets

CONSTANTS
  Servers,      \* Server values, a new one for each Start that starts (bound)
  NoServer,     \* nil
  Handlers,     \* HTTP handlers of POST /api/config that may run at once
  MaxRequests,  \* bound on the requests served
  ListenFails,  \* whether udp/67 may be refused (no privilege, taken by others)
  ReadFails,    \* whether ReadFromUDP may fail on an open socket
  SaveFails,    \* whether config.Save may fail
  LoadFails,    \* whether config.Load may fail to read a config.json that is there
  MaxCrashes,   \* bound on the crashes (and other ends) of the program
  NoHandler,    \* nobody holds config.mu
  Users         \* the kinds of user considered, a subset of UserKinds

\* A hasty user saves at any moment; a patient one only when nothing is under
\* way; a careful one is patient and saves only to change EnableProxyDHCP.
UserKinds == {"hasty", "patient", "careful"}

ASSUME ServerAssumption ==
  NoServer \notin Servers /\ Servers # {} /\ NoHandler \notin Handlers
ASSUME BoundAssumption ==
  /\ IsFiniteSet(Servers) /\ MaxRequests \in Nat /\ MaxCrashes \in Nat
  /\ Cardinality(Servers) > MaxRequests
  /\ {ListenFails, ReadFails, SaveFails, LoadFails} \subseteq BOOLEAN
  /\ Users \subseteq UserKinds

VARIABLES
  program,   \* "up" or "down"
  enable,    \* cfg.EnableProxyDHCP, read and written without a lock
  running,   \* Manager.running
  server,    \* Manager.server
  serve,     \* per server: where the goroutine that runs Serve is
  port,      \* the server whose socket holds udp/67, or NoServer
  handler,   \* per handler: where it is in handleConfig and Apply
  holder,    \* the handler that holds config.mu, or NoHandler
  image,     \* per handler: the flag in the JSON it writes
  temp,      \* the flags in config.json.tmp: none while it is missing or cut
  stored,    \* the flags in config.json, likewise
  saved,     \* the save that ended last, since the start, ended well
  user,      \* the kind of user at the console
  requests,  \* how many more requests will arrive
  crashes    \* how many more crashes there will be

manager == <<running, server>>
config == <<holder, image, temp, stored, saved>>
vars == <<program, enable, manager, serve, port, handler, config, user, requests, crashes>>

\* "starting": before ListenUDP; "bound": the socket is open but s.conn does not
\* show it yet (the write races with Stop's read); "listening": in the loop;
\* "error": Serve has returned an error and waits for the mutex.
ServeStates == {"unused", "starting", "bound", "listening", "error", "exited"}
\* "save": waits for config.mu; "write": holds it and has marshalled the fields;
\* "fill": has emptied config.json.tmp; "rename": has written it.
Saving == {"write", "fill", "rename"}
HandlerStates == {"idle", "save", "apply", "restart", "start", "stop"} \cup Saving

-----------------------------------------------------------------------------
(* Manager.Start and Manager.Stop, with the mutex held.                    *)

New(states) == CHOOSE i \in Servers : states[i] = "unused"

Start ==
  \/ /\ running
     /\ UNCHANGED <<manager, serve>>
  \/ /\ ~running
     /\ \E i \in Servers : serve[i] = "unused"
     /\ server' = New(serve) /\ running' = TRUE
     /\ serve' = [serve EXCEPT ![New(serve)] = "starting"]

StopServerLeavesOpen(i) == UNCHANGED <<serve, port>>

\* Server.Stop closes the socket it can see; closing frees the port and makes
\* ReadFromUDP return an error.
StopServer(i) ==
  \/ /\ serve[i] = "listening"
     /\ port' = NoServer
     /\ serve' = [serve EXCEPT ![i] = "error"]
  \/ /\ serve[i] = "error" /\ port' = (IF port = i THEN NoServer ELSE port)
     /\ UNCHANGED serve
  \/ /\ serve[i] \in {"starting", "bound"}
     /\ UNCHANGED <<serve, port>>

StopForgetsFlag ==
  \/ /\ ~running
     /\ UNCHANGED <<manager, serve, port>>
  \/ /\ running
     /\ StopServer(server)
     /\ server' = NoServer /\ UNCHANGED running

Stop ==
  \/ /\ ~running
     /\ UNCHANGED <<manager, serve, port>>
  \/ /\ running
     /\ StopServer(server)
     /\ server' = NoServer /\ running' = FALSE

-----------------------------------------------------------------------------
(* The goroutine of a server.                                              *)

Listen(i) ==
  /\ serve[i] = "starting"
  /\ \/ /\ port = NoServer
        /\ port' = i
        /\ serve' = [serve EXCEPT ![i] = "bound"]
     \/ /\ ListenFails \/ port # NoServer
        /\ serve' = [serve EXCEPT ![i] = "error"]
        /\ UNCHANGED port
  /\ UNCHANGED <<program, enable, manager, handler, config, user, requests, crashes>>

PublishConn(i) ==
  /\ serve[i] = "bound"
  /\ serve' = [serve EXCEPT ![i] = "listening"]
  /\ UNCHANGED <<program, enable, manager, port, handler, config, user, requests, crashes>>

\* Serve returns without closing its socket.
ReadError(i) ==
  /\ ReadFails /\ serve[i] = "listening"
  /\ serve' = [serve EXCEPT ![i] = "error"]
  /\ UNCHANGED <<program, enable, manager, port, handler, config, user, requests, crashes>>

ReportErrorNever(i) ==
  /\ serve[i] = "error"
  /\ serve' = [serve EXCEPT ![i] = "exited"]
  /\ UNCHANGED <<program, enable, manager, port, handler, config, user, requests, crashes>>

\* The function literal in Start: whichever server the manager has by now.
ReportError(i) ==
  /\ serve[i] = "error"
  /\ serve' = [serve EXCEPT ![i] = "exited"]
  /\ running' = FALSE
  /\ UNCHANGED <<program, enable, server, port, handler, config, user, requests, crashes>>

\* The runtime closes a socket nothing refers to any more.
CollectSocket(i) ==
  /\ serve[i] = "exited" /\ port = i /\ server # i
  /\ port' = NoServer
  /\ UNCHANGED <<program, enable, manager, serve, handler, config, user, requests, crashes>>

-----------------------------------------------------------------------------
(* handleConfig and Manager.Apply.                                         *)

Goto(h, state) == handler' = [handler EXCEPT ![h] = state]

Settled ==
  /\ \A h \in Handlers : handler[h] = "idle"
  /\ \A i \in Servers : serve[i] \in {"unused", "listening", "exited"}

Request(h) ==
  /\ program = "up" /\ handler[h] = "idle" /\ requests > 0
  /\ requests' = requests - 1
  /\ enable' \in BOOLEAN
  /\ user # "hasty" => Settled
  /\ user = "careful" => enable' # enable
  /\ Goto(h, "save")
  /\ UNCHANGED <<program, manager, serve, port, config, user, crashes>>

SaveWithoutLock(h) ==
  /\ handler[h] = "save"
  /\ image' = [image EXCEPT ![h] = enable]
  /\ Goto(h, "write")
  /\ UNCHANGED <<program, enable, manager, serve, port, holder, temp, stored, saved, user,
                 requests, crashes>>

\* config.Save: take the mutex and marshal the fields as they are by now.
Save(h) ==
  /\ handler[h] = "save" /\ holder = NoHandler
  /\ holder' = h /\ image' = [image EXCEPT ![h] = enable]
  /\ Goto(h, "write")
  /\ UNCHANGED <<program, enable, manager, serve, port, temp, stored, saved, user, requests,
                 crashes>>

OpenInPlace(h) ==
  /\ handler[h] = "write"
  /\ temp' = {} /\ stored' = {}
  /\ Goto(h, "fill")
  /\ UNCHANGED <<program, enable, manager, serve, port, holder, image, saved, user, requests,
                 crashes>>

\* os.WriteFile opens config.json.tmp, which the mutex keeps to this handler, and
\* empties it, ...
OpenTemp(h) ==
  /\ handler[h] = "write"
  /\ temp' = {}
  /\ Goto(h, "fill")
  /\ UNCHANGED <<program, enable, manager, serve, port, holder, image, stored, saved, user,
                 requests, crashes>>

\* ... and writes it.
FillTemp(h) ==
  /\ handler[h] = "fill"
  /\ temp' = {image[h]}
  /\ Goto(h, "rename")
  /\ UNCHANGED <<program, enable, manager, serve, port, holder, image, stored, saved, user,
                 requests, crashes>>

RenameTemp(h) ==
  /\ handler[h] = "rename"
  /\ stored' = temp /\ temp' = {} /\ saved' = TRUE
  /\ holder' = NoHandler
  /\ Goto(h, "apply")
  /\ UNCHANGED <<program, enable, manager, serve, port, image, user, requests, crashes>>

\* When one of the steps fails the handler answers 500 and does not apply.
SaveFailed(h) ==
  /\ SaveFails /\ handler[h] \in Saving
  /\ saved' = FALSE /\ holder' = NoHandler
  /\ Goto(h, "idle")
  /\ UNCHANGED <<program, enable, manager, serve, port, image, temp, stored, user, requests,
                 crashes>>

Apply(h) ==
  /\ handler[h] = "apply"
  /\ Goto(h, IF enable THEN "restart" ELSE "stop")
  /\ UNCHANGED <<program, enable, manager, serve, port, config, user, requests, crashes>>

ApplyStopOnly(h) ==
  /\ handler[h] \in {"restart", "stop"}
  /\ Stop
  /\ Goto(h, "idle")
  /\ UNCHANGED <<program, enable, config, user, requests, crashes>>

ApplyStop(h) ==
  /\ handler[h] \in {"restart", "stop"}
  /\ Stop
  /\ Goto(h, IF handler[h] = "restart" THEN "start" ELSE "idle")
  /\ UNCHANGED <<program, enable, config, user, requests, crashes>>

ApplyStart(h) ==
  /\ handler[h] = "start"
  /\ Start
  /\ Goto(h, "idle")
  /\ UNCHANGED <<program, enable, port, config, user, requests, crashes>>

-----------------------------------------------------------------------------
(* The end of the program and its start.                                   *)

Unused == [i \in Servers |-> "unused"]
NoneBusy == [h \in Handlers |-> "idle"]
NoneMarshalled == [h \in Handlers |-> FALSE]

\* Sockets and memory are gone, the files stay as they are.
Crash ==
  /\ program = "up" /\ crashes > 0
  /\ crashes' = crashes - 1
  /\ program' = "down"
  /\ running' = FALSE /\ server' = NoServer
  /\ serve' = Unused /\ port' = NoServer
  /\ handler' = NoneBusy /\ holder' = NoHandler /\ image' = NoneMarshalled
  /\ UNCHANGED <<enable, temp, stored, saved, user, requests>>

\* config.Load: what config.json holds, and an error that ends the program when it is
\* cut; a config.json that cannot be read is replaced by the defaults, in which
\* ProxyDHCP is off.
Load ==
  \/ enable' \in stored /\ UNCHANGED stored
  \/ LoadFails /\ enable' = FALSE /\ stored' = {FALSE}

\* main: Load, then Start when the configuration says so, then the HTTP server.
Restart ==
  /\ program = "down"
  /\ program' = "up"
  /\ Load
  /\ running' = enable'
  /\ server' = IF enable' THEN New(Unused) ELSE NoServer
  /\ serve' = IF enable' THEN [Unused EXCEPT ![New(Unused)] = "starting"] ELSE Unused
  /\ saved' = TRUE
  /\ UNCHANGED <<port, handler, holder, image, temp, user, requests, crashes>>

-----------------------------------------------------------------------------
Init ==
  /\ program = "down"
  /\ enable = FALSE /\ image = NoneMarshalled /\ saved = TRUE
  /\ temp = {} /\ stored \in {{TRUE}, {FALSE}}
  /\ running = FALSE /\ server = NoServer
  /\ serve = Unused /\ port = NoServer
  /\ handler = NoneBusy /\ holder = NoHandler
  /\ user \in Users
  /\ requests = MaxRequests /\ crashes = MaxCrashes

Serve(i) ==
  \/ Listen(i) \/ PublishConn(i) \/ ReadError(i) \/ ReportError(i) \/ CollectSocket(i)

HandleConfig(h) ==
  \/ Request(h) \/ Save(h) \/ OpenTemp(h) \/ FillTemp(h) \/ RenameTemp(h) \/ SaveFailed(h)
  \/ Apply(h) \/ ApplyStop(h) \/ ApplyStart(h)

Next ==
  \/ \E i \in Servers : Serve(i)
  \/ \E h \in Handlers : HandleConfig(h)
  \/ Crash \/ Restart

Spec == Init /\ [][Next]_vars

\* Goroutines and handlers that can go on do so (the Go scheduler is fair and the
\* mutexes are starvation free) and somebody restarts a program that has ended;
\* requests, read errors and crashes need not happen.
Fairness ==
  /\ \A i \in Servers :
       WF_vars(Listen(i)) /\ WF_vars(PublishConn(i)) /\ WF_vars(ReportError(i))
  /\ \A h \in Handlers :
       /\ SF_vars(Save(h))
       /\ WF_vars(OpenTemp(h)) /\ WF_vars(FillTemp(h)) /\ WF_vars(RenameTemp(h))
       /\ WF_vars(Apply(h))
       /\ WF_vars(ApplyStop(h)) /\ WF_vars(ApplyStart(h))
  /\ WF_vars(Restart)

FairSpec == Spec /\ Fairness

-----------------------------------------------------------------------------
(* Properties.                                                             *)

TypeOK ==
  /\ program \in {"up", "down"}
  /\ enable \in BOOLEAN /\ running \in BOOLEAN
  /\ server \in Servers \cup {NoServer}
  /\ serve \in [Servers -> ServeStates]
  /\ port \in Servers \cup {NoServer}
  /\ handler \in [Handlers -> HandlerStates]
  /\ holder \in Handlers \cup {NoHandler}
  /\ image \in [Handlers -> BOOLEAN] /\ saved \in BOOLEAN
  /\ temp \subseteq BOOLEAN /\ stored \subseteq BOOLEAN
  /\ user \in Users
  /\ requests \in 0..MaxRequests /\ crashes \in 0..MaxCrashes

\* The flag the console shows is backed: while it says running, the manager holds
\* a server that has not been stopped and whose failure has not been reported.
RunningIsBacked ==
  running => server # NoServer /\ serve[server] \in ServeStates \ {"unused", "exited"}

\* A failure of the server the manager holds (the port is taken, the privilege is
\* missing) is reported: the flag does not stay up for a server that has failed.
FailureReported ==
  \A i \in Servers :
    serve[i] = "error" /\ server = i ~> ~(running /\ server = i)

\* However requests overlap, when all of them have ended and the last save to end
\* was a success, a restart brings back the configuration that is in force.
QuietConfigIsSaved ==
  program = "up" /\ (\A h \in Handlers : handler[h] = "idle") /\ saved =>
    stored = {enable}

\* A crash or an error at any step of a save leaves a config.json that holds one
\* configuration: the program starts again.
ConfigStaysWhole == \E b \in BOOLEAN : stored = {b}

\* Where the port can be had and requests come one after the other, a
\* configuration that stays enabled is served, however often it was switched and
\* the program was started.
EnabledIsServed ==
  <>[](enable /\ \A h \in Handlers : handler[h] = "idle")
    => <>[](\E i \in Servers : serve[i] = "listening")

\* Where nothing is under way and ProxyDHCP is disabled, no server answers.
DisabledIsSilent ==
  Settled /\ ~enable => \A i \in Servers : serve[i] # "listening"

\* It is so for a user who only switches, and waits between two switches.
CarefulDisableWorks == user = "careful" => DisabledIsSilent
=============================================================================
