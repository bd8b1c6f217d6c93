------------------------- MODULE DhcpManagerProofs -------------------------
(***************************************************************************)
(* Proofs about DhcpManager: the running flag is always backed by a server *)
(* and, where one handler serves one careful user at a time, ProxyDHCP is  *)
(* silent once it has been disabled; config.json agrees with what is in    *)
(* force once all requests have ended.                                     *)
(***************************************************************************)
EXTENDS DhcpManager, TLAPS

LEMMA NewIsUnused ==
  ASSUME NEW states \in [Servers -> ServeStates], \E i \in Servers : states[i] = "unused"
  PROVE  New(states) \in Servers /\ states[New(states)] = "unused"
BY DEF New

LEMMA RestartStates ==
  ASSUME Restart
  PROVE  /\ enable' => /\ server' \in Servers /\ serve'[server'] = "starting"
                       /\ \A i \in Servers : i # server' => serve'[i] = "unused"
         /\ ~enable' => server' = NoServer /\ \A i \in Servers : serve'[i] = "unused"
         /\ serve' \in [Servers -> ServeStates]
         /\ running' = enable'
<1>1. Unused \in [Servers -> ServeStates] /\ \A i \in Servers : Unused[i] = "unused"
  BY DEF Unused, ServeStates
<1>2. New(Unused) \in Servers
  BY <1>1, ServerAssumption, NewIsUnused
<1> QED BY <1>1, <1>2 DEF Restart, ServeStates

-----------------------------------------------------------------------------
(* The running flag.                                                       *)

BackedInv == TypeOK /\ RunningIsBacked

LEMMA InitBacked == Init => BackedInv
<1> SUFFICES ASSUME Init PROVE BackedInv
  OBVIOUS
<1>1. requests \in 0..MaxRequests /\ crashes \in 0..MaxCrashes
  BY BoundAssumption DEF Init
<1>2. serve \in [Servers -> ServeStates]
  BY DEF Init, Unused, ServeStates
<1>3. handler \in [Handlers -> HandlerStates] /\ image \in [Handlers -> BOOLEAN]
  BY DEF Init, NoneBusy, NoneMarshalled, HandlerStates
<1>5. temp \subseteq BOOLEAN /\ stored \subseteq BOOLEAN
  BY DEF Init
<1>4. RunningIsBacked
  BY DEF Init, RunningIsBacked
<1> QED BY <1>1, <1>2, <1>3, <1>4, <1>5 DEF Init, BackedInv, TypeOK

LEMMA StartBacked ==
  ASSUME BackedInv, Start
  PROVE  /\ running' \in BOOLEAN /\ server' \in Servers \cup {NoServer}
         /\ serve' \in [Servers -> ServeStates] /\ RunningIsBacked'
<1>1. CASE running /\ UNCHANGED <<manager, serve>>
  BY <1>1 DEF BackedInv, TypeOK, RunningIsBacked, manager
<1>2. CASE /\ \E i \in Servers : serve[i] = "unused"
           /\ server' = New(serve) /\ running' = TRUE
           /\ serve' = [serve EXCEPT ![New(serve)] = "starting"]
  <2>1. New(serve) \in Servers
    BY <1>2, NewIsUnused DEF BackedInv, TypeOK
  <2> QED BY <1>2, <2>1, ServerAssumption DEF BackedInv, TypeOK, RunningIsBacked, ServeStates
<1> QED BY <1>1, <1>2 DEF Start

LEMMA StopBacked ==
  ASSUME BackedInv, Stop
  PROVE  /\ running' \in BOOLEAN /\ server' \in Servers \cup {NoServer}
         /\ serve' \in [Servers -> ServeStates] /\ port' \in Servers \cup {NoServer}
         /\ RunningIsBacked'
<1>1. CASE ~running /\ UNCHANGED <<manager, serve, port>>
  BY <1>1 DEF BackedInv, TypeOK, RunningIsBacked, manager
<1>2. CASE running /\ StopServer(server) /\ server' = NoServer /\ running' = FALSE
  BY <1>2 DEF BackedInv, TypeOK, RunningIsBacked, StopServer, ServeStates
<1> QED BY <1>1, <1>2 DEF Stop

LEMMA ServeBacked ==
  ASSUME BackedInv, NEW i \in Servers, Serve(i)
  PROVE  BackedInv'
<1>1. CASE Listen(i) \/ PublishConn(i) \/ ReadError(i)
  <2>1. TypeOK'
    BY <1>1 DEF BackedInv, TypeOK, Listen, PublishConn, ReadError, manager, config, ServeStates
  <2>2. RunningIsBacked'
    BY <1>1 DEF BackedInv, TypeOK, RunningIsBacked, Listen, PublishConn, ReadError, manager,
                ServeStates
  <2> QED BY <2>1, <2>2 DEF BackedInv
<1>2. CASE ReportError(i)
  BY <1>2 DEF BackedInv, TypeOK, RunningIsBacked, ReportError, config, ServeStates
<1>3. CASE CollectSocket(i)
  BY <1>3 DEF BackedInv, TypeOK, RunningIsBacked, CollectSocket, manager, config, ServeStates
<1> QED BY <1>1, <1>2, <1>3 DEF Serve

LEMMA HandleBacked ==
  ASSUME BackedInv, NEW h \in Handlers, HandleConfig(h)
  PROVE  BackedInv'
<1>1. handler' \in [Handlers -> HandlerStates]
  <2>1. ASSUME NEW s \in HandlerStates, Goto(h, s) PROVE handler' \in [Handlers -> HandlerStates]
    BY <2>1 DEF Goto, BackedInv, TypeOK
  <2>2. {"idle", "save", "write", "fill", "rename", "apply", "restart", "start", "stop"}
          \subseteq HandlerStates
    BY DEF HandlerStates, Saving
  <2>3. \E s \in HandlerStates : Goto(h, s)
    BY <2>2 DEF HandleConfig, Request, Save, OpenTemp, FillTemp, RenameTemp, SaveFailed, Apply,
                ApplyStop, ApplyStart
  <2> QED BY <2>1, <2>3
<1>2. CASE \/ Request(h) \/ Save(h) \/ OpenTemp(h) \/ FillTemp(h) \/ RenameTemp(h)
           \/ SaveFailed(h) \/ Apply(h)
  <2>1. UNCHANGED <<program, running, server, serve, port, user, crashes>>
    BY <1>2 DEF Request, Save, OpenTemp, FillTemp, RenameTemp, SaveFailed, Apply, manager, config
  <2>2. /\ enable' \in BOOLEAN /\ saved' \in BOOLEAN
        /\ holder' \in Handlers \cup {NoHandler} /\ image' \in [Handlers -> BOOLEAN]
    BY <1>2 DEF Request, Save, OpenTemp, FillTemp, RenameTemp, SaveFailed, Apply, config,
                BackedInv, TypeOK
  <2>3. temp' \subseteq BOOLEAN /\ stored' \subseteq BOOLEAN
    BY <1>2 DEF Request, Save, OpenTemp, FillTemp, RenameTemp, SaveFailed, Apply, config,
                BackedInv, TypeOK
  <2>4. requests' \in 0..MaxRequests
    BY <1>2, BoundAssumption
       DEF Request, Save, OpenTemp, FillTemp, RenameTemp, SaveFailed, Apply, BackedInv, TypeOK
  <2> QED BY <1>1, <2>1, <2>2, <2>3, <2>4 DEF BackedInv, TypeOK, RunningIsBacked
<1>3. CASE ApplyStop(h)
  BY <1>1, <1>3, StopBacked DEF BackedInv, TypeOK, ApplyStop, config
<1>4. CASE ApplyStart(h)
  BY <1>1, <1>4, StartBacked DEF BackedInv, TypeOK, ApplyStart, config
<1> QED BY <1>2, <1>3, <1>4 DEF HandleConfig

LEMMA EndBacked ==
  ASSUME BackedInv, Crash \/ Restart
  PROVE  BackedInv'
<1>1. CASE Crash
  <2>1. crashes' \in 0..MaxCrashes
    BY <1>1, BoundAssumption DEF Crash, BackedInv, TypeOK
  <2>2. serve' \in [Servers -> ServeStates]
    BY <1>1 DEF Crash, Unused, ServeStates
  <2>3. handler' \in [Handlers -> HandlerStates] /\ image' \in [Handlers -> BOOLEAN]
    BY <1>1 DEF Crash, NoneBusy, NoneMarshalled, HandlerStates
  <2> QED BY <1>1, <2>1, <2>2, <2>3 DEF Crash, BackedInv, TypeOK, RunningIsBacked
<1>2. CASE Restart
  <2>1. enable' \in BOOLEAN /\ stored' \subseteq BOOLEAN
    BY <1>2 DEF Restart, Load, BackedInv, TypeOK
  <2>2. server' \in Servers \cup {NoServer} /\ RunningIsBacked'
    BY <1>2, <2>1, RestartStates, ServerAssumption DEF RunningIsBacked, ServeStates
  <2> QED BY <1>2, <2>1, <2>2, RestartStates DEF Restart, BackedInv, TypeOK
<1> QED BY <1>1, <1>2

\* Every variable keeps its type and the flag that the console shows is backed
\* by a server that has neither been stopped nor reported its failure, for any
\* number of handlers, servers and requests.
THEOREM RunningBacked == Spec => [](TypeOK /\ RunningIsBacked)
<1>1. Init => BackedInv
  BY InitBacked
<1>2. BackedInv /\ [Next]_vars => BackedInv'
  BY ServeBacked, HandleBacked, EndBacked
     DEF Next, vars, manager, config, BackedInv, TypeOK, RunningIsBacked
<1> QED BY <1>1, <1>2, PTL DEF Spec, BackedInv

-----------------------------------------------------------------------------
(* The configuration file.                                                 *)

Pending == \E h \in Handlers : handler[h] = "save"

\* The mutex of package config is held exactly while a handler writes; what it is about
\* to rename is what it has marshalled.  As long as no field was set that is still to be
\* saved, what is written, or was written last, is what is in force.
ConfigInv ==
  /\ program = "down" => \A h \in Handlers : handler[h] = "idle"
  /\ \A h \in Handlers : handler[h] \in Saving <=> holder = h
  /\ \A h \in Handlers : handler[h] = "rename" => temp = {image[h]}
  /\ ConfigStaysWhole
  /\ program = "up" /\ ~Pending =>
       IF holder = NoHandler THEN saved => stored = {enable} ELSE image[holder] = enable

LEMMA ConfigHandle ==
  ASSUME BackedInv, ConfigInv, NEW h \in Handlers, HandleConfig(h)
  PROVE  ConfigInv'
<1> USE ServerAssumption DEF BackedInv, TypeOK, ConfigInv, ConfigStaysWhole, Pending, Goto, Saving
<1>1. CASE Request(h)
  BY <1>1 DEF Request, config
<1>2. CASE Save(h)
  BY <1>2 DEF Save
<1>3. CASE OpenTemp(h)
  BY <1>3 DEF OpenTemp
<1>4. CASE FillTemp(h)
  BY <1>4 DEF FillTemp
<1>5. CASE RenameTemp(h)
  BY <1>5 DEF RenameTemp
<1>6. CASE SaveFailed(h)
  BY <1>6 DEF SaveFailed
<1>7. CASE Apply(h)
  BY <1>7 DEF Apply, config
<1>8. CASE ApplyStop(h)
  BY <1>8 DEF ApplyStop, config
<1>9. CASE ApplyStart(h)
  BY <1>9 DEF ApplyStart, config
<1> QED BY <1>1, <1>2, <1>3, <1>4, <1>5, <1>6, <1>7, <1>8, <1>9 DEF HandleConfig

LEMMA InvStep ==
  ASSUME BackedInv, ConfigInv, [Next]_vars
  PROVE  BackedInv' /\ ConfigInv'
<1>1. CASE UNCHANGED vars
  BY <1>1 DEF vars, manager, config, BackedInv, TypeOK, RunningIsBacked, ConfigInv,
              ConfigStaysWhole, Pending
<1>2. ASSUME NEW i \in Servers, Serve(i) PROVE BackedInv' /\ ConfigInv'
  <2>1. UNCHANGED <<program, enable, handler, config>>
    BY <1>2 DEF Serve, Listen, PublishConn, ReadError, ReportError, CollectSocket, config
  <2>2. ConfigInv'
    BY <2>1 DEF ConfigInv, ConfigStaysWhole, Pending, config
  <2> QED BY <1>2, <2>2, ServeBacked
<1>3. ASSUME NEW h \in Handlers, HandleConfig(h) PROVE BackedInv' /\ ConfigInv'
  BY <1>3, HandleBacked, ConfigHandle
<1>4. CASE Crash \/ Restart
  <2>1. ConfigInv'
    BY <1>4, ServerAssumption
       DEF Crash, Restart, Load, ConfigInv, ConfigStaysWhole, Pending, NoneBusy, Saving,
           BackedInv, TypeOK
  <2> QED BY <1>4, <2>1, EndBacked
<1> QED BY <1>1, <1>2, <1>3, <1>4 DEF Next

\* At every step of a save, where a crash or an error may end it, config.json holds a
\* whole configuration; and when all requests have ended, the last save with success, it is
\* the configuration in force, for any number of handlers that overlap in any way.
THEOREM QuietConfigSaved == Spec => [](ConfigStaysWhole /\ QuietConfigIsSaved)
<1> DEFINE Inv == BackedInv /\ ConfigInv
<1>1. Init => Inv
  BY InitBacked, ServerAssumption DEF Init, ConfigInv, ConfigStaysWhole, NoneBusy, Saving
<1>2. Inv /\ [Next]_vars => Inv'
  BY InvStep
<1>3. Inv => ConfigStaysWhole /\ QuietConfigIsSaved
  BY ServerAssumption
     DEF QuietConfigIsSaved, ConfigInv, Pending, Saving, BackedInv, TypeOK
<1> QED BY <1>1, <1>2, <1>3, PTL DEF Spec

-----------------------------------------------------------------------------
(* Disabling, for a careful user.                                          *)

Live(i) == serve[i] \in {"starting", "bound", "listening"}

\* No goroutine but that of the manager's server can still reset the flag or
\* answer; a request to enable finds nothing running.
CarefulInv ==
  /\ \A i \in Servers : Live(i) => running /\ server = i
  /\ running => \A i \in Servers : i # server => serve[i] \in {"unused", "exited"}
  /\ \A h \in Handlers : handler[h] \in {"restart", "start"} => enable
  /\ \A h \in Handlers : handler[h] = "stop" => ~enable
  /\ \A h \in Handlers : handler[h] # "idle" /\ enable =>
       ~running /\ \A i \in Servers : serve[i] \in {"unused", "exited"}
  /\ \A h \in Handlers : handler[h] # "idle" /\ ~enable =>
       \A i \in Servers : serve[i] \notin {"starting", "bound"}
  /\ (\A h \in Handlers : handler[h] = "idle") /\ ~enable => ~running

LEMMA CarefulServe ==
  ASSUME BackedInv, CarefulInv, NEW i \in Servers, Serve(i)
  PROVE  CarefulInv'
<1> USE DEF BackedInv, TypeOK, CarefulInv, Live
<1>1. CASE Listen(i)
  BY <1>1 DEF Listen, manager
<1>2. CASE PublishConn(i)
  BY <1>2 DEF PublishConn, manager
<1>3. CASE ReadError(i)
  BY <1>3 DEF ReadError, manager
<1>4. CASE ReportError(i)
  BY <1>4 DEF ReportError
<1>5. CASE CollectSocket(i)
  BY <1>5 DEF CollectSocket, manager
<1> QED BY <1>1, <1>2, <1>3, <1>4, <1>5 DEF Serve

LEMMA CarefulHandle ==
  ASSUME \A g, h \in Handlers : g = h, ~SaveFails,
         BackedInv, CarefulInv, user = "careful", NEW h \in Handlers, HandleConfig(h)
  PROVE  CarefulInv'
<1> USE DEF BackedInv, TypeOK, CarefulInv, Live
<1>1. CASE Request(h)
  BY <1>1 DEF Request, Settled, Goto, manager, RunningIsBacked
<1>2. CASE Save(h) \/ OpenTemp(h) \/ FillTemp(h) \/ RenameTemp(h) \/ SaveFailed(h)
  BY <1>2 DEF Save, OpenTemp, FillTemp, RenameTemp, SaveFailed, Saving, Goto, manager
<1>3. CASE Apply(h)
  BY <1>3 DEF Apply, Goto, manager
<1>4. CASE ApplyStop(h)
  BY <1>4 DEF ApplyStop, Stop, StopServer, Goto, manager, RunningIsBacked
<1>5. CASE ApplyStart(h)
  <2>1. handler[h] = "start" /\ enable /\ ~running
    BY <1>5 DEF ApplyStart
  <2>2. /\ \E i \in Servers : serve[i] = "unused"
        /\ server' = New(serve) /\ running' = TRUE
        /\ serve' = [serve EXCEPT ![New(serve)] = "starting"]
    BY <1>5, <2>1 DEF ApplyStart, Start
  <2>3. New(serve) \in Servers
    BY <2>2, NewIsUnused
  <2> QED BY <1>5, <2>1, <2>2, <2>3 DEF ApplyStart, Goto
<1> QED BY <1>1, <1>2, <1>3, <1>4, <1>5 DEF HandleConfig

LEMMA CarefulEnd ==
  ASSUME BackedInv, CarefulInv, Crash \/ (Restart /\ \A h \in Handlers : handler[h] = "idle")
  PROVE  CarefulInv'
<1>1. CASE Crash
  BY <1>1 DEF Crash, CarefulInv, Live, Unused, NoneBusy
<1>2. CASE Restart /\ \A h \in Handlers : handler[h] = "idle"
  <2>1. UNCHANGED handler
    BY <1>2 DEF Restart
  <2> QED BY <1>2, <2>1, RestartStates DEF CarefulInv, Live
<1> QED BY <1>1, <1>2

\* One careful user at one handler: once ProxyDHCP is disabled and everything has
\* settled, no server answers.
THEOREM CarefulDisable ==
  ASSUME \A g, h \in Handlers : g = h, ~SaveFails
  PROVE  Spec => []CarefulDisableWorks
<1> DEFINE Inv == BackedInv /\ ConfigInv /\ (user = "careful" => CarefulInv)
<1>1. Init => Inv
  <2> SUFFICES ASSUME Init PROVE Inv
    OBVIOUS
  <2>1. CarefulInv
    BY DEF Init, CarefulInv, Live, Unused, NoneBusy
  <2>2. ConfigInv
    BY ServerAssumption DEF Init, ConfigInv, ConfigStaysWhole, NoneBusy, Saving
  <2> QED BY <2>1, <2>2, InitBacked
<1>2. Inv /\ [Next]_vars => Inv'
  <2> SUFFICES ASSUME Inv, [Next]_vars PROVE Inv'
    OBVIOUS
  <2>1. user' = user
    BY DEF Next, vars, Serve, HandleConfig, Listen, PublishConn, ReadError, ReportError,
           CollectSocket, Request, Save, OpenTemp, FillTemp, RenameTemp, SaveFailed, Apply,
           ApplyStop, ApplyStart,
           Crash, Restart
  <2>2. BackedInv' /\ ConfigInv'
    BY InvStep
  <2>3. CASE UNCHANGED vars
    BY <2>2, <2>3 DEF vars, manager, CarefulInv, Live
  <2>4. ASSUME NEW i \in Servers, Serve(i) PROVE Inv'
    BY <2>1, <2>2, <2>4, CarefulServe
  <2>5. ASSUME NEW h \in Handlers, HandleConfig(h) PROVE Inv'
    BY <2>1, <2>2, <2>5, CarefulHandle
  <2>6. CASE Crash \/ Restart
    <3>1. Restart => \A h \in Handlers : handler[h] = "idle"
      BY DEF Restart, ConfigInv
    <3> QED BY <2>1, <2>2, <2>6, <3>1, CarefulEnd
  <2> QED BY <2>3, <2>4, <2>5, <2>6 DEF Next
<1>3. Inv => CarefulDisableWorks
  BY DEF CarefulDisableWorks, DisabledIsSilent, Settled, CarefulInv, Live
<1> QED BY <1>1, <1>2, <1>3, PTL DEF Spec
=============================================================================
