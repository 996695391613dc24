---------------------------- MODULE GatewayServer ----------------------------
(***************************************************************************)
(* The lifecycle of the local gateway: start() and stop() of               *)
(* createGatewayServer (gateway/runtime/server.js), over the Node http     *)
(* servers they create and the sockets of the clients.                     *)
(*                                                                         *)
(* Both functions are asynchronous and nothing serialises their callers:   *)
(* a call may arrive while an earlier one waits for its listen callback or *)
(* for the server to close.  Every start() that is accepted creates a new  *)
(* http server; the closure keeps one reference, one state and one set of  *)
(* sockets for all of them.                                                *)
(*                                                                         *)
(* Node is modelled as the code uses it: listen() settles later, with a    *)
(* listening server or an error; close() stops a listening server from     *)
(* accepting and emits 'close' when the server has no socket left.  On a   *)
(* server that is not listening yet it emits 'close' in the same turn and  *)
(* does not revoke the listen().                                           *)
(***************************************************************************)
EXTENDS Integers, FiniteSets

CONSTANTS
    MaxStarts,    \* bound: how many http servers start() creates
    Clients       \* who may connect

ASSUME MaxStartsAssumption == MaxStarts \in Nat

Servers == 1 .. MaxStarts
None    == 0

VARIABLES
    stateValue,    \* created, starting, running, stopping, stopped, failed
    configValid,   \* configResult.success
    httpServer,    \* the server the closure refers to, or None
    server,        \* each server: unused, binding, listening, failed, closed
    erred,         \* servers whose once('error') listener has run
    connections,   \* the closure's set of sockets
    sockets,       \* the sockets that are open
    closing,       \* the servers a stop() is waiting for
    orderly        \* history: no call overlapped another, no error after listening

serverVars == <<stateValue, configValid, httpServer, server, erred, connections, sockets,
                closing, orderly>>

Sockets == Servers \X Clients
SocketsOf(s) == {k \in sockets : k[1] = s}

(* No call of start() or stop() is waiting. *)
Settled == \A s \in Servers : server[s] # "binding" /\ s \notin closing

ServerTypeOK ==
    /\ stateValue \in {"created", "starting", "running", "stopping", "stopped", "failed"}
    /\ configValid \in BOOLEAN
    /\ httpServer \in Servers \cup {None}
    /\ server \in [Servers -> {"unused", "binding", "listening", "failed", "closed"}]
    /\ erred \subseteq Servers
    /\ connections \subseteq Sockets
    /\ sockets \subseteq Sockets
    /\ closing \subseteq Servers
    /\ orderly \in BOOLEAN

ServerInit ==
    /\ stateValue = "created"
    /\ configValid \in BOOLEAN
    /\ httpServer = None
    /\ server = [s \in Servers |-> "unused"]
    /\ erred = {}
    /\ connections = {}
    /\ sockets = {}
    /\ closing = {}
    /\ orderly = TRUE

(* -------------------------------- start() ------------------------------ *)

(* start() throws in states running and starting; elsewhere an invalid
   configuration fails it. *)
StartRejected ==
    /\ stateValue \notin {"running", "starting"}
    /\ ~configValid
    /\ stateValue' = "failed"
    /\ UNCHANGED <<configValid, httpServer, server, erred, connections, sockets,
                   closing, orderly>>

(* A new server is created and asked to listen. *)
Start(s) ==
    /\ stateValue \notin {"running", "starting"}
    /\ configValid
    /\ server[s] = "unused"
    /\ \A t \in 1 .. s - 1 : server[t] # "unused"
    /\ stateValue' = "starting"
    /\ httpServer' = s
    /\ server' = [server EXCEPT ![s] = "binding"]
    /\ orderly' = (orderly /\ Settled)
    /\ UNCHANGED <<configValid, erred, connections, sockets, closing>>

(* The callbacks of listen(): they set the state whatever it has become. *)
ListenSucceeds(s) ==
    /\ server[s] = "binding"
    /\ server' = [server EXCEPT ![s] = "listening"]
    /\ stateValue' = "running"
    /\ UNCHANGED <<configValid, httpServer, erred, connections, sockets, closing,
                   orderly>>

ListenFails(s) ==
    /\ server[s] = "binding"
    /\ server' = [server EXCEPT ![s] = "failed"]
    /\ erred' = erred \cup {s}
    /\ stateValue' = "failed"
    /\ UNCHANGED <<configValid, httpServer, connections, sockets, closing, orderly>>

(* A listening server fails to accept: the 'error' listener registered for the
   listen() call is still there, the first time. *)
AcceptFails(s) ==
    /\ server[s] = "listening"
    /\ s \notin erred
    /\ erred' = erred \cup {s}
    /\ stateValue' = "failed"
    /\ orderly' = FALSE
    /\ UNCHANGED <<configValid, httpServer, server, connections, sockets, closing>>

(* -------------------------------- stop() ------------------------------- *)

(* Nothing to stop.  A stop() in state stopping returns, too, and changes nothing. *)
StopNothing ==
    /\ httpServer = None \/ stateValue \in {"stopped", "created"}
    /\ stateValue' = "stopped"
    /\ UNCHANGED <<configValid, httpServer, server, erred, connections, sockets,
                   closing, orderly>>

(* What stop() does once its promise is resolved. *)
StopContinues ==
    /\ connections' = {}
    /\ httpServer' = None
    /\ stateValue' = "stopped"

Stoppable == httpServer # None /\ stateValue \notin {"stopped", "created", "stopping"}

(* Mutant of StopListening: the server is awaited, but not closed. *)
StopListeningWithoutClose ==
    /\ Stoppable
    /\ server[httpServer] = "listening"
    /\ stateValue' = "stopping"
    /\ closing' = closing \cup {httpServer}
    /\ orderly' = (orderly /\ Settled)
    /\ UNCHANGED <<configValid, httpServer, server, erred, connections, sockets>>

(* The current server is closed and awaited. *)
StopListening ==
    /\ Stoppable
    /\ server[httpServer] = "listening"
    /\ stateValue' = "stopping"
    /\ server' = [server EXCEPT ![httpServer] = "closed"]
    /\ closing' = closing \cup {httpServer}
    /\ orderly' = (orderly /\ Settled)
    /\ UNCHANGED <<configValid, httpServer, erred, connections, sockets>>

(* The current server is not listening, or not yet: stop() returns in this turn.  A
   listen() whose address needs no lookup may settle in the same turn, before. *)
StopUnbound ==
    /\ Stoppable
    /\ server[httpServer] # "listening"
    /\ server' \in {server} \cup
                   (IF server[httpServer] = "binding"
                    THEN {[server EXCEPT ![httpServer] = "listening"]} ELSE {})
    /\ orderly' = (orderly /\ Settled)
    /\ StopContinues
    /\ UNCHANGED <<configValid, erred, closing, sockets>>

(* The server has no socket left: 'close' resolves the stop() waiting for it. *)
CloseEmitted(s) ==
    /\ s \in closing
    /\ SocketsOf(s) = {}
    /\ closing' = closing \ {s}
    /\ StopContinues
    /\ UNCHANGED <<configValid, server, erred, sockets, orderly>>

(* Mutant of ShutdownTimerFires: the sockets are destroyed, but the promise is left to
   the 'close' event. *)
ShutdownTimerDestroysOnly(s) ==
    /\ s \in closing
    /\ connections # {}
    /\ sockets' = sockets \ connections
    /\ connections' = {}
    /\ UNCHANGED <<stateValue, configValid, httpServer, server, erred, closing, orderly>>

(* The shutdown timer of a stop() fires first: every socket in the closure's set is
   destroyed. *)
ShutdownTimerFires(s) ==
    /\ s \in closing
    /\ sockets' = sockets \ connections
    /\ closing' = closing \ {s}
    /\ StopContinues
    /\ UNCHANGED <<configValid, server, erred, orderly>>

(* ------------------------------- sockets ------------------------------- *)

Connect(s, c) ==
    /\ server[s] = "listening"
    /\ <<s, c>> \notin sockets
    /\ sockets' = sockets \cup {<<s, c>>}
    /\ connections' = connections \cup {<<s, c>>}
    /\ UNCHANGED <<stateValue, configValid, httpServer, server, erred, closing,
                   orderly>>

SocketCloses(k) ==
    /\ k \in sockets
    /\ sockets' = sockets \ {k}
    /\ connections' = connections \ {k}
    /\ UNCHANGED <<stateValue, configValid, httpServer, server, erred, closing,
                   orderly>>

ServerNext ==
    \/ StartRejected
    \/ StopNothing
    \/ StopListening
    \/ StopUnbound
    \/ \E s \in Servers : \/ Start(s)
                          \/ ListenSucceeds(s)
                          \/ ListenFails(s)
                          \/ AcceptFails(s)
                          \/ CloseEmitted(s)
                          \/ ShutdownTimerFires(s)
                          \/ \E c \in Clients : Connect(s, c) \/ SocketCloses(<<s, c>>)

ServerSpec == ServerInit /\ [][ServerNext]_serverVars

(* The event loop fires an armed shutdown timer; clients owe nothing, they may keep
   their sockets open forever. *)
FairServerSpec == ServerSpec /\ \A s \in Servers : WF_serverVars(ShutdownTimerFires(s))

(* ------------------------------ properties ----------------------------- *)

(* As long as callers await each call before the next and no server fails after it
   listens, the state tells the truth across restarts: running is one listening
   server, the one the closure refers to, and stopped is no server and no socket. *)
StateIsTruthful ==
    orderly =>
        /\ \A s \in Servers : server[s] = "listening" =>
                                  s = httpServer /\ stateValue = "running"
        /\ stateValue = "running" => httpServer # None /\ server[httpServer] = "listening"
        /\ stateValue = "stopped" => /\ \A s \in Servers : server[s] # "binding"
                                     /\ sockets = {}
                                     /\ connections = {}

(* The set the shutdown timer destroys never holds a socket that is gone, and misses
   none of the open ones unless calls overlapped: stop() can then close them all. *)
ConnectionsAreTracked ==
    /\ connections \subseteq sockets
    /\ orderly => connections = sockets

(* Every stop() returns although a client keeps its socket open, in every
   interleaving of calls: the shutdown window is bounded. *)
StopReturns == \A s \in Servers : (s \in closing) ~> (s \notin closing)

(* --------------------- what the documentation says --------------------- *)

(* docs/gateway-local-server.md: "stop() is idempotent and closes the local server".
   A stop() that overlaps a start() loses the server it should have closed. *)
StopClosesServer ==
    stateValue = "stopped" => \A s \in Servers : server[s] # "listening"
==============================================================================
