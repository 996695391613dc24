---------------------------- MODULE GatewayProofs ----------------------------
(***************************************************************************)
(* Proofs about the gateway: its server (GatewayServer), for any number of *)
(* starts and any clients, and its handler (GatewayIntake), for any number *)
(* of requests, every set of configurations, every limit of a body and     *)
(* every length of a stream.                                               *)
(*                                                                         *)
(* StateIsTruthful is not inductive: it does not say which server a stop() *)
(* is waiting for.  OrderlyState adds that, ties every state to what it    *)
(* means for the current server, and says where sockets can be open.       *)
(*                                                                         *)
(* What a handler has armed depends on nothing but where it is             *)
(* (NothingLeftArmed).  That a trace says what its client received needs   *)
(* what the wire carries before the answer (WireFollows): a handler that   *)
(* has not answered finds an empty response, or the head of its stream.    *)
(* An open trace needs to know which request it belongs to (OpenInv), and  *)
(* the books balance because a handler that is done stays done, so that    *)
(* each charges once (BooksInv).                                           *)
(***************************************************************************)
EXTENDS GatewayServer, GatewayIntake, SequenceTheorems, TLAPS

(* The server.                                                             *)

(* What the state means as long as calls do not overlap. *)
OrderlyState ==
    /\ \A s \in Servers : server[s] \in {"binding", "listening"} => s = httpServer
    /\ stateValue = "starting" <=> httpServer # None /\ server[httpServer] = "binding"
    /\ stateValue = "running" <=> httpServer # None /\ server[httpServer] = "listening"
    /\ stateValue = "stopping" <=> closing # {}
    /\ \A s \in closing : s = httpServer /\ server[s] = "closed"
    /\ stateValue \in {"stopped", "created"} => httpServer = None
    /\ \A k \in sockets : /\ k[1] = httpServer
                          /\ server[k[1]] = "listening" \/ k[1] \in closing
    /\ connections = sockets

(* An invalid configuration never starts a server. *)
NothingStarted == /\ httpServer = None
                  /\ closing = {}
                  /\ \A s \in Servers : server[s] = "unused"

ServerIInv ==
    /\ ServerTypeOK
    /\ connections \subseteq sockets
    /\ orderly => OrderlyState
    /\ ~configValid => NothingStarted

(* Nothing has happened before the first call. *)
LEMMA ServerInitIInv == ServerInit => ServerIInv
BY DEF ServerInit, ServerIInv, ServerTypeOK, OrderlyState, NothingStarted, Sockets

(* Calls that return at once: a rejected start() and a stop() with nothing to stop. *)
LEMMA ReturnAtOnceIInv == ServerIInv /\ (StartRejected \/ StopNothing) => ServerIInv'
<1> SUFFICES ASSUME ServerIInv, StartRejected \/ StopNothing
             PROVE  ServerIInv'
  OBVIOUS
<1>1. CASE StartRejected
  <2>1. NothingStarted /\ ServerTypeOK /\ connections \subseteq sockets
    BY <1>1 DEF StartRejected, ServerIInv
  <2>2. ServerTypeOK' /\ connections' \subseteq sockets' /\ NothingStarted'
    BY <1>1, <2>1 DEF StartRejected, ServerTypeOK, NothingStarted
  <2>3. ASSUME orderly' PROVE OrderlyState'
    <3>1. OrderlyState
      BY <1>1, <2>3 DEF StartRejected, ServerIInv
    <3>2. QED
      BY <1>1, <2>1, <3>1 DEF StartRejected, NothingStarted, OrderlyState
  <2>4. QED
    BY <2>2, <2>3 DEF ServerIInv
<1>2. CASE StopNothing
  <2>1. ServerTypeOK' /\ connections' \subseteq sockets' /\ (~configValid' => NothingStarted')
    BY <1>2 DEF StopNothing, ServerIInv, ServerTypeOK, NothingStarted
  <2>2. ASSUME orderly' PROVE OrderlyState'
    <3>1. OrderlyState
      BY <1>2, <2>2 DEF StopNothing, ServerIInv
    <3>2. httpServer = None
      BY <1>2, <3>1 DEF StopNothing, OrderlyState
    <3>3. closing = {}
      BY <1>2, <3>1, <3>2 DEF OrderlyState, ServerIInv, ServerTypeOK, Servers, None
    <3>4. QED
      BY <1>2, <3>1, <3>2, <3>3 DEF StopNothing, OrderlyState
  <2>3. QED
    BY <2>1, <2>2 DEF ServerIInv
<1>3. QED
  BY <1>1, <1>2

(* start() and the callbacks of listen() (server.js). *)
LEMMA StartIInv ==
    ASSUME ServerIInv, NEW s \in Servers,
           Start(s) \/ ListenSucceeds(s) \/ ListenFails(s) \/ AcceptFails(s)
    PROVE  ServerIInv'
<1> USE DEF ServerIInv, ServerTypeOK, NothingStarted
<1>2. CASE Start(s)
  <2>1. ServerTypeOK' /\ connections' \subseteq sockets' /\ (~configValid' => NothingStarted')
    BY <1>2 DEF Start
  <2>2. ASSUME orderly' PROVE OrderlyState'
    <3>1. orderly /\ OrderlyState /\ closing = {} /\ \A t \in Servers : server[t] # "binding"
      BY <2>2, <1>2 DEF Start, Settled
    <3>2. \A t \in Servers : server[t] # "listening"
      BY <1>2, <3>1 DEF Start, OrderlyState, Servers, None
    <3>3. sockets = {}
      BY <3>1, <3>2 DEF OrderlyState, Sockets
    <3>4. s # None
      BY DEF Servers, None
    <3>5. QED
      BY <1>2, <3>1, <3>2, <3>3, <3>4 DEF Start, OrderlyState
  <2>3. QED
    BY <2>1, <2>2
<1>3. CASE ListenSucceeds(s)
  <2>1. ServerTypeOK' /\ connections' \subseteq sockets' /\ (~configValid' => NothingStarted')
    BY <1>3 DEF ListenSucceeds
  <2>2. ASSUME orderly' PROVE OrderlyState'
    BY <2>2, <1>3 DEF ListenSucceeds, OrderlyState, Servers, None
  <2>3. QED
    BY <2>1, <2>2
<1>4. CASE ListenFails(s)
  <2>1. ServerTypeOK' /\ connections' \subseteq sockets' /\ (~configValid' => NothingStarted')
    BY <1>4 DEF ListenFails
  <2>2. ASSUME orderly' PROVE OrderlyState'
    BY <2>2, <1>4 DEF ListenFails, OrderlyState, Servers, None
  <2>3. QED
    BY <2>1, <2>2
<1>5. CASE AcceptFails(s)
  BY <1>5 DEF AcceptFails
<1>6. QED
  BY <1>2, <1>3, <1>4, <1>5

(* stop(), with the 'close' event and the shutdown timer that resolve it. *)
LEMMA StopIInv ==
    ASSUME ServerIInv, NEW s \in Servers,
           \/ StopListening \/ StopUnbound
           \/ CloseEmitted(s) \/ ShutdownTimerFires(s)
    PROVE  ServerIInv'
<1> USE DEF ServerIInv, ServerTypeOK, NothingStarted
<1>2. CASE StopListening
  <2>0. httpServer \in Servers
    BY <1>2 DEF StopListening, Stoppable
  <2>1. ServerTypeOK' /\ connections' \subseteq sockets' /\ (~configValid' => NothingStarted')
    BY <1>2, <2>0 DEF StopListening
  <2>2. ASSUME orderly' PROVE OrderlyState'
    BY <2>0, <2>2, <1>2 DEF StopListening, Stoppable, Settled, OrderlyState
  <2>3. QED
    BY <2>1, <2>2
<1>3. CASE StopUnbound
  <2>0. httpServer \in Servers
    BY <1>3 DEF StopUnbound, Stoppable
  <2>1. ServerTypeOK' /\ connections' \subseteq sockets' /\ (~configValid' => NothingStarted')
    BY <1>3, <2>0 DEF StopUnbound, StopContinues
  <2>2. ASSUME orderly' PROVE OrderlyState'
    <3>1. orderly /\ OrderlyState /\ closing = {} /\ server[httpServer] # "binding"
      BY <2>0, <2>2, <1>3 DEF StopUnbound, Settled
    <3>2. server' = server /\ closing' = closing /\ sockets' = sockets
      BY <3>1, <1>3 DEF StopUnbound
    <3>3. sockets = {}
      BY <3>1, <1>3 DEF OrderlyState, StopUnbound, Sockets
    <3>4. QED
      BY <2>0, <3>1, <3>2, <3>3, <1>3 DEF StopUnbound, StopContinues, OrderlyState
  <2>3. QED
    BY <2>1, <2>2
<1>4. CASE CloseEmitted(s)
  <2>1. ServerTypeOK' /\ connections' \subseteq sockets' /\ (~configValid' => NothingStarted')
    BY <1>4 DEF CloseEmitted, StopContinues
  <2>2. ASSUME orderly' PROVE OrderlyState'
    <3>1. /\ OrderlyState
          /\ s = httpServer /\ server[s] = "closed"
          /\ closing' = {}
          /\ server' = server /\ sockets' = sockets
      BY <2>2, <1>4 DEF CloseEmitted, OrderlyState
    <3>2. sockets = {}
      BY <3>1, <1>4 DEF CloseEmitted, SocketsOf, OrderlyState
    <3>3. QED
      BY <3>1, <3>2, <1>4 DEF CloseEmitted, StopContinues, OrderlyState
  <2>3. QED
    BY <2>1, <2>2
<1>5. CASE ShutdownTimerFires(s)
  <2>1. ServerTypeOK' /\ connections' \subseteq sockets' /\ (~configValid' => NothingStarted')
    BY <1>5 DEF ShutdownTimerFires, StopContinues
  <2>2. ASSUME orderly' PROVE OrderlyState'
    <3>1. /\ OrderlyState
          /\ s = httpServer /\ server[s] = "closed"
          /\ closing' = {}
          /\ server' = server
          /\ sockets' = {}
      BY <2>2, <1>5 DEF ShutdownTimerFires, OrderlyState
    <3>2. QED
      BY <3>1, <1>5 DEF ShutdownTimerFires, StopContinues, OrderlyState
  <2>3. QED
    BY <2>1, <2>2
<1>6. QED
  BY <1>2, <1>3, <1>4, <1>5

(* The listeners on the sockets. *)
LEMMA SocketIInv ==
    ASSUME ServerIInv, NEW s \in Servers, NEW c \in Clients,
           Connect(s, c) \/ SocketCloses(<<s, c>>)
    PROVE  ServerIInv'
<1> USE DEF ServerIInv, ServerTypeOK, NothingStarted
<1>1. CASE Connect(s, c)
  <2>1. <<s, c>> \in Sockets /\ <<s, c>>[1] = s
    BY DEF Sockets
  <2>2. ServerTypeOK' /\ connections' \subseteq sockets' /\ (~configValid' => NothingStarted')
    BY <1>1, <2>1 DEF Connect
  <2>3. ASSUME orderly' PROVE OrderlyState'
    BY <1>1, <2>1, <2>3 DEF Connect, OrderlyState
  <2>4. QED
    BY <2>2, <2>3
<1>2. CASE SocketCloses(<<s, c>>)
  <2>1. ServerTypeOK' /\ connections' \subseteq sockets' /\ (~configValid' => NothingStarted')
    BY <1>2 DEF SocketCloses
  <2>2. ASSUME orderly' PROVE OrderlyState'
    BY <1>2, <2>2 DEF SocketCloses, OrderlyState
  <2>3. QED
    BY <2>1, <2>2
<1>3. QED
  BY <1>1, <1>2

(* Every step preserves the invariant. *)
LEMMA ServerNextIInv == ServerIInv /\ [ServerNext]_serverVars => ServerIInv'
<1> SUFFICES ASSUME ServerIInv, [ServerNext]_serverVars
             PROVE  ServerIInv'
  OBVIOUS
<1>1. CASE StartRejected \/ StopNothing
  BY <1>1, ReturnAtOnceIInv
<1>3. CASE StopListening \/ StopUnbound
  <2>1. httpServer \in Servers
    BY <1>3 DEF StopListening, StopUnbound, Stoppable, ServerIInv, ServerTypeOK
  <2>2. QED
    BY <1>3, <2>1, StopIInv
<1>4. CASE \E s \in Servers : \/ Start(s)
                              \/ ListenSucceeds(s)
                              \/ ListenFails(s)
                              \/ AcceptFails(s)
  BY <1>4, StartIInv
<1>5. CASE \E s \in Servers : CloseEmitted(s) \/ ShutdownTimerFires(s)
  BY <1>5, StopIInv
<1>6. CASE \E s \in Servers : \E c \in Clients : Connect(s, c) \/ SocketCloses(<<s, c>>)
  BY <1>6, SocketIInv
<1>7. CASE UNCHANGED serverVars
  BY <1>7 DEF serverVars, ServerIInv, ServerTypeOK, OrderlyState, NothingStarted
<1>8. QED
  BY <1>1, <1>3, <1>4, <1>5, <1>6, <1>7 DEF ServerNext

(* ServerIInv is an invariant of the lifecycle. *)
THEOREM ServerInductive == ServerSpec => []ServerIInv
<1>1. QED
  BY ServerInitIInv, ServerNextIInv, PTL DEF ServerSpec

(* As long as calls do not overlap and no server fails after it listens, the state of
   createGatewayServer tells the truth about its servers and sockets, over any number
   of restarts. *)
THEOREM TruthfulState == ServerSpec => []StateIsTruthful
<1>1. ServerIInv => StateIsTruthful
  <2> SUFFICES ASSUME ServerIInv, orderly
               PROVE  StateIsTruthful
    BY DEF StateIsTruthful
  <2>1. OrderlyState /\ ServerTypeOK
    BY DEF ServerIInv
  <2>2. \A s \in Servers : server[s] = "listening" => s = httpServer /\ s # None
    BY <2>1 DEF OrderlyState, Servers, None
  <2>3. stateValue = "stopped" => /\ \A s \in Servers : server[s] # "binding"
                                  /\ sockets = {}
                                  /\ connections = {}
    <3> SUFFICES ASSUME stateValue = "stopped"
                 PROVE  /\ \A s \in Servers : server[s] # "binding"
                        /\ sockets = {}
                        /\ connections = {}
      OBVIOUS
    <3>1. httpServer \notin Servers /\ closing = {}
      BY <2>1 DEF OrderlyState, Servers, None
    <3>2. sockets = {}
      BY <2>1, <3>1 DEF OrderlyState, ServerTypeOK, Sockets
    <3>3. QED
      BY <2>1, <3>1, <3>2 DEF OrderlyState
  <2>4. QED
    BY <2>1, <2>2, <2>3 DEF StateIsTruthful, OrderlyState
<1>2. QED
  BY <1>1, ServerInductive, PTL

(* The set of sockets the shutdown timer destroys is the set of open ones. *)
THEOREM TrackedConnections == ServerSpec => []ConnectionsAreTracked
<1>1. ServerIInv => ConnectionsAreTracked
  BY DEF ServerIInv, OrderlyState, ConnectionsAreTracked
<1>2. QED
  BY <1>1, ServerInductive, PTL

-----------------------------------------------------------------------------
(* The handler.                                                            *)

Handlers == [at : {"new", "done"} \cup Urgent \cup Waiting, armed : SUBSET Armed, size : Nat, sent : Nat]
Wires == [status : Statuses, head : BOOLEAN, ended : BOOLEAN, socket : {"open", "left", "destroyed"}]
Headed == {"streaming", "relaying"}
Typed == config \in Configs /\ request \in [Requests -> Handlers] /\ wire \in [Requests -> Wires]

(* Before the answer the response is empty, but for the head of a stream. *)
Follows(w, r) ==
    r.at # "done" =>
        /\ ~w.ended
        /\ w.head <=> r.at \in Headed
        /\ w.status \in {0, 200}
        /\ w.socket = "open" => w.status = (IF w.head THEN 200 ELSE 0)
        /\ r.at \notin Governed => w.socket = "open"

WireFollows == \A q \in Requests : Follows(wire[q], request[q])

Traced == [request : Requests, status : Statuses]

(* What a client whose socket is open reads of a trace with this status. *)
Reads(w, status) ==
    w.ended /\ (w.status = status \/ (w.head /\ w.status = 200 /\ status \in {499, 502, 504}))

(* A trace with this status says what the client of a handler that is done received. *)
Says(status, w, r) ==
    /\ r.at = "done"
    /\ w.socket = "open" => Reads(w, status)

Tells(t) == t.status # 0 => Says(t.status, wire[t.request], request[t.request])

TracesTell == traces \in Seq(Traced) /\ \A i \in DOMAIN traces : Tells(traces[i])

IInv == Typed /\ NothingLeftArmed /\ WireFollows /\ TracesTell

(* What is armed where. *)
ArmedFits(r) ==
    r.armed = CASE r.at = "reading" -> {"body"}
                [] r.at = "streaming" -> {"total", "idle", NextWrite}
                [] OTHER -> {}

-----------------------------------------------------------------------------
(* A bounded store holds what was in it or was pushed. *)
LEMMA BoundedKeepsElements ==
    ASSUME NEW S, NEW store \in Seq(S), NEW more \in Seq(S), NEW max \in Nat \ {0}
    PROVE  Bounded(store, more, max) \in Seq(S)
<1> DEFINE all == store \o more
           first == IF Len(all) > max THEN Len(all) - max + 1 ELSE 1
<1>1. all \in Seq(S) /\ Len(all) \in Nat
  OBVIOUS
<1>2. first \in 1 .. Len(all) + 1
  BY <1>1
<1>3. \A i \in first .. Len(all) : all[i] \in S
  BY <1>1, <1>2, ElementOfSeq
<1>4. SubSeq(all, first, Len(all)) \in Seq(S)
  BY <1>1, <1>2, <1>3, SubSeqProperties
<1>5. QED
  BY <1>4 DEF Bounded

LEMMA InitIInv == Init => IInv
<1> SUFFICES ASSUME Init PROVE IInv
  OBVIOUS
<1>1. Typed
  BY DEF Init, Typed, Handlers, Wires, Statuses
<1>2. NothingLeftArmed /\ WireFollows
  BY DEF Init, NothingLeftArmed, WireFollows, Follows, Headed
<1>3. TracesTell
  BY DEF Init, TracesTell
<1>4. QED
  BY <1>1, <1>2, <1>3 DEF IInv

(* Only one request goes on or ends. *)
OnlyMoves(q) ==
    /\ config' = config
    /\ request' \in [Requests -> Handlers] /\ wire' \in [Requests -> Wires]
    /\ \A p \in Requests \ {q} : request'[p] = request[p] /\ wire'[p] = wire[p]

(* The traces are those of before, or say what their request's client has now received. *)
TracesMove(q) ==
    /\ traces' \in Seq(Traced)
    /\ \A i \in DOMAIN traces' :
          \/ Tells(traces'[i])
          \/ traces'[i].request = q /\ Says(traces'[i].status, wire'[q], request'[q])

LEMMA OneGoesOn ==
    ASSUME IInv, NEW q \in Requests, request[q].at # "done",
           OnlyMoves(q), ArmedFits(request'[q]), Follows(wire'[q], request'[q]), TracesMove(q)
    PROVE  IInv'
<1>1. /\ request \in [Requests -> Handlers] /\ wire \in [Requests -> Wires] /\ config \in Configs
      /\ config' = config /\ request' \in [Requests -> Handlers] /\ wire' \in [Requests -> Wires]
      /\ \A p \in Requests \ {q} : request'[p] = request[p] /\ wire'[p] = wire[p]
  BY DEF IInv, Typed, OnlyMoves
<1>2. Typed'
  BY <1>1 DEF Typed
<1>3. NextWrite' = NextWrite
  BY <1>1 DEF NextWrite
<1>4. NothingLeftArmed'
  BY <1>1, <1>3 DEF IInv, NothingLeftArmed, ArmedFits
<1>5. WireFollows'
  BY <1>1 DEF IInv, WireFollows, Follows
<1>6. ASSUME NEW t \in Traced, Tells(t) \/ (t.request = q /\ Says(t.status, wire'[q], request'[q]))
      PROVE  Tells(t)'
  <2>1. CASE t.request = q /\ Says(t.status, wire'[q], request'[q])
    BY <2>1 DEF Tells, Says
  <2>2. CASE t.request = q /\ Tells(t)
    BY <2>2 DEF Tells, Says
  <2>3. CASE t.request # q /\ Tells(t)
    <3>1. request'[t.request] = request[t.request] /\ wire'[t.request] = wire[t.request]
      BY <1>1, <1>6, <2>3 DEF Traced
    <3>2. QED
      BY <2>3, <3>1 DEF Tells, Says
  <2>4. QED
    BY <1>6, <2>1, <2>2, <2>3
<1>7. TracesTell'
  <2>1. SUFFICES ASSUME NEW t, NEW i \in DOMAIN traces', t = traces'[i]
                 PROVE  Tells(t)'
    BY DEF TracesTell, TracesMove
  <2>2. t \in Traced /\ (Tells(t) \/ (t.request = q /\ Says(t.status, wire'[q], request'[q])))
    BY <2>1 DEF TracesMove
  <2>3. QED
    BY <1>6, <2>2
<1>8. QED
  BY <1>2, <1>4, <1>5, <1>7 DEF IInv

LEMMA TracesStay ==
    ASSUME IInv, NEW q \in Requests, traces' = traces
    PROVE  TracesMove(q)
BY DEF IInv, TracesTell, TracesMove

LEMMA TraceFinished ==
    ASSUME IInv, NEW q \in Requests, NEW status \in Statuses \ {0},
           FinishTrace(q, status), Says(status, wire'[q], request'[q])
    PROVE  TracesMove(q)
<1>1. traces \in Seq(Traced) /\ \A i \in DOMAIN traces : Tells(traces[i])
  BY DEF IInv, TracesTell
<1>2. DOMAIN traces' = DOMAIN traces /\ DOMAIN traces = 1 .. Len(traces) /\ Len(traces) \in Nat
  BY <1>1 DEF FinishTrace
<1>3. ASSUME NEW i \in DOMAIN traces
      PROVE  /\ traces'[i] \in Traced
             /\ \/ Tells(traces'[i])
                \/ traces'[i].request = q /\ Says(traces'[i].status, wire'[q], request'[q])
  <2>1. traces[i] \in Traced /\ Tells(traces[i])
    BY <1>1
  <2>2. CASE traces[i].request = q
    <3>1. traces'[i] = [traces[i] EXCEPT !.status = status]
      BY <2>2 DEF FinishTrace
    <3>2. traces'[i] \in Traced /\ traces'[i].request = q /\ traces'[i].status = status
      BY <2>1, <2>2, <3>1 DEF Traced
    <3>3. QED
      BY <3>2
  <2>3. CASE traces[i].request # q
    BY <2>1, <2>3 DEF FinishTrace
  <2>4. QED
    BY <2>2, <2>3
<1>4. traces' = [i \in 1 .. Len(traces) |-> traces'[i]]
  BY <1>2 DEF FinishTrace
<1>5. traces' \in Seq(Traced)
  BY <1>2, <1>3, <1>4
<1>6. QED
  BY <1>2, <1>3, <1>5 DEF TracesMove

LEMMA DoneMoves ==
    ASSUME IInv, NEW q \in Requests, Done(q), config' = config,
           NEW w \in Wires, wire' = [wire EXCEPT ![q] = w]
    PROVE  /\ OnlyMoves(q) /\ ArmedFits(request'[q]) /\ Follows(wire'[q], request'[q])
           /\ wire'[q] = w /\ request'[q].at = "done"
<1>1. request \in [Requests -> Handlers] /\ wire \in [Requests -> Wires]
  BY DEF IInv, Typed
<1>2. request' \in [Requests -> Handlers]
  BY <1>1 DEF Done, Handlers
<1>3. request'[q].at = "done" /\ request'[q].armed = {}
  BY <1>1 DEF Done, Handlers
<1>4. \A p \in Requests \ {q} : request'[p] = request[p]
  BY <1>1 DEF Done
<1>5. QED
  BY <1>1, <1>2, <1>3, <1>4 DEF OnlyMoves, ArmedFits, Follows

LEMMA DoneKeepsIInv ==
    ASSUME IInv, NEW q \in Requests, request[q].at # "done", Done(q), config' = config,
           NEW status \in Statuses \ {0}, FinishTrace(q, status),
           NEW w \in Wires, wire' = [wire EXCEPT ![q] = w],
           w.socket = "open" => Reads(w, status)
    PROVE  IInv'
<1>1. /\ OnlyMoves(q) /\ ArmedFits(request'[q]) /\ Follows(wire'[q], request'[q])
      /\ wire'[q] = w /\ request'[q].at = "done"
  BY DoneMoves
<1>2. Says(status, wire'[q], request'[q])
  BY <1>1 DEF Says
<1>3. QED
  BY <1>1, <1>2, TraceFinished, OneGoesOn

LEMMA AnswerKeepsIInv ==
    ASSUME IInv, NEW q \in Requests, request[q].at # "done",
           NEW status \in Statuses \ {0}, Answer(q, status), config' = config,
           request[q].at \in Headed => status \in {200, 499, 502, 504}
    PROVE  IInv'
<1>1. /\ wire \in [Requests -> Wires]
      /\ wire[q] \in Wires /\ ~wire[q].ended
      /\ wire[q].head => request[q].at \in Headed
      /\ wire[q].socket = "open" => wire[q].status = (IF wire[q].head THEN 200 ELSE 0)
  BY DEF IInv, Typed, WireFollows, Follows
<1>2. PICK w : w = Answered(wire[q], status)
  OBVIOUS
<1>3. w = [wire[q] EXCEPT !.ended = TRUE, !.status = IF @ = 0 /\ wire[q].socket = "open" THEN status ELSE @]
  BY <1>1, <1>2 DEF Answered
<1>4. /\ w \in Wires /\ w.socket = wire[q].socket /\ w.ended /\ (w.head <=> wire[q].head)
      /\ w.socket = "open" /\ wire[q].status = 0 => w.status = status
      /\ wire[q].status # 0 => w.status = wire[q].status
  <2>1. PICK v \in Wires : v = wire[q]
    BY <1>1
  <2>2. w = [status |-> IF v.status = 0 /\ v.socket = "open" THEN status ELSE v.status,
             head |-> v.head, ended |-> TRUE, socket |-> v.socket]
    <3>1. w = [v EXCEPT !.ended = TRUE,
                        !.status = IF v.status = 0 /\ v.socket = "open" THEN status ELSE v.status]
      BY <1>3, <2>1 DEF Wires
    <3>2. QED
      BY <2>1, <3>1 DEF Wires
  <2>3. w \in Wires
    BY <2>1, <2>2 DEF Wires
  <2>4. QED
    BY <2>1, <2>2, <2>3
<1>5. wire' = [wire EXCEPT ![q] = w]
  BY <1>1, <1>2 DEF Answer
<1>6. w.socket = "open" => Reads(w, status)
  BY <1>1, <1>4 DEF Reads
<1>7. Done(q) /\ FinishTrace(q, status)
  BY DEF Answer
<1>8. QED
  BY <1>4, <1>5, <1>6, <1>7, DoneKeepsIInv

LEMMA FailKeepsIInv ==
    ASSUME IInv, NEW q \in Requests, request[q].at # "done",
           NEW code, NEW status \in Statuses \ {0}, FailWith(q, code, status),
           request[q].at \in Headed => status = 504
    PROVE  IInv'
BY AnswerKeepsIInv DEF FailWith

LEMMA StatusOfCode == \A code \in Codes : StatusByCode[code] \in Statuses \ {0}
BY DEF Codes, Statuses, StatusByCode

LEMMA MoveKeepsIInv ==
    ASSUME IInv, NEW q \in Requests, request[q].at \in {"new"} \cup Urgent,
           NEW at \in Urgent \cup {"governed", "acquiring"}, MoveTo(q, at),
           config' = config, wire' = wire, TracesMove(q)
    PROVE  IInv'
<1>1. /\ request \in [Requests -> Handlers] /\ wire \in [Requests -> Wires]
      /\ request[q].at \notin {"done", "reading", "streaming"} \cup Governed
      /\ at \notin {"done", "reading", "streaming", "relaying"}
  BY DEF IInv, Typed, Urgent, Governed
<1>2. /\ request[q].armed = {} /\ ~wire[q].ended /\ ~wire[q].head
      /\ wire[q].status = 0 /\ wire[q].socket = "open"
  BY <1>1 DEF IInv, NothingLeftArmed, WireFollows, Follows, Headed, Governed
<1>3. request' \in [Requests -> Handlers] /\ request'[q].at = at /\ request'[q].armed = request[q].armed
  BY <1>1 DEF MoveTo, Handlers, Waiting, Governed
<1>4. \A p \in Requests \ {q} : request'[p] = request[p]
  BY <1>1 DEF MoveTo
<1>5. OnlyMoves(q)
  BY <1>1, <1>3, <1>4 DEF OnlyMoves
<1>6. ArmedFits(request'[q]) /\ Follows(wire'[q], request'[q])
  BY <1>1, <1>2, <1>3 DEF ArmedFits, Follows, Headed
<1>7. QED
  BY <1>1, <1>5, <1>6, OneGoesOn

(* The stretches up to an await: arrival, authentication, routing, headers, dispatch. *)
LEMMA FrontKeepsIInv ==
    ASSUME IInv, NEW q \in Requests,
           \/ Arrive(q) \/ Authenticate(q) \/ RefuseRoute(q) \/ AnswerReadOnly(q) \/ RouteChat(q)
           \/ RefuseHeaders(q) \/ RefuseModel(q) \/ RouteGoverned(q) \/ RouteMock(q)
    PROVE  IInv'
<1>1. CASE Arrive(q)
  <2>1. traces \in Seq({t \in Traced : Tells(t)})
    BY DEF IInv, TracesTell
  <2>2. <<[request |-> q, status |-> 0]>> \in Seq({t \in Traced : Tells(t)})
    BY DEF Traced, Statuses, Tells
  <2>3. config.maxTraces \in Nat \ {0}
    BY IntakeAssumption DEF IInv, Typed, Config
  <2>4. Record(traces, <<[request |-> q, status |-> 0]>>, config.maxTraces) \in Seq({t \in Traced : Tells(t)})
    BY <2>1, <2>2, <2>3, BoundedKeepsElements DEF Record
  <2>5. TracesMove(q)
    BY <1>1, <2>4 DEF Arrive, TracesMove
  <2>6. QED
    BY <1>1, <2>5, MoveKeepsIInv DEF Arrive, Urgent
<1>2. CASE Authenticate(q)
  <2>1. request[q].at = "received"
    BY <1>2 DEF Authenticate
  <2>2. CASE MoveTo(q, "routing") /\ UNCHANGED <<config, wire, stores, clears>>
    BY <2>1, <2>2, TracesStay, MoveKeepsIInv DEF stores, Urgent
  <2>3. CASE \E code \in Codes : Fail(q, code)
    BY <2>1, <2>3, StatusOfCode, FailKeepsIInv DEF Fail, Headed
  <2>4. \A loopback \in BOOLEAN,
           token \in {"right", "missing", "unprefixed", "repeated", "long", "padded", "wrong"} :
             AuthErrors(loopback, token) \subseteq Codes
    BY DEF AuthErrors, Codes, StatusByCode
  <2>5. QED
    BY <1>2, <2>2, <2>3, <2>4 DEF Authenticate
<1>3. CASE RefuseRoute(q)
  BY <1>3, StatusOfCode, FailKeepsIInv DEF RefuseRoute, Fail, Codes, StatusByCode, Statuses, Headed
<1>4. CASE AnswerReadOnly(q)
  BY <1>4, AnswerKeepsIInv DEF AnswerReadOnly, Statuses, Headed
<1>5. CASE RouteChat(q)
  BY <1>5, TracesStay, MoveKeepsIInv DEF RouteChat, stores, Urgent
<1>6. CASE RefuseHeaders(q)
  BY <1>6, StatusOfCode, FailKeepsIInv DEF RefuseHeaders, Fail, Codes, StatusByCode, Statuses, Headed
<1>7. CASE RefuseModel(q)
  BY <1>7, StatusOfCode, FailKeepsIInv DEF RefuseModel, Fail, Codes, StatusByCode, Statuses, Headed
<1>8. CASE RouteGoverned(q)
  <2>1. CASE Fail(q, "invalid_request")
    BY <1>8, <2>1, StatusOfCode, FailKeepsIInv DEF RouteGoverned, Fail, Codes, StatusByCode, Headed
  <2>2. CASE /\ \E at \in {"governed", "acquiring"} : MoveTo(q, at)
             /\ UNCHANGED <<config, wire, traces, usage, health, clears, unreported>>
    BY <1>8, <2>2, TracesStay, MoveKeepsIInv DEF RouteGoverned, Urgent
  <2>3. QED
    BY <1>8, <2>1, <2>2 DEF RouteGoverned
<1>9. CASE RouteMock(q)
  BY <1>9, TracesStay, MoveKeepsIInv DEF RouteMock, stores, Urgent
<1>10. QED
  BY <1>1, <1>2, <1>3, <1>4, <1>5, <1>6, <1>7, <1>8, <1>9

(* The body reader. *)
LEMMA ReaderKeepsIInv ==
    ASSUME IInv, NEW q \in Requests,
           \/ StartReading(q) \/ BodyTimerFires(q) \/ BodyData(q) \/ BodyTooLarge(q)
           \/ BodyErrors(q) \/ BodyMalformed(q) \/ BodyEnds(q)
    PROVE  IInv'
<1>1. /\ request \in [Requests -> Handlers] /\ wire \in [Requests -> Wires] /\ wire[q] \in Wires
      /\ Follows(wire[q], request[q])
  BY DEF IInv, Typed, WireFollows
<1>2. CASE StartReading(q)
  <2>1. request[q].at = "headers" /\ config' = config /\ wire' = wire /\ traces' = traces
    BY <1>2 DEF StartReading, stores
  <2>2. request' \in [Requests -> Handlers] /\ request'[q].at = "reading" /\ request'[q].armed = {"body"}
    BY <1>1, <1>2 DEF StartReading, Handlers, Waiting, Armed
  <2>3. \A p \in Requests \ {q} : request'[p] = request[p]
    BY <1>1, <1>2 DEF StartReading
  <2>4. OnlyMoves(q)
    BY <1>1, <2>1, <2>2, <2>3 DEF OnlyMoves
  <2>5. ArmedFits(request'[q]) /\ Follows(wire'[q], request'[q])
    BY <1>1, <2>1, <2>2 DEF ArmedFits, Follows, Headed, Governed
  <2>6. QED
    BY <2>1, <2>4, <2>5, TracesStay, OneGoesOn
<1>3. CASE BodyData(q)
  <2>1. request[q].at = "reading" /\ config' = config /\ wire' = wire /\ traces' = traces
    BY <1>3 DEF BodyData, stores
  <2>2. request[q].armed = {"body"}
    BY <2>1 DEF IInv, NothingLeftArmed
  <2>3. request' \in [Requests -> Handlers] /\ request'[q].at = "reading" /\ request'[q].armed = request[q].armed
    BY <1>1, <1>3, <2>1 DEF BodyData, Handlers
  <2>4. \A p \in Requests \ {q} : request'[p] = request[p]
    BY <1>1, <1>3 DEF BodyData
  <2>5. OnlyMoves(q)
    BY <1>1, <2>1, <2>3, <2>4 DEF OnlyMoves
  <2>6. ArmedFits(request'[q]) /\ Follows(wire'[q], request'[q])
    BY <1>1, <2>1, <2>2, <2>3 DEF ArmedFits, Follows, Headed, Governed
  <2>7. QED
    BY <2>1, <2>5, <2>6, TracesStay, OneGoesOn
<1>4. CASE BodyEnds(q)
  <2>1. request[q].at = "reading" /\ config' = config /\ wire' = wire /\ traces' = traces
    BY <1>4 DEF BodyEnds, stores
  <2>2. request' \in [Requests -> Handlers] /\ request'[q].at = "dispatch" /\ request'[q].armed = {}
    BY <1>1, <1>4 DEF BodyEnds, Handlers, Urgent
  <2>3. \A p \in Requests \ {q} : request'[p] = request[p]
    BY <1>1, <1>4 DEF BodyEnds
  <2>4. OnlyMoves(q)
    BY <1>1, <2>1, <2>2, <2>3 DEF OnlyMoves
  <2>5. ArmedFits(request'[q]) /\ Follows(wire'[q], request'[q])
    BY <1>1, <2>1, <2>2 DEF ArmedFits, Follows, Headed, Governed
  <2>6. QED
    BY <2>1, <2>4, <2>5, TracesStay, OneGoesOn
<1>5. CASE BodyTooLarge(q) \/ BodyTimerFires(q)
  <2>1. PICK code \in {"request_too_large", "timeout"} : request[q].at = "reading" /\ CutOff(q, code)
    BY <1>5 DEF BodyTooLarge, BodyTimerFires
  <2>2. PICK w \in Wires : w.socket # "open" /\ wire' = [wire EXCEPT ![q] = w]
    <3>1. [wire[q] EXCEPT !.socket = "destroyed", !.ended = TRUE] \in Wires
      BY <1>1 DEF Wires
    <3>2. wire' = [wire EXCEPT ![q] = [wire[q] EXCEPT !.socket = "destroyed", !.ended = TRUE]]
      BY <1>1, <2>1 DEF CutOff
    <3>3. [wire[q] EXCEPT !.socket = "destroyed", !.ended = TRUE].socket = "destroyed"
      BY <1>1 DEF Wires
    <3>4. QED
      BY <3>1, <3>2, <3>3
  <2>3. StatusByCode[code] \in Statuses \ {0}
    BY <2>1, StatusOfCode DEF Codes, StatusByCode
  <2>4. FinishTrace(q, StatusByCode[code]) /\ Done(q) /\ config' = config
    BY <2>1 DEF CutOff
  <2>5. QED
    BY <2>1, <2>2, <2>3, <2>4, DoneKeepsIInv
<1>6. CASE BodyErrors(q)
  <2>1. PICK w \in Wires : w.socket # "open" /\ wire' = [wire EXCEPT ![q] = w]
    <3>1. [wire[q] EXCEPT !.socket = "left", !.ended = TRUE] \in Wires
      BY <1>1 DEF Wires
    <3>2. wire' = [wire EXCEPT ![q] = [wire[q] EXCEPT !.socket = "left", !.ended = TRUE]]
      BY <1>1, <1>6 DEF BodyErrors
    <3>3. [wire[q] EXCEPT !.socket = "left", !.ended = TRUE].socket = "left"
      BY <1>1 DEF Wires
    <3>4. QED
      BY <3>1, <3>2, <3>3
  <2>2. StatusByCode["internal_error"] \in Statuses \ {0}
    BY StatusOfCode DEF Codes, StatusByCode
  <2>3. request[q].at = "reading" /\ FinishTrace(q, StatusByCode["internal_error"]) /\ Done(q) /\ config' = config
    BY <1>6 DEF BodyErrors
  <2>4. QED
    BY <2>1, <2>2, <2>3, DoneKeepsIInv
<1>7. CASE BodyMalformed(q)
  BY <1>7, StatusOfCode, FailKeepsIInv DEF BodyMalformed, Fail, Codes, StatusByCode, Headed
<1>8. QED
  BY <1>2, <1>3, <1>4, <1>5, <1>6, <1>7

(* Governed execution, seen from outside, and the mock provider's answer. *)
LEMMA AnswersKeepIInv ==
    ASSUME IInv, NEW q \in Requests,
           \/ GovernedCompletes(q) \/ GovernedFails(q) \/ GovernedStreamRefused(q)
           \/ RefuseMock(q) \/ InvokeMock(q)
    PROVE  IInv'
<1>1. FailureStatuses \subseteq Statuses \ {0}
  BY StatusOfCode DEF FailureStatuses, Codes, StatusByCode, Statuses
<1>2. CASE GovernedCompletes(q) \/ GovernedFails(q)
  <2>1. 200 \in Statuses \ {0}
    BY DEF Statuses
  <2>2. PICK status \in Statuses \ {0} :
           request[q].at = "governed" /\ Answer(q, status) /\ config' = config
    BY <1>1, <1>2, <2>1 DEF GovernedCompletes, GovernedFails
  <2>3. QED
    BY <2>2, AnswerKeepsIInv DEF Headed
<1>3. CASE GovernedStreamRefused(q)
  BY <1>1, <1>3, FailKeepsIInv DEF GovernedStreamRefused, Headed
<1>4. CASE RefuseMock(q)
  BY <1>4, StatusOfCode, FailKeepsIInv DEF RefuseMock, Fail, Codes, StatusByCode, Headed
<1>5. CASE InvokeMock(q)
  <2>1. PICK status \in {200, StatusByCode["upstream_error"]} :
           request[q].at = "validating" /\ Answer(q, status) /\ config' = config
    BY <1>5 DEF InvokeMock
  <2>2. status \in Statuses \ {0}
    BY StatusOfCode DEF Codes, StatusByCode, Statuses
  <2>3. QED
    BY <2>1, <2>2, AnswerKeepsIInv DEF Headed
<1>6. QED
  BY <1>2, <1>3, <1>4, <1>5

(* A governed stream, seen from outside. *)
LEMMA RelayKeepsIInv ==
    ASSUME IInv, NEW q \in Requests,
           \/ GovernedStreamOpens(q) \/ GovernedStreamChunk(q)
           \/ GovernedStreamCompletes(q) \/ GovernedStreamFails(q)
    PROVE  IInv'
<1>1. /\ request \in [Requests -> Handlers] /\ wire \in [Requests -> Wires] /\ wire[q] \in Wires
      /\ Follows(wire[q], request[q])
  BY DEF IInv, Typed, WireFollows
<1>2. CASE GovernedStreamOpens(q)
  <2>1. request[q].at = "acquiring" /\ config' = config /\ traces' = traces
    BY <1>2 DEF GovernedStreamOpens
  <2>2. request[q].armed = {} /\ ~wire[q].ended /\ wire[q].status \in {0, 200}
    BY <1>1, <2>1 DEF IInv, NothingLeftArmed, Follows
  <2>3. /\ request' \in [Requests -> Handlers] /\ request'[q].at = "relaying"
        /\ request'[q].armed = {}
    BY <1>1, <1>2, <2>2 DEF GovernedStreamOpens, MoveTo, Handlers, Waiting, Governed
  <2>4. /\ wire' \in [Requests -> Wires] /\ wire'[q].head = TRUE
        /\ wire'[q].status \in {0, 200}
        /\ wire'[q].socket = "open" => wire'[q].status = 200
        /\ wire'[q].ended = wire[q].ended
    <3>1. PICK w : w = [wire[q] EXCEPT !.head = TRUE,
                                       !.status = IF wire[q].socket = "open" THEN 200 ELSE @]
      OBVIOUS
    <3>2. w \in Wires /\ w.head = TRUE /\ w.status \in {0, 200} /\ w.ended = wire[q].ended
          /\ (w.socket = "open" => w.status = 200)
      <4>1. PICK v \in Wires : v = wire[q]
        BY <1>1
      <4>2. w = [status |-> IF v.socket = "open" THEN 200 ELSE v.status,
                 head |-> TRUE, ended |-> v.ended, socket |-> v.socket]
        BY <3>1, <4>1 DEF Wires
      <4>3. w \in Wires
        BY <4>1, <4>2 DEF Wires, Statuses
      <4>4. QED
        BY <2>2, <4>1, <4>2, <4>3
    <3>3. wire' = [wire EXCEPT ![q] = w]
      BY <1>1, <1>2, <3>1 DEF GovernedStreamOpens, Wires
    <3>4. QED
      BY <1>1, <3>2, <3>3
  <2>5. \A p \in Requests \ {q} : request'[p] = request[p] /\ wire'[p] = wire[p]
    BY <1>1, <1>2 DEF GovernedStreamOpens, MoveTo
  <2>6. OnlyMoves(q)
    BY <2>1, <2>3, <2>4, <2>5 DEF OnlyMoves
  <2>7. ArmedFits(request'[q]) /\ Follows(wire'[q], request'[q])
    BY <2>2, <2>3, <2>4 DEF ArmedFits, Follows, Headed, Governed
  <2>8. QED
    BY <2>1, <2>6, <2>7, TracesStay, OneGoesOn
<1>3. CASE GovernedStreamChunk(q)
  <2>1. request[q].at = "relaying" /\ config' = config /\ wire' = wire /\ traces' = traces
    BY <1>3 DEF GovernedStreamChunk
  <2>2. request[q].armed = {}
    BY <2>1 DEF IInv, NothingLeftArmed
  <2>3. /\ request' \in [Requests -> Handlers] /\ request'[q].at = "relaying"
        /\ request'[q].armed = request[q].armed
    BY <1>1, <1>3, <2>1 DEF GovernedStreamChunk, Handlers
  <2>4. \A p \in Requests \ {q} : request'[p] = request[p]
    BY <1>1, <1>3 DEF GovernedStreamChunk
  <2>5. OnlyMoves(q)
    BY <1>1, <2>1, <2>3, <2>4 DEF OnlyMoves
  <2>6. ArmedFits(request'[q]) /\ Follows(wire'[q], request'[q])
    BY <1>1, <2>1, <2>2, <2>3 DEF ArmedFits, Follows
  <2>7. QED
    BY <2>1, <2>5, <2>6, TracesStay, OneGoesOn
<1>4. CASE GovernedStreamCompletes(q) \/ GovernedStreamFails(q)
  <2>1. PICK status \in {200, 499, 502, 504} :
           request[q].at = "relaying" /\ Answer(q, status) /\ config' = config
    <3>1. CASE GovernedStreamCompletes(q)
      BY <3>1 DEF GovernedStreamCompletes
    <3>2. CASE GovernedStreamFails(q)
      <4>1. \A code \in {"upstream_error", "timeout", "cancelled"} : StatusByCode[code] \in {499, 502, 504}
        BY DEF StatusByCode
      <4>2. QED
        BY <3>2, <4>1 DEF GovernedStreamFails
    <3>3. QED
      BY <1>4, <3>1, <3>2
  <2>2. status \in Statuses \ {0}
    BY StatusOfCode DEF Codes, StatusByCode, Statuses
  <2>3. QED
    BY <2>1, <2>2, AnswerKeepsIInv
<1>5. QED
  BY <1>2, <1>3, <1>4

(* The mock stream. *)
LEMMA StreamKeepsIInv ==
    ASSUME IInv, NEW q \in Requests,
           StartStream(q) \/ WriteChunk(q) \/ WriteDone(q) \/ StreamTimerFires(q)
    PROVE  IInv'
<1>1. /\ request \in [Requests -> Handlers] /\ wire \in [Requests -> Wires] /\ wire[q] \in Wires
      /\ Follows(wire[q], request[q])
  BY DEF IInv, Typed, WireFollows
<1>2. CASE StartStream(q)
  <2>1. request[q].at = "validating" /\ config' = config /\ traces' = traces
    BY <1>2 DEF StartStream
  <2>2. /\ request' \in [Requests -> Handlers] /\ request'[q].at = "streaming"
        /\ request'[q].armed = {"total", "idle", NextWrite}
    BY <1>1, <1>2 DEF StartStream, StreamTimers, NextWrite, Handlers, Waiting, Armed
  <2>3. /\ wire' \in [Requests -> Wires] /\ wire'[q].status = 200 /\ wire'[q].head = TRUE
        /\ wire'[q].ended = wire[q].ended /\ wire'[q].socket = wire[q].socket
    <3>1. PICK v \in Wires : v = wire[q]
      BY <1>1
    <3>2. PICK w : w = [wire[q] EXCEPT !.status = 200, !.head = TRUE]
      OBVIOUS
    <3>3. w = [status |-> 200, head |-> TRUE, ended |-> v.ended, socket |-> v.socket] /\ w \in Wires
      <4>1. w = [v EXCEPT !.status = 200, !.head = TRUE]
        BY <3>1, <3>2
      <4>2. w = [status |-> 200, head |-> TRUE, ended |-> v.ended, socket |-> v.socket]
        BY <3>1, <4>1 DEF Wires
      <4>3. QED
        BY <3>1, <4>2 DEF Wires, Statuses
    <3>4. wire' = [wire EXCEPT ![q] = w]
      BY <1>1, <1>2, <3>2 DEF StartStream
    <3>5. QED
      BY <1>1, <3>1, <3>2, <3>3, <3>4
  <2>4. \A p \in Requests \ {q} : request'[p] = request[p] /\ wire'[p] = wire[p]
    BY <1>1, <1>2 DEF StartStream
  <2>5. OnlyMoves(q)
    BY <2>1, <2>2, <2>3, <2>4 DEF OnlyMoves
  <2>6. ArmedFits(request'[q]) /\ Follows(wire'[q], request'[q])
    BY <1>1, <2>1, <2>2, <2>3 DEF ArmedFits, Follows, Headed, Governed
  <2>7. QED
    BY <2>1, <2>5, <2>6, TracesStay, OneGoesOn
<1>3. CASE WriteChunk(q)
  <2>1. request[q].at = "streaming" /\ config' = config /\ wire' = wire /\ traces' = traces
    BY <1>3 DEF WriteChunk, MayWrite
  <2>2. request[q].armed = {"total", "idle", NextWrite}
    BY <2>1 DEF IInv, NothingLeftArmed
  <2>3. /\ request' \in [Requests -> Handlers] /\ request'[q].at = "streaming"
        /\ request'[q].armed = request[q].armed
    BY <1>1, <1>3, <2>1 DEF WriteChunk, Handlers
  <2>4. \A p \in Requests \ {q} : request'[p] = request[p]
    BY <1>1, <1>3 DEF WriteChunk
  <2>6. OnlyMoves(q)
    BY <1>1, <2>1, <2>3, <2>4 DEF OnlyMoves
  <2>7. ArmedFits(request'[q]) /\ Follows(wire'[q], request'[q])
    BY <1>1, <2>1, <2>2, <2>3 DEF ArmedFits, Follows
  <2>8. QED
    BY <2>1, <2>6, <2>7, TracesStay, OneGoesOn
<1>4. CASE WriteDone(q)
  BY <1>4, AnswerKeepsIInv DEF WriteDone, MayWrite, Statuses, Headed
<1>5. CASE StreamTimerFires(q)
  <2>1. request[q].at = "streaming" /\ FailWith(q, "timeout", 504)
    BY <1>5 DEF StreamTimerFires, Fail, StatusByCode
  <2>2. 504 \in Statuses \ {0}
    BY StatusOfCode DEF Codes, StatusByCode
  <2>3. QED
    BY <2>1, <2>2, FailKeepsIInv DEF Headed
<1>6. QED
  BY <1>2, <1>3, <1>4, <1>5

(* A client whose socket closes. *)
LEMMA LeavingKeepsIInv ==
    ASSUME IInv, NEW q \in Requests, ClientLeaves(q)
    PROVE  IInv'
<1>1. /\ request \in [Requests -> Handlers] /\ wire \in [Requests -> Wires] /\ wire[q] \in Wires
      /\ Follows(wire[q], request[q]) /\ config' = config
  BY DEF IInv, Typed, WireFollows, ClientLeaves
<1>2. CASE request[q].at = "reading"
  <2>1. /\ FinishTrace(q, StatusByCode["invalid_request"]) /\ Done(q)
        /\ wire' = [wire EXCEPT ![q].socket = "left", ![q].ended = TRUE]
    BY <1>2 DEF ClientLeaves, Governed
  <2>2. PICK w \in Wires : w.socket # "open" /\ wire' = [wire EXCEPT ![q] = w]
    <3>1. [wire[q] EXCEPT !.socket = "left", !.ended = TRUE] \in Wires
      BY <1>1 DEF Wires
    <3>2. wire' = [wire EXCEPT ![q] = [wire[q] EXCEPT !.socket = "left", !.ended = TRUE]]
      BY <1>1, <2>1
    <3>3. [wire[q] EXCEPT !.socket = "left", !.ended = TRUE].socket = "left"
      BY <1>1 DEF Wires
    <3>4. QED
      BY <3>1, <3>2, <3>3
  <2>3. StatusByCode["invalid_request"] \in Statuses \ {0}
    BY StatusOfCode DEF Codes, StatusByCode
  <2>4. QED
    BY <1>1, <1>2, <2>1, <2>2, <2>3, DoneKeepsIInv
<1>3. CASE request[q].at # "reading"
  <2>1. /\ request[q].at \in {"streaming"} \cup Governed /\ traces' = traces
        /\ wire' = [wire EXCEPT ![q].socket = "left"]
    BY <1>3 DEF ClientLeaves
  <2>2. /\ wire' \in [Requests -> Wires] /\ wire'[q].status = wire[q].status
        /\ wire'[q].ended = wire[q].ended /\ (wire'[q].head <=> wire[q].head)
        /\ wire'[q].socket = "left"
        /\ \A p \in Requests \ {q} : wire'[p] = wire[p]
    <3>1. PICK v \in Wires : v = wire[q]
      BY <1>1
    <3>2. PICK w : w = [wire[q] EXCEPT !.socket = "left"]
      OBVIOUS
    <3>3. /\ w = [status |-> v.status, head |-> v.head, ended |-> v.ended, socket |-> "left"]
          /\ w \in Wires
      BY <3>1, <3>2 DEF Wires
    <3>4. wire' = [wire EXCEPT ![q] = w]
      BY <1>1, <2>1, <3>2
    <3>5. QED
      BY <1>1, <3>1, <3>2, <3>3, <3>4
  <2>3. CASE request[q].at = "streaming"
    <3>1. Done(q)
      BY <2>3 DEF ClientLeaves, Governed
    <3>2. /\ request' \in [Requests -> Handlers] /\ request'[q].at = "done" /\ request'[q].armed = {}
          /\ \A p \in Requests \ {q} : request'[p] = request[p]
      BY <1>1, <3>1 DEF Done, Handlers
    <3>3. OnlyMoves(q)
      BY <1>1, <2>2, <3>2 DEF OnlyMoves
    <3>4. ArmedFits(request'[q]) /\ Follows(wire'[q], request'[q])
      BY <3>2 DEF ArmedFits, Follows
    <3>5. QED
      BY <2>1, <2>3, <3>3, <3>4, TracesStay, OneGoesOn
  <2>4. CASE request[q].at \in Governed
    <3>1. request' = request
      BY <2>4 DEF ClientLeaves, Governed
    <3>2. OnlyMoves(q)
      BY <1>1, <2>2, <3>1 DEF OnlyMoves
    <3>3. ArmedFits(request'[q]) /\ Follows(wire'[q], request'[q])
      <4>1. request'[q] = request[q] /\ wire'[q].socket = "left" /\ ~wire'[q].ended
            /\ request[q].at \notin {"done", "reading", "streaming"}
        BY <1>1, <2>2, <2>4, <3>1 DEF Follows, Governed
      <4>2. request[q].armed = {}
        BY <4>1 DEF IInv, NothingLeftArmed
      <4>3. ArmedFits(request'[q])
        BY <4>1, <4>2 DEF ArmedFits
      <4>4. Follows(wire'[q], request'[q])
        BY <1>1, <2>2, <2>4, <4>1 DEF Follows
      <4>5. QED
        BY <4>3, <4>4
    <3>4. QED
      BY <2>1, <2>4, <3>2, <3>3, TracesStay, OneGoesOn DEF Governed
  <2>5. QED
    BY <2>1, <2>3, <2>4
<1>4. QED
  BY <1>2, <1>3

LEMMA QuietKeepsIInv ==
    ASSUME IInv, UNCHANGED <<config, request, wire>>, traces' \in {traces, <<>>}
    PROVE  IInv'
<1>1. Typed' /\ NextWrite' = NextWrite
  BY DEF IInv, Typed, NextWrite
<1>2. NothingLeftArmed' /\ WireFollows'
  BY <1>1 DEF IInv, NothingLeftArmed, WireFollows
<1>3. TracesTell'
  <2>1. CASE traces' = traces
    BY <2>1 DEF IInv, TracesTell, Tells
  <2>2. CASE traces' = <<>>
    BY <2>2 DEF TracesTell
  <2>3. QED
    BY <2>1, <2>2
<1>4. QED
  BY <1>1, <1>2, <1>3 DEF IInv

-----------------------------------------------------------------------------
LEMMA NextKeepsIInv == IInv /\ [Next]_vars => IInv'
<1> SUFFICES ASSUME IInv, [Next]_vars PROVE IInv'
  OBVIOUS
<1>1. CASE Clear
  BY <1>1, QuietKeepsIInv DEF Clear
<1>2. ASSUME NEW q \in Requests, Handler(q)
      PROVE  IInv'
  BY <1>2, FrontKeepsIInv, ReaderKeepsIInv, AnswersKeepIInv, RelayKeepsIInv, StreamKeepsIInv
     DEF Handler
<1>3. ASSUME NEW q \in Requests, Client(q)
      PROVE  IInv'
  BY <1>3, FrontKeepsIInv, ReaderKeepsIInv, LeavingKeepsIInv DEF Client
<1>4. CASE UNCHANGED vars
  BY <1>4, QuietKeepsIInv DEF vars
<1>5. QED
  BY <1>1, <1>2, <1>3, <1>4 DEF Next

(* The invariant holds of every behaviour. *)
THEOREM Inductive == Spec => []IInv
BY InitIInv, NextKeepsIInv, PTL DEF Spec

(* A handler has timers armed only for the wait it is in: for every number of requests, and
   whatever the clients and the timers do. *)
THEOREM NothingIsLeftArmed == Spec => []NothingLeftArmed
<1>1. IInv => NothingLeftArmed
  BY DEF IInv
<1>2. QED
  BY <1>1, Inductive, PTL

(* A finished trace tells what the client received, whichever of the handler's many exits
   wrote the answer. *)
THEOREM TracesTellAnswers == Spec => []TraceTellsAnswer
<1>1. IInv => TraceTellsAnswer
  <2>1. SUFFICES ASSUME IInv, NEW i \in DOMAIN traces,
                        traces[i].status # 0, wire[traces[i].request].socket = "open"
                 PROVE  LET w == wire[traces[i].request]
                        IN  w.ended /\ (\/ w.status = traces[i].status
                                        \/ w.head /\ w.status = 200 /\ traces[i].status \in {499, 502, 504})
    BY DEF TraceTellsAnswer
  <2>2. Says(traces[i].status, wire[traces[i].request], request[traces[i].request])
    BY <2>1 DEF IInv, TracesTell, Tells
  <2>3. QED
    BY <2>1, <2>2 DEF Says, Reads
<1>2. QED
  BY <1>1, Inductive, PTL

-----------------------------------------------------------------------------
(***************************************************************************)
(* The collector's traces.  What its stores need to know of a step of a    *)
(* request is one of four things: it arrives, goes on, is finished with a  *)
(* status, or is dropped by a client that leaves its mock stream.          *)
(***************************************************************************)

Active == Urgent \cup Waiting

GoesOn(q) ==
    /\ request[q].at \in Active /\ request'[q].at \in Active
    /\ traces' = traces

Finishes(q) ==
    /\ request[q].at \in Active /\ request'[q].at = "done" /\ wire'[q].ended
    /\ \E status \in Statuses \ {0} : FinishTrace(q, status)

Drops(q) ==
    /\ request[q].at = "streaming" /\ request'[q].at = "done"
    /\ wire'[q].status = 200 /\ ~wire'[q].ended
    /\ traces' = traces

OthersStay(q) ==
    /\ config' = config
    /\ \A p \in Requests \ {q} : request'[p] = request[p] /\ wire'[p] = wire[p]

(* An answer, with whatever status, finishes the request and ends its response. *)
LEMMA AnswerFinishes ==
    ASSUME IInv, NEW q \in Requests, request[q].at \in Active,
           NEW status \in Statuses \ {0}, Answer(q, status), config' = config
    PROVE  OthersStay(q) /\ Finishes(q)
<1>1. request \in [Requests -> Handlers] /\ wire \in [Requests -> Wires] /\ wire[q] \in Wires
  BY DEF IInv, Typed
<1>2. PICK w : w = Answered(wire[q], status)
  OBVIOUS
<1>3. w.ended
  BY <1>1, <1>2 DEF Answered, Wires
<1>4. wire' = [wire EXCEPT ![q] = w] /\ Done(q) /\ FinishTrace(q, status)
  BY <1>1, <1>2 DEF Answer
<1>5. request'[q].at = "done" /\ \A p \in Requests \ {q} : request'[p] = request[p]
  BY <1>1, <1>4 DEF Done, Handlers
<1>6. wire'[q] = w /\ \A p \in Requests \ {q} : wire'[p] = wire[p]
  BY <1>1, <1>4
<1>7. QED
  BY <1>3, <1>4, <1>5, <1>6 DEF OthersStay, Finishes

LEMMA FailFinishes ==
    ASSUME IInv, NEW q \in Requests, request[q].at \in Active,
           NEW code, NEW status \in Statuses \ {0}, FailWith(q, code, status)
    PROVE  OthersStay(q) /\ Finishes(q)
BY AnswerFinishes DEF FailWith

(* A handler that moves on without an answer. *)
LEMMA MoveGoesOn ==
    ASSUME IInv, NEW q \in Requests, request[q].at \in Active, NEW at \in Active,
           MoveTo(q, at), UNCHANGED <<config, wire, traces>>
    PROVE  OthersStay(q) /\ GoesOn(q)
<1>1. request \in [Requests -> Handlers]
  BY DEF IInv, Typed
<1>2. request'[q].at = at /\ \A p \in Requests \ {q} : request'[p] = request[p]
  BY <1>1 DEF MoveTo, Handlers
<1>3. QED
  BY <1>2 DEF OthersStay, GoesOn

(* Everything a handler or its client does to a request that has arrived. *)
LEMMA TraceStep ==
    ASSUME IInv, NEW q \in Requests, Handler(q) \/ Client(q)
    PROVE  Arrive(q) \/ (OthersStay(q) /\ (GoesOn(q) \/ Finishes(q) \/ Drops(q)))
<1> DEFINE Known == OthersStay(q) /\ (GoesOn(q) \/ Finishes(q) \/ Drops(q))
<1>1. /\ request \in [Requests -> Handlers] /\ wire \in [Requests -> Wires] /\ wire[q] \in Wires
      /\ Follows(wire[q], request[q])
  BY DEF IInv, Typed, WireFollows
<1>2. \A code \in Codes : StatusByCode[code] \in Statuses \ {0}
  BY StatusOfCode
<1>3. {200, 405, 415} \subseteq Statuses \ {0}
  BY DEF Statuses
<1>4. ASSUME request[q].at \in Active, NEW code, NEW status \in Statuses \ {0},
             FailWith(q, code, status)
      PROVE  Known
  BY <1>4, FailFinishes
<1>5. ASSUME request[q].at \in Active, NEW code \in Codes, Fail(q, code)
      PROVE  Known
  BY <1>2, <1>4, <1>5 DEF Fail
<1>6. ASSUME request[q].at \in Active, NEW status \in Statuses \ {0}, Answer(q, status),
             config' = config
      PROVE  Known
  BY <1>6, AnswerFinishes
<1>7. CASE Authenticate(q)
  <2>1. request[q].at = "received"
    BY <1>7 DEF Authenticate
  <2>2. CASE MoveTo(q, "routing") /\ UNCHANGED <<config, wire, stores, clears>>
    BY <2>1, <2>2, MoveGoesOn DEF stores, Active, Urgent
  <2>3. CASE \E code \in Codes : Fail(q, code)
    BY <1>5, <2>1, <2>3 DEF Active, Urgent
  <2>4. \A loopback \in BOOLEAN,
           token \in {"right", "missing", "unprefixed", "repeated", "long", "padded", "wrong"} :
             AuthErrors(loopback, token) \subseteq Codes
    BY DEF AuthErrors, Codes, StatusByCode
  <2>5. QED
    BY <1>7, <2>2, <2>3, <2>4 DEF Authenticate
<1>8. CASE RefuseRoute(q) \/ AnswerReadOnly(q) \/ RefuseHeaders(q) \/ RefuseModel(q)
  <2>1. request[q].at \in Active
    BY <1>8 DEF RefuseRoute, AnswerReadOnly, RefuseHeaders, RefuseModel, Active, Urgent
  <2>2. {"model_not_found", "invalid_request", "request_too_large", "execution_disabled"} \subseteq Codes
    BY DEF Codes, StatusByCode
  <2>3. CASE AnswerReadOnly(q)
    BY <1>3, <1>6, <2>1, <2>3 DEF AnswerReadOnly
  <2>4. CASE RefuseRoute(q) \/ RefuseHeaders(q) \/ RefuseModel(q)
    BY <1>3, <1>4, <1>5, <2>1, <2>2, <2>4 DEF RefuseRoute, RefuseHeaders, RefuseModel
  <2>5. QED
    BY <1>8, <2>3, <2>4
<1>9. CASE RouteChat(q) \/ RouteGoverned(q) \/ RouteMock(q)
  <2>1. request[q].at \in Active
    BY <1>9 DEF RouteChat, RouteGoverned, RouteMock, Active, Urgent
  <2>2. CASE \E at \in Active : MoveTo(q, at) /\ UNCHANGED <<config, wire, traces>>
    BY <2>1, <2>2, MoveGoesOn
  <2>3. CASE Fail(q, "invalid_request")
    BY <1>5, <2>1, <2>3 DEF Codes, StatusByCode
  <2>4. QED
    BY <1>9, <2>2, <2>3 DEF RouteChat, RouteGoverned, RouteMock, stores, Active, Urgent, Waiting,
       Governed
<1>10. CASE StartReading(q) \/ BodyData(q) \/ BodyEnds(q) \/ GovernedStreamChunk(q) \/ WriteChunk(q)
  <2>1. /\ request[q].at \in Active /\ request'[q].at \in Active
        /\ \A p \in Requests \ {q} : request'[p] = request[p]
    BY <1>1, <1>10 DEF StartReading, BodyData, BodyEnds, GovernedStreamChunk, WriteChunk, MayWrite,
       Handlers, Active, Urgent, Waiting, Governed
  <2>2. config' = config /\ wire' = wire /\ traces' = traces
    BY <1>10 DEF StartReading, BodyData, BodyEnds, GovernedStreamChunk, WriteChunk, stores
  <2>3. QED
    BY <2>1, <2>2 DEF OthersStay, GoesOn
<1>11. CASE GovernedStreamOpens(q) \/ StartStream(q)
  <2>1. /\ request[q].at \in Active /\ request'[q].at \in Active
        /\ \A p \in Requests \ {q} : request'[p] = request[p] /\ wire'[p] = wire[p]
    BY <1>1, <1>11 DEF GovernedStreamOpens, MoveTo, StartStream, Handlers, Active, Urgent, Waiting,
       Governed
  <2>2. QED
    BY <1>11, <2>1 DEF GovernedStreamOpens, StartStream, OthersStay, GoesOn
<1>12. ASSUME request[q].at = "reading", NEW code \in Codes, FinishTrace(q, StatusByCode[code]),
              Done(q), config' = config,
              \E socket \in {"left", "destroyed"} :
                 wire' = [wire EXCEPT ![q].socket = socket, ![q].ended = TRUE]
       PROVE  Known
  <2>1. request'[q].at = "done" /\ \A p \in Requests \ {q} : request'[p] = request[p]
    BY <1>1, <1>12 DEF Done, Handlers
  <2>2. wire'[q].ended /\ \A p \in Requests \ {q} : wire'[p] = wire[p]
    BY <1>1, <1>12 DEF Wires
  <2>3. QED
    BY <1>2, <1>12, <2>1, <2>2 DEF OthersStay, Finishes, Active, Waiting
<1>13. CASE BodyTooLarge(q) \/ BodyTimerFires(q) \/ BodyErrors(q) \/ BodyMalformed(q)
  <2>1. /\ request[q].at = "reading" /\ request[q].at \in Active
        /\ {"request_too_large", "timeout", "internal_error", "invalid_request"} \subseteq Codes
    BY <1>13 DEF BodyTooLarge, BodyTimerFires, BodyErrors, BodyMalformed, Active, Waiting, Codes,
       StatusByCode
  <2>2. CASE BodyMalformed(q)
    BY <1>5, <2>1, <2>2 DEF BodyMalformed
  <2>3. CASE BodyTooLarge(q) \/ BodyTimerFires(q) \/ BodyErrors(q)
    BY <1>12, <2>1, <2>3 DEF BodyTooLarge, BodyTimerFires, BodyErrors, CutOff
  <2>4. QED
    BY <1>13, <2>2, <2>3
<1>14. CASE \/ GovernedCompletes(q) \/ GovernedFails(q) \/ GovernedStreamRefused(q)
            \/ GovernedStreamCompletes(q) \/ GovernedStreamFails(q)
            \/ RefuseMock(q) \/ InvokeMock(q) \/ WriteDone(q) \/ StreamTimerFires(q)
  <2>1. request[q].at \in Active
    BY <1>14 DEF GovernedCompletes, GovernedFails, GovernedStreamRefused, GovernedStreamCompletes,
       GovernedStreamFails, RefuseMock, InvokeMock, WriteDone, MayWrite, StreamTimerFires, Active,
       Urgent, Waiting, Governed
  <2>2. /\ {"upstream_error", "timeout", "cancelled", "invalid_request", "model_not_found",
            "unsupported_capability"} \subseteq Codes
        /\ 200 \in Statuses \ {0} /\ FailureStatuses \subseteq Statuses \ {0}
    BY <1>2, <1>3 DEF Codes, StatusByCode, FailureStatuses
  <2>3. CASE RefuseMock(q) \/ StreamTimerFires(q) \/ GovernedStreamRefused(q)
    BY <1>4, <1>5, <2>1, <2>2, <2>3 DEF RefuseMock, StreamTimerFires, GovernedStreamRefused
  <2>4. CASE \/ GovernedCompletes(q) \/ GovernedFails(q) \/ InvokeMock(q) \/ WriteDone(q)
             \/ GovernedStreamCompletes(q) \/ GovernedStreamFails(q)
    BY <1>2, <1>6, <2>1, <2>2, <2>4 DEF GovernedCompletes, GovernedFails, InvokeMock, WriteDone,
       GovernedStreamCompletes, GovernedStreamFails
  <2>5. QED
    BY <1>14, <2>3, <2>4
<1>15. CASE ClientLeaves(q)
  <2>1. config' = config /\ request[q].at \in Waiting
    BY <1>15 DEF ClientLeaves
  <2>2. CASE request[q].at = "reading"
    BY <1>12, <1>15, <2>2 DEF ClientLeaves, Codes, StatusByCode, Governed
  <2>3. CASE request[q].at = "streaming"
    <3>1. Done(q) /\ traces' = traces /\ wire' = [wire EXCEPT ![q].socket = "left"]
      BY <1>15, <2>3 DEF ClientLeaves, Governed
    <3>2. request'[q].at = "done" /\ \A p \in Requests \ {q} : request'[p] = request[p]
      BY <1>1, <3>1 DEF Done, Handlers
    <3>3. /\ wire'[q].status = 200 /\ ~wire'[q].ended
          /\ \A p \in Requests \ {q} : wire'[p] = wire[p]
      BY <1>1, <2>3, <3>1 DEF Wires, Follows, Headed, Governed
    <3>4. QED
      BY <2>1, <2>3, <3>1, <3>2, <3>3 DEF OthersStay, Drops
  <2>4. CASE request[q].at \in Governed
    <3>1. request' = request /\ traces' = traces /\ wire' = [wire EXCEPT ![q].socket = "left"]
      BY <1>15, <2>4 DEF ClientLeaves, Governed
    <3>2. \A p \in Requests \ {q} : wire'[p] = wire[p]
      BY <1>1, <3>1
    <3>3. QED
      BY <2>1, <2>4, <3>1, <3>2 DEF OthersStay, GoesOn, Active, Waiting
  <2>5. QED
    BY <2>1, <2>2, <2>3, <2>4 DEF Waiting
<1>16. QED
  BY <1>7, <1>8, <1>9, <1>10, <1>11, <1>13, <1>14, <1>15 DEF Handler, Client

(* What one more record makes of a store: it comes last, after the newest of those before. *)
LEMMA BoundedByOne ==
    ASSUME NEW S, NEW store \in Seq(S), NEW more \in Seq(S), Len(more) = 1, NEW max \in Nat \ {0},
           NEW b, b = Bounded(store, more, max), NEW d, d = Len(store) + 1 - Len(b)
    PROVE  /\ b \in Seq(S) /\ Len(b) = Smaller(max, Len(store) + 1) /\ d \in Nat
           /\ Len(b) \in 1 .. Len(store) + 1
           /\ b[Len(b)] = more[1]
           /\ \A i \in 1 .. Len(b) - 1 : b[i] = store[i + d] /\ i + d \in DOMAIN store
<1>1. PICK m \in Nat : m = Len(store)
  OBVIOUS
<1>2. PICK n : n = Smaller(max, m + 1)
  OBVIOUS
<1>3. PICK first : first = IF m + 1 > max THEN m + 1 - max + 1 ELSE 1
  OBVIOUS
<1>4. PICK all : all = store \o more
  OBVIOUS
<1>5. /\ all \in Seq(S) /\ Len(all) = m + 1
      /\ \A i \in 1 .. m + 1 : all[i] = IF i <= m THEN store[i] ELSE more[i - m]
  <2>1. /\ (store \o more) \in Seq(S) /\ Len(store \o more) = Len(store) + Len(more)
        /\ \A i \in 1 .. Len(store) + Len(more) :
              (store \o more)[i] = IF i <= Len(store) THEN store[i] ELSE more[i - Len(store)]
    BY ConcatProperties
  <2>2. QED
    BY <1>1, <1>4, <2>1
<1>6. n \in 1 .. m + 1 /\ first \in 1 .. m + 1 /\ m + 1 - first + 1 = n
  BY <1>1, <1>2, <1>3 DEF Smaller
<1>7. b = SubSeq(all, first, m + 1)
  BY <1>3, <1>4, <1>5 DEF Bounded
<1>8. /\ b \in Seq(S) /\ Len(b) = n
      /\ \A i \in 1 .. n : b[i] = all[first + i - 1]
  <2>1. \A i \in first .. m + 1 : all[i] \in S
    BY <1>5, <1>6, ElementOfSeq
  <2>2. /\ SubSeq(all, first, m + 1) \in Seq(S)
        /\ Len(SubSeq(all, first, m + 1)) = IF first <= m + 1 THEN m + 1 - first + 1 ELSE 0
        /\ \A i \in 1 .. m + 1 - first + 1 : SubSeq(all, first, m + 1)[i] = all[first + i - 1]
    BY <1>6, <2>1, SubSeqProperties
  <2>3. QED
    BY <1>6, <1>7, <2>2
<1>9. n \in 1 .. m + 1 /\ d = m + 1 - n /\ d \in Nat /\ first = d + 1
  BY <1>1, <1>6, <1>8
<1>10. ASSUME NEW i \in 1 .. n
       PROVE  b[i] = all[i + d] /\ i + d \in 1 .. m + 1
  <2>1. first + i - 1 = i + d /\ i + d \in 1 .. m + 1
    BY <1>9
  <2>2. QED
    BY <1>8, <2>1
<1>11. b[n] = more[1]
  <2>1. n + d = m + 1 /\ m + 1 - m = 1 /\ n \in 1 .. n /\ ~(m + 1 <= m) /\ m + 1 \in 1 .. m + 1
    BY <1>9
  <2>2. b[n] = all[m + 1]
    BY <1>10, <2>1
  <2>3. all[m + 1] = more[m + 1 - m]
    BY <1>5, <2>1
  <2>4. QED
    BY <2>1, <2>2, <2>3
<1>12. ASSUME NEW i \in 1 .. n - 1
       PROVE  b[i] = store[i + d] /\ i + d \in DOMAIN store
  <2>1. i \in 1 .. n /\ i + d \in 1 .. m /\ i + d \in 1 .. m + 1 /\ i + d <= m
    BY <1>9
  <2>2. b[i] = all[i + d]
    BY <1>10, <2>1
  <2>3. all[i + d] = store[i + d]
    BY <1>5, <2>1
  <2>4. QED
    BY <1>1, <2>1, <2>2, <2>3
<1>13. QED
  BY <1>1, <1>2, <1>8, <1>9, <1>11, <1>12

-----------------------------------------------------------------------------
(* OpenTraceIsActive is inductive once a request that has not arrived has no trace.  Whether
   a trace may be open is a matter of its request alone. *)
StillOpen(w, r) == r.at # "done" \/ (w.status = 200 /\ ~w.ended)

Placed(t) ==
    /\ request[t.request].at # "new"
    /\ t.status = 0 <=> StillOpen(wire[t.request], request[t.request])

OpenInv == /\ \A i \in DOMAIN traces : Placed(traces[i])
           /\ \A i, j \in DOMAIN traces : traces[i].request = traces[j].request => i = j

LEMMA OthersStayPlaced ==
    ASSUME NEW q \in Requests, OthersStay(q), NEW t \in Traced, t.request # q, Placed(t)
    PROVE  Placed(t)'
<1>1. request'[t.request] = request[t.request] /\ wire'[t.request] = wire[t.request]
  BY DEF OthersStay, Traced
<1>2. QED
  BY <1>1 DEF Placed

LEMMA TracesAreTraced ==
    ASSUME IInv
    PROVE  traces \in Seq(Traced) /\ \A i \in DOMAIN traces : traces[i] \in Traced
BY DEF IInv, TracesTell

(* A request that arrives pushes the only trace it will have. *)
LEMMA ArriveKeepsOpen ==
    ASSUME IInv, OpenInv, NEW q \in Requests, Arrive(q)
    PROVE  OpenInv'
<1>1. /\ request \in [Requests -> Handlers] /\ traces \in Seq(Traced)
      /\ \A i \in DOMAIN traces : traces[i] \in Traced
      /\ request[q].at = "new" /\ config' = config /\ wire' = wire
  BY TracesAreTraced DEF IInv, Typed, Arrive
<1>2. request'[q].at = "received" /\ \A p \in Requests \ {q} : request'[p] = request[p]
  BY <1>1 DEF Arrive, MoveTo, Handlers
<1>3. OthersStay(q)
  BY <1>1, <1>2 DEF OthersStay
<1>4. \A i \in DOMAIN traces : traces[i].request # q /\ Placed(traces[i])
  BY <1>1 DEF OpenInv, Placed
<1>5. ASSUME NEW i \in DOMAIN traces, NEW t, t = traces[i]
      PROVE  t \in Traced /\ t.request # q /\ Placed(t)'
  BY <1>1, <1>3, <1>4, <1>5, OthersStayPlaced
<1>6. CASE ~config.collecting
  <2>1. traces' = traces
    BY <1>6 DEF Arrive, Record
  <2>2. ASSUME NEW t, NEW i \in DOMAIN traces', t = traces'[i]
        PROVE  Placed(t)'
    BY <1>5, <2>1, <2>2
  <2>3. QED
    BY <2>1, <2>2 DEF OpenInv
<1>7. CASE config.collecting
  <2>1. PICK new : new = [request |-> q, status |-> 0]
    OBVIOUS
  <2>2. PICK more : more = <<new>>
    OBVIOUS
  <2>3. PICK d : d = Len(traces) + 1 - Len(traces')
    OBVIOUS
  <2>4. /\ new \in Traced /\ new.request = q /\ new.status = 0
        /\ config.maxTraces \in Nat \ {0}
    BY <2>1, IntakeAssumption DEF Traced, Statuses, IInv, Typed, Config
  <2>5. more \in Seq(Traced) /\ Len(more) = 1 /\ more[1] = new
    BY <2>2, <2>4
  <2>6. traces' = Bounded(traces, more, config.maxTraces)
    BY <1>7, <2>1, <2>2 DEF Arrive, Record
  <2>7. /\ traces' \in Seq(Traced) /\ d \in Nat /\ Len(traces') \in 1 .. Len(traces) + 1
        /\ traces'[Len(traces')] = new
        /\ \A i \in 1 .. Len(traces') - 1 : traces'[i] = traces[i + d] /\ i + d \in DOMAIN traces
    BY <1>1, <2>3, <2>4, <2>5, <2>6, BoundedByOne
  <2>8. DOMAIN traces' = 1 .. Len(traces') /\ Len(traces') \in Nat
    BY <2>7
  <2>9. \A i \in DOMAIN traces' : \/ i = Len(traces') /\ traces'[i] = new
                                  \/ /\ i \in 1 .. Len(traces') - 1
                                     /\ traces'[i] = traces[i + d] /\ i + d \in DOMAIN traces
    BY <2>7, <2>8
  <2>10. Placed(new)'
    BY <1>2, <2>4 DEF Placed, StillOpen
  <2>11. ASSUME NEW t, NEW i \in DOMAIN traces', t = traces'[i]
         PROVE  Placed(t)'
    BY <1>5, <2>9, <2>10, <2>11
  <2>12. ASSUME NEW i \in DOMAIN traces', NEW j \in DOMAIN traces',
                traces'[i].request = traces'[j].request
         PROVE  i = j
    <3>1. CASE i = Len(traces') \/ j = Len(traces')
      BY <1>4, <2>4, <2>9, <2>12, <3>1
    <3>2. CASE i # Len(traces') /\ j # Len(traces')
      <4>1. i + d = j + d
        BY <2>9, <2>12, <3>2 DEF OpenInv
      <4>2. QED
        BY <2>7, <2>8, <4>1
    <3>3. QED
      BY <3>1, <3>2
  <2>13. QED
    BY <2>11, <2>12 DEF OpenInv
<1>8. QED
  BY <1>6, <1>7

LEMMA NextKeepsOpen == IInv /\ OpenInv /\ [Next]_vars => OpenInv'
<1> SUFFICES ASSUME IInv, OpenInv, [Next]_vars PROVE OpenInv'
  OBVIOUS
<1>1. \A i \in DOMAIN traces : traces[i] \in Traced /\ Placed(traces[i])
  BY TracesAreTraced DEF OpenInv
<1>2. CASE Clear
  BY <1>2 DEF Clear, OpenInv
<1>3. CASE UNCHANGED vars
  BY <1>3 DEF vars, OpenInv, Placed, StillOpen
<1>4. ASSUME NEW q \in Requests, OthersStay(q), traces' = traces,
             NEW from, NEW to, from = request[q], to = request'[q],
             from.at # "new" => to.at # "new",
             from.at # "new" => (StillOpen(wire'[q], to) <=> StillOpen(wire[q], from))
      PROVE  OpenInv'
  <2>1. ASSUME NEW t \in Traced, Placed(t)
        PROVE  Placed(t)'
    BY <1>4, <2>1, OthersStayPlaced DEF Placed
  <2>2. ASSUME NEW t, NEW i \in DOMAIN traces', t = traces'[i]
        PROVE  Placed(t)'
    BY <1>1, <1>4, <2>1, <2>2
  <2>3. QED
    BY <1>4, <2>2 DEF OpenInv
<1>5. ASSUME NEW q \in Requests, OthersStay(q), GoesOn(q)
      PROVE  OpenInv'
  <2>1. traces' = traces /\ request[q].at \notin {"new", "done"} /\ request'[q].at \notin {"new", "done"}
    BY <1>5 DEF GoesOn, Active, Urgent, Waiting, Governed
  <2>2. QED
    BY <1>4, <1>5, <2>1 DEF StillOpen
<1>6. ASSUME NEW q \in Requests, OthersStay(q), Drops(q)
      PROVE  OpenInv'
  BY <1>4, <1>6 DEF Drops, StillOpen
<1>7. ASSUME NEW q \in Requests, OthersStay(q), Finishes(q)
      PROVE  OpenInv'
  <2>1. PICK status \in Statuses \ {0} : FinishTrace(q, status)
    BY <1>7 DEF Finishes
  <2>2. request'[q].at = "done" /\ wire'[q].ended
    BY <1>7 DEF Finishes
  <2>3. ASSUME NEW i \in DOMAIN traces, NEW t, t = traces[i], NEW u, u = traces'[i]
        PROVE  Placed(u)' /\ u.request = t.request
    <3>1. t \in Traced /\ Placed(t)
      BY <1>1, <2>3
    <3>2. CASE t.request # q
      <4>1. u = t
        BY <2>1, <2>3, <3>2 DEF FinishTrace
      <4>2. QED
        BY <1>7, <3>1, <3>2, <4>1, OthersStayPlaced
    <3>3. CASE t.request = q
      <4>1. u = [t EXCEPT !.status = status]
        BY <2>1, <2>3, <3>3 DEF FinishTrace
      <4>2. u.request = q /\ u.status = status
        BY <3>1, <3>3, <4>1 DEF Traced
      <4>3. QED
        BY <2>1, <2>2, <3>3, <4>2 DEF Placed, StillOpen
    <3>4. QED
      BY <3>2, <3>3
  <2>4. DOMAIN traces' = DOMAIN traces
    BY <2>1 DEF FinishTrace
  <2>5. ASSUME NEW u, NEW i \in DOMAIN traces', u = traces'[i]
        PROVE  Placed(u)'
    BY <2>3, <2>4, <2>5
  <2>6. \A i \in DOMAIN traces : traces'[i].request = traces[i].request
    BY <2>3
  <2>7. QED
    BY <2>4, <2>5, <2>6 DEF OpenInv
<1>8. ASSUME NEW q \in Requests, Handler(q) \/ Client(q)
      PROVE  OpenInv'
  BY <1>5, <1>6, <1>7, <1>8, TraceStep, ArriveKeepsOpen
<1>9. QED
  BY <1>2, <1>3, <1>8 DEF Next

(* A trace that the collector still holds is open exactly while its handler runs (or was
   dropped in the middle of a stream), and it is its request's only one: however requests
   overlap, and whatever the collector evicts between recordTrace and finishTrace. *)
THEOREM OpenTracesAreActive == Spec => []OpenTraceIsActive
<1>1. Init => OpenInv
  BY DEF Init, OpenInv
<1>2. OpenInv => OpenTraceIsActive
  BY DEF OpenInv, OpenTraceIsActive, Placed, StillOpen, Abandoned
<1>3. QED
  BY <1>1, <1>2, NextKeepsOpen, Inductive, PTL DEF Spec

-----------------------------------------------------------------------------
(***************************************************************************)
(* The collector's books.  A step charges the request it finishes, with a  *)
(* success of one provider; counts a failure; or leaves the books alone.   *)
(* That a request is charged once is then a fact about its handler, which  *)
(* is not done before it is charged, and is done afterwards.               *)
(***************************************************************************)
HealthRecord == [requests : Nat, errors : Nat, successes : Nat, failures : Nat]

Charges(q) ==
    /\ request[q].at # "done" /\ request'[q].at = "done"
    /\ RecordUsage(q) /\ unreported' = unreported
    /\ FinishTrace(q, 200)
    /\ \E provider \in Providers : RecordHealth(provider, TRUE)

SucceedsUncharged ==
    /\ usage' = usage /\ unreported' = unreported + 1
    /\ \E provider \in Providers : RecordHealth(provider, TRUE)

CountsFailure ==
    /\ usage' = usage /\ unreported' = unreported
    /\ \E provider \in Providers : RecordHealth(provider, FALSE)

LEMMA BookStep ==
    ASSUME IInv, NEW q \in Requests, Handler(q) \/ Client(q)
    PROVE  Charges(q) \/ SucceedsUncharged \/ CountsFailure \/ UNCHANGED <<usage, health, unreported>>
<1>1. request \in [Requests -> Handlers]
  BY DEF IInv, Typed
<1>2. \A code, status : FailWith(q, code, status) => UNCHANGED <<usage, health, unreported>>
  BY DEF FailWith
<1>3. \A code : Fail(q, code) => UNCHANGED <<usage, health, unreported>>
  BY <1>2 DEF Fail
<1>4. \A status : Answer(q, status) => request'[q].at = "done" /\ FinishTrace(q, status)
  BY <1>1 DEF Answer, Done, Handlers
<1>5. CASE Authenticate(q) \/ RefuseRoute(q) \/ AnswerReadOnly(q) \/ RouteChat(q)
           \/ RefuseHeaders(q) \/ StartReading(q) \/ RefuseModel(q) \/ RouteGoverned(q)
           \/ RouteMock(q)
  BY <1>2, <1>3, <1>5 DEF Authenticate, RefuseRoute, AnswerReadOnly, RouteChat, RefuseHeaders,
     StartReading, RefuseModel, RouteGoverned, RouteMock, stores
<1>6. CASE BodyTimerFires(q) \/ RefuseMock(q) \/ StartStream(q) \/ WriteChunk(q)
           \/ StreamTimerFires(q) \/ GovernedStreamRefused(q) \/ GovernedStreamOpens(q)
           \/ GovernedStreamChunk(q) \/ Client(q)
  BY <1>2, <1>3, <1>6 DEF BodyTimerFires, RefuseMock, StartStream, WriteChunk, StreamTimerFires,
     GovernedStreamRefused, GovernedStreamOpens, GovernedStreamChunk,
     Client, Arrive, BodyData, BodyTooLarge, BodyErrors, BodyMalformed, BodyEnds, ClientLeaves,
     CutOff, stores
<1>7. {"mock", "external"} \subseteq Providers
  BY DEF Providers
<1>8. CASE GovernedCompletes(q) \/ WriteDone(q)
  BY <1>4, <1>7, <1>8 DEF GovernedCompletes, WriteDone, MayWrite, Charges
<1>9. CASE GovernedFails(q) \/ GovernedStreamFails(q)
  BY <1>7, <1>9 DEF GovernedFails, GovernedStreamFails, CountsFailure
<1>10. CASE GovernedStreamCompletes(q)
  BY <1>4, <1>7, <1>10 DEF GovernedStreamCompletes, Charges, SucceedsUncharged
<1>11. CASE InvokeMock(q)
  BY <1>4, <1>7, <1>11 DEF InvokeMock, Charges, CountsFailure
<1>12. QED
  BY <1>5, <1>6, <1>8, <1>9, <1>10, <1>11 DEF Handler

(* A handler that is done stays done. *)
LEMMA DoneIsDone ==
    ASSUME IInv, NEW q \in Requests, Handler(q) \/ Client(q), NEW p \in Requests,
           request[p].at = "done"
    PROVE  request'[p].at = "done"
<1>1. request[q].at # "done"
  BY TraceStep DEF Arrive, GoesOn, Finishes, Drops, Active, Urgent, Waiting, Governed
<1>2. CASE Arrive(q)
  <2>1. request' = [request EXCEPT ![q].at = "received"]
    BY <1>2 DEF Arrive, MoveTo
  <2>2. QED
    BY <1>1, <2>1 DEF IInv, Typed
<1>3. CASE OthersStay(q)
  BY <1>1, <1>3 DEF OthersStay
<1>4. QED
  BY <1>2, <1>3, TraceStep

(* BooksBalance but for the traces of the requests that were charged. *)
Reported == (Successes("mock") + Successes("external")) - unreported
UsageOn  == config.collecting /\ config.collectUsage
Counting == config.collecting /\ config.collectHealth

BooksCount ==
    /\ config.collectHealth =>
          Len(usage) = IF UsageOn THEN Smaller(config.maxUsage, Reported) ELSE 0
    /\ \A i, j \in DOMAIN usage : usage[i] = usage[j] => i = j
    /\ \A p \in Providers : /\ health[p].successes = 0 \/ health[p].failures = 0
                            /\ health[p].requests > 0 => health[p].successes + health[p].failures > 0

ChargedTraces ==
    \A i \in DOMAIN usage, j \in DOMAIN traces :
       traces[j].request = usage[i] => traces[j].status = 200

BooksInv ==
    /\ usage \in Seq(Requests) /\ unreported \in Nat
    /\ \A i \in DOMAIN usage : request[usage[i]].at = "done"
    /\ health \in [Providers -> HealthRecord]
    /\ \A p \in Providers : health[p].errors <= health[p].requests
    /\ BooksCount

(* One outcome in a provider's health record. *)
LEMMA HealthStep ==
    ASSUME health \in [Providers -> HealthRecord], Counting, NEW p \in Providers,
           NEW success \in BOOLEAN, RecordHealth(p, success)
    PROVE  /\ health' \in [Providers -> HealthRecord]
           /\ \A o \in Providers \ {p} : health'[o] = health[o]
           /\ health'[p].requests = health[p].requests + 1
           /\ health'[p].errors = IF success THEN health[p].errors ELSE health[p].errors + 1
           /\ health'[p].successes = IF success THEN health[p].successes + 1 ELSE 0
           /\ health'[p].failures = IF success THEN 0 ELSE health[p].failures + 1
<1>1. PICK h \in HealthRecord : h = health[p]
  OBVIOUS
<1>2. PICK k : k = [requests |-> h.requests + 1, errors |-> h.errors + (IF success THEN 0 ELSE 1),
                    successes |-> IF success THEN h.successes + 1 ELSE 0,
                    failures |-> IF success THEN 0 ELSE h.failures + 1]
  OBVIOUS
<1>3. k \in HealthRecord
  BY <1>1, <1>2 DEF HealthRecord
<1>4. health' = [health EXCEPT ![p] = k]
  BY <1>1, <1>2 DEF Counting, RecordHealth, HealthRecord
<1>5. QED
  BY <1>1, <1>2, <1>3, <1>4 DEF HealthRecord

(* The providers' successes and streaks after one more outcome. *)
LEMMA OutcomeCounts ==
    ASSUME health \in [Providers -> HealthRecord],
           \A p \in Providers : health[p].errors <= health[p].requests,
           \A p \in Providers :
              /\ health[p].successes = 0 \/ health[p].failures = 0
              /\ health[p].requests > 0 => health[p].successes + health[p].failures > 0,
           Counting, NEW q \in Providers, NEW success \in BOOLEAN, RecordHealth(q, success)
    PROVE  /\ health' \in [Providers -> HealthRecord]
           /\ \A p \in Providers :
                 /\ health'[p].errors <= health'[p].requests
                 /\ health'[p].successes = 0 \/ health'[p].failures = 0
                 /\ health'[p].requests > 0 => health'[p].successes + health'[p].failures > 0
           /\ LET total == Successes("mock") + Successes("external")
              IN  total \in Nat /\ total' = IF success THEN total + 1 ELSE total
<1>1. /\ health' \in [Providers -> HealthRecord]
      /\ \A o \in Providers \ {q} : health'[o] = health[o]
      /\ health'[q].requests = health[q].requests + 1
      /\ health'[q].errors = IF success THEN health[q].errors ELSE health[q].errors + 1
      /\ health'[q].successes = IF success THEN health[q].successes + 1 ELSE 0
      /\ health'[q].failures = IF success THEN 0 ELSE health[q].failures + 1
  BY HealthStep
<1>2. \A p \in Providers : /\ health[p] \in HealthRecord
                           /\ health[p].requests \in Nat /\ health[p].errors \in Nat
                           /\ health[p].successes \in Nat /\ health[p].failures \in Nat
  <2>1. \A p \in Providers : health[p] \in HealthRecord
    OBVIOUS
  <2>2. QED
    BY <2>1 DEF HealthRecord
<1>3. ASSUME NEW p \in Providers
      PROVE  /\ health'[p].errors <= health'[p].requests
             /\ health'[p].successes = 0 \/ health'[p].failures = 0
             /\ health'[p].requests > 0 => health'[p].successes + health'[p].failures > 0
  <2>1. CASE p = q
    BY <1>1, <1>2, <2>1
  <2>2. CASE p # q
    BY <1>1, <2>2
  <2>3. QED
    BY <2>1, <2>2
<1>4. Providers = {"mock", "external"}
  BY DEF Providers
<1>5. \A p \in Providers : Successes(p) \in Nat
  BY <1>2 DEF Successes
<1>6. \A p \in Providers :
         health'[p].requests - health'[p].errors
            = IF p = q /\ success THEN Successes(p) + 1 ELSE Successes(p)
  <2>1. health'[q].requests - health'[q].errors = IF success THEN Successes(q) + 1 ELSE Successes(q)
    BY <1>1, <1>2 DEF Successes
  <2>2. \A p \in Providers \ {q} : health'[p].requests - health'[p].errors = Successes(p)
    BY <1>1 DEF Successes
  <2>3. QED
    BY <2>1, <2>2
<1>7. LET total == Successes("mock") + Successes("external")
      IN  total \in Nat /\ total' = IF success THEN total + 1 ELSE total
  <2>1. /\ Successes("mock") \in Nat /\ Successes("external") \in Nat
        /\ Successes("mock")' = IF q = "mock" /\ success THEN Successes("mock") + 1 ELSE Successes("mock")
        /\ Successes("external")' = IF q = "external" /\ success THEN Successes("external") + 1
                                    ELSE Successes("external")
    BY <1>4, <1>5, <1>6 DEF Successes
  <2>2. QED
    BY <1>4, <2>1
<1>8. QED
  BY <1>1, <1>3, <1>7

(* A charge is one more record, of a request that had none. *)
LEMMA UsageStep ==
    ASSUME usage \in Seq(Requests), config.maxUsage \in Nat \ {0}, NEW q \in Requests,
           \A i \in DOMAIN usage : usage[i] # q,
           \A i, j \in DOMAIN usage : usage[i] = usage[j] => i = j,
           RecordUsage(q)
    PROVE  /\ usage' \in Seq(Requests)
           /\ Len(usage') = IF UsageOn THEN Smaller(config.maxUsage, Len(usage) + 1) ELSE Len(usage)
           /\ \A i \in DOMAIN usage' : usage'[i] = q \/ \E k \in DOMAIN usage : usage'[i] = usage[k]
           /\ \A i, j \in DOMAIN usage' : usage'[i] = usage'[j] => i = j
<1>1. CASE ~UsageOn
  <2>1. usage' = usage
    BY <1>1 DEF UsageOn, RecordUsage, Record
  <2>2. QED
    BY <1>1, <2>1
<1>2. CASE UsageOn
  <2>1. PICK max : max = config.maxUsage
    OBVIOUS
  <2>2. PICK more : more = <<q>>
    OBVIOUS
  <2>3. PICK d : d = Len(usage) + 1 - Len(usage')
    OBVIOUS
  <2>4. more \in Seq(Requests) /\ Len(more) = 1 /\ more[1] = q /\ max \in Nat \ {0}
    BY <2>1, <2>2
  <2>5. usage' = Bounded(usage, more, max)
    BY <1>2, <2>1, <2>2 DEF UsageOn, RecordUsage, Record
  <2>6. /\ usage' \in Seq(Requests) /\ Len(usage') = Smaller(max, Len(usage) + 1) /\ d \in Nat
        /\ usage'[Len(usage')] = q
        /\ \A i \in 1 .. Len(usage') - 1 : usage'[i] = usage[i + d] /\ i + d \in DOMAIN usage
    <3>1. PICK store \in Seq(Requests) : store = usage
      OBVIOUS
    <3>2. PICK b : b = usage'
      OBVIOUS
    <3>3. b = Bounded(store, more, max) /\ d = Len(store) + 1 - Len(b)
      BY <2>3, <2>5, <3>1, <3>2
    <3>4. /\ b \in Seq(Requests) /\ Len(b) = Smaller(max, Len(store) + 1) /\ d \in Nat
          /\ b[Len(b)] = more[1]
          /\ \A i \in 1 .. Len(b) - 1 : b[i] = store[i + d] /\ i + d \in DOMAIN store
      BY <2>4, <3>1, <3>3, BoundedByOne
    <3>5. QED
      BY <2>4, <3>1, <3>2, <3>4
  <2>7. DOMAIN usage' = 1 .. Len(usage') /\ Len(usage') \in Nat
    BY <2>6
  <2>8. \A i \in DOMAIN usage' : \/ i = Len(usage') /\ usage'[i] = q
                                 \/ /\ i \in 1 .. Len(usage') - 1
                                    /\ usage'[i] = usage[i + d] /\ i + d \in DOMAIN usage
    BY <2>6, <2>7
  <2>9. ASSUME NEW i \in DOMAIN usage', NEW j \in DOMAIN usage', usage'[i] = usage'[j]
        PROVE  i = j
    <3>1. CASE i = Len(usage') \/ j = Len(usage')
      BY <2>8, <2>9, <3>1
    <3>2. CASE i # Len(usage') /\ j # Len(usage')
      <4>1. i + d = j + d
        BY <2>8, <2>9, <3>2
      <4>2. QED
        BY <2>6, <2>7, <4>1
    <3>3. QED
      BY <3>1, <3>2
  <2>10. \A i \in DOMAIN usage' : usage'[i] = q \/ \E k \in DOMAIN usage : usage'[i] = usage[k]
    BY <2>8
  <2>11. QED
    BY <1>2, <2>1, <2>6, <2>9, <2>10
<1>3. QED
  BY <1>1, <1>2

(* What a success or a failure makes of the successes the books are measured by. *)
LEMMA ReportedStep ==
    ASSUME BooksInv, NEW p \in Providers, NEW success \in BOOLEAN, RecordHealth(p, success),
           config' = config
    PROVE  /\ health' \in [Providers -> HealthRecord]
           /\ \A o \in Providers :
                 /\ health'[o].errors <= health'[o].requests
                 /\ health'[o].successes = 0 \/ health'[o].failures = 0
                 /\ health'[o].requests > 0 => health'[o].successes + health'[o].failures > 0
           /\ unreported \in Nat /\ Reported \in Int
           /\ Counting /\ unreported' \in Nat =>
                 Reported' = (IF success THEN Reported + 1 ELSE Reported) + unreported - unreported'
<1>1. CASE Counting
  <2>1. PICK total : total = Successes("mock") + Successes("external")
    OBVIOUS
  <2>2. /\ health' \in [Providers -> HealthRecord]
        /\ \A o \in Providers :
              /\ health'[o].errors <= health'[o].requests
              /\ health'[o].successes = 0 \/ health'[o].failures = 0
              /\ health'[o].requests > 0 => health'[o].successes + health'[o].failures > 0
        /\ total \in Nat
        /\ (Successes("mock") + Successes("external"))' = IF success THEN total + 1 ELSE total
    BY <1>1, <2>1, OutcomeCounts DEF BooksInv, BooksCount
  <2>3. unreported \in Nat
    BY DEF BooksInv
  <2>4. Reported = total - unreported
    BY <2>1 DEF Reported
  <2>5. Reported' = (Successes("mock") + Successes("external"))' - unreported'
    BY DEF Reported, Successes
  <2>6. QED
    BY <2>2, <2>3, <2>4, <2>5
<1>2. CASE ~Counting
  <2>1. health' = health
    BY <1>2 DEF Counting, RecordHealth
  <2>2. \A o \in Providers : health[o].requests \in Nat /\ health[o].errors \in Nat
    <3>1. \A o \in Providers : health[o] \in HealthRecord
      BY DEF BooksInv
    <3>2. QED
      BY <3>1 DEF HealthRecord
  <2>3. Successes("mock") + Successes("external") \in Int /\ unreported \in Nat
    BY <2>2 DEF Successes, Providers, BooksInv
  <2>4. Reported \in Int
    BY <2>3 DEF Reported
  <2>5. QED
    BY <1>2, <2>1, <2>3, <2>4 DEF BooksInv, BooksCount
<1>3. QED
  BY <1>1, <1>2

LEMMA SuccessStep ==
    ASSUME BooksInv, NEW p \in Providers, RecordHealth(p, TRUE), config' = config
    PROVE  /\ health' \in [Providers -> HealthRecord]
           /\ \A o \in Providers :
                 /\ health'[o].errors <= health'[o].requests
                 /\ health'[o].successes = 0 \/ health'[o].failures = 0
                 /\ health'[o].requests > 0 => health'[o].successes + health'[o].failures > 0
           /\ unreported \in Nat /\ Reported \in Int
           /\ Counting /\ unreported' = unreported => Reported' = Reported + 1
           /\ Counting /\ unreported' = unreported + 1 => Reported' = Reported
<1> DEFINE success == TRUE
<1>1. success \in BOOLEAN /\ RecordHealth(p, success) /\ success
  OBVIOUS
<1> HIDE DEF success
<1>2. /\ health' \in [Providers -> HealthRecord]
      /\ \A o \in Providers :
            /\ health'[o].errors <= health'[o].requests
            /\ health'[o].successes = 0 \/ health'[o].failures = 0
            /\ health'[o].requests > 0 => health'[o].successes + health'[o].failures > 0
      /\ unreported \in Nat /\ Reported \in Int
      /\ Counting /\ unreported' \in Nat =>
            Reported' = (IF success THEN Reported + 1 ELSE Reported) + unreported - unreported'
  BY <1>1, ReportedStep
<1>3. QED
  BY <1>1, <1>2

LEMMA FailureStep ==
    ASSUME BooksInv, NEW p \in Providers, RecordHealth(p, FALSE), config' = config
    PROVE  /\ health' \in [Providers -> HealthRecord]
           /\ \A o \in Providers :
                 /\ health'[o].errors <= health'[o].requests
                 /\ health'[o].successes = 0 \/ health'[o].failures = 0
                 /\ health'[o].requests > 0 => health'[o].successes + health'[o].failures > 0
           /\ unreported \in Nat /\ Reported \in Int
           /\ Counting /\ unreported' = unreported => Reported' = Reported
<1> DEFINE success == FALSE
<1>1. success \in BOOLEAN /\ RecordHealth(p, success) /\ ~success
  OBVIOUS
<1> HIDE DEF success
<1>2. /\ health' \in [Providers -> HealthRecord]
      /\ \A o \in Providers :
            /\ health'[o].errors <= health'[o].requests
            /\ health'[o].successes = 0 \/ health'[o].failures = 0
            /\ health'[o].requests > 0 => health'[o].successes + health'[o].failures > 0
      /\ unreported \in Nat /\ Reported \in Int
      /\ Counting /\ unreported' \in Nat =>
            Reported' = (IF success THEN Reported + 1 ELSE Reported) + unreported - unreported'
  BY <1>1, ReportedStep
<1>3. QED
  BY <1>1, <1>2

(* A success is charged: the request's record comes last in the usage store. *)
LEMMA ChargeKeepsBooks ==
    ASSUME IInv, BooksInv, NEW q \in Requests, Charges(q), config' = config,
           \A p \in Requests : request[p].at = "done" => request'[p].at = "done"
    PROVE  /\ BooksInv'
           /\ \A i \in DOMAIN usage' : usage'[i] = q \/ \E k \in DOMAIN usage : usage'[i] = usage[k]
<1>1. \A i \in DOMAIN usage : usage[i] \in Requests /\ usage[i] # q /\ request'[usage[i]].at = "done"
  <2>1. \A i \in DOMAIN usage : usage[i] \in Requests
    BY DEF BooksInv
  <2>2. QED
    BY <2>1 DEF BooksInv, Charges
<1>2. config.maxUsage \in Nat \ {0}
  BY IntakeAssumption DEF IInv, Typed, Config
<1>3. /\ usage' \in Seq(Requests)
      /\ Len(usage') = IF UsageOn THEN Smaller(config.maxUsage, Len(usage) + 1) ELSE Len(usage)
      /\ \A i \in DOMAIN usage' : usage'[i] = q \/ \E k \in DOMAIN usage : usage'[i] = usage[k]
      /\ \A i, j \in DOMAIN usage' : usage'[i] = usage'[j] => i = j
  BY <1>1, <1>2, UsageStep DEF BooksInv, BooksCount, Charges
<1>4. /\ health' \in [Providers -> HealthRecord]
      /\ \A o \in Providers :
            /\ health'[o].errors <= health'[o].requests
            /\ health'[o].successes = 0 \/ health'[o].failures = 0
            /\ health'[o].requests > 0 => health'[o].successes + health'[o].failures > 0
      /\ unreported' \in Nat /\ Reported \in Int
      /\ Counting => Reported' = Reported + 1
  <2>1. PICK p \in Providers : RecordHealth(p, TRUE)
    BY DEF Charges
  <2>2. unreported' = unreported /\ unreported \in Nat
    BY DEF Charges, BooksInv
  <2>3. QED
    BY <2>1, <2>2, SuccessStep
<1>5. \A i \in DOMAIN usage' : request'[usage'[i]].at = "done"
  BY <1>1, <1>3 DEF Charges
<1>6. (UsageOn' <=> UsageOn) /\ config.maxUsage' = config.maxUsage
  BY DEF UsageOn
<1>7. ASSUME config.collectHealth
      PROVE  Len(usage') = IF UsageOn THEN Smaller(config.maxUsage, Reported') ELSE 0
  <2>1. Len(usage) = (IF UsageOn THEN Smaller(config.maxUsage, Reported) ELSE 0) /\ Len(usage) \in Nat
    BY <1>7 DEF BooksInv, BooksCount
  <2>2. CASE UsageOn
    <3>1. Reported' = Reported + 1
      BY <1>4, <1>7, <2>2 DEF UsageOn, Counting
    <3>2. QED
      BY <1>2, <1>3, <1>4, <2>1, <2>2, <3>1 DEF Smaller
  <2>3. CASE ~UsageOn
    BY <1>3, <2>1, <2>3
  <2>4. QED
    BY <2>2, <2>3
<1>8. BooksCount'
  BY <1>3, <1>4, <1>6, <1>7 DEF BooksCount
<1>9. QED
  BY <1>3, <1>4, <1>5, <1>8 DEF BooksInv

(* A stream whose provider reported no usage, or a failure: nothing is charged, and the
   successes the books are measured by stay as many. *)
LEMMA UnchargedKeepsBooks ==
    ASSUME IInv, BooksInv, SucceedsUncharged \/ CountsFailure, config' = config,
           \A p \in Requests : request[p].at = "done" => request'[p].at = "done"
    PROVE  BooksInv'
<1>1. usage' = usage /\ \A i \in DOMAIN usage : request'[usage[i]].at = "done"
  <2>1. \A i \in DOMAIN usage : usage[i] \in Requests
    BY DEF BooksInv
  <2>2. QED
    BY <2>1 DEF BooksInv, SucceedsUncharged, CountsFailure
<1>2. /\ health' \in [Providers -> HealthRecord]
      /\ \A o \in Providers :
            /\ health'[o].errors <= health'[o].requests
            /\ health'[o].successes = 0 \/ health'[o].failures = 0
            /\ health'[o].requests > 0 => health'[o].successes + health'[o].failures > 0
      /\ unreported' \in Nat
      /\ Counting => Reported' = Reported
  <2>1. unreported \in Nat
    BY DEF BooksInv
  <2>2. CASE SucceedsUncharged
    <3>1. PICK p \in Providers : RecordHealth(p, TRUE)
      BY <2>2 DEF SucceedsUncharged
    <3>2. unreported' = unreported + 1 /\ unreported' \in Nat
      BY <2>1, <2>2 DEF SucceedsUncharged
    <3>3. QED
      BY <2>1, <3>1, <3>2, SuccessStep
  <2>3. CASE CountsFailure
    <3>1. PICK p \in Providers : RecordHealth(p, FALSE)
      BY <2>3 DEF CountsFailure
    <3>2. unreported' = unreported /\ unreported' \in Nat
      BY <2>1, <2>3 DEF CountsFailure
    <3>3. QED
      BY <2>1, <3>1, <3>2, FailureStep
  <2>4. QED
    BY <2>2, <2>3
<1>3. config.collectHealth => Len(usage') = IF UsageOn THEN Smaller(config.maxUsage, Reported') ELSE 0
  BY <1>1, <1>2 DEF BooksInv, BooksCount, UsageOn, Counting
<1>4. BooksCount'
  BY <1>1, <1>2, <1>3 DEF BooksInv, BooksCount, UsageOn
<1>5. QED
  BY <1>1, <1>2, <1>4 DEF BooksInv

LEMMA NextKeepsBooks == IInv /\ BooksInv /\ [Next]_vars => BooksInv'
<1> SUFFICES ASSUME IInv, BooksInv, [Next]_vars PROVE BooksInv'
  OBVIOUS
<1>1. ASSUME UNCHANGED <<config, usage, health, unreported>>,
             \A p \in Requests : request[p].at = "done" => request'[p].at = "done"
      PROVE  BooksInv'
  <2>1. \A i \in DOMAIN usage : usage[i] \in Requests
    BY DEF BooksInv
  <2>2. QED
    BY <1>1, <2>1 DEF BooksInv, BooksCount, Successes, Reported, UsageOn
<1>2. CASE Clear
  <2>1. /\ usage' = <<>> /\ health' = [p \in Providers |-> NoHealth] /\ config' = config
        /\ unreported' = 0
    BY <1>2 DEF Clear
  <2>2. config.maxUsage \in Nat \ {0}
    BY IntakeAssumption DEF IInv, Typed, Config
  <2>3. /\ health' \in [Providers -> HealthRecord]
        /\ \A p \in Providers : /\ health'[p].errors = 0 /\ health'[p].requests = 0
                                /\ health'[p].successes = 0
    BY <2>1 DEF NoHealth, HealthRecord
  <2>4. Reported' = 0
    BY <2>1, <2>3 DEF Reported, Successes, Providers
  <2>5. BooksCount'
    BY <2>1, <2>2, <2>3, <2>4 DEF BooksCount, Smaller
  <2>6. QED
    BY <2>1, <2>3, <2>5 DEF BooksInv
<1>3. CASE UNCHANGED vars
  BY <1>1, <1>3 DEF vars
<1>4. ASSUME NEW q \in Requests, Handler(q) \/ Client(q)
      PROVE  BooksInv'
  <2>1. \A p \in Requests : request[p].at = "done" => request'[p].at = "done"
    BY <1>4, DoneIsDone
  <2>2. config' = config
    BY <1>4, TraceStep DEF Arrive, OthersStay
  <2>3. QED
    BY <1>1, <1>4, <2>1, <2>2, BookStep, ChargeKeepsBooks, UnchargedKeepsBooks
<1>5. QED
  BY <1>2, <1>3, <1>4 DEF Next

(* A step of one request leaves the traces of the others as they were. *)
LEMMA OthersTraces ==
    ASSUME IInv, NEW q \in Requests, Handler(q) \/ Client(q)
    PROVE  \A j \in DOMAIN traces' :
              traces'[j].request # q => \E k \in DOMAIN traces : traces'[j] = traces[k]
<1> DEFINE Kept == {t \in Traced : t.request # q => \E k \in DOMAIN traces : t = traces[k]}
<1>1. traces \in Seq(Traced) /\ \A i \in DOMAIN traces : traces[i] \in Kept
  BY TracesAreTraced
<1>2. CASE Arrive(q)
  <2>1. PICK more : more = <<[request |-> q, status |-> 0]>>
    OBVIOUS
  <2>2. more \in Seq(Kept)
    BY <2>1 DEF Traced, Statuses
  <2>3. PICK max : max = config.maxTraces
    OBVIOUS
  <2>4. max \in Nat \ {0}
    BY <2>3, IntakeAssumption DEF IInv, Typed, Config
  <2>5. traces' = traces \/ traces' = Bounded(traces, more, max)
    BY <1>2, <2>1, <2>3 DEF Arrive, Record
  <2>6. PICK K : K = Kept
    OBVIOUS
  <2>7. traces \in Seq(K) /\ more \in Seq(K)
    BY <1>1, <2>2, <2>6
  <2>8. traces' \in Seq(K)
    BY <2>4, <2>5, <2>7, BoundedKeepsElements
  <2>9. \A j \in DOMAIN traces' : traces'[j] \in Kept
    BY <2>6, <2>8
  <2>10. QED
    BY <2>9
<1>3. CASE traces' = traces
  BY <1>3
<1>4. CASE \E status \in Statuses \ {0} : FinishTrace(q, status)
  <2>1. PICK status \in Statuses \ {0} : FinishTrace(q, status)
    BY <1>4
  <2>2. DOMAIN traces' = DOMAIN traces
    BY <2>1 DEF FinishTrace
  <2>3. ASSUME NEW j \in DOMAIN traces, NEW t, t = traces[j], NEW u, u = traces'[j], u.request # q
        PROVE  u = t
    <3>1. t \in Traced /\ u = IF t.request = q THEN [t EXCEPT !.status = status] ELSE t
      BY <1>1, <2>1, <2>3 DEF FinishTrace
    <3>2. QED
      BY <2>3, <3>1 DEF Traced
  <2>4. QED
    BY <2>2, <2>3
<1>5. QED
  BY <1>2, <1>3, <1>4, TraceStep DEF GoesOn, Finishes, Drops

(* A request with a usage record has no trace of a failure. *)
LEMMA NextKeepsCharged == IInv /\ BooksInv /\ ChargedTraces /\ [Next]_vars => ChargedTraces'
<1> SUFFICES ASSUME IInv, BooksInv, ChargedTraces, [Next]_vars PROVE ChargedTraces'
  OBVIOUS
<1>1. CASE Clear
  BY <1>1 DEF Clear, ChargedTraces
<1>2. CASE UNCHANGED vars
  BY <1>2 DEF vars, ChargedTraces
<1>3. ASSUME NEW q \in Requests, Handler(q) \/ Client(q)
      PROVE  ChargedTraces'
  <2>1. \A j \in DOMAIN traces' :
           traces'[j].request # q => \E k \in DOMAIN traces : traces'[j] = traces[k]
    BY <1>3, OthersTraces
  <2>2. \A i \in DOMAIN usage : usage[i] # q
    <3>1. request[q].at # "done"
      BY <1>3, TraceStep DEF Arrive, GoesOn, Finishes, Drops, Active, Urgent, Waiting, Governed
    <3>2. QED
      BY <3>1 DEF BooksInv
  <2>3. ASSUME NEW i \in DOMAIN usage', NEW j \in DOMAIN traces', traces'[j].request = usage'[i],
               NEW k \in DOMAIN usage, usage'[i] = usage[k]
        PROVE  traces'[j].status = 200
    <3>1. PICK l \in DOMAIN traces : traces'[j] = traces[l]
      BY <2>1, <2>2, <2>3
    <3>2. QED
      BY <2>3, <3>1 DEF ChargedTraces
  <2>4. CASE Charges(q)
    <3>1. config' = config /\ \A p \in Requests : request[p].at = "done" => request'[p].at = "done"
      BY <1>3, DoneIsDone, TraceStep DEF Arrive, OthersStay
    <3>2. \A i \in DOMAIN usage' : usage'[i] = q \/ \E k \in DOMAIN usage : usage'[i] = usage[k]
      BY <2>4, <3>1, ChargeKeepsBooks
    <3>3. DOMAIN traces' = DOMAIN traces /\ traces \in Seq(Traced)
          /\ \A j \in DOMAIN traces : traces[j] \in Traced
      BY <2>4, TracesAreTraced DEF Charges, FinishTrace
    <3>4. ASSUME NEW j \in DOMAIN traces, NEW t, t = traces[j], NEW u, u = traces'[j], u.request = q
          PROVE  u.status = 200
      <4>1. t \in Traced /\ u = IF t.request = q THEN [t EXCEPT !.status = 200] ELSE t
        BY <2>4, <3>3, <3>4 DEF Charges, FinishTrace
      <4>2. QED
        BY <3>4, <4>1 DEF Traced
    <3>5. QED
      BY <2>3, <3>2, <3>3, <3>4 DEF ChargedTraces
  <2>5. CASE usage' = usage
    BY <2>3, <2>5 DEF ChargedTraces
  <2>6. QED
    BY <1>3, <2>4, <2>5, BookStep DEF SucceedsUncharged, CountsFailure
<1>4. QED
  BY <1>1, <1>2, <1>3 DEF Next

(* The usage records are those of the successes the health records count, but for streams
   that reported none; each request is charged once, and only one whose trace was finished
   with a success: over four branches that record them, with usage or health switched off,
   and any number of concurrent requests.  A provider's record says which streak its last
   outcome belongs to. *)
THEOREM BooksAlwaysBalance == Spec => []BooksBalance
<1>1. Init => BooksInv /\ ChargedTraces
  <2> SUFFICES ASSUME Init PROVE BooksInv /\ ChargedTraces
    OBVIOUS
  <2>1. config.maxUsage \in Nat \ {0}
    BY IntakeAssumption DEF Init, Config
  <2>2. /\ health \in [Providers -> HealthRecord]
        /\ \A p \in Providers : /\ health[p].errors = 0 /\ health[p].requests = 0
                                /\ health[p].successes = 0
    BY DEF Init, NoHealth, HealthRecord
  <2>3. usage = <<>> /\ unreported = 0
    BY DEF Init
  <2>4. Reported = 0
    BY <2>2, <2>3 DEF Reported, Successes, Providers
  <2>5. BooksCount
    BY <2>1, <2>2, <2>3, <2>4 DEF BooksCount, Smaller
  <2>6. QED
    BY <2>2, <2>3, <2>5 DEF BooksInv, ChargedTraces
<1>2. BooksInv /\ ChargedTraces => BooksBalance
  BY DEF BooksInv, BooksCount, ChargedTraces, BooksBalance, UsageOn, Reported
<1>3. QED
  BY <1>1, <1>2, NextKeepsBooks, NextKeepsCharged, Inductive, PTL DEF Spec
=============================================================================
