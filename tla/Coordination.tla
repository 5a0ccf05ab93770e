---------------------------- MODULE Coordination ----------------------------
(***************************************************************************)
(* Coordination through the daemon: patience processes that run            *)
(* "diophantine --daemon" (cmd/patience/subcommands.go and                 *)
(* coordinateWithDaemon in pkg/executor/executor.go), each with a          *)
(* DaemonClient (pkg/daemon/client.go), and the process that listens on    *)
(* the socket.  That is a UnixServer (pkg/daemon/unix_server.go), which    *)
(* speaks the protocol, or patienced, whose socket belongs to the worker   *)
(* pool: it reads metrics until the client closes or 5 seconds are over,   *)
(* and never answers.                                                      *)
(*                                                                         *)
(* Both servers answer every schedule request with yes or not at all, so   *)
(* the wait for a slot in coordinateWithDaemon is never entered.           *)
(***************************************************************************)
EXTENDS Naturals, FiniteSets

CONSTANTS
  Clients,          \* patience processes; each opens one connection
  MaxConnections,   \* maxConnections; for patienced, what workers and queue take
  NoClient          \* the accept loop holds no connection

ASSUME CoordinationAssumption ==
  /\ MaxConnections \in Nat \ {0}
  /\ NoClient \notin Clients

VARIABLES
  kind,         \* "UnixServer" or "patienced"
  server,       \* the server: off, up, through Stop, or killed
  accept,       \* the goroutine in acceptConnections
  holding,      \* the connection it has accepted and not yet placed
  active,       \* s.activeConnections
  handler,      \* handler[c]: the goroutine in handleConnection
  conn,         \* conn[c]: the connection of c, as the server sees it
  request,      \* request[c]: the line that c has sent and nobody has read
  response,     \* response[c]: the line that was sent to c
  pc,           \* pc[c]: what c waits for
  registered    \* clients whose requests the server has acknowledged

serverVars == <<kind, server, accept, holding, active, handler>>
clientVars == <<pc, registered>>
vars == <<serverVars, conn, request, response, clientVars>>

Listening == server \in {"up", "cancelled"}
Cancelled == server \in {"cancelled", "closed", "stopped"}

(* A handler serves its connection, then closes it, then leaves the count  *)
(* of connections, then the WaitGroup.                                     *)
Serving(c) == handler[c] \in {"loop", "read"}
Admitted(c) == Serving(c) \/ handler[c] = "closing"
Running(c) == Admitted(c) \/ handler[c] = "leaving"

(* What a client that has sent a line of some type waits for.              *)
Waiting == {"handshake", "test", "schedule", "register"}

-----------------------------------------------------------------------------
Init ==
  /\ kind \in {"UnixServer", "patienced"}
  /\ server = "off"
  /\ accept = "off"
  /\ holding = NoClient
  /\ active = 0
  /\ handler = [c \in Clients |-> "none"]
  /\ conn = [c \in Clients |-> "none"]
  /\ request = [c \in Clients |-> "none"]
  /\ response = [c \in Clients |-> "none"]
  /\ pc = [c \in Clients |-> "new"]
  /\ registered = {}

-----------------------------------------------------------------------------
(* UnixServer.Start: listen and launch the accept loop.                    *)
Start ==
  /\ server = "off"
  /\ server' = "up"
  /\ accept' = "loop"
  /\ UNCHANGED <<kind, holding, active, handler, conn, request, response,
                 clientVars>>

(* acceptConnections, Accept: a connection of the backlog; or an error     *)
(* because Stop has closed the listener, and the context, cancelled before *)
(* that, ends the loop.                                                    *)
Accept(c) ==
  /\ accept = "loop"
  /\ \/ /\ Listening
        /\ conn[c] = "backlog"
        /\ conn' = [conn EXCEPT ![c] = "open"]
        /\ holding' = c
        /\ accept' = "place"
     \/ /\ Cancelled
        /\ accept' = "done"
        /\ UNCHANGED <<conn, holding>>
  /\ UNCHANGED <<kind, server, active, handler, request, response, clientVars>>

(* Mutated Admit: a connection too many is forgotten, not closed.          *)
AdmitOrForget ==
  /\ accept = "place"
  /\ \/ /\ active >= MaxConnections
        /\ UNCHANGED <<active, handler, conn>>
     \/ /\ active < MaxConnections
        /\ active' = active + 1
        /\ handler' = [handler EXCEPT ![holding] = "loop"]
        /\ UNCHANGED conn
  /\ holding' = NoClient
  /\ accept' = "loop"
  /\ UNCHANGED <<kind, server, request, response, clientVars>>

(* acceptConnections, after Accept: close the connection if there are too  *)
(* many, else count it and launch its handler.                             *)
Admit ==
  /\ accept = "place"
  /\ \/ /\ active >= MaxConnections
        /\ conn' = [conn EXCEPT ![holding] = "closed"]
        /\ UNCHANGED <<active, handler>>
     \/ /\ active < MaxConnections
        /\ active' = active + 1
        /\ handler' = [handler EXCEPT ![holding] = "loop"]
        /\ UNCHANGED conn
  /\ holding' = NoClient
  /\ accept' = "loop"
  /\ UNCHANGED <<kind, server, request, response, clientVars>>

-----------------------------------------------------------------------------
(* handleConnection returns: its deferred function closes the connection   *)
(* ...                                                                     *)
Finish(c) ==
  /\ handler' = [handler EXCEPT ![c] = "closing"]
  /\ conn' = [conn EXCEPT ![c] = "closed"]

(* ... takes it out of the count, under the mutex ...                      *)
Uncount(c) ==
  /\ handler[c] = "closing"
  /\ handler' = [handler EXCEPT ![c] = "leaving"]
  /\ active' = active - 1
  /\ UNCHANGED <<kind, server, accept, holding, conn, request, response,
                 clientVars>>

(* ... and calls wg.Done.                                                  *)
Done(c) ==
  /\ handler[c] = "leaving"
  /\ handler' = [handler EXCEPT ![c] = "done"]
  /\ UNCHANGED <<kind, server, accept, holding, active, conn, request,
                 response, clientVars>>

(* Mutated HandlerCheck: the context is not looked at.                     *)
HandlerNoCheck(c) ==
  /\ handler[c] = "loop"
  /\ handler' = [handler EXCEPT ![c] = "read"]
  /\ UNCHANGED <<kind, server, accept, holding, active, conn, request,
                 response, clientVars>>

(* handleConnection, the head of its loop.                                 *)
HandlerCheck(c) ==
  /\ handler[c] = "loop"
  /\ \/ /\ Cancelled
        /\ Finish(c)
     \/ /\ ~Cancelled
        /\ handler' = [handler EXCEPT ![c] = "read"]
        /\ UNCHANGED conn
  /\ UNCHANGED <<kind, server, accept, holding, active, request, response,
                 clientVars>>

(* handleConnection reads a line and writes what handleProtocolMessage     *)
(* returns: the version is always 1.0, every schedule request is granted,  *)
(* every registration acknowledged.  patienced reads on.                   *)
HandlerReply(c) ==
  /\ handler[c] = "read"
  /\ kind = "UnixServer"
  /\ request[c] # "none"
  /\ response' = [response EXCEPT ![c] = request[c]]
  /\ request' = [request EXCEPT ![c] = "none"]
  /\ handler' = [handler EXCEPT ![c] = "loop"]
  /\ UNCHANGED <<kind, server, accept, holding, active, conn, clientVars>>

(* Mutated HandlerEnds: without a deadline, only the client ends it.       *)
HandlerWaitsForClient(c) ==
  /\ handler[c] = "read"
  /\ pc[c] = "exited"
  /\ Finish(c)
  /\ UNCHANGED <<kind, server, accept, holding, active, request, response,
                 clientVars>>

(* The read fails: the client is gone, or the deadline is over that was    *)
(* set when the connection was accepted (30 seconds; patienced: 5).        *)
HandlerEnds(c) ==
  /\ handler[c] = "read"
  /\ Finish(c)
  /\ UNCHANGED <<kind, server, accept, holding, active, request, response,
                 clientVars>>

-----------------------------------------------------------------------------
(* UnixServer.Stop: cancel the context ...                                 *)
StopCancel ==
  /\ kind = "UnixServer"
  /\ server = "up"
  /\ server' = "cancelled"
  /\ UNCHANGED <<kind, accept, holding, active, handler, conn, request,
                 response, clientVars>>

(* ... close the listener, which resets what waits in its backlog ...      *)
StopClose ==
  /\ server = "cancelled"
  /\ server' = "closed"
  /\ conn' = [c \in Clients |-> IF conn[c] = "backlog" THEN "closed"
                                ELSE conn[c]]
  /\ UNCHANGED <<kind, accept, holding, active, handler, request, response,
                 clientVars>>

(* ... and wait for the handlers.  (The accept loop is not waited for.)    *)
StopWait ==
  /\ server = "closed"
  /\ \A c \in Clients : ~Running(c)
  /\ server' = "stopped"
  /\ UNCHANGED <<kind, accept, holding, active, handler, conn, request,
                 response, clientVars>>

(* The process of the server ends, and with it every connection.           *)
Kill ==
  /\ server \in {"up", "cancelled", "closed"}
  /\ server' = "killed"
  /\ accept' = "done"
  /\ holding' = NoClient
  /\ active' = 0
  /\ handler' = [c \in Clients |-> IF Running(c) THEN "done" ELSE handler[c]]
  /\ conn' = [c \in Clients |-> IF conn[c] = "none" THEN "none" ELSE "closed"]
  /\ UNCHANGED <<kind, request, response, clientVars>>

-----------------------------------------------------------------------------
(* The client falls back to local-only mode, or goes on without having     *)
(* registered, and runs its command.                                       *)
RunCommand(c) == pc' = [pc EXCEPT ![c] = "run"]

Send(c, line) ==
  /\ request' = [request EXCEPT ![c] = line]
  /\ pc' = [pc EXCEPT ![c] = line]

(* configureDaemonClient, connect: dial, and send the handshake; without a *)
(* listener CanScheduleRequest fails, startDaemon cannot help, and the     *)
(* executor gets no client.                                                *)
Connect(c) ==
  /\ pc[c] = "new"
  /\ \/ /\ Listening
        /\ conn' = [conn EXCEPT ![c] = "backlog"]
        /\ Send(c, "handshake")
     \/ /\ ~Listening
        /\ RunCommand(c)
        /\ UNCHANGED <<conn, request>>
  /\ UNCHANGED <<serverVars, response, registered>>

(* sendRequest returns: after the handshake follows the test request, and  *)
(* after that coordinateWithDaemon with the real one and with the          *)
(* registration.                                                           *)
Answer(c) ==
  /\ response[c] # "none"
  /\ response' = [response EXCEPT ![c] = "none"]
  /\ \/ response[c] = "handshake" /\ Send(c, "test") /\ UNCHANGED registered
     \/ response[c] = "test" /\ Send(c, "schedule") /\ UNCHANGED registered
     \/ response[c] = "schedule" /\ Send(c, "register") /\ UNCHANGED registered
     \/ /\ response[c] = "register"
        /\ registered' = registered \cup {c}
        /\ RunCommand(c)
        /\ UNCHANGED request
  /\ UNCHANGED <<serverVars, conn>>

(* The 5 seconds of the context are over when the answer to the schedule   *)
(* request has come: RegisterScheduledRequests does not even send.         *)
ContextExpired(c) ==
  /\ response[c] = "schedule"
  /\ response' = [response EXCEPT ![c] = "none"]
  /\ RunCommand(c)
  /\ UNCHANGED <<serverVars, conn, request, registered>>

(* sendRequest fails: the connection is closed and holds no answer.        *)
SendFails(c) ==
  /\ pc[c] \in Waiting
  /\ conn[c] = "closed"
  /\ response[c] = "none"
  /\ RunCommand(c)
  /\ UNCHANGED <<serverVars, conn, request, response, registered>>

(* The command has ended; the connection was open all the time.            *)
Exit(c) ==
  /\ pc[c] = "run"
  /\ pc' = [pc EXCEPT ![c] = "exited"]
  /\ UNCHANGED <<serverVars, conn, request, response, registered>>

-----------------------------------------------------------------------------
AcceptStep == Admit \/ \E c \in Clients : Accept(c)
HandlerStep(c) == \/ HandlerCheck(c) \/ HandlerReply(c) \/ HandlerEnds(c)
                  \/ Uncount(c) \/ Done(c)
StopStep == StopClose \/ StopWait
ClientStep(c) == Connect(c) \/ Answer(c) \/ ContextExpired(c) \/ SendFails(c)

Next ==
  \/ Start \/ AcceptStep \/ StopCancel \/ StopStep \/ Kill
  \/ \E c \in Clients : HandlerStep(c) \/ ClientStep(c) \/ Exit(c)

Spec == Init /\ [][Next]_vars

(* Fairness: goroutines and clients run, and deadlines pass.  A command    *)
(* need not end, nobody has to start, stop or kill the server.             *)
Fairness ==
  /\ WF_vars(AcceptStep)
  /\ WF_vars(StopStep)
  /\ \A c \in Clients : WF_vars(HandlerStep(c)) /\ WF_vars(ClientStep(c))

FairSpec == Spec /\ Fairness

-----------------------------------------------------------------------------
TypeOK ==
  /\ kind \in {"UnixServer", "patienced"}
  /\ server \in {"off", "up", "cancelled", "closed", "stopped", "killed"}
  /\ accept \in {"off", "loop", "place", "done"}
  /\ holding \in Clients \cup {NoClient}
  /\ active \in 0 .. MaxConnections
  /\ handler \in [Clients -> {"none", "loop", "read", "closing", "leaving", "done"}]
  /\ conn \in [Clients -> {"none", "backlog", "open", "closed"}]
  /\ request \in [Clients -> Waiting \cup {"none"}]
  /\ response \in [Clients -> Waiting \cup {"none"}]
  /\ pc \in [Clients -> Waiting \cup {"new", "run", "exited"}]
  /\ registered \subseteq Clients

(* Every admitted connection is counted once and has an end: the counter   *)
(* is the number of handlers that have not yet left it, never above the    *)
(* limit, and a connection that the server keeps open is in the hands of   *)
(* the accept loop or of its own handler.                                  *)
ConnectionsAccounted ==
  /\ TypeOK
  /\ active = Cardinality({c \in Clients : Admitted(c)})
  /\ \A c \in Clients : conn[c] = "open" <=> Serving(c) \/ holding = c

(* Once Stop has returned nothing more is answered, although the accept    *)
(* loop may still launch a handler that Stop did not wait for.             *)
NoReplyAfterStop ==
  [][server = "stopped" =>
       \A c \in Clients : response'[c] # "none" => response[c] # "none"]_vars

(* "Graceful Fallback": whatever the server does - not there, full,        *)
(* stopped or killed in the middle of the exchange, or not speaking the    *)
(* protocol - every client gets to run its command.                        *)
EveryClientRuns == \A c \in Clients : pc[c] \in Waiting ~> pc[c] = "run"

(* Stop returns although clients keep their connections open for as long   *)
(* as their commands run.                                                  *)
StopReturns == server = "cancelled" ~> server \in {"stopped", "killed"}
=============================================================================
