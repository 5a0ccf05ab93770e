-------------------------------- MODULE Daemon --------------------------------
(***************************************************************************)
(* The life of patienced processes (pkg/daemon/daemon.go, the start and    *)
(* stop of the HTTP server in pkg/daemon/server.go, and                    *)
(* cmd/patienced/main.go): the check for a running daemon, Start, the      *)
(* goroutines Start launches, the shutdown on a signal, Stop, and what     *)
(* they do to the two files that all instances share, the PID file and the *)
(* socket.  An instance stands for one process and for its PID.            *)
(*                                                                         *)
(* What the worker pool does with connections is in module WorkerPool; its *)
(* Stop, which terminates (StopTerminates there), is one step here.        *)
(***************************************************************************)
EXTENDS Naturals, FiniteSets

CONSTANTS
  Instances,      \* daemon processes
  NoFile          \* no file under this path

ASSUME DaemonAssumption == NoFile \notin Instances

VARIABLES
  library,        \* instances that use the package and end with Stop or
                  \* Close, as the tests do; the others are patienced
  main,           \* main[i]: where the main goroutine is
  http,           \* http[i]: the goroutine that runs the HTTP server
  busy,           \* busy[i]: a client's HTTP request is under way
  accept,         \* accept[i]: the goroutine in handleConnections
  sigs,           \* sigs[i]: the goroutine of setupSignalHandling
  pool,           \* pool[i]: the worker pool
  ctxDone,        \* ctxDone[i]: d.cancel has been called
  pidFile,        \* whose PID the PID file holds
  socket,         \* whose listener the socket path leads to
  foreign,        \* PIDs that the system has given to other programs
  stopCmd,        \* patienced -stop: the PID it read and found alive
  \* observation
  overlapped      \* the pairs of instances whose starts overlapped

goroutines == <<http, busy, accept, sigs, pool>>
files == <<pidFile, socket>>
others == <<library, foreign, stopCmd, overlapped>>
vars == <<main, goroutines, ctxDone, files, others>>

MainStates == {"new", "checked", "pid", "clean", "serving", "refused",
               "failed", "exited", "killed", "cancelled", "unlistened",
               "pooldown", "httpdown", "waited", "unlinked", "stopped",
               "closing", "closewait", "closed"}

Starting == {"checked", "pid", "clean"}
Ended == {"refused", "failed", "exited", "killed"}

Alive(i) == main[i] \notin Ended \cup {"new"}

(* IsRunning: the PID file names a process that accepts signal 0.          *)
IsRunning == pidFile # NoFile /\ (Alive(pidFile) \/ pidFile \in foreign)

(* d.wg is zero.                                                           *)
WaitGroupZero(i) ==
  /\ http[i] \in {"off", "done"}
  /\ accept[i] = "done"
  /\ sigs[i] = "done"

Goto(i, s) == main' = [main EXCEPT ![i] = s]

-----------------------------------------------------------------------------
Init ==
  /\ library \in SUBSET Instances
  /\ main = [i \in Instances |-> "new"]
  /\ http = [i \in Instances |-> "off"]
  /\ busy = [i \in Instances |-> FALSE]
  /\ accept = [i \in Instances |-> "off"]
  /\ sigs = [i \in Instances |-> "off"]
  /\ pool = [i \in Instances |-> "off"]
  /\ ctxDone = [i \in Instances |-> FALSE]
  /\ pidFile = NoFile
  /\ socket = NoFile
  /\ foreign = {}
  /\ stopCmd = NoFile
  /\ overlapped = {}

(* i begins its start beside the instances that are in theirs.             *)
BeginStart(i) ==
  /\ Goto(i, "checked")
  /\ overlapped' = overlapped \cup
       {{i, j} : j \in {k \in Instances : main[k] \in Starting}}

(* Mutated Check: the PID file is looked at but its process is not.        *)
CheckNothing(i) ==
  /\ main[i] = "new"
  /\ i \notin foreign
  /\ BeginStart(i)
  /\ UNCHANGED <<goroutines, ctxDone, files, library, foreign, stopCmd>>

(* main: refuse to start beside a running daemon.  A program that uses the *)
(* package goes to Start directly.                                         *)
Check(i) ==
  /\ main[i] = "new"
  /\ i \notin foreign
  /\ \/ /\ i \notin library
        /\ IsRunning
        /\ Goto(i, "refused")
        /\ UNCHANGED overlapped
     \/ /\ i \in library \/ ~IsRunning
        /\ BeginStart(i)
  /\ UNCHANGED <<goroutines, ctxDone, files, library, foreign, stopCmd>>

(* Start, writePidFile: overwrites whatever is there.                      *)
WritePidFile(i) ==
  /\ main[i] = "checked"
  /\ pidFile' = i
  /\ Goto(i, "pid")
  /\ UNCHANGED <<goroutines, ctxDone, socket, others>>

(* Mutated CleanupSocket: a left-over socket is not removed.               *)
KeepSocket(i) ==
  /\ main[i] = "pid"
  /\ Goto(i, "clean")
  /\ UNCHANGED <<goroutines, ctxDone, files, others>>

(* Start, cleanupSocket: removes the socket, whoever listens on it.        *)
CleanupSocket(i) ==
  /\ main[i] = "pid"
  /\ socket' = NoFile
  /\ Goto(i, "clean")
  /\ UNCHANGED <<goroutines, ctxDone, pidFile, others>>

(* Start, net.Listen: fails if the path exists, and Start returns the      *)
(* error (the PID file stays); else the goroutines are launched.           *)
Listen(i, enableHTTP) ==
  /\ main[i] = "clean"
  /\ \/ /\ socket # NoFile
        /\ Goto(i, "failed")
        /\ UNCHANGED <<socket, goroutines>>
     \/ /\ socket = NoFile
        /\ socket' = i
        /\ Goto(i, "serving")
        /\ pool' = [pool EXCEPT ![i] = "running"]
        /\ http' = [http EXCEPT ![i] = IF enableHTTP THEN "run" ELSE "off"]
        /\ accept' = [accept EXCEPT ![i] = "run"]
        /\ sigs' = [sigs EXCEPT ![i] = "run"]
        /\ UNCHANGED busy
  /\ UNCHANGED <<ctxDone, pidFile, others>>

-----------------------------------------------------------------------------
(* SIGINT or SIGTERM: before signal.Notify it kills the process, then the  *)
(* signal goroutine cancels the context and ends; later ones are ignored.  *)
SignalEffect(i) ==
  \/ /\ sigs[i] = "run"
     /\ sigs' = [sigs EXCEPT ![i] = "done"]
     /\ ctxDone' = [ctxDone EXCEPT ![i] = TRUE]
     /\ UNCHANGED main
  \/ /\ sigs[i] = "off"
     /\ Goto(i, "killed")
     /\ UNCHANGED <<sigs, ctxDone>>
  \/ /\ sigs[i] = "done"
     /\ UNCHANGED <<main, sigs, ctxDone>>

Signal(i) ==
  /\ Alive(i)
  /\ SignalEffect(i)
  /\ UNCHANGED <<http, busy, accept, pool, files, others>>

(* The signal goroutine sees that the context is cancelled.                *)
SignalReturns(i) ==
  /\ Alive(i) /\ ctxDone[i] /\ sigs[i] = "run"
  /\ sigs' = [sigs EXCEPT ![i] = "done"]
  /\ UNCHANGED <<main, http, busy, accept, pool, ctxDone, files, others>>

(* Mutated AcceptReturns: Accept without a deadline, and nobody connects.  *)
AcceptBlocks(i) ==
  /\ Alive(i) /\ ctxDone[i] /\ accept[i] = "run"
  /\ UNCHANGED vars

(* handleConnections: Accept has a deadline of 1 second; then the context  *)
(* is looked at.                                                           *)
AcceptReturns(i) ==
  /\ Alive(i) /\ ctxDone[i] /\ accept[i] = "run"
  /\ accept' = [accept EXCEPT ![i] = "done"]
  /\ UNCHANGED <<main, http, busy, sigs, pool, ctxDone, files, others>>

(* A client of the HTTP server: a request it has begun, and the handler    *)
(* that serves it.  The server sets no read, write or idle timeout, so     *)
(* that a client may take as long as it likes.                             *)
HTTPRequest(i) ==
  /\ Alive(i) /\ http[i] = "run" /\ ~busy[i]
  /\ busy' = [busy EXCEPT ![i] = TRUE]
  /\ UNCHANGED <<main, http, accept, sigs, pool, ctxDone, files, others>>

HTTPRequestEnds(i) ==
  /\ Alive(i) /\ busy[i]
  /\ busy' = [busy EXCEPT ![i] = FALSE]
  /\ UNCHANGED <<main, http, accept, sigs, pool, ctxDone, files, others>>

(* Server.Start: the context is cancelled, Shutdown closes the listener    *)
(* and the idle connections ...                                            *)
HTTPShutdown(i) ==
  /\ Alive(i) /\ ctxDone[i] /\ http[i] = "run"
  /\ http' = [http EXCEPT ![i] = "closing"]
  /\ UNCHANGED <<main, busy, accept, sigs, pool, ctxDone, files, others>>

(* ... and waits for the requests under way, without a deadline; ...       *)
HTTPReturns(i) ==
  /\ Alive(i) /\ http[i] = "closing" /\ ~busy[i]
  /\ http' = [http EXCEPT ![i] = "done"]
  /\ UNCHANGED <<main, busy, accept, sigs, pool, ctxDone, files, others>>

(* ... or it returns at any time with an error of ListenAndServe, for      *)
(* instance because the port is taken: the daemon goes on without HTTP.    *)
HTTPFails(i) ==
  /\ Alive(i) /\ http[i] = "run"
  /\ http' = [http EXCEPT ![i] = "done"]
  /\ UNCHANGED <<main, busy, accept, sigs, pool, ctxDone, files, others>>

(* main: d.Wait() returns and the process exits.                           *)
MainReturns(i) ==
  /\ i \notin library
  /\ main[i] = "serving"
  /\ WaitGroupZero(i)
  /\ Goto(i, "exited")
  /\ UNCHANGED <<goroutines, ctxDone, files, others>>

(* SIGKILL or a crash.                                                     *)
Kill(i) ==
  /\ Alive(i)
  /\ Goto(i, "killed")
  /\ UNCHANGED <<goroutines, ctxDone, files, others>>

-----------------------------------------------------------------------------
(* Stop, step by step.                                                     *)
StopCancel(i) ==
  /\ i \in library
  /\ main[i] = "serving"
  /\ ctxDone' = [ctxDone EXCEPT ![i] = TRUE]
  /\ Goto(i, "cancelled")
  /\ UNCHANGED <<goroutines, files, others>>

(* Closing a Unix listener unlinks its path.                               *)
StopListener(i) ==
  /\ main[i] = "cancelled"
  /\ socket' = NoFile
  /\ Goto(i, "unlistened")
  /\ UNCHANGED <<goroutines, ctxDone, pidFile, others>>

StopPool(i) ==
  /\ main[i] = "unlistened"
  /\ pool' = [pool EXCEPT ![i] = "stopped"]
  /\ Goto(i, "pooldown")
  /\ UNCHANGED <<http, busy, accept, sigs, ctxDone, files, others>>

(* d.server.Stop(): a second Shutdown, which gives up after 5 seconds.     *)
StopHTTP(i) ==
  /\ main[i] = "pooldown"
  /\ Goto(i, "httpdown")
  /\ UNCHANGED <<goroutines, ctxDone, files, others>>

StopWait(i) ==
  /\ main[i] = "httpdown"
  /\ WaitGroupZero(i)
  /\ Goto(i, "waited")
  /\ UNCHANGED <<goroutines, ctxDone, files, others>>

StopCleanupSocket(i) ==
  /\ main[i] = "waited"
  /\ socket' = NoFile
  /\ Goto(i, "unlinked")
  /\ UNCHANGED <<goroutines, ctxDone, pidFile, others>>

StopRemovePidFile(i) ==
  /\ main[i] = "unlinked"
  /\ pidFile' = NoFile
  /\ Goto(i, "stopped")
  /\ UNCHANGED <<goroutines, ctxDone, socket, others>>

Stop(i) ==
  \/ StopListener(i) \/ StopPool(i) \/ StopHTTP(i) \/ StopWait(i)
  \/ StopCleanupSocket(i) \/ StopRemovePidFile(i)

(* Close: cancel, close the listener, wait; pool and PID file are left.    *)
CloseCancel(i) ==
  /\ i \in library
  /\ main[i] = "serving"
  /\ ctxDone' = [ctxDone EXCEPT ![i] = TRUE]
  /\ Goto(i, "closing")
  /\ UNCHANGED <<goroutines, files, others>>

CloseListener(i) ==
  /\ main[i] = "closing"
  /\ socket' = NoFile
  /\ Goto(i, "closewait")
  /\ UNCHANGED <<goroutines, ctxDone, pidFile, others>>

CloseWait(i) ==
  /\ main[i] = "closewait"
  /\ WaitGroupZero(i)
  /\ Goto(i, "closed")
  /\ UNCHANGED <<goroutines, ctxDone, files, others>>

-----------------------------------------------------------------------------
(* patienced -stop reads the PID file and asks whether the process exists. *)
StopCmdCheck ==
  /\ stopCmd = NoFile
  /\ IsRunning
  /\ stopCmd' = pidFile
  /\ UNCHANGED <<main, goroutines, ctxDone, files, library, foreign, overlapped>>

(* Then it sends the signal to that PID, whose process may have ended or   *)
(* be another program by now.                                              *)
StopCmdSignal ==
  /\ stopCmd # NoFile
  /\ \/ /\ stopCmd \notin foreign
        /\ Alive(stopCmd)
        /\ SignalEffect(stopCmd)
     \/ /\ stopCmd \in foreign \/ ~Alive(stopCmd)
        /\ UNCHANGED <<main, sigs, ctxDone>>
  /\ stopCmd' = NoFile
  /\ UNCHANGED <<http, busy, accept, pool, files, library, foreign, overlapped>>

(* The system gives the PID of a process that has ended to another one.    *)
ReusePid(i) ==
  /\ main[i] \in Ended
  /\ foreign' = foreign \cup {i}
  /\ UNCHANGED <<main, goroutines, ctxDone, files, library, stopCmd, overlapped>>

-----------------------------------------------------------------------------
StartSteps(i) ==
  \/ WritePidFile(i) \/ CleanupSocket(i)
  \/ \E enableHTTP \in BOOLEAN : Listen(i, enableHTTP)

Goroutines(i) ==
  \/ SignalReturns(i) \/ AcceptReturns(i)
  \/ HTTPRequest(i) \/ HTTPRequestEnds(i)
  \/ HTTPShutdown(i) \/ HTTPReturns(i) \/ HTTPFails(i)

Next ==
  \/ \E i \in Instances :
       \/ Check(i) \/ StartSteps(i)
       \/ Signal(i) \/ Kill(i) \/ ReusePid(i)
       \/ Goroutines(i) \/ MainReturns(i)
       \/ StopCancel(i) \/ Stop(i)
       \/ CloseCancel(i) \/ CloseListener(i) \/ CloseWait(i)
  \/ StopCmdCheck
  \/ StopCmdSignal

Spec == Init /\ [][Next]_vars

(* Fairness: a process that lives keeps running; Accept ends at its        *)
(* deadline; Shutdown returns when no request is under way.  Nothing is    *)
(* assumed of HTTP clients: a request need never end.                      *)
Fairness ==
  /\ \A i \in Instances :
       /\ WF_vars(StartSteps(i) \/ Stop(i) \/ MainReturns(i))
       /\ WF_vars(SignalReturns(i))
       /\ WF_vars(AcceptReturns(i))
       /\ WF_vars(HTTPShutdown(i))
       /\ WF_vars(HTTPReturns(i))

FairSpec == Spec /\ Fairness

-----------------------------------------------------------------------------
TypeOK ==
  /\ library \subseteq Instances
  /\ main \in [Instances -> MainStates]
  /\ http \in [Instances -> {"off", "run", "closing", "done"}]
  /\ busy \in [Instances -> BOOLEAN]
  /\ accept \in [Instances -> {"off", "run", "done"}]
  /\ sigs \in [Instances -> {"off", "run", "done"}]
  /\ pool \in [Instances -> {"off", "running", "stopped"}]
  /\ ctxDone \in [Instances -> BOOLEAN]
  /\ pidFile \in Instances \cup {NoFile}
  /\ socket \in Instances \cup {NoFile}
  /\ foreign \subseteq Instances
  /\ stopCmd \in Instances \cup {NoFile}
  /\ overlapped \subseteq SUBSET Instances

(* As long as no two instances start at the same time, patienced is        *)
(* alone: the instance that serves owns the PID file and the socket, also  *)
(* after crashes and shutdowns that left those of others behind.           *)
SerialStartsAreExclusive ==
  /\ TypeOK
  /\ library = {} /\ overlapped = {} =>
       \A i \in Instances : main[i] = "serving" =>
         /\ pidFile = i
         /\ socket = i
         /\ \A j \in Instances : Alive(j) => j = i

(* A start fails only because of an instance whose start overlapped with   *)
(* it: the socket that Listen meets was made by that instance, after this  *)
(* one's cleanup, and its maker may have died since.  A socket left by an  *)
(* instance that was up, or had ended, when this start began never keeps   *)
(* it from listening.                                                      *)
OnlyRacesFailStart ==
  [][\A i \in Instances :
       main[i] # "failed" /\ main'[i] = "failed" =>
         socket # i /\ {i, socket} \in overlapped]_vars

(* Nothing is left: no goroutine, no pool, no file.                        *)
NothingLeft(i) ==
  /\ WaitGroupZero(i)
  /\ pool[i] = "stopped"
  /\ pidFile # i
  /\ socket # i

(* A shutdown completes unless an HTTP request never ends: a daemon that   *)
(* got SIGINT or SIGTERM exits, and Stop returns and has left nothing,     *)
(* whatever the other goroutines that it waits for are busy with.          *)
ShutdownCompletes ==
  \A i \in Instances :
    /\ (i \notin library /\ ctxDone[i]) ~>
         main[i] \in {"exited", "killed"} \/ []busy[i]
    /\ main[i] = "cancelled" ~>
         \/ main[i] = "killed"
         \/ main[i] = "stopped" /\ NothingLeft(i)
         \/ []busy[i]

(* "Shutdown should complete within reasonable time"                       *)
(* (daemon_worker_pool_test.go:247, daemon_test.go:304): Stop returns,     *)
(* also while an HTTP client takes its time.  Server.Stop limits its       *)
(* Shutdown to 5 seconds, but Stop then waits for Server.Start, whose      *)
(* Shutdown has no limit.                                                  *)
StopReturns ==
  \A i \in Instances :
    main[i] = "cancelled" ~> main[i] \in {"killed", "stopped"}
=============================================================================
