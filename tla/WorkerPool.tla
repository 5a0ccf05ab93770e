----------------------------- MODULE WorkerPool -----------------------------
(***************************************************************************)
(* The fixed-size worker pool of the metrics daemon                        *)
(* (pkg/daemon/worker_pool.go).                                            *)
(*                                                                         *)
(* Goroutines that run concurrently here: one submitter per connection     *)
(* (SubmitConnection is called from the accept loop, and from several      *)
(* goroutines at once by the tests), the workers that Start launches, and  *)
(* any number of callers of Stop.  A step of the model is a stretch of     *)
(* code between two points at which another goroutine can interfere: a     *)
(* critical section of mu, a select, a blocking read, a call into storage. *)
(***************************************************************************)
EXTENDS Naturals, Sequences, FiniteSets

CONSTANTS
  Conns,        \* connections clients open; each is submitted once
  NumWorkers,   \* the workers field, after NewWorkerPool has clamped it
  Stoppers,     \* goroutines that call Stop
  MaxStarts,    \* bound: how often Start launches a batch of workers
  NoConn        \* a worker that holds no connection

ASSUME PoolAssumption ==
  /\ NumWorkers \in Nat \ {0}
  /\ MaxStarts \in Nat \ {0}
  /\ NoConn \notin Conns

VARIABLES
  started,      \* wp.started, guarded by wp.mu
  ctxDone,      \* wp.ctx has been cancelled
  queue,        \* wp.jobQueue, a buffered channel
  starts,       \* how often Start has launched workers
  worker,       \* worker[w]: where goroutine w is in its loop
  holds,        \* holds[w]: the connection handleConnection of w works on
  conn,         \* conn[c]: where connection c is
  result,       \* result[c]: what SubmitConnection(c) returned
  payload,      \* payload[c]: what the client of c sends
  stored,       \* connections whose metrics went to storage, in order
  stop          \* stop[s]: where the Stop call of s is

vars == <<started, ctxDone, queue, starts, worker, holds, conn, result,
          payload, stored, stop>>

(* make(chan net.Conn, workers*2)                                          *)
QueueCap == 2 * NumWorkers

(* Each call of Start launches a new batch: worker <<g, i>> is the i-th    *)
(* goroutine of the g-th batch.                                            *)
WorkerIds == (1 .. MaxStarts) \X (1 .. NumWorkers)

WorkerStates == {"absent", "select", "read", "close", "exited"}
ConnStates   == {"new", "checked", "queued", "handling", "closed"}
StopStates   == {"idle", "marked", "waiting", "returned"}

(* "metrics": a complete RunMetrics document.  "unusable": everything      *)
(* handleConnection gives up on - a read error, silence until the 5 second *)
(* read deadline, no data at all, data that is not JSON.                   *)
Payloads == {"metrics", "unusable"}

Live(w) == worker[w] \in {"select", "read", "close"}

(* workerWg is zero: every goroutine that was added has called Done.       *)
WaitGroupZero == \A w \in WorkerIds : ~Live(w)

StopInProgress == \E s \in Stoppers : stop[s] \in {"marked", "waiting"}

-----------------------------------------------------------------------------
Init ==
  /\ started = FALSE
  /\ ctxDone = FALSE
  /\ queue = <<>>
  /\ starts = 0
  /\ worker = [w \in WorkerIds |-> "absent"]
  /\ holds = [w \in WorkerIds |-> NoConn]
  /\ conn = [c \in Conns |-> "new"]
  /\ result = [c \in Conns |-> "none"]
  /\ payload \in [Conns -> Payloads]
  /\ stored = <<>>
  /\ stop = [s \in Stoppers |-> "idle"]

(* Start: under mu, nothing if started, else one goroutine per worker.     *)
(* The owner of the pool does not call Start while a Stop is running (a    *)
(* WaitGroup must not be reused before Wait has returned).                 *)
Start ==
  /\ ~started
  /\ ~StopInProgress
  /\ starts < MaxStarts
  /\ started' = TRUE
  /\ starts' = starts + 1
  /\ worker' = [w \in WorkerIds |->
                  IF w[1] = starts' THEN "select" ELSE worker[w]]
  /\ UNCHANGED <<ctxDone, queue, holds, conn, result, payload, stored, stop>>

-----------------------------------------------------------------------------
(* Stop, its critical section: a pool that is not started is left alone.   *)
StopMark(s) ==
  /\ stop[s] = "idle"
  /\ started' = FALSE
  /\ stop' = [stop EXCEPT ![s] = IF started THEN "marked" ELSE "returned"]
  /\ UNCHANGED <<ctxDone, queue, starts, worker, holds, conn, result, payload,
                 stored>>

(* Mutated StopCancel: the call of cancel is forgotten.                    *)
StopWithoutCancel(s) ==
  /\ stop[s] = "marked"
  /\ stop' = [stop EXCEPT ![s] = "waiting"]
  /\ UNCHANGED <<started, ctxDone, queue, starts, worker, holds, conn, result,
                 payload, stored>>

(* Stop, after the unlock: cancel the context.                             *)
StopCancel(s) ==
  /\ stop[s] = "marked"
  /\ ctxDone' = TRUE
  /\ stop' = [stop EXCEPT ![s] = "waiting"]
  /\ UNCHANGED <<started, queue, starts, worker, holds, conn, result, payload,
                 stored>>

(* Mutated StopWait: Stop returns without waiting for the workers.         *)
StopWithoutWait(s) ==
  /\ stop[s] = "waiting"
  /\ stop' = [stop EXCEPT ![s] = "returned"]
  /\ UNCHANGED <<started, ctxDone, queue, starts, worker, holds, conn, result,
                 payload, stored>>

(* Stop, workerWg.Wait(): returns once every worker has exited.            *)
StopWait(s) ==
  /\ stop[s] = "waiting"
  /\ WaitGroupZero
  /\ stop' = [stop EXCEPT ![s] = "returned"]
  /\ UNCHANGED <<started, ctxDone, queue, starts, worker, holds, conn, result,
                 payload, stored>>

-----------------------------------------------------------------------------
(* conn.Close() and SubmitConnection returns false.                        *)
Reject(c) ==
  /\ conn' = [conn EXCEPT ![c] = "closed"]
  /\ result' = [result EXCEPT ![c] = "false"]

(* SubmitConnection, the check of started under the read lock.             *)
SubmitCheck(c) ==
  /\ conn[c] = "new"
  /\ \/ /\ started
        /\ conn' = [conn EXCEPT ![c] = "checked"]
        /\ UNCHANGED result
     \/ /\ ~started
        /\ Reject(c)
  /\ UNCHANGED <<started, ctxDone, queue, starts, worker, holds, payload,
                 stored, stop>>

(* SubmitConnection, the select after the unlock.  When the queue has room *)
(* and the context is cancelled both cases are ready and Go takes either;  *)
(* the default case runs only when none is ready.                          *)
SubmitSelect(c) ==
  /\ conn[c] = "checked"
  /\ \/ /\ Len(queue) < QueueCap
        /\ queue' = Append(queue, c)
        /\ conn' = [conn EXCEPT ![c] = "queued"]
        /\ result' = [result EXCEPT ![c] = "true"]
     \/ /\ ctxDone
        /\ Reject(c)
        /\ UNCHANGED queue
     \/ /\ Len(queue) = QueueCap
        /\ ~ctxDone
        /\ Reject(c)
        /\ UNCHANGED queue
  /\ UNCHANGED <<started, ctxDone, starts, worker, holds, payload, stored,
                 stop>>

-----------------------------------------------------------------------------
(* Mutated WorkerTake: the connection is looked at but left in the queue.  *)
WorkerPeek(w) ==
  /\ worker[w] = "select"
  /\ queue # <<>>
  /\ holds' = [holds EXCEPT ![w] = Head(queue)]
  /\ conn' = [conn EXCEPT ![Head(queue)] = "handling"]
  /\ worker' = [worker EXCEPT ![w] = "read"]
  /\ UNCHANGED <<started, ctxDone, queue, starts, result, payload, stored, stop>>

(* Mutated WorkerTake: the connection that came last is taken first.       *)
WorkerTakeLast(w) ==
  /\ worker[w] = "select"
  /\ queue # <<>>
  /\ queue' = SubSeq(queue, 1, Len(queue) - 1)
  /\ holds' = [holds EXCEPT ![w] = queue[Len(queue)]]
  /\ conn' = [conn EXCEPT ![queue[Len(queue)]] = "handling"]
  /\ worker' = [worker EXCEPT ![w] = "read"]
  /\ UNCHANGED <<started, ctxDone, starts, result, payload, stored, stop>>

(* worker, the receive case of its select.  (The queue is never closed, so *)
(* the !ok branch cannot be taken.)                                        *)
WorkerTake(w) ==
  /\ worker[w] = "select"
  /\ queue # <<>>
  /\ queue' = Tail(queue)
  /\ holds' = [holds EXCEPT ![w] = Head(queue)]
  /\ conn' = [conn EXCEPT ![Head(queue)] = "handling"]
  /\ worker' = [worker EXCEPT ![w] = "read"]
  /\ UNCHANGED <<started, ctxDone, starts, result, payload, stored, stop>>

(* worker, the ctx.Done() case; Go may take it while the queue is not      *)
(* empty, and may as well not take it.                                     *)
WorkerExit(w) ==
  /\ worker[w] = "select"
  /\ ctxDone
  /\ worker' = [worker EXCEPT ![w] = "exited"]
  /\ UNCHANGED <<started, ctxDone, queue, starts, holds, conn, result, payload,
                 stored, stop>>

(* Mutated ReadFails: without SetReadDeadline a silent client holds the    *)
(* worker for ever.                                                        *)
ReadBlocksForever(w) ==
  /\ worker[w] = "read"
  /\ payload[holds[w]] = "unusable"
  /\ UNCHANGED vars

(* handleConnection, its early returns: the deferred Close runs and the    *)
(* worker is back in its loop.                                             *)
ReadFails(w) ==
  /\ worker[w] = "read"
  /\ payload[holds[w]] = "unusable"
  /\ conn' = [conn EXCEPT ![holds[w]] = "closed"]
  /\ holds' = [holds EXCEPT ![w] = NoConn]
  /\ worker' = [worker EXCEPT ![w] = "select"]
  /\ UNCHANGED <<started, ctxDone, queue, starts, result, payload, stored,
                 stop>>

(* Mutated StoreMetrics: the store is retried although it succeeded.       *)
StoreAndRetry(w) ==
  /\ worker[w] = "read"
  /\ payload[holds[w]] = "metrics"
  /\ Len(stored) < Cardinality(Conns)
  /\ stored' = Append(stored, holds[w])
  /\ UNCHANGED <<started, ctxDone, queue, starts, worker, holds, conn, result,
                 payload, stop>>

(* handleConnection, read and parsed: storage.Store.                       *)
StoreMetrics(w) ==
  /\ worker[w] = "read"
  /\ payload[holds[w]] = "metrics"
  /\ stored' = Append(stored, holds[w])
  /\ worker' = [worker EXCEPT ![w] = "close"]
  /\ UNCHANGED <<started, ctxDone, queue, starts, holds, conn, result, payload,
                 stop>>

(* handleConnection, the deferred Close after a store.                     *)
CloseConn(w) ==
  /\ worker[w] = "close"
  /\ conn' = [conn EXCEPT ![holds[w]] = "closed"]
  /\ holds' = [holds EXCEPT ![w] = NoConn]
  /\ worker' = [worker EXCEPT ![w] = "select"]
  /\ UNCHANGED <<started, ctxDone, queue, starts, result, payload, stored,
                 stop>>

-----------------------------------------------------------------------------
Submit(c) == SubmitCheck(c) \/ SubmitSelect(c)

WorkerStep(w) ==
  \/ WorkerTake(w) \/ WorkerExit(w)
  \/ ReadFails(w) \/ StoreMetrics(w) \/ CloseConn(w)

StopStep(s) == StopMark(s) \/ StopCancel(s) \/ StopWait(s)

Next ==
  \/ Start
  \/ \E s \in Stoppers : StopStep(s)
  \/ \E c \in Conns : Submit(c)
  \/ \E w \in WorkerIds : WorkerStep(w)

Spec == Init /\ [][Next]_vars

(* Fairness: the Go scheduler runs every goroutine that can run, a read    *)
(* ends by its 5 second deadline, and a Stop that has begun goes on.       *)
(* Nothing is assumed about callers: Start, StopMark and the first half of *)
(* SubmitConnection may never happen.                                      *)
Fairness ==
  /\ \A w \in WorkerIds : WF_vars(WorkerStep(w))
  /\ \A s \in Stoppers : WF_vars(StopCancel(s) \/ StopWait(s))
  /\ \A c \in Conns : WF_vars(SubmitSelect(c))

FairSpec == Spec /\ Fairness

-----------------------------------------------------------------------------
(* The state is well formed; the channel never holds more than its buffer. *)
TypeOK ==
  /\ started \in BOOLEAN
  /\ ctxDone \in BOOLEAN
  /\ queue \in Seq(Conns)
  /\ Len(queue) <= QueueCap
  /\ starts \in 0 .. MaxStarts
  /\ worker \in [WorkerIds -> WorkerStates]
  /\ holds \in [WorkerIds -> Conns \cup {NoConn}]
  /\ conn \in [Conns -> ConnStates]
  /\ result \in [Conns -> {"none", "true", "false"}]
  /\ payload \in [Conns -> Payloads]
  /\ stored \in Seq(Conns)
  /\ stop \in [Stoppers -> StopStates]

QueueHasNoDuplicate ==
  \A i, j \in 1 .. Len(queue) : queue[i] = queue[j] => i = j

QueuedIsInQueue ==
  \A c \in Conns :
    conn[c] = "queued" <=> \E i \in 1 .. Len(queue) : queue[i] = c

WorkerHoldsOne ==
  \A w \in WorkerIds :
    IF worker[w] \in {"read", "close"}
    THEN holds[w] # NoConn /\ conn[holds[w]] = "handling"
    ELSE holds[w] = NoConn

HandledByOne ==
  \A v, w \in WorkerIds : holds[v] = holds[w] /\ holds[v] # NoConn => v = w

OwnedOnce ==
  /\ QueueHasNoDuplicate
  /\ QueuedIsInQueue
  /\ WorkerHoldsOne
  /\ HandledByOne

(* Every connection has one owner: it is in the channel, which holds no    *)
(* more than its buffer, at most once, a worker that runs handleConnection *)
(* holds exactly one that no longer is in the channel, and no two workers  *)
(* hold the same.                                                          *)
SingleOwner == TypeOK /\ OwnedOnce

(* handleConnection stores the metrics of an accepted connection exactly   *)
(* once: never twice, never for a rejected connection or unusable data,    *)
(* and a connection that sent metrics is not closed before they are        *)
(* stored.                                                                 *)
StoredExactlyOnce ==
  /\ \A i, j \in 1 .. Len(stored) : stored[i] = stored[j] => i = j
  /\ \A c \in Conns :
       IF \E i \in 1 .. Len(stored) : stored[i] = c
       THEN payload[c] = "metrics" /\ result[c] = "true"
       ELSE ~(conn[c] = "closed" /\ result[c] = "true"
                /\ payload[c] = "metrics")

(* No worker outlives Stop: in a pool that is not started, workers run     *)
(* only while the Stop that took the pool down has not returned - also     *)
(* when other callers of Stop returned early because started was already   *)
(* false.                                                                  *)
NoWorkerOutlivesStop ==
  (\E w \in WorkerIds : Live(w)) => started \/ StopInProgress

(* Every call of Stop returns, whatever the workers are busy with.         *)
StopTerminates ==
  \A s \in Stoppers : stop[s] = "marked" ~> stop[s] = "returned"

(* A connection that was accepted is handled and closed, unless the pool   *)
(* is stopped first.                                                       *)
AcceptedIsHandled ==
  \A c \in Conns : conn[c] = "queued" ~> conn[c] = "closed" \/ ctxDone

(* How a connection of the pool looks from outside.                        *)
Recorded(c) == \E i \in 1 .. Len(stored) : stored[i] = c

PhaseOf(c) ==
  CASE conn[c] \in {"new", "checked"} -> "offered"
    [] conn[c] = "queued"             -> "waiting"
    [] conn[c] = "handling"           -> IF Recorded(c) THEN "recorded" ELSE "served"
    [] conn[c] = "closed"             -> IF result[c] = "true" THEN "done" ELSE "refused"

Promise == INSTANCE Delivery WITH
  Capacity <- QueueCap,
  Servers <- NumWorkers,
  phase <- [c \in Conns |-> PhaseOf(c)],
  line <- queue,
  log <- stored,
  brings <- [c \in Conns |-> payload[c] = "metrics"]

(* The pool implements the promise of module Delivery, whatever happens to *)
(* it: connections are served in the order in which SubmitConnection       *)
(* accepted them, never more than NumWorkers at a time, each is recorded   *)
(* at most once and closed only when its metrics are recorded; Start, Stop *)
(* and the checks of SubmitConnection are invisible.                       *)
PromiseKept == Promise!Spec
=============================================================================
