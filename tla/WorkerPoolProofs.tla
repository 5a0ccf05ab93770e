-------------------------- MODULE WorkerPoolProofs --------------------------
(* Proofs about the worker pool, for any number of connections, workers,   *)
(* batches of workers and callers of Stop.                                 *)
EXTENDS WorkerPool, FiniteSetTheorems, TLAPS

-----------------------------------------------------------------------------
(* Facts about the channel as a sequence.                                  *)

(* Sending on the channel keeps what is in it and puts the new element at  *)
(* the end.                                                                *)
LEMMA AppendFacts ==
  ASSUME NEW S, NEW s \in Seq(S), NEW e \in S
  PROVE  /\ Append(s, e) \in Seq(S)
         /\ Len(Append(s, e)) = Len(s) + 1
         /\ Append(s, e)[Len(s) + 1] = e
         /\ \A i \in 1 .. Len(s) : Append(s, e)[i] = s[i]
  OBVIOUS

(* Receiving from the channel yields its first element and moves every     *)
(* other element up by one place.                                          *)
LEMMA TailFacts ==
  ASSUME NEW S, NEW s \in Seq(S), s # <<>>
  PROVE  /\ Len(s) \in Nat \ {0}
         /\ Head(s) = s[1]
         /\ Head(s) \in S
         /\ Tail(s) \in Seq(S)
         /\ Len(Tail(s)) = Len(s) - 1
         /\ \A i \in 1 .. Len(s) - 1 : Tail(s)[i] = s[i + 1]
  OBVIOUS

-----------------------------------------------------------------------------
(* The inductive invariant.                                                *)

(* Workers of a batch that has not been launched do not exist yet.         *)
BatchAbsent == \A w \in WorkerIds : w[1] > starts => worker[w] = "absent"

InStored(c) == \E i \in 1 .. Len(stored) : stored[i] = c

(* What SubmitConnection has returned by the time a connection is where it *)
(* is.                                                                     *)
ResultMatchesPlace ==
  \A c \in Conns :
    /\ conn[c] \in {"new", "checked"} => result[c] = "none"
    /\ conn[c] \in {"queued", "handling"} => result[c] = "true"

(* What is in storage is there once, was accepted, and its connection is   *)
(* closed or about to be closed by the worker that stored it.              *)
StoredOnceByHolder ==
  /\ \A i, j \in 1 .. Len(stored) : stored[i] = stored[j] => i = j
  /\ \A i \in 1 .. Len(stored) :
       LET c == stored[i] IN
         /\ payload[c] = "metrics"
         /\ result[c] = "true"
         /\ \/ conn[c] = "closed"
            \/ \E w \in WorkerIds : worker[w] = "close" /\ holds[w] = c

(* A worker about to close has stored; and an accepted connection with     *)
(* metrics that is closed has been stored.                                 *)
ClosedAfterStore ==
  /\ \A w \in WorkerIds : worker[w] = "close" => InStored(holds[w])
  /\ \A c \in Conns :
       conn[c] = "closed" /\ result[c] = "true" /\ payload[c] = "metrics"
         => InStored(c)

StoreInv == ResultMatchesPlace /\ StoredOnceByHolder /\ ClosedAfterStore

OwnerInv == TypeOK /\ BatchAbsent /\ OwnedOnce

IInv == OwnerInv /\ StoreInv /\ NoWorkerOutlivesStop

-----------------------------------------------------------------------------
(* The invariant holds before Start is called.                             *)
LEMMA InitIInv == Init => IInv
<1> SUFFICES ASSUME Init PROVE IInv
  OBVIOUS
<1> USE PoolAssumption DEF Init
<1>1. TypeOK
  <2>1. started \in BOOLEAN /\ ctxDone \in BOOLEAN
    OBVIOUS
  <2>2. queue \in Seq(Conns) /\ Len(queue) <= QueueCap /\ stored \in Seq(Conns)
    BY DEF QueueCap
  <2>3. worker \in [WorkerIds -> WorkerStates] /\ starts \in 0 .. MaxStarts
    BY DEF WorkerStates
  <2>4. holds \in [WorkerIds -> Conns \cup {NoConn}]
    OBVIOUS
  <2>5. /\ conn \in [Conns -> ConnStates]
        /\ result \in [Conns -> {"none", "true", "false"}]
        /\ stop \in [Stoppers -> StopStates]
    BY DEF ConnStates, StopStates
  <2> QED
    BY <2>1, <2>2, <2>3, <2>4, <2>5 DEF TypeOK
<1>2. BatchAbsent
  BY DEF BatchAbsent
<1>3. OwnedOnce
  BY DEF OwnedOnce, QueueHasNoDuplicate, QueuedIsInQueue, WorkerHoldsOne, HandledByOne
<1>4. StoreInv
  BY DEF StoreInv, ResultMatchesPlace, StoredOnceByHolder, ClosedAfterStore, InStored
<1>5. NoWorkerOutlivesStop
  BY DEF NoWorkerOutlivesStop, Live
<1> QED
  BY <1>1, <1>2, <1>3, <1>4, <1>5 DEF IInv, OwnerInv

-----------------------------------------------------------------------------
(* No step of the pool breaks the types.  That StoreMetrics stores a       *)
(* connection at all needs WorkerHoldsOne.                                 *)
LEMMA TypeStep ==
  ASSUME TypeOK, WorkerHoldsOne, [Next]_vars
  PROVE  TypeOK'
<1> USE PoolAssumption DEF TypeOK, WorkerStates, ConnStates, StopStates
<1>1. CASE Start
  BY <1>1 DEF Start
<1>2. ASSUME NEW s \in Stoppers, StopStep(s)
      PROVE  TypeOK'
  BY <1>2 DEF StopStep, StopMark, StopCancel, StopWait
<1>3. ASSUME NEW c \in Conns, SubmitCheck(c)
      PROVE  TypeOK'
  BY <1>3 DEF SubmitCheck, Reject
<1>4. ASSUME NEW c \in Conns, SubmitSelect(c)
      PROVE  TypeOK'
  <2>1. CASE UNCHANGED queue
    BY <1>4, <2>1 DEF SubmitSelect, Reject
  <2>2. CASE Len(queue) < QueueCap /\ queue' = Append(queue, c)
    <3>1. queue' \in Seq(Conns) /\ Len(queue') <= QueueCap
      BY <2>2, AppendFacts DEF QueueCap
    <3> QED
      BY <1>4, <3>1 DEF SubmitSelect, Reject
  <2> QED
    BY <1>4, <2>1, <2>2 DEF SubmitSelect
<1>5. ASSUME NEW w \in WorkerIds, WorkerTake(w)
      PROVE  TypeOK'
  <2>1. Head(queue) \in Conns /\ queue' \in Seq(Conns) /\ Len(queue') <= QueueCap
    BY <1>5, TailFacts DEF WorkerTake, QueueCap
  <2> QED
    BY <1>5, <2>1 DEF WorkerTake
<1>6. ASSUME NEW w \in WorkerIds, WorkerExit(w) \/ ReadFails(w) \/ CloseConn(w)
      PROVE  TypeOK'
  BY <1>6 DEF WorkerExit, ReadFails, CloseConn
<1>7. ASSUME NEW w \in WorkerIds, StoreMetrics(w)
      PROVE  TypeOK'
  <2>1. holds[w] \in Conns
    BY <1>7 DEF StoreMetrics, WorkerHoldsOne
  <2> QED
    BY <1>7, <2>1, AppendFacts DEF StoreMetrics
<1>8. CASE UNCHANGED vars
  BY <1>8 DEF vars
<1> QED
  BY <1>1, <1>2, <1>3, <1>4, <1>5, <1>6, <1>7, <1>8 DEF Next, Submit, WorkerStep

(* Only Start changes the batches.                                         *)
LEMMA BatchStep ==
  ASSUME TypeOK, BatchAbsent, [Next]_vars
  PROVE  BatchAbsent'
<1> USE PoolAssumption DEF BatchAbsent, TypeOK
<1>1. CASE Start
  <2>1. ASSUME NEW w \in WorkerIds, w[1] > starts'
        PROVE  worker'[w] = "absent"
    <3>1. w[1] \in Nat /\ starts \in Nat /\ starts' = starts + 1
      BY <1>1 DEF Start, WorkerIds
    <3>2. w[1] > starts /\ w[1] # starts'
      BY <2>1, <3>1
    <3> QED
      BY <1>1, <3>2 DEF Start
  <2> QED
    BY <2>1
<1>2. ASSUME NEW w \in WorkerIds, WorkerStep(w)
      PROVE  BatchAbsent'
  <2>1. worker[w] # "absent" /\ starts' = starts
    BY <1>2 DEF WorkerStep, WorkerTake, WorkerExit, ReadFails, StoreMetrics, CloseConn
  <2>2. \A v \in WorkerIds : v # w => worker'[v] = worker[v]
    BY <1>2 DEF WorkerStep, WorkerTake, WorkerExit, ReadFails, StoreMetrics, CloseConn
  <2> QED
    BY <2>1, <2>2
<1>3. CASE UNCHANGED <<starts, worker>>
  BY <1>3
<1> QED
  BY <1>1, <1>2, <1>3
  DEF Next, vars, StopStep, StopMark, StopCancel, StopWait, Submit, SubmitCheck, SubmitSelect

-----------------------------------------------------------------------------
(* A step that moves neither the channel nor any connection or worker      *)
(* keeps ownership.                                                        *)
LEMMA OwnerFrame ==
  ASSUME OwnedOnce, UNCHANGED <<queue, conn, worker, holds>>
  PROVE  OwnedOnce'
BY DEF OwnedOnce, QueueHasNoDuplicate, QueuedIsInQueue, WorkerHoldsOne, HandledByOne

(* Start hands out fresh workers, which hold nothing.                      *)
LEMMA OwnerStart ==
  ASSUME TypeOK, BatchAbsent, OwnedOnce, Start
  PROVE  OwnedOnce'
<1> USE PoolAssumption DEF TypeOK, Start
<1>1. QueueHasNoDuplicate' /\ QueuedIsInQueue' /\ HandledByOne'
  BY DEF OwnedOnce, QueueHasNoDuplicate, QueuedIsInQueue, HandledByOne
<1>2. WorkerHoldsOne'
  <2> SUFFICES ASSUME NEW w \in WorkerIds
               PROVE  IF worker'[w] \in {"read", "close"}
                      THEN holds[w] # NoConn /\ conn[holds[w]] = "handling"
                      ELSE holds[w] = NoConn
    BY DEF WorkerHoldsOne
  <2>1. CASE w[1] = starts + 1
    <3>1. w[1] > starts
      BY <2>1
    <3>2. worker[w] = "absent" /\ worker'[w] = "select"
      BY <2>1, <3>1 DEF BatchAbsent
    <3> QED
      BY <3>2 DEF OwnedOnce, WorkerHoldsOne
  <2>2. CASE w[1] # starts + 1
    <3>1. worker'[w] = worker[w]
      BY <2>2
    <3> QED
      BY <3>1 DEF OwnedOnce, WorkerHoldsOne
  <2> QED
    BY <2>1, <2>2
<1> QED
  BY <1>1, <1>2 DEF OwnedOnce

(* SubmitConnection sends on the channel only a connection that was not    *)
(* in it.                                                                  *)
LEMMA OwnerSubmit ==
  ASSUME TypeOK, OwnedOnce, NEW c \in Conns, Submit(c)
  PROVE  OwnedOnce'
<1> USE DEF TypeOK
<1>1. UNCHANGED <<worker, holds>> /\ conn[c] \in {"new", "checked"}
  BY DEF Submit, SubmitCheck, SubmitSelect
<1>2. \A d \in Conns : d # c => conn'[d] = conn[d]
  BY DEF Submit, SubmitCheck, SubmitSelect, Reject
<1>3. \A w \in WorkerIds : holds[w] # NoConn => holds[w] # c
  BY <1>1 DEF OwnedOnce, WorkerHoldsOne
<1>4. WorkerHoldsOne' /\ HandledByOne'
  BY <1>1, <1>2, <1>3 DEF OwnedOnce, WorkerHoldsOne, HandledByOne
<1>5. \A i \in 1 .. Len(queue) : queue[i] # c
  BY <1>1 DEF OwnedOnce, QueuedIsInQueue
<1>6. CASE queue' = queue /\ conn'[c] # "queued"
  <2>1. QueueHasNoDuplicate'
    BY <1>6 DEF OwnedOnce, QueueHasNoDuplicate
  <2>2. QueuedIsInQueue'
    BY <1>2, <1>5, <1>6 DEF OwnedOnce, QueuedIsInQueue
  <2> QED
    BY <1>4, <2>1, <2>2 DEF OwnedOnce
<1>7. CASE queue' = Append(queue, c) /\ conn'[c] = "queued"
  <2>1. /\ Len(queue) \in Nat
        /\ Len(queue') = Len(queue) + 1
        /\ queue'[Len(queue) + 1] = c
        /\ \A i \in 1 .. Len(queue) : queue'[i] = queue[i]
    BY <1>7, AppendFacts
  <2>2. QueueHasNoDuplicate'
    <3> SUFFICES ASSUME NEW i \in 1 .. Len(queue) + 1, NEW j \in 1 .. Len(queue) + 1,
                        queue'[i] = queue'[j]
                 PROVE  i = j
      BY <2>1 DEF QueueHasNoDuplicate
    <3>1. CASE i \in 1 .. Len(queue) /\ j \in 1 .. Len(queue)
      BY <2>1, <3>1 DEF OwnedOnce, QueueHasNoDuplicate
    <3>2. CASE i = Len(queue) + 1 /\ j \in 1 .. Len(queue)
      BY <2>1, <1>5, <3>2
    <3>3. CASE j = Len(queue) + 1 /\ i \in 1 .. Len(queue)
      BY <2>1, <1>5, <3>3
    <3> QED
      BY <2>1, <3>1, <3>2, <3>3
  <2>3. QueuedIsInQueue'
    <3> SUFFICES ASSUME NEW d \in Conns
                 PROVE  conn'[d] = "queued" <=> \E i \in 1 .. Len(queue') : queue'[i] = d
      BY DEF QueuedIsInQueue
    <3>1. CASE d = c
      BY <1>7, <2>1, <3>1
    <3>2. CASE d # c
      <4>1. conn[d] = "queued" <=> \E i \in 1 .. Len(queue) : queue[i] = d
        BY DEF OwnedOnce, QueuedIsInQueue
      <4>2. ASSUME NEW i \in 1 .. Len(queue), queue[i] = d
            PROVE  \E j \in 1 .. Len(queue') : queue'[j] = d
        <5>1. i \in 1 .. Len(queue') /\ queue'[i] = d
          BY <2>1, <4>2
        <5> QED
          BY <5>1
      <4>3. ASSUME NEW j \in 1 .. Len(queue'), queue'[j] = d
            PROVE  \E i \in 1 .. Len(queue) : queue[i] = d
        <5>1. j \in 1 .. Len(queue) /\ queue[j] = d
          BY <2>1, <3>2, <4>3
        <5> QED
          BY <5>1
      <4> QED
        BY <4>1, <4>2, <4>3, <1>2, <3>2
    <3> QED
      BY <3>1, <3>2
  <2> QED
    BY <1>4, <2>2, <2>3 DEF OwnedOnce
<1> QED
  BY <1>4, <1>6, <1>7 DEF Submit, SubmitCheck, SubmitSelect, Reject, OwnedOnce

(* A worker that receives takes the only copy out of the channel.          *)
LEMMA OwnerTake ==
  ASSUME TypeOK, OwnedOnce, NEW w \in WorkerIds, WorkerTake(w)
  PROVE  OwnedOnce'
<1> USE PoolAssumption DEF TypeOK
<1> DEFINE c == Head(queue)
<1>1. /\ Len(queue) \in Nat \ {0}
      /\ c = queue[1] /\ c \in Conns
      /\ queue' \in Seq(Conns)
      /\ Len(queue') = Len(queue) - 1
      /\ \A i \in 1 .. Len(queue) - 1 : queue'[i] = queue[i + 1]
  BY TailFacts DEF WorkerTake
<1>2. conn[c] = "queued"
  BY <1>1 DEF OwnedOnce, QueuedIsInQueue
<1>3. /\ holds' = [holds EXCEPT ![w] = c]
      /\ conn' = [conn EXCEPT ![c] = "handling"]
      /\ worker' = [worker EXCEPT ![w] = "read"]
      /\ worker[w] = "select"
  BY DEF WorkerTake
<1>4. \A v \in WorkerIds : holds[v] # c
  BY <1>1, <1>2 DEF OwnedOnce, WorkerHoldsOne
<1> HIDE DEF c
<1>5. QueueHasNoDuplicate'
  <2>1. ASSUME NEW i \in 1 .. Len(queue'), NEW j \in 1 .. Len(queue'), queue'[i] = queue'[j]
        PROVE  i = j
    <3>1. queue[i + 1] = queue[j + 1] /\ i + 1 \in 1 .. Len(queue) /\ j + 1 \in 1 .. Len(queue)
      BY <1>1, <2>1
    <3> QED
      BY <3>1 DEF OwnedOnce, QueueHasNoDuplicate
  <2> QED
    BY <2>1 DEF QueueHasNoDuplicate
<1>6. QueuedIsInQueue'
  <2> SUFFICES ASSUME NEW d \in Conns
               PROVE  conn'[d] = "queued" <=> \E i \in 1 .. Len(queue') : queue'[i] = d
    BY DEF QueuedIsInQueue
  <2>1. CASE d = c
    <3>1. \A i \in 1 .. Len(queue') : queue'[i] # c
      <4> SUFFICES ASSUME NEW i \in 1 .. Len(queue'), queue'[i] = c
                   PROVE  FALSE
        OBVIOUS
      <4>1. queue[i + 1] = queue[1] /\ i + 1 \in 1 .. Len(queue) /\ 1 \in 1 .. Len(queue)
        BY <1>1
      <4>2. i + 1 = 1
        BY <4>1 DEF OwnedOnce, QueueHasNoDuplicate
      <4> QED
        BY <4>2, <1>1
    <3> QED
      BY <2>1, <3>1, <1>1, <1>3
  <2>2. CASE d # c
    <3>1. conn[d] = "queued" <=> \E i \in 1 .. Len(queue) : queue[i] = d
      BY DEF OwnedOnce, QueuedIsInQueue
    <3>2. ASSUME NEW i \in 1 .. Len(queue), queue[i] = d
          PROVE  \E j \in 1 .. Len(queue') : queue'[j] = d
      <4>1. i - 1 \in 1 .. Len(queue') /\ queue'[i - 1] = d
        BY <1>1, <2>2, <3>2
      <4> QED
        BY <4>1
    <3>3. ASSUME NEW j \in 1 .. Len(queue'), queue'[j] = d
          PROVE  \E i \in 1 .. Len(queue) : queue[i] = d
      <4>1. j + 1 \in 1 .. Len(queue) /\ queue[j + 1] = d
        BY <1>1, <3>3
      <4> QED
        BY <4>1
    <3> QED
      BY <3>1, <3>2, <3>3, <2>2, <1>1, <1>3
  <2> QED
    BY <2>1, <2>2
<1>7. WorkerHoldsOne'
  BY <1>1, <1>2, <1>3, <1>4 DEF OwnedOnce, WorkerHoldsOne
<1>8. HandledByOne'
  BY <1>1, <1>3, <1>4 DEF OwnedOnce, HandledByOne
<1> QED
  BY <1>5, <1>6, <1>7, <1>8 DEF OwnedOnce

(* A worker that gives up or closes lets go of what it held.               *)
LEMMA OwnerRelease ==
  ASSUME TypeOK, OwnedOnce, NEW w \in WorkerIds, ReadFails(w) \/ CloseConn(w)
  PROVE  OwnedOnce'
<1> USE PoolAssumption DEF TypeOK
<1>1. /\ worker[w] \in {"read", "close"}
      /\ conn' = [conn EXCEPT ![holds[w]] = "closed"]
      /\ holds' = [holds EXCEPT ![w] = NoConn]
      /\ worker' = [worker EXCEPT ![w] = "select"]
      /\ queue' = queue
  BY DEF ReadFails, CloseConn
<1>2. holds[w] \in Conns /\ conn[holds[w]] = "handling"
  BY <1>1 DEF OwnedOnce, WorkerHoldsOne
<1>3. \A v \in WorkerIds : v # w => holds[v] # holds[w]
  BY <1>2 DEF OwnedOnce, HandledByOne
<1>4. QueueHasNoDuplicate' /\ QueuedIsInQueue'
  BY <1>1, <1>2 DEF OwnedOnce, QueueHasNoDuplicate, QueuedIsInQueue
<1>5. WorkerHoldsOne'
  BY <1>1, <1>2, <1>3 DEF OwnedOnce, WorkerHoldsOne
<1>6. HandledByOne'
  BY <1>1 DEF OwnedOnce, HandledByOne
<1> QED
  BY <1>4, <1>5, <1>6 DEF OwnedOnce

(* Every step keeps ownership.                                             *)
LEMMA OwnerStep ==
  ASSUME OwnerInv, [Next]_vars
  PROVE  OwnerInv'
<1> USE DEF OwnerInv
<1>1. TypeOK' /\ BatchAbsent'
  BY TypeStep, BatchStep DEF OwnedOnce
<1>2. CASE Start
  BY <1>1, <1>2, OwnerStart
<1>3. ASSUME NEW s \in Stoppers, StopStep(s)
      PROVE  OwnedOnce'
  BY <1>3, OwnerFrame DEF StopStep, StopMark, StopCancel, StopWait
<1>4. ASSUME NEW c \in Conns, Submit(c)
      PROVE  OwnedOnce'
  BY <1>4, OwnerSubmit
<1>5. ASSUME NEW w \in WorkerIds, WorkerTake(w)
      PROVE  OwnedOnce'
  BY <1>5, OwnerTake
<1>6. ASSUME NEW w \in WorkerIds, ReadFails(w) \/ CloseConn(w)
      PROVE  OwnedOnce'
  BY <1>6, OwnerRelease
<1>7. ASSUME NEW w \in WorkerIds, WorkerExit(w) \/ StoreMetrics(w)
      PROVE  OwnedOnce'
  <2>1. /\ \/ worker[w] = "select" /\ worker' = [worker EXCEPT ![w] = "exited"]
           \/ worker[w] = "read" /\ worker' = [worker EXCEPT ![w] = "close"]
        /\ UNCHANGED <<queue, conn, holds>>
    BY <1>7 DEF WorkerExit, StoreMetrics
  <2>2. WorkerHoldsOne'
    BY <2>1 DEF OwnedOnce, WorkerHoldsOne, TypeOK
  <2> QED
    BY <2>1, <2>2 DEF OwnedOnce, QueueHasNoDuplicate, QueuedIsInQueue, HandledByOne
<1>8. CASE UNCHANGED vars
  BY <1>1, <1>8, OwnerFrame DEF vars
<1> QED
  BY <1>1, <1>2, <1>3, <1>4, <1>5, <1>6, <1>7, <1>8 DEF Next, WorkerStep

-----------------------------------------------------------------------------
(* Steps that touch neither storage nor results and move no connection to  *)
(* or from a worker keep what is known about storage.                      *)
LEMMA StoreFrame ==
  ASSUME TypeOK, StoreInv, UNCHANGED <<conn, result, payload, stored, holds>>,
         \A w \in WorkerIds : worker'[w] = "close" <=> worker[w] = "close"
  PROVE  StoreInv'
<1>1. ResultMatchesPlace'
  BY DEF StoreInv, ResultMatchesPlace
<1>2. StoredOnceByHolder'
  BY DEF StoreInv, StoredOnceByHolder
<1>3. ClosedAfterStore'
  BY DEF StoreInv, ClosedAfterStore, InStored
<1> QED
  BY <1>1, <1>2, <1>3 DEF StoreInv

(* SubmitConnection decides the result of a connection that is not stored. *)
LEMMA StoreSubmit ==
  ASSUME OwnerInv, StoreInv, NEW c \in Conns, Submit(c)
  PROVE  StoreInv'
<1> USE DEF OwnerInv, TypeOK
<1>1. /\ UNCHANGED <<worker, holds, payload, stored>>
      /\ conn[c] \in {"new", "checked"}
      /\ result[c] = "none"
  BY DEF Submit, SubmitCheck, SubmitSelect, StoreInv, ResultMatchesPlace
<1>2. \A d \in Conns : d # c => conn'[d] = conn[d] /\ result'[d] = result[d]
  BY DEF Submit, SubmitCheck, SubmitSelect, Reject
<1>3. \/ conn'[c] = "checked" /\ result'[c] = "none"
      \/ conn'[c] = "queued" /\ result'[c] = "true"
      \/ conn'[c] = "closed" /\ result'[c] = "false"
  BY <1>1 DEF Submit, SubmitCheck, SubmitSelect, Reject
<1>4. ResultMatchesPlace'
  BY <1>2, <1>3 DEF StoreInv, ResultMatchesPlace
<1>5. \A i \in 1 .. Len(stored) : stored[i] # c /\ stored[i] \in Conns
  BY <1>1 DEF StoreInv, StoredOnceByHolder
<1>6. StoredOnceByHolder'
  BY <1>1, <1>2, <1>5 DEF StoreInv, StoredOnceByHolder
<1>7. ClosedAfterStore'
  BY <1>1, <1>2, <1>3 DEF StoreInv, ClosedAfterStore, InStored
<1> QED
  BY <1>4, <1>6, <1>7 DEF StoreInv

(* A connection that a worker takes is not in storage yet.                 *)
LEMMA StoreTake ==
  ASSUME OwnerInv, OwnerInv', StoreInv, NEW w \in WorkerIds, WorkerTake(w)
  PROVE  StoreInv'
<1> USE PoolAssumption DEF OwnerInv, TypeOK
<1> DEFINE c == Head(queue)
<1>1. /\ c \in Conns /\ c = queue[1] /\ Len(queue) \in Nat \ {0}
      /\ holds' = [holds EXCEPT ![w] = c]
      /\ conn' = [conn EXCEPT ![c] = "handling"]
      /\ worker' = [worker EXCEPT ![w] = "read"]
      /\ worker[w] = "select"
      /\ UNCHANGED <<result, payload, stored>>
  BY TailFacts DEF WorkerTake
<1> HIDE DEF c
<1>2. conn[c] = "queued"
  BY <1>1 DEF OwnedOnce, QueuedIsInQueue
<1>3. ResultMatchesPlace'
  BY <1>1, <1>2 DEF StoreInv, ResultMatchesPlace
<1>4. \A v \in WorkerIds : holds[v] # c
  BY <1>1, <1>2 DEF OwnedOnce, WorkerHoldsOne
<1>5. \A i \in 1 .. Len(stored) : stored[i] # c /\ stored[i] \in Conns
  BY <1>2, <1>4 DEF StoreInv, StoredOnceByHolder
<1>6. StoredOnceByHolder'
  <2>1. \A v \in WorkerIds : worker[v] = "close" => worker'[v] = "close" /\ holds'[v] = holds[v]
    BY <1>1
  <2> QED
    BY <1>1, <1>5, <2>1 DEF StoreInv, StoredOnceByHolder
<1>7. ClosedAfterStore'
  <2>1. \A v \in WorkerIds : worker'[v] = "close" => worker[v] = "close" /\ holds'[v] = holds[v]
    BY <1>1
  <2>2. \A d \in Conns : conn'[d] = "closed" => conn[d] = "closed"
    BY <1>1
  <2> QED
    BY <1>1, <2>1, <2>2 DEF StoreInv, ClosedAfterStore, InStored
<1> QED
  BY <1>3, <1>6, <1>7 DEF StoreInv

(* StoreMetrics stores the connection its worker reads, for the first      *)
(* time.                                                                   *)
LEMMA StoreStore ==
  ASSUME OwnerInv, StoreInv, NEW w \in WorkerIds, StoreMetrics(w)
  PROVE  StoreInv'
<1> USE PoolAssumption DEF OwnerInv, TypeOK
<1> DEFINE c == holds[w]
<1>1. /\ worker[w] = "read" /\ payload[c] = "metrics"
      /\ stored' = Append(stored, c)
      /\ worker' = [worker EXCEPT ![w] = "close"]
      /\ UNCHANGED <<conn, result, payload, holds>>
  BY DEF StoreMetrics
<1>2. c \in Conns /\ conn[c] = "handling"
  BY <1>1 DEF OwnedOnce, WorkerHoldsOne
<1>3. \A v \in WorkerIds : holds[v] = c => v = w
  BY <1>2 DEF OwnedOnce, HandledByOne
<1>4. result[c] = "true"
  BY <1>2 DEF StoreInv, ResultMatchesPlace
<1> HIDE DEF c
<1>5. \A i \in 1 .. Len(stored) : stored[i] # c
  <2> SUFFICES ASSUME NEW i \in 1 .. Len(stored), stored[i] = c
               PROVE  FALSE
    OBVIOUS
  <2>1. \/ conn[c] = "closed"
        \/ \E v \in WorkerIds : worker[v] = "close" /\ holds[v] = c
    BY DEF StoreInv, StoredOnceByHolder
  <2> QED
    BY <1>1, <1>2, <1>3, <2>1
<1>6. /\ Len(stored) \in Nat
      /\ Len(stored') = Len(stored) + 1
      /\ stored'[Len(stored) + 1] = c
      /\ \A i \in 1 .. Len(stored) : stored'[i] = stored[i]
  BY <1>1, <1>2, AppendFacts
<1>7. ResultMatchesPlace'
  BY <1>1 DEF StoreInv, ResultMatchesPlace
<1>8. ASSUME NEW i \in 1 .. Len(stored'), NEW j \in 1 .. Len(stored'),
             stored'[i] = stored'[j]
      PROVE  i = j
  <2>1. CASE i \in 1 .. Len(stored) /\ j \in 1 .. Len(stored)
    BY <1>6, <1>8, <2>1 DEF StoreInv, StoredOnceByHolder
  <2>2. CASE i = Len(stored) + 1 /\ j \in 1 .. Len(stored)
    BY <1>5, <1>6, <1>8, <2>2
  <2>3. CASE j = Len(stored) + 1 /\ i \in 1 .. Len(stored)
    BY <1>5, <1>6, <1>8, <2>3
  <2> QED
    BY <1>6, <2>1, <2>2, <2>3
<1>9. ASSUME NEW i \in 1 .. Len(stored')
      PROVE  /\ payload'[stored'[i]] = "metrics"
             /\ result'[stored'[i]] = "true"
             /\ \/ conn'[stored'[i]] = "closed"
                \/ \E v \in WorkerIds : worker'[v] = "close" /\ holds'[v] = stored'[i]
  <2>1. CASE i = Len(stored) + 1
    <3>1. worker'[w] = "close" /\ holds'[w] = c
      BY <1>1 DEF c
    <3> QED
      BY <1>1, <1>4, <1>6, <2>1, <3>1
  <2>2. CASE i \in 1 .. Len(stored)
    <3>1. \A v \in WorkerIds : worker[v] = "close" => worker'[v] = "close"
      BY <1>1
    <3> QED
      BY <1>1, <1>6, <2>2, <3>1 DEF StoreInv, StoredOnceByHolder
  <2> QED
    BY <1>6, <2>1, <2>2
<1>10. StoredOnceByHolder'
  BY <1>8, <1>9 DEF StoredOnceByHolder
<1>11. ASSUME NEW d \in Conns, InStored(d) \/ d = c
       PROVE  \E i \in 1 .. Len(stored') : stored'[i] = d
  <2>1. CASE d = c
    BY <1>6, <2>1
  <2>2. CASE InStored(d)
    <3>1. PICK i \in 1 .. Len(stored) : stored[i] = d
      BY <2>2 DEF InStored
    <3>2. i \in 1 .. Len(stored') /\ stored'[i] = d
      BY <1>6, <3>1
    <3> QED
      BY <3>2
  <2> QED
    BY <1>11, <2>1, <2>2
<1>12. ClosedAfterStore'
  <2>1. ASSUME NEW v \in WorkerIds, worker'[v] = "close"
        PROVE  \E i \in 1 .. Len(stored') : stored'[i] = holds'[v]
    <3>1. CASE v = w
      BY <1>1, <1>2, <1>11, <3>1 DEF c
    <3>2. CASE v # w
      <4>1. worker[v] = "close"
        BY <1>1, <2>1, <3>2
      <4>2. holds[v] \in Conns /\ InStored(holds[v])
        BY <4>1 DEF OwnedOnce, WorkerHoldsOne, StoreInv, ClosedAfterStore
      <4> QED
        BY <1>1, <1>11, <4>2
    <3> QED
      BY <3>1, <3>2
  <2>2. ASSUME NEW d \in Conns,
               conn'[d] = "closed" /\ result'[d] = "true" /\ payload'[d] = "metrics"
        PROVE  \E i \in 1 .. Len(stored') : stored'[i] = d
    BY <1>1, <1>11, <2>2 DEF StoreInv, ClosedAfterStore
  <2> QED
    BY <2>1, <2>2 DEF ClosedAfterStore, InStored
<1> QED
  BY <1>7, <1>10, <1>12 DEF StoreInv

(* A connection is closed only after its metrics, if any, were stored.     *)
LEMMA StoreRelease ==
  ASSUME OwnerInv, StoreInv, NEW w \in WorkerIds, ReadFails(w) \/ CloseConn(w)
  PROVE  StoreInv'
<1> USE PoolAssumption DEF OwnerInv, TypeOK
<1> DEFINE c == holds[w]
<1>1. /\ \/ worker[w] = "read" /\ payload[c] = "unusable"
         \/ worker[w] = "close"
      /\ conn' = [conn EXCEPT ![c] = "closed"]
      /\ holds' = [holds EXCEPT ![w] = NoConn]
      /\ worker' = [worker EXCEPT ![w] = "select"]
      /\ UNCHANGED <<result, payload, stored>>
  BY DEF ReadFails, CloseConn
<1>2. c \in Conns
  BY <1>1 DEF OwnedOnce, WorkerHoldsOne
<1>3. worker[w] = "close" => InStored(c)
  BY DEF StoreInv, ClosedAfterStore
<1>4. \A v \in WorkerIds : v # w => worker'[v] = worker[v] /\ holds'[v] = holds[v]
  BY <1>1
<1>5. worker'[w] = "select" /\ conn'[c] = "closed"
  BY <1>1, <1>2
<1>6. \A d \in Conns : d # c => conn'[d] = conn[d]
  BY <1>1, <1>2
<1>7. ResultMatchesPlace'
  BY <1>1, <1>5, <1>6 DEF StoreInv, ResultMatchesPlace
<1>8. StoredOnceByHolder'
  <2>1. ASSUME NEW i \in 1 .. Len(stored)
        PROVE  \/ conn'[stored[i]] = "closed"
               \/ \E v \in WorkerIds : worker'[v] = "close" /\ holds'[v] = stored[i]
    <3>1. CASE stored[i] = c
      BY <1>5, <3>1
    <3>2. CASE stored[i] # c
      <4>1. \/ conn[stored[i]] = "closed"
            \/ \E v \in WorkerIds : worker[v] = "close" /\ holds[v] = stored[i]
        BY DEF StoreInv, StoredOnceByHolder
      <4>2. stored[i] \in Conns
        OBVIOUS
      <4> QED
        BY <1>4, <1>6, <3>2, <4>1, <4>2
    <3> QED
      BY <3>1, <3>2
  <2> QED
    BY <1>1, <2>1 DEF StoreInv, StoredOnceByHolder
<1> HIDE DEF c
<1>9. ClosedAfterStore'
  <2>1. \A v \in WorkerIds : worker'[v] = "close" => InStored(holds[v])'
    BY <1>1, <1>4, <1>5 DEF StoreInv, ClosedAfterStore, InStored
  <2>2. ASSUME NEW d \in Conns,
               conn'[d] = "closed" /\ result'[d] = "true" /\ payload'[d] = "metrics"
        PROVE  InStored(d)'
    <3>1. CASE d = c
      BY <1>1, <1>3, <2>2, <3>1 DEF InStored
    <3>2. CASE d # c
      BY <1>1, <1>6, <2>2, <3>2 DEF StoreInv, ClosedAfterStore, InStored
    <3> QED
      BY <3>1, <3>2
  <2> QED
    BY <2>1, <2>2 DEF ClosedAfterStore
<1> QED
  BY <1>7, <1>8, <1>9 DEF StoreInv

(* Every step keeps what is known about storage.                           *)
LEMMA StoreStep ==
  ASSUME OwnerInv, StoreInv, [Next]_vars
  PROVE  StoreInv'
<1>1. OwnerInv' /\ TypeOK
  BY OwnerStep DEF OwnerInv
<1>2. CASE Start
  <2>1. \A w \in WorkerIds : worker'[w] = "close" <=> worker[w] = "close"
    <3> SUFFICES ASSUME NEW w \in WorkerIds
                 PROVE  worker'[w] = "close" <=> worker[w] = "close"
      OBVIOUS
    <3>1. CASE w[1] = starts + 1
      <4>1. w[1] > starts
        BY <1>1, <3>1 DEF TypeOK
      <4>2. worker[w] = "absent" /\ worker'[w] = "select"
        BY <1>1, <1>2, <3>1, <4>1 DEF OwnerInv, BatchAbsent, Start
      <4> QED
        BY <4>2
    <3>2. CASE w[1] # starts + 1
      BY <1>2, <3>2 DEF Start
    <3> QED
      BY <3>1, <3>2
  <2> QED
    BY <1>1, <1>2, <2>1, StoreFrame DEF Start
<1>3. ASSUME NEW s \in Stoppers, StopStep(s)
      PROVE  StoreInv'
  BY <1>1, <1>3, StoreFrame DEF StopStep, StopMark, StopCancel, StopWait
<1>4. ASSUME NEW c \in Conns, Submit(c)
      PROVE  StoreInv'
  BY <1>4, StoreSubmit
<1>5. ASSUME NEW w \in WorkerIds, WorkerTake(w)
      PROVE  StoreInv'
  BY <1>1, <1>5, StoreTake
<1>6. ASSUME NEW w \in WorkerIds, ReadFails(w) \/ CloseConn(w)
      PROVE  StoreInv'
  BY <1>6, StoreRelease
<1>7. ASSUME NEW w \in WorkerIds, StoreMetrics(w)
      PROVE  StoreInv'
  BY <1>7, StoreStore
<1>8. ASSUME NEW w \in WorkerIds, WorkerExit(w)
      PROVE  StoreInv'
  <2>1. \A v \in WorkerIds : worker'[v] = "close" <=> worker[v] = "close"
    BY <1>1, <1>8 DEF WorkerExit, TypeOK
  <2> QED
    BY <1>1, <1>8, <2>1, StoreFrame DEF WorkerExit
<1>9. CASE UNCHANGED vars
  BY <1>1, <1>9, StoreFrame DEF vars
<1> QED
  BY <1>2, <1>3, <1>4, <1>5, <1>6, <1>7, <1>8, <1>9 DEF Next, WorkerStep

-----------------------------------------------------------------------------
(* A worker runs only under a started pool or a Stop that has not          *)
(* returned.                                                               *)
LEMMA QuiescenceStep ==
  ASSUME TypeOK, NoWorkerOutlivesStop, [Next]_vars
  PROVE  NoWorkerOutlivesStop'
<1> USE DEF TypeOK, NoWorkerOutlivesStop, StopInProgress
<1>1. CASE Start
  BY <1>1 DEF Start
<1>2. ASSUME NEW s \in Stoppers, StopMark(s)
      PROVE  NoWorkerOutlivesStop'
  <2>1. \A w \in WorkerIds : Live(w)' <=> Live(w)
    BY <1>2 DEF StopMark, Live
  <2>2. CASE started
    <3>1. stop'[s] = "marked"
      BY <1>2, <2>2 DEF StopMark
    <3> QED
      BY <3>1
  <2>3. CASE ~started
    <3>1. stop[s] = "idle" /\ \A t \in Stoppers : t # s => stop'[t] = stop[t]
      BY <1>2 DEF StopMark
    <3> QED
      BY <2>1, <2>3, <3>1
  <2> QED
    BY <2>2, <2>3
<1>3. ASSUME NEW s \in Stoppers, StopCancel(s)
      PROVE  NoWorkerOutlivesStop'
  <2>1. stop'[s] = "waiting"
    BY <1>3 DEF StopCancel
  <2> QED
    BY <2>1
<1>4. ASSUME NEW s \in Stoppers, StopWait(s)
      PROVE  NoWorkerOutlivesStop'
  BY <1>4 DEF StopWait, WaitGroupZero, Live
<1>5. CASE \E c \in Conns : Submit(c)
  BY <1>5 DEF Submit, SubmitCheck, SubmitSelect, Live
<1>6. ASSUME NEW w \in WorkerIds, WorkerStep(w)
      PROVE  NoWorkerOutlivesStop'
  <2>1. Live(w) /\ UNCHANGED <<started, stop>>
    BY <1>6 DEF WorkerStep, WorkerTake, WorkerExit, ReadFails, StoreMetrics, CloseConn, Live
  <2> QED
    BY <2>1
<1>7. CASE UNCHANGED vars
  BY <1>7 DEF vars, Live
<1> QED
  BY <1>1, <1>2, <1>3, <1>4, <1>5, <1>6, <1>7 DEF Next, StopStep

(* The inductive invariant holds in every state of the pool.               *)
THEOREM InductiveInvariant == Spec => []IInv
<1>1. IInv /\ [Next]_vars => IInv'
  BY OwnerStep, StoreStep, QuiescenceStep DEF IInv, OwnerInv
<1> QED
  BY <1>1, InitIInv, PTL DEF Spec

-----------------------------------------------------------------------------
(* A connection never has two owners: not two workers, not a worker and    *)
(* the channel, not two places of the channel, which never exceeds its     *)
(* buffer, whatever goroutines call Start, Stop and SubmitConnection, in   *)
(* whatever order (worker and SubmitConnection in worker_pool.go).         *)
THEOREM OwnershipIsUnique == Spec => []SingleOwner
<1>1. IInv => SingleOwner
  BY DEF IInv, OwnerInv, SingleOwner
<1> QED
  BY <1>1, InductiveInvariant, PTL

(* handleConnection stores the metrics of an accepted connection exactly   *)
(* once before it closes it.                                               *)
THEOREM StoresExactlyOnce == Spec => []StoredExactlyOnce
<1>1. IInv => StoredExactlyOnce
  <2> SUFFICES ASSUME IInv PROVE StoredExactlyOnce
    OBVIOUS
  <2>1. \A i, j \in 1 .. Len(stored) : stored[i] = stored[j] => i = j
    BY DEF IInv, StoreInv, StoredOnceByHolder
  <2>2. ASSUME NEW c \in Conns, NEW i \in 1 .. Len(stored), stored[i] = c
        PROVE  payload[c] = "metrics" /\ result[c] = "true"
    BY <2>2 DEF IInv, StoreInv, StoredOnceByHolder
  <2>3. ASSUME NEW c \in Conns, ~(\E i \in 1 .. Len(stored) : stored[i] = c)
        PROVE  ~(conn[c] = "closed" /\ result[c] = "true" /\ payload[c] = "metrics")
    BY <2>3 DEF IInv, StoreInv, ClosedAfterStore, InStored
  <2> QED
    BY <2>1, <2>2, <2>3 DEF StoredExactlyOnce
<1> QED
  BY <1>1, InductiveInvariant, PTL

(* Stop returns only after every worker has exited, with any number of     *)
(* concurrent callers of Stop.                                             *)
THEOREM StopIsQuiescent == Spec => []NoWorkerOutlivesStop
<1>1. IInv => NoWorkerOutlivesStop
  BY DEF IInv
<1> QED
  BY <1>1, InductiveInvariant, PTL

-----------------------------------------------------------------------------
(* The pool implements the promise of module Delivery.                     *)

(* A connection that is being handled is in the hands of a worker.         *)
HandlingHasHolder ==
  \A c \in Conns :
    conn[c] = "handling" =>
      \E w \in WorkerIds : worker[w] \in {"read", "close"} /\ holds[w] = c

(* Workers of two batches never run side by side, so that at most          *)
(* NumWorkers of them hold a connection.                                   *)
LiveInLastBatch == \A w \in WorkerIds : Live(w) => w[1] = starts

HolderInv == HandlingHasHolder /\ LiveInLastBatch

(* Start finds no worker of an earlier batch alive, because Stop waits     *)
(* for all of them (NoWorkerOutlivesStop).                                 *)
LEMMA HolderStart ==
  ASSUME IInv, HolderInv, Start
  PROVE  HolderInv'
<1> USE PoolAssumption DEF IInv, OwnerInv, TypeOK
<1>1. \A w \in WorkerIds : ~Live(w)
  BY DEF NoWorkerOutlivesStop, Start
<1>2. LiveInLastBatch'
  <2> SUFFICES ASSUME NEW w \in WorkerIds, Live(w)' PROVE w[1] = starts'
    BY DEF LiveInLastBatch
  <2> QED
    BY <1>1 DEF Live, Start
<1>3. HandlingHasHolder'
  <2>1. \A c \in Conns : conn[c] # "handling"
    BY <1>1 DEF HolderInv, HandlingHasHolder, Live
  <2> QED
    BY <2>1 DEF HandlingHasHolder, Start
<1> QED
  BY <1>2, <1>3 DEF HolderInv

(* Every other step leaves a connection with its worker.                   *)
LEMMA HolderStep ==
  ASSUME IInv, HolderInv, [Next]_vars
  PROVE  HolderInv'
<1> USE PoolAssumption DEF IInv, OwnerInv, TypeOK
<1>1. CASE Start
  BY <1>1, HolderStart
<1>2. ASSUME NEW c \in Conns, Submit(c)
      PROVE  HolderInv'
  <2>1. UNCHANGED <<worker, holds, starts>>
    BY <1>2 DEF Submit, SubmitCheck, SubmitSelect
  <2>2. \A d \in Conns : conn'[d] = "handling" => conn[d] = "handling"
    BY <1>2 DEF Submit, SubmitCheck, SubmitSelect, Reject
  <2> QED
    BY <2>1, <2>2 DEF HolderInv, HandlingHasHolder, LiveInLastBatch, Live
<1>3. ASSUME NEW w \in WorkerIds, WorkerStep(w)
      PROVE  HolderInv'
  <2>1. Live(w) /\ starts' = starts
    BY <1>3 DEF WorkerStep, WorkerTake, WorkerExit, ReadFails, StoreMetrics, CloseConn, Live
  <2>2. \A v \in WorkerIds : v # w => worker'[v] = worker[v] /\ holds'[v] = holds[v]
    BY <1>3 DEF WorkerStep, WorkerTake, WorkerExit, ReadFails, StoreMetrics, CloseConn
  <2>3. LiveInLastBatch'
    BY <2>1, <2>2 DEF HolderInv, LiveInLastBatch, Live
  <2>4. HandlingHasHolder'
    <3> SUFFICES ASSUME NEW c \in Conns, conn'[c] = "handling"
                 PROVE  \E v \in WorkerIds :
                          worker'[v] \in {"read", "close"} /\ holds'[v] = c
      BY DEF HandlingHasHolder
    <3>1. CASE WorkerTake(w)
      <4>1. Head(queue) \in Conns
        BY <3>1, TailFacts DEF WorkerTake
      <4>2. CASE c = Head(queue)
        BY <3>1, <4>2 DEF WorkerTake
      <4>3. CASE c # Head(queue)
        <5>1. conn[c] = "handling" /\ worker[w] = "select"
          BY <3>1, <4>1, <4>3 DEF WorkerTake
        <5>2. PICK v \in WorkerIds : worker[v] \in {"read", "close"} /\ holds[v] = c
          BY <5>1 DEF HolderInv, HandlingHasHolder
        <5> QED
          BY <2>2, <5>1, <5>2
      <4> QED
        BY <4>2, <4>3
    <3>2. CASE WorkerExit(w)
      <4>1. conn[c] = "handling" /\ worker[w] = "select"
        BY <3>2 DEF WorkerExit
      <4>2. PICK v \in WorkerIds : worker[v] \in {"read", "close"} /\ holds[v] = c
        BY <4>1 DEF HolderInv, HandlingHasHolder
      <4> QED
        BY <2>2, <4>1, <4>2
    <3>3. CASE StoreMetrics(w)
      <4>1. conn[c] = "handling" /\ holds' = holds /\ worker'[w] = "close"
        BY <3>3 DEF StoreMetrics
      <4>2. PICK v \in WorkerIds : worker[v] \in {"read", "close"} /\ holds[v] = c
        BY <4>1 DEF HolderInv, HandlingHasHolder
      <4> QED
        BY <2>2, <4>1, <4>2
    <3>4. CASE ReadFails(w) \/ CloseConn(w)
      <4>1. holds[w] \in Conns
        BY <3>4 DEF ReadFails, CloseConn, OwnedOnce, WorkerHoldsOne
      <4>2. conn[c] = "handling" /\ c # holds[w]
        BY <3>4, <4>1 DEF ReadFails, CloseConn
      <4>3. PICK v \in WorkerIds : worker[v] \in {"read", "close"} /\ holds[v] = c
        BY <4>2 DEF HolderInv, HandlingHasHolder
      <4> QED
        BY <2>2, <4>2, <4>3
    <3> QED
      BY <1>3, <3>1, <3>2, <3>3, <3>4 DEF WorkerStep
  <2> QED
    BY <2>3, <2>4 DEF HolderInv
<1>4. CASE UNCHANGED <<conn, worker, holds, starts>>
  BY <1>4 DEF HolderInv, HandlingHasHolder, LiveInLastBatch, Live
<1> QED
  BY <1>1, <1>2, <1>3, <1>4 DEF Next, vars, StopStep, StopMark, StopCancel, StopWait

(* All workers of a batch but one.                                         *)
LEMMA IntervalWithout ==
  ASSUME NEW n \in Nat \ {0}, NEW k \in 1 .. n
  PROVE  /\ IsFiniteSet((1 .. n) \ {k})
         /\ Cardinality((1 .. n) \ {k}) = n - 1
<1> DEFINE All == 1 .. n
<1>1. IsFiniteSet(All) /\ Cardinality(All) = n /\ k \in All
  BY FS_Interval
<1> HIDE DEF All
<1>2. IsFiniteSet(All \ {k}) /\ Cardinality(All \ {k}) = Cardinality(All) - 1
  BY <1>1, FS_RemoveElement
<1> QED
  BY <1>1, <1>2 DEF All

(* A worker that is about to receive leaves at most NumWorkers - 1 others  *)
(* with a connection: connections in service map one to one to their       *)
(* workers, all of the same batch, and the receiving worker is not among   *)
(* them.                                                                   *)
LEMMA ServersSuffice ==
  ASSUME IInv, HolderInv, NEW w \in WorkerIds, worker[w] = "select",
         NEW S \in SUBSET Conns, \A c \in S : conn[c] = "handling"
  PROVE  Cardinality(S) < NumWorkers
<1> USE PoolAssumption DEF IInv, OwnerInv, TypeOK
<1> DEFINE Holder(c) == CHOOSE v \in WorkerIds :
                          worker[v] \in {"read", "close"} /\ holds[v] = c
           Others == (1 .. NumWorkers) \ {w[2]}
           f == [c \in S |-> Holder(c)[2]]
<1>1. ASSUME NEW c \in S
      PROVE  /\ Holder(c) \in WorkerIds
             /\ worker[Holder(c)] \in {"read", "close"}
             /\ holds[Holder(c)] = c
  <2>1. \E v \in WorkerIds : worker[v] \in {"read", "close"} /\ holds[v] = c
    BY DEF HolderInv, HandlingHasHolder
  <2> QED
    BY <2>1
<1> HIDE DEF Holder
<1>2. ASSUME NEW v \in WorkerIds, Live(v)
      PROVE  v = <<starts, v[2]>> /\ v[2] \in 1 .. NumWorkers
  <2>1. v[1] = starts
    BY <1>2 DEF HolderInv, LiveInLastBatch
  <2>2. v = <<v[1], v[2]>> /\ v[2] \in 1 .. NumWorkers
    BY DEF WorkerIds
  <2> QED
    BY <2>1, <2>2
<1>3. Live(w) /\ \A c \in S : Live(Holder(c)) /\ Holder(c) # w
  BY <1>1 DEF Live
<1>4. f \in [S -> Others]
  <2> SUFFICES ASSUME NEW c \in S PROVE Holder(c)[2] \in Others
    OBVIOUS
  <2>1. Holder(c) = <<starts, Holder(c)[2]>> /\ Holder(c)[2] \in 1 .. NumWorkers
    BY <1>1, <1>2, <1>3
  <2>2. w = <<starts, w[2]>>
    BY <1>2, <1>3
  <2>3. Holder(c)[2] # w[2]
    BY <1>3, <2>1, <2>2
  <2> QED
    BY <2>1, <2>3
<1>5. ASSUME NEW c \in S, NEW d \in S, f[c] = f[d]
      PROVE  c = d
  <2>1. Holder(c) = <<starts, Holder(c)[2]>> /\ Holder(d) = <<starts, Holder(d)[2]>>
    BY <1>1, <1>2, <1>3
  <2>2. Holder(c)[2] = Holder(d)[2]
    BY <1>5
  <2>3. Holder(c) = Holder(d)
    BY <2>1, <2>2, Zenon
  <2>4. holds[Holder(c)] = c /\ holds[Holder(d)] = d
    BY <1>1
  <2> QED
    BY <2>3, <2>4, Zenon
<1>6. f \in Injection(S, Others)
  BY <1>4, <1>5 DEF Injection, IsInjective
<1>7. IsFiniteSet(Others) /\ Cardinality(Others) = NumWorkers - 1
  <2>1. w[2] \in 1 .. NumWorkers
    BY DEF WorkerIds
  <2> QED
    BY <2>1, IntervalWithout
<1> HIDE DEF f, Others
<1>8. IsFiniteSet(S) /\ Cardinality(S) <= Cardinality(Others)
  BY <1>6, <1>7, FS_Injection
<1>9. Cardinality(S) \in Nat
  BY <1>8, FS_CardinalityType
<1> QED
  BY <1>7, <1>8, <1>9

(* What a connection looks like from outside changes only with its place,  *)
(* the answer it got and its record.                                       *)
LEMMA PhaseFrame ==
  ASSUME NEW d \in Conns, conn'[d] = conn[d], result'[d] = result[d],
         Recorded(d)' <=> Recorded(d)
  PROVE  PhaseOf(d)' = PhaseOf(d)
BY DEF PhaseOf

(* The abstract phase function after a step that moves one connection.     *)
LEMMA PhaseUpdate ==
  ASSUME NEW c \in Conns, NEW v, PhaseOf(c)' = v,
         \A d \in Conns : d # c => PhaseOf(d)' = PhaseOf(d)
  PROVE  [d \in Conns |-> PhaseOf(d)]' = [[d \in Conns |-> PhaseOf(d)] EXCEPT ![c] = v]
<1> DEFINE before == [d \in Conns |-> PhaseOf(d)]
           after  == [d \in Conns |-> PhaseOf(d)']
<1>1. \A d \in Conns : after[d] = [before EXCEPT ![c] = v][d]
  OBVIOUS
<1> QED
  BY <1>1

(* SubmitConnection returns: the connection is accepted or refused.  Its   *)
(* first half, when the pool is started, does not show.                    *)
LEMMA PromiseSubmit ==
  ASSUME IInv, NEW c \in Conns, Submit(c)
  PROVE  \/ Promise!Accept(c) \/ Promise!Refuse(c)
         \/ UNCHANGED Promise!deliveryVars
<1> USE DEF IInv, OwnerInv, TypeOK
<1>1. /\ conn[c] \in {"new", "checked"}
      /\ UNCHANGED <<stored, payload>>
      /\ \A d \in Conns : d # c => conn'[d] = conn[d] /\ result'[d] = result[d]
  BY DEF Submit, SubmitCheck, SubmitSelect, Reject
<1>2. \A d \in Conns : Recorded(d)' <=> Recorded(d)
  BY <1>1 DEF Recorded
<1>3. \A d \in Conns : d # c => PhaseOf(d)' = PhaseOf(d)
  BY <1>1, <1>2, PhaseFrame
<1>4. PhaseOf(c) = "offered"
  BY <1>1 DEF PhaseOf
<1>5. UNCHANGED [d \in Conns |-> payload[d] = "metrics"]
  BY <1>1
<1>6. CASE conn'[c] = "checked" /\ UNCHANGED queue
  <2>1. \A d \in Conns : PhaseOf(d)' = PhaseOf(d)
    BY <1>3, <1>4, <1>6 DEF PhaseOf
  <2>2. UNCHANGED [d \in Conns |-> PhaseOf(d)]
    BY <2>1
  <2> QED
    BY <1>1, <1>5, <1>6, <2>2 DEF Promise!deliveryVars
<1>7. CASE conn'[c] = "closed" /\ result'[c] = "false" /\ UNCHANGED queue
  <2>1. PhaseOf(c)' = "refused"
    BY <1>7 DEF PhaseOf
  <2>2. [d \in Conns |-> PhaseOf(d)]' = [[d \in Conns |-> PhaseOf(d)] EXCEPT ![c] = "refused"]
    BY <1>3, <2>1, PhaseUpdate
  <2> QED
    BY <1>1, <1>4, <1>5, <1>7, <2>2 DEF Promise!Refuse
<1>8. CASE conn'[c] = "queued" /\ queue' = Append(queue, c) /\ Len(queue) < QueueCap
  <2>1. PhaseOf(c)' = "waiting"
    BY <1>8 DEF PhaseOf
  <2>2. [d \in Conns |-> PhaseOf(d)]' = [[d \in Conns |-> PhaseOf(d)] EXCEPT ![c] = "waiting"]
    BY <1>3, <2>1, PhaseUpdate
  <2> QED
    BY <1>1, <1>4, <1>5, <1>8, <2>2 DEF Promise!Accept
<1> QED
  BY <1>6, <1>7, <1>8 DEF Submit, SubmitCheck, SubmitSelect, Reject

(* A worker receives: the connection that has waited longest is served.    *)
LEMMA PromiseTake ==
  ASSUME IInv, HolderInv, NEW w \in WorkerIds, WorkerTake(w)
  PROVE  \E c \in Conns : Promise!Serve(c)
<1> USE DEF IInv, OwnerInv, TypeOK
<1>1. PICK c \in Conns : c = Head(queue) /\ c = queue[1] /\ Len(queue) \in Nat \ {0}
  BY TailFacts DEF WorkerTake
<1>2. /\ worker[w] = "select" /\ queue # <<>> /\ queue' = Tail(queue)
      /\ conn' = [conn EXCEPT ![c] = "handling"]
      /\ UNCHANGED <<result, payload, stored>>
  BY <1>1 DEF WorkerTake
<1>3. conn[c] = "queued"
  BY <1>1 DEF OwnedOnce, QueuedIsInQueue
<1>4. ~Recorded(c) /\ \A d \in Conns : Recorded(d)' <=> Recorded(d)
  <2>1. \A v \in WorkerIds : holds[v] # c
    BY <1>1, <1>3, PoolAssumption DEF OwnedOnce, WorkerHoldsOne
  <2> QED
    BY <1>2, <1>3, <2>1 DEF Recorded, StoreInv, StoredOnceByHolder
<1>5. \A d \in Conns : d # c => PhaseOf(d)' = PhaseOf(d)
  BY <1>1, <1>2, <1>4, PhaseFrame
<1>6. PhaseOf(c) = "waiting" /\ PhaseOf(c)' = "served"
  BY <1>1, <1>2, <1>3, <1>4 DEF PhaseOf
<1>7. [d \in Conns |-> PhaseOf(d)]' = [[d \in Conns |-> PhaseOf(d)] EXCEPT ![c] = "served"]
  BY <1>1, <1>5, <1>6, PhaseUpdate
<1>8. Cardinality(Promise!InService) < NumWorkers
  <2>1. ASSUME NEW d \in Promise!InService
        PROVE  d \in Conns /\ conn[d] = "handling"
    <3>1. d \in Conns /\ PhaseOf(d) \in {"served", "recorded"}
      BY DEF Promise!InService
    <3> QED
      BY <3>1 DEF PhaseOf, ConnStates
  <2>2. Promise!InService \in SUBSET Conns
    BY <2>1
  <2> HIDE DEF IInv
  <2> QED
    BY <1>2, <2>1, <2>2, ServersSuffice
<1>9. UNCHANGED [d \in Conns |-> payload[d] = "metrics"]
  BY <1>2
<1>10. Promise!Cardinality(Promise!InService) < NumWorkers
  BY <1>8 DEF Promise!Cardinality, Cardinality
<1>11. Promise!Serve(c)
  BY <1>1, <1>2, <1>6, <1>7, <1>9, <1>10 DEF Promise!Serve
<1> QED
  BY <1>11

(* StoreMetrics makes the one record of a connection.                      *)
LEMMA PromiseStore ==
  ASSUME IInv, NEW w \in WorkerIds, StoreMetrics(w)
  PROVE  \E c \in Conns : Promise!Record(c)
<1> USE DEF IInv, OwnerInv, TypeOK
<1>0. PICK c \in Conns : c = holds[w]
  BY DEF StoreMetrics, OwnedOnce, WorkerHoldsOne
<1>1. /\ worker[w] = "read" /\ payload[c] = "metrics"
      /\ stored' = Append(stored, c)
      /\ UNCHANGED <<conn, result, payload, queue>>
  BY <1>0 DEF StoreMetrics
<1>2. conn[c] = "handling" /\ \A v \in WorkerIds : holds[v] = c => v = w
  BY <1>0, <1>1, PoolAssumption DEF OwnedOnce, WorkerHoldsOne, HandledByOne
<1>3. ~Recorded(c)
  <2>1. ASSUME NEW i \in 1 .. Len(stored), stored[i] = c
        PROVE  FALSE
    BY <1>1, <1>2, <2>1 DEF StoreInv, StoredOnceByHolder
  <2> QED
    BY <2>1 DEF Recorded
<1>4. /\ Len(stored) \in Nat
      /\ Len(stored') = Len(stored) + 1
      /\ stored'[Len(stored) + 1] = c
      /\ \A i \in 1 .. Len(stored) : stored'[i] = stored[i]
  BY <1>1, <1>2, AppendFacts
<1>5. Recorded(c)'
  <2>1. Len(stored) + 1 \in 1 .. Len(stored')
    BY <1>4
  <2> QED
    BY <1>4, <2>1 DEF Recorded
<1>6. ASSUME NEW d \in Conns, d # c
      PROVE  PhaseOf(d)' = PhaseOf(d)
  <2>1. Recorded(d)' => Recorded(d)
    BY <1>4, <1>6 DEF Recorded
  <2>2. Recorded(d) => Recorded(d)'
    BY <1>4 DEF Recorded
  <2> QED
    BY <1>1, <2>1, <2>2, PhaseFrame
<1>7. PhaseOf(c) = "served" /\ PhaseOf(c)' = "recorded"
  BY <1>1, <1>2, <1>3, <1>5 DEF PhaseOf
<1>8. [d \in Conns |-> PhaseOf(d)]' = [[d \in Conns |-> PhaseOf(d)] EXCEPT ![c] = "recorded"]
  BY <1>2, <1>6, <1>7, PhaseUpdate
<1>9. UNCHANGED [d \in Conns |-> payload[d] = "metrics"]
  BY <1>1
<1>10. Promise!Record(c)
  BY <1>1, <1>2, <1>7, <1>8, <1>9 DEF Promise!Record
<1> QED
  BY <1>10

(* The deferred Close releases a connection, after its record if it        *)
(* brought metrics.                                                        *)
LEMMA PromiseRelease ==
  ASSUME IInv, NEW w \in WorkerIds, ReadFails(w) \/ CloseConn(w)
  PROVE  \E c \in Conns : Promise!Release(c)
<1> USE DEF IInv, OwnerInv, TypeOK
<1>0. PICK c \in Conns : c = holds[w]
  BY DEF ReadFails, CloseConn, OwnedOnce, WorkerHoldsOne
<1>1. /\ \/ worker[w] = "read" /\ payload[c] = "unusable"
         \/ worker[w] = "close"
      /\ conn' = [conn EXCEPT ![c] = "closed"]
      /\ UNCHANGED <<result, payload, stored, queue>>
  BY <1>0 DEF ReadFails, CloseConn
<1>2. conn[c] = "handling"
  BY <1>0, <1>1 DEF OwnedOnce, WorkerHoldsOne
<1>3. worker[w] = "close" => Recorded(c)
  BY <1>0 DEF StoreInv, ClosedAfterStore, InStored, Recorded
<1>4. Recorded(c) => payload[c] = "metrics"
  BY DEF Recorded, StoreInv, StoredOnceByHolder
<1>5. PhaseOf(c) = IF payload[c] = "metrics" THEN "recorded" ELSE "served"
  BY <1>1, <1>2, <1>3, <1>4 DEF PhaseOf
<1>6. PhaseOf(c)' = "done"
  BY <1>1, <1>2 DEF PhaseOf, StoreInv, ResultMatchesPlace
<1>7. \A d \in Conns : d # c => PhaseOf(d)' = PhaseOf(d)
  <2>1. \A d \in Conns : Recorded(d)' <=> Recorded(d)
    BY <1>1 DEF Recorded
  <2> QED
    BY <1>1, <1>2, <2>1, PhaseFrame
<1>8. [d \in Conns |-> PhaseOf(d)]' = [[d \in Conns |-> PhaseOf(d)] EXCEPT ![c] = "done"]
  BY <1>2, <1>6, <1>7, PhaseUpdate
<1>9. UNCHANGED [d \in Conns |-> payload[d] = "metrics"]
  BY <1>1
<1>10. Promise!Release(c)
  BY <1>1, <1>2, <1>5, <1>8, <1>9 DEF Promise!Release
<1> QED
  BY <1>10

(* Every step of the pool is a step of the promise, or does not show.      *)
LEMMA PromiseStep ==
  ASSUME IInv, HolderInv, [Next]_vars
  PROVE  [Promise!Next]_(Promise!deliveryVars)
<1>1. ASSUME NEW c \in Conns, Submit(c)
      PROVE  [Promise!Next]_(Promise!deliveryVars)
  BY <1>1, PromiseSubmit DEF Promise!Next
<1>2. ASSUME NEW w \in WorkerIds, WorkerTake(w)
      PROVE  Promise!Next
  BY <1>2, PromiseTake DEF Promise!Next
<1>3. ASSUME NEW w \in WorkerIds, StoreMetrics(w)
      PROVE  Promise!Next
  BY <1>3, PromiseStore DEF Promise!Next
<1>4. ASSUME NEW w \in WorkerIds, ReadFails(w) \/ CloseConn(w)
      PROVE  Promise!Next
  BY <1>4, PromiseRelease DEF Promise!Next
<1>5. CASE UNCHANGED <<conn, result, stored, payload, queue>>
  <2>1. UNCHANGED [d \in Conns |-> PhaseOf(d)]
    BY <1>5 DEF PhaseOf, Recorded
  <2>2. UNCHANGED [d \in Conns |-> payload[d] = "metrics"]
    BY <1>5
  <2> QED
    BY <1>5, <2>1, <2>2 DEF Promise!deliveryVars
<1> QED
  BY <1>1, <1>2, <1>3, <1>4, <1>5
  DEF Next, vars, Start, StopStep, StopMark, StopCancel, StopWait, WorkerStep, WorkerExit

(* The pool implements Delivery for any number of connections, workers,    *)
(* batches and callers of Stop: first come, first served; never more than  *)
(* NumWorkers at a time; one record for each connection that brings        *)
(* metrics, before it is closed (SubmitConnection, worker and              *)
(* handleConnection in worker_pool.go).                                    *)
THEOREM PoolKeepsPromise == Spec => PromiseKept
<1>1. Init => HolderInv
  BY DEF Init, HolderInv, HandlingHasHolder, LiveInLastBatch, Live
<1>2. IInv /\ HolderInv /\ [Next]_vars => HolderInv'
  BY HolderStep
<1>3. Spec => []HolderInv
  BY <1>1, <1>2, InductiveInvariant, PTL DEF Spec
<1>4. Init => Promise!Init
  <2> SUFFICES ASSUME Init PROVE Promise!Init
    OBVIOUS
  <2>1. [c \in Conns |-> PhaseOf(c)] = [c \in Conns |-> "offered"]
    BY DEF Init, PhaseOf
  <2>2. [c \in Conns |-> payload[c] = "metrics"] \in [Conns -> BOOLEAN]
    OBVIOUS
  <2> QED
    BY <2>1, <2>2 DEF Init, Promise!Init
<1>5. IInv /\ HolderInv /\ [Next]_vars => [Promise!Next]_(Promise!deliveryVars)
  BY PromiseStep
<1> QED
  BY <1>3, <1>4, <1>5, InductiveInvariant, PTL DEF Spec, PromiseKept, Promise!Spec
=============================================================================
