------------------------------ MODULE Delivery ------------------------------
(***************************************************************************)
(* What the worker pool promises the connections it is given: each is      *)
(* either refused at once or waits in a line of bounded length, is served  *)
(* in its turn by one of a fixed number of servers, and leaves one record  *)
(* if, and only if, it brings metrics.  Workers, channels, locks and the   *)
(* way the pool is started and stopped do not show here; WorkerPool        *)
(* implements this (WorkerPool!PromiseKept).                               *)
(***************************************************************************)
EXTENDS Naturals, Sequences, FiniteSets

CONSTANTS
  Conns,        \* connections that may be offered
  Capacity,     \* how many may wait
  Servers       \* how many may be served at a time

VARIABLES
  phase,        \* phase[c]: how far connection c has come
  line,         \* the connections that wait, in the order of acceptance
  log,          \* the connections whose metrics were recorded
  brings        \* brings[c]: whether c brings metrics

deliveryVars == <<phase, line, log, brings>>

Phases == {"offered", "waiting", "served", "recorded", "done", "refused"}

Init ==
  /\ phase = [c \in Conns |-> "offered"]
  /\ line = <<>>
  /\ log = <<>>
  /\ brings \in [Conns -> BOOLEAN]

(* SubmitConnection returns true.                                          *)
Accept(c) ==
  /\ phase[c] = "offered"
  /\ Len(line) < Capacity
  /\ line' = Append(line, c)
  /\ phase' = [phase EXCEPT ![c] = "waiting"]
  /\ UNCHANGED <<log, brings>>

(* SubmitConnection returns false and has closed the connection.           *)
Refuse(c) ==
  /\ phase[c] = "offered"
  /\ phase' = [phase EXCEPT ![c] = "refused"]
  /\ UNCHANGED <<line, log, brings>>

InService == {c \in Conns : phase[c] \in {"served", "recorded"}}

(* A server takes the connection that has waited longest.                  *)
Serve(c) ==
  /\ phase[c] = "waiting"
  /\ line # <<>> /\ Head(line) = c
  /\ Cardinality(InService) < Servers
  /\ line' = Tail(line)
  /\ phase' = [phase EXCEPT ![c] = "served"]
  /\ UNCHANGED <<log, brings>>

(* Its metrics are recorded.                                               *)
Record(c) ==
  /\ phase[c] = "served"
  /\ brings[c]
  /\ log' = Append(log, c)
  /\ phase' = [phase EXCEPT ![c] = "recorded"]
  /\ UNCHANGED <<line, brings>>

(* It is closed: after the record if it brought metrics.                   *)
Release(c) ==
  /\ phase[c] = IF brings[c] THEN "recorded" ELSE "served"
  /\ phase' = [phase EXCEPT ![c] = "done"]
  /\ UNCHANGED <<line, log, brings>>

Next ==
  \E c \in Conns :
    Accept(c) \/ Refuse(c) \/ Serve(c) \/ Record(c) \/ Release(c)

Spec == Init /\ [][Next]_deliveryVars
=============================================================================
