----------------------------- MODULE MCMetrics -----------------------------
(* One session with a part of what the daemon does with metrics: the       *)
(* worker pool that receives them, or the storage.                         *)
EXTENDS WorkerPool, MCStorage

CONSTANT Silent      \* the connections on which no metrics arrive

(* Which connections those are makes no difference, only how many.         *)
SomeSilent ==
  payload = [c \in Conns |-> IF c \in Silent THEN "unusable" ELSE "metrics"]

VARIABLE session

MCInit ==
  /\ session \in {"pool", "storage"}
  /\ Init /\ SomeSilent /\ StorageInit

MCNext ==
  \/ session = "pool" /\ Next /\ UNCHANGED <<storageVars, session>>
  \/ session = "storage" /\ StorageNext /\ UNCHANGED <<vars, session>>

MCSpec ==
  /\ MCInit /\ [][MCNext]_<<vars, storageVars, session>>
  /\ session = "pool" => Fairness
=============================================================================
