------------------------------- MODULE MCRun -------------------------------
(* One session with a part of a run of patience: a few clients that        *)
(* coordinate with a server before they run their commands, or the retry   *)
(* loop of one of them.                                                    *)
EXTENDS Coordination, MCExecutor

CONSTANT Kinds      \* the servers that are considered

VARIABLE session

MCInit ==
  /\ session \in {"coordination", "loop"}
  /\ Init /\ kind \in Kinds /\ ExecutorInit
  /\ session = "coordination" => config = CHOOSE c \in Configs : TRUE
  /\ session = "loop" => kind = CHOOSE k \in Kinds : TRUE

(* Clients and servers may stop for good, the loop goes on until the tool  *)
(* has exited.                                                             *)
MCNext ==
  \/ session = "coordination" /\ Next /\ UNCHANGED <<executorVars, session>>
  \/ session = "coordination" /\ UNCHANGED <<vars, executorVars, session>>
  \/ session = "loop" /\ ExecutorNext /\ UNCHANGED <<vars, session>>

MCSpec ==
  /\ MCInit /\ [][MCNext]_<<vars, executorVars, session>>
  /\ session = "coordination" => Fairness
  /\ session = "loop" => ExecutorFairness
=============================================================================
