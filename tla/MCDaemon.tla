------------------------------ MODULE MCDaemon ------------------------------
(* Daemon processes on one machine.                                        *)
EXTENDS Daemon

CONSTANT Embedders      \* instances that may be programs using the package

MCInit == Init /\ library \in SUBSET Embedders

MCSpec == MCInit /\ [][Next]_vars /\ Fairness
=============================================================================
