----------------------------- MODULE MCExecutor -----------------------------
(* The retry loop on small instances.                                      *)
EXTENDS Executor

SomeExitCodes == {-1, 0, 3}
=============================================================================
