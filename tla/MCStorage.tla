------------------------------ MODULE MCStorage ------------------------------
(* The storage with runs of two commands, with good and bad ends and with  *)
(* durations whose averages are not whole.                                 *)
EXTENDS Storage

Run(c, ok, d) == [command |-> c, success |-> ok, duration |-> d, attempts |-> 2]

SomeRuns == {Run("a", TRUE, 5), Run("a", FALSE, 0), Run("b", TRUE, 2)}
=============================================================================
