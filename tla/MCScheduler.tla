----------------------------- MODULE MCScheduler -----------------------------
(* The scheduler with two clients; with windows longer than requests live. *)
EXTENDS Scheduler

OneRetry == <<0, 2>>
NoRetry == <<0>>
Symmetry == Permutations(Clients) \cup Permutations(Ids) \cup Permutations(Resources)
=============================================================================
