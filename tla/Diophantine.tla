----------------------------- MODULE Diophantine -----------------------------
(***************************************************************************)
(* The rate-limit check of the Diophantine strategy                        *)
(* (pkg/backoff/diophantine.go): may a command and its retries be added to *)
(* the requests already scheduled, without more than RateLimit of them in  *)
(* some window of length Window?  Times are integers (the code compares    *)
(* instants and adds durations, nothing else).                             *)
(***************************************************************************)
EXTENDS Integers, Sequences, FiniteSets

CONSTANTS
  RateLimit,       \* rateLimit
  Window,          \* window
  RetryOffsets     \* retryOffsets, a sequence of durations

ASSUME DiophantineAssumption ==
  /\ RateLimit \in Nat
  /\ Window \in Nat \ {0}
  /\ RetryOffsets \in Seq(Nat)

-----------------------------------------------------------------------------
(* The times of the new request: the command itself and its retries.       *)
NewRetries(t) == [i \in 1 .. Len(RetryOffsets) |-> t + RetryOffsets[i]]

(* sort.Slice: request j comes behind those that are earlier.  The order   *)
(* of equal times, here that of s, makes no difference to the times.       *)
Rank(s, j) ==
  Cardinality({k \in 1 .. Len(s) : s[k] < s[j] \/ (s[k] = s[j] /\ k <= j)})

SortTimes(s) ==
  [i \in 1 .. Len(s) |-> s[CHOOSE j \in 1 .. Len(s) : Rank(s, j) = i]]

(* The inner loop: requests from index i on, before the end of the window  *)
(* that starts with request i.                                             *)
CountFrom(all, i) ==
  Cardinality({j \in i .. Len(all) : all[j] < all[i] + Window})

(* Mutated RateOK: the loop returns after its first window.                *)
RateOKFirst(all) == all # <<>> => CountFrom(all, 1) <= RateLimit

(* The outer loop, over the sorted requests.                               *)
RateOK(all) == \A i \in 1 .. Len(all) : CountFrom(all, i) <= RateLimit

(* CanScheduleRequest: all requests together, sorted by time, once.        *)
CanScheduleRequest(existing, t) ==
  \E all \in {SortTimes(existing \o NewRetries(t))} : RateOK(all)

-----------------------------------------------------------------------------
(* Reference: requests of s (in any order) in the window [x, x + Window),  *)
(* and the limit on every window, wherever it starts.                      *)
InWindow(s, x) == {j \in 1 .. Len(s) : x <= s[j] /\ s[j] < x + Window}

WithinLimit(s, starts) ==
  \A x \in starts : Cardinality(InWindow(s, x)) <= RateLimit
=============================================================================
