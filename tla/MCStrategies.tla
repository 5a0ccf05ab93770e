---------------------------- MODULE MCStrategies ----------------------------
(* The outputs that TLC gives the HTTP-aware strategy: each source alone,   *)
(* with 0, with more seconds than a Duration holds, and sources that differ *)
(* or hide each other.                                                      *)
EXTENDS Strategies

(* Delays that the flags accept, negative ones included, and multipliers   *)
(* and exponents below 1, of 1 and above it, whole or not, zero and        *)
(* negative.                                                               *)
MCBases == {-900, -4, 0, 4, 12, 300}
MCMaxes == {-8, 0, 8, 240}
MCMults == {<<-2, 1>>, <<0, 1>>, <<1, 2>>, <<1, 1>>, <<3, 2>>, <<2, 1>>, <<3, 1>>}

Header(n, s) == [name |-> n, seconds |-> s]
RA == "retry-after"
RL == "x-ratelimit-retry-after"

MCOutputs ==
  {NoHints,
   [NoHints EXCEPT !.headers = <<Header(RA, 10)>>],
   [NoHints EXCEPT !.headers = <<Header(RL, 600)>>, !.reset = 8],
   [NoHints EXCEPT !.headers = <<Header(RL, 0)>>, !.reset = 8],
   [NoHints EXCEPT !.headers = <<Header(RL, Refused), Header(RA, 5)>>, !.reset = 16],
   [NoHints EXCEPT !.headers = <<Header(RA, 0), Header(RL, 20)>>],
   [NoHints EXCEPT !.headers = <<Header(RL, 0)>>, !.reset = 12, !.json = 3],
   [NoHints EXCEPT !.headers = <<Header(RA, 1100)>>],
   [NoHints EXCEPT !.reset = -4, !.json = 90],
   [NoHints EXCEPT !.json = -600],
   [NoHints EXCEPT !.reset = 40]}
=============================================================================
