----------------------------- MODULE Strategies -----------------------------
(***************************************************************************)
(* The retry loop seen from the backoff strategy: the calls that           *)
(* Executor.Run makes (RecordOutcome, ProcessCommandOutput, Delay, in this *)
(* order, pkg/executor/executor.go) on a plain strategy (module Backoff),  *)
(* on the adaptive one (pkg/backoff/adaptive.go) and on the HTTP-aware one *)
(* (pkg/backoff/http_aware.go), built as the subcommands build them        *)
(* (cmd/patience/subcommands.go).                                          *)
(*                                                                         *)
(* A command's output is what HTTPAware finds in it: the headers that      *)
(* match its expressions, in the order of the output, with their seconds,  *)
(* the time until X-RateLimit-Reset, and the first retry field of a JSON   *)
(* object.                                                                 *)
(***************************************************************************)
EXTENDS Backoff, Sequences, FiniteSets

CONSTANTS
  Hour,               \* the maximum of the Diophantine fallback
  Bases, Mults, Maxes,\* values of the flags of the plain strategies
  Caps,               \* values of --max-delay of http-aware
  Rates, RateDen,     \* --learning-rate is one of Rates / RateDen
  Windows,            \* values of --memory-window
  Outputs,            \* what the output of an attempt may hold
  PlainAttempts, LearningAttempts   \* bounds: --attempts

ASSUME StrategiesAssumption ==
  /\ Hour \in 1 .. MaxInt /\ 60 * Second <= MaxInt
  /\ Bases \cup Maxes \subseteq MinInt .. MaxInt
  /\ Mults \subseteq Int \X (Nat \ {0})
  /\ Caps \subseteq 0 .. MaxInt
  /\ RateDen \in Nat \ {0} /\ Rates \subseteq 1 .. RateDen
  /\ Windows \subseteq Nat \ {0}
  /\ PlainAttempts \in Nat \ {0} /\ LearningAttempts \in Nat \ {0}

(* The seconds of a header with more digits than strconv.Atoi takes.       *)
Refused == -1

ASSUME OutputsAssumption ==
  \A out \in Outputs :
    /\ out.headers \in Seq([name: {"retry-after", "x-ratelimit-retry-after"},
                            seconds: Nat \cup {Refused}])
    /\ out.reset \in MinInt .. MaxInt
    /\ out.json \in Int

NoHints == [headers |-> <<>>, reset |-> 0, json |-> 0]

VARIABLES
  plan,               \* the strategy and its parameters, fixed for the run
  pc,                 \* "running", "waiting" or "done"
  attempt,            \* the loop variable of Run
  st,                 \* the mutable fields of the strategy objects
  waited,             \* what the last call of Delay returned to Run
  last                \* observation: the attempt that ended last

vars == <<plan, pc, attempt, st, waited, last>>

-----------------------------------------------------------------------------
(* What the subcommands construct.                                         *)
Plain(k, b, x, m, sat) ==
  [kind |-> k, base |-> b, mult |-> x, max |-> m, saturates |-> sat]

(* The fallbacks of createAdaptiveCommand, and createFallbackStrategy,     *)
(* which knows no polynomial one; Diophantine is no fallback of either.    *)
Fallbacks(kinds) ==
  {Plain(k, Second, <<2, 1>>, IF k = "fixed" THEN 0 ELSE 60 * Second, sat) :
     k \in kinds, sat \in BOOLEAN}

(* What the subcommands accept: ExponentialConfig.Validate, NewPolynomial, *)
(* parseRetryOffsets; linear, fixed, jitter, decorrelated-jitter and       *)
(* fibonacci take any delay, negative ones too, and any multiplier.        *)
FlagsValid(s) ==
  /\ s.kind = "exponential" => s.base >= 0 /\ s.mult[1] > 0 /\ s.max >= 0
  /\ s.kind = "polynomial" => PolynomialValid(s)
  /\ s.kind = "diophantine" => s.base >= 0 /\ s.max = Hour

(* The kinds with a --multiplier or an --exponent; the others have <<1, 1>>. *)
WithMult == {"exponential", "jitter", "decorrelated-jitter", "polynomial"}

PlainStrategies ==
  {s \in {Plain(k, b, x, m, sat) :
            k \in Kinds, b \in Bases, x \in Mults \cup {<<1, 1>>},
            m \in Maxes \cup {Hour}, sat \in BOOLEAN} :
     FlagsValid(s) /\ (s.kind \notin WithMult => s.mult = <<1, 1>>)}

Plan(c, s, n, cap, rate, w) ==
  [cmd |-> c, strategy |-> s, attempts |-> n, cap |-> cap, rate |-> rate,
   window |-> w]

Plans ==
  {Plan("plain", s, PlainAttempts, 0, 0, 0) : s \in PlainStrategies}
  \cup {Plan("http-aware", s, LearningAttempts, cap, 0, 0) :
          s \in Fallbacks(Kinds \ {"polynomial", "diophantine"}), cap \in Caps}
  \cup {Plan("adaptive", s, LearningAttempts, 0, r, w) :
          s \in Fallbacks(Kinds \ {"diophantine"}), r \in Rates, w \in Windows}

-----------------------------------------------------------------------------
(* Delay of the strategy at the bottom: the possible results, each with    *)
(* the fields it leaves behind.                                            *)
FallbackDelay(s, n) ==
  {[delay |-> d,
    st |-> IF plan.strategy.kind = "decorrelated-jitter"
           THEN [s EXCEPT !.previousDelay = d] ELSE s] :
     d \in StrategyDelays(plan.strategy, s.previousDelay, n)}

-----------------------------------------------------------------------------
(* The adaptive strategy.  The success rate of a bucket is an exponential  *)
(* moving average, an exact multiple of 1/Scale here.                      *)
Bounds == <<0, 1, 2, 5, 10, 30, 60, 300>>
Buckets == 1 .. Len(Bounds) - 1

MinDelay(b) == Bounds[b] * Second
MaxDelay(b) == Bounds[b + 1] * Second

Scale == Power(RateDen, plan.window)

EmptyBucket == [samples |-> 0, rate |-> 0]

(* findBucketIndexLocked: no bucket for a negative delay.                  *)
BucketsOf(d) ==
  {b \in Buckets : \/ d >= MinDelay(b) /\ d < MaxDelay(b)
                   \/ b = Len(Bounds) - 1 /\ d >= 300 * Second}

AddOutcome(buckets, o) ==
  [b \in Buckets |->
     IF b \notin BucketsOf(o.delay) THEN buckets[b]
     ELSE [samples |-> buckets[b].samples + 1,
           rate |-> ((RateDen - plan.rate) * buckets[b].rate
                     + plan.rate * (IF o.success THEN Scale ELSE 0))
                    \div RateDen]]

(* The loop over the window.                                               *)
CountOutcomes(buckets, outcomes) ==
  LET after[i \in 0 .. Len(outcomes)] ==
        IF i = 0 THEN buckets ELSE AddOutcome(after[i - 1], outcomes[i])
  IN  after[Len(outcomes)]

(* Mutated updateDelayBuckets: the counts are not reset.                   *)
UpdateWithoutReset(buckets, outcomes) == CountOutcomes(buckets, outcomes)

(* updateDelayBucketsLocked: initialise or reset, then count the window.   *)
updateDelayBuckets(buckets, outcomes) ==
  CountOutcomes([b \in Buckets |-> EmptyBucket], outcomes)

(* RecordOutcome (latencies left out: no decision uses them).              *)
RecordOutcome(s, d, success) ==
  LET kept == IF Len(s.recentOutcomes) >= plan.window
              THEN Tail(s.recentOutcomes) ELSE s.recentOutcomes
      now == Append(kept, [delay |-> d, success |-> success])
  IN [s EXCEPT !.recentOutcomes = now,
               !.totalOutcomes = @ + 1,
               !.delayBuckets = updateDelayBuckets(@, now)]

(* The loop over the map of buckets in calculateOptimalDelay: a rate of 0  *)
(* beats the initial -1, and the first of several best buckets in the      *)
(* order of the map, which is random, wins.                                *)
BestBuckets(s) ==
  LET known == {b \in Buckets : s.delayBuckets[b].samples >= 2} IN
  {b \in known : \A c \in known :
                   s.delayBuckets[b].rate >= s.delayBuckets[c].rate}

blendDelays(optimal, fallback) ==
  Convert(plan.strategy,
          Quot(optimal * plan.rate + fallback * (RateDen - plan.rate), RateDen))

AdaptiveDelay(s, n) ==
  LET blended == {[delay |-> blendDelays(MinDelay(b) + (MaxDelay(b) - MinDelay(b)) \div 2,
                                         f.delay), st |-> f.st] :
                    b \in BestBuckets(s), f \in FallbackDelay(s, n)}
  IN
  IF n <= 0 \/ s.totalOutcomes < 3 \/ BestBuckets(s) = {}
  THEN FallbackDelay(s, n)
  ELSE UNION {IF x.delay > 0 THEN {x} ELSE FallbackDelay(x.st, n) : x \in blended}

-----------------------------------------------------------------------------
(* The HTTP-aware strategy.  The expression of parseRetryAfterHeader       *)
(* matches X-RateLimit-Retry-After as well: it takes the first of both.    *)
parseRetryAfterHeader(out) ==
  IF out.headers = <<>> \/ out.headers[1].seconds = Refused THEN 0
  ELSE Wrap(out.headers[1].seconds * Second)

(* The first header of a name.                                             *)
FirstNamed(out, name) ==
  CHOOSE i \in DOMAIN out.headers :
    /\ out.headers[i].name = name
    /\ \A j \in 1 .. i - 1 : out.headers[j].name # name

(* parseRateLimitHeaders: X-RateLimit-Retry-After decides even with 0.     *)
parseRateLimitHeaders(out) ==
  LET name == "x-ratelimit-retry-after"
      own == out.headers[FirstNamed(out, name)].seconds
  IN
  IF (\E i \in DOMAIN out.headers : out.headers[i].name = name) /\ own # Refused
  THEN Wrap(own * Second)
  ELSE IF out.reset > 0 THEN out.reset ELSE 0

(* A number of JSON is a float64 and becomes a Duration first.             *)
parseJSONResponse(out) == Wrap(Convert(plan.strategy, out.json) * Second)

capDelay(d) == IF plan.cap > 0 /\ d > plan.cap THEN plan.cap ELSE d

(* The first of the sources with a positive delay; 0 without one.          *)
Extracted(out) ==
  IF parseRetryAfterHeader(out) > 0 THEN parseRetryAfterHeader(out)
  ELSE IF parseRateLimitHeaders(out) > 0 THEN parseRateLimitHeaders(out)
  ELSE IF parseJSONResponse(out) > 0 THEN parseJSONResponse(out)
  ELSE 0

(* Mutated ProcessCommandOutput: the previous timing is not reset.         *)
ProcessKeepingOld(s, out) ==
  IF Extracted(out) = 0 THEN s
  ELSE [s EXCEPT !.lastRetryAfter = capDelay(Extracted(out))]

(* ProcessCommandOutput: the previous timing is forgotten.                 *)
ProcessCommandOutput(s, out) ==
  [s EXCEPT !.lastRetryAfter = capDelay(Extracted(out))]

HTTPAwareDelay(s, n) ==
  IF s.lastRetryAfter > 0 THEN {[delay |-> s.lastRetryAfter, st |-> s]}
  ELSE FallbackDelay(s, n)

-----------------------------------------------------------------------------
(* The calls of Executor.Run.                                              *)
Delay(s, n) ==
  CASE plan.cmd = "plain" -> FallbackDelay(s, n)
    [] plan.cmd = "adaptive" -> AdaptiveDelay(s, n)
    [] plan.cmd = "http-aware" -> HTTPAwareDelay(s, n)

(* recordStrategyOutcome: the delay before attempt n is computed again.    *)
recordStrategyOutcome(s, n, success) ==
  {[recorded |-> r.delay, st |-> RecordOutcome(r.st, r.delay, success)] :
     r \in IF n > 1 THEN Delay(s, n - 1) ELSE {[delay |-> 0, st |-> s]}}

(* Success and the failure pattern end the loop.                           *)
ShouldStop(outcome) == outcome \in {"success", "fatal"}

Init ==
  /\ plan \in Plans
  /\ pc = "running"
  /\ attempt = 1
  /\ st = [previousDelay |-> 0, lastRetryAfter |-> 0, recentOutcomes |-> <<>>,
           totalOutcomes |-> 0, delayBuckets |-> [b \in Buckets |-> EmptyBucket]]
  /\ waited = 0
  /\ last = [recorded |-> 0, outcome |-> "none", out |-> NoHints]

(* An attempt ends: Run from recordStrategyOutcome to time.Sleep.  Only    *)
(* the type switches on the strategy decide which calls are made.          *)
FinishAttempt(outcome, out) ==
  /\ pc = "running"
  /\ \E r \in IF plan.cmd = "adaptive"
              THEN recordStrategyOutcome(st, attempt, outcome = "success")
              ELSE {[recorded |-> 0, st |-> st]} :
       LET s == IF plan.cmd = "http-aware"
                THEN ProcessCommandOutput(r.st, out) ELSE r.st
       IN
       /\ last' = [recorded |-> r.recorded, outcome |-> outcome, out |-> out]
       /\ \/ /\ ShouldStop(outcome) \/ attempt = plan.attempts
             /\ pc' = "done"
             /\ st' = s
             /\ UNCHANGED waited
          \/ /\ ~ShouldStop(outcome) /\ attempt < plan.attempts
             /\ pc' = "waiting"
             /\ \E d \in Delay(s, attempt) : waited' = d.delay /\ st' = d.st
  /\ UNCHANGED <<plan, attempt>>

(* time.Sleep(delay), where delay > 0, and the head of the loop.           *)
NextAttempt ==
  /\ pc = "waiting"
  /\ pc' = "running"
  /\ attempt' = attempt + 1
  /\ UNCHANGED <<plan, st, waited, last>>

Next ==
  \/ \E outcome \in {"success", "failure", "fatal"},
        out \in IF plan.cmd = "http-aware" THEN Outputs ELSE {NoHints} :
       FinishAttempt(outcome, out)
  \/ NextAttempt

Spec == Init /\ [][Next]_vars

-----------------------------------------------------------------------------
(* Type invariant of the loop and of the fields of the strategies.         *)
TypeOK ==
  /\ plan \in Plans
  /\ pc \in {"running", "waiting", "done"}
  /\ attempt \in 1 .. plan.attempts
  /\ waited \in MinInt .. MaxInt
  /\ st.previousDelay \in MinInt .. MaxInt
  /\ st.lastRetryAfter \in 0 .. MaxInt
  /\ plan.cmd = "adaptive" => Len(st.recentOutcomes) <= plan.window
  /\ \A b \in Buckets : st.delayBuckets[b].rate \in 0 .. Scale

(* Does the series of s fit the integers of the machine up to attempt n?   *)
Fits(s, n) == Ideal(s, n) <= MaxInt

Largest(a, b) == IF a >= b THEN a ELSE b

(* The longest wait that s allows.                                         *)
BoundOf(s) ==
  IF s.kind = "fixed" \/ s.max <= 0 THEN MaxInt
  ELSE IF s.kind \in {"decorrelated-jitter", "diophantine"}
  THEN Largest(s.max, s.base)
  ELSE s.max

(* The two computations that overflow before the cap is applied: a jitter  *)
(* series that does not fit, and the range of decorrelated jitter above a  *)
(* negative base delay.                                                    *)
Regular(s, n) ==
  /\ s.kind = "jitter" => Fits(s, n)
  /\ s.kind = "decorrelated-jitter" => s.base >= 0

(* Where a maximum is set, a wait never exceeds it, overflow or not and    *)
(* for every value of the flags, for the exponential, linear, Fibonacci    *)
(* and polynomial strategies; jitter keeps it while its series fits;       *)
(* decorrelated jitter, its base delay not being negative, and the         *)
(* Diophantine fallback keep it unless the base delay itself is larger;    *)
(* decorrelated jitter and the polynomial strategy never wait less than    *)
(* the base delay.  HTTP-aware and adaptive waits are bounded by the       *)
(* larger of their own bound and that of the fallback (Delay of every      *)
(* strategy).                                                              *)
WaitWithinBounds ==
  LET s == plan.strategy IN
  /\ TypeOK
  /\ pc = "waiting" /\ Regular(s, attempt) =>
       CASE plan.cmd = "plain" ->
              /\ waited <= BoundOf(s)
              /\ s.kind \in {"polynomial", "decorrelated-jitter"} =>
                   waited >= s.base
         [] plan.cmd = "http-aware" ->
              plan.cap > 0 => waited <= Largest(plan.cap, BoundOf(s))
         [] plan.cmd = "adaptive" ->
              waited <= Largest(180 * Second, BoundOf(s))

(* The flags for which a series is meant to grow: no negative base delay,  *)
(* a multiplier of at least 1, a retry offset of at most an hour.          *)
Growing(s) ==
  /\ s.base >= 0
  /\ s.kind = "exponential" => s.mult[1] >= s.mult[2]
  /\ s.kind = "diophantine" => s.base <= Hour

(* While its series fits the integers, a strategy without randomness whose *)
(* base delay is not negative, whose multiplier (exponential) is at least  *)
(* 1 and whose retry offset (Diophantine) is at most an hour never waits   *)
(* less before a later attempt than before an earlier one, rounding and    *)
(* cap included (Delay in strategy.go, polynomial.go and diophantine.go).  *)
(* The subcommands also accept flags outside these conditions: see         *)
(* ExponentialIncreases.                                                   *)
WaitsNeverShrink ==
  [][(/\ plan.cmd = "plain"
      /\ plan.strategy.kind \notin Randomised
      /\ Growing(plan.strategy)
      /\ Fits(plan.strategy, attempt)
      /\ pc' = "waiting")
     => waited' >= waited]_vars

(* "Exponentially increasing delays" (README.md and the help of            *)
(* createExponentialCommand): whatever flags exponential accepts, no wait  *)
(* is shorter than the first one, capped.  It is violated:                 *)
(* ExponentialConfig.Validate accepts every multiplier above 0, so with    *)
(* 0.5 every wait is half of the one before.                               *)
ExponentialIncreases ==
  (/\ pc = "waiting"
   /\ plan.cmd = "plain" /\ plan.strategy.kind = "exponential"
   /\ Fits(plan.strategy, attempt))
  => waited >= Capped(plan.strategy, plan.strategy.base)

(* The buckets count exactly the outcomes of the window, each non-negative *)
(* delay in one bucket, whatever was counted and dropped before            *)
(* (RecordOutcome and updateDelayBucketsLocked).                           *)
BucketsMirrorWindow ==
  plan.cmd = "adaptive" =>
    /\ Len(st.recentOutcomes) = IF st.totalOutcomes < plan.window
                                THEN st.totalOutcomes ELSE plan.window
    /\ \A b \in Buckets :
         st.delayBuckets[b].samples =
           Cardinality({i \in DOMAIN st.recentOutcomes :
                          b \in BucketsOf(st.recentOutcomes[i].delay)})
    /\ \A i \in DOMAIN st.recentOutcomes :
         st.recentOutcomes[i].delay >= 0 =>
           Cardinality(BucketsOf(st.recentOutcomes[i].delay)) = 1

(* The adaptive strategy learns what happened: after every attempt the     *)
(* buckets mirror the window, and the delay that recordStrategyOutcome     *)
(* computes again is the one that was really waited, as long as the        *)
(* fallback is not random and no two buckets are equally good; the window  *)
(* has not changed between the two calls of Delay.                         *)
LearnsWhatHappened ==
  [][pc = "running" /\ pc' # "running" /\ plan.cmd = "adaptive" =>
       /\ BucketsMirrorWindow'
       /\ (/\ plan.strategy.kind \notin Randomised
           /\ Cardinality(BestBuckets(st)) <= 1)
          => last'.recorded = waited]_vars

(* The hints that an output gives, in time units and without overflow: the *)
(* first header of either name, the first X-RateLimit-Retry-After, which   *)
(* hides the reset even if it is 0, or else the reset, and the JSON field. *)
HintsIn(out) ==
  LET Own(i) == out.headers[i].name = "x-ratelimit-retry-after"
      first == {i \in DOMAIN out.headers :
                  i = 1 \/ (Own(i) /\ \A j \in 1 .. i - 1 : ~Own(j))}
      hides == {i \in first : Own(i) /\ out.headers[i].seconds # Refused}
  IN {out.headers[i].seconds * Second : i \in first}
     \cup (IF hides = {} THEN {out.reset} ELSE {})
     \cup {out.json * Second}

(* An HTTP-aware wait follows the output of the attempt that ended last    *)
(* and no earlier one, if all its hints fit the integers: with no positive *)
(* hint in it the fallback decides, with a single one the wait is that     *)
(* hint, capped (ProcessCommandOutput resets lastRetryAfter first).        *)
WaitFollowsLastOutput ==
  LET hints == {h \in HintsIn(last.out) : h > 0} IN
  (/\ pc = "waiting" /\ plan.cmd = "http-aware"
   /\ HintsIn(last.out) \subseteq MinInt .. MaxInt) =>
    /\ hints = {} => /\ st.lastRetryAfter = 0
                     /\ plan.strategy.kind \notin Randomised =>
                          waited \in StrategyDelays(plan.strategy, 0, attempt)
    /\ \A h \in hints : hints = {h} => waited = capDelay(h)

=============================================================================
