------------------------------ MODULE Backoff -------------------------------
(***************************************************************************)
(* The delay functions of pkg/backoff: fixed, exponential, jitter, linear, *)
(* decorrelated jitter and Fibonacci (strategy.go), polynomial             *)
(* (polynomial.go) and the Diophantine fallback (diophantine.go), with     *)
(* time.Duration as the signed integer it is, from MinInt to MaxInt.  A    *)
(* float64 that becomes a Duration is its whole part here, an integer of   *)
(* any size; where it does not fit, the result of Go's conversion depends  *)
(* on the machine.  A strategy is a record of its fields:                  *)
(*   kind, base (Duration, Increment, baseDelay or the second retry        *)
(*   offset), mult (Multiplier or exponent, the fraction <<x, y>> for x/y), *)
(*   max (MaxDelay, or the hour of the Diophantine fallback), saturates    *)
(*   (the machine's conversion).                                           *)
(* rand.Float64() is one of k/RandDen, 0 <= k < RandDen.                   *)
(***************************************************************************)
EXTENDS Integers

CONSTANTS
  MaxInt,             \* 2^63 - 1
  RandDen,
  Second              \* time.Second, in the unit of durations

ASSUME BackoffAssumption ==
  MaxInt \in Nat /\ RandDen \in Nat \ {0} /\ Second \in Nat \ {0}

MinInt == -MaxInt - 1

(* Integer arithmetic of Go: the result modulo 2^64.                       *)
Wrap(x) == ((x - MinInt) % (2 * (MaxInt + 1))) + MinInt

(* time.Duration(float64): saturates (arm64) or gives the smallest integer *)
(* (amd64) where the value is out of range.                                *)
Convert(s, x) ==
  IF x \in MinInt .. MaxInt THEN x
  ELSE IF s.saturates /\ x > MaxInt THEN MaxInt ELSE MinInt

(* Mutated Capped: past the maximum the series starts again.               *)
CapRestarts(s, x) == IF s.max > 0 /\ x > s.max THEN s.base ELSE x

(* "Apply max delay cap if set."                                           *)
Capped(s, x) == IF s.max > 0 /\ x > s.max THEN s.max ELSE x

(* fibonacci: 1, 1, 2, 3, 5, ..., in the integers of the machine.          *)
fibonacci[n \in Nat] ==
  IF n <= 2 THEN 1 ELSE Wrap(fibonacci[n - 1] + fibonacci[n - 2])

(* math.Pow for a whole exponent.                                          *)
Power(x, n) ==
  LET power[i \in Nat] == IF i = 0 THEN 1 ELSE x * power[i - 1]
  IN  power[n]

(* Division of Go, and the whole part of a fraction: towards zero.         *)
Quot(a, b) == IF a >= 0 THEN a \div b ELSE -((-a) \div b)

(* base * math.Pow(x, n), for the fraction x.                              *)
Scaled(base, x, n) == Quot(base * Power(x[1], n), Power(x[2], n))

(* rand.Float64() * x.                                                     *)
Draw(x) == {Quot(x * k, RandDen) : k \in 0 .. RandDen - 1}

Fixed(s, n) == s.base

Exponential(s, n) ==
  IF n <= 0 THEN s.base ELSE Capped(s, Convert(s, Scaled(s.base, s.mult, n - 1)))

(* The cap is tested on the converted value, the draw taken from the float. *)
Jitter(s, n) ==
  LET ideal == IF n <= 0 THEN s.base ELSE Scaled(s.base, s.mult, n - 1)
      top == IF n > 0 /\ s.max > 0 /\ Convert(s, ideal) > s.max
             THEN s.max ELSE ideal
  IN {Convert(s, d) : d \in Draw(top)}

Linear(s, n) == IF n <= 0 THEN s.base ELSE Capped(s, Wrap(n * s.base))

(* Mutated DecorrelatedJitter: the lower bound is raised before the cap.   *)
DecorrelatedUncapped(s, prev, n) ==
  LET start == IF n <= 0 \/ prev = 0 THEN s.base ELSE prev
      top == Convert(s, Scaled(start, s.mult, 1))
      upper == IF top < s.base THEN s.base ELSE top
  IN {Wrap(s.base + d) : d \in Draw(Wrap(upper - s.base))}

(* The upper bound grows from the previous delay; it is capped first and   *)
(* raised to the base delay then.                                          *)
DecorrelatedJitter(s, prev, n) ==
  LET start == IF n <= 0 \/ prev = 0 THEN s.base ELSE prev
      top == Capped(s, Convert(s, Scaled(start, s.mult, 1)))
      upper == IF top < s.base THEN s.base ELSE top
  IN {Wrap(s.base + d) : d \in Draw(Wrap(upper - s.base))}

Fibonacci(s, n) ==
  IF n <= 0 THEN s.base ELSE Capped(s, Wrap(fibonacci[n] * s.base))

(* NewPolynomial refuses what it cannot cap.                               *)
PolynomialValid(s) == s.base > 0 /\ s.mult[1] >= 0 /\ s.max > 0 /\ s.base <= s.max

(* The whole part of the q-th root of y, if it is at most top.             *)
Root(y, q, top) ==
  CHOOSE d \in 0 .. top : Power(d, q) <= y /\ y < Power(d + 1, q)

(* delay = base * n^(x/y), so delay^y = base^y * n^x; the cap is tested on *)
(* the float, before the conversion, which therefore always fits.          *)
Polynomial(s, n) ==
  LET y == s.mult[2]
      d == Power(s.base, y) * Power(n, s.mult[1])
  IN
  IF n <= 0 THEN s.base
  ELSE IF d > Power(s.max, y) THEN s.max
  ELSE Root(d, y, s.max)

(* DiophantineStrategy.Delay: the second retry offset, doubled; the hour   *)
(* is tested after each doubling, so not for the first attempt.            *)
DiophantineDelay(s, n) ==
  LET delay[i \in Nat] ==
        IF i <= 1 THEN s.base ELSE Capped(s, Wrap(2 * delay[i - 1]))
  IN IF n <= 0 THEN Second ELSE delay[n]

(* Strategy.Delay: what one call may return; prev is previousDelay, which  *)
(* only decorrelated jitter keeps.                                         *)
StrategyDelays(s, prev, n) ==
  CASE s.kind = "fixed" -> {Fixed(s, n)}
    [] s.kind = "exponential" -> {Exponential(s, n)}
    [] s.kind = "jitter" -> Jitter(s, n)
    [] s.kind = "linear" -> {Linear(s, n)}
    [] s.kind = "decorrelated-jitter" -> DecorrelatedJitter(s, prev, n)
    [] s.kind = "fibonacci" -> {Fibonacci(s, n)}
    [] s.kind = "polynomial" -> {Polynomial(s, n)}
    [] s.kind = "diophantine" -> {DiophantineDelay(s, n)}

Kinds == {"fixed", "exponential", "jitter", "linear", "decorrelated-jitter",
          "fibonacci", "polynomial", "diophantine"}

Randomised == {"jitter", "decorrelated-jitter"}

(* What the series is without a word size and a cap, for the properties;   *)
(* the polynomial one needs none, it is capped before it is converted.     *)
IdealFib[n \in Nat] == IF n <= 2 THEN 1 ELSE IdealFib[n - 1] + IdealFib[n - 2]

Ideal(s, n) ==
  CASE s.kind \in {"exponential", "jitter"} -> Scaled(s.base, s.mult, n - 1)
    [] s.kind = "linear" -> n * s.base
    [] s.kind = "fibonacci" -> s.base * IdealFib[n]
    [] s.kind = "diophantine" -> s.base * Power(2, n - 1)
    [] OTHER -> s.base

=============================================================================
