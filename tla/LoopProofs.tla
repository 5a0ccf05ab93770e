----------------------------- MODULE LoopProofs -----------------------------
(* Proofs about the components whose work is a loop over data: the backoff *)
(* strategies, for every word size, every flag value and any number of     *)
(* attempts; the metrics storage, for any limits and runs; the streaming   *)
(* matcher, for any text in any chunks.                                    *)
EXTENDS Strategies, Storage, Streaming, FiniteSetTheorems, FunctionTheorems,
        SequenceTheorems, WellFoundedInduction, TLAPS

-----------------------------------------------------------------------------
(* Loops.  Induction over numbers and a recursive function on them, for a  *)
(* set in place of a predicate and a function in place of an operator.     *)

(* A set of naturals that is not empty has a smallest element.             *)
LEMMA SmallestElement ==
  ASSUME NEW T \in SUBSET Nat, T # {}
  PROVE  \E m \in T : \A j \in T : m <= j
<1>1. PICK m \in T : \A j \in T : <<j, m>> \notin OpToRel(<, Nat)
  BY WFMin, NatLessThanWellFounded
<1>2. \A j \in T : ~(j < m)
  BY <1>1, Zenon DEF OpToRel
<1> QED
  BY <1>2

(* A set with 0 that is closed under + 1 holds every natural number.       *)
LEMMA Induction ==
  ASSUME NEW T, 0 \in T, \A n \in Nat : n \in T => n + 1 \in T
  PROVE  \A n \in Nat : n \in T
<1> DEFINE U == {n \in Nat : n \notin T}
<1>1. SUFFICES ASSUME U # {} PROVE FALSE
  OBVIOUS
<1>2. PICK m \in U : \A j \in U : m <= j
  <2>1. U \in SUBSET Nat
    OBVIOUS
  <2> HIDE DEF U
  <2> QED
    BY <1>1, <2>1, SmallestElement
<1>3. m \in Nat /\ m \notin T /\ m # 0
  BY <1>2
<1>4. m - 1 \in Nat /\ m - 1 \notin U
  BY <1>2, <1>3
<1>5. m - 1 \in T /\ (m - 1) + 1 = m
  BY <1>3, <1>4
<1> QED
  BY <1>3, <1>4, <1>5

(* p holds the first n values of the loop that starts with s0.             *)
IsRun(p, n, s0, G) ==
  p[0] = s0 /\ \A k \in 0 .. n - 1 : p[k + 1] = G[k][p[k]]

LEMMA RunsAgree ==
  ASSUME NEW s0, NEW G, NEW n \in Nat, NEW m \in Nat, NEW p, NEW q,
         IsRun(p, n, s0, G), IsRun(q, m, s0, G)
  PROVE  \A k \in Nat : k <= n /\ k <= m => p[k] = q[k]
<1> DEFINE T == {k \in Nat : k <= n /\ k <= m => p[k] = q[k]}
<1>1. 0 \in T
  BY DEF IsRun
<1>2. ASSUME NEW k \in Nat, k \in T PROVE k + 1 \in T
  <2>1. SUFFICES ASSUME k + 1 <= n, k + 1 <= m PROVE p[k + 1] = q[k + 1]
    OBVIOUS
  <2>2. k \in 0 .. n - 1 /\ k \in 0 .. m - 1 /\ p[k] = q[k]
    BY <1>2, <2>1
  <2> QED
    BY <2>2 DEF IsRun
<1>3. \A k \in Nat : k \in T
  <2> HIDE DEF T
  <2> QED
    BY <1>1, <1>2, Induction
<1> QED
  BY <1>3

(* The values of the loop after every number of turns.                     *)
HasRun(S, s0, G) ==
  \E h \in [Nat -> S] : h[0] = s0 /\ \A n \in Nat : h[n + 1] = G[n][h[n]]

LEMMA Iteration ==
  ASSUME NEW S, NEW s0 \in S, NEW G \in [Nat -> [S -> S]]
  PROVE  HasRun(S, s0, G)
<1> DEFINE T == {n \in Nat : \E p \in [0 .. n -> S] : IsRun(p, n, s0, G)}
<1>1. 0 \in T
  <2> DEFINE p == [k \in 0 .. 0 |-> s0]
  <2>1. p \in [0 .. 0 -> S] /\ IsRun(p, 0, s0, G)
    BY DEF IsRun
  <2> QED
    BY <2>1
<1>2. ASSUME NEW n \in Nat, n \in T PROVE n + 1 \in T
  <2>1. PICK p \in [0 .. n -> S] : IsRun(p, n, s0, G)
    BY <1>2
  <2> DEFINE q == [k \in 0 .. n + 1 |-> IF k = n + 1 THEN G[n][p[n]] ELSE p[k]]
  <2>2. G[n][p[n]] \in S
    OBVIOUS
  <2>3. q \in [0 .. n + 1 -> S]
    BY <2>2
  <2>4. q[0] = s0
    BY <2>1 DEF IsRun
  <2>5. ASSUME NEW k \in 0 .. (n + 1) - 1 PROVE q[k + 1] = G[k][q[k]]
    <3>1. q[k] = p[k]
      OBVIOUS
    <3>2. CASE k = n
      BY <3>1, <3>2
    <3>3. CASE k # n
      <4>1. k \in 0 .. n - 1 /\ q[k + 1] = p[k + 1]
        BY <3>3
      <4> QED
        BY <4>1, <3>1, <2>1 DEF IsRun
    <3> QED
      BY <3>2, <3>3
  <2>6. IsRun(q, n + 1, s0, G)
    BY <2>4, <2>5 DEF IsRun
  <2> QED
    BY <2>3, <2>6
<1>3. \A n \in Nat : n \in T
  <2> HIDE DEF T
  <2> QED
    BY <1>1, <1>2, Induction
<1> DEFINE P(n) == CHOOSE p \in [0 .. n -> S] : IsRun(p, n, s0, G)
           h == [n \in Nat |-> P(n)[n]]
<1>4. ASSUME NEW n \in Nat PROVE P(n) \in [0 .. n -> S] /\ IsRun(P(n), n, s0, G)
  BY <1>3
<1> HIDE DEF P
<1>5. h \in [Nat -> S]
  BY <1>4
<1>6. h[0] = s0
  BY <1>4 DEF IsRun
<1>7. ASSUME NEW n \in Nat PROVE h[n + 1] = G[n][h[n]]
  <2>1. IsRun(P(n), n, s0, G) /\ IsRun(P(n + 1), n + 1, s0, G)
    BY <1>4
  <2>2. P(n + 1)[n] = P(n)[n]
    BY <2>1, RunsAgree
  <2>3. P(n + 1)[n + 1] = G[n][P(n + 1)[n]]
    BY <2>1 DEF IsRun
  <2> QED
    BY <2>2, <2>3
<1> QED
  BY <1>5, <1>6, <1>7 DEF HasRun

-----------------------------------------------------------------------------
(* The arithmetic of durations.                                            *)

(* The remainder of a division, for a divisor that is not a literal.       *)
LEMMA Remainder ==
  ASSUME NEW y \in Int, NEW m \in Nat \ {0}
  PROVE  /\ y % m \in 0 .. m - 1
         /\ y \in 0 .. m - 1 => y % m = y
  OBVIOUS

LEMMA WrapFacts ==
  ASSUME NEW x \in Int
  PROVE  /\ Wrap(x) \in MinInt .. MaxInt
         /\ x \in MinInt .. MaxInt => Wrap(x) = x
<1> USE BackoffAssumption
<1> DEFINE m == 2 * (MaxInt + 1)
           y == x - MinInt
<1>1. m \in Nat \ {0} /\ y \in Int
  BY DEF MinInt
<1>2. Wrap(x) = (y % m) + MinInt
  BY DEF Wrap
<1>3. MinInt + m = MaxInt + 1 /\ MinInt \in Int
  BY DEF MinInt
<1> HIDE DEF m
<1>4. y % m \in 0 .. m - 1 /\ (y \in 0 .. m - 1 => y % m = y)
  <2> HIDE DEF y
  <2> QED
    BY <1>1, Remainder
<1> QED
  BY <1>1, <1>2, <1>3, <1>4

LEMMA ConvertFacts ==
  ASSUME NEW s, NEW x \in Int
  PROVE  /\ Convert(s, x) \in MinInt .. MaxInt
         /\ x \in MinInt .. MaxInt => Convert(s, x) = x
         /\ x > MinInt => Convert(s, x) <= x
  BY BackoffAssumption DEF Convert, MinInt

LEMMA CappedFacts ==
  ASSUME NEW s, s.max \in MinInt .. MaxInt, NEW x \in MinInt .. MaxInt
  PROVE  /\ Capped(s, x) \in MinInt .. MaxInt
         /\ Capped(s, x) <= x
         /\ s.max > 0 => Capped(s, x) <= s.max
         /\ x >= 0 => Capped(s, x) >= 0
         /\ \A y \in MinInt .. MaxInt : y <= x => Capped(s, y) <= Capped(s, x)
  BY BackoffAssumption DEF Capped, MinInt

LEMMA ProductMonotone ==
  ASSUME NEW a \in Nat, NEW b \in Nat, NEW c \in Nat, NEW d \in Nat,
         a <= b, c <= d
  PROVE  a * c <= b * d /\ a * c \in Nat /\ b * d \in Nat
<1>1. \E e \in Nat : b = a + e
  <2>1. b - a \in Nat /\ b = a + (b - a)
    OBVIOUS
  <2> QED
    BY <2>1
<1>2. \E f \in Nat : d = c + f
  <2>1. d - c \in Nat /\ d = c + (d - c)
    OBVIOUS
  <2> QED
    BY <2>1
<1>3. PICK e \in Nat, f \in Nat : b = a + e /\ d = c + f
  BY <1>1, <1>2
<1>4. b * d = a * c + a * f + e * c + e * f
  BY <1>3
<1>5. a * c \in Nat /\ a * f \in Nat /\ e * c \in Nat /\ e * f \in Nat
  OBVIOUS
<1>6. ASSUME NEW p \in Nat, NEW q \in Nat, NEW r \in Nat, NEW t \in Nat
      PROVE  p <= p + q + r + t /\ p + q + r + t \in Nat
  OBVIOUS
<1> QED
  BY <1>4, <1>5, <1>6

(* A quotient is at most what the product allows.                          *)
LEMMA DivisionBound ==
  ASSUME NEW a \in Nat, NEW b \in Nat \ {0}, NEW c \in Nat, a <= b * c
  PROVE  a \div b \in 0 .. c
<1> DEFINE q == a \div b
<1>1. q \in Nat /\ b * q <= a
  OBVIOUS
<1> HIDE DEF q
<1>2. SUFFICES ASSUME q > c PROVE FALSE
  BY <1>1 DEF q
<1>3. c + 1 <= q /\ c + 1 \in Nat /\ b <= b
  BY <1>1, <1>2
<1>4. b * (c + 1) <= b * q
  BY <1>1, <1>3, ProductMonotone
<1>5. b * (c + 1) = b * c + b /\ b * c \in Nat /\ b * q \in Nat
  BY <1>1
<1>6. ASSUME NEW x \in Nat, NEW y \in Nat, x + b <= y, y <= a, a <= x PROVE FALSE
  BY <1>6
<1> QED
  BY <1>1, <1>4, <1>5, <1>6

(* A quotient is at least what the product allows.                         *)
LEMMA DivisionAtLeast ==
  ASSUME NEW a \in Nat, NEW b \in Nat \ {0}, NEW c \in Nat, c * b <= a
  PROVE  c <= a \div b
<1> DEFINE q == a \div b
<1>1. q \in Nat /\ a < b * (q + 1)
  OBVIOUS
<1> HIDE DEF q
<1>2. SUFFICES ASSUME q + 1 <= c PROVE FALSE
  BY <1>1 DEF q
<1>3. (q + 1) * b <= c * b /\ (q + 1) * b \in Nat /\ c * b \in Nat
  BY <1>1, <1>2, ProductMonotone
<1>4. (q + 1) * b = b * (q + 1)
  BY <1>1
<1> QED
  BY <1>1, <1>3, <1>4

(* Division towards zero keeps the sign.                                   *)
LEMMA QuotFacts ==
  ASSUME NEW a \in Int, NEW b \in Nat \ {0}
  PROVE  /\ Quot(a, b) \in Int
         /\ a >= 0 => Quot(a, b) >= 0 /\ Quot(a, b) = a \div b
         /\ a <= 0 => Quot(a, b) <= 0
<1>1. CASE a >= 0
  <2>1. a \in Nat /\ a \div b \in Nat
    BY <1>1
  <2>2. a = 0 => a \div b = 0
    OBVIOUS
  <2> QED
    BY <1>1, <2>1, <2>2 DEF Quot
<1>2. CASE a < 0
  <2>1. -a \in Nat /\ (-a) \div b \in Nat
    BY <1>2
  <2> HIDE DEF Quot
  <2>2. Quot(a, b) = -((-a) \div b)
    BY <1>2 DEF Quot
  <2> QED
    BY <1>2, <2>1, <2>2
<1> QED
  BY <1>1, <1>2

(* A random share of a number lies between 0 and the number.               *)
LEMMA DrawFacts ==
  ASSUME NEW x \in Int, NEW d \in Draw(x)
  PROVE  /\ d \in Int
         /\ x >= 0 => d \in 0 .. x
         /\ x <= 0 => d \in x .. 0
<1> USE BackoffAssumption
<1>1. PICK k \in 0 .. RandDen - 1 : d = Quot(x * k, RandDen)
  BY DEF Draw
<1>2. k \in Nat /\ k <= RandDen /\ x * k \in Int
  OBVIOUS
<1>3. PICK a \in Int : a = x * k
  BY <1>2
<1>4. d = Quot(a, RandDen) /\ RandDen \in Nat \ {0}
  BY <1>1, <1>3
<1>5. /\ d \in Int
      /\ a >= 0 => d >= 0 /\ d = a \div RandDen
      /\ a <= 0 => d <= 0
  BY <1>4, QuotFacts
<1>6. ASSUME x >= 0 PROVE d \in 0 .. x
  <2>1. x \in Nat /\ x <= x
    BY <1>6
  <2>2. a <= x * RandDen /\ a \in Nat
    BY <1>2, <1>3, <2>1, ProductMonotone
  <2>3. x * RandDen = RandDen * x
    BY <2>1
  <2>4. a \div RandDen \in 0 .. x
    BY <2>1, <2>2, <2>3, DivisionBound
  <2> QED
    BY <1>5, <2>2, <2>4
<1>7. ASSUME x < 0 PROVE d \in x .. 0
  <2> DEFINE y == -x
  <2>1. y \in Nat /\ y <= y
    BY <1>7
  <2>2. y * k <= y * RandDen /\ y * k \in Nat
    BY <1>2, <2>1, ProductMonotone
  <2>3. y * RandDen = RandDen * y /\ -a = y * k
    BY <1>2, <1>3, <2>1
  <2>4. (-a) \div RandDen \in 0 .. y /\ a <= 0
    <3>1. -a \in Nat /\ -a <= RandDen * y
      BY <2>2, <2>3
    <3> QED
      BY <1>3, <2>1, <3>1, DivisionBound
  <2>5. CASE a = 0
    BY <1>5, <1>7, <2>5
  <2>6. CASE a < 0
    <3>1. d = -((-a) \div RandDen)
      BY <1>4, <2>6 DEF Quot
    <3> QED
      BY <1>7, <2>1, <2>4, <3>1
  <2> QED
    BY <2>4, <2>5, <2>6
<1>8. x = 0 => x .. 0 = 0 .. x
  OBVIOUS
<1> QED
  BY <1>5, <1>6, <1>7, <1>8

-----------------------------------------------------------------------------
(* Powers, and the series of the strategies.                               *)

LEMMA PowerUnfolds ==
  ASSUME NEW x \in Int
  PROVE  /\ \A n \in Nat : Power(x, n) \in Int
         /\ Power(x, 0) = 1
         /\ \A n \in Nat : Power(x, n + 1) = x * Power(x, n)
<1> DEFINE G == [n \in Nat |-> [y \in Int |-> x * y]]
           Eq(f) == f = [i \in Nat |-> IF i = 0 THEN 1 ELSE x * f[i - 1]]
           power == CHOOSE f : Eq(f)
<1>1. G \in [Nat -> [Int -> Int]]
  OBVIOUS
<1>2. PICK h \in [Nat -> Int] : h[0] = 1 /\ \A n \in Nat : h[n + 1] = G[n][h[n]]
  <2>1. 1 \in Int
    OBVIOUS
  <2> HIDE DEF G
  <2>2. HasRun(Int, 1, G)
    BY <1>1, <2>1, Iteration
  <2> QED
    BY <2>2 DEF HasRun
<1>3. ASSUME NEW i \in Nat PROVE h[i] = IF i = 0 THEN 1 ELSE x * h[i - 1]
  <2>1. CASE i = 0
    BY <1>2, <2>1
  <2>2. CASE i # 0
    <3>1. i - 1 \in Nat /\ (i - 1) + 1 = i
      BY <2>2
    <3>2. h[(i - 1) + 1] = G[i - 1][h[i - 1]] /\ h[i - 1] \in Int
      BY <1>2, <3>1
    <3> QED
      BY <2>2, <3>1, <3>2
  <2> QED
    BY <2>1, <2>2
<1>4. Eq(h)
  BY <1>3
<1>5. Eq(power)
  BY <1>4
<1>6. \A n \in Nat : Power(x, n) = power[n]
  BY DEF Power
<1> HIDE DEF power
<1>7. power[0] = 1 /\ \A n \in Nat : power[n + 1] = x * power[n]
  BY <1>5
<1> DEFINE T == {n \in Nat : power[n] \in Int}
<1>8. 0 \in T /\ \A n \in Nat : n \in T => n + 1 \in T
  BY <1>7
<1>9. \A n \in Nat : n \in T
  <2> HIDE DEF T
  <2> QED
    BY <1>8, Induction
<1> QED
  BY <1>6, <1>7, <1>9

LEMMA PowerType ==
  \A x \in Int, n \in Nat : Power(x, n) \in Int
  BY PowerUnfolds

LEMMA PowerPositive ==
  ASSUME NEW x \in Nat \ {0}
  PROVE  \A n \in Nat : Power(x, n) \in Nat \ {0}
<1> DEFINE T == {n \in Nat : Power(x, n) \in Nat \ {0}}
<1>1. 0 \in T
  BY PowerUnfolds
<1>2. ASSUME NEW n \in Nat, n \in T PROVE n + 1 \in T
  <2>1. Power(x, n) \in Nat \ {0} /\ Power(x, n + 1) = x * Power(x, n)
    BY <1>2, PowerUnfolds
  <2>2. ASSUME NEW p \in Nat \ {0} PROVE x * p \in Nat \ {0}
    OBVIOUS
  <2> QED
    BY <2>1, <2>2
<1>3. \A n \in Nat : n \in T
  <2> HIDE DEF T
  <2> QED
    BY <1>1, <1>2, Induction
<1> QED
  BY <1>3

(* One attempt later the power is at least as large.                       *)
LEMMA PowerGrows ==
  ASSUME NEW x \in Nat \ {0}, NEW n \in Nat
  PROVE  Power(x, n) <= Power(x, n + 1)
<1>1. Power(x, n) \in Nat \ {0} /\ Power(x, n + 1) = x * Power(x, n)
  BY PowerPositive, PowerUnfolds
<1>2. ASSUME NEW p \in Nat PROVE p <= x * p
  OBVIOUS
<1> QED
  BY <1>1, <1>2

(* A larger base has a power at least as large.                            *)
LEMMA PowerMonotone ==
  ASSUME NEW x \in Nat \ {0}, NEW y \in Nat \ {0}, x <= y
  PROVE  \A n \in Nat : Power(x, n) <= Power(y, n)
<1> DEFINE T == {n \in Nat : Power(x, n) <= Power(y, n)}
<1>1. 0 \in T
  BY PowerUnfolds
<1>2. ASSUME NEW n \in Nat, n \in T PROVE n + 1 \in T
  <2>1. /\ Power(x, n) \in Nat /\ Power(x, n + 1) = x * Power(x, n)
        /\ Power(y, n) \in Nat /\ Power(y, n + 1) = y * Power(y, n)
        /\ Power(x, n) <= Power(y, n)
    BY <1>2, PowerPositive, PowerUnfolds
  <2>2. x * Power(x, n) <= y * Power(y, n)
    BY <2>1, ProductMonotone
  <2> QED
    BY <2>1, <2>2
<1>3. \A n \in Nat : n \in T
  <2> HIDE DEF T
  <2> QED
    BY <1>1, <1>2, Induction
<1> QED
  BY <1>3

(* A larger base has a larger power, if there is a factor at all.          *)
LEMMA PowerStrict ==
  ASSUME NEW x \in Nat \ {0}, NEW q \in Nat \ {0}
  PROVE  Power(x, q) < Power(x + 1, q)
<1>1. PICK m \in Nat : m + 1 = q /\ x + 1 \in Nat \ {0} /\ x <= x + 1
  <2>1. q - 1 \in Nat /\ (q - 1) + 1 = q
    OBVIOUS
  <2> QED
    BY <2>1
<1>2. PICK a \in Nat \ {0}, b \in Nat \ {0} : a = Power(x, m) /\ b = Power(x + 1, m)
  BY <1>1, PowerPositive
<1>3. Power(x, q) = x * a /\ Power(x + 1, q) = (x + 1) * b
  <2>1. \A z \in Int : Power(z, m + 1) = z * Power(z, m)
    BY PowerUnfolds
  <2>2. x \in Int /\ x + 1 \in Int
    OBVIOUS
  <2> QED
    BY <1>1, <1>2, <2>1, <2>2
<1>4. a <= b
  BY <1>1, <1>2, PowerMonotone
<1>5. (x + 1) * a <= (x + 1) * b /\ (x + 1) * b \in Nat /\ (x + 1) * a \in Nat
  BY <1>1, <1>4, ProductMonotone
<1>6. (x + 1) * a = x * a + a /\ x * a \in Nat
  OBVIOUS
<1> QED
  BY <1>3, <1>5, <1>6

LEMMA PowerOfZero ==
  ASSUME NEW q \in Nat \ {0}
  PROVE  Power(0, q) = 0
<1>1. PICK m \in Nat : m + 1 = q
  <2>1. q - 1 \in Nat /\ (q - 1) + 1 = q
    OBVIOUS
  <2> QED
    BY <2>1
<1>2. PICK zero \in Int : zero = 0
  OBVIOUS
<1>3. Power(zero, q) = zero * Power(zero, m) /\ Power(zero, m) \in Int
  BY <1>1, PowerUnfolds
<1> QED
  BY <1>2, <1>3

(* A smaller power has a smaller base.                                     *)
LEMMA PowerOrder ==
  ASSUME NEW a \in Nat, NEW b \in Nat, NEW q \in Nat \ {0},
         Power(a, q) < Power(b, q)
  PROVE  a < b
<1>1. SUFFICES ASSUME b <= a PROVE FALSE
  OBVIOUS
<1>2. Power(a, q) \in Int /\ Power(b, q) \in Int
  BY PowerUnfolds
<1>3. CASE b = 0
  <2>1. Power(b, q) = 0
    BY <1>3, PowerOfZero
  <2>2. Power(a, q) >= 0
    <3>1. CASE a = 0
      <4>1. Power(a, q) = 0
        BY <3>1, PowerOfZero
      <4> QED
        BY <4>1
    <3>2. CASE a # 0
      <4>1. Power(a, q) \in Nat \ {0}
        BY <3>2, PowerPositive
      <4> QED
        BY <4>1
    <3> QED
      BY <3>1, <3>2
  <2> QED
    BY <1>2, <2>1, <2>2
<1>4. CASE b # 0
  <2>1. a \in Nat \ {0} /\ b \in Nat \ {0}
    BY <1>1, <1>4
  <2>2. Power(b, q) <= Power(a, q)
    BY <1>1, <2>1, PowerMonotone
  <2> QED
    BY <1>2, <2>2
<1> QED
  BY <1>3, <1>4

(* The root that Root chooses exists.                                      *)
LEMMA RootFacts ==
  ASSUME NEW y \in Nat, NEW q \in Nat \ {0}, NEW top \in Nat \ {0},
         y <= Power(top, q)
  PROVE  /\ Root(y, q, top) \in 0 .. top
         /\ Power(Root(y, q, top), q) <= y
         /\ y < Power(Root(y, q, top) + 1, q)
<1> DEFINE Above == {d \in Nat : y < Power(d + 1, q)}
           IsRoot(d) == Power(d, q) <= y /\ y < Power(d + 1, q)
<1>1. \A d \in Nat : Power(d, q) \in Int
  BY PowerUnfolds
<1>2. top \in Above
  <2>1. Power(top, q) < Power(top + 1, q)
    BY PowerStrict
  <2>2. Power(top, q) \in Int /\ Power(top + 1, q) \in Int
    BY <1>1
  <2>3. y < Power(top + 1, q)
    BY <2>1, <2>2
  <2> QED
    BY <2>3
<1>3. PICK m \in Above : \A j \in Above : m <= j
  <2>1. Above \in SUBSET Nat /\ Above # {}
    BY <1>2
  <2> HIDE DEF Above
  <2> QED
    BY <2>1, SmallestElement
<1>4. m \in Nat /\ y < Power(m + 1, q) /\ m <= top
  BY <1>2, <1>3
<1>5. Power(m, q) <= y
  <2>1. CASE m = 0
    <3>1. Power(m, q) = 0
      BY <2>1, PowerOfZero
    <3> QED
      BY <3>1
  <2>2. CASE m # 0
    <3>1. m - 1 \in Nat /\ (m - 1) + 1 = m /\ ~(m <= m - 1)
      BY <1>4, <2>2
    <3>2. m - 1 \notin Above
      BY <1>3, <3>1
    <3>3. ~(y < Power(m, q))
      BY <3>1, <3>2
    <3> QED
      BY <1>1, <1>4, <3>3
  <2> QED
    BY <2>1, <2>2
<1>6. m \in 0 .. top /\ IsRoot(m)
  BY <1>4, <1>5
<1> HIDE DEF IsRoot
<1>7. Root(y, q, top) = CHOOSE d \in 0 .. top : IsRoot(d)
  BY DEF Root, IsRoot
<1>8. Root(y, q, top) \in 0 .. top /\ IsRoot(Root(y, q, top))
  BY <1>6, <1>7
<1> QED
  BY <1>8 DEF IsRoot

-----------------------------------------------------------------------------
(* A delay and the power of a fraction.                                    *)

LEMMA ScaledFacts ==
  ASSUME NEW b \in Int, NEW x \in Int \X (Nat \ {0}), NEW n \in Nat
  PROVE  /\ Scaled(b, x, n) \in Int
         /\ Scaled(b, x, 0) = b
<1>1. x[1] \in Int /\ x[2] \in Nat \ {0}
  OBVIOUS
<1>2. PICK p \in Int, q \in Nat \ {0} : p = Power(x[1], n) /\ q = Power(x[2], n)
  BY <1>1, PowerUnfolds, PowerPositive
<1>3. b * p \in Int
  OBVIOUS
<1>4. Scaled(b, x, n) = Quot(b * p, q)
  BY <1>2 DEF Scaled
<1>5. Scaled(b, x, n) \in Int
  BY <1>3, <1>4, QuotFacts
<1>6. Power(x[1], 0) = 1 /\ Power(x[2], 0) = 1
  BY <1>1, PowerUnfolds
<1>7. Scaled(b, x, 0) = Quot(b * 1, 1)
  BY <1>6 DEF Scaled
<1>8. Quot(b * 1, 1) = b
  BY DEF Quot
<1> QED
  BY <1>5, <1>7, <1>8

(* With a factor of at least 1 it does not become shorter, rounded or not. *)
LEMMA ScaledGrows ==
  ASSUME NEW b \in Nat, NEW x \in Int \X (Nat \ {0}), x[1] >= x[2], NEW n \in Nat
  PROVE  /\ Scaled(b, x, n) \in Nat /\ Scaled(b, x, n + 1) \in Nat
         /\ Scaled(b, x, n) <= Scaled(b, x, n + 1)
<1>1. PICK u \in Nat \ {0}, v \in Nat \ {0} : u = x[1] /\ v = x[2] /\ v <= u
  <2>1. x[1] \in Nat \ {0} /\ x[2] \in Nat \ {0} /\ x[2] <= x[1]
    OBVIOUS
  <2> QED
    BY <2>1
<1>2. PICK p \in Nat \ {0}, q \in Nat \ {0} : p = Power(u, n) /\ q = Power(v, n)
  BY PowerPositive
<1>3. Power(u, n + 1) = u * p /\ Power(v, n + 1) = v * q
  BY <1>2, PowerUnfolds
<1>4. PICK a \in Nat, c \in Nat, d \in Nat \ {0} :
        a = b * p /\ c = b * (u * p) /\ d = v * q
  <2>1. u * p \in Nat
    OBVIOUS
  <2>2. b * p \in Nat /\ b * (u * p) \in Nat /\ v * q \in Nat \ {0}
    BY <2>1
  <2> QED
    BY <2>2
<1>5. Scaled(b, x, n) = Quot(a, q) /\ Scaled(b, x, n + 1) = Quot(c, d)
  BY <1>1, <1>2, <1>3, <1>4 DEF Scaled
<1>6. PICK k \in Nat : k = a \div q /\ q * k <= a
  <2>1. a \div q \in Nat /\ q * (a \div q) <= a
    OBVIOUS
  <2> QED
    BY <2>1
<1>7. k * d <= c
  <2>1. q * k \in Nat
    OBVIOUS
  <2>2. (q * k) * v <= a * u /\ (q * k) * v \in Nat /\ a * u \in Nat
    BY <1>1, <1>6, <2>1, ProductMonotone
  <2>3. (q * k) * v = k * d
    BY <1>4
  <2>4. a * u = c
    BY <1>4
  <2> QED
    BY <2>2, <2>3, <2>4
<1>8. k <= c \div d
  BY <1>7, DivisionAtLeast
<1>9. Quot(a, q) = k /\ Quot(c, d) = c \div d /\ c \div d \in Nat
  <2>1. a >= 0 /\ c >= 0 /\ c \div d \in Nat
    OBVIOUS
  <2> QED
    BY <1>6, <2>1 DEF Quot
<1> QED
  BY <1>5, <1>8, <1>9

(* The numbers of Fibonacci under any addition.                            *)
IsFib(f, W) ==
  f = [n \in Nat |-> IF n <= 2 THEN 1 ELSE W[f[n - 1] + f[n - 2]]]

LEMMA FibExists ==
  ASSUME NEW W \in [Int -> Int]
  PROVE  \E f : IsFib(f, W)
<1> DEFINE S == Int \X Int
           G == [n \in Nat |-> [y \in S |->
                   <<y[2], IF n = 0 THEN 1 ELSE W[y[1] + y[2]]>>]]
           s0 == <<1, 1>>
<1>1. s0 \in S /\ G \in [Nat -> [S -> S]]
  OBVIOUS
<1>2. HasRun(S, s0, G)
  <2> HIDE DEF S, G, s0
  <2> QED
    BY <1>1, Iteration
<1>3. PICK h \in [Nat -> S] : h[0] = s0 /\ \A n \in Nat : h[n + 1] = G[n][h[n]]
  BY <1>2 DEF HasRun
<1>4. ASSUME NEW n \in Nat
      PROVE  /\ h[n + 1][1] = h[n][2]
             /\ h[n + 1][2] = IF n = 0 THEN 1 ELSE W[h[n][1] + h[n][2]]
  <2>1. h[n] \in S /\ h[n + 1] = G[n][h[n]]
    BY <1>3
  <2> QED
    BY <2>1
<1> DEFINE f == [n \in Nat |-> h[n][1]]
<1>5. h[0][1] = 1 /\ h[0][2] = 1
  BY <1>3
<1>6. h[1][1] = 1 /\ h[1][2] = 1 /\ h[2][1] = 1
  <2>1. h[0 + 1][1] = 1 /\ h[0 + 1][2] = 1 /\ h[1 + 1][1] = h[1][2]
    BY <1>4, <1>5
  <2> QED
    BY <2>1
<1>7. ASSUME NEW n \in Nat, n > 2
      PROVE  h[n][1] = W[h[n - 1][1] + h[n - 2][1]]
  <2>1. n - 1 \in Nat /\ n - 2 \in Nat /\ n - 2 # 0 /\ (n - 1) + 1 = n
        /\ (n - 2) + 1 = n - 1
    BY <1>7
  <2>2. h[(n - 1) + 1][1] = h[n - 1][2]
    BY <1>4, <2>1
  <2>3. /\ h[(n - 2) + 1][1] = h[n - 2][2]
        /\ h[(n - 2) + 1][2] = W[h[n - 2][1] + h[n - 2][2]]
    BY <1>4, <2>1
  <2>4. h[n - 1] \in Int \X Int /\ h[n - 2] \in Int \X Int
    BY <1>3, <2>1
  <2>5. h[n - 2][1] + h[n - 2][2] = h[n - 1][1] + h[n - 2][1]
    BY <2>1, <2>3, <2>4
  <2> QED
    BY <2>1, <2>2, <2>3, <2>5
<1>8. ASSUME NEW n \in Nat
      PROVE  f[n] = IF n <= 2 THEN 1 ELSE W[f[n - 1] + f[n - 2]]
  <2>1. CASE n <= 2
    <3>1. n = 0 \/ n = 1 \/ n = 2
      BY <2>1
    <3> QED
      BY <2>1, <3>1, <1>5, <1>6
  <2>2. CASE n > 2
    BY <2>2, <1>7
  <2> QED
    BY <2>1, <2>2
<1>9. IsFib(f, W)
  BY <1>8 DEF IsFib
<1> QED
  BY <1>9

LEMMA FibTyped ==
  ASSUME NEW f, \A n \in 0 .. 2 : f[n] = 1,
         \A n \in Nat : n > 2 /\ f[n - 1] \in Int /\ f[n - 2] \in Int => f[n] \in Int
  PROVE  \A n \in Nat : f[n] \in Int
<1> DEFINE T == {n \in Nat : f[n] \in Int /\ f[n + 1] \in Int}
<1>1. 0 \in T
  OBVIOUS
<1>2. ASSUME NEW n \in Nat, n \in T PROVE n + 1 \in T
  <2>1. f[n] \in Int /\ f[n + 1] \in Int
    BY <1>2
  <2>2. (n + 2) - 1 = n + 1 /\ (n + 2) - 2 = n /\ (n + 1) + 1 = n + 2
    OBVIOUS
  <2>3. CASE n + 2 <= 2
    BY <2>1, <2>2, <2>3
  <2>4. CASE n + 2 > 2
    BY <2>1, <2>2, <2>4
  <2> QED
    BY <2>3, <2>4
<1>3. \A n \in Nat : n \in T
  <2> HIDE DEF T
  <2> QED
    BY <1>1, <1>2, Induction
<1> QED
  BY <1>3

LEMMA FibonacciUnfolds ==
  /\ \A n \in Nat : fibonacci[n] \in Int
  /\ \A n \in 0 .. 2 : fibonacci[n] = 1
  /\ \A n \in Nat : n > 2 =>
       fibonacci[n] = Wrap(fibonacci[n - 1] + fibonacci[n - 2])
<1> DEFINE W == [x \in Int |-> Wrap(x)]
<1>1. W \in [Int -> Int]
  BY WrapFacts, BackoffAssumption DEF MinInt
<1>2. PICK f : IsFib(f, W)
  <2> HIDE DEF W
  <2> QED
    BY <1>1, FibExists
<1>3. \A n \in Nat : f[n] = IF n <= 2 THEN 1 ELSE W[f[n - 1] + f[n - 2]]
  <2> HIDE DEF W
  <2> QED
    BY <1>2 DEF IsFib
<1>4. \A n \in Nat : f[n] \in Int
  <2> HIDE DEF W
  <2> QED
    BY <1>1, <1>3, FibTyped
<1>5. f = [n \in Nat |-> IF n <= 2 THEN 1 ELSE Wrap(f[n - 1] + f[n - 2])]
  <2>1. ASSUME NEW n \in Nat
        PROVE  f[n] = IF n <= 2 THEN 1 ELSE Wrap(f[n - 1] + f[n - 2])
    <3>1. CASE n <= 2
      BY <1>3, <3>1
    <3>2. CASE n > 2
      <4>1. n - 1 \in Nat /\ n - 2 \in Nat
        BY <3>2
      <4>2. f[n - 1] \in Int /\ f[n - 2] \in Int
        BY <1>4, <4>1
      <4>3. f[n - 1] + f[n - 2] \in Int
        BY <4>2
      <4>4. f[n] = W[f[n - 1] + f[n - 2]]
        <5> HIDE DEF W
        <5> QED
          BY <1>3, <3>2
      <4> QED
        BY <3>2, <4>3, <4>4
    <3> QED
      BY <3>1, <3>2
  <2>2. f = [n \in Nat |-> f[n]]
    BY <1>2 DEF IsFib
  <2> QED
    BY <2>1, <2>2
<1>6. fibonacci = [n \in Nat |-> IF n <= 2 THEN 1
                                 ELSE Wrap(fibonacci[n - 1] + fibonacci[n - 2])]
  BY <1>5 DEF fibonacci
<1>7. \A n \in Nat : fibonacci[n] = IF n <= 2 THEN 1
                                    ELSE Wrap(fibonacci[n - 1] + fibonacci[n - 2])
  BY <1>6
<1>8. \A x \in Int : Wrap(x) \in Int
  BY WrapFacts, BackoffAssumption DEF MinInt
<1>9. \A n \in Nat : fibonacci[n] \in Int
  BY <1>7, <1>8, FibTyped
<1> QED
  BY <1>7, <1>9

LEMMA IdealFibUnfolds ==
  /\ \A n \in Nat : IdealFib[n] \in Int
  /\ \A n \in 0 .. 2 : IdealFib[n] = 1
  /\ \A n \in Nat : n > 2 => IdealFib[n] = IdealFib[n - 1] + IdealFib[n - 2]
<1> DEFINE W == [x \in Int |-> x]
<1>1. W \in [Int -> Int]
  OBVIOUS
<1>2. PICK f : IsFib(f, W)
  <2> HIDE DEF W
  <2> QED
    BY <1>1, FibExists
<1>3. \A n \in Nat : f[n] = IF n <= 2 THEN 1 ELSE W[f[n - 1] + f[n - 2]]
  <2> HIDE DEF W
  <2> QED
    BY <1>2 DEF IsFib
<1>4. \A n \in Nat : f[n] \in Int
  <2> HIDE DEF W
  <2> QED
    BY <1>1, <1>3, FibTyped
<1>5. f = [n \in Nat |-> IF n <= 2 THEN 1 ELSE f[n - 1] + f[n - 2]]
  <2>1. ASSUME NEW n \in Nat
        PROVE  f[n] = IF n <= 2 THEN 1 ELSE f[n - 1] + f[n - 2]
    <3>1. CASE n <= 2
      BY <1>3, <3>1
    <3>2. CASE n > 2
      <4>1. n - 1 \in Nat /\ n - 2 \in Nat
        BY <3>2
      <4>2. f[n - 1] \in Int /\ f[n - 2] \in Int
        BY <1>4, <4>1
      <4>3. f[n - 1] + f[n - 2] \in Int
        BY <4>2
      <4>4. f[n] = W[f[n - 1] + f[n - 2]]
        <5> HIDE DEF W
        <5> QED
          BY <1>3, <3>2
      <4> QED
        BY <3>2, <4>3, <4>4
    <3> QED
      BY <3>1, <3>2
  <2>2. f = [n \in Nat |-> f[n]]
    BY <1>2 DEF IsFib
  <2> QED
    BY <2>1, <2>2
<1>6. IdealFib = [n \in Nat |-> IF n <= 2 THEN 1
                                ELSE IdealFib[n - 1] + IdealFib[n - 2]]
  BY <1>5 DEF IdealFib
<1>7. \A n \in Nat : IdealFib[n] = IF n <= 2 THEN 1
                                   ELSE IdealFib[n - 1] + IdealFib[n - 2]
  BY <1>6
<1>8. \A n \in Nat : IdealFib[n] \in Int
  BY <1>7, FibTyped
<1> QED
  BY <1>7, <1>8

(* The series grows, and as long as it fits, the machine computes it.      *)
LEMMA FibonacciFits ==
  ASSUME NEW n \in Nat
  PROVE  /\ IdealFib[n] >= 1 /\ IdealFib[n] <= IdealFib[n + 1]
         /\ IdealFib[n] <= MaxInt => fibonacci[n] = IdealFib[n]
<1> USE BackoffAssumption
<1> DEFINE Fine(m) == IdealFib[m] <= MaxInt => fibonacci[m] = IdealFib[m]
           T == {m \in Nat : /\ IdealFib[m] >= 1 /\ IdealFib[m] <= IdealFib[m + 1]
                             /\ Fine(m) /\ Fine(m + 1)}
<1>1. 0 \in T
  BY FibonacciUnfolds, IdealFibUnfolds
<1>2. ASSUME NEW m \in Nat, m \in T PROVE m + 1 \in T
  <2>1. (m + 2) - 1 = m + 1 /\ (m + 2) - 2 = m /\ (m + 1) + 1 = m + 2
    OBVIOUS
  <2>2. /\ IdealFib[m] >= 1 /\ IdealFib[m] <= IdealFib[m + 1]
        /\ Fine(m) /\ Fine(m + 1)
    BY <1>2
  <2>3. IdealFib[m] \in Int /\ IdealFib[m + 1] \in Int /\ IdealFib[m + 2] \in Int
    BY IdealFibUnfolds
  <2>4. CASE m + 2 <= 2
    <3>1. m = 0 /\ IdealFib[2] = 1 /\ fibonacci[2] = 1 /\ IdealFib[1] = 1
      BY <2>4, FibonacciUnfolds, IdealFibUnfolds
    <3> QED
      BY <3>1, <2>2
  <2>5. CASE m + 2 > 2
    <3>1. IdealFib[m + 2] = IdealFib[m + 1] + IdealFib[m]
      BY <2>1, <2>5, IdealFibUnfolds
    <3>2. fibonacci[m + 2] = Wrap(fibonacci[m + 1] + fibonacci[m])
      BY <2>1, <2>5, FibonacciUnfolds
    <3>3. IdealFib[m + 1] >= 1 /\ IdealFib[m + 1] <= IdealFib[m + 2]
      BY <2>2, <2>3, <3>1
    <3>4. Fine(m + 2)
      <4>1. SUFFICES ASSUME IdealFib[m + 2] <= MaxInt
                     PROVE  fibonacci[m + 2] = IdealFib[m + 2]
        OBVIOUS
      <4>2. fibonacci[m + 1] = IdealFib[m + 1] /\ fibonacci[m] = IdealFib[m]
        BY <4>1, <2>2, <2>3, <3>3
      <4>3. fibonacci[m + 1] + fibonacci[m] = IdealFib[m + 2]
        BY <4>2, <3>1
      <4>4. IdealFib[m + 2] \in MinInt .. MaxInt
        BY <4>1, <3>3, <2>3 DEF MinInt
      <4> QED
        BY <4>3, <4>4, <3>2, <2>3, WrapFacts
    <3> QED
      BY <2>1, <2>2, <3>3, <3>4
  <2> QED
    BY <2>4, <2>5
<1>3. \A m \in Nat : m \in T
  <2> HIDE DEF T
  <2> QED
    BY <1>1, <1>2, Induction
<1> QED
  BY <1>3

LEMMA DiophantineUnfolds ==
  ASSUME NEW s, s.base \in MinInt .. MaxInt, s.max \in MinInt .. MaxInt
  PROVE  /\ \A n \in Nat : DiophantineDelay(s, n + 1) \in MinInt .. MaxInt
         /\ DiophantineDelay(s, 1) = s.base
         /\ \A n \in Nat : DiophantineDelay(s, n + 2)
                             = Capped(s, Wrap(2 * DiophantineDelay(s, n + 1)))
<1> USE BackoffAssumption
<1> DEFINE S == MinInt .. MaxInt
           Step(y) == Capped(s, Wrap(2 * y))
           G == [n \in Nat |-> [y \in S |-> IF n = 0 THEN s.base ELSE Step(y)]]
           Eq(f) == f = [i \in Nat |-> IF i <= 1 THEN s.base ELSE Step(f[i - 1])]
           delay == CHOOSE f : Eq(f)
<1>1. ASSUME NEW y \in S PROVE Step(y) \in S
  <2>1. 2 * y \in Int
    BY DEF MinInt
  <2>2. Wrap(2 * y) \in MinInt .. MaxInt
    BY <2>1, WrapFacts
  <2> QED
    BY <2>2, CappedFacts
<1>2. s.base \in S
  BY DEF MinInt
<1> HIDE DEF S, Step
<1>3. G \in [Nat -> [S -> S]]
  BY <1>1, <1>2
<1>4. HasRun(S, s.base, G)
  <2> HIDE DEF G
  <2> QED
    BY <1>2, <1>3, Iteration
<1>5. PICK h \in [Nat -> S] : h[0] = s.base /\ \A n \in Nat : h[n + 1] = G[n][h[n]]
  BY <1>4 DEF HasRun
<1>6. ASSUME NEW i \in Nat PROVE h[i] = IF i <= 1 THEN s.base ELSE Step(h[i - 1])
  <2>1. CASE i = 0
    BY <1>5, <2>1
  <2>2. CASE i # 0
    <3>1. i - 1 \in Nat /\ (i - 1) + 1 = i
      BY <2>2
    <3>2. h[(i - 1) + 1] = G[i - 1][h[i - 1]] /\ h[i - 1] \in S
      BY <1>5, <3>1
    <3>3. h[i] = IF i - 1 = 0 THEN s.base ELSE Step(h[i - 1])
      BY <3>1, <3>2
    <3> QED
      BY <2>2, <3>3
  <2> QED
    BY <2>1, <2>2
<1>7. Eq(h)
  <2>1. h = [i \in Nat |-> h[i]]
    BY <1>5
  <2> QED
    BY <1>6, <2>1
<1>8. Eq(delay)
  BY <1>7
<1>9. \A n \in Nat : n >= 1 => DiophantineDelay(s, n) = delay[n]
  BY DEF DiophantineDelay, Step
<1> HIDE DEF delay
<1>10. \A i \in Nat : delay[i] = IF i <= 1 THEN s.base ELSE Step(delay[i - 1])
  BY <1>8
<1> DEFINE T == {n \in Nat : delay[n] \in S}
<1>11. 0 \in T
  BY <1>10, <1>2
<1>12. ASSUME NEW n \in Nat, n \in T PROVE n + 1 \in T
  <2>1. delay[n + 1] = IF n + 1 <= 1 THEN s.base ELSE Step(delay[(n + 1) - 1])
    BY <1>10
  <2>2. (n + 1) - 1 = n /\ delay[n] \in S
    BY <1>12
  <2>3. delay[n + 1] \in S
    BY <2>1, <2>2, <1>1, <1>2
  <2> QED
    BY <2>3
<1>13. \A n \in Nat : n \in T
  <2> HIDE DEF T
  <2> QED
    BY <1>11, <1>12, Induction
<1>14. \A n \in Nat : delay[n + 2] = Step(delay[n + 1])
  <2>1. ASSUME NEW n \in Nat PROVE delay[n + 2] = Step(delay[n + 1])
    <3>1. n + 2 \in Nat /\ ~(n + 2 <= 1) /\ (n + 2) - 1 = n + 1
      OBVIOUS
    <3> QED
      BY <3>1, <1>10
  <2> QED
    BY <2>1
<1>15. delay[1] = s.base
  BY <1>10
<1>16. \A n \in Nat : DiophantineDelay(s, n + 1) \in S
  BY <1>9, <1>13
<1>17. ASSUME NEW n \in Nat
       PROVE  DiophantineDelay(s, n + 2) = Step(DiophantineDelay(s, n + 1))
  BY <1>9, <1>14
<1> QED
  BY <1>9, <1>15, <1>16, <1>17 DEF S, Step

-----------------------------------------------------------------------------
(* What one call of Delay returns.                                         *)

StrategyOK(s) ==
  /\ s.kind \in Kinds
  /\ s.base \in MinInt .. MaxInt /\ s.max \in MinInt .. MaxInt
  /\ s.mult \in Int \X (Nat \ {0})
  /\ FlagsValid(s)

(* The power that the polynomial strategy takes the root of.               *)
Radicand(s, n) == Power(s.base, s.mult[2]) * Power(n, s.mult[1])

LEMMA PolynomialFacts ==
  ASSUME NEW s, StrategyOK(s), s.kind = "polynomial", NEW n \in Nat \ {0}
  PROVE  /\ s.base \in Nat \ {0} /\ s.max \in Nat \ {0} /\ s.base <= s.max
         /\ s.mult[1] \in Nat /\ s.mult[2] \in Nat \ {0}
         /\ Radicand(s, n) \in Nat
         /\ Power(s.base, s.mult[2]) \in Nat
         /\ Power(s.base, s.mult[2]) <= Radicand(s, n)
         /\ Radicand(s, n) <= Radicand(s, n + 1)
<1>1. PICK b \in Nat \ {0}, p \in Nat, q \in Nat \ {0} :
        s.base = b /\ s.mult[1] = p /\ s.mult[2] = q
  <2>1. s.base \in Nat \ {0} /\ s.mult[1] \in Nat /\ s.mult[2] \in Nat \ {0}
    BY BackoffAssumption DEF StrategyOK, FlagsValid, PolynomialValid, MinInt
  <2> QED
    BY <2>1
<1>2. s.max \in Nat \ {0} /\ s.base <= s.max
  BY BackoffAssumption DEF StrategyOK, FlagsValid, PolynomialValid, MinInt
<1>3. PICK d \in Nat \ {0}, e \in Nat \ {0}, f \in Nat \ {0} :
        d = Power(b, q) /\ e = Power(n, p) /\ f = Power(n + 1, p)
  <2>1. n + 1 \in Nat \ {0}
    OBVIOUS
  <2>2. Power(b, q) \in Nat \ {0} /\ Power(n, p) \in Nat \ {0}
        /\ Power(n + 1, p) \in Nat \ {0}
    BY <2>1, PowerPositive
  <2> QED
    BY <2>2
<1>4. e <= f
  <2>1. n + 1 \in Nat \ {0} /\ n <= n + 1
    OBVIOUS
  <2> QED
    BY <1>3, <2>1, PowerMonotone
<1>5. Radicand(s, n) = d * e /\ Radicand(s, n + 1) = d * f
  BY <1>1, <1>3 DEF Radicand
<1>6. d * e <= d * f /\ d * e \in Nat
  BY <1>4, ProductMonotone
<1>7. d * 1 <= d * e /\ d * 1 = d
  BY ProductMonotone
<1> QED
  BY <1>1, <1>2, <1>3, <1>5, <1>6, <1>7

(* The polynomial wait lies between the base delay and the maximum.        *)
LEMMA PolynomialWait ==
  ASSUME NEW s, StrategyOK(s), s.kind = "polynomial", NEW n \in Nat \ {0}
  PROVE  Polynomial(s, n) \in s.base .. s.max
<1> DEFINE y == s.mult[2]
           d == Radicand(s, n)
           r == Root(d, y, s.max)
<1>1. /\ s.base \in Nat \ {0} /\ s.max \in Nat \ {0} /\ s.base <= s.max
      /\ y \in Nat \ {0} /\ d \in Nat
      /\ Power(s.base, y) <= d /\ Power(s.base, y) \in Nat
  BY PolynomialFacts
<1>2. Polynomial(s, n) = IF d > Power(s.max, y) THEN s.max ELSE r
  BY DEF Polynomial, Radicand
<1>3. Power(s.max, y) \in Int
  <2>1. s.max \in Int /\ y \in Nat
    BY <1>1
  <2> HIDE DEF y
  <2> QED
    BY <2>1, PowerType
<1> HIDE DEF y, d
<1>4. ASSUME d <= Power(s.max, y) PROVE r \in s.base .. s.max
  <2>1. r \in 0 .. s.max /\ d < Power(r + 1, y)
    BY <1>1, <1>4, RootFacts
  <2>2. r + 1 \in Nat
    BY <1>1, <2>1
  <2>3. Power(r + 1, y) \in Int
    BY <1>1, <2>2, PowerType
  <2>4. Power(s.base, y) < Power(r + 1, y)
    BY <1>1, <2>1, <2>3
  <2>5. s.base < r + 1
    BY <1>1, <2>2, <2>4, PowerOrder
  <2> QED
    BY <1>1, <2>1, <2>5
<1> HIDE DEF r
<1>5. CASE d > Power(s.max, y)
  BY <1>1, <1>2, <1>5
<1>6. CASE ~(d > Power(s.max, y))
  BY <1>1, <1>2, <1>3, <1>4, <1>6
<1> QED
  BY <1>5, <1>6

LEMMA PolynomialGrows ==
  ASSUME NEW s, StrategyOK(s), s.kind = "polynomial", NEW n \in Nat \ {0}
  PROVE  Polynomial(s, n) <= Polynomial(s, n + 1)
<1> DEFINE y == s.mult[2]
           d == Radicand(s, n)
           e == Radicand(s, n + 1)
           top == Power(s.max, y)
<1>1. n + 1 \in Nat \ {0}
  OBVIOUS
<1>2. /\ s.base \in Nat \ {0} /\ s.max \in Nat \ {0}
      /\ y \in Nat \ {0} /\ d \in Nat /\ e \in Nat /\ d <= e
  BY <1>1, PolynomialFacts
<1>3. /\ Polynomial(s, n) = (IF d > top THEN s.max ELSE Root(d, y, s.max))
      /\ Polynomial(s, n + 1) = (IF e > top THEN s.max ELSE Root(e, y, s.max))
  BY <1>1 DEF Polynomial, Radicand
<1>4. top \in Int
  <2>1. s.max \in Int /\ y \in Nat
    BY <1>2
  <2> HIDE DEF y
  <2> QED
    BY <2>1, PowerType
<1>5. /\ Polynomial(s, n) \in s.base .. s.max
      /\ Polynomial(s, n + 1) \in s.base .. s.max
  BY <1>1, PolynomialWait
<1> HIDE DEF y, d, e
<1>6. CASE e > top
  <2>1. Polynomial(s, n + 1) = s.max
    BY <1>3, <1>6
  <2> QED
    BY <1>2, <1>5, <2>1
<1>7. CASE e <= top
  <2> DEFINE a == Root(d, y, s.max)
             b == Root(e, y, s.max)
  <2>1. d <= top
    BY <1>2, <1>4, <1>7
  <2>2. Polynomial(s, n) = a /\ Polynomial(s, n + 1) = b
    BY <1>2, <1>3, <1>4, <1>7, <2>1
  <2>3. a \in 0 .. s.max /\ Power(a, y) <= d
    BY <1>2, <2>1, RootFacts
  <2>4. b \in 0 .. s.max /\ e < Power(b + 1, y)
    BY <1>2, <1>7, RootFacts
  <2> HIDE DEF a, b
  <2>5. a \in Nat /\ b \in Nat /\ b + 1 \in Nat
    BY <1>2, <2>3, <2>4
  <2>6. Power(a, y) \in Int /\ Power(b + 1, y) \in Int
    BY <1>2, <2>5, PowerType
  <2>7. Power(a, y) < Power(b + 1, y)
    BY <1>2, <2>3, <2>4, <2>6
  <2>8. a < b + 1
    BY <1>2, <2>5, <2>7, PowerOrder
  <2> QED
    BY <2>2, <2>5, <2>8
<1> QED
  BY <1>2, <1>4, <1>6, <1>7

(* Decorrelated jitter waits some duration; if its base delay is not       *)
(* negative, one between the base delay and the larger of the base delay   *)
(* and the cap.                                                            *)
LEMMA DecorrelatedFacts ==
  ASSUME NEW s, StrategyOK(s), NEW prev \in MinInt .. MaxInt, NEW n \in Nat,
         NEW d \in DecorrelatedJitter(s, prev, n)
  PROVE  /\ d \in MinInt .. MaxInt
         /\ s.base >= 0 =>
              /\ d \in s.base .. MaxInt
              /\ s.max > 0 => d <= Largest(s.max, s.base)
<1> USE BackoffAssumption
<1> DEFINE start == IF n <= 0 \/ prev = 0 THEN s.base ELSE prev
           top == Capped(s, Convert(s, Scaled(start, s.mult, 1)))
           upper == IF top < s.base THEN s.base ELSE top
<1>1. s.base \in MinInt .. MaxInt /\ s.max \in MinInt .. MaxInt
      /\ s.mult \in Int \X (Nat \ {0}) /\ MinInt \in Int
  BY DEF StrategyOK, MinInt
<1>2. start \in Int /\ 1 \in Nat
  BY <1>1
<1> HIDE DEF start
<1>3. Scaled(start, s.mult, 1) \in Int
  BY <1>1, <1>2, ScaledFacts
<1>4. Convert(s, Scaled(start, s.mult, 1)) \in MinInt .. MaxInt
  BY <1>3, ConvertFacts
<1>5. top \in MinInt .. MaxInt /\ (s.max > 0 => top <= s.max)
  BY <1>1, <1>4, CappedFacts
<1>6. PICK e \in Draw(Wrap(upper - s.base)) : d = Wrap(s.base + e)
  BY DEF DecorrelatedJitter, start
<1> HIDE DEF top
<1>7. upper - s.base \in Int /\ upper \in s.base .. MaxInt
  BY <1>1, <1>5
<1>8. s.max > 0 => upper <= Largest(s.max, s.base)
  BY <1>1, <1>5 DEF Largest
<1> HIDE DEF upper
<1>9. Wrap(upper - s.base) \in Int
  BY <1>1, <1>7, WrapFacts
<1>10. e \in Int
  BY <1>6, <1>9, DrawFacts
<1>11. d \in MinInt .. MaxInt
  <2>1. s.base + e \in Int
    BY <1>1, <1>10
  <2> QED
    BY <1>6, <2>1, WrapFacts
<1>12. ASSUME s.base >= 0
       PROVE  /\ d \in s.base .. MaxInt
              /\ s.max > 0 => d <= Largest(s.max, s.base)
  <2>1. upper - s.base \in Nat /\ upper - s.base \in MinInt .. MaxInt
    BY <1>1, <1>7, <1>12 DEF MinInt
  <2>2. Wrap(upper - s.base) = upper - s.base
    BY <2>1, WrapFacts
  <2>3. e \in 0 .. upper - s.base
    <3>1. PICK w \in Int : w = upper - s.base /\ w >= 0
      BY <1>7, <2>1
    <3>2. e \in Draw(w)
      BY <1>6, <2>2, <3>1
    <3> QED
      BY <3>1, <3>2, DrawFacts
  <2>4. s.base + e \in s.base .. upper
    BY <1>1, <1>7, <1>10, <2>3
  <2>5. s.base + e \in MinInt .. MaxInt
    BY <1>1, <1>7, <1>12, <2>4
  <2>6. d = s.base + e
    BY <1>1, <1>6, <2>5, WrapFacts
  <2>7. Largest(s.max, s.base) \in Int
    BY <1>1 DEF Largest
  <2> QED
    BY <1>1, <1>7, <1>8, <2>4, <2>6, <2>7
<1> QED
  BY <1>11, <1>12

LEMMA JitterFacts ==
  ASSUME NEW s, StrategyOK(s), s.kind = "jitter", NEW n \in Nat \ {0},
         NEW d \in Jitter(s, n)
  PROVE  /\ d \in MinInt .. MaxInt
         /\ s.max > 0 /\ Fits(s, n) => d <= s.max
<1> USE BackoffAssumption
<1> DEFINE ideal == Scaled(s.base, s.mult, n - 1)
           top == IF s.max > 0 /\ Convert(s, ideal) > s.max THEN s.max ELSE ideal
<1>1. s.max \in MinInt .. MaxInt /\ s.base \in Int /\ n - 1 \in Nat
      /\ s.mult \in Int \X (Nat \ {0}) /\ MinInt \in Int
  BY DEF StrategyOK, MinInt
<1>2. ideal \in Int
  BY <1>1, ScaledFacts
<1>3. PICK e \in Draw(top) : d = Convert(s, e)
  BY DEF Jitter
<1>4. Fits(s, n) => ideal <= MaxInt
  BY DEF Fits, Ideal
<1> HIDE DEF ideal
<1>5. top \in Int
  BY <1>1, <1>2
<1>6. e \in Int /\ (top >= 0 => e \in 0 .. top) /\ (top <= 0 => e \in top .. 0)
  <2> HIDE DEF top
  <2> QED
    BY <1>3, <1>5, DrawFacts
<1>7. d \in MinInt .. MaxInt
  BY <1>3, <1>6, ConvertFacts
<1>8. ASSUME s.max > 0, Fits(s, n) PROVE d <= s.max
  <2>1. ideal > s.max => Convert(s, ideal) = ideal
    BY <1>8, <1>1, <1>2, <1>4, ConvertFacts DEF MinInt
  <2>2. top <= s.max
    BY <2>1, <1>1, <1>2, <1>8
  <2> HIDE DEF top
  <2>3. e <= s.max
    BY <2>2, <1>1, <1>5, <1>6, <1>8
  <2>4. CASE e > MinInt
    <3>1. Convert(s, e) <= e
      BY <1>6, <2>4, ConvertFacts
    <3> QED
      BY <1>1, <1>3, <1>6, <1>7, <2>3, <3>1
  <2>5. CASE ~(e > MinInt)
    <3>1. Convert(s, e) = MinInt
      BY <1>1, <1>6, <2>5 DEF Convert, MinInt
    <3> QED
      BY <1>1, <1>3, <3>1
  <2> QED
    BY <2>4, <2>5
<1> QED
  BY <1>7, <1>8

(* A wait is a duration, within the bound of its strategy.                 *)
LEMMA DelayFacts ==
  ASSUME NEW s, StrategyOK(s), NEW prev \in MinInt .. MaxInt, NEW n \in Nat \ {0},
         NEW d \in StrategyDelays(s, prev, n)
  PROVE  /\ d \in MinInt .. MaxInt
         /\ Regular(s, n) =>
              /\ d <= BoundOf(s)
              /\ s.kind \in {"polynomial", "decorrelated-jitter"} => d >= s.base
<1> USE BackoffAssumption
<1>1. s.base \in MinInt .. MaxInt /\ s.max \in MinInt .. MaxInt
      /\ s.mult \in Int \X (Nat \ {0})
  BY DEF StrategyOK
<1>2. MinInt \in Int /\ MaxInt \in Int /\ MinInt < 0
  BY DEF MinInt
<1>3. CASE s.kind = "fixed"
  <2>1. d = s.base
    BY <1>3 DEF StrategyDelays, Fixed
  <2> QED
    BY <1>1, <1>2, <1>3, <2>1 DEF BoundOf
<1>4. CASE s.kind = "exponential"
  <2> DEFINE x == Scaled(s.base, s.mult, n - 1)
  <2>1. x \in Int
    <3>1. s.base \in Int /\ n - 1 \in Nat
      BY <1>1, <1>2
    <3> QED
      BY <1>1, <3>1, ScaledFacts
  <2>2. d = Capped(s, Convert(s, x))
    BY <1>4 DEF StrategyDelays, Exponential
  <2> HIDE DEF x
  <2>3. d \in MinInt .. MaxInt /\ (s.max > 0 => d <= s.max)
    BY <1>1, <2>1, <2>2, ConvertFacts, CappedFacts
  <2> QED
    BY <1>1, <1>2, <1>4, <2>3 DEF BoundOf
<1>5. CASE s.kind = "jitter"
  <2>1. d \in Jitter(s, n)
    BY <1>5 DEF StrategyDelays
  <2>2. d \in MinInt .. MaxInt /\ (s.max > 0 /\ Fits(s, n) => d <= s.max)
    BY <1>5, <2>1, JitterFacts
  <2> QED
    BY <1>1, <1>2, <1>5, <2>2 DEF BoundOf, Regular
<1>6. CASE s.kind = "linear"
  <2>1. n * s.base \in Int
    BY <1>1, <1>2
  <2>2. d = Capped(s, Wrap(n * s.base))
    BY <1>6 DEF StrategyDelays, Linear
  <2>3. d \in MinInt .. MaxInt /\ (s.max > 0 => d <= s.max)
    BY <1>1, <2>1, <2>2, WrapFacts, CappedFacts
  <2> QED
    BY <1>1, <1>2, <1>6, <2>3 DEF BoundOf
<1>7. CASE s.kind = "decorrelated-jitter"
  <2>1. d \in DecorrelatedJitter(s, prev, n)
    BY <1>7 DEF StrategyDelays
  <2>2. /\ d \in MinInt .. MaxInt
        /\ s.base >= 0 => /\ d \in s.base .. MaxInt
                          /\ s.max > 0 => d <= Largest(s.max, s.base)
    BY <2>1, DecorrelatedFacts
  <2> QED
    BY <1>1, <1>2, <1>7, <2>2 DEF BoundOf, Regular
<1>8. CASE s.kind = "fibonacci"
  <2>1. fibonacci[n] * s.base \in Int
    BY <1>1, <1>2, FibonacciUnfolds
  <2>2. d = Capped(s, Wrap(fibonacci[n] * s.base))
    BY <1>8 DEF StrategyDelays, Fibonacci
  <2>3. d \in MinInt .. MaxInt /\ (s.max > 0 => d <= s.max)
    BY <1>1, <2>1, <2>2, WrapFacts, CappedFacts
  <2> QED
    BY <1>1, <1>2, <1>8, <2>3 DEF BoundOf
<1>9. CASE s.kind = "polynomial"
  <2>1. d = Polynomial(s, n)
    BY <1>9 DEF StrategyDelays
  <2>2. d \in s.base .. s.max /\ s.max > 0
    BY <1>1, <1>9, <2>1, PolynomialWait, PolynomialFacts
  <2> QED
    BY <1>1, <1>2, <1>9, <2>2 DEF BoundOf
<1>10. CASE s.kind = "diophantine"
  <2>1. d = DiophantineDelay(s, n) /\ s.max = Hour /\ Hour > 0
    BY <1>10, StrategiesAssumption DEF StrategyDelays, StrategyOK, FlagsValid
  <2>2. CASE n = 1
    <3>1. d = s.base
      BY <1>1, <2>1, <2>2, DiophantineUnfolds
    <3> QED
      BY <1>1, <1>2, <1>10, <2>1, <3>1 DEF BoundOf, Largest
  <2>3. CASE n # 1
    <3>1. n - 2 \in Nat /\ (n - 2) + 2 = n /\ (n - 2) + 1 = n - 1
      BY <2>3
    <3> DEFINE e == DiophantineDelay(s, (n - 2) + 1)
    <3>2. e \in MinInt .. MaxInt /\ d = Capped(s, Wrap(2 * e))
      BY <1>1, <2>1, <3>1, DiophantineUnfolds
    <3> HIDE DEF e
    <3>3. 2 * e \in Int
      BY <1>2, <3>2
    <3>4. d \in MinInt .. MaxInt /\ (s.max > 0 => d <= s.max)
      BY <1>1, <3>2, <3>3, WrapFacts, CappedFacts
    <3> QED
      BY <1>1, <1>2, <1>10, <2>1, <3>4 DEF BoundOf, Largest
  <2> QED
    BY <2>2, <2>3
<1> QED
  BY <1>3, <1>4, <1>5, <1>6, <1>7, <1>8, <1>9, <1>10 DEF StrategyOK, Kinds

(* Without randomness there is one delay, whatever was waited before.      *)
LEMMA OneDelay ==
  ASSUME NEW s, StrategyOK(s), s.kind \notin Randomised, NEW n, NEW p, NEW q,
         NEW d \in StrategyDelays(s, p, n)
  PROVE  StrategyDelays(s, q, n) = {d}
<1>1. StrategyDelays(s, p, n) = StrategyDelays(s, q, n)
  BY DEF StrategyDelays, StrategyOK, Kinds, Randomised
<1>2. \E e : StrategyDelays(s, p, n) = {e}
  BY DEF StrategyDelays, StrategyOK, Kinds, Randomised
<1> QED
  BY <1>1, <1>2

LEMMA PowerOfTwo ==
  /\ Power(2, 0) = 1
  /\ \A n \in Nat : Power(2, n) \in Nat /\ Power(2, n + 1) = 2 * Power(2, n)
<1>1. PICK two \in Nat \ {0} : two = 2
  OBVIOUS
<1>2. /\ Power(two, 0) = 1
      /\ \A n \in Nat : /\ Power(two, n) \in Nat
                        /\ Power(two, n + 1) = two * Power(two, n)
  BY PowerPositive, PowerUnfolds
<1> QED
  BY <1>1, <1>2

(* While the doubled offset fits, it is at least what it was, and at most  *)
(* the series without a cap.                                               *)
LEMMA DiophantineGrows ==
  ASSUME NEW s, StrategyOK(s), s.kind = "diophantine", s.base <= Hour,
         NEW n \in Nat, s.base * Power(2, n + 1) <= MaxInt
  PROVE  /\ DiophantineDelay(s, n + 1) \in 0 .. Hour
         /\ DiophantineDelay(s, n + 1) <= DiophantineDelay(s, n + 2)
<1> USE BackoffAssumption
<1> DEFINE D(m) == DiophantineDelay(s, m + 1)
           I(m) == s.base * Power(2, m)
           T == {m \in Nat : I(m) <= MaxInt =>
                               D(m) \in 0 .. Hour /\ D(m) <= I(m)}
<1>1. s.base \in 0 .. MaxInt /\ s.max \in 0 .. MaxInt /\ s.max = Hour
      /\ Hour \in 1 .. MaxInt
  BY StrategiesAssumption DEF StrategyOK, FlagsValid, MinInt
<1>2. \A m \in Nat : I(m) \in Nat /\ I(m + 1) = 2 * I(m)
  <2>1. ASSUME NEW m \in Nat PROVE I(m) \in Nat /\ I(m + 1) = 2 * I(m)
    <3>1. Power(2, m) \in Nat /\ Power(2, m + 1) = 2 * Power(2, m)
      BY PowerOfTwo
    <3> QED
      BY <1>1, <3>1
  <2> QED
    BY <2>1
<1>3. I(0) = s.base
  BY <1>1, PowerOfTwo
<1>4. \A m \in Nat : D(m + 1) = Capped(s, Wrap(2 * D(m))) /\ D(m) \in Int
  <2>1. ASSUME NEW m \in Nat
        PROVE  D(m + 1) = Capped(s, Wrap(2 * D(m))) /\ D(m) \in Int
    <3>1. (m + 1) + 1 = m + 2
      OBVIOUS
    <3>2. DiophantineDelay(s, m + 2) = Capped(s, Wrap(2 * DiophantineDelay(s, m + 1)))
          /\ DiophantineDelay(s, m + 1) \in MinInt .. MaxInt
      BY <1>1, DiophantineUnfolds DEF MinInt
    <3> QED
      BY <3>1, <3>2 DEF MinInt
  <2> QED
    BY <2>1
<1>5. D(0) = s.base
  BY <1>1, DiophantineUnfolds DEF MinInt
<1> HIDE DEF D, I
<1>6. ASSUME NEW m \in Nat, 0 <= D(m), D(m) <= I(m), I(m + 1) <= MaxInt
      PROVE  D(m + 1) = IF 2 * D(m) > Hour THEN Hour ELSE 2 * D(m)
  <2>1. 2 * D(m) \in MinInt .. MaxInt
    BY <1>2, <1>4, <1>6 DEF MinInt
  <2>2. Wrap(2 * D(m)) = 2 * D(m)
    BY <2>1, WrapFacts DEF MinInt
  <2> QED
    BY <2>2, <1>1, <1>4 DEF Capped
<1>7. 0 \in T
  BY <1>1, <1>3, <1>5
<1>8. ASSUME NEW m \in Nat, m \in T PROVE m + 1 \in T
  <2>1. SUFFICES ASSUME I(m + 1) <= MaxInt
                 PROVE  D(m + 1) \in 0 .. Hour /\ D(m + 1) <= I(m + 1)
    OBVIOUS
  <2>2. I(m) <= MaxInt /\ I(m) \in Nat /\ I(m + 1) = 2 * I(m)
    BY <2>1, <1>2
  <2>3. D(m) \in 0 .. Hour /\ D(m) <= I(m)
    BY <2>2, <1>8
  <2> QED
    BY <1>1, <1>6, <2>1, <2>2, <2>3
<1>9. \A m \in Nat : m \in T
  <2> HIDE DEF T
  <2> QED
    BY <1>7, <1>8, Induction
<1>10. I(n + 1) <= MaxInt /\ I(n) <= MaxInt
  <2>1. I(n + 1) <= MaxInt
    BY DEF I
  <2> QED
    BY <2>1, <1>2
<1>11. D(n) \in 0 .. Hour /\ D(n) <= I(n)
  BY <1>9, <1>10
<1>12. D(n + 1) >= D(n)
  BY <1>1, <1>6, <1>10, <1>11
<1>13. D(n + 1) = DiophantineDelay(s, n + 2) /\ D(n) = DiophantineDelay(s, n + 1)
  <2>1. (n + 1) + 1 = n + 2
    OBVIOUS
  <2> QED
    BY <2>1 DEF D
<1> QED
  BY <1>11, <1>12, <1>13, <1>4

(* While the series fits, the machine multiplies as the series does.       *)
LEMMA FibonacciWait ==
  ASSUME NEW s, StrategyOK(s), s.base >= 0, NEW n \in Nat,
         s.base * IdealFib[n] <= MaxInt
  PROVE  /\ s.base * IdealFib[n] \in 0 .. MaxInt
         /\ Wrap(fibonacci[n] * s.base) = s.base * IdealFib[n]
<1> USE BackoffAssumption
<1>1. s.base \in Nat /\ IdealFib[n] \in Nat /\ fibonacci[n] \in Int
  BY FibonacciUnfolds, IdealFibUnfolds, FibonacciFits DEF StrategyOK, MinInt
<1>2. fibonacci[n] * s.base = s.base * IdealFib[n]
  <2>1. CASE s.base = 0
    BY <1>1, <2>1
  <2>2. CASE s.base # 0
    <3>1. 1 <= s.base /\ IdealFib[n] <= IdealFib[n] /\ 1 \in Nat
          /\ 1 * IdealFib[n] = IdealFib[n]
      BY <1>1, <2>2
    <3>2. IdealFib[n] <= s.base * IdealFib[n] /\ s.base * IdealFib[n] \in Nat
      <4>1. 1 * IdealFib[n] <= s.base * IdealFib[n] /\ s.base * IdealFib[n] \in Nat
        BY <1>1, <3>1, ProductMonotone
      <4> QED
        BY <3>1, <4>1
    <3>3. fibonacci[n] = IdealFib[n]
      BY <1>1, <3>2, FibonacciFits
    <3> QED
      BY <1>1, <3>3
  <2> QED
    BY <2>1, <2>2
<1>3. s.base * IdealFib[n] \in 0 .. MaxInt
  BY <1>1
<1>4. s.base * IdealFib[n] \in MinInt .. MaxInt
  BY <1>3 DEF MinInt
<1> QED
  BY <1>2, <1>3, <1>4, WrapFacts DEF MinInt

(* The delay is monotone in the attempt while the series fits.             *)
LEMMA DelayGrows ==
  ASSUME NEW s, StrategyOK(s), s.kind \notin Randomised, NEW n \in Nat \ {0},
         Fits(s, n + 1), Growing(s),
         NEW p, NEW q, NEW d \in StrategyDelays(s, p, n),
         NEW e \in StrategyDelays(s, q, n + 1)
  PROVE  d <= e
<1> USE BackoffAssumption
<1>1. s.base \in 0 .. MaxInt /\ s.max \in MinInt .. MaxInt
      /\ s.mult \in Int \X (Nat \ {0})
  BY DEF StrategyOK, Growing, MinInt
<1>2. n + 1 \in Nat \ {0} /\ (n + 1) - 1 = n
  OBVIOUS
<1>3. ASSUME NEW x \in Nat, NEW y \in Nat, x <= y, y <= MaxInt
      PROVE  /\ x \in MinInt .. MaxInt /\ y \in MinInt .. MaxInt
             /\ Convert(s, x) = x /\ Convert(s, y) = y
             /\ Wrap(x) = x /\ Wrap(y) = y
             /\ Capped(s, x) <= Capped(s, y)
  <2>1. x \in MinInt .. MaxInt /\ y \in MinInt .. MaxInt
    BY <1>3 DEF MinInt
  <2> QED
    BY <1>1, <1>3, <2>1, ConvertFacts, WrapFacts, CappedFacts
<1>4. CASE s.kind = "fixed"
  BY <1>1, <1>4 DEF StrategyDelays, Fixed
<1>5. CASE s.kind = "exponential"
  <2> DEFINE x == Scaled(s.base, s.mult, n - 1)
             y == Scaled(s.base, s.mult, n)
  <2>1. d = Capped(s, Convert(s, x)) /\ e = Capped(s, Convert(s, y))
    BY <1>2, <1>5 DEF StrategyDelays, Exponential
  <2>2. y <= MaxInt
    BY <1>2, <1>5 DEF Fits, Ideal
  <2>3. x \in Nat /\ x <= y /\ y \in Nat
    <3>1. s.base \in Nat /\ n - 1 \in Nat /\ (n - 1) + 1 = n
          /\ s.mult[1] >= s.mult[2]
      BY <1>1, <1>5 DEF Growing
    <3>2. /\ Scaled(s.base, s.mult, n - 1) \in Nat
          /\ Scaled(s.base, s.mult, (n - 1) + 1) \in Nat
          /\ Scaled(s.base, s.mult, n - 1) <= Scaled(s.base, s.mult, (n - 1) + 1)
      BY <1>1, <3>1, ScaledGrows
    <3> QED
      BY <3>1, <3>2
  <2> HIDE DEF x, y
  <2> QED
    BY <1>3, <2>1, <2>2, <2>3
<1>6. CASE s.kind = "linear"
  <2> DEFINE x == n * s.base
             y == (n + 1) * s.base
  <2>1. d = Capped(s, Wrap(x)) /\ e = Capped(s, Wrap(y))
    BY <1>2, <1>6 DEF StrategyDelays, Linear
  <2>2. y <= MaxInt
    BY <1>6 DEF Fits, Ideal
  <2>3. x \in Nat /\ y \in Nat /\ x <= y
    <3>1. s.base \in Nat /\ n \in Nat /\ n <= n + 1 /\ s.base <= s.base
      BY <1>1
    <3> QED
      BY <1>2, <3>1, ProductMonotone
  <2> HIDE DEF x, y
  <2> QED
    BY <1>3, <2>1, <2>2, <2>3
<1>7. CASE s.kind = "fibonacci"
  <2> DEFINE x == s.base * IdealFib[n]
             y == s.base * IdealFib[n + 1]
  <2>1. y <= MaxInt
    BY <1>7 DEF Fits, Ideal
  <2>2. x \in Nat /\ y \in Nat /\ x <= y
    <3>1. /\ IdealFib[n] \in Nat /\ IdealFib[n + 1] \in Nat
          /\ IdealFib[n] <= IdealFib[n + 1]
      BY <1>2, FibonacciFits, IdealFibUnfolds
    <3>2. s.base \in Nat /\ s.base <= s.base
      BY <1>1
    <3> QED
      BY <3>1, <3>2, ProductMonotone
  <2>3. x <= MaxInt
    <3> HIDE DEF x, y
    <3> QED
      BY <2>1, <2>2
  <2>4. Wrap(fibonacci[n] * s.base) = x /\ Wrap(fibonacci[n + 1] * s.base) = y
    BY <1>1, <1>2, <2>1, <2>3, FibonacciWait
  <2>5. d = Capped(s, x) /\ e = Capped(s, y)
    BY <1>2, <1>7, <2>4 DEF StrategyDelays, Fibonacci
  <2> HIDE DEF x, y
  <2> QED
    BY <1>3, <2>1, <2>2, <2>5
<1>8. CASE s.kind = "polynomial"
  <2>1. d = Polynomial(s, n) /\ e = Polynomial(s, n + 1)
    BY <1>8 DEF StrategyDelays
  <2> QED
    BY <1>8, <2>1, PolynomialGrows
<1>9. CASE s.kind = "diophantine"
  <2>1. d = DiophantineDelay(s, n) /\ e = DiophantineDelay(s, n + 1)
    BY <1>9 DEF StrategyDelays
  <2>2. n - 1 \in Nat /\ (n - 1) + 1 = n /\ (n - 1) + 2 = n + 1
    OBVIOUS
  <2>3. s.base * Power(2, n) <= MaxInt
    BY <1>2, <1>9 DEF Fits, Ideal
  <2>4. DiophantineDelay(s, (n - 1) + 1) <= DiophantineDelay(s, (n - 1) + 2)
    <3>1. s.base * Power(2, (n - 1) + 1) <= MaxInt
      BY <2>2, <2>3
    <3> QED
      BY <1>9, <2>2, <3>1, DiophantineGrows DEF Growing
  <2> QED
    BY <2>1, <2>2, <2>4
<1> QED
  BY <1>4, <1>5, <1>6, <1>7, <1>8, <1>9 DEF StrategyOK, Kinds, Randomised

(* The first wait, if it fits, is not negative.                            *)
LEMMA FirstDelay ==
  ASSUME NEW s, StrategyOK(s), s.kind \notin Randomised, s.base >= 0, NEW p,
         NEW d \in StrategyDelays(s, p, 1)
  PROVE  d >= 0
<1> USE BackoffAssumption
<1>1. s.base \in 0 .. MaxInt /\ s.max \in MinInt .. MaxInt
      /\ s.mult \in Int \X (Nat \ {0}) /\ s.base \in MinInt .. MaxInt
  BY DEF StrategyOK, MinInt
<1>2. Convert(s, s.base) = s.base /\ Wrap(s.base) = s.base
  BY <1>1, ConvertFacts, WrapFacts
<1>3. Capped(s, s.base) >= 0
  BY <1>1, CappedFacts
<1>4. CASE s.kind = "fixed"
  BY <1>1, <1>4 DEF StrategyDelays, Fixed
<1>5. CASE s.kind = "exponential"
  <2>1. Scaled(s.base, s.mult, 0) = s.base
    <3>1. s.base \in Int /\ 0 \in Nat
      BY <1>1
    <3> QED
      BY <1>1, <3>1, ScaledFacts
  <2>2. d = Capped(s, Convert(s, Scaled(s.base, s.mult, 1 - 1)))
    BY <1>5 DEF StrategyDelays, Exponential
  <2>3. 1 - 1 = 0
    OBVIOUS
  <2> QED
    BY <1>2, <1>3, <2>1, <2>2, <2>3
<1>6. CASE s.kind = "linear"
  <2>1. 1 * s.base = s.base
    BY <1>1
  <2>2. d = Capped(s, Wrap(1 * s.base))
    BY <1>6 DEF StrategyDelays, Linear
  <2> QED
    BY <1>2, <1>3, <2>1, <2>2
<1>7. CASE s.kind = "fibonacci"
  <2>1. fibonacci[1] = 1
    BY FibonacciUnfolds
  <2>2. fibonacci[1] * s.base = s.base
    BY <1>1, <2>1
  <2>3. d = Capped(s, Wrap(fibonacci[1] * s.base))
    BY <1>7 DEF StrategyDelays, Fibonacci
  <2> QED
    BY <1>2, <1>3, <2>2, <2>3
<1>8. CASE s.kind = "polynomial"
  <2>1. d = Polynomial(s, 1)
    BY <1>8 DEF StrategyDelays
  <2>2. d \in s.base .. s.max
    BY <1>8, <2>1, PolynomialWait
  <2> QED
    BY <1>1, <2>2 DEF MinInt
<1>9. CASE s.kind = "diophantine"
  <2>1. d = DiophantineDelay(s, 1)
    BY <1>9 DEF StrategyDelays
  <2> QED
    BY <1>1, <2>1, DiophantineUnfolds
<1> QED
  BY <1>4, <1>5, <1>6, <1>7, <1>8, <1>9 DEF StrategyOK, Kinds, Randomised

-----------------------------------------------------------------------------
(* The strategies that the subcommands build.                              *)

(* The assumptions on the flags, one value at a time.                      *)
LEMMA FlagValues ==
  /\ \A b \in Bases : b \in MinInt .. MaxInt
  /\ \A m \in Maxes : m \in MinInt .. MaxInt
  /\ \A c \in Caps : c \in 0 .. MaxInt
  /\ \A x \in Mults : x \in Int \X (Nat \ {0})
  /\ \A r \in Rates : r \in 1 .. RateDen
  /\ \A w \in Windows : w \in Nat \ {0}
<1>1. /\ Bases \cup Maxes \subseteq MinInt .. MaxInt /\ Caps \subseteq 0 .. MaxInt
      /\ Mults \subseteq Int \X (Nat \ {0}) /\ Rates \subseteq 1 .. RateDen
      /\ Windows \subseteq Nat \ {0}
  BY StrategiesAssumption, Zenon
<1> QED
  BY <1>1, Zenon

LEMMA FixedValues ==
  /\ Hour \in 1 .. MaxInt
  /\ Second \in 1 .. MaxInt /\ 60 * Second \in 1 .. MaxInt
  /\ Second <= 60 * Second
  /\ RateDen \in Nat \ {0}
  /\ PlainAttempts \in Nat \ {0} /\ LearningAttempts \in Nat \ {0}
<1>1. /\ Hour \in 1 .. MaxInt /\ 60 * Second <= MaxInt /\ RateDen \in Nat \ {0}
      /\ PlainAttempts \in Nat \ {0} /\ LearningAttempts \in Nat \ {0}
  BY StrategiesAssumption
<1> QED
  BY <1>1, BackoffAssumption

LEMMA FallbackOK ==
  ASSUME NEW kinds \in SUBSET (Kinds \ {"diophantine"}), NEW s \in Fallbacks(kinds)
  PROVE  StrategyOK(s)
<1>1. PICK k \in kinds, sat \in BOOLEAN :
         s = Plain(k, Second, <<2, 1>>, IF k = "fixed" THEN 0 ELSE 60 * Second, sat)
  BY DEF Fallbacks
<1>2. /\ s.kind = k /\ s.base = Second /\ s.mult = <<2, 1>>
      /\ s.max = IF k = "fixed" THEN 0 ELSE 60 * Second
  BY <1>1 DEF Plain
<1>3. Second \in 1 .. MaxInt /\ 60 * Second \in 1 .. MaxInt /\ Second <= 60 * Second
  BY FixedValues
<1>4. k \in Kinds /\ k # "diophantine" /\ "polynomial" # "fixed"
  OBVIOUS
<1>5. <<2, 1>> \in Int \X (Nat \ {0}) /\ s.mult[1] = 2
  BY <1>2
<1>6. s.base \in MinInt .. MaxInt /\ s.max \in MinInt .. MaxInt
  BY <1>2, <1>3, BackoffAssumption DEF MinInt
<1>7. FlagsValid(s)
  BY <1>2, <1>3, <1>4, <1>5, BackoffAssumption DEF FlagsValid, PolynomialValid
<1> QED
  BY <1>2, <1>4, <1>5, <1>6, <1>7 DEF StrategyOK

LEMMA PlainOK ==
  ASSUME NEW s \in PlainStrategies
  PROVE  StrategyOK(s)
<1>1. FlagsValid(s)
  BY DEF PlainStrategies
<1>2. PICK k \in Kinds, b \in Bases, x \in Mults \cup {<<1, 1>>},
           m \in Maxes \cup {Hour}, sat \in BOOLEAN : s = Plain(k, b, x, m, sat)
  BY DEF PlainStrategies
<1>3. s.kind = k /\ s.base = b /\ s.mult = x /\ s.max = m
  BY <1>2 DEF Plain
<1>4. b \in MinInt .. MaxInt /\ m \in MinInt .. MaxInt /\ x \in Int \X (Nat \ {0})
  <2>1. /\ b \in MinInt .. MaxInt /\ (m \in Maxes => m \in MinInt .. MaxInt)
        /\ x \in Mults => x \in Int \X (Nat \ {0})
    BY FlagValues, Zenon
  <2>2. Hour \in MinInt .. MaxInt
    BY FixedValues, BackoffAssumption DEF MinInt
  <2>3. <<1, 1>> \in Int \X (Nat \ {0})
    OBVIOUS
  <2> QED
    BY <2>1, <2>2, <2>3
<1> QED
  BY <1>1, <1>3, <1>4 DEF StrategyOK

PlanOK ==
  /\ StrategyOK(plan.strategy)
  /\ plan.cmd \in {"plain", "adaptive", "http-aware"}
  /\ plan.attempts \in Nat \ {0}
  /\ plan.cap \in 0 .. MaxInt
  /\ plan.rate \in 0 .. RateDen
  /\ plan.window \in Nat
  /\ plan.cmd = "adaptive" => plan.window > 0

LEMMA PlanFacts ==
  ASSUME plan \in Plans
  PROVE  PlanOK
<1>1. ASSUME NEW s \in PlainStrategies,
             plan = Plan("plain", s, PlainAttempts, 0, 0, 0)
      PROVE  PlanOK
  <2>1. StrategyOK(s)
    BY PlainOK
  <2>2. /\ plan.strategy = s /\ plan.cmd = "plain" /\ plan.attempts = PlainAttempts
        /\ plan.cap = 0 /\ plan.rate = 0 /\ plan.window = 0
    BY <1>1 DEF Plan
  <2>3. 0 \in 0 .. MaxInt /\ 0 \in 0 .. RateDen /\ PlainAttempts \in Nat \ {0}
    BY FixedValues, BackoffAssumption
  <2> QED
    BY <2>1, <2>2, <2>3 DEF PlanOK
<1>2. ASSUME NEW s \in Fallbacks(Kinds \ {"polynomial", "diophantine"}),
             NEW cap \in Caps,
             plan = Plan("http-aware", s, LearningAttempts, cap, 0, 0)
      PROVE  PlanOK
  <2>1. StrategyOK(s)
    <3>1. Kinds \ {"polynomial", "diophantine"} \in SUBSET (Kinds \ {"diophantine"})
      OBVIOUS
    <3> QED
      BY <3>1, FallbackOK
  <2>2. /\ plan.strategy = s /\ plan.cmd = "http-aware"
        /\ plan.attempts = LearningAttempts
        /\ plan.cap = cap /\ plan.rate = 0 /\ plan.window = 0
    BY <1>2 DEF Plan
  <2>3. cap \in 0 .. MaxInt
    BY FlagValues, Zenon
  <2>4. 0 \in 0 .. RateDen /\ LearningAttempts \in Nat \ {0}
    BY FixedValues, BackoffAssumption
  <2> QED
    BY <2>1, <2>2, <2>3, <2>4 DEF PlanOK
<1>3. ASSUME NEW s \in Fallbacks(Kinds \ {"diophantine"}),
             NEW r \in Rates, NEW w \in Windows,
             plan = Plan("adaptive", s, LearningAttempts, 0, r, w)
      PROVE  PlanOK
  <2>1. StrategyOK(s)
    <3>1. Kinds \ {"diophantine"} \in SUBSET (Kinds \ {"diophantine"})
      OBVIOUS
    <3> QED
      BY <3>1, FallbackOK
  <2>2. /\ plan.strategy = s /\ plan.cmd = "adaptive"
        /\ plan.attempts = LearningAttempts
        /\ plan.cap = 0 /\ plan.rate = r /\ plan.window = w
    BY <1>3 DEF Plan
  <2>3. r \in 1 .. RateDen /\ w \in Nat \ {0}
    BY FlagValues, Zenon
  <2>4. 0 \in 0 .. MaxInt /\ LearningAttempts \in Nat \ {0} /\ RateDen \in Nat
    BY FixedValues, BackoffAssumption
  <2> QED
    BY <2>1, <2>2, <2>3, <2>4 DEF PlanOK
<1>4. CASE \E s \in PlainStrategies : plan = Plan("plain", s, PlainAttempts, 0, 0, 0)
  BY <1>1, <1>4
<1>5. CASE \E s \in Fallbacks(Kinds \ {"polynomial", "diophantine"}), cap \in Caps :
              plan = Plan("http-aware", s, LearningAttempts, cap, 0, 0)
  BY <1>2, <1>5
<1>6. CASE \E s \in Fallbacks(Kinds \ {"diophantine"}), r \in Rates, w \in Windows :
              plan = Plan("adaptive", s, LearningAttempts, 0, r, w)
  BY <1>3, <1>6
<1> QED
  BY <1>4, <1>5, <1>6 DEF Plans

(* The sum and the largest success rate of the learner.                    *)
LEMMA ScaleType ==
  ASSUME PlanOK
  PROVE  Scale \in Nat \ {0}
<1>1. RateDen \in Nat \ {0} /\ plan.window \in Nat
  BY FixedValues DEF PlanOK
<1> QED
  BY <1>1, PowerPositive DEF Scale

-----------------------------------------------------------------------------
(* The fields of the strategy objects.                                     *)

OutcomeType == [delay: MinInt .. MaxInt, success: BOOLEAN]
BucketType == [samples: Nat, rate: 0 .. Scale]

StateType ==
  [previousDelay: MinInt .. MaxInt, lastRetryAfter: 0 .. MaxInt,
   recentOutcomes: Seq(OutcomeType), totalOutcomes: Nat,
   delayBuckets: [Buckets -> BucketType]]

(* t is what a call of Delay leaves of s.                                  *)
DelayKeeps(s, t) ==
  /\ t \in StateType
  /\ t.lastRetryAfter = s.lastRetryAfter
  /\ t.recentOutcomes = s.recentOutcomes
  /\ t.totalOutcomes = s.totalOutcomes
  /\ t.delayBuckets = s.delayBuckets
  /\ plan.strategy.kind \notin Randomised => t = s

LEMMA FallbackFacts ==
  ASSUME PlanOK, NEW s \in StateType, NEW n \in Nat \ {0},
         NEW r \in FallbackDelay(s, n)
  PROVE  /\ r.delay \in StrategyDelays(plan.strategy, s.previousDelay, n)
         /\ r.delay \in MinInt .. MaxInt
         /\ Regular(plan.strategy, n) =>
              r.delay <= BoundOf(plan.strategy)
         /\ DelayKeeps(s, r.st)
<1>1. PICK d \in StrategyDelays(plan.strategy, s.previousDelay, n) :
        r = [delay |-> d,
             st |-> IF plan.strategy.kind = "decorrelated-jitter"
                    THEN [s EXCEPT !.previousDelay = d] ELSE s]
  BY DEF FallbackDelay
<1>2. /\ r.delay = d
      /\ r.st = IF plan.strategy.kind = "decorrelated-jitter"
                THEN [s EXCEPT !.previousDelay = d] ELSE s
  BY <1>1
<1>3. s.previousDelay \in MinInt .. MaxInt /\ StrategyOK(plan.strategy)
  BY DEF StateType, PlanOK
<1>4. /\ d \in MinInt .. MaxInt
      /\ Regular(plan.strategy, n) =>
           d <= BoundOf(plan.strategy)
  BY <1>3, DelayFacts
<1>5. DelayKeeps(s, r.st)
  <2>1. CASE plan.strategy.kind = "decorrelated-jitter"
    <3>1. r.st = [s EXCEPT !.previousDelay = d]
      BY <1>2, <2>1
    <3>2. r.st \in StateType
      BY <3>1, <1>4 DEF StateType
    <3>3. /\ r.st.lastRetryAfter = s.lastRetryAfter
          /\ r.st.recentOutcomes = s.recentOutcomes
          /\ r.st.totalOutcomes = s.totalOutcomes
          /\ r.st.delayBuckets = s.delayBuckets
      BY <3>1 DEF StateType
    <3> QED
      BY <2>1, <3>2, <3>3 DEF DelayKeeps, Randomised
  <2>2. CASE plan.strategy.kind # "decorrelated-jitter"
    BY <1>2, <2>2 DEF DelayKeeps
  <2> QED
    BY <2>1, <2>2
<1> QED
  BY <1>2, <1>4, <1>5

-----------------------------------------------------------------------------
(* The adaptive strategy.                                                  *)

(* A weighted mean of two numbers is at most the larger one.               *)
LEMMA WeightedMean ==
  ASSUME NEW m \in Nat \ {0}, NEW r \in 0 .. m, NEW c \in Nat,
         NEW x \in 0 .. c, NEW y \in 0 .. c
  PROVE  /\ (m - r) * x + r * y \in Nat
         /\ ((m - r) * x + r * y) \div m \in 0 .. c
<1>1. m - r \in Nat /\ r \in Nat /\ x \in Nat /\ y \in Nat /\ x <= c /\ y <= c
      /\ m - r <= m - r /\ r <= r
  OBVIOUS
<1>2. (m - r) * x <= (m - r) * c /\ (m - r) * x \in Nat /\ (m - r) * c \in Nat
  BY <1>1, ProductMonotone
<1>3. r * y <= r * c /\ r * y \in Nat /\ r * c \in Nat
  BY <1>1, ProductMonotone
<1>4. (m - r) * c + r * c = m * c
  BY <1>1
<1>5. (m - r) * x + r * y \in Nat /\ (m - r) * x + r * y <= m * c
  <2>1. ASSUME NEW i \in Nat, NEW j \in Nat, NEW k \in Nat, NEW l \in Nat,
               i <= j, k <= l
        PROVE  i + k \in Nat /\ i + k <= j + l
    BY <2>1
  <2> QED
    BY <1>2, <1>3, <1>4, <2>1
<1> QED
  BY <1>5, DivisionBound

LEMMA AddOutcomeType ==
  ASSUME PlanOK, NEW buckets \in [Buckets -> BucketType], NEW o \in OutcomeType
  PROVE  /\ AddOutcome(buckets, o) \in [Buckets -> BucketType]
         /\ \A b \in Buckets :
              AddOutcome(buckets, o)[b].samples =
                IF b \in BucketsOf(o.delay) THEN buckets[b].samples + 1
                ELSE buckets[b].samples
<1>1. RateDen \in Nat \ {0} /\ plan.rate \in 0 .. RateDen /\ Scale \in Nat
  BY FixedValues, ScaleType DEF PlanOK
<1> DEFINE New(b) == ((RateDen - plan.rate) * buckets[b].rate
                      + plan.rate * (IF o.success THEN Scale ELSE 0)) \div RateDen
<1>2. ASSUME NEW b \in Buckets PROVE New(b) \in 0 .. Scale
  <2>1. buckets[b].rate \in 0 .. Scale
    BY DEF BucketType
  <2>2. (IF o.success THEN Scale ELSE 0) \in 0 .. Scale
    BY <1>1
  <2> HIDE DEF BucketType
  <2> QED
    BY <1>1, <2>1, <2>2, WeightedMean
<1> HIDE DEF New
<1>4. ASSUME NEW b \in Buckets
      PROVE  [samples |-> buckets[b].samples + 1, rate |-> New(b)] \in BucketType
  <2>1. buckets[b].samples + 1 \in Nat
    BY DEF BucketType
  <2> QED
    BY <1>2, <2>1 DEF BucketType
<1>5. AddOutcome(buckets, o) =
        [b \in Buckets |-> IF b \notin BucketsOf(o.delay) THEN buckets[b]
                          ELSE [samples |-> buckets[b].samples + 1, rate |-> New(b)]]
  BY Zenon DEF AddOutcome, New
<1>6. \A b \in Buckets :
        (IF b \notin BucketsOf(o.delay) THEN buckets[b]
         ELSE [samples |-> buckets[b].samples + 1, rate |-> New(b)]) \in BucketType
  BY <1>4
<1>7. AddOutcome(buckets, o) \in [Buckets -> BucketType]
  BY <1>5, <1>6
<1>8. ASSUME NEW b \in Buckets
      PROVE  AddOutcome(buckets, o)[b].samples =
               IF b \in BucketsOf(o.delay) THEN buckets[b].samples + 1
               ELSE buckets[b].samples
  BY DEF AddOutcome, New
<1> QED
  BY <1>7, <1>8

(* The numbers of a loop over a sequence: the function that it computes    *)
(* exists, stays in its set and takes one element after the other.         *)
IsLoopOver(f, s0, G, n) ==
  f = [i \in 0 .. n |-> IF i = 0 THEN s0 ELSE G[i][f[i - 1]]]

LEMMA LoopOver ==
  ASSUME NEW S, NEW s0 \in S, NEW n \in Nat, NEW G \in [1 .. n -> [S -> S]]
  PROVE  /\ \E f : IsLoopOver(f, s0, G, n)
         /\ \A f : IsLoopOver(f, s0, G, n) =>
              /\ f[0] = s0
              /\ \A i \in 1 .. n : f[i] = G[i][f[i - 1]]
              /\ \A i \in 0 .. n : f[i] \in S
<1>1. \E f : IsLoopOver(f, s0, G, n)
  <2> DEFINE H == [i \in Nat |-> IF i < n THEN G[i + 1] ELSE [y \in S |-> y]]
  <2>1. H \in [Nat -> [S -> S]]
    <3>1. ASSUME NEW i \in Nat
          PROVE  (IF i < n THEN G[i + 1] ELSE [y \in S |-> y]) \in [S -> S]
      <4>1. CASE i < n
        <5>1. i + 1 \in 1 .. n
          BY <4>1
        <5> QED
          BY <4>1, <5>1
      <4>2. CASE ~(i < n)
        BY <4>2
      <4> QED
        BY <4>1, <4>2
    <3> QED
      BY <3>1
  <2>2. \A i \in Nat : i < n => H[i] = G[i + 1]
    OBVIOUS
  <2> HIDE DEF H
  <2>3. HasRun(S, s0, H)
    BY <2>1, Iteration
  <2>4. PICK h \in [Nat -> S] : h[0] = s0 /\ \A i \in Nat : h[i + 1] = H[i][h[i]]
    BY <2>3 DEF HasRun
  <2> DEFINE f == [i \in 0 .. n |-> h[i]]
  <2>5. ASSUME NEW i \in 0 .. n
        PROVE  f[i] = IF i = 0 THEN s0 ELSE G[i][f[i - 1]]
    <3>1. CASE i = 0
      BY <2>4, <3>1
    <3>2. CASE i # 0
      <4>1. i - 1 \in Nat /\ (i - 1) + 1 = i /\ i - 1 < n /\ i - 1 \in 0 .. n
        BY <3>2
      <4>2. h[(i - 1) + 1] = H[i - 1][h[i - 1]] /\ H[i - 1] = G[(i - 1) + 1]
        BY <2>2, <2>4, <4>1
      <4> QED
        BY <3>2, <4>1, <4>2
    <3> QED
      BY <3>1, <3>2
  <2>6. IsLoopOver(f, s0, G, n)
    BY <2>5 DEF IsLoopOver
  <2> QED
    BY <2>6
<1>2. ASSUME NEW f, IsLoopOver(f, s0, G, n)
      PROVE  /\ f[0] = s0
             /\ \A i \in 1 .. n : f[i] = G[i][f[i - 1]]
             /\ \A i \in 0 .. n : f[i] \in S
  <2>1. \A i \in 0 .. n : f[i] = IF i = 0 THEN s0 ELSE G[i][f[i - 1]]
    BY <1>2 DEF IsLoopOver
  <2>2. f[0] = s0 /\ \A i \in 1 .. n : f[i] = G[i][f[i - 1]]
    BY <2>1
  <2> DEFINE T == {i \in Nat : i <= n => f[i] \in S}
  <2>3. 0 \in T
    BY <2>2
  <2>4. ASSUME NEW i \in Nat, i \in T PROVE i + 1 \in T
    <3>1. SUFFICES ASSUME i + 1 <= n PROVE f[i + 1] \in S
      OBVIOUS
    <3>2. i + 1 \in 1 .. n /\ (i + 1) - 1 = i /\ f[i] \in S
      BY <2>4, <3>1
    <3>3. f[i + 1] = G[i + 1][f[i]]
      BY <2>2, <3>2
    <3> QED
      BY <3>2, <3>3
  <2>5. \A i \in Nat : i \in T
    <3> HIDE DEF T
    <3> QED
      BY <2>3, <2>4, Induction
  <2> QED
    BY <2>2, <2>5
<1> QED
  BY <1>1, <1>2

(* The loop over the window keeps the types, and counts the outcomes of    *)
(* every bucket.                                                           *)
LEMMA CountOutcomesFacts ==
  ASSUME PlanOK, NEW empty \in [Buckets -> BucketType],
         NEW outcomes \in Seq(OutcomeType)
  PROVE  \E f : /\ CountOutcomes(empty, outcomes) = f[Len(outcomes)]
                /\ f[0] = empty
                /\ \A i \in 1 .. Len(outcomes) :
                     f[i] = AddOutcome(f[i - 1], outcomes[i])
                /\ \A i \in 0 .. Len(outcomes) : f[i] \in [Buckets -> BucketType]
<1> DEFINE S == [Buckets -> BucketType]
           n == Len(outcomes)
           G == [i \in 1 .. n |-> [y \in S |-> AddOutcome(y, outcomes[i])]]
           Eq(f) == f = [i \in 0 .. n |-> IF i = 0 THEN empty
                                          ELSE AddOutcome(f[i - 1], outcomes[i])]
           after == CHOOSE f : Eq(f)
<1>1. n \in Nat /\ \A i \in 1 .. n : outcomes[i] \in OutcomeType
  OBVIOUS
<1>2. ASSUME NEW i \in 1 .. n, NEW y \in S PROVE AddOutcome(y, outcomes[i]) \in S
  BY <1>1, AddOutcomeType
<1> HIDE DEF S
<1>3. G \in [1 .. n -> [S -> S]]
  BY <1>2
<1>4. \A i \in 1 .. n, y \in S : G[i][y] = AddOutcome(y, outcomes[i])
  OBVIOUS
<1>5. empty \in S
  BY DEF S
<1> HIDE DEF n, G
<1>6. PICK f : IsLoopOver(f, empty, G, n)
  BY <1>1, <1>3, <1>5, LoopOver
<1>7. /\ f[0] = empty
      /\ \A i \in 1 .. n : f[i] = G[i][f[i - 1]]
      /\ \A i \in 0 .. n : f[i] \in S
  BY <1>1, <1>3, <1>5, <1>6, LoopOver
<1>8. ASSUME NEW i \in 0 .. n
      PROVE  f[i] = IF i = 0 THEN empty ELSE AddOutcome(f[i - 1], outcomes[i])
  <2>1. CASE i = 0
    BY <1>7, <2>1
  <2>2. CASE i # 0
    <3>1. i \in 1 .. n /\ i - 1 \in 0 .. n
      BY <1>1, <2>2
    <3>2. f[i] = G[i][f[i - 1]] /\ f[i - 1] \in S
      BY <1>7, <3>1
    <3> QED
      BY <1>4, <2>2, <3>1, <3>2
  <2> QED
    BY <2>1, <2>2
<1>9. Eq(f)
  <2>1. f = [i \in 0 .. n |-> f[i]]
    BY <1>6 DEF IsLoopOver
  <2> QED
    BY <1>8, <2>1
<1>10. Eq(after)
  BY <1>9
<1>11. CountOutcomes(empty, outcomes) = after[n]
  BY DEF CountOutcomes, n
<1> HIDE DEF after
<1>12. \A i \in 0 .. n : after[i] = IF i = 0 THEN empty
                                    ELSE AddOutcome(after[i - 1], outcomes[i])
  BY <1>10
<1>13. after[0] = empty
       /\ \A i \in 1 .. n : after[i] = AddOutcome(after[i - 1], outcomes[i])
  BY <1>1, <1>12
<1> DEFINE T == {i \in Nat : i <= n => after[i] \in S}
<1>14. 0 \in T
  BY <1>5, <1>13
<1>15. ASSUME NEW i \in Nat, i \in T PROVE i + 1 \in T
  <2>1. SUFFICES ASSUME i + 1 <= n PROVE after[i + 1] \in S
    OBVIOUS
  <2>2. i + 1 \in 1 .. n /\ (i + 1) - 1 = i /\ after[i] \in S
    BY <1>1, <1>15, <2>1
  <2>3. after[i + 1] = AddOutcome(after[i], outcomes[i + 1])
    BY <1>13, <2>2
  <2> QED
    BY <1>2, <2>2, <2>3
<1>16. \A i \in Nat : i \in T
  <2> HIDE DEF T
  <2> QED
    BY <1>14, <1>15, Induction
<1>17. \A i \in 0 .. n : after[i] \in S
  BY <1>1, <1>16
<1> QED
  BY <1>11, <1>13, <1>17 DEF S, n

(* How many of the first i members of 1 .. n are in a set.                 *)
LEMMA CountUpTo ==
  ASSUME NEW A, NEW i \in Nat
  PROVE  LET C(k) == Cardinality({j \in 1 .. k : j \in A})
         IN  /\ C(0) = 0 /\ C(i) \in Nat
             /\ C(i + 1) = IF i + 1 \in A THEN C(i) + 1 ELSE C(i)
<1> DEFINE P(k) == {j \in 1 .. k : j \in A}
<1>1. P(0) = {}
  OBVIOUS
<1>2. IsFiniteSet(P(i))
  <2>1. IsFiniteSet(1 .. i)
    BY FS_Interval
  <2>2. P(i) \in SUBSET (1 .. i)
    OBVIOUS
  <2> HIDE DEF P
  <2> QED
    BY <2>1, <2>2, FS_Subset
<1>3. P(i + 1) = IF i + 1 \in A THEN P(i) \cup {i + 1} ELSE P(i)
  OBVIOUS
<1>4. i + 1 \notin P(i)
  OBVIOUS
<1> HIDE DEF P
<1>5. Cardinality(P(i) \cup {i + 1}) = Cardinality(P(i)) + 1
  BY <1>2, <1>4, FS_AddElement
<1>6. Cardinality(P(0)) = 0 /\ Cardinality(P(i)) \in Nat
  BY <1>1, <1>2, FS_EmptySet, FS_CardinalityType
<1>7. Cardinality(P(i + 1)) = IF i + 1 \in A THEN Cardinality(P(i)) + 1
                              ELSE Cardinality(P(i))
  BY <1>3, <1>5
<1> QED
  BY <1>6, <1>7 DEF P

NoOutcomes == [b \in Buckets |-> EmptyBucket]

LEMMA NoOutcomesType ==
  ASSUME PlanOK
  PROVE  NoOutcomes \in [Buckets -> BucketType]
<1>1. EmptyBucket \in BucketType
  BY ScaleType DEF EmptyBucket, BucketType
<1> QED
  BY <1>1 DEF NoOutcomes

LEMMA BucketCounts ==
  ASSUME PlanOK, NEW outcomes \in Seq(OutcomeType)
  PROVE  /\ CountOutcomes(NoOutcomes, outcomes) \in [Buckets -> BucketType]
         /\ \A b \in Buckets :
              CountOutcomes(NoOutcomes, outcomes)[b].samples =
                Cardinality({i \in DOMAIN outcomes :
                               b \in BucketsOf(outcomes[i].delay)})
<1> DEFINE n == Len(outcomes)
<1>1. PICK f : /\ CountOutcomes(NoOutcomes, outcomes) = f[n]
               /\ f[0] = NoOutcomes
               /\ \A i \in 1 .. n : f[i] = AddOutcome(f[i - 1], outcomes[i])
               /\ \A i \in 0 .. n : f[i] \in [Buckets -> BucketType]
  BY NoOutcomesType, CountOutcomesFacts
<1>2. n \in Nat /\ DOMAIN outcomes = 1 .. n
      /\ \A i \in 1 .. n : outcomes[i] \in OutcomeType
  OBVIOUS
<1> HIDE DEF n
<1>3. ASSUME NEW b \in Buckets
      PROVE  f[n][b].samples = Cardinality({i \in 1 .. n :
                                              b \in BucketsOf(outcomes[i].delay)})
  <2> DEFINE A == {i \in Nat : b \in BucketsOf(outcomes[i].delay)}
             C(k) == Cardinality({j \in 1 .. k : j \in A})
             T == {i \in Nat : i <= n => f[i][b].samples = C(i)}
  <2>1. \A i \in Nat : C(0) = 0 /\ C(i + 1) = IF i + 1 \in A THEN C(i) + 1 ELSE C(i)
    <3> HIDE DEF A
    <3> QED
      BY CountUpTo
  <2>2. 0 \in T
    <3>1. f[0][b].samples = 0
      BY <1>1 DEF NoOutcomes, EmptyBucket
    <3>2. C(0) = 0
      BY <2>1
    <3> HIDE DEF C
    <3> QED
      BY <3>1, <3>2
  <2>3. ASSUME NEW i \in Nat, i \in T PROVE i + 1 \in T
    <3>1. SUFFICES ASSUME i + 1 <= n PROVE f[i + 1][b].samples = C(i + 1)
      OBVIOUS
    <3>2. i + 1 \in 1 .. n /\ (i + 1) - 1 = i /\ i \in 0 .. n
          /\ f[i][b].samples = C(i)
      BY <1>2, <2>3, <3>1
    <3>3. f[i + 1] = AddOutcome(f[i], outcomes[i + 1])
          /\ f[i] \in [Buckets -> BucketType] /\ outcomes[i + 1] \in OutcomeType
      BY <1>1, <1>2, <3>2
    <3>4. f[i + 1][b].samples = IF b \in BucketsOf(outcomes[i + 1].delay)
                                THEN f[i][b].samples + 1 ELSE f[i][b].samples
      BY <3>3, AddOutcomeType
    <3>5. b \in BucketsOf(outcomes[i + 1].delay) <=> i + 1 \in A
      OBVIOUS
    <3> HIDE DEF A, C
    <3> QED
      BY <2>1, <3>2, <3>4, <3>5
  <2>4. \A i \in Nat : i \in T
    <3> HIDE DEF T
    <3> QED
      BY <2>2, <2>3, Induction
  <2>5. f[n][b].samples = C(n)
    BY <1>2, <2>4
  <2>6. {j \in 1 .. n : j \in A} = {i \in 1 .. n : b \in BucketsOf(outcomes[i].delay)}
    OBVIOUS
  <2> QED
    BY <2>5, <2>6
<1> QED
  BY <1>1, <1>2, <1>3

LEMMA BucketLimits ==
  /\ Buckets = 1 .. 7
  /\ MinDelay(1) = 0 /\ MaxDelay(1) = Second
  /\ MinDelay(2) = Second /\ MaxDelay(2) = 2 * Second
  /\ MinDelay(3) = 2 * Second /\ MaxDelay(3) = 5 * Second
  /\ MinDelay(4) = 5 * Second /\ MaxDelay(4) = 10 * Second
  /\ MinDelay(5) = 10 * Second /\ MaxDelay(5) = 30 * Second
  /\ MinDelay(6) = 30 * Second /\ MaxDelay(6) = 60 * Second
  /\ MinDelay(7) = 60 * Second /\ MaxDelay(7) = 300 * Second
<1>1. Len(Bounds) = 8
  BY DEF Bounds
<1>2. /\ Bounds[1] = 0 /\ Bounds[2] = 1 /\ Bounds[3] = 2 /\ Bounds[4] = 5
      /\ Bounds[5] = 10 /\ Bounds[6] = 30 /\ Bounds[7] = 60 /\ Bounds[8] = 300
  BY DEF Bounds
<1>3. /\ 1 + 1 = 2 /\ 2 + 1 = 3 /\ 3 + 1 = 4 /\ 4 + 1 = 5 /\ 5 + 1 = 6
      /\ 6 + 1 = 7 /\ 7 + 1 = 8
  OBVIOUS
<1> QED
  BY <1>1, <1>2, <1>3, BackoffAssumption DEF Buckets, MinDelay, MaxDelay

(* Every delay that is not negative falls into one bucket.                 *)
LEMMA OneBucket ==
  ASSUME NEW d \in Nat
  PROVE  Cardinality(BucketsOf(d)) = 1
<1>1. Len(Bounds) - 1 = 7 /\ Second \in Nat \ {0}
  BY BackoffAssumption DEF Bounds
<1>2. BucketsOf(d) = {b \in 1 .. 7 : \/ d >= MinDelay(b) /\ d < MaxDelay(b)
                                     \/ b = 7 /\ d >= 300 * Second}
  BY <1>1, BucketLimits DEF BucketsOf
<1>3. ASSUME NEW b \in 1 .. 7
      PROVE  b \in BucketsOf(d) <=>
               \/ b = 1 /\ d < Second
               \/ b = 2 /\ Second <= d /\ d < 2 * Second
               \/ b = 3 /\ 2 * Second <= d /\ d < 5 * Second
               \/ b = 4 /\ 5 * Second <= d /\ d < 10 * Second
               \/ b = 5 /\ 10 * Second <= d /\ d < 30 * Second
               \/ b = 6 /\ 30 * Second <= d /\ d < 60 * Second
               \/ b = 7 /\ 60 * Second <= d
  <2>1. \/ b = 1 \/ b = 2 \/ b = 3 \/ b = 4 \/ b = 5 \/ b = 6 \/ b = 7
    OBVIOUS
  <2> QED
    BY <1>1, <1>2, <2>1, BucketLimits
<1>4. \E b \in 1 .. 7 : b \in BucketsOf(d)
  <2>1. CASE d < Second
    BY <2>1, <1>1, <1>3
  <2>2. CASE Second <= d /\ d < 2 * Second
    BY <2>2, <1>1, <1>3
  <2>3. CASE 2 * Second <= d /\ d < 5 * Second
    BY <2>3, <1>1, <1>3
  <2>4. CASE 5 * Second <= d /\ d < 10 * Second
    BY <2>4, <1>1, <1>3
  <2>5. CASE 10 * Second <= d /\ d < 30 * Second
    BY <2>5, <1>1, <1>3
  <2>6. CASE 30 * Second <= d /\ d < 60 * Second
    BY <2>6, <1>1, <1>3
  <2>7. CASE 60 * Second <= d
    BY <2>7, <1>1, <1>3
  <2> QED
    BY <1>1, <2>1, <2>2, <2>3, <2>4, <2>5, <2>6, <2>7
<1>5. \A a, b \in BucketsOf(d) : a = b
  <2>1. SUFFICES ASSUME NEW a \in BucketsOf(d), NEW b \in BucketsOf(d) PROVE a = b
    OBVIOUS
  <2>2. a \in 1 .. 7 /\ b \in 1 .. 7
    BY <1>2
  <2> QED
    BY <1>1, <1>3, <2>1, <2>2
<1>6. PICK b : BucketsOf(d) = {b}
  BY <1>4, <1>5
<1> QED
  BY <1>6, FS_Singleton

(* The length of the window, and what the buckets hold.                    *)
WindowFull(s) ==
  Len(s.recentOutcomes) = IF s.totalOutcomes < plan.window
                          THEN s.totalOutcomes ELSE plan.window

Mirrors(s) ==
  /\ WindowFull(s)
  /\ \A b \in Buckets :
       s.delayBuckets[b].samples =
         Cardinality({i \in DOMAIN s.recentOutcomes :
                        b \in BucketsOf(s.recentOutcomes[i].delay)})
  /\ \A i \in DOMAIN s.recentOutcomes :
       s.recentOutcomes[i].delay >= 0 =>
         Cardinality(BucketsOf(s.recentOutcomes[i].delay)) = 1

LEMMA RecordFacts ==
  ASSUME PlanOK, plan.cmd = "adaptive", NEW s \in StateType, WindowFull(s),
         NEW d \in MinInt .. MaxInt, NEW success \in BOOLEAN
  PROVE  /\ RecordOutcome(s, d, success) \in StateType
         /\ Mirrors(RecordOutcome(s, d, success))
<1> DEFINE kept == IF Len(s.recentOutcomes) >= plan.window
                   THEN Tail(s.recentOutcomes) ELSE s.recentOutcomes
           o == [delay |-> d, success |-> success]
           new == Append(kept, o)
           t == RecordOutcome(s, d, success)
<1>1. /\ s.recentOutcomes \in Seq(OutcomeType) /\ s.totalOutcomes \in Nat
      /\ plan.window \in Nat \ {0}
  BY DEF StateType, PlanOK
<1>2. o \in OutcomeType
  BY DEF OutcomeType
<1>3. kept \in Seq(OutcomeType)
  <2>1. CASE Len(s.recentOutcomes) >= plan.window
    <3>1. s.recentOutcomes # <<>>
      BY <1>1, <2>1
    <3> QED
      BY <1>1, <2>1, <3>1
  <2>2. CASE ~(Len(s.recentOutcomes) >= plan.window)
    BY <1>1, <2>2
  <2> QED
    BY <2>1, <2>2
<1>4. Len(kept) = IF s.totalOutcomes < plan.window THEN s.totalOutcomes
                  ELSE plan.window - 1
  <2>1. CASE Len(s.recentOutcomes) >= plan.window
    <3>1. s.recentOutcomes # <<>>
      BY <1>1, <2>1
    <3>2. Len(Tail(s.recentOutcomes)) = Len(s.recentOutcomes) - 1
      BY <1>1, <3>1
    <3> QED
      BY <1>1, <2>1, <3>2 DEF WindowFull
  <2>2. CASE ~(Len(s.recentOutcomes) >= plan.window)
    BY <1>1, <2>2 DEF WindowFull
  <2> QED
    BY <2>1, <2>2
<1> HIDE DEF kept, o
<1>5. new \in Seq(OutcomeType) /\ Len(new) = Len(kept) + 1
  BY <1>2, <1>3
<1>6. t = [s EXCEPT !.recentOutcomes = new, !.totalOutcomes = @ + 1,
                    !.delayBuckets = CountOutcomes(NoOutcomes, new)]
  BY DEF RecordOutcome, updateDelayBuckets, NoOutcomes, kept, o
<1> HIDE DEF new, t
<1>7. /\ CountOutcomes(NoOutcomes, new) \in [Buckets -> BucketType]
      /\ \A b \in Buckets :
           CountOutcomes(NoOutcomes, new)[b].samples =
             Cardinality({i \in DOMAIN new : b \in BucketsOf(new[i].delay)})
  BY <1>5, BucketCounts
<1>8. t \in StateType
  <2> DEFINE c == CountOutcomes(NoOutcomes, new)
             Q == Seq(OutcomeType)
             B == [Buckets -> BucketType]
  <2>1. c \in B /\ new \in Q /\ s.totalOutcomes + 1 \in Nat
    BY <1>1, <1>5, <1>7
  <2>2. t = [s EXCEPT !.recentOutcomes = new, !.totalOutcomes = s.totalOutcomes + 1,
                      !.delayBuckets = c]
    BY <1>6
  <2>3. StateType = [previousDelay: MinInt .. MaxInt, lastRetryAfter: 0 .. MaxInt,
                     recentOutcomes: Q, totalOutcomes: Nat, delayBuckets: B]
    BY DEF StateType
  <2> HIDE DEF c, Q, B
  <2> QED
    BY <2>1, <2>2, <2>3
<1>9. /\ t.recentOutcomes = new /\ t.totalOutcomes = s.totalOutcomes + 1
      /\ t.delayBuckets = CountOutcomes(NoOutcomes, new)
  BY <1>6 DEF StateType
<1>10. WindowFull(t)
  BY <1>1, <1>4, <1>5, <1>9 DEF WindowFull
<1>11. ASSUME NEW i \in DOMAIN new, new[i].delay >= 0
       PROVE  Cardinality(BucketsOf(new[i].delay)) = 1
  <2>1. new[i] \in OutcomeType
    BY <1>5
  <2>2. new[i].delay \in Nat
    BY <1>11, <2>1, BackoffAssumption DEF OutcomeType, MinInt
  <2> QED
    BY <2>2, OneBucket
<1>12. Mirrors(t)
  BY <1>7, <1>9, <1>10, <1>11 DEF Mirrors
<1> QED
  BY <1>8, <1>12 DEF t

Middle(b) == MinDelay(b) + (MaxDelay(b) - MinDelay(b)) \div 2

LEMMA MiddleFacts ==
  ASSUME NEW b \in Buckets
  PROVE  Middle(b) \in 0 .. 180 * Second
<1>1. b \in 1 .. 7 /\ Second \in Nat \ {0}
  BY BucketLimits, BackoffAssumption
<1>2. \/ b = 1 \/ b = 2 \/ b = 3 \/ b = 4 \/ b = 5 \/ b = 6 \/ b = 7
  BY <1>1
<1>3. CASE b = 1
  BY <1>1, <1>3, BucketLimits DEF Middle
<1>4. CASE b = 2
  BY <1>1, <1>4, BucketLimits DEF Middle
<1>5. CASE b = 3
  BY <1>1, <1>5, BucketLimits DEF Middle
<1>6. CASE b = 4
  BY <1>1, <1>6, BucketLimits DEF Middle
<1>7. CASE b = 5
  BY <1>1, <1>7, BucketLimits DEF Middle
<1>8. CASE b = 6
  BY <1>1, <1>8, BucketLimits DEF Middle
<1>9. CASE b = 7
  BY <1>1, <1>9, BucketLimits DEF Middle
<1> QED
  BY <1>2, <1>3, <1>4, <1>5, <1>6, <1>7, <1>8, <1>9

(* A blend is not above both of what it is blended from.                   *)
LEMMA BlendFacts ==
  ASSUME PlanOK, NEW optimal \in Nat, NEW fallback \in MinInt .. MaxInt,
         NEW top \in Nat, optimal <= top
  PROVE  /\ blendDelays(optimal, fallback) \in MinInt .. MaxInt
         /\ fallback <= top => blendDelays(optimal, fallback) <= top
<1> DEFINE r == plan.rate
           m == RateDen
           num == optimal * r + fallback * (m - r)
           x == Quot(num, m)
<1>1. m \in Nat \ {0} /\ r \in Nat /\ m - r \in Nat /\ r <= m
  BY FixedValues DEF PlanOK
<1>2. fallback \in Int /\ MinInt \in Int /\ MinInt < 0 /\ MaxInt \in Nat
  BY BackoffAssumption DEF MinInt
<1>3. blendDelays(optimal, fallback) = Convert(plan.strategy, x)
  BY DEF blendDelays
<1> HIDE DEF r, m
<1>4. num \in Int
  <2>1. optimal * r \in Int /\ fallback * (m - r) \in Int
    BY <1>1, <1>2
  <2> QED
    BY <2>1
<1>5. ASSUME fallback <= top, num >= 0 PROVE num <= m * top
  <2>1. top - fallback \in Nat /\ r <= r
    BY <1>1, <1>2, <1>5
  <2>2. (top - fallback) * (m - r) \in Nat
    BY <1>1, <2>1
  <2>3. (top - fallback) * (m - r) = top * (m - r) - fallback * (m - r)
    BY <1>1, <1>2
  <2>4. optimal * r <= top * r /\ optimal * r \in Nat /\ top * r \in Nat
    BY <1>1, <2>1, ProductMonotone
  <2>5. top * r + top * (m - r) = m * top
    BY <1>1
  <2>6. fallback * (m - r) \in Int /\ top * (m - r) \in Int
    BY <1>1, <1>2
  <2>7. ASSUME NEW a \in Int, NEW b \in Int, NEW c \in Int, NEW d \in Int,
               NEW e \in Nat, a <= b, e = d - c
        PROVE  a + c <= b + d
    BY <2>7
  <2> QED
    BY <2>2, <2>3, <2>4, <2>5, <2>6, <2>7
<1> HIDE DEF num
<1>6. x \in Int
  BY <1>1, <1>4 DEF Quot
<1>7. ASSUME fallback <= top PROVE x <= top
  <2>1. CASE num >= 0
    <3>1. num \in Nat /\ num <= m * top
      BY <1>4, <1>5, <1>7, <2>1
    <3>2. num \div m \in 0 .. top
      BY <1>1, <3>1, DivisionBound
    <3> QED
      BY <2>1, <3>2 DEF Quot
  <2>2. CASE num < 0
    <3>1. (-num) \div m \in Nat
      BY <1>1, <1>4, <2>2
    <3>2. x = -((-num) \div m)
      BY <1>4, <2>2 DEF Quot
    <3> QED
      BY <3>1, <3>2
  <2> QED
    BY <1>4, <2>1, <2>2
<1> HIDE DEF x
<1>8. Convert(plan.strategy, x) \in MinInt .. MaxInt
  BY <1>6, ConvertFacts
<1>9. x <= top => Convert(plan.strategy, x) <= top
  <2>1. CASE x > MinInt
    BY <1>2, <1>6, <1>8, <2>1, ConvertFacts
  <2>2. CASE x <= MinInt
    BY <1>2, <1>6, <2>2 DEF Convert
  <2> QED
    BY <1>2, <1>6, <2>1, <2>2
<1> QED
  BY <1>3, <1>7, <1>8, <1>9

LEMMA KeepsTransitive ==
  ASSUME NEW s, NEW t, NEW u, DelayKeeps(s, t), DelayKeeps(t, u)
  PROVE  DelayKeeps(s, u)
  BY DEF DelayKeeps

(* The longest wait of the learner.                                        *)
AdaptiveTop == Largest(180 * Second, BoundOf(plan.strategy))

LEMMA AdaptiveTopFacts ==
  ASSUME PlanOK
  PROVE  /\ AdaptiveTop \in Nat /\ 180 * Second <= AdaptiveTop
         /\ BoundOf(plan.strategy) \in Nat /\ BoundOf(plan.strategy) <= AdaptiveTop
<1>1. BoundOf(plan.strategy) \in Nat
  BY BackoffAssumption DEF PlanOK, StrategyOK, BoundOf, Largest
<1>2. 180 * Second \in Nat
  BY BackoffAssumption
<1> QED
  BY <1>1, <1>2 DEF AdaptiveTop, Largest

LEMMA AdaptiveFacts ==
  ASSUME PlanOK, NEW s \in StateType, NEW n \in Nat \ {0},
         NEW r \in AdaptiveDelay(s, n)
  PROVE  /\ r.delay \in MinInt .. MaxInt
         /\ Regular(plan.strategy, n) =>
              r.delay <= AdaptiveTop
         /\ DelayKeeps(s, r.st)
<1> DEFINE Free == Regular(plan.strategy, n)
           Fine(t, x) == /\ x.delay \in MinInt .. MaxInt
                         /\ Free => x.delay <= AdaptiveTop
                         /\ DelayKeeps(t, x.st)
           blended == {[delay |-> blendDelays(Middle(b), f.delay), st |-> f.st] :
                         b \in BestBuckets(s), f \in FallbackDelay(s, n)}
<1>1. ASSUME NEW t \in StateType, NEW x \in FallbackDelay(t, n) PROVE Fine(t, x)
  <2>1. /\ x.delay \in MinInt .. MaxInt
        /\ Free => x.delay <= BoundOf(plan.strategy)
        /\ DelayKeeps(t, x.st)
    BY FallbackFacts
  <2>2. MinInt \in Int
    BY BackoffAssumption DEF MinInt
  <2> HIDE DEF Free
  <2> QED
    BY <2>1, <2>2, AdaptiveTopFacts
<1>2. CASE r \in FallbackDelay(s, n)
  BY <1>1, <1>2
<1>3. CASE \E x \in blended : r \in IF x.delay > 0 THEN {x} ELSE FallbackDelay(x.st, n)
  <2>1. PICK x \in blended : r \in IF x.delay > 0 THEN {x} ELSE FallbackDelay(x.st, n)
    BY <1>3
  <2>2. PICK b \in BestBuckets(s), f \in FallbackDelay(s, n) :
          x = [delay |-> blendDelays(Middle(b), f.delay), st |-> f.st]
    OBVIOUS
  <2>3. x.delay = blendDelays(Middle(b), f.delay) /\ x.st = f.st
    BY <2>2
  <2>4. Fine(s, f)
    BY <1>1
  <2>5. b \in Buckets
    BY DEF BestBuckets
  <2>6. Middle(b) \in Nat /\ Middle(b) <= AdaptiveTop
    <3>1. 180 * Second \in Nat
      BY BackoffAssumption
    <3> QED
      BY <2>5, <3>1, MiddleFacts, AdaptiveTopFacts
  <2>7. Fine(s, x)
    <3>1. f.delay \in MinInt .. MaxInt /\ (Free => f.delay <= AdaptiveTop)
          /\ DelayKeeps(s, f.st)
      BY <2>4
    <3>2. /\ blendDelays(Middle(b), f.delay) \in MinInt .. MaxInt
          /\ f.delay <= AdaptiveTop => blendDelays(Middle(b), f.delay) <= AdaptiveTop
      BY <2>6, <3>1, AdaptiveTopFacts, BlendFacts
    <3> QED
      BY <2>3, <3>1, <3>2
  <2>8. CASE r = x
    BY <2>7, <2>8
  <2>9. CASE r \in FallbackDelay(x.st, n)
    <3>1. x.st \in StateType /\ DelayKeeps(s, x.st)
      BY <2>7 DEF DelayKeeps
    <3>2. Fine(x.st, r)
      BY <1>1, <2>9, <3>1
    <3> QED
      BY <3>1, <3>2, KeepsTransitive
  <2> QED
    BY <2>1, <2>8, <2>9
<1>4. r \in FallbackDelay(s, n)
      \/ \E x \in blended : r \in IF x.delay > 0 THEN {x} ELSE FallbackDelay(x.st, n)
  BY DEF AdaptiveDelay, Middle
<1> QED
  BY <1>2, <1>3, <1>4

(* Without randomness, and with one best bucket, the learner has one       *)
(* answer.                                                                 *)
LEMMA FallbackOne ==
  ASSUME PlanOK, plan.strategy.kind \notin Randomised, NEW s, NEW n,
         NEW r \in FallbackDelay(s, n), NEW q \in FallbackDelay(s, n)
  PROVE  r = q
<1>1. PICK d \in StrategyDelays(plan.strategy, s.previousDelay, n) :
        r = [delay |-> d, st |-> s]
  BY DEF FallbackDelay, Randomised
<1>2. PICK e \in StrategyDelays(plan.strategy, s.previousDelay, n) :
        q = [delay |-> e, st |-> s]
  BY DEF FallbackDelay, Randomised
<1>3. StrategyOK(plan.strategy)
  BY DEF PlanOK
<1>4. StrategyDelays(plan.strategy, s.previousDelay, n) = {d}
  BY <1>3, OneDelay
<1>5. d = e
  BY <1>4
<1> QED
  BY <1>1, <1>2, <1>5

LEMMA AtMostOne ==
  ASSUME NEW A, IsFiniteSet(A), Cardinality(A) <= 1, NEW a \in A, NEW b \in A
  PROVE  a = b
<1>1. SUFFICES ASSUME a # b PROVE FALSE
  OBVIOUS
<1>2. IsFiniteSet({a}) /\ Cardinality({a}) = 1 /\ b \notin {a}
  BY <1>1, FS_Singleton
<1>3. Cardinality({a} \cup {b}) = 2 /\ IsFiniteSet({a} \cup {b})
  BY <1>2, FS_AddElement
<1>4. {a} \cup {b} \in SUBSET A
  OBVIOUS
<1>5. Cardinality({a} \cup {b}) <= Cardinality(A) /\ Cardinality(A) \in Nat
  BY <1>3, <1>4, FS_Subset, FS_CardinalityType
<1> QED
  BY <1>3, <1>5

LEMMA BestBucketsFinite ==
  ASSUME NEW s
  PROVE  IsFiniteSet(BestBuckets(s))
<1>1. IsFiniteSet(1 .. 7)
  <2>1. PICK k \in Int : k = 7
    OBVIOUS
  <2>2. IsFiniteSet(1 .. k)
    BY FS_Interval
  <2> QED
    BY <2>1, <2>2
<1>2. BestBuckets(s) \in SUBSET (1 .. 7)
  BY BucketLimits DEF BestBuckets
<1> QED
  BY <1>1, <1>2, FS_Subset

LEMMA AdaptiveOne ==
  ASSUME PlanOK, plan.strategy.kind \notin Randomised, NEW s \in StateType,
         NEW n \in Nat \ {0}, Cardinality(BestBuckets(s)) <= 1,
         NEW r \in AdaptiveDelay(s, n), NEW q \in AdaptiveDelay(s, n)
  PROVE  r = q
<1> DEFINE blended == {[delay |-> blendDelays(Middle(b), f.delay), st |-> f.st] :
                         b \in BestBuckets(s), f \in FallbackDelay(s, n)}
           Answers(x) == IF x.delay > 0 THEN {x} ELSE FallbackDelay(x.st, n)
<1>1. \/ r \in FallbackDelay(s, n) /\ q \in FallbackDelay(s, n)
      \/ /\ \E x \in blended : r \in Answers(x)
         /\ \E x \in blended : q \in Answers(x)
  <2>1. CASE n <= 0 \/ s.totalOutcomes < 3 \/ BestBuckets(s) = {}
    <3>1. AdaptiveDelay(s, n) = FallbackDelay(s, n)
      BY <2>1 DEF AdaptiveDelay
    <3> QED
      BY <3>1
  <2>2. CASE ~(n <= 0 \/ s.totalOutcomes < 3 \/ BestBuckets(s) = {})
    <3>1. AdaptiveDelay(s, n) = UNION {Answers(x) : x \in blended}
      BY <2>2 DEF AdaptiveDelay, Middle
    <3> HIDE DEF blended, Answers
    <3> QED
      BY <3>1
  <2> QED
    BY <2>1, <2>2
<1>2. CASE r \in FallbackDelay(s, n) /\ q \in FallbackDelay(s, n)
  BY <1>2, FallbackOne
<1>3. CASE /\ \E x \in blended : r \in Answers(x)
           /\ \E x \in blended : q \in Answers(x)
  <2>1. PICK x \in blended : r \in Answers(x)
    BY <1>3
  <2>2. PICK y \in blended : q \in Answers(y)
    BY <1>3
  <2>3. PICK b \in BestBuckets(s), f \in FallbackDelay(s, n) :
          x = [delay |-> blendDelays(Middle(b), f.delay), st |-> f.st]
    OBVIOUS
  <2>4. PICK c \in BestBuckets(s), g \in FallbackDelay(s, n) :
          y = [delay |-> blendDelays(Middle(c), g.delay), st |-> g.st]
    OBVIOUS
  <2>5. f = g
    BY FallbackOne
  <2>6. b = c
    <3> HIDE DEF blended
    <3>1. IsFiniteSet(BestBuckets(s))
      BY BestBucketsFinite
    <3> QED
      BY <3>1, AtMostOne
  <2>7. x = y
    BY <2>3, <2>4, <2>5, <2>6
  <2> HIDE DEF blended
  <2>8. CASE x.delay > 0
    BY <2>1, <2>2, <2>7, <2>8
  <2>9. CASE ~(x.delay > 0)
    <3>1. r \in FallbackDelay(x.st, n) /\ q \in FallbackDelay(x.st, n)
      BY <2>1, <2>2, <2>7, <2>9
    <3> QED
      BY <3>1, FallbackOne
  <2> QED
    BY <2>8, <2>9
<1> QED
  BY <1>1, <1>2, <1>3

-----------------------------------------------------------------------------
(* The HTTP-aware strategy.                                                *)

LEMMA OutputFacts ==
  ASSUME NEW out \in Outputs
  PROVE  /\ out.headers \in Seq([name: {"retry-after", "x-ratelimit-retry-after"},
                                 seconds: Nat \cup {Refused}])
         /\ \A i \in DOMAIN out.headers : out.headers[i].seconds \in Nat \cup {Refused}
         /\ out.reset \in MinInt .. MaxInt
         /\ out.json \in Int
<1>1. /\ out.headers \in Seq([name: {"retry-after", "x-ratelimit-retry-after"},
                              seconds: Nat \cup {Refused}])
      /\ out.reset \in MinInt .. MaxInt
      /\ out.json \in Int
  BY OutputsAssumption
<1>2. ASSUME NEW i \in DOMAIN out.headers
      PROVE  out.headers[i].seconds \in Nat \cup {Refused}
  <2> DEFINE R == [name: {"retry-after", "x-ratelimit-retry-after"},
                   seconds: Nat \cup {Refused}]
             hs == out.headers
  <2>1. hs \in Seq(R) /\ i \in DOMAIN hs
    BY <1>1
  <2>2. hs[i] \in R
    <3> HIDE DEF R, hs
    <3> QED
      BY <2>1
  <2> QED
    BY <2>2
<1> QED
  BY <1>1, <1>2

Own(out, i) == out.headers[i].name = "x-ratelimit-retry-after"

(* The first header of a name is the one before which there is none.       *)
LEMMA FirstNamedFacts ==
  ASSUME NEW out \in Outputs, NEW k \in DOMAIN out.headers, Own(out, k)
  PROVE  LET i == FirstNamed(out, "x-ratelimit-retry-after")
         IN  /\ i \in DOMAIN out.headers /\ Own(out, i)
             /\ \A j \in 1 .. i - 1 : ~Own(out, j)
<1> DEFINE T == {i \in DOMAIN out.headers : Own(out, i)}
<1>1. DOMAIN out.headers = 1 .. Len(out.headers) /\ Len(out.headers) \in Nat
  BY OutputFacts
<1>2. T \in SUBSET Nat /\ T # {}
  BY <1>1
<1>3. PICK m \in T : \A j \in T : m <= j
  <2> HIDE DEF T
  <2> QED
    BY <1>2, SmallestElement
<1>4. m \in DOMAIN out.headers /\ Own(out, m) /\ \A j \in 1 .. m - 1 : ~Own(out, j)
  BY <1>1, <1>3
<1> QED
  BY <1>4 DEF FirstNamed, Own

LEMMA ParsedTypes ==
  ASSUME PlanOK, NEW out \in Outputs
  PROVE  /\ parseRetryAfterHeader(out) \in MinInt .. MaxInt
         /\ parseRateLimitHeaders(out) \in MinInt .. MaxInt
         /\ parseJSONResponse(out) \in MinInt .. MaxInt
<1>1. 0 \in MinInt .. MaxInt /\ Second \in Int
  BY BackoffAssumption DEF MinInt
<1>2. ASSUME NEW i \in DOMAIN out.headers
      PROVE  Wrap(out.headers[i].seconds * Second) \in MinInt .. MaxInt
  <2>1. out.headers[i].seconds \in Int
    BY OutputFacts DEF Refused
  <2>2. out.headers[i].seconds * Second \in Int
    BY <1>1, <2>1
  <2> QED
    BY <2>2, WrapFacts
<1>3. parseRetryAfterHeader(out) \in MinInt .. MaxInt
  <2>1. CASE out.headers = <<>>
    BY <1>1, <2>1 DEF parseRetryAfterHeader
  <2>2. CASE out.headers # <<>>
    <3>1. 1 \in DOMAIN out.headers
      BY <2>2, OutputFacts
    <3> QED
      BY <1>1, <1>2, <3>1 DEF parseRetryAfterHeader
  <2> QED
    BY <2>1, <2>2
<1>4. parseRateLimitHeaders(out) \in MinInt .. MaxInt
  <2>1. CASE \E k \in DOMAIN out.headers : Own(out, k)
    <3>1. FirstNamed(out, "x-ratelimit-retry-after") \in DOMAIN out.headers
      BY <2>1, FirstNamedFacts
    <3> QED
      BY <1>1, <1>2, <3>1, OutputFacts DEF parseRateLimitHeaders
  <2>2. CASE ~\E k \in DOMAIN out.headers : Own(out, k)
    BY <1>1, <2>2, OutputFacts DEF parseRateLimitHeaders, Own
  <2> QED
    BY <2>1, <2>2
<1>5. parseJSONResponse(out) \in MinInt .. MaxInt
  <2>1. out.json \in Int
    BY OutputFacts
  <2>2. Convert(plan.strategy, out.json) \in Int
    BY <2>1, ConvertFacts, BackoffAssumption DEF MinInt
  <2>3. Convert(plan.strategy, out.json) * Second \in Int
    BY <1>1, <2>2
  <2> QED
    BY <2>3, WrapFacts DEF parseJSONResponse
<1> QED
  BY <1>3, <1>4, <1>5

LEMMA ExtractedFacts ==
  ASSUME PlanOK, NEW out \in Outputs
  PROVE  /\ Extracted(out) \in 0 .. MaxInt
         /\ capDelay(Extracted(out)) \in 0 .. MaxInt
         /\ plan.cap > 0 => capDelay(Extracted(out)) <= plan.cap
         /\ capDelay(Extracted(out)) > 0 <=> Extracted(out) > 0
<1>1. Extracted(out) \in 0 .. MaxInt
  <2>1. MinInt \in Int /\ MaxInt \in Nat
    BY BackoffAssumption DEF MinInt
  <2> QED
    BY <2>1, ParsedTypes DEF Extracted
<1>2. plan.cap \in 0 .. MaxInt /\ MaxInt \in Nat
  BY BackoffAssumption DEF PlanOK
<1> QED
  BY <1>1, <1>2 DEF capDelay

(* The hints that fit are what the parsers find: one of them is taken if   *)
(* one is positive.                                                        *)
LEMMA ExtractedIsHint ==
  ASSUME PlanOK, NEW out \in Outputs, HintsIn(out) \subseteq MinInt .. MaxInt
  PROVE  /\ Extracted(out) > 0 => Extracted(out) \in HintsIn(out)
         /\ \A h \in HintsIn(out) : h > 0 => Extracted(out) > 0
<1> DEFINE hs == out.headers
           First(i) == i = 1 \/ (Own(out, i) /\ \A j \in 1 .. i - 1 : ~Own(out, j))
           hint(i) == hs[i].seconds * Second
           hides == {i \in {i \in DOMAIN hs : First(i)} :
                       Own(out, i) /\ hs[i].seconds # Refused}
           me == FirstNamed(out, "x-ratelimit-retry-after")
<1>1. HintsIn(out) = {hint(i) : i \in {i \in DOMAIN hs : First(i)}}
                     \cup (IF hides = {} THEN {out.reset} ELSE {})
                     \cup {out.json * Second}
  BY Zenon DEF HintsIn, Own
<1>2. Second \in Nat \ {0} /\ MaxInt \in Nat /\ MinInt \in Int /\ MinInt < 0
  BY BackoffAssumption DEF MinInt
<1>3. DOMAIN hs = 1 .. Len(hs) /\ Len(hs) \in Nat
      /\ \A i \in DOMAIN hs : hs[i].seconds \in Nat \cup {-1}
  BY OutputFacts DEF Refused
<1>4. \A i \in DOMAIN hs : First(i) => hint(i) \in HintsIn(out)
  BY <1>1
<1>5. ASSUME NEW i \in DOMAIN hs, First(i)
      PROVE  /\ Wrap(hint(i)) = hint(i)
             /\ hs[i].seconds = Refused => ~(hint(i) > 0)
             /\ hint(i) \in Int
  <2>1. hint(i) \in Int
    BY <1>2, <1>3
  <2>2. hint(i) \in MinInt .. MaxInt
    BY <1>4, <1>5
  <2> QED
    BY <1>2, <2>1, <2>2, WrapFacts DEF Refused
<1>6. parseRetryAfterHeader(out) > 0 =>
        1 \in DOMAIN hs /\ parseRetryAfterHeader(out) = hint(1)
  <2>1. CASE hs = <<>>
    BY <2>1 DEF parseRetryAfterHeader
  <2>2. CASE hs # <<>>
    <3>1. 1 \in DOMAIN hs /\ First(1)
      BY <1>3, <2>2, OutputFacts
    <3>2. Wrap(hint(1)) = hint(1)
      BY <1>5, <3>1
    <3> QED
      BY <3>1, <3>2 DEF parseRetryAfterHeader
  <2> QED
    BY <2>1, <2>2
<1>7. 1 \in DOMAIN hs /\ hint(1) > 0 => parseRetryAfterHeader(out) > 0
  <2>1. SUFFICES ASSUME 1 \in DOMAIN hs, hint(1) > 0
                 PROVE  parseRetryAfterHeader(out) > 0
    OBVIOUS
  <2>2. Wrap(hint(1)) = hint(1) /\ hs[1].seconds # Refused
    BY <1>5, <2>1
  <2>3. hs # <<>>
    BY <2>1, <1>3
  <2> QED
    BY <2>1, <2>2, <2>3 DEF parseRetryAfterHeader
<1>8. ASSUME NEW k \in DOMAIN hs, Own(out, k)
      PROVE  /\ me \in DOMAIN hs /\ Own(out, me) /\ First(me)
             /\ \A i \in DOMAIN hs : First(i) /\ Own(out, i) => i = me
  <2>1. me \in DOMAIN hs /\ Own(out, me) /\ \A j \in 1 .. me - 1 : ~Own(out, j)
    BY <1>8, FirstNamedFacts
  <2>2. ASSUME NEW i \in DOMAIN hs, First(i), Own(out, i) PROVE i = me
    <3>1. \A j \in 1 .. i - 1 : ~Own(out, j)
      BY <1>3, <2>2
    <3> HIDE DEF me
    <3> QED
      BY <1>3, <2>1, <2>2, <3>1
  <2> HIDE DEF me
  <2> QED
    BY <2>1, <2>2
<1> DEFINE FoundBySecond(h) == \/ 1 \in DOMAIN hs /\ h = hint(1)
                         \/ parseRateLimitHeaders(out) > 0
                         \/ h = out.json * Second
           Goal2 == /\ parseRateLimitHeaders(out) > 0 =>
                         parseRateLimitHeaders(out) \in HintsIn(out)
                    /\ \A h \in HintsIn(out) : h > 0 => FoundBySecond(h)
<1>9. ASSUME (\E k \in DOMAIN hs : Own(out, k)) /\ hs[me].seconds # Refused
      PROVE  Goal2
  <2>1. me \in DOMAIN hs /\ Own(out, me) /\ First(me)
        /\ \A i \in DOMAIN hs : First(i) /\ Own(out, i) => i = me
    BY <1>8, <1>9
  <2>2. parseRateLimitHeaders(out) = hint(me)
    <3>1. parseRateLimitHeaders(out) = Wrap(hint(me))
      BY <1>9 DEF parseRateLimitHeaders, Own
    <3> HIDE DEF me
    <3> QED
      BY <1>5, <2>1, <3>1
  <2>3. hides # {}
    <3> HIDE DEF me
    <3> QED
      BY <1>9, <2>1
  <2>4. ASSUME NEW i \in DOMAIN hs, First(i) PROVE i = 1 \/ i = me
    BY <2>1, <2>4
  <2> HIDE DEF me, hides
  <2>5. hint(me) \in HintsIn(out)
    BY <1>4, <2>1
  <2>6. HintsIn(out) = {hint(i) : i \in {i \in DOMAIN hs : First(i)}}
                       \cup {out.json * Second}
    BY <1>1, <2>3
  <2>7. ASSUME NEW h \in HintsIn(out), h > 0 PROVE FoundBySecond(h)
    <3>1. CASE h = out.json * Second
      BY <3>1
    <3>2. CASE \E i \in DOMAIN hs : First(i) /\ h = hint(i)
      <4>1. PICK i \in DOMAIN hs : First(i) /\ h = hint(i)
        BY <3>2
      <4>2. i = 1 \/ i = me
        BY <2>4, <4>1
      <4> HIDE DEF First, hint, hs
      <4> QED
        BY <2>2, <2>7, <4>1, <4>2
    <3> QED
      BY <2>6, <3>1, <3>2
  <2> HIDE DEF FoundBySecond, hint
  <2> QED
    BY <2>2, <2>5, <2>7
<1>10. ASSUME ~((\E k \in DOMAIN hs : Own(out, k)) /\ hs[me].seconds # Refused)
       PROVE  Goal2
  <2>1. parseRateLimitHeaders(out) = IF out.reset > 0 THEN out.reset ELSE 0
    BY <1>10 DEF parseRateLimitHeaders, Own
  <2>2. ASSUME NEW i \in DOMAIN hs, First(i)
        PROVE  i = 1 \/ hs[i].seconds = Refused
    <3>1. CASE Own(out, i)
      <4>1. i = me
        BY <1>8, <2>2, <3>1
      <4> QED
        BY <1>10, <3>1, <4>1
    <3>2. CASE ~Own(out, i)
      BY <2>2, <3>2
    <3> QED
      BY <3>1, <3>2
  <2>3. hides = {}
    <3>1. SUFFICES ASSUME NEW i \in hides PROVE FALSE
      OBVIOUS
    <3>2. i \in DOMAIN hs /\ First(i) /\ Own(out, i) /\ hs[i].seconds # Refused
      OBVIOUS
    <3>3. i = me
      BY <1>8, <3>2
    <3> QED
      BY <1>10, <3>2, <3>3
  <2> HIDE DEF me, hides
  <2>4. out.reset \in HintsIn(out)
    BY <1>1, <2>3
  <2>5. ASSUME NEW h \in HintsIn(out), h > 0 PROVE FoundBySecond(h)
    <3>1. CASE h = out.json * Second
      BY <3>1
    <3>2. CASE h = out.reset
      BY <2>1, <2>5, <3>2
    <3>3. CASE \E i \in DOMAIN hs : First(i) /\ h = hint(i)
      <4>1. PICK i \in DOMAIN hs : First(i) /\ h = hint(i)
        BY <3>3
      <4>2. i = 1
        BY <1>5, <2>2, <2>5, <4>1
      <4> QED
        BY <4>1, <4>2
    <3> QED
      BY <1>1, <3>1, <3>2, <3>3
  <2> HIDE DEF FoundBySecond
  <2> QED
    BY <2>1, <2>4, <2>5
<1>11. Goal2
  <2> HIDE DEF Goal2, me
  <2> QED
    BY <1>9, <1>10
<1>12. parseJSONResponse(out) = out.json * Second
       /\ out.json * Second \in HintsIn(out)
  <2>1. out.json * Second \in HintsIn(out)
    BY <1>1
  <2>2. out.json * Second \in MinInt .. MaxInt /\ out.json \in Int
    BY <2>1, OutputFacts
  <2>3. out.json \in MinInt .. MaxInt
    <3>1. ASSUME NEW j \in Int, j * Second \in MinInt .. MaxInt
          PROVE  j \in MinInt .. MaxInt
      <4>1. CASE j >= 0
        <5>1. j \in Nat /\ 1 \in Nat /\ 1 <= Second /\ j <= j /\ Second \in Nat
          BY <1>2, <3>1, <4>1
        <5>2. j * 1 <= j * Second
          BY <5>1, ProductMonotone
        <5> QED
          BY <1>2, <3>1, <4>1, <5>2
      <4>2. CASE j < 0
        <5>1. -j \in Nat /\ 1 \in Nat /\ 1 <= Second /\ -j <= -j /\ Second \in Nat
          BY <1>2, <3>1, <4>2
        <5>2. (-j) * 1 <= (-j) * Second
          BY <5>1, ProductMonotone
        <5>3. (-j) * Second = -(j * Second) /\ j * Second \in Int
          BY <1>2, <3>1
        <5> QED
          BY <1>2, <3>1, <4>2, <5>2, <5>3
      <4> QED
        BY <3>1, <4>1, <4>2
    <3> QED
      BY <2>2, <3>1
  <2>4. Convert(plan.strategy, out.json) = out.json
    BY <2>2, <2>3, ConvertFacts
  <2>5. Wrap(out.json * Second) = out.json * Second
    BY <1>2, <2>2, WrapFacts
  <2> QED
    BY <2>1, <2>4, <2>5 DEF parseJSONResponse
<1>13. parseRetryAfterHeader(out) > 0 => parseRetryAfterHeader(out) \in HintsIn(out)
  BY <1>4, <1>6
<1>14. ASSUME NEW h \in HintsIn(out), h > 0 PROVE Extracted(out) > 0
  <2>1. FoundBySecond(h)
    BY <1>11, <1>14
  <2>2. \/ parseRetryAfterHeader(out) > 0 \/ parseRateLimitHeaders(out) > 0
        \/ parseJSONResponse(out) > 0
    BY <1>7, <1>12, <1>14, <2>1
  <2> QED
    BY <2>2 DEF Extracted
<1>15. Extracted(out) > 0 => Extracted(out) \in HintsIn(out)
  <2>1. 0 > 0 <=> FALSE
    OBVIOUS
  <2>2. parseRateLimitHeaders(out) > 0 => parseRateLimitHeaders(out) \in HintsIn(out)
    BY <1>11
  <2> QED
    BY <1>12, <1>13, <2>1, <2>2 DEF Extracted
<1> QED
  BY <1>14, <1>15

-----------------------------------------------------------------------------
(* The plan is fixed: what depends on nothing else does not change.        *)

LEMMA PlanFixed ==
  ASSUME plan' = plan
  PROVE  /\ StateType' = StateType
         /\ PlanOK' <=> PlanOK
<1>1. Scale' = Scale
  BY DEF Scale
<1>2. BucketType' = BucketType
  BY <1>1 DEF BucketType
<1> QED
  BY <1>2 DEF StateType, PlanOK

LEMMA DelayFixed ==
  ASSUME plan' = plan, NEW s, NEW n
  PROVE  /\ FallbackDelay(s, n)' = FallbackDelay(s, n)
         /\ AdaptiveDelay(s, n)' = AdaptiveDelay(s, n)
<1>1. \A t : FallbackDelay(t, n)' = FallbackDelay(t, n)
  BY DEF FallbackDelay
<1>2. \A a, b : blendDelays(a, b)' = blendDelays(a, b)
  BY DEF blendDelays
<1> DEFINE Blended == {[delay |-> blendDelays(Middle(b), f.delay), st |-> f.st] :
                         b \in BestBuckets(s), f \in FallbackDelay(s, n)}
           Primed == {[delay |-> blendDelays(Middle(b), f.delay)', st |-> f.st] :
                        b \in BestBuckets(s), f \in FallbackDelay(s, n)'}
           Answers(x) == IF x.delay > 0 THEN {x} ELSE FallbackDelay(x.st, n)
<1>3. Blended = Primed
  BY <1>1, <1>2
<1>4. AdaptiveDelay(s, n) = IF n <= 0 \/ s.totalOutcomes < 3 \/ BestBuckets(s) = {}
                            THEN FallbackDelay(s, n)
                            ELSE UNION {Answers(x) : x \in Blended}
  BY DEF AdaptiveDelay, Middle
<1>5. AdaptiveDelay(s, n)' =
        IF n <= 0 \/ s.totalOutcomes < 3 \/ BestBuckets(s) = {}
        THEN FallbackDelay(s, n)'
        ELSE UNION {IF x.delay > 0 THEN {x} ELSE FallbackDelay(x.st, n)' : x \in Primed}
  BY DEF AdaptiveDelay, Middle
<1> HIDE DEF Blended, Primed
<1>6. UNION {Answers(x) : x \in Blended}
      = UNION {IF x.delay > 0 THEN {x} ELSE FallbackDelay(x.st, n)' : x \in Primed}
  BY <1>1, <1>3
<1> QED
  BY <1>1, <1>4, <1>5, <1>6

-----------------------------------------------------------------------------
(* The inductive invariant of the loop.  What was waited is what the       *)
(* strategy, asked again, still answers: that is what makes waits          *)
(* comparable and recorded delays true.                                    *)

PlainWaited(n) ==
  plan.cmd = "plain" /\ plan.strategy.kind \notin Randomised =>
    waited \in StrategyDelays(plan.strategy, 0, n)

AdaptiveWaited(n) ==
  plan.cmd = "adaptive" /\ plan.strategy.kind \notin Randomised =>
    \E r \in AdaptiveDelay(st, n) : r.delay = waited

WaitedByStrategy ==
  /\ pc = "waiting" => PlainWaited(attempt) /\ AdaptiveWaited(attempt)
  /\ pc = "running" /\ attempt > 1 =>
       PlainWaited(attempt - 1) /\ AdaptiveWaited(attempt - 1)
  /\ pc = "running" /\ attempt = 1 => waited = 0

LoopOK ==
  /\ plan \in Plans
  /\ pc \in {"running", "waiting", "done"}
  /\ attempt \in 1 .. plan.attempts
  /\ pc = "waiting" => attempt < plan.attempts
  /\ waited \in MinInt .. MaxInt
  /\ st \in StateType
  /\ plan.cmd = "adaptive" => WindowFull(st)

IInv ==
  LoopOK /\ WaitedByStrategy /\ WaitWithinBounds /\ WaitFollowsLastOutput

(* A delay of any of the three commands.                                   *)
LEMMA DelayResult ==
  ASSUME PlanOK, NEW s \in StateType, NEW n \in Nat \ {0}, NEW d \in Delay(s, n)
  PROVE  /\ d.delay \in MinInt .. MaxInt
         /\ DelayKeeps(s, d.st)
         /\ plan.cmd = "plain" => d \in FallbackDelay(s, n)
         /\ plan.cmd = "adaptive" => d \in AdaptiveDelay(s, n)
         /\ plan.cmd = "http-aware" =>
              \/ s.lastRetryAfter > 0 /\ d.delay = s.lastRetryAfter
              \/ s.lastRetryAfter = 0 /\ d \in FallbackDelay(s, n)
<1>1. plan.cmd \in {"plain", "adaptive", "http-aware"}
  BY DEF PlanOK
<1>2. CASE plan.cmd = "plain"
  <2>1. d \in FallbackDelay(s, n)
    BY <1>2 DEF Delay
  <2> QED
    BY <1>2, <2>1, FallbackFacts
<1>3. CASE plan.cmd = "adaptive"
  <2>1. d \in AdaptiveDelay(s, n)
    BY <1>3 DEF Delay
  <2> QED
    BY <1>3, <2>1, AdaptiveFacts
<1>4. CASE plan.cmd = "http-aware"
  <2>1. d \in HTTPAwareDelay(s, n)
    BY <1>4 DEF Delay
  <2>2. s.lastRetryAfter \in 0 .. MaxInt
    BY DEF StateType
  <2>3. CASE s.lastRetryAfter > 0
    <3>1. d = [delay |-> s.lastRetryAfter, st |-> s]
      BY <2>1, <2>3 DEF HTTPAwareDelay
    <3>2. d.delay = s.lastRetryAfter /\ d.st = s
      BY <3>1
    <3>3. DelayKeeps(s, s)
      BY DEF DelayKeeps
    <3>4. s.lastRetryAfter \in MinInt .. MaxInt
      BY <2>2, BackoffAssumption DEF MinInt
    <3> QED
      BY <1>4, <2>3, <3>2, <3>3, <3>4
  <2>4. CASE s.lastRetryAfter = 0
    <3>1. d \in FallbackDelay(s, n)
      BY <2>1, <2>4 DEF HTTPAwareDelay
    <3> QED
      BY <1>4, <2>4, <3>1, FallbackFacts
  <2> QED
    BY <2>2, <2>3, <2>4, BackoffAssumption
<1> QED
  BY <1>1, <1>2, <1>3, <1>4

(* What ends an attempt: the fields after RecordOutcome and                *)
(* ProcessCommandOutput, and the call of Delay that may follow.            *)
Ended(s, out) ==
  /\ s \in StateType
  /\ plan.cmd = "adaptive" =>
       /\ Mirrors(s)
       /\ \/ attempt = 1 /\ last'.recorded = 0
          \/ attempt > 1 /\ \E r \in AdaptiveDelay(st, attempt - 1) :
                              last'.recorded = r.delay
  /\ plan.cmd = "http-aware" => s.lastRetryAfter = capDelay(Extracted(out))
  /\ \/ pc' = "done" /\ st' = s /\ waited' = waited
     \/ /\ pc' = "waiting" /\ attempt < plan.attempts
        /\ \E d \in Delay(s, attempt) : waited' = d.delay /\ st' = d.st

LEMMA FinishStep ==
  ASSUME LoopOK, NEW outcome \in {"success", "failure", "fatal"},
         NEW out \in IF plan.cmd = "http-aware" THEN Outputs ELSE {NoHints},
         FinishAttempt(outcome, out)
  PROVE  /\ pc = "running" /\ plan' = plan /\ attempt' = attempt
         /\ last'.out = out
         /\ \E s : Ended(s, out)
<1> DEFINE calls == IF plan.cmd = "adaptive"
                    THEN recordStrategyOutcome(st, attempt, outcome = "success")
                    ELSE {[recorded |-> 0, st |-> st]}
           after(r) == IF plan.cmd = "http-aware"
                       THEN ProcessCommandOutput(r.st, out) ELSE r.st
<1>1. PlanOK
  BY PlanFacts DEF LoopOK
<1>2. PICK r \in calls :
        /\ last' = [recorded |-> r.recorded, outcome |-> outcome, out |-> out]
        /\ \/ /\ ShouldStop(outcome) \/ attempt = plan.attempts
              /\ pc' = "done"
              /\ st' = after(r)
              /\ UNCHANGED waited
           \/ /\ ~ShouldStop(outcome) /\ attempt < plan.attempts
              /\ pc' = "waiting"
              /\ \E d \in Delay(after(r), attempt) : waited' = d.delay /\ st' = d.st
  BY DEF FinishAttempt
<1>3. pc = "running" /\ plan' = plan /\ attempt' = attempt
  BY DEF FinishAttempt
<1>4. last'.out = out /\ last'.recorded = r.recorded
  BY <1>2
<1>5. \/ pc' = "done" /\ st' = after(r) /\ waited' = waited
      \/ /\ pc' = "waiting" /\ attempt < plan.attempts
         /\ \E d \in Delay(after(r), attempt) : waited' = d.delay /\ st' = d.st
  BY <1>2
<1>6. CASE plan.cmd = "adaptive"
  <2>1. after(r) = r.st /\ r \in recordStrategyOutcome(st, attempt, outcome = "success")
    BY <1>6
  <2>2. PICK q \in IF attempt > 1 THEN Delay(st, attempt - 1)
                   ELSE {[delay |-> 0, st |-> st]} :
          r = [recorded |-> q.delay,
               st |-> RecordOutcome(q.st, q.delay, outcome = "success")]
    BY <2>1 DEF recordStrategyOutcome
  <2>3. /\ r.recorded = q.delay
        /\ r.st = RecordOutcome(q.st, q.delay, outcome = "success")
    BY <2>2
  <2>4. st \in StateType /\ attempt \in Nat \ {0} /\ WindowFull(st)
    BY <1>1, <1>6 DEF LoopOK, PlanOK
  <2>5. /\ q.delay \in MinInt .. MaxInt /\ DelayKeeps(st, q.st)
        /\ \/ attempt = 1 /\ q.delay = 0
           \/ attempt > 1 /\ q \in AdaptiveDelay(st, attempt - 1)
    <3>1. CASE attempt > 1
      <4>1. q \in Delay(st, attempt - 1) /\ attempt - 1 \in Nat \ {0}
        BY <2>2, <2>4, <3>1
      <4> QED
        BY <1>1, <1>6, <2>4, <3>1, <4>1, DelayResult
    <3>2. CASE ~(attempt > 1)
      <4>1. q = [delay |-> 0, st |-> st]
        BY <2>2, <3>2
      <4>2. q.delay = 0 /\ q.st = st
        BY <4>1
      <4>3. attempt = 1
        BY <2>4, <3>2
      <4>4. DelayKeeps(st, st)
        BY <2>4 DEF DelayKeeps
      <4> QED
        BY <4>2, <4>3, <4>4, BackoffAssumption DEF MinInt
    <3> QED
      BY <3>1, <3>2
  <2>6. q.st \in StateType /\ WindowFull(q.st)
    BY <2>4, <2>5 DEF DelayKeeps, WindowFull
  <2>7. (outcome = "success") \in BOOLEAN
    OBVIOUS
  <2>8. r.st \in StateType /\ Mirrors(r.st)
    BY <1>1, <1>6, <2>3, <2>5, <2>6, <2>7, RecordFacts
  <2>9. Ended(r.st, out)
    <3> HIDE DEF after
    <3> QED
      BY <1>4, <1>5, <1>6, <2>1, <2>3, <2>5, <2>8 DEF Ended
  <2> QED
    BY <1>3, <1>4, <2>9
<1>7. CASE plan.cmd = "http-aware"
  <2>1. after(r) = ProcessCommandOutput(st, out) /\ out \in Outputs
    BY <1>7
  <2>2. capDelay(Extracted(out)) \in 0 .. MaxInt
    BY <1>1, <2>1, ExtractedFacts
  <2>3. st \in StateType
    BY DEF LoopOK
  <2>4. after(r) = [st EXCEPT !.lastRetryAfter = capDelay(Extracted(out))]
    BY <2>1 DEF ProcessCommandOutput
  <2> HIDE DEF after
  <2>5. after(r) \in StateType /\ after(r).lastRetryAfter = capDelay(Extracted(out))
    BY <2>2, <2>3, <2>4 DEF StateType
  <2>6. Ended(after(r), out)
    BY <1>5, <1>7, <2>5 DEF Ended
  <2> QED
    BY <1>3, <1>4, <2>6
<1>8. CASE plan.cmd = "plain"
  <2>1. after(r) = st
    BY <1>8
  <2>2. st \in StateType
    BY DEF LoopOK
  <2>3. Ended(after(r), out)
    <3> HIDE DEF after
    <3> QED
      BY <1>5, <1>8, <2>1, <2>2 DEF Ended
  <2> QED
    BY <1>3, <1>4, <2>3
<1> QED
  BY <1>1, <1>6, <1>7, <1>8 DEF PlanOK

LEMMA LoopTyped ==
  LoopOK => TypeOK
<1> SUFFICES ASSUME LoopOK PROVE TypeOK
  OBVIOUS
<1>1. PlanOK
  BY PlanFacts DEF LoopOK
<1>2. st \in StateType
  BY DEF LoopOK
<1>3. st.previousDelay \in MinInt .. MaxInt /\ st.lastRetryAfter \in 0 .. MaxInt
      /\ st.delayBuckets \in [Buckets -> BucketType] /\ st.totalOutcomes \in Nat
  BY <1>2 DEF StateType
<1>4. \A b \in Buckets : st.delayBuckets[b].rate \in 0 .. Scale
  BY <1>3 DEF BucketType
<1>5. plan.cmd = "adaptive" => Len(st.recentOutcomes) <= plan.window
  <2>1. SUFFICES ASSUME plan.cmd = "adaptive"
                 PROVE  Len(st.recentOutcomes) <= plan.window
    OBVIOUS
  <2>2. WindowFull(st) /\ plan.window \in Nat
    BY <1>1, <2>1 DEF LoopOK, PlanOK
  <2> QED
    BY <1>3, <2>2 DEF WindowFull
<1> QED
  BY <1>3, <1>4, <1>5 DEF LoopOK, TypeOK

(* The bound of a wait that has just been computed.                        *)
WaitBounded(w) ==
  LET s == plan.strategy IN
  Regular(s, attempt) =>
     CASE plan.cmd = "plain" ->
            /\ w <= BoundOf(s)
            /\ s.kind \in {"polynomial", "decorrelated-jitter"} => w >= s.base
       [] plan.cmd = "http-aware" ->
            plan.cap > 0 => w <= Largest(plan.cap, BoundOf(s))
       [] plan.cmd = "adaptive" ->
            w <= Largest(180 * Second, BoundOf(s))

LEMMA DelayBounded ==
  ASSUME PlanOK, attempt \in Nat \ {0}, NEW s \in StateType, NEW out,
         plan.cmd = "http-aware" =>
           out \in Outputs /\ s.lastRetryAfter = capDelay(Extracted(out)),
         NEW d \in Delay(s, attempt)
  PROVE  WaitBounded(d.delay)
<1> DEFINE Free == Regular(plan.strategy, attempt)
<1>1. CASE plan.cmd = "plain"
  <2>1. d \in FallbackDelay(s, attempt)
    BY <1>1, DelayResult
  <2>2. /\ d.delay \in StrategyDelays(plan.strategy, s.previousDelay, attempt)
        /\ Free => d.delay <= BoundOf(plan.strategy)
    BY <2>1, FallbackFacts
  <2>3. s.previousDelay \in MinInt .. MaxInt /\ StrategyOK(plan.strategy)
    BY DEF StateType, PlanOK
  <2>4. Free /\ plan.strategy.kind \in {"polynomial", "decorrelated-jitter"} =>
          d.delay >= plan.strategy.base
    BY <2>2, <2>3, DelayFacts
  <2> QED
    BY <1>1, <2>2, <2>4 DEF WaitBounded
<1>2. CASE plan.cmd = "adaptive"
  <2>1. d \in AdaptiveDelay(s, attempt)
    BY <1>2, DelayResult
  <2>2. Free => d.delay <= AdaptiveTop
    BY <2>1, AdaptiveFacts
  <2> QED
    BY <1>2, <2>2 DEF WaitBounded, AdaptiveTop
<1>3. CASE plan.cmd = "http-aware"
  <2>1. SUFFICES ASSUME Free, plan.cap > 0
                 PROVE  d.delay <= Largest(plan.cap, BoundOf(plan.strategy))
    BY <1>3 DEF WaitBounded
  <2>2. plan.cap \in 0 .. MaxInt /\ BoundOf(plan.strategy) \in Nat /\ MaxInt \in Nat
    BY AdaptiveTopFacts, BackoffAssumption DEF PlanOK
  <2>3. d.delay \in MinInt .. MaxInt /\ MinInt \in Int
    BY DelayResult, BackoffAssumption DEF MinInt
  <2>4. CASE s.lastRetryAfter > 0 /\ d.delay = s.lastRetryAfter
    <3>1. d.delay <= plan.cap
      BY <1>3, <2>1, <2>4, ExtractedFacts
    <3> QED
      BY <2>2, <2>3, <3>1 DEF Largest
  <2>5. CASE s.lastRetryAfter = 0 /\ d \in FallbackDelay(s, attempt)
    <3>1. d.delay <= BoundOf(plan.strategy)
      BY <2>1, <2>5, FallbackFacts
    <3> QED
      BY <2>2, <2>3, <3>1 DEF Largest
  <2> QED
    BY <1>3, <2>4, <2>5, DelayResult
<1> QED
  BY <1>1, <1>2, <1>3 DEF PlanOK

(* What the new wait follows, for an HTTP-aware strategy.                  *)
LEMMA DelayFollows ==
  ASSUME PlanOK, plan.cmd = "http-aware", attempt \in Nat \ {0},
         NEW s \in StateType, NEW out \in Outputs,
         s.lastRetryAfter = capDelay(Extracted(out)),
         HintsIn(out) \subseteq MinInt .. MaxInt,
         NEW d \in Delay(s, attempt)
  PROVE  LET hints == {h \in HintsIn(out) : h > 0}
         IN  /\ hints = {} =>
                  /\ d.st.lastRetryAfter = 0
                  /\ plan.strategy.kind \notin Randomised =>
                       d.delay \in StrategyDelays(plan.strategy, 0, attempt)
             /\ \A h \in hints : hints = {h} => d.delay = capDelay(h)
<1> DEFINE hints == {h \in HintsIn(out) : h > 0}
<1>1. /\ Extracted(out) \in 0 .. MaxInt /\ capDelay(Extracted(out)) \in 0 .. MaxInt
      /\ capDelay(Extracted(out)) > 0 <=> Extracted(out) > 0
  BY ExtractedFacts
<1>2. /\ Extracted(out) > 0 => Extracted(out) \in HintsIn(out)
      /\ \A h \in HintsIn(out) : h > 0 => Extracted(out) > 0
  BY ExtractedIsHint
<1>3. DelayKeeps(s, d.st)
  BY DelayResult
<1>4. ASSUME hints = {}
      PROVE  /\ d.st.lastRetryAfter = 0
             /\ plan.strategy.kind \notin Randomised =>
                  d.delay \in StrategyDelays(plan.strategy, 0, attempt)
  <2>1. ~(Extracted(out) > 0)
    BY <1>2, <1>4
  <2>2. s.lastRetryAfter = 0
    BY <1>1, <2>1, BackoffAssumption
  <2>3. d.st.lastRetryAfter = 0
    BY <1>3, <2>2 DEF DelayKeeps
  <2>4. d \in FallbackDelay(s, attempt)
    BY <2>2, DelayResult
  <2>5. d.delay \in StrategyDelays(plan.strategy, s.previousDelay, attempt)
        /\ StrategyOK(plan.strategy)
    BY <2>4, FallbackFacts DEF PlanOK
  <2>6. plan.strategy.kind \notin Randomised =>
          d.delay \in StrategyDelays(plan.strategy, 0, attempt)
    BY <2>5, OneDelay
  <2> QED
    BY <2>3, <2>6
<1>5. ASSUME NEW h \in hints, hints = {h}
      PROVE  d.delay = capDelay(h)
  <2>1. Extracted(out) > 0 /\ Extracted(out) \in HintsIn(out)
    BY <1>2
  <2>2. Extracted(out) = h
    BY <1>5, <2>1
  <2>3. s.lastRetryAfter > 0
    BY <1>1, <2>1
  <2>4. d.delay = s.lastRetryAfter
    BY <2>3, DelayResult
  <2> QED
    BY <2>2, <2>4
<1> QED
  BY <1>4, <1>5

(* The end of an attempt keeps the invariant.                              *)
LEMMA FinishKeeps ==
  ASSUME IInv, NEW outcome \in {"success", "failure", "fatal"},
         NEW out \in IF plan.cmd = "http-aware" THEN Outputs ELSE {NoHints},
         FinishAttempt(outcome, out)
  PROVE  IInv'
<1>1. LoopOK /\ PlanOK
  BY PlanFacts DEF IInv, LoopOK
<1>2. /\ pc = "running" /\ plan' = plan /\ attempt' = attempt /\ last'.out = out
      /\ \E s : Ended(s, out)
  BY <1>1, FinishStep
<1>3. PICK s : Ended(s, out)
  BY <1>2
<1>4. s \in StateType /\ attempt \in Nat \ {0} /\ StateType' = StateType
  BY <1>1, <1>2, <1>3, PlanFixed DEF Ended, LoopOK, PlanOK
<1>5. plan.cmd = "adaptive" => WindowFull(s)
  BY <1>3 DEF Ended, Mirrors
<1>6. plan.cmd = "http-aware" =>
        out \in Outputs /\ s.lastRetryAfter = capDelay(Extracted(out))
  BY <1>3 DEF Ended
<1>7. ASSUME LoopOK' PROVE TypeOK'
  <2>1. (LoopOK => TypeOK)'
    BY LoopTyped, PTL
  <2> QED
    BY <1>7, <2>1
<1>8. CASE pc' = "done" /\ st' = s /\ waited' = waited
  <2>1. LoopOK'
    BY <1>1, <1>2, <1>4, <1>5, <1>8 DEF LoopOK, WindowFull
  <2>2. pc' # "waiting" /\ pc' # "running"
    BY <1>8
  <2>3. WaitedByStrategy' /\ WaitFollowsLastOutput'
    BY <2>2 DEF WaitedByStrategy, WaitFollowsLastOutput
  <2>4. WaitWithinBounds'
    BY <1>7, <2>1, <2>2 DEF WaitWithinBounds
  <2> QED
    BY <2>1, <2>3, <2>4 DEF IInv
<1>9. CASE /\ pc' = "waiting" /\ attempt < plan.attempts
           /\ \E d \in Delay(s, attempt) : waited' = d.delay /\ st' = d.st
  <2>1. PICK d \in Delay(s, attempt) : waited' = d.delay /\ st' = d.st
    BY <1>9
  <2>2. d.delay \in MinInt .. MaxInt /\ DelayKeeps(s, d.st)
    BY <1>1, <1>4, DelayResult
  <2>3. LoopOK'
    BY <1>1, <1>2, <1>4, <1>5, <1>9, <2>1, <2>2 DEF LoopOK, WindowFull, DelayKeeps
  <2>4. WaitWithinBounds'
    <3>1. WaitBounded(d.delay)
      BY <1>1, <1>4, <1>6, DelayBounded
    <3>2. TypeOK'
      BY <1>7, <2>3
    <3>3. Regular(plan.strategy, attempt)' <=> Regular(plan.strategy, attempt)
      BY <1>2 DEF Regular, Fits
    <3>4. BoundOf(plan.strategy)' = BoundOf(plan.strategy)
      BY <1>2 DEF BoundOf
    <3> QED
      BY <1>2, <2>1, <3>1, <3>2, <3>3, <3>4 DEF WaitBounded, WaitWithinBounds
  <2>5. WaitFollowsLastOutput'
    <3>1. SUFFICES ASSUME plan.cmd = "http-aware",
                          HintsIn(out) \subseteq MinInt .. MaxInt
                   PROVE  WaitFollowsLastOutput'
      BY <1>2 DEF WaitFollowsLastOutput
    <3> DEFINE hints == {h \in HintsIn(out) : h > 0}
    <3>2. /\ hints = {} => /\ d.st.lastRetryAfter = 0
                           /\ plan.strategy.kind \notin Randomised =>
                                d.delay \in StrategyDelays(plan.strategy, 0, attempt)
          /\ \A h \in hints : hints = {h} => d.delay = capDelay(h)
      BY <1>1, <1>4, <1>6, <3>1, DelayFollows
    <3>3. \A h : capDelay(h)' = capDelay(h)
      BY <1>2 DEF capDelay
    <3>4. StrategyDelays(plan.strategy, 0, attempt)'
          = StrategyDelays(plan.strategy, 0, attempt)
      BY <1>2
    <3>5. HintsIn(last.out)' = HintsIn(out)
      BY <1>2
    <3> QED
      BY <1>2, <2>1, <3>2, <3>3, <3>4, <3>5 DEF WaitFollowsLastOutput
  <2>6. WaitedByStrategy'
    <3>1. PlainWaited(attempt)'
      <4>1. SUFFICES ASSUME plan.cmd = "plain", plan.strategy.kind \notin Randomised
                     PROVE  d.delay \in StrategyDelays(plan.strategy, 0, attempt)
        BY <1>2, <2>1 DEF PlainWaited
      <4>2. d \in FallbackDelay(s, attempt)
        BY <1>1, <1>4, <4>1, DelayResult
      <4>3. d.delay \in StrategyDelays(plan.strategy, s.previousDelay, attempt)
            /\ StrategyOK(plan.strategy)
        BY <1>1, <1>4, <4>2, FallbackFacts DEF PlanOK
      <4> QED
        BY <4>1, <4>3, OneDelay
    <3>2. AdaptiveWaited(attempt)'
      <4>1. SUFFICES ASSUME plan.cmd = "adaptive", plan.strategy.kind \notin Randomised
                     PROVE  \E r \in AdaptiveDelay(st, attempt)' : r.delay = d.delay
        BY <1>2, <2>1 DEF AdaptiveWaited
      <4>2. d \in AdaptiveDelay(s, attempt)
        BY <1>1, <1>4, <4>1, DelayResult
      <4>3. st' = s
        BY <2>1, <2>2, <4>1 DEF DelayKeeps
      <4>4. PICK n : n = attempt
        OBVIOUS
      <4>5. AdaptiveDelay(s, n)' = AdaptiveDelay(s, n)
        BY <1>2, DelayFixed
      <4>6. AdaptiveDelay(st, attempt)' = AdaptiveDelay(s, n)'
        BY <1>2, <4>3, <4>4
      <4> QED
        BY <4>2, <4>4, <4>5, <4>6
    <3> QED
      BY <1>9, <3>1, <3>2 DEF WaitedByStrategy
  <2> QED
    BY <2>3, <2>4, <2>5, <2>6 DEF IInv
<1> QED
  BY <1>3, <1>8, <1>9 DEF Ended

LEMMA NextAttemptKeeps ==
  ASSUME IInv, NextAttempt
  PROVE  IInv'
<1>1. LoopOK /\ PlanOK /\ WaitedByStrategy /\ WaitWithinBounds
  BY PlanFacts DEF IInv, LoopOK
<1>2. /\ pc = "waiting" /\ pc' = "running" /\ attempt' = attempt + 1
      /\ plan' = plan /\ st' = st /\ waited' = waited /\ last' = last
  BY DEF NextAttempt
<1>3. attempt \in Nat \ {0} /\ plan.attempts \in Nat /\ attempt < plan.attempts
  BY <1>1, <1>2 DEF LoopOK, PlanOK
<1>4. attempt' > 1 /\ attempt' \in 1 .. plan.attempts /\ attempt' - 1 = attempt
  BY <1>2, <1>3
<1>5. LoopOK'
  <2>1. StateType' = StateType
    BY <1>2, PlanFixed
  <2> QED
    BY <1>1, <1>2, <1>4, <2>1 DEF LoopOK, WindowFull
<1>6. TypeOK'
  <2>1. (LoopOK => TypeOK)'
    BY LoopTyped, PTL
  <2> QED
    BY <1>5, <2>1
<1>7. WaitWithinBounds' /\ WaitFollowsLastOutput'
  BY <1>2, <1>6 DEF WaitWithinBounds, WaitFollowsLastOutput
<1>8. PlainWaited(attempt - 1)'
  BY <1>1, <1>2, <1>4 DEF WaitedByStrategy, PlainWaited
<1>9. AdaptiveWaited(attempt - 1)'
  <2>1. AdaptiveWaited(attempt)
    BY <1>1, <1>2 DEF WaitedByStrategy
  <2>2. PICK n, t : n = attempt /\ t = st
    OBVIOUS
  <2>3. AdaptiveDelay(t, n)' = AdaptiveDelay(t, n)
    BY <1>2, DelayFixed
  <2>4. AdaptiveDelay(st, attempt - 1)' = AdaptiveDelay(t, n)'
    BY <1>2, <1>4, <2>2
  <2> QED
    BY <1>2, <2>1, <2>2, <2>3, <2>4 DEF AdaptiveWaited
<1>10. WaitedByStrategy'
  BY <1>2, <1>4, <1>8, <1>9 DEF WaitedByStrategy
<1> QED
  BY <1>5, <1>7, <1>10 DEF IInv

LEMMA StutterKeeps ==
  ASSUME IInv, UNCHANGED vars
  PROVE  IInv'
<1>1. /\ plan' = plan /\ pc' = pc /\ attempt' = attempt /\ st' = st
      /\ waited' = waited /\ last' = last
  BY DEF vars
<1>2. LoopOK' /\ WaitedByStrategy' /\ WaitWithinBounds' /\ WaitFollowsLastOutput'
  <2>1. StateType' = StateType
    BY <1>1, PlanFixed
  <2>2. LoopOK'
    BY <1>1, <2>1 DEF IInv, LoopOK, WindowFull
  <2>3. PICK n, t : n = attempt /\ t = st
    OBVIOUS
  <2>4. AdaptiveDelay(st, attempt)' = AdaptiveDelay(st, attempt)
    <3>1. AdaptiveDelay(t, n)' = AdaptiveDelay(t, n)
      BY <1>1, DelayFixed
    <3>2. AdaptiveDelay(st, attempt)' = AdaptiveDelay(t, n)'
      BY <1>1, <2>3
    <3> QED
      BY <2>3, <3>1, <3>2
  <2>5. AdaptiveDelay(st, attempt - 1)' = AdaptiveDelay(st, attempt - 1)
    <3>1. AdaptiveDelay(t, n - 1)' = AdaptiveDelay(t, n - 1)
      BY <1>1, DelayFixed
    <3>2. AdaptiveDelay(st, attempt - 1)' = AdaptiveDelay(t, n - 1)'
      BY <1>1, <2>3
    <3> QED
      BY <2>3, <3>1, <3>2
  <2>6. WaitedByStrategy'
    BY <1>1, <2>4, <2>5 DEF IInv, WaitedByStrategy, PlainWaited, AdaptiveWaited
  <2>7. TypeOK'
    <3>1. (LoopOK => TypeOK)'
      BY LoopTyped, PTL
    <3> QED
      BY <2>2, <3>1
  <2>8. WaitWithinBounds'
    BY <1>1, <2>7 DEF IInv, WaitWithinBounds
  <2>9. WaitFollowsLastOutput'
    <3>1. \A h : capDelay(h)' = capDelay(h)
      BY <1>1 DEF capDelay
    <3> QED
      BY <1>1, <3>1 DEF IInv, WaitFollowsLastOutput
  <2> QED
    BY <2>2, <2>6, <2>8, <2>9
<1> QED
  BY <1>2 DEF IInv

LEMMA InitHolds ==
  ASSUME Init
  PROVE  IInv
<1>1. plan \in Plans /\ PlanOK
  BY PlanFacts DEF Init
<1>2. st = [previousDelay |-> 0, lastRetryAfter |-> 0, recentOutcomes |-> <<>>,
            totalOutcomes |-> 0, delayBuckets |-> NoOutcomes]
  BY DEF Init, NoOutcomes
<1>3. 0 \in MinInt .. MaxInt /\ 0 \in 0 .. MaxInt
  BY BackoffAssumption DEF MinInt
<1>4. NoOutcomes \in [Buckets -> BucketType]
  BY <1>1, NoOutcomesType
<1>5. st \in StateType
  <2> DEFINE Q == Seq(OutcomeType)
             B == [Buckets -> BucketType]
  <2>1. <<>> \in Q /\ NoOutcomes \in B
    BY <1>4
  <2>2. StateType = [previousDelay: MinInt .. MaxInt, lastRetryAfter: 0 .. MaxInt,
                     recentOutcomes: Q, totalOutcomes: Nat, delayBuckets: B]
    BY DEF StateType
  <2> HIDE DEF Q, B
  <2> QED
    BY <1>2, <1>3, <2>1, <2>2
<1>6. plan.cmd = "adaptive" => WindowFull(st)
  <2>1. st.recentOutcomes = <<>> /\ st.totalOutcomes = 0
    BY <1>2
  <2> QED
    BY <1>1, <2>1 DEF WindowFull, PlanOK
<1>7. LoopOK
  <2>1. pc = "running" /\ attempt = 1 /\ waited = 0
    BY DEF Init
  <2>2. 1 \in 1 .. plan.attempts
    BY <1>1 DEF PlanOK
  <2> QED
    BY <1>1, <1>3, <1>5, <1>6, <2>1, <2>2 DEF LoopOK
<1>8. pc = "running" /\ attempt = 1 /\ waited = 0
  BY DEF Init
<1> QED
  BY <1>7, <1>8, LoopTyped
  DEF IInv, WaitedByStrategy, WaitWithinBounds, WaitFollowsLastOutput

LEMMA NextKeeps ==
  ASSUME IInv, [Next]_vars
  PROVE  IInv'
  BY FinishKeeps, NextAttemptKeeps, StutterKeeps DEF Next

LEMMA LoopInvariant ==
  Spec => []IInv
<1>1. Init => IInv
  BY InitHolds
<1>2. IInv /\ [Next]_vars => IInv'
  BY NextKeeps
<1> QED
  BY <1>1, <1>2, PTL DEF Spec

-----------------------------------------------------------------------------
(* What the loop promises, for every strategy, plan and width of integers. *)

(* The type of the fields of the strategies, and the bounds of the waits:  *)
(* Delay of every strategy keeps its maximum, whatever the base delay, the *)
(* multiplier, the number of attempts and the outcomes are, and even if    *)
(* the series overflows.                                                   *)
THEOREM WaitsBounded ==
  Spec => [](TypeOK /\ WaitWithinBounds)
<1>1. IInv => TypeOK /\ WaitWithinBounds
  BY DEF IInv, WaitWithinBounds
<1> QED
  BY <1>1, LoopInvariant, PTL

(* The wait of the HTTP-aware strategy follows the output of the attempt   *)
(* that ended last and no earlier one: ProcessCommandOutput forgets the    *)
(* previous timing first.                                                  *)
THEOREM WaitsFollowOutput ==
  Spec => []WaitFollowsLastOutput
<1>1. IInv => WaitFollowsLastOutput
  BY DEF IInv
<1> QED
  BY <1>1, LoopInvariant, PTL

LEMMA NewWaitNotShorter ==
  ASSUME IInv, IInv', [Next]_vars, plan.cmd = "plain",
         plan.strategy.kind \notin Randomised, Growing(plan.strategy),
         Fits(plan.strategy, attempt),
         pc' = "waiting"
  PROVE  waited' >= waited
<1>1. LoopOK /\ PlanOK /\ WaitedByStrategy /\ WaitedByStrategy'
  BY PlanFacts DEF IInv, LoopOK
<1>2. CASE UNCHANGED vars
  <2>1. waited' = waited /\ waited \in MinInt .. MaxInt /\ MinInt \in Int
    BY <1>1, <1>2, BackoffAssumption DEF vars, LoopOK, MinInt
  <2> QED
    BY <2>1
<1>3. CASE NextAttempt
  BY <1>3 DEF NextAttempt
<1>4. ASSUME NEW outcome \in {"success", "failure", "fatal"},
             NEW out \in IF plan.cmd = "http-aware" THEN Outputs ELSE {NoHints},
             FinishAttempt(outcome, out)
      PROVE  waited' >= waited
  <2>1. pc = "running" /\ plan' = plan /\ attempt' = attempt
    BY <1>1, <1>4, FinishStep
  <2>2. waited' \in StrategyDelays(plan.strategy, 0, attempt)
    <3>1. PlainWaited(attempt)'
      BY <1>1 DEF WaitedByStrategy
    <3> QED
      BY <2>1, <3>1 DEF PlainWaited
  <2>3. attempt \in Nat \ {0} /\ StrategyOK(plan.strategy)
    BY <1>1 DEF LoopOK, PlanOK
  <2>4. CASE attempt = 1
    <3>1. waited = 0
      BY <1>1, <2>1, <2>4 DEF WaitedByStrategy
    <3>2. waited' >= 0
      BY <2>2, <2>3, <2>4, FirstDelay DEF Growing
    <3> QED
      BY <3>1, <3>2
  <2>5. CASE attempt # 1
    <3>1. PICK n \in Nat \ {0} : n + 1 = attempt /\ n = attempt - 1
      BY <2>3, <2>5
    <3>2. PlainWaited(attempt - 1)
      BY <1>1, <2>1, <2>3, <2>5 DEF WaitedByStrategy
    <3>3. waited \in StrategyDelays(plan.strategy, 0, n)
      BY <3>1, <3>2 DEF PlainWaited
    <3>4. waited' \in StrategyDelays(plan.strategy, 0, n + 1) /\ Fits(plan.strategy, n + 1)
      BY <2>2, <3>1
    <3>5. waited <= waited'
      BY <2>3, <3>3, <3>4, DelayGrows
    <3>6. waited \in Int /\ waited' \in Int
      <4>1. waited \in MinInt .. MaxInt /\ (waited \in MinInt .. MaxInt)'
        BY DEF IInv, LoopOK
      <4> QED
        BY <4>1, BackoffAssumption DEF MinInt
    <3> QED
      BY <3>5, <3>6
  <2> QED
    BY <2>4, <2>5
<1> QED
  BY <1>2, <1>3, <1>4 DEF Next

(* For every base delay, multiplier, exponent and maximum that the         *)
(* subcommands accept: where the base delay is not negative, the           *)
(* multiplier of exponential is at least 1 and the retry offset at most an *)
(* hour, and while the series of a strategy without randomness fits the    *)
(* integers, no wait is shorter than the one before, rounding and cap      *)
(* included (Delay of strategy.go, polynomial.go and diophantine.go).      *)
THEOREM WaitsGrow ==
  Spec => WaitsNeverShrink
<1>1. IInv /\ IInv' /\ [Next]_vars =>
        [(/\ plan.cmd = "plain"
          /\ plan.strategy.kind \notin Randomised
          /\ Growing(plan.strategy)
          /\ Fits(plan.strategy, attempt)
          /\ pc' = "waiting")
         => waited' >= waited]_vars
  BY NewWaitNotShorter
<1> QED
  BY <1>1, LoopInvariant, PTL DEF Spec, WaitsNeverShrink

LEMMA AttemptLearned ==
  ASSUME IInv, [Next]_vars, pc = "running", pc' # "running", plan.cmd = "adaptive"
  PROVE  /\ BucketsMirrorWindow'
         /\ (/\ plan.strategy.kind \notin Randomised
             /\ Cardinality(BestBuckets(st)) <= 1)
            => last'.recorded = waited
<1>1. LoopOK /\ PlanOK /\ WaitedByStrategy
  BY PlanFacts DEF IInv, LoopOK
<1>2. PICK outcome \in {"success", "failure", "fatal"},
           out \in IF plan.cmd = "http-aware" THEN Outputs ELSE {NoHints} :
        FinishAttempt(outcome, out)
  BY DEF Next, vars, NextAttempt
<1>3. plan' = plan /\ \E s : Ended(s, out)
  BY <1>1, <1>2, FinishStep
<1>4. PICK s : Ended(s, out)
  BY <1>3
<1>5. s \in StateType /\ Mirrors(s) /\ attempt \in Nat \ {0} /\ st \in StateType
  BY <1>1, <1>4 DEF Ended, LoopOK, PlanOK
<1>6. /\ st'.recentOutcomes = s.recentOutcomes
      /\ st'.totalOutcomes = s.totalOutcomes
      /\ st'.delayBuckets = s.delayBuckets
  <2>1. CASE st' = s
    BY <2>1
  <2>2. CASE \E d \in Delay(s, attempt) : st' = d.st
    <3>1. PICK d \in Delay(s, attempt) : st' = d.st
      BY <2>2
    <3>2. DelayKeeps(s, d.st)
      BY <1>1, <1>5, DelayResult
    <3> QED
      BY <3>1, <3>2 DEF DelayKeeps
  <2> QED
    BY <1>4, <2>1, <2>2 DEF Ended
<1>7. BucketsMirrorWindow'
  BY <1>3, <1>5, <1>6 DEF BucketsMirrorWindow, Mirrors, WindowFull
<1>8. ASSUME plan.strategy.kind \notin Randomised, Cardinality(BestBuckets(st)) <= 1
      PROVE  last'.recorded = waited
  <2>1. CASE attempt = 1
    <3>1. waited = 0 /\ last'.recorded = 0
      BY <1>1, <1>4, <2>1 DEF WaitedByStrategy, Ended
    <3> QED
      BY <3>1
  <2>2. CASE attempt # 1
    <3>1. attempt > 1 /\ attempt - 1 \in Nat \ {0}
      BY <1>5, <2>2
    <3>2. PICK r \in AdaptiveDelay(st, attempt - 1) : last'.recorded = r.delay
      BY <1>4, <2>2 DEF Ended
    <3>3. AdaptiveWaited(attempt - 1)
      BY <1>1, <3>1 DEF WaitedByStrategy
    <3>4. PICK q \in AdaptiveDelay(st, attempt - 1) : q.delay = waited
      BY <1>8, <3>3 DEF AdaptiveWaited
    <3>5. r = q
      BY <1>1, <1>5, <1>8, <3>1, AdaptiveOne
    <3> QED
      BY <3>2, <3>4, <3>5
  <2> QED
    BY <2>1, <2>2
<1> QED
  BY <1>7, <1>8

(* The adaptive strategy learns what happened: the buckets mirror the      *)
(* window after every attempt, and the delay that recordStrategyOutcome    *)
(* computes again is the one that was waited, if the fallback is not       *)
(* random and one bucket is the best.                                      *)
THEOREM LearningIsTrue ==
  Spec => LearnsWhatHappened
<1>1. IInv /\ [Next]_vars =>
        [pc = "running" /\ pc' # "running" /\ plan.cmd = "adaptive" =>
           /\ BucketsMirrorWindow'
           /\ (/\ plan.strategy.kind \notin Randomised
               /\ Cardinality(BestBuckets(st)) <= 1)
              => last'.recorded = waited]_vars
  BY AttemptLearned
<1> QED
  BY <1>1, LoopInvariant, PTL DEF Spec, LearnsWhatHappened

-----------------------------------------------------------------------------
(* The metrics storage: its three loops, turn by turn.                     *)

CollectedBy(f, ms, S) ==
  /\ f[0] = <<>>
  /\ \A i \in 1 .. Len(ms) :
       f[i] = IF i \in S THEN Append(f[i - 1], ms[i]) ELSE f[i - 1]

LEMMA CollectUnfolds ==
  ASSUME NEW R, NEW ms \in Seq(R), NEW S
  PROVE  \E f : CollectedBy(f, ms, S) /\ Collect(ms, S) = f[Len(ms)]
<1> DEFINE n == Len(ms)
           Step(y, i) == IF i \in S THEN Append(y, ms[i]) ELSE y
           Eq(f) == f = [i \in 0 .. n |-> IF i = 0 THEN <<>> ELSE Step(f[i - 1], i)]
           T == {m \in Nat : \E p : p = [i \in 0 .. m |-> IF i = 0 THEN <<>>
                                                          ELSE Step(p[i - 1], i)]}
           kept == CHOOSE f : Eq(f)
<1>1. n \in Nat
  OBVIOUS
<1> HIDE DEF n, Step
<1>2. 0 \in T
  <2> DEFINE p == [i \in 0 .. 0 |-> <<>>]
  <2>1. p = [i \in 0 .. 0 |-> IF i = 0 THEN <<>> ELSE Step(p[i - 1], i)]
    OBVIOUS
  <2> QED
    BY <2>1
<1>3. ASSUME NEW m \in Nat, m \in T PROVE m + 1 \in T
  <2>1. PICK p : p = [i \in 0 .. m |-> IF i = 0 THEN <<>> ELSE Step(p[i - 1], i)]
    BY <1>3
  <2> DEFINE q == [i \in 0 .. m + 1 |-> IF i = m + 1 THEN Step(p[m], m + 1) ELSE p[i]]
  <2>2. ASSUME NEW i \in 0 .. m + 1
        PROVE  q[i] = IF i = 0 THEN <<>> ELSE Step(q[i - 1], i)
    <3>1. CASE i = m + 1
      <4>1. q[i] = Step(p[m], m + 1) /\ q[i - 1] = p[m] /\ i # 0
        BY <3>1
      <4> QED
        BY <3>1, <4>1
    <3>2. CASE i # m + 1
      <4>1. i \in 0 .. m /\ q[i] = p[i] /\ (i # 0 => q[i - 1] = p[i - 1])
        BY <3>2
      <4>2. p[i] = IF i = 0 THEN <<>> ELSE Step(p[i - 1], i)
        BY <2>1, <4>1
      <4> QED
        BY <4>1, <4>2
    <3> QED
      BY <3>1, <3>2
  <2>3. q = [i \in 0 .. m + 1 |-> q[i]]
    OBVIOUS
  <2> HIDE DEF q
  <2>4. q = [i \in 0 .. m + 1 |-> IF i = 0 THEN <<>> ELSE Step(q[i - 1], i)]
    BY <2>2, <2>3
  <2> QED
    BY <2>4
<1>4. n \in T
  <2> HIDE DEF T
  <2> QED
    BY <1>1, <1>2, <1>3, Induction
<1>5. Eq(kept)
  BY <1>4
<1>6. Collect(ms, S) = kept[n]
  BY DEF Collect, Step, n
<1> HIDE DEF kept
<1>7. \A i \in 0 .. n : kept[i] = IF i = 0 THEN <<>> ELSE Step(kept[i - 1], i)
  BY <1>5
<1>8. kept[0] = <<>> /\ \A i \in 1 .. n : kept[i] = Step(kept[i - 1], i)
  BY <1>1, <1>7
<1> QED
  BY <1>6, <1>8 DEF CollectedBy, Step, n

CountedBy(f, ms) ==
  /\ f[0] = EmptyStats
  /\ \A i \in 1 .. Len(ms) : f[i] = CountRun(f[i - 1], ms[i])

LEMMA CountRunsUnfolds ==
  ASSUME NEW R, NEW ms \in Seq(R)
  PROVE  \E f : CountedBy(f, ms) /\ CountRuns(ms) = f[Len(ms)]
<1> DEFINE n == Len(ms)
           Step(y, i) == CountRun(y, ms[i])
           Eq(f) == f = [i \in 0 .. n |-> IF i = 0 THEN EmptyStats ELSE Step(f[i - 1], i)]
           T == {m \in Nat : \E p : p = [i \in 0 .. m |-> IF i = 0 THEN EmptyStats
                                                          ELSE Step(p[i - 1], i)]}
           stats == CHOOSE f : Eq(f)
<1>1. n \in Nat
  OBVIOUS
<1> HIDE DEF n, Step
<1>2. 0 \in T
  <2> DEFINE p == [i \in 0 .. 0 |-> EmptyStats]
  <2>1. p = [i \in 0 .. 0 |-> IF i = 0 THEN EmptyStats ELSE Step(p[i - 1], i)]
    OBVIOUS
  <2> QED
    BY <2>1
<1>3. ASSUME NEW m \in Nat, m \in T PROVE m + 1 \in T
  <2>1. PICK p : p = [i \in 0 .. m |-> IF i = 0 THEN EmptyStats ELSE Step(p[i - 1], i)]
    BY <1>3
  <2> DEFINE q == [i \in 0 .. m + 1 |-> IF i = m + 1 THEN Step(p[m], m + 1) ELSE p[i]]
  <2>2. ASSUME NEW i \in 0 .. m + 1
        PROVE  q[i] = IF i = 0 THEN EmptyStats ELSE Step(q[i - 1], i)
    <3>1. CASE i = m + 1
      <4>1. q[i] = Step(p[m], m + 1) /\ q[i - 1] = p[m] /\ i # 0
        BY <3>1
      <4> QED
        BY <3>1, <4>1
    <3>2. CASE i # m + 1
      <4>1. i \in 0 .. m /\ q[i] = p[i] /\ (i # 0 => q[i - 1] = p[i - 1])
        BY <3>2
      <4>2. p[i] = IF i = 0 THEN EmptyStats ELSE Step(p[i - 1], i)
        BY <2>1, <4>1
      <4> QED
        BY <4>1, <4>2
    <3> QED
      BY <3>1, <3>2
  <2>3. q = [i \in 0 .. m + 1 |-> q[i]]
    OBVIOUS
  <2> HIDE DEF q
  <2>4. q = [i \in 0 .. m + 1 |-> IF i = 0 THEN EmptyStats ELSE Step(q[i - 1], i)]
    BY <2>2, <2>3
  <2> QED
    BY <2>4
<1>4. n \in T
  <2> HIDE DEF T
  <2> QED
    BY <1>1, <1>2, <1>3, Induction
<1>5. Eq(stats)
  BY <1>4
<1>6. CountRuns(ms) = stats[n]
  BY DEF CountRuns, Step, n
<1> HIDE DEF stats
<1>7. \A i \in 0 .. n : stats[i] = IF i = 0 THEN EmptyStats ELSE Step(stats[i - 1], i)
  BY <1>5
<1>8. stats[0] = EmptyStats /\ \A i \in 1 .. n : stats[i] = Step(stats[i - 1], i)
  BY <1>1, <1>7
<1> QED
  BY <1>6, <1>8 DEF CountedBy, Step, n

SummedBy(f, S) ==
  /\ f[0] = 0
  /\ \A i \in 1 .. Len(metrics) :
       f[i] = f[i - 1] + (IF i \in S THEN metrics[i].run.duration ELSE 0)

LEMMA TotalDurationUnfolds ==
  ASSUME NEW R, metrics \in Seq(R), NEW S
  PROVE  \E f : SummedBy(f, S) /\ TotalDuration(S) = f[Len(metrics)]
<1> DEFINE n == Len(metrics)
           Step(y, i) == y + (IF i \in S THEN metrics[i].run.duration ELSE 0)
           Eq(f) == f = [i \in 0 .. n |-> IF i = 0 THEN 0 ELSE Step(f[i - 1], i)]
           T == {m \in Nat : \E p : p = [i \in 0 .. m |-> IF i = 0 THEN 0
                                                          ELSE Step(p[i - 1], i)]}
           total == CHOOSE f : Eq(f)
<1>1. n \in Nat
  OBVIOUS
<1> HIDE DEF n, Step
<1>2. 0 \in T
  <2> DEFINE p == [i \in 0 .. 0 |-> 0]
  <2>1. p = [i \in 0 .. 0 |-> IF i = 0 THEN 0 ELSE Step(p[i - 1], i)]
    OBVIOUS
  <2> QED
    BY <2>1
<1>3. ASSUME NEW m \in Nat, m \in T PROVE m + 1 \in T
  <2>1. PICK p : p = [i \in 0 .. m |-> IF i = 0 THEN 0 ELSE Step(p[i - 1], i)]
    BY <1>3
  <2> DEFINE q == [i \in 0 .. m + 1 |-> IF i = m + 1 THEN Step(p[m], m + 1) ELSE p[i]]
  <2>2. ASSUME NEW i \in 0 .. m + 1
        PROVE  q[i] = IF i = 0 THEN 0 ELSE Step(q[i - 1], i)
    <3>1. CASE i = m + 1
      <4>1. q[i] = Step(p[m], m + 1) /\ q[i - 1] = p[m] /\ i # 0
        BY <3>1
      <4> QED
        BY <3>1, <4>1
    <3>2. CASE i # m + 1
      <4>1. i \in 0 .. m /\ q[i] = p[i] /\ (i # 0 => q[i - 1] = p[i - 1])
        BY <3>2
      <4>2. p[i] = IF i = 0 THEN 0 ELSE Step(p[i - 1], i)
        BY <2>1, <4>1
      <4> QED
        BY <4>1, <4>2
    <3> QED
      BY <3>1, <3>2
  <2>3. q = [i \in 0 .. m + 1 |-> q[i]]
    OBVIOUS
  <2> HIDE DEF q
  <2>4. q = [i \in 0 .. m + 1 |-> IF i = 0 THEN 0 ELSE Step(q[i - 1], i)]
    BY <2>2, <2>3
  <2> QED
    BY <2>4
<1>4. n \in T
  <2> HIDE DEF T
  <2> QED
    BY <1>1, <1>2, <1>3, Induction
<1>5. Eq(total)
  BY <1>4
<1>6. TotalDuration(S) = total[n]
  BY DEF TotalDuration, Step, n
<1> HIDE DEF total
<1>7. \A i \in 0 .. n : total[i] = IF i = 0 THEN 0 ELSE Step(total[i - 1], i)
  BY <1>5
<1>8. total[0] = 0 /\ \A i \in 1 .. n : total[i] = Step(total[i - 1], i)
  BY <1>1, <1>7
<1> QED
  BY <1>6, <1>8 DEF SummedBy, Step, n

-----------------------------------------------------------------------------
(* Cleanup.  The timestamps are sorted, therefore what is young is the end *)
(* of the slice, and what the two steps leave is its end, too.             *)

Metric == [ts: 0 .. MaxTime, run: RunMetrics]

Sorted(ms) == \A i, j \in DOMAIN ms : i <= j => ms[i].ts <= ms[j].ts

(* out is what is left of ms without its first Len(ms) - Len(out) members. *)
IsEndOf(out, ms) ==
  /\ Len(out) <= Len(ms)
  /\ \A j \in 1 .. Len(out) : out[j] = ms[Len(ms) - Len(out) + j]

LEMMA CollectEnd ==
  ASSUME NEW R, NEW ms \in Seq(R), NEW k \in 0 .. Len(ms), NEW S,
         \A i \in 1 .. Len(ms) : i \in S <=> i > k
  PROVE  /\ Collect(ms, S) \in Seq(R) /\ Len(Collect(ms, S)) = Len(ms) - k
         /\ IsEndOf(Collect(ms, S), ms)
<1> DEFINE n == Len(ms)
<1>1. PICK f : CollectedBy(f, ms, S) /\ Collect(ms, S) = f[n]
  BY CollectUnfolds
<1>2. n \in Nat /\ k \in 0 .. n /\ \A i \in 1 .. n : ms[i] \in R
  OBVIOUS
<1>3. f[0] = <<>> /\ \A i \in 1 .. n :
        f[i] = IF i \in S THEN Append(f[i - 1], ms[i]) ELSE f[i - 1]
  BY <1>1 DEF CollectedBy
<1>4. \A i \in 1 .. n : i \in S <=> i > k
  OBVIOUS
<1> HIDE DEF n
<1> DEFINE Good1(i) == /\ f[i] \in Seq(R)
                       /\ Len(f[i]) = IF i <= k THEN 0 ELSE i - k
                       /\ \A j \in 1 .. Len(f[i]) : f[i][j] = ms[k + j]
           T == {i \in Nat : i <= n => Good1(i)}
<1>5. 0 \in T
  <2>1. f[0] \in Seq(R) /\ Len(f[0]) = 0
    BY <1>3, EmptySeq
  <2>2. 0 <= k /\ 1 .. 0 = {}
    BY <1>2
  <2> QED
    BY <2>1, <2>2
<1>6. ASSUME NEW i \in Nat, i \in T PROVE i + 1 \in T
  <2>1. SUFFICES ASSUME i + 1 <= n PROVE Good1(i + 1)
    OBVIOUS
  <2>2. i + 1 \in 1 .. n /\ (i + 1) - 1 = i /\ Good1(i)
    BY <1>2, <1>6, <2>1
  <2>3. f[i + 1] = IF i + 1 > k THEN Append(f[i], ms[i + 1]) ELSE f[i]
    BY <1>3, <1>4, <2>2
  <2>4. CASE i + 1 > k
    <3>1. f[i + 1] = Append(f[i], ms[i + 1]) /\ ms[i + 1] \in R
      BY <1>2, <2>2, <2>3, <2>4
    <3>2. Len(f[i]) = i - k
      BY <1>2, <2>2, <2>4
    <3> DEFINE g == f[i]
               x == ms[i + 1]
    <3>3. g \in Seq(R) /\ x \in R /\ Len(g) = i - k
          /\ \A j \in 1 .. Len(g) : g[j] = ms[k + j]
      BY <2>2, <3>1, <3>2
    <3> HIDE DEF g, x
    <3>4. /\ Append(g, x) \in Seq(R) /\ Len(Append(g, x)) = Len(g) + 1
          /\ \A j \in 1 .. Len(g) : Append(g, x)[j] = g[j]
          /\ Append(g, x)[Len(g) + 1] = x
      BY <3>3, AppendProperties
    <3>5. (i - k) + 1 = (i + 1) - k /\ k + ((i - k) + 1) = i + 1 /\ i - k \in Nat
      BY <1>2, <2>4
    <3>6. ASSUME NEW j \in 1 .. (i - k) + 1 PROVE Append(g, x)[j] = ms[k + j]
      <4>1. CASE j <= i - k
        <5>1. j \in 1 .. Len(g)
          BY <1>2, <3>3, <3>5, <4>1
        <5> QED
          BY <3>3, <3>4, <5>1
      <4>2. CASE ~(j <= i - k)
        <5>1. j = Len(g) + 1 /\ k + j = i + 1
          BY <1>2, <3>3, <3>5, <4>2
        <5> QED
          BY <3>4, <5>1 DEF x
      <4> QED
        BY <4>1, <4>2
    <3>7. f[i + 1] = Append(g, x) /\ ~(i + 1 <= k)
      BY <1>2, <2>4, <3>1 DEF g, x
    <3>8. Len(f[i + 1]) = (i + 1) - k
      BY <3>3, <3>4, <3>5, <3>7
    <3> QED
      BY <3>4, <3>5, <3>6, <3>7, <3>8
  <2>5. CASE ~(i + 1 > k)
    <3>1. f[i + 1] = f[i] /\ i <= k /\ i + 1 <= k
      BY <1>2, <2>3, <2>5
    <3> QED
      BY <2>2, <3>1
  <2> QED
    BY <2>4, <2>5
<1>7. n \in T
  <2> HIDE DEF T
  <2> QED
    BY <1>2, <1>5, <1>6, Induction
<1>8. f[n] \in Seq(R) /\ Len(f[n]) = n - k /\ \A j \in 1 .. Len(f[n]) : f[n][j] = ms[k + j]
  <2>1. n <= n /\ (IF n <= k THEN 0 ELSE n - k) = n - k
    BY <1>2
  <2>2. Good1(n)
    BY <1>7, <2>1, Zenon
  <2> QED
    BY <2>1, <2>2, Zenon
<1>9. IsEndOf(f[n], ms)
  BY <1>2, <1>8 DEF IsEndOf, n
<1> QED
  BY <1>1, <1>8, <1>9 DEF n

LEMMA YoungEnd ==
  ASSUME NEW R, NEW ms \in Seq(R), \A i \in DOMAIN ms : ms[i].ts \in Int,
         Sorted(ms), NEW cut \in Int
  PROVE  \E k \in 0 .. Len(ms) :
           {i \in DOMAIN ms : ms[i].ts > cut} = k + 1 .. Len(ms)
<1> DEFINE n == Len(ms)
           Y == {i \in DOMAIN ms : ms[i].ts > cut}
<1>1. n \in Nat /\ DOMAIN ms = 1 .. n
  OBVIOUS
<1>2. CASE Y = {}
  <2>1. Y = n + 1 .. n /\ n \in 0 .. n
    BY <1>1, <1>2
  <2> QED
    BY <2>1
<1>3. CASE Y # {}
  <2>1. Y \in SUBSET Nat
    BY <1>1
  <2>2. PICK m \in Y : \A j \in Y : m <= j
    <3> HIDE DEF Y
    <3> QED
      BY <1>3, <2>1, SmallestElement
  <2>3. m \in 1 .. n /\ ms[m].ts > cut
    BY <1>1
  <2>4. ASSUME NEW i \in 1 .. n, m <= i PROVE ms[i].ts > cut
    <3>1. ms[m].ts <= ms[i].ts /\ ms[m].ts \in Int /\ ms[i].ts \in Int
      BY <1>1, <2>3, <2>4 DEF Sorted
    <3> QED
      BY <2>3, <3>1
  <2>5. Y = m .. n
    BY <1>1, <2>2, <2>3, <2>4
  <2>6. m - 1 \in 0 .. n /\ (m - 1) + 1 = m
    BY <1>1, <2>3
  <2> QED
    BY <2>5, <2>6
<1> QED
  BY <1>2, <1>3

LEMMA CleanupFacts ==
  ASSUME NEW ms \in Seq(Metric), Sorted(ms), now \in Int
  PROVE  LET out == Trim(KeepYoung(ms))
         IN  /\ out \in Seq(Metric) /\ IsEndOf(out, ms) /\ Len(out) <= MaxSize
             /\ \A j \in 1 .. Len(out) : out[j].ts > now - MaxAge
             /\ \A i \in 1 .. Len(ms) - Len(out) :
                  ms[i].ts > now - MaxAge => Len(out) >= MaxSize
<1> DEFINE n == Len(ms)
           cut == now - MaxAge
           Y == {i \in DOMAIN ms : ms[i].ts > cut}
           young == KeepYoung(ms)
           out == Trim(young)
<1>1. n \in Nat /\ DOMAIN ms = 1 .. n /\ cut \in Int
  BY StorageAssumption
<1>2. \A i \in DOMAIN ms : ms[i].ts \in Int
  <2>1. \A i \in DOMAIN ms : ms[i] \in Metric
    BY <1>1, ElementOfSeq
  <2> QED
    BY <2>1, StorageAssumption DEF Metric
<1>3. PICK k \in 0 .. n : Y = k + 1 .. n
  BY <1>1, <1>2, YoungEnd
<1>4. young = Collect(ms, Y)
  BY DEF KeepYoung
<1>5. \A i \in 1 .. n : ms[i].ts > cut <=> i > k
  <2>1. \A i \in 1 .. n : i \in Y <=> i > k
    <3> HIDE DEF Y
    <3> QED
      BY <1>1, <1>3
  <2> QED
    BY <1>1, <2>1
<1> HIDE DEF Y
<1>6. young \in Seq(Metric) /\ Len(young) = n - k /\ IsEndOf(young, ms)
  <2>1. \A i \in 1 .. n : i \in Y <=> i > k
    BY <1>1, <1>3
  <2> QED
    BY <1>3, <1>4, <2>1, CollectEnd
<1> HIDE DEF young, cut
<1>7. \A j \in 1 .. n - k : young[j] = ms[k + j]
  BY <1>1, <1>3, <1>6 DEF IsEndOf
<1> DEFINE Fine == /\ out \in Seq(Metric) /\ IsEndOf(out, ms) /\ Len(out) <= MaxSize
                   /\ \A j \in 1 .. Len(out) : out[j].ts > cut
                   /\ \A i \in 1 .. n - Len(out) :
                        ms[i].ts > cut => Len(out) >= MaxSize
<1>8. k \in Nat /\ k <= n /\ n \in Nat /\ MaxSize \in Nat
  BY <1>1, <1>3, StorageAssumption
<1>9. ASSUME NEW l \in Nat, out \in Seq(Metric), Len(out) = l, l <= n - k,
             \A j \in 1 .. l : out[j] = ms[n - l + j],
             l <= MaxSize, l = n - k \/ l = MaxSize
      PROVE  Fine
  <2> HIDE DEF out
  <2>1. IsEndOf(out, ms)
    <3>1. l <= n
      BY <1>8, <1>9
    <3> QED
      BY <1>9, <3>1 DEF IsEndOf
  <2>2. ASSUME NEW j \in 1 .. l PROVE out[j].ts > cut
    <3> HIDE DEF n
    <3>1. n - l + j \in 1 .. n /\ n - l + j > k
      <4>1. l <= n - k
        BY <1>9
      <4> QED
        BY <1>8, <4>1
    <3> QED
      BY <1>5, <1>9, <3>1
  <2>3. ASSUME NEW i \in 1 .. n - l, ms[i].ts > cut PROVE l >= MaxSize
    <3> HIDE DEF n
    <3>1. i \in 1 .. n
      BY <1>8
    <3>2. i > k
      BY <1>5, <2>3, <3>1
    <3>3. l # n - k
      BY <1>8, <3>2
    <3> QED
      BY <1>8, <1>9, <3>3
  <2> QED
    BY <1>9, <2>1, <2>2, <2>3
<1>10. CASE n - k > MaxSize
  <2> DEFINE a == (n - k) - MaxSize + 1
             b == n - k
  <2>1. out = SubSeq(young, a, b)
    BY <1>6, <1>10 DEF Trim
  <2>2. /\ a \in Int /\ b \in Int /\ 1 <= a /\ b - a + 1 = MaxSize
        /\ (IF a <= b THEN b - a + 1 ELSE 0) = MaxSize
    <3>1. b \in Int /\ b > MaxSize
      BY <1>8, <1>10
    <3>2. a = b - MaxSize + 1
      OBVIOUS
    <3> HIDE DEF n, a, b
    <3> QED
      BY <1>8, <3>1, <3>2
  <2>3. \A i \in a .. b : young[i] \in Metric
    <3>1. \A i \in 1 .. b : young[i] \in Metric
      BY <1>6, ElementOfSeq
    <3> HIDE DEF a, b
    <3> QED
      BY <2>2, <3>1
  <2>4. /\ out \in Seq(Metric) /\ Len(out) = MaxSize
        /\ \A j \in 1 .. MaxSize : out[j] = young[a + j - 1]
    <3> HIDE DEF a, b, out
    <3> QED
      BY <2>1, <2>2, <2>3, SubSeqProperties
  <2>5. ASSUME NEW j \in 1 .. MaxSize PROVE out[j] = ms[n - MaxSize + j]
    <3>1. a + j - 1 \in 1 .. n - k /\ k + (a + j - 1) = n - MaxSize + j
      <4> HIDE DEF n
      <4> QED
        BY <1>8, <1>10
    <3> HIDE DEF a, b, n, out
    <3> QED
      BY <1>7, <2>4, <3>1
  <2>6. MaxSize <= n - k
    <3> HIDE DEF n
    <3> QED
      BY <1>8, <1>10
  <2>7. Fine
    <3> HIDE DEF out, Fine, n, a, b
    <3> QED
      BY <1>8, <1>9, <2>4, <2>5, <2>6
  <2> QED
    BY <2>7 DEF cut, out, young
<1>11. CASE ~(n - k > MaxSize)
  <2>1. out = young
    BY <1>6, <1>11 DEF Trim
  <2> DEFINE l == n - k
  <2>2. l \in Nat /\ l <= MaxSize /\ \A j \in 1 .. l : n - l + j = k + j
    <3> HIDE DEF n
    <3> QED
      BY <1>8, <1>11
  <2>3. out \in Seq(Metric) /\ Len(out) = l /\ \A j \in 1 .. l : out[j] = ms[n - l + j]
    <3> HIDE DEF n, out
    <3> QED
      BY <1>6, <1>7, <2>1, <2>2
  <2>4. Fine
    <3>1. l = n - k /\ l <= n - k
      BY <1>8
    <3> HIDE DEF out, Fine, n, l
    <3> QED
      BY <1>9, <2>2, <2>3, <3>1
  <2> QED
    BY <2>4 DEF cut, out, young
<1> QED
  BY <1>10, <1>11

(* The inductive invariant: the timestamps rise, none is in the future,    *)
(* and storage is the end of all that was stored.                          *)
StorageInv ==
  /\ StorageTypeOK
  /\ Sorted(history)
  /\ \A i \in DOMAIN history : history[i].ts <= now
  /\ IsEndOf(metrics, history)
  /\ \A i \in 1 .. Len(history) - Len(metrics) :
       history[i].ts > now - MaxAge => Len(metrics) >= MaxSize

LEMMA StorageTypes ==
  ASSUME StorageInv
  PROVE  /\ now \in Nat /\ MaxTime \in Nat /\ now <= MaxTime
         /\ metrics \in Seq(Metric) /\ history \in Seq(Metric)
         /\ lastCleanup \in 0 .. now
         /\ Len(metrics) \in Nat /\ Len(history) \in Nat
         /\ DOMAIN metrics = 1 .. Len(metrics) /\ DOMAIN history = 1 .. Len(history)
         /\ \A i \in 1 .. Len(metrics) : metrics[i] \in Metric
         /\ \A i \in 1 .. Len(history) : history[i] \in Metric /\ history[i].ts \in Nat
<1>1. /\ now \in Nat /\ MaxTime \in Nat /\ now <= MaxTime /\ lastCleanup \in 0 .. now
  BY StorageAssumption DEF StorageInv, StorageTypeOK
<1>2. metrics \in Seq(Metric) /\ history \in Seq(Metric)
  BY DEF StorageInv, StorageTypeOK, Metric
<1>3. \A m \in Metric : m.ts \in Nat
  BY StorageAssumption DEF Metric
<1>4. /\ Len(metrics) \in Nat /\ Len(history) \in Nat
      /\ DOMAIN metrics = 1 .. Len(metrics) /\ DOMAIN history = 1 .. Len(history)
  BY <1>2, LenProperties
<1>5. /\ \A i \in 1 .. Len(metrics) : metrics[i] \in Metric
      /\ \A i \in 1 .. Len(history) : history[i] \in Metric
  BY <1>2, ElementOfSeq
<1> QED
  BY <1>1, <1>2, <1>3, <1>4, <1>5

(* The end of an end is an end, and both may grow by one.                  *)
LEMMA EndOfEnd ==
  ASSUME NEW R, NEW a \in Seq(R), NEW b \in Seq(R), NEW c \in Seq(R),
         IsEndOf(a, b), IsEndOf(b, c)
  PROVE  IsEndOf(a, c)
<1> DEFINE l == Len(a)
           m == Len(b)
           n == Len(c)
<1>1. l \in Nat /\ m \in Nat /\ n \in Nat /\ l <= m /\ m <= n
  BY LenProperties DEF IsEndOf
<1>2. ASSUME NEW j \in 1 .. l PROVE a[j] = c[n - l + j]
  <2>1. a[j] = b[m - l + j]
    BY DEF IsEndOf
  <2>2. \A i \in 1 .. m : b[i] = c[n - m + i]
    BY DEF IsEndOf
  <2> HIDE DEF l, m, n
  <2>3. m - l + j \in 1 .. m /\ n - m + (m - l + j) = n - l + j
    BY <1>1
  <2> QED
    BY <2>1, <2>2, <2>3
<1>3. l <= n
  <2> HIDE DEF l, m, n
  <2> QED
    BY <1>1
<1> QED
  BY <1>2, <1>3 DEF IsEndOf

LEMMA EndGrows ==
  ASSUME NEW R, NEW a \in Seq(R), NEW b \in Seq(R), NEW x \in R, IsEndOf(a, b)
  PROVE  IsEndOf(Append(a, x), Append(b, x))
<1> DEFINE l == Len(a)
           n == Len(b)
           ax == Append(a, x)
           bx == Append(b, x)
<1>1. l \in Nat /\ n \in Nat /\ l <= n
  BY LenProperties DEF IsEndOf
<1>2. /\ Len(ax) = l + 1 /\ Len(bx) = n + 1
      /\ \A i \in 1 .. l : ax[i] = a[i]
      /\ \A i \in 1 .. n : bx[i] = b[i]
      /\ ax[l + 1] = x /\ bx[n + 1] = x
  BY AppendProperties
<1>3. \A j \in 1 .. l : a[j] = b[n - l + j]
  BY DEF IsEndOf
<1> HIDE DEF l, n, ax, bx
<1>4. ASSUME NEW j \in 1 .. l + 1 PROVE ax[j] = bx[(n + 1) - (l + 1) + j]
  <2>1. (n + 1) - (l + 1) + j = n - l + j
    BY <1>1
  <2>2. CASE j <= l
    <3>1. j \in 1 .. l /\ n - l + j \in 1 .. n
      BY <1>1, <2>2
    <3> QED
      BY <1>2, <1>3, <2>1, <3>1
  <2>3. CASE ~(j <= l)
    <3>1. j = l + 1 /\ n - l + j = n + 1
      BY <1>1, <2>3
    <3> QED
      BY <1>2, <2>1, <3>1
  <2> QED
    BY <2>2, <2>3
<1>5. l + 1 <= n + 1
  BY <1>1
<1>6. IsEndOf(ax, bx)
  BY <1>2, <1>4, <1>5 DEF IsEndOf
<1> QED
  BY <1>6 DEF ax, bx

LEMMA EndSorted ==
  ASSUME NEW R, NEW a \in Seq(R), NEW b \in Seq(R), IsEndOf(a, b), Sorted(b)
  PROVE  Sorted(a)
<1> DEFINE l == Len(a)
           n == Len(b)
<1>1. l \in Nat /\ n \in Nat /\ l <= n /\ DOMAIN a = 1 .. l /\ DOMAIN b = 1 .. n
  BY LenProperties DEF IsEndOf
<1>2. \A j \in 1 .. l : a[j] = b[n - l + j]
  BY DEF IsEndOf
<1>3. \A i, j \in 1 .. n : i <= j => b[i].ts <= b[j].ts
  BY <1>1 DEF Sorted
<1> HIDE DEF l, n
<1>4. ASSUME NEW i \in 1 .. l, NEW j \in 1 .. l, i <= j PROVE a[i].ts <= a[j].ts
  <2>1. n - l + i \in 1 .. n /\ n - l + j \in 1 .. n /\ n - l + i <= n - l + j
    BY <1>1, <1>4
  <2> QED
    BY <1>2, <1>3, <2>1
<1> QED
  BY <1>1, <1>4 DEF Sorted

LEMMA StoreKeeps ==
  ASSUME StorageInv, NEW m \in RunMetrics, Store(m)
  PROVE  StorageInv'
<1> DEFINE x == StoredMetric(now, m)
           h == Append(history, x)
           app == Append(metrics, x)
           n == Len(history)
           l == Len(metrics)
           cut == now - MaxAge
<1>1. /\ now \in Nat /\ MaxTime \in Nat /\ now <= MaxTime /\ lastCleanup \in 0 .. now
      /\ metrics \in Seq(Metric) /\ history \in Seq(Metric) /\ l \in Nat /\ n \in Nat
      /\ DOMAIN history = 1 .. n
      /\ \A i \in 1 .. n : history[i].ts \in Nat
  BY StorageTypes
<1>2. now' = now /\ history' = h
  BY DEF Store
<1>3. \/ metrics' = app /\ lastCleanup' = lastCleanup
      \/ metrics' = Trim(KeepYoung(app)) /\ lastCleanup' = now
  BY DEF Store
<1>4. x \in Metric /\ x.ts = now
  BY <1>1 DEF Metric, StoredMetric
<1>5. /\ Sorted(history) /\ \A i \in 1 .. n : history[i].ts <= now
      /\ IsEndOf(metrics, history) /\ l <= n
      /\ \A i \in 1 .. n - l : history[i].ts > cut => l >= MaxSize
  BY <1>1 DEF StorageInv, IsEndOf
<1> HIDE DEF x
<1>6. /\ h \in Seq(Metric) /\ Len(h) = n + 1 /\ DOMAIN h = 1 .. n + 1
      /\ \A i \in 1 .. n : h[i] = history[i]
      /\ h[n + 1] = x
  BY <1>1, <1>4, AppendProperties, LenProperties
<1>7. app \in Seq(Metric) /\ Len(app) = l + 1
  BY <1>1, <1>4, AppendProperties
<1>8. IsEndOf(app, h)
  BY <1>1, <1>4, <1>5, EndGrows
<1> HIDE DEF h, app
<1>9. \A i \in 1 .. n + 1 : h[i].ts \in Nat /\ h[i].ts <= now
  <2>1. ASSUME NEW i \in 1 .. n + 1 PROVE h[i].ts \in Nat /\ h[i].ts <= now
    <3>1. CASE i \in 1 .. n
      BY <1>1, <1>5, <1>6, <3>1
    <3>2. CASE i = n + 1
      BY <1>1, <1>4, <1>6, <3>2
    <3> QED
      BY <1>1, <3>1, <3>2
  <2> QED
    BY <2>1
<1>10. Sorted(h)
  <2>1. ASSUME NEW i \in 1 .. n + 1, NEW j \in 1 .. n + 1, i <= j
        PROVE  h[i].ts <= h[j].ts
    <3>1. CASE j = n + 1
      BY <1>4, <1>6, <1>9, <3>1
    <3>2. CASE j # n + 1
      <4>1. i \in 1 .. n /\ j \in 1 .. n
        BY <1>1, <2>1, <3>2
      <4>2. history[i].ts <= history[j].ts
        BY <1>1, <1>5, <2>1, <4>1 DEF Sorted
      <4> QED
        BY <1>6, <4>1, <4>2
    <3> QED
      BY <3>1, <3>2
  <2> QED
    BY <1>6, <2>1 DEF Sorted
<1>11. MaxSize \in Nat /\ cut \in Int
  BY <1>1, StorageAssumption
<1> HIDE DEF cut, n, l
<1>12. ASSUME NEW out \in Seq(Metric), metrics' = out, IsEndOf(out, h),
              lastCleanup' \in 0 .. now,
              \A i \in 1 .. (n + 1) - Len(out) : h[i].ts > cut => Len(out) >= MaxSize
       PROVE  StorageInv'
  <2>1. StorageTypeOK'
    BY <1>1, <1>2, <1>6, <1>12 DEF StorageTypeOK, Metric
  <2>2. (Sorted(history) /\ IsEndOf(metrics, history))'
    BY <1>2, <1>10, <1>12 DEF Sorted, IsEndOf
  <2>3. (\A i \in DOMAIN history : history[i].ts <= now)'
    BY <1>2, <1>6, <1>9
  <2>4. (\A i \in 1 .. Len(history) - Len(metrics) :
           history[i].ts > now - MaxAge => Len(metrics) >= MaxSize)'
    BY <1>2, <1>6, <1>12 DEF cut
  <2> QED
    BY <2>1, <2>2, <2>3, <2>4 DEF StorageInv
<1>13. CASE metrics' = app /\ lastCleanup' = lastCleanup
  <2>1. ASSUME NEW i \in 1 .. (n + 1) - (l + 1), h[i].ts > cut PROVE l + 1 >= MaxSize
    <3>1. i \in 1 .. n - l /\ i \in 1 .. n
      BY <1>1
    <3>2. l >= MaxSize
      BY <1>5, <1>6, <2>1, <3>1
    <3> QED
      BY <1>1, <1>11, <3>2
  <2>2. lastCleanup' \in 0 .. now
    BY <1>1, <1>13
  <2> QED
    BY <1>7, <1>8, <1>12, <1>13, <2>1, <2>2
<1>14. CASE metrics' = Trim(KeepYoung(app)) /\ lastCleanup' = now
  <2> DEFINE out == Trim(KeepYoung(app))
             k == Len(out)
  <2>1. Sorted(app)
    BY <1>6, <1>7, <1>8, <1>10, EndSorted
  <2>2. now \in Int
    BY <1>1
  <2>3. /\ out \in Seq(Metric) /\ IsEndOf(out, app) /\ k <= MaxSize
        /\ \A i \in 1 .. (l + 1) - k : app[i].ts > cut => k >= MaxSize
    BY <1>7, <2>1, <2>2, CleanupFacts DEF cut
  <2>4. k \in Nat /\ k <= l + 1
    BY <1>7, <2>3, LenProperties DEF IsEndOf
  <2>5. IsEndOf(out, h)
    BY <1>6, <1>7, <1>8, <2>3, EndOfEnd
  <2>6. \A i \in 1 .. l + 1 : app[i] = h[(n + 1) - (l + 1) + i]
    BY <1>6, <1>7, <1>8 DEF IsEndOf
  <2> HIDE DEF k
  <2>7. ASSUME NEW i \in 1 .. (n + 1) - k, h[i].ts > cut PROVE k >= MaxSize
    <3>1. CASE i > n - l
      <4>1. PICK j \in Int : j = i - (n - l)
        BY <1>1
      <4>2. j \in 1 .. (l + 1) - k /\ j \in 1 .. l + 1 /\ (n + 1) - (l + 1) + j = i
        BY <1>1, <1>5, <2>4, <3>1, <4>1
      <4>3. app[j].ts > cut
        BY <2>6, <2>7, <4>2
      <4> QED
        BY <2>3, <4>2, <4>3
    <3>2. CASE ~(i > n - l)
      <4>1. i \in 1 .. n - l /\ i \in 1 .. n /\ i \in 1 .. n + 1
        BY <1>1, <2>4, <3>2
      <4>2. l >= MaxSize
        BY <1>5, <1>6, <2>7, <4>1
      <4>3. 1 \in 1 .. (l + 1) - k /\ 1 \in 1 .. l + 1
        BY <1>1, <1>11, <2>3, <2>4, <4>2
      <4>4. PICK j \in Int : j = (n + 1) - (l + 1) + 1
        BY <1>1
      <4>5. j \in 1 .. n + 1 /\ i <= j
        BY <1>1, <1>5, <4>1, <4>4
      <4>6. h[i].ts <= h[j].ts /\ h[i].ts \in Nat /\ h[j].ts \in Nat
        BY <1>6, <1>9, <1>10, <4>1, <4>5 DEF Sorted
      <4>7. app[1] = h[j]
        BY <2>6, <4>3, <4>4
      <4>8. app[1].ts > cut
        BY <1>11, <2>7, <4>6, <4>7
      <4> QED
        BY <2>3, <4>3, <4>8
    <3> QED
      BY <3>1, <3>2
  <2>8. lastCleanup' \in 0 .. now
    BY <1>1, <1>14
  <2>9. \A i \in 1 .. (n + 1) - Len(out) : h[i].ts > cut => Len(out) >= MaxSize
    BY <2>7 DEF k
  <2> HIDE DEF out
  <2>10. metrics' = out
    BY <1>14 DEF out
  <2> QED
    BY <1>12, <2>3, <2>5, <2>8, <2>9, <2>10
<1> QED
  BY <1>3, <1>13, <1>14

LEMMA StorageStep ==
  ASSUME StorageInv, [StorageNext]_storageVars
  PROVE  StorageInv'
<1>1. /\ now \in Nat /\ MaxTime \in Nat /\ now <= MaxTime /\ lastCleanup \in 0 .. now
      /\ metrics \in Seq(Metric) /\ history \in Seq(Metric)
      /\ DOMAIN history = 1 .. Len(history) /\ Len(history) \in Nat
      /\ Len(metrics) \in Nat /\ MaxAge \in Nat
      /\ \A i \in 1 .. Len(history) : history[i].ts \in Nat
  BY StorageTypes, StorageAssumption
<1>2. /\ Sorted(history) /\ \A i \in DOMAIN history : history[i].ts <= now
      /\ IsEndOf(metrics, history)
      /\ \A i \in 1 .. Len(history) - Len(metrics) :
           history[i].ts > now - MaxAge => Len(metrics) >= MaxSize
  BY DEF StorageInv
<1>3. CASE Tick
  <2>1. now' = now + 1 /\ now < MaxTime /\ metrics' = metrics
        /\ lastCleanup' = lastCleanup /\ history' = history
    BY <1>3 DEF Tick
  <2>2. StorageTypeOK'
    BY <1>1, <2>1 DEF StorageTypeOK, Metric
  <2>3. (Sorted(history) /\ IsEndOf(metrics, history))'
    BY <1>2, <2>1 DEF Sorted, IsEndOf
  <2>4. (\A i \in DOMAIN history : history[i].ts <= now)'
    BY <1>1, <1>2, <2>1
  <2>5. (\A i \in 1 .. Len(history) - Len(metrics) :
           history[i].ts > now - MaxAge => Len(metrics) >= MaxSize)'
    <3>1. SUFFICES ASSUME NEW i \in 1 .. Len(history) - Len(metrics),
                          history[i].ts > (now + 1) - MaxAge
                   PROVE  Len(metrics) >= MaxSize
      BY <2>1
    <3>2. i \in 1 .. Len(history)
      BY <1>1
    <3>3. history[i].ts > now - MaxAge
      BY <1>1, <3>1, <3>2
    <3> QED
      BY <1>2, <3>3
  <2> QED
    BY <2>2, <2>3, <2>4, <2>5 DEF StorageInv
<1>4. CASE Clear
  <2>1. now' = now /\ metrics' = <<>> /\ lastCleanup' = lastCleanup /\ history' = <<>>
    BY <1>4 DEF Clear
  <2>2. StorageTypeOK'
    BY <1>1, <2>1 DEF StorageTypeOK
  <2> QED
    BY <2>1, <2>2 DEF StorageInv, Sorted, IsEndOf
<1>5. CASE UNCHANGED storageVars
  BY <1>5 DEF storageVars, StorageInv, StorageTypeOK, Sorted, IsEndOf
<1> QED
  BY <1>3, <1>4, <1>5, StoreKeeps DEF StorageNext

LEMMA StorageInvariant ==
  StorageSpec => []StorageInv
<1>1. StorageInit => StorageInv
  <2> SUFFICES ASSUME StorageInit PROVE StorageInv
    OBVIOUS
  <2>1. now = 0 /\ metrics = <<>> /\ lastCleanup = 0 /\ history = <<>>
    BY DEF StorageInit
  <2>2. StorageTypeOK
    BY <2>1, StorageAssumption DEF StorageTypeOK
  <2> QED
    BY <2>1, <2>2 DEF StorageInv, Sorted, IsEndOf
<1>2. StorageInv /\ [StorageNext]_storageVars => StorageInv'
  BY StorageStep
<1> QED
  BY <1>1, <1>2, PTL DEF StorageSpec

(* s is the last n elements of b, of length k.                             *)
IsLast(s, n, b, k, R) ==
  s \in Seq(R) /\ Len(s) = n /\ \A i \in 1 .. n : s[i] = b[k - n + i]

LEMMA LastOf ==
  ASSUME NEW R, NEW b \in Seq(R), NEW k, k = Len(b), NEW n \in 1 .. k
  PROVE  IsLast(SubSeq(b, k - n + 1, k), n, b, k, R)
<1>0. k \in Nat /\ n \in 1 .. k
  BY LenProperties
<1>1. PICK c \in Int : c = k - n + 1
  <2>1. k - n + 1 \in Int
    BY <1>0
  <2> QED
    BY <2>1, Zenon
<1>2. k \in Int /\ c <= k /\ k - c + 1 = n /\ c \in 1 .. k
      /\ \A i \in 1 .. n : c + i - 1 = k - n + i
  BY <1>0, <1>1
<1>3. \A i \in c .. k : b[i] \in R
  BY <1>2, ElementOfSeq
<1>4. /\ SubSeq(b, c, k) \in Seq(R) /\ Len(SubSeq(b, c, k)) = n
      /\ \A i \in 1 .. n : SubSeq(b, c, k)[i] = b[c + i - 1]
  BY <1>2, <1>3, SubSeqProperties
<1> QED
  BY <1>1, <1>2, <1>4 DEF IsLast

(* The last n of an end are the last n of the whole.                       *)
LEMMA RecentOfEnd ==
  ASSUME NEW R, NEW a \in Seq(R), NEW b \in Seq(R), IsEndOf(a, b), NEW n \in 1 .. Len(a)
  PROVE  GetRecent(a, n) = SubSeq(b, Len(b) - n + 1, Len(b))
<1>1. PICK l, k : l = Len(a) /\ k = Len(b)
  OBVIOUS
<1>2. l \in Nat /\ k \in Nat /\ l <= k /\ n \in 1 .. l /\ n \in 1 .. k
  BY <1>1, LenProperties DEF IsEndOf
<1>3. \A j \in 1 .. l : a[j] = b[k - l + j]
  BY <1>1 DEF IsEndOf
<1> DEFINE s == SubSeq(a, l - n + 1, l)
           t == SubSeq(b, k - n + 1, k)
<1>4. GetRecent(a, n) = s
  <2>1. ~(n <= 0 \/ n > Len(a))
    BY <1>1, <1>2
  <2> QED
    BY <1>1, <2>1 DEF GetRecent
<1>5. s \in Seq(R) /\ Len(s) = n /\ \A i \in 1 .. n : s[i] = a[l - n + i]
  <2>1. IsLast(s, n, a, l, R)
    BY <1>1, <1>2, LastOf, Zenon
  <2> HIDE DEF s
  <2> QED
    BY <2>1 DEF IsLast
<1>6. t \in Seq(R) /\ Len(t) = n /\ \A i \in 1 .. n : t[i] = b[k - n + i]
  <2>1. IsLast(t, n, b, k, R)
    BY <1>1, <1>2, LastOf, Zenon
  <2> HIDE DEF t
  <2> QED
    BY <2>1 DEF IsLast
<1> HIDE DEF s, t
<1>7. ASSUME NEW i \in 1 .. n PROVE s[i] = t[i]
  <2>1. l - n + i \in 1 .. l /\ k - l + (l - n + i) = k - n + i
    BY <1>2
  <2> QED
    BY <1>3, <1>5, <1>6, <2>1
<1>8. s = t
  BY <1>5, <1>6, <1>7, SeqEqual
<1> QED
  BY <1>1, <1>4, <1>8 DEF t

(* Storage holds the newest metrics without a gap, for any limits, any     *)
(* metrics and any number of stores, cleanups and clears; what is young is *)
(* dropped only if there are too many (Store, cleanupIfNeeded, Clear and   *)
(* GetRecent).                                                             *)
THEOREM StorageKeepsNewest ==
  StorageSpec => []KeepsNewest
<1>1. StorageInv => KeepsNewest
  <2> SUFFICES ASSUME StorageInv PROVE KeepsNewest
    OBVIOUS
  <2>1. metrics \in Seq(Metric) /\ history \in Seq(Metric)
    BY StorageTypes
  <2>2. IsEndOf(metrics, history)
    BY DEF StorageInv
  <2>3. \A n \in 1 .. Len(metrics) :
          GetRecent(metrics, n) = SubSeq(history, Len(history) - n + 1, Len(history))
    BY <2>1, <2>2, RecentOfEnd
  <2> QED
    BY <2>2, <2>3 DEF StorageInv, KeepsNewest, IsEndOf
<1> QED
  BY <1>1, StorageInvariant, PTL

(* Right after a cleanup, storage is within both of its limits             *)
(* (cleanupIfNeeded).                                                      *)
THEOREM CleanupsEnforceLimits ==
  StorageSpec => CleanupEnforcesLimits
<1>1. ASSUME StorageInv, [StorageNext]_storageVars, lastCleanup' # lastCleanup
      PROVE  /\ Len(metrics') <= MaxSize
             /\ \A i \in 1 .. Len(metrics') : metrics'[i].ts > now - MaxAge
  <2>1. PICK m \in RunMetrics : Store(m)
    BY <1>1 DEF StorageNext, Tick, Clear, storageVars
  <2> DEFINE x == StoredMetric(now, m)
             app == Append(metrics, x)
  <2>2. metrics' = Trim(KeepYoung(app))
    BY <1>1, <2>1 DEF Store
  <2>3. /\ now \in Nat /\ now <= MaxTime /\ MaxTime \in Nat
        /\ metrics \in Seq(Metric) /\ history \in Seq(Metric)
        /\ Len(metrics) \in Nat /\ Len(history) \in Nat
        /\ DOMAIN history = 1 .. Len(history)
        /\ \A i \in 1 .. Len(metrics) : metrics[i] \in Metric
    BY <1>1, StorageTypes
  <2>4. x \in Metric /\ x.ts = now
    BY <2>3 DEF Metric, StoredMetric
  <2> HIDE DEF x
  <2>5. Sorted(metrics) /\ \A i \in 1 .. Len(metrics) : metrics[i].ts <= now
    <3>1. Sorted(history) /\ IsEndOf(metrics, history)
          /\ \A i \in DOMAIN history : history[i].ts <= now
      BY <1>1 DEF StorageInv
    <3>2. Sorted(metrics)
      BY <2>3, <3>1, EndSorted
    <3>3. ASSUME NEW i \in 1 .. Len(metrics) PROVE metrics[i].ts <= now
      <4>1. metrics[i] = history[Len(history) - Len(metrics) + i]
            /\ Len(metrics) <= Len(history)
        BY <3>1 DEF IsEndOf
      <4> DEFINE n == Len(history)
                 l == Len(metrics)
      <4>2. n - l + i \in 1 .. n
        <5>1. n \in Nat /\ l \in Nat /\ l <= n /\ i \in 1 .. l
          BY <2>3, <4>1
        <5> HIDE DEF n, l
        <5> QED
          BY <5>1
      <4> QED
        BY <2>3, <3>1, <4>1, <4>2
    <3> QED
      BY <3>2, <3>3
  <2>6. /\ app \in Seq(Metric) /\ Len(app) = Len(metrics) + 1
        /\ DOMAIN app = 1 .. Len(metrics) + 1
        /\ \A i \in 1 .. Len(metrics) : app[i] = metrics[i]
        /\ app[Len(metrics) + 1] = x
    BY <2>3, <2>4, AppendProperties, LenProperties
  <2> HIDE DEF app
  <2>7. Sorted(app)
    <3> DEFINE l == Len(metrics)
    <3>1. ASSUME NEW i \in 1 .. l + 1, NEW j \in 1 .. l + 1, i <= j
          PROVE  app[i].ts <= app[j].ts
      <4>1. l \in Nat /\ \A y \in Metric : y.ts \in Nat
        BY <2>3 DEF Metric
      <4>2. CASE j = l + 1
        <5>1. CASE i = l + 1
          BY <2>3, <2>4, <2>6, <4>2, <5>1
        <5>2. CASE i # l + 1
          <6>1. i \in 1 .. l
            BY <4>1, <5>2
          <6> QED
            BY <2>4, <2>5, <2>6, <4>2, <6>1
        <5> QED
          BY <5>1, <5>2
      <4>3. CASE j # l + 1
        <5> HIDE DEF l
        <5>1. i \in 1 .. l /\ j \in 1 .. l
          BY <3>1, <4>1, <4>3
        <5> QED
          BY <2>3, <2>5, <2>6, <3>1, <5>1, LenProperties DEF Sorted, l
      <4> QED
        BY <4>2, <4>3
    <3> QED
      BY <2>6, <3>1 DEF Sorted
  <2>8. now \in Int
    BY <2>3
  <2> QED
    BY <2>2, <2>6, <2>7, <2>8, CleanupFacts
<1>2. StorageInv /\ [StorageNext]_storageVars =>
        [lastCleanup' # lastCleanup =>
           /\ Len(metrics') <= MaxSize
           /\ \A i \in 1 .. Len(metrics') : metrics'[i].ts > now - MaxAge]_storageVars
  BY <1>1
<1> QED
  BY <1>2, StorageInvariant, PTL DEF StorageSpec, CleanupEnforcesLimits

-----------------------------------------------------------------------------
(* The statistics.  Counting one more metric is one turn of the loop, and  *)
(* one more number in the set that the properties count.                   *)

LEMMA CountNone ==
  CountRuns(<<>>) = EmptyStats
<1>1. <<>> \in Seq(Metric) /\ Len(<<>>) = 0
  BY EmptySeq
<1>2. PICK f : CountedBy(f, <<>>) /\ CountRuns(<<>>) = f[Len(<<>>)]
  BY <1>1, CountRunsUnfolds
<1> QED
  BY <1>1, <1>2 DEF CountedBy

LEMMA CountOneMore ==
  ASSUME NEW R, NEW s \in Seq(R), NEW e \in R
  PROVE  CountRuns(Append(s, e)) = CountRun(CountRuns(s), e)
<1>1. PICK n, t : n = Len(s) /\ t = Append(s, e)
  OBVIOUS
<1>2. n \in Nat /\ t \in Seq(R) /\ Len(t) = n + 1 /\ t[n + 1] = e
      /\ \A i \in 1 .. n : t[i] = s[i]
  BY <1>1, AppendProperties, LenProperties
<1>3. PICK f : CountedBy(f, s) /\ CountRuns(s) = f[n]
  BY <1>1, CountRunsUnfolds
<1>4. PICK g : CountedBy(g, t) /\ CountRuns(t) = g[n + 1]
  BY <1>2, CountRunsUnfolds
<1> DEFINE T == {i \in Nat : i <= n => f[i] = g[i]}
<1>5. 0 \in T
  BY <1>3, <1>4 DEF CountedBy
<1>6. ASSUME NEW i \in Nat, i \in T PROVE i + 1 \in T
  <2> SUFFICES ASSUME i + 1 <= n PROVE f[i + 1] = g[i + 1]
    OBVIOUS
  <2>1. f[i] = g[i] /\ i + 1 \in 1 .. n /\ i + 1 \in 1 .. n + 1 /\ (i + 1) - 1 = i
    BY <1>2, <1>6
  <2>2. f[i + 1] = CountRun(f[i], s[i + 1])
    BY <1>1, <1>3, <2>1 DEF CountedBy
  <2>3. g[i + 1] = CountRun(g[i], t[i + 1])
    BY <1>2, <1>4, <2>1 DEF CountedBy
  <2> QED
    BY <1>2, <2>1, <2>2, <2>3
<1>7. n \in T
  <2> HIDE DEF T
  <2> QED
    BY <1>2, <1>5, <1>6, Induction
<1>8. g[n + 1] = CountRun(g[n], e)
  <2>1. n + 1 \in 1 .. n + 1 /\ (n + 1) - 1 = n
    BY <1>2
  <2> QED
    BY <1>2, <1>4, <2>1 DEF CountedBy
<1> QED
  BY <1>1, <1>2, <1>3, <1>4, <1>7, <1>8

(* What the proofs of the statistics use of the metrics.                   *)
RunTypes ==
  /\ metrics \in Seq(Metric) /\ Len(metrics) \in Nat
  /\ \A i \in 1 .. Len(metrics) : /\ metrics[i] \in Metric
                                  /\ metrics[i].run.duration \in Nat
                                  /\ metrics[i].run.success \in BOOLEAN

LEMMA DurationOfNone ==
  ASSUME RunTypes
  PROVE  TotalDuration({}) = 0
<1>1. PICK f : SummedBy(f, {}) /\ TotalDuration({}) = f[Len(metrics)]
  BY TotalDurationUnfolds DEF RunTypes
<1>2. Len(metrics) \in Nat /\ f[0] = 0 /\ \A i \in 1 .. Len(metrics) : f[i] = f[i - 1] + 0
  BY <1>1 DEF SummedBy, RunTypes
<1>3. PICK n : n = Len(metrics)
  OBVIOUS
<1> DEFINE T == {i \in Nat : i <= n => f[i] = 0}
<1>4. 0 \in T
  BY <1>2
<1>5. ASSUME NEW i \in Nat, i \in T PROVE i + 1 \in T
  <2> SUFFICES ASSUME i + 1 <= n PROVE f[i + 1] = 0
    OBVIOUS
  <2>1. f[i] = 0 /\ i + 1 \in 1 .. n /\ (i + 1) - 1 = i
    BY <1>2, <1>3, <1>5
  <2> QED
    BY <1>2, <1>3, <2>1
<1>6. n \in T
  <2> HIDE DEF T
  <2> QED
    BY <1>2, <1>3, <1>4, <1>5, Induction
<1> QED
  BY <1>1, <1>2, <1>3, <1>6

LEMMA DurationOfOneMore ==
  ASSUME RunTypes, NEW S, NEW k \in 1 .. Len(metrics), k \notin S
  PROVE  /\ TotalDuration(S) \in Nat
         /\ TotalDuration(S \cup {k}) = TotalDuration(S) + metrics[k].run.duration
<1>1. PICK n, d : n = Len(metrics) /\ d = metrics[k].run.duration
  OBVIOUS
<1>2. n \in Nat /\ d \in Nat /\ k \in 1 .. n
      /\ \A i \in 1 .. n : metrics[i].run.duration \in Nat
  BY <1>1 DEF RunTypes
<1>3. PICK f : SummedBy(f, S) /\ TotalDuration(S) = f[n]
  BY <1>1, TotalDurationUnfolds DEF RunTypes
<1>4. PICK U : U = S \cup {k}
  OBVIOUS
<1>5. PICK g : SummedBy(g, U) /\ TotalDuration(U) = g[n]
  BY <1>1, TotalDurationUnfolds DEF RunTypes
<1>6. /\ f[0] = 0 /\ g[0] = 0
      /\ \A i \in 1 .. n :
           /\ f[i] = f[i - 1] + (IF i \in S THEN metrics[i].run.duration ELSE 0)
           /\ g[i] = g[i - 1] + (IF i \in U THEN metrics[i].run.duration ELSE 0)
  BY <1>1, <1>3, <1>5 DEF SummedBy
<1> DEFINE T == {i \in Nat : i <= n => f[i] \in Nat /\ g[i] = f[i] + (IF k <= i THEN d ELSE 0)}
<1>7. 0 \in T
  BY <1>2, <1>6
<1>8. ASSUME NEW i \in Nat, i \in T PROVE i + 1 \in T
  <2> SUFFICES ASSUME i + 1 <= n
               PROVE  f[i + 1] \in Nat /\ g[i + 1] = f[i + 1] + (IF k <= i + 1 THEN d ELSE 0)
    OBVIOUS
  <2>1. PICK j : j = i + 1
    OBVIOUS
  <2>2. f[i] \in Nat /\ g[i] = f[i] + (IF k <= i THEN d ELSE 0) /\ j \in 1 .. n /\ j - 1 = i
    BY <1>2, <1>8, <2>1
  <2>3. /\ f[j] = f[i] + (IF j \in S THEN metrics[j].run.duration ELSE 0)
        /\ g[j] = g[i] + (IF j \in U THEN metrics[j].run.duration ELSE 0)
        /\ metrics[j].run.duration \in Nat
    BY <1>2, <1>6, <2>2
  <2>4. CASE j = k
    <3>1. j \notin S /\ j \in U /\ metrics[j].run.duration = d /\ ~(k <= i) /\ k <= j
      BY <1>1, <1>2, <1>4, <2>1, <2>4
    <3> QED
      BY <1>2, <2>1, <2>2, <2>3, <3>1
  <2>5. CASE j # k
    <3>1. (j \in S <=> j \in U) /\ (k <= i <=> k <= j)
      BY <1>2, <1>4, <2>1, <2>5
    <3>2. CASE j \in S
      BY <1>2, <2>1, <2>2, <2>3, <3>1, <3>2
    <3>3. CASE j \notin S
      BY <1>2, <2>1, <2>2, <2>3, <3>1, <3>3
    <3> QED
      BY <3>2, <3>3
  <2> QED
    BY <2>4, <2>5
<1>9. n \in T
  <2> HIDE DEF T
  <2> QED
    BY <1>2, <1>7, <1>8, Induction
<1> QED
  BY <1>1, <1>2, <1>3, <1>4, <1>5, <1>9

(* One more success, or one more failure, in a rate.                       *)
LEMMA RateOfOneMore ==
  ASSUME NEW a \in Int, NEW b \in Int, NEW n \in Int, NEW g \in Int, a * n = g * b
  PROVE  /\ (a * n + b) * (n + 1) = (g + 1) * (b * (n + 1))
         /\ (a * n) * (n + 1) = g * (b * (n + 1))
<1>1. PICK p, m : p = a * n /\ m = n + 1
  OBVIOUS
<1>2. p \in Int /\ m \in Int /\ p = g * b
  BY <1>1
<1>3. p + b = (g + 1) * b
  BY <1>2
<1>4. ((g + 1) * b) * m = (g + 1) * (b * m) /\ (g * b) * m = g * (b * m)
  BY <1>2
<1> QED
  BY <1>1, <1>2, <1>3, <1>4

(* One more rounding of an average.                                        *)
LEMMA DriftOfOneMore ==
  ASSUME NEW n \in Nat, NEW a \in Nat, NEW d \in Nat, NEW t \in Nat,
         0 <= t - n * a, 2 * (t - n * a) <= n * (n - 1),
         NEW q, q = (a * n + d) \div (n + 1)
  PROVE  /\ q \in Nat
         /\ 0 <= t + d - (n + 1) * q
         /\ 2 * (t + d - (n + 1) * q) <= (n + 1) * n
<1>1. PICK p, m : p = a * n /\ m = n + 1
  OBVIOUS
<1>2. p \in Nat /\ m \in Nat /\ m > 0 /\ n * a = p
  BY <1>1
<1>3. PICK r \in Int : r = (p + d) % m
  BY <1>2
<1>4. q \in Int /\ p + d = m * q + r /\ 0 <= r /\ r <= n
  BY <1>1, <1>2, <1>3
<1>5. q \in Nat
  <2>1. SUFFICES ASSUME q <= -1 PROVE FALSE
    BY <1>4
  <2>2. m * q <= -m
    BY <1>2, <1>4, <2>1
  <2> QED
    BY <1>1, <1>2, <1>4, <2>2
<1>6. PICK lost \in Int : lost = t - p
  BY <1>2
<1>7. m * q \in Int
  BY <1>2, <1>4
<1>8. t + d - m * q = lost + r
  BY <1>2, <1>4, <1>6, <1>7
<1>9. n * (n - 1) + 2 * n = m * n
  BY <1>1
<1>10. n * (n - 1) \in Int /\ m * n \in Int
  BY <1>2
<1>11. 0 <= lost /\ 2 * lost <= n * (n - 1)
  BY <1>2, <1>6
<1>12. 0 <= lost + r /\ 2 * (lost + r) <= m * n
  BY <1>4, <1>9, <1>10, <1>11
<1> QED
  BY <1>1, <1>5, <1>8, <1>12

(* The rate of a set of runs, kept as a pair of numbers.                   *)
RateOf(rate, S) == rate \in Int \X Int /\ IsRate(rate, S)

LEMMA RatePair ==
  ASSUME NEW x \in Int, NEW y \in Int, NEW S, NEW c, NEW g,
         c = Cardinality(S), g = Cardinality(Good(S)), x * c = g * y
  PROVE  RateOf(<<x, y>>, S)
<1>1. <<x, y>>[1] = x /\ <<x, y>>[2] = y /\ <<x, y>> \in Int \X Int
  OBVIOUS
<1> QED
  BY <1>1, Zenon DEF RateOf, IsRate

LEMMA GoodGrows ==
  ASSUME RunTypes, NEW S \in SUBSET (1 .. Len(metrics)),
         NEW k \in 1 .. Len(metrics), k \notin S
  PROVE  /\ IsFiniteSet(S) /\ Cardinality(S) \in Nat
         /\ Cardinality(S \cup {k}) = Cardinality(S) + 1
         /\ Cardinality(Good(S)) \in Nat
         /\ Cardinality(Good(S \cup {k}))
              = Cardinality(Good(S)) + (IF metrics[k].run.success THEN 1 ELSE 0)
<1>1. IsFiniteSet(1 .. Len(metrics))
  <2>1. 1 \in Int /\ Len(metrics) \in Int
    BY DEF RunTypes
  <2> QED
    BY <2>1, FS_Interval
<1>2. IsFiniteSet(S) /\ IsFiniteSet(Good(S))
  <2>1. Good(S) \subseteq S
    BY DEF Good
  <2> QED
    BY <1>1, <2>1, FS_Subset
<1>3. Cardinality(S) \in Nat /\ Cardinality(Good(S)) \in Nat
  BY <1>2, FS_CardinalityType
<1>4. Cardinality(S \cup {k}) = Cardinality(S) + 1
  BY <1>2, FS_AddElement
<1>5. CASE metrics[k].run.success
  <2>1. Good(S \cup {k}) = Good(S) \cup {k} /\ k \notin Good(S)
    BY <1>5 DEF Good
  <2>2. Cardinality(Good(S) \cup {k}) = Cardinality(Good(S)) + 1
    BY <1>2, <2>1, FS_AddElement
  <2> QED
    BY <1>2, <1>3, <1>4, <1>5, <2>1, <2>2
<1>6. CASE ~metrics[k].run.success
  <2>1. Good(S \cup {k}) = Good(S)
    BY <1>6 DEF Good
  <2> QED
    BY <1>2, <1>3, <1>4, <1>6, <2>1
<1> QED
  BY <1>5, <1>6

LEMMA NextRateFacts ==
  ASSUME RunTypes, NEW S \in SUBSET (1 .. Len(metrics)),
         NEW k \in 1 .. Len(metrics), k \notin S, NEW rate, RateOf(rate, S),
         NEW n, n = Cardinality(S) + 1
  PROVE  RateOf(NextRate(rate, n, metrics[k].run.success), S \cup {k})
<1>1. PICK a \in Int, b \in Int : rate = <<a, b>>
  BY DEF RateOf
<1>2. PICK c, g : c = Cardinality(S) /\ g = Cardinality(Good(S))
  OBVIOUS
<1>3. c \in Nat /\ g \in Nat /\ n = c + 1 /\ n - 1 = c /\ Cardinality(S \cup {k}) = c + 1
  <2>1. Cardinality(S) \in Nat /\ Cardinality(Good(S)) \in Nat
        /\ Cardinality(S \cup {k}) = Cardinality(S) + 1
    BY GoodGrows, Zenon
  <2> QED
    BY <1>2, <2>1
<1>4. a * c = g * b
  BY <1>1, <1>2 DEF RateOf, IsRate
<1>5. /\ (a * c + b) * (c + 1) = (g + 1) * (b * (c + 1))
      /\ (a * c) * (c + 1) = g * (b * (c + 1))
  BY <1>3, <1>4, RateOfOneMore
<1>6. a * c \in Int /\ b * (c + 1) \in Int /\ a * c + b \in Int
  BY <1>3
<1>7. CASE metrics[k].run.success
  <2>1. NextRate(rate, n, metrics[k].run.success) = <<a * c + b, b * (c + 1)>>
    BY <1>1, <1>3, <1>7 DEF NextRate
  <2>2. Cardinality(Good(S \cup {k})) = g + 1
    BY <1>2, <1>7, GoodGrows
  <2> QED
    BY <1>3, <1>5, <1>6, <2>1, <2>2, RatePair
<1>8. CASE ~metrics[k].run.success
  <2>1. NextRate(rate, n, metrics[k].run.success) = <<a * c, b * (c + 1)>>
    BY <1>1, <1>3, <1>8 DEF NextRate
  <2>2. Cardinality(Good(S \cup {k})) = g
    <3>1. Cardinality(Good(S \cup {k})) = g + 0
      BY <1>2, <1>8, GoodGrows
    <3> QED
      BY <1>3, <3>1
  <2> QED
    BY <1>3, <1>5, <1>6, <2>1, <2>2, RatePair
<1> QED
  BY <1>7, <1>8

LEMMA FirstRateFacts ==
  ASSUME RunTypes, NEW k \in 1 .. Len(metrics)
  PROVE  RateOf(FirstRate(metrics[k].run.success), {k}) /\ Cardinality({k}) = 1
<1>1. Cardinality({k}) = 1 /\ Cardinality({}) = 0
  BY FS_Singleton, FS_EmptySet
<1>2. PICK o \in Int, z \in Int : o = 1 /\ z = 0
  OBVIOUS
<1>3. CASE metrics[k].run.success
  <2>1. Good({k}) = {k} /\ FirstRate(metrics[k].run.success) = <<o, o>>
    BY <1>2, <1>3 DEF Good, FirstRate
  <2>2. Cardinality({k}) = o /\ Cardinality(Good({k})) = o
    BY <1>1, <1>2, <2>1
  <2>3. RateOf(<<o, o>>, {k})
    BY <2>2, RatePair
  <2> QED
    BY <1>1, <2>1, <2>3
<1>4. CASE ~metrics[k].run.success
  <2>1. Good({k}) = {} /\ FirstRate(metrics[k].run.success) = <<z, o>>
    BY <1>2, <1>4 DEF Good, FirstRate
  <2>2. Cardinality({k}) = o /\ Cardinality(Good({k})) = z /\ z * o = z * o
    BY <1>1, <1>2, <2>1
  <2>3. RateOf(<<z, o>>, {k})
    BY <2>2, RatePair
  <2> QED
    BY <1>1, <2>1, <2>3
<1> QED
  BY <1>3, <1>4

(* The entry of a command that ran as T, and of an hour.                   *)
CommandOf(x, T) ==
  /\ x.count = Cardinality(T) /\ x.avg \in Nat
  /\ RateOf(x.rate, T) /\ DriftBounded(x, T)

HourOf(x, T) == x.count = Cardinality(T) /\ RateOf(x.rate, T)

LEMMA CommandStarts ==
  ASSUME RunTypes, NEW k \in 1 .. Len(metrics), NEW x,
         x = [count |-> 1, rate |-> FirstRate(metrics[k].run.success),
              avg |-> metrics[k].run.duration]
  PROVE  CommandOf(x, {k})
<1>1. x.count = 1 /\ x.rate = FirstRate(metrics[k].run.success)
      /\ x.avg = metrics[k].run.duration
  OBVIOUS
<1>2. RateOf(x.rate, {k}) /\ Cardinality({k}) = 1
  BY <1>1, FirstRateFacts
<1>3. x.avg \in Nat
  BY <1>1 DEF RunTypes
<1>4. TotalDuration({k}) = x.avg
  <2>1. {k} = {} \cup {k} /\ k \notin {}
    OBVIOUS
  <2>2. TotalDuration({} \cup {k}) = TotalDuration({}) + metrics[k].run.duration
    BY DurationOfOneMore
  <2>3. TotalDuration({k}) = 0 + x.avg
    BY <1>1, <2>1, <2>2, DurationOfNone
  <2> QED
    BY <1>3, <2>3
<1>5. DriftBounded(x, {k})
  BY <1>1, <1>3, <1>4 DEF DriftBounded
<1> QED
  BY <1>1, <1>2, <1>3, <1>5 DEF CommandOf

LEMMA CommandGrows ==
  ASSUME RunTypes, NEW T \in SUBSET (1 .. Len(metrics)),
         NEW k \in 1 .. Len(metrics), k \notin T, NEW old, CommandOf(old, T),
         NEW n, n = old.count + 1, NEW x,
         x = [count |-> n, rate |-> NextRate(old.rate, n, metrics[k].run.success),
              avg |-> NextAverage(old.avg, n, metrics[k].run.duration)]
  PROVE  CommandOf(x, T \cup {k})
<1>1. x.count = n /\ x.rate = NextRate(old.rate, n, metrics[k].run.success)
      /\ x.avg = NextAverage(old.avg, n, metrics[k].run.duration)
  OBVIOUS
<1>2. PICK c, a, d, t : /\ c = old.count /\ a = old.avg /\ d = metrics[k].run.duration
                        /\ t = TotalDuration(T)
  OBVIOUS
<1>3. /\ Cardinality(T) \in Nat /\ Cardinality(T \cup {k}) = Cardinality(T) + 1
  BY GoodGrows, Zenon
<1>4. c = Cardinality(T) /\ RateOf(old.rate, T) /\ a \in Nat /\ DriftBounded(old, T)
  BY <1>2 DEF CommandOf
<1>5. c \in Nat /\ n = c + 1 /\ n - 1 = c /\ n = Cardinality(T) + 1
      /\ Cardinality(T \cup {k}) = n
  BY <1>2, <1>3, <1>4
<1>6. RateOf(x.rate, T \cup {k})
  BY <1>1, <1>4, <1>5, NextRateFacts
<1>7. d \in Nat /\ t \in Nat /\ TotalDuration(T \cup {k}) = t + d
  BY <1>2, DurationOfOneMore DEF RunTypes
<1>8. 0 <= t - c * a /\ 2 * (t - c * a) <= c * (c - 1)
  BY <1>2, <1>4 DEF DriftBounded
<1>9. PICK q : q = (a * c + d) \div (c + 1)
  OBVIOUS
<1>10. q \in Nat /\ 0 <= t + d - (c + 1) * q /\ 2 * (t + d - (c + 1) * q) <= (c + 1) * c
  BY <1>4, <1>5, <1>7, <1>8, <1>9, DriftOfOneMore
<1>11. x.avg = q
  BY <1>1, <1>2, <1>5, <1>9 DEF NextAverage
<1>12. DriftBounded(x, T \cup {k})
  <2>1. x.count = c + 1 /\ (c + 1) - 1 = c
    BY <1>1, <1>5
  <2> QED
    BY <1>7, <1>10, <1>11, <2>1 DEF DriftBounded
<1> QED
  BY <1>1, <1>5, <1>6, <1>10, <1>11, <1>12 DEF CommandOf

(* The breakdown by command, and by hour, of the runs S.                   *)
CommandsOf(commands, S) ==
  /\ DOMAIN commands = {metrics[i].run.command : i \in S}
  /\ \A c \in DOMAIN commands : CommandOf(commands[c], Of(c, S))

HoursOf(hours, S) ==
  /\ DOMAIN hours = {metrics[i].ts \div HourLength : i \in S}
  /\ \A h \in DOMAIN hours : HourOf(hours[h], In(h, S))

LEMMA CountCommandFacts ==
  ASSUME RunTypes, NEW S \in SUBSET (1 .. Len(metrics)),
         NEW k \in 1 .. Len(metrics), k \notin S, NEW commands, CommandsOf(commands, S)
  PROVE  CommandsOf(CountCommand(commands, metrics[k].run), S \cup {k})
<1>1. PICK m, new, U : m = metrics[k].run /\ U = S \cup {k}
                       /\ new = CountCommand(commands, metrics[k].run)
  OBVIOUS
<1>2. /\ DOMAIN commands = {metrics[i].run.command : i \in S}
      /\ \A c \in DOMAIN commands : CommandOf(commands[c], Of(c, S))
  BY DEF CommandsOf
<1>3. /\ {metrics[i].run.command : i \in U} = DOMAIN commands \cup {m.command}
  BY <1>1, <1>2
<1>4. /\ Of(m.command, U) = Of(m.command, S) \cup {k}
      /\ k \notin Of(m.command, S) /\ Of(m.command, S) \in SUBSET (1 .. Len(metrics))
      /\ \A c : c # m.command => Of(c, U) = Of(c, S)
  BY <1>1 DEF Of
<1>5. CASE m.command \in DOMAIN commands
  <2>1. PICK old, n, x :
          /\ old = commands[m.command] /\ n = old.count + 1
          /\ x = [count |-> n, rate |-> NextRate(old.rate, n, m.success),
                  avg |-> NextAverage(old.avg, n, m.duration)]
    OBVIOUS
  <2>2. new = [commands EXCEPT ![m.command] = x]
    BY <1>1, <1>5, <2>1 DEF CountCommand
  <2>3. DOMAIN new = DOMAIN commands /\ new[m.command] = x
        /\ \A c \in DOMAIN new : c # m.command => new[c] = commands[c]
    BY <1>5, <2>2
  <2>4. CommandOf(x, Of(m.command, U))
    <3>1. PICK T : T = Of(m.command, S)
      OBVIOUS
    <3>2. T \in SUBSET (1 .. Len(metrics)) /\ k \notin T /\ CommandOf(old, T)
      BY <1>2, <1>4, <1>5, <2>1, <3>1
    <3>3. n = old.count + 1
          /\ x = [count |-> n, rate |-> NextRate(old.rate, n, metrics[k].run.success),
                  avg |-> NextAverage(old.avg, n, metrics[k].run.duration)]
      BY <1>1, <2>1
    <3>4. CommandOf(x, T \cup {k})
      BY <3>2, <3>3, CommandGrows, Zenon
    <3> QED
      BY <1>4, <3>1, <3>4
  <2>5. DOMAIN new = {metrics[i].run.command : i \in U}
    BY <1>3, <1>5, <2>3
  <2>6. \A c \in DOMAIN new : CommandOf(new[c], Of(c, U))
    BY <1>2, <1>4, <2>3, <2>4, Zenon
  <2> QED
    BY <1>1, <2>5, <2>6 DEF CommandsOf
<1>6. CASE m.command \notin DOMAIN commands
  <2>1. PICK x : x = [count |-> 1, rate |-> FirstRate(m.success), avg |-> m.duration]
    OBVIOUS
  <2>2. new = [c \in DOMAIN commands \cup {m.command} |->
                 IF c = m.command THEN x ELSE commands[c]]
    BY <1>1, <1>6, <2>1 DEF CountCommand
  <2>3. DOMAIN new = DOMAIN commands \cup {m.command} /\ new[m.command] = x
        /\ \A c \in DOMAIN new : c # m.command => new[c] = commands[c] /\ c \in DOMAIN commands
    BY <2>2
  <2>4. Of(m.command, S) = {}
    BY <1>1, <1>2, <1>6 DEF Of
  <2>5. Of(m.command, U) = {k}
    BY <1>4, <2>4
  <2>6. CommandOf(x, Of(m.command, U))
    BY <1>1, <2>1, <2>5, CommandStarts
  <2>7. \A c \in DOMAIN new : CommandOf(new[c], Of(c, U))
    BY <1>2, <1>4, <2>3, <2>6, Zenon
  <2> QED
    BY <1>1, <1>3, <2>3, <2>7 DEF CommandsOf
<1> QED
  BY <1>5, <1>6

LEMMA CountHourFacts ==
  ASSUME RunTypes, NEW S \in SUBSET (1 .. Len(metrics)),
         NEW k \in 1 .. Len(metrics), k \notin S, NEW hours, HoursOf(hours, S)
  PROVE  HoursOf(CountHour(hours, metrics[k]), S \cup {k})
<1>1. PICK b, h, new, U : b = metrics[k].run.success /\ U = S \cup {k}
                          /\ h = metrics[k].ts \div HourLength
                          /\ new = CountHour(hours, metrics[k])
  OBVIOUS
<1>2. /\ DOMAIN hours = {metrics[i].ts \div HourLength : i \in S}
      /\ \A c \in DOMAIN hours : HourOf(hours[c], In(c, S))
  BY DEF HoursOf
<1>3. /\ {metrics[i].ts \div HourLength : i \in U} = DOMAIN hours \cup {h}
  BY <1>1, <1>2
<1>4. /\ In(h, U) = In(h, S) \cup {k}
      /\ k \notin In(h, S) /\ In(h, S) \in SUBSET (1 .. Len(metrics))
      /\ \A c : c # h => In(c, U) = In(c, S)
  BY <1>1 DEF In
<1>5. CASE h \in DOMAIN hours
  <2>1. PICK old, n, x :
          /\ old = hours[h] /\ n = old.count + 1
          /\ x = [count |-> n, rate |-> NextRate(old.rate, n, b)]
    OBVIOUS
  <2>2. new = [hours EXCEPT ![h] = x]
    BY <1>1, <1>5, <2>1 DEF CountHour
  <2>3. DOMAIN new = DOMAIN hours /\ new[h] = x
        /\ \A c \in DOMAIN new : c # h => new[c] = hours[c]
    BY <1>5, <2>2
  <2>4. HourOf(x, In(h, U))
    <3>1. PICK T : T = In(h, S)
      OBVIOUS
    <3>2. T \in SUBSET (1 .. Len(metrics)) /\ k \notin T /\ old.count = Cardinality(T)
          /\ RateOf(old.rate, T)
      BY <1>2, <1>4, <1>5, <2>1, <3>1 DEF HourOf
    <3>3. n = Cardinality(T) + 1 /\ x.count = n
          /\ x.rate = NextRate(old.rate, n, metrics[k].run.success)
      BY <1>1, <2>1, <3>2
    <3>4. RateOf(x.rate, T \cup {k})
      BY <3>2, <3>3, NextRateFacts, Zenon
    <3>5. Cardinality(T \cup {k}) = n
      BY <3>2, <3>3, GoodGrows, Zenon
    <3> QED
      BY <1>4, <3>1, <3>3, <3>4, <3>5 DEF HourOf
  <2>5. DOMAIN new = {metrics[i].ts \div HourLength : i \in U}
    BY <1>3, <1>5, <2>3
  <2>6. \A c \in DOMAIN new : HourOf(new[c], In(c, U))
    BY <1>2, <1>4, <2>3, <2>4, Zenon
  <2> QED
    BY <1>1, <2>5, <2>6 DEF HoursOf
<1>6. CASE h \notin DOMAIN hours
  <2>1. PICK x : x = [count |-> 1, rate |-> FirstRate(b)]
    OBVIOUS
  <2>2. new = [c \in DOMAIN hours \cup {h} |-> IF c = h THEN x ELSE hours[c]]
    BY <1>1, <1>6, <2>1 DEF CountHour
  <2>3. DOMAIN new = DOMAIN hours \cup {h} /\ new[h] = x
        /\ \A c \in DOMAIN new : c # h => new[c] = hours[c] /\ c \in DOMAIN hours
    BY <2>2
  <2>4. In(h, S) = {}
    BY <1>1, <1>2, <1>6 DEF In
  <2>5. In(h, U) = {k}
    BY <1>4, <2>4
  <2>6. HourOf(x, In(h, U))
    BY <1>1, <2>1, <2>5, FirstRateFacts DEF HourOf
  <2>7. \A c \in DOMAIN new : HourOf(new[c], In(c, U))
    BY <1>2, <1>4, <2>3, <2>6, Zenon
  <2> QED
    BY <1>1, <1>3, <2>3, <2>7 DEF HoursOf
<1> QED
  BY <1>5, <1>6

(* The statistics of the runs S.                                           *)
StatsOf(stats, S) ==
  /\ stats.total = Cardinality(S)
  /\ stats.successful = Cardinality(Good(S))
  /\ stats.failed = stats.total - stats.successful
  /\ CommandsOf(stats.commands, S)
  /\ HoursOf(stats.hours, S)

LEMMA StatsOfNone ==
  StatsOf(EmptyStats, {})
<1>1. Cardinality({}) = 0 /\ Good({}) = {}
  BY FS_EmptySet DEF Good
<1>2. DOMAIN <<>> = {}
  OBVIOUS
<1>3. CommandsOf(<<>>, {}) /\ HoursOf(<<>>, {})
  BY <1>2 DEF CommandsOf, HoursOf
<1>4. EmptyStats.total = 0 /\ EmptyStats.successful = 0 /\ EmptyStats.failed = 0
      /\ EmptyStats.commands = <<>> /\ EmptyStats.hours = <<>>
  BY DEF EmptyStats
<1> QED
  BY <1>1, <1>3, <1>4 DEF StatsOf

LEMMA StatsOfOneMore ==
  ASSUME RunTypes, NEW S \in SUBSET (1 .. Len(metrics)),
         NEW k \in 1 .. Len(metrics), k \notin S, NEW stats, StatsOf(stats, S)
  PROVE  StatsOf(CountRun(stats, metrics[k]), S \cup {k})
<1>1. PICK x : x = CountRun(stats, metrics[k])
  OBVIOUS
<1>2. /\ x.total = stats.total + 1
      /\ x.successful = stats.successful + (IF metrics[k].run.success THEN 1 ELSE 0)
      /\ x.failed = stats.failed + (IF metrics[k].run.success THEN 0 ELSE 1)
      /\ x.commands = CountCommand(stats.commands, metrics[k].run)
      /\ x.hours = CountHour(stats.hours, metrics[k])
  BY <1>1 DEF CountRun
<1>3. /\ Cardinality(S) \in Nat /\ Cardinality(S \cup {k}) = Cardinality(S) + 1
      /\ Cardinality(Good(S)) \in Nat
      /\ Cardinality(Good(S \cup {k}))
           = Cardinality(Good(S)) + (IF metrics[k].run.success THEN 1 ELSE 0)
  BY GoodGrows, Zenon
<1>4. CommandsOf(x.commands, S \cup {k})
  BY <1>2, CountCommandFacts DEF StatsOf
<1>5. HoursOf(x.hours, S \cup {k})
  BY <1>2, CountHourFacts DEF StatsOf
<1>6. stats.total = Cardinality(S) /\ stats.successful = Cardinality(Good(S))
      /\ stats.failed = stats.total - stats.successful
  BY DEF StatsOf
<1>7. x.total = Cardinality(S \cup {k}) /\ x.successful = Cardinality(Good(S \cup {k}))
  BY <1>2, <1>3, <1>6
<1>8. x.failed = x.total - x.successful
  <2>1. PICK t, s, f : t = stats.total /\ s = stats.successful /\ f = stats.failed
    OBVIOUS
  <2>2. t \in Int /\ s \in Int /\ f = t - s
    BY <1>3, <1>6, <2>1
  <2>3. CASE metrics[k].run.success
    <3>1. x.total = t + 1 /\ x.successful = s + 1 /\ x.failed = f + 0
      BY <1>2, <2>1, <2>3
    <3> QED
      BY <2>2, <3>1
  <2>4. CASE ~metrics[k].run.success
    <3>1. x.total = t + 1 /\ x.successful = s + 0 /\ x.failed = f + 1
      BY <1>2, <2>1, <2>4
    <3> QED
      BY <2>2, <3>1
  <2> QED
    BY <2>3, <2>4
<1> QED
  BY <1>1, <1>4, <1>5, <1>7, <1>8 DEF StatsOf

LEMMA StatsOfCollected ==
  ASSUME RunTypes, NEW S \in SUBSET (1 .. Len(metrics))
  PROVE  StatsOf(CountRuns(Collect(metrics, S)), S)
<1>1. PICK n : n = Len(metrics)
  OBVIOUS
<1>2. n \in Nat /\ metrics \in Seq(Metric) /\ \A i \in 1 .. n : metrics[i] \in Metric
  BY <1>1 DEF RunTypes
<1>3. PICK f : CollectedBy(f, metrics, S) /\ Collect(metrics, S) = f[n]
  BY <1>1, <1>2, CollectUnfolds
<1> DEFINE Up(i) == S \cap (1 .. i)
           T == {i \in Nat : i <= n => /\ f[i] \in Seq(Metric)
                                       /\ StatsOf(CountRuns(f[i]), Up(i))}
<1>4. 0 \in T
  <2>1. f[0] = <<>> /\ <<>> \in Seq(Metric) /\ Up(0) = {}
    BY <1>3, EmptySeq DEF CollectedBy
  <2> QED
    BY <2>1, CountNone, StatsOfNone
<1>5. ASSUME NEW i \in Nat, i \in T PROVE i + 1 \in T
  <2> SUFFICES ASSUME i + 1 <= n
               PROVE  f[i + 1] \in Seq(Metric) /\ StatsOf(CountRuns(f[i + 1]), Up(i + 1))
    OBVIOUS
  <2>1. PICK j : j = i + 1
    OBVIOUS
  <2>2. j \in 1 .. n /\ j - 1 = i /\ f[i] \in Seq(Metric) /\ StatsOf(CountRuns(f[i]), Up(i))
    BY <1>2, <1>5, <2>1
  <2>3. f[j] = IF j \in S THEN Append(f[i], metrics[j]) ELSE f[i]
    BY <1>1, <1>3, <2>2 DEF CollectedBy
  <2>4. Up(j) = (IF j \in S THEN Up(i) \cup {j} ELSE Up(i)) /\ j \notin Up(i)
        /\ Up(i) \in SUBSET (1 .. Len(metrics))
    BY <2>1, <2>2
  <2> HIDE DEF Up
  <2>5. CASE j \in S
    <3>1. f[j] = Append(f[i], metrics[j]) /\ metrics[j] \in Metric
      BY <1>2, <2>2, <2>3, <2>5
    <3>2. f[j] \in Seq(Metric) /\ CountRuns(f[j]) = CountRun(CountRuns(f[i]), metrics[j])
      BY <2>2, <3>1, AppendProperties, CountOneMore
    <3>3. StatsOf(CountRun(CountRuns(f[i]), metrics[j]), Up(i) \cup {j})
      BY <1>1, <2>2, <2>4, StatsOfOneMore, Zenon
    <3> QED
      BY <2>1, <2>4, <2>5, <3>2, <3>3
  <2>6. CASE j \notin S
    BY <2>1, <2>2, <2>3, <2>4, <2>6
  <2> QED
    BY <2>5, <2>6
<1>6. n \in T
  <2> HIDE DEF T
  <2> QED
    BY <1>2, <1>4, <1>5, Induction
<1>7. Up(n) = S
  BY <1>1
<1>8. StatsOf(CountRuns(f[n]), Up(n))
  <2>1. n <= n
    BY <1>2
  <2> QED
    BY <1>6, <2>1
<1> HIDE DEF Up
<1> QED
  BY <1>3, <1>7, <1>8

(* The aggregated statistics are those of the runs in the range: every run *)
(* is counted once, in the totals, its command and its hour; the rates     *)
(* updated run by run are the true shares of successes, and n roundings    *)
(* move an average by less than n / 2 (GetAggregatedStats).                *)
THEOREM StatisticsAgree ==
  StorageSpec => []StatsAgree
<1>1. StorageInv => StatsAgree
  <2> SUFFICES ASSUME StorageInv, NEW g \in Ranges
               PROVE  LET stats == AggregatedStats(metrics, g[1], g[2])
                          S == InRange(g)
                      IN
                      /\ stats.total = Cardinality(S)
                      /\ stats.successful = Cardinality(Good(S))
                      /\ stats.failed = stats.total - stats.successful
                      /\ \A i \in S : /\ metrics[i].run.command \in DOMAIN stats.commands
                                      /\ metrics[i].ts \div HourLength \in DOMAIN stats.hours
                      /\ \A c \in DOMAIN stats.commands :
                           /\ stats.commands[c].count = Cardinality(Of(c, S))
                           /\ IsRate(stats.commands[c].rate, Of(c, S))
                           /\ DriftBounded(stats.commands[c], Of(c, S))
                      /\ \A h \in DOMAIN stats.hours :
                           /\ stats.hours[h].count = Cardinality(In(h, S))
                           /\ IsRate(stats.hours[h].rate, In(h, S))
    BY DEF StatsAgree
  <2>1. RunTypes
    <3>1. /\ metrics \in Seq(Metric) /\ Len(metrics) \in Nat
          /\ \A i \in 1 .. Len(metrics) : metrics[i] \in Metric
      BY StorageTypes
    <3>2. \A m \in Metric : m.run.duration \in Nat /\ m.run.success \in BOOLEAN
      BY StorageAssumption DEF Metric
    <3> QED
      BY <3>1, <3>2 DEF RunTypes
  <2>2. PICK S, stats : S = InRange(g) /\ stats = AggregatedStats(metrics, g[1], g[2])
    OBVIOUS
  <2>3. S \in SUBSET (1 .. Len(metrics)) /\ stats = CountRuns(Collect(metrics, S))
    <3>1. DOMAIN metrics = 1 .. Len(metrics)
      BY StorageTypes
    <3> QED
      BY <2>2, <3>1 DEF InRange, AggregatedStats, GetByTimeRange
  <2>4. StatsOf(stats, S)
    BY <2>1, <2>3, StatsOfCollected
  <2>5. /\ \A c \in DOMAIN stats.commands : CommandOf(stats.commands[c], Of(c, S))
        /\ \A h \in DOMAIN stats.hours : HourOf(stats.hours[h], In(h, S))
        /\ DOMAIN stats.commands = {metrics[i].run.command : i \in S}
        /\ DOMAIN stats.hours = {metrics[i].ts \div HourLength : i \in S}
    BY <2>4 DEF StatsOf, CommandsOf, HoursOf
  <2>6. \A i \in S : /\ metrics[i].run.command \in DOMAIN stats.commands
                     /\ metrics[i].ts \div HourLength \in DOMAIN stats.hours
    BY <2>5
  <2>7. /\ \A c \in DOMAIN stats.commands :
             /\ stats.commands[c].count = Cardinality(Of(c, S))
             /\ IsRate(stats.commands[c].rate, Of(c, S))
             /\ DriftBounded(stats.commands[c], Of(c, S))
        /\ \A h \in DOMAIN stats.hours :
             /\ stats.hours[h].count = Cardinality(In(h, S))
             /\ IsRate(stats.hours[h].rate, In(h, S))
    BY <2>5, Zenon DEF CommandOf, HourOf, RateOf
  <2>8. stats.total = Cardinality(S) /\ stats.successful = Cardinality(Good(S))
        /\ stats.failed = stats.total - stats.successful
    BY <2>4 DEF StatsOf
  <2> QED
    BY <2>2, <2>6, <2>7, <2>8, Zenon
<1> QED
  BY <1>1, StorageInvariant, PTL

-----------------------------------------------------------------------------
(* The streaming matcher.  As long as nothing was found, the buffer is the *)
(* end of what was given; what a trim throws away ends before any match    *)
(* that is still to come, if the pattern is short enough.                  *)

(* p is in text after its first i symbols.                                 *)
At(text, p, i) == \A j \in 1 .. Len(p) : text[i + j] = p[j]

LEMMA OccursAt ==
  ASSUME NEW R, NEW text \in Seq(R), NEW p \in Seq(R)
  PROVE  Occurs(text, p) <=> \E i \in 0 .. Len(text) - Len(p) : At(text, p, i)
<1>1. PICK n, l : n = Len(text) /\ l = Len(p)
  OBVIOUS
<1>2. n \in Nat /\ l \in Nat /\ \A i \in 1 .. n : text[i] \in R
  BY <1>1, LenProperties, ElementOfSeq
<1>3. ASSUME NEW i \in 0 .. n - l
      PROVE  SubSeq(text, i + 1, i + l) = p <=> At(text, p, i)
  <2>1. PICK a, b : a = i + 1 /\ b = i + l
    OBVIOUS
  <2>2. a \in Int /\ b \in Int /\ b - a + 1 = l /\ (a <= b <=> l # 0)
        /\ (\A j \in a .. b : j \in 1 .. n) /\ \A j \in 1 .. l : a + j - 1 = i + j
    BY <1>2, <2>1
  <2>3. \A j \in a .. b : text[j] \in R
    BY <1>2, <2>2
  <2>4. PICK s : s = SubSeq(text, a, b)
    OBVIOUS
  <2>5. /\ s \in Seq(R) /\ Len(s) = (IF a <= b THEN b - a + 1 ELSE 0)
        /\ \A j \in 1 .. b - a + 1 : s[j] = text[a + j - 1]
    BY <2>2, <2>3, <2>4, SubSeqProperties
  <2>6. Len(s) = l /\ \A j \in 1 .. l : s[j] = text[i + j]
    BY <1>2, <2>2, <2>5
  <2>7. s = p <=> \A j \in 1 .. l : s[j] = p[j]
    BY <1>1, <2>5, <2>6, SeqEqual
  <2> QED
    BY <1>1, <2>1, <2>4, <2>6, <2>7 DEF At
<1> QED
  BY <1>1, <1>3 DEF Occurs

(* What is in the end is in the whole.                                     *)
LEMMA OccursInWhole ==
  ASSUME NEW R, NEW a \in Seq(R), NEW b \in Seq(R), NEW p \in Seq(R),
         IsEndOf(a, b), Occurs(a, p)
  PROVE  Occurs(b, p)
<1>1. PICK m, n, l : m = Len(a) /\ n = Len(b) /\ l = Len(p)
  OBVIOUS
<1>2. m \in Nat /\ n \in Nat /\ l \in Nat /\ m <= n
      /\ \A j \in 1 .. m : a[j] = b[n - m + j]
  BY <1>1, LenProperties DEF IsEndOf
<1>3. PICK i \in 0 .. m - l : At(a, p, i)
  BY <1>1, OccursAt
<1>4. PICK k : k = n - m + i
  OBVIOUS
<1>5. k \in 0 .. n - l
  BY <1>2, <1>4
<1>6. ASSUME NEW j \in 1 .. l PROVE b[k + j] = p[j]
  <2>1. i + j \in 1 .. m /\ n - m + (i + j) = k + j
    BY <1>2, <1>4
  <2>2. a[i + j] = p[j]
    BY <1>1, <1>3 DEF At
  <2> QED
    BY <1>2, <2>1, <2>2
<1>7. At(b, p, k)
  BY <1>1, <1>6 DEF At
<1> QED
  BY <1>1, <1>5, <1>7, OccursAt

LEMMA EndConcat ==
  ASSUME NEW R, NEW a \in Seq(R), NEW b \in Seq(R), NEW c \in Seq(R), IsEndOf(a, b)
  PROVE  IsEndOf(a \o c, b \o c)
<1>1. PICK m, n, l, x, y : m = Len(a) /\ n = Len(b) /\ l = Len(c)
                           /\ x = a \o c /\ y = b \o c
  OBVIOUS
<1>2. m \in Nat /\ n \in Nat /\ l \in Nat /\ m <= n
      /\ \A j \in 1 .. m : a[j] = b[n - m + j]
  BY <1>1, LenProperties DEF IsEndOf
<1>3. /\ Len(x) = m + l
      /\ \A i \in 1 .. m + l : x[i] = IF i <= m THEN a[i] ELSE c[i - m]
  BY <1>1, ConcatProperties
<1>4. /\ Len(y) = n + l
      /\ \A i \in 1 .. n + l : y[i] = IF i <= n THEN b[i] ELSE c[i - n]
  BY <1>1, ConcatProperties
<1>5. ASSUME NEW j \in 1 .. m + l PROVE x[j] = y[(n + l) - (m + l) + j]
  <2>1. PICK i : i = (n + l) - (m + l) + j
    OBVIOUS
  <2>2. i \in 1 .. n + l /\ i = n - m + j /\ (j <= m <=> i <= n) /\ i - n = j - m
    BY <1>2, <2>1
  <2>3. y[i] = IF i <= n THEN b[i] ELSE c[i - n]
    BY <1>4, <2>2
  <2>4. x[j] = IF j <= m THEN a[j] ELSE c[j - m]
    BY <1>3
  <2>5. CASE j <= m
    <3>1. j \in 1 .. m
      BY <1>2, <2>5
    <3>2. a[j] = b[i]
      BY <1>2, <2>2, <3>1
    <3> QED
      BY <2>1, <2>2, <2>3, <2>4, <2>5, <3>2
  <2>6. CASE ~(j <= m)
    <3>1. ~(i <= n) /\ i - n = j - m
      BY <2>2, <2>6
    <3>2. y[i] = c[i - n] /\ x[j] = c[j - m]
      BY <2>3, <2>4, <2>6, <3>1
    <3> QED
      BY <2>1, <3>1, <3>2
  <2> QED
    BY <2>5, <2>6
<1>6. m + l <= n + l
  BY <1>2
<1> QED
  BY <1>1, <1>3, <1>4, <1>5, <1>6 DEF IsEndOf

(* Nothing is missed: a first occurrence of p that needs the new chunk     *)
(* begins within what is kept.                                             *)
LEMMA NoneMissed ==
  ASSUME NEW R, NEW a \in Seq(R), NEW b \in Seq(R), NEW c \in Seq(R), NEW p \in Seq(R),
         IsEndOf(b, a), ~Occurs(a, p), Occurs(a \o c, p),
         Len(b) = Len(a) \/ Len(b) >= Len(p) - 1
  PROVE  Occurs(b \o c, p)
<1>1. PICK m, n, l, k, x, y : m = Len(b) /\ n = Len(a) /\ l = Len(c) /\ k = Len(p)
                              /\ x = b \o c /\ y = a \o c
  OBVIOUS
<1>2. m \in Nat /\ n \in Nat /\ l \in Nat /\ k \in Nat /\ m <= n
  BY <1>1, LenProperties DEF IsEndOf
<1>3. /\ x \in Seq(R) /\ y \in Seq(R) /\ Len(x) = m + l /\ Len(y) = n + l
      /\ \A i \in 1 .. n + l : y[i] = IF i <= n THEN a[i] ELSE c[i - n]
  BY <1>1, ConcatProperties
<1>4. \A j \in 1 .. m + l : x[j] = y[(n + l) - (m + l) + j]
  BY <1>1, <1>3, EndConcat DEF IsEndOf
<1>5. PICK i \in 0 .. (n + l) - k : At(y, p, i)
  BY <1>1, <1>3, OccursAt
<1>6. ~(i <= n - k)
  <2>1. SUFFICES ASSUME i <= n - k PROVE FALSE
    OBVIOUS
  <2>2. i \in 0 .. n - k
    BY <1>2, <2>1
  <2>3. ASSUME NEW j \in 1 .. k PROVE a[i + j] = p[j]
    <3>1. i + j \in 1 .. n + l /\ i + j <= n
      BY <1>2, <2>2
    <3>2. y[i + j] = p[j]
      BY <1>1, <1>5 DEF At
    <3> QED
      BY <1>3, <3>1, <3>2
  <2>4. At(a, p, i)
    BY <1>1, <2>3 DEF At
  <2> QED
    BY <1>1, <2>2, <2>4, OccursAt
<1>7. PICK h : h = i - (n - m)
  OBVIOUS
<1>8. h \in 0 .. (m + l) - k
  <2>1. m = n \/ m >= k - 1
    BY <1>1
  <2> QED
    BY <1>2, <1>6, <1>7, <2>1
<1>9. ASSUME NEW j \in 1 .. k PROVE x[h + j] = p[j]
  <2>1. h + j \in 1 .. m + l /\ (n + l) - (m + l) + (h + j) = i + j
    BY <1>2, <1>7, <1>8
  <2>2. y[i + j] = p[j]
    BY <1>1, <1>5 DEF At
  <2> QED
    BY <1>4, <2>1, <2>2
<1>10. At(x, p, h)
  BY <1>1, <1>9 DEF At
<1> QED
  BY <1>1, <1>3, <1>8, <1>10, OccursAt

(* More text does not undo a match.                                        *)
LEMMA OccursInLonger ==
  ASSUME NEW R, NEW a \in Seq(R), NEW c \in Seq(R), NEW p \in Seq(R), Occurs(a, p)
  PROVE  Occurs(a \o c, p)
<1>1. PICK n, l, k, y : n = Len(a) /\ l = Len(c) /\ k = Len(p) /\ y = a \o c
  OBVIOUS
<1>2. /\ n \in Nat /\ l \in Nat /\ k \in Nat /\ y \in Seq(R) /\ Len(y) = n + l
      /\ \A i \in 1 .. n + l : y[i] = IF i <= n THEN a[i] ELSE c[i - n]
  BY <1>1, LenProperties, ConcatProperties
<1>3. PICK i \in 0 .. n - k : At(a, p, i)
  BY <1>1, OccursAt
<1>4. ASSUME NEW j \in 1 .. k PROVE y[i + j] = p[j]
  <2>1. i + j \in 1 .. n + l /\ i + j <= n
    BY <1>2
  <2>2. a[i + j] = p[j]
    BY <1>1, <1>3 DEF At
  <2> QED
    BY <1>2, <2>1, <2>2
<1>5. At(y, p, i) /\ i \in 0 .. (n + l) - k
  BY <1>1, <1>2, <1>4 DEF At
<1> QED
  BY <1>1, <1>2, <1>5, OccursAt

LEMMA LargestFacts ==
  /\ LargestChunk \in Nat
  /\ \A c \in Chunks : c \in Seq(Symbols) /\ Len(c) \in Nat /\ Len(c) <= LargestChunk
<1>1. \A c \in Chunks : c \in Seq(Symbols) /\ Len(c) \in Nat
  BY StreamAssumption, LenProperties
<1>2. PICK c \in Chunks : \A d \in Chunks : Len(d) <= Len(c)
  BY StreamAssumption
<1>3. \E n \in {Len(d) : d \in Chunks} : \A d \in Chunks : Len(d) <= n
  BY <1>2
<1>4. LargestChunk \in {Len(d) : d \in Chunks} /\ \A d \in Chunks : Len(d) <= LargestChunk
  BY <1>3 DEF LargestChunk
<1> QED
  BY <1>1, <1>4

(* What a trim keeps: the second half, rounded up.                         *)
LEMMA TrimFacts ==
  ASSUME NEW R, NEW b \in Seq(R)
  PROVE  /\ TrimBuffer(b) \in Seq(R) /\ IsEndOf(TrimBuffer(b), b)
         /\ Len(TrimBuffer(b)) = Len(b) - Len(b) \div 2
<1>1. PICK n, h : n = Len(b) /\ h = Len(b) \div 2
  OBVIOUS
<1>2. n \in Nat /\ (\A i \in 1 .. n : b[i] \in R) /\ TrimBuffer(b) = SubSeq(b, h + 1, n)
  BY <1>1, LenProperties, ElementOfSeq DEF TrimBuffer
<1>3. h \in Nat /\ h <= n /\ (n # 0 => h + 1 <= n)
  BY <1>1, <1>2
<1>4. PICK a, s : a = h + 1 /\ s = SubSeq(b, a, n)
  OBVIOUS
<1>5. a \in Int /\ n \in Int /\ n - a + 1 = n - h /\ (a <= n <=> n - h # 0)
      /\ (\A i \in a .. n : i \in 1 .. n) /\ \A j \in 1 .. n - h : a + j - 1 = h + j
  BY <1>2, <1>3, <1>4
<1>6. /\ s \in Seq(R) /\ Len(s) = (IF a <= n THEN n - a + 1 ELSE 0)
      /\ \A j \in 1 .. n - a + 1 : s[j] = b[a + j - 1]
  <2>1. \A i \in a .. n : b[i] \in R
    BY <1>2, <1>5
  <2> QED
    BY <1>4, <1>5, <2>1, SubSeqProperties
<1>7. Len(s) = n - h /\ \A j \in 1 .. n - h : s[j] = b[h + j]
  BY <1>2, <1>3, <1>5, <1>6
<1>8. ASSUME NEW j \in 1 .. n - h PROVE s[j] = b[n - (n - h) + j]
  <2>1. n - (n - h) + j = h + j
    BY <1>2, <1>3
  <2> QED
    BY <1>7, <2>1
<1>9. n - h <= n
  BY <1>2, <1>3
<1>10. IsEndOf(s, b)
  BY <1>1, <1>7, <1>8, <1>9 DEF IsEndOf
<1> QED
  BY <1>1, <1>2, <1>4, <1>6, <1>7, <1>10

(* The inductive invariant.                                                *)
StreamInv ==
  /\ pattern \in Seq(Symbols) /\ buffer \in Seq(Symbols) /\ given \in Seq(Symbols)
  /\ matched \in BOOLEAN
  /\ pattern = <<>> => buffer = <<>> /\ given = <<>> /\ ~matched
  /\ BufferBounded
  /\ matched => Occurs(given, pattern)
  /\ ~matched => IsEndOf(buffer, given)
  /\ ~matched /\ pattern # <<>> /\ ShortEnough(pattern) =>
       /\ ~Occurs(given, pattern)
       /\ Len(buffer) = Len(given) \/ Len(buffer) >= Len(pattern) - 1

(* What ProcessChunk keeps of the buffer b of length n for a chunk of      *)
(* length l.                                                               *)
LEMMA KeptLengths ==
  ASSUME NEW n \in Nat, NEW l \in Nat, NEW L \in Nat, NEW M \in Nat, l <= L, n + l > M,
         n <= IF M >= 2 * L THEN M ELSE 2 * L
  PROVE  /\ n - n \div 2 + l <= IF M >= 2 * L THEN M ELSE 2 * L
         /\ n - n \div 2 >= (M - L + 2) \div 2
<1>1. PICK h \in Nat : h = n \div 2
  OBVIOUS
<1>2. 2 * h <= n /\ n <= 2 * h + 1
  BY <1>1
<1>3. PICK q \in Int : q = (M - L + 2) \div 2
  OBVIOUS
<1>4. 2 * q <= M - L + 2 /\ M - L + 2 <= 2 * q + 1
  BY <1>3
<1>5. n - h + l <= IF M >= 2 * L THEN M ELSE 2 * L
  <2>1. CASE M >= 2 * L
    BY <1>2, <2>1
  <2>2. CASE ~(M >= 2 * L)
    BY <1>2, <2>2
  <2> QED
    BY <2>1, <2>2
<1>6. n - h >= q
  BY <1>2, <1>4
<1> QED
  BY <1>1, <1>3, <1>5, <1>6

LEMMA NotInEmpty ==
  ASSUME NEW p \in Seq(Symbols), p # <<>>
  PROVE  ~Occurs(<<>>, p)
<1>1. Len(<<>>) = 0 /\ Len(p) \in Nat /\ Len(p) # 0
  BY EmptySeq, LenProperties
<1>2. 0 .. Len(<<>>) - Len(p) = {}
  BY <1>1
<1> QED
  BY <1>2, Zenon DEF Occurs

(* A chunk that is looked at keeps the invariant.                          *)
LEMMA ChunkKeeps ==
  ASSUME StreamInv, NEW chunk \in Chunks, ProcessChunk(chunk), ~matched
  PROVE  StreamInv'
<1>1. PICK kept, text, hit :
        /\ kept = IF Room(buffer, chunk) THEN buffer ELSE TrimBuffer(buffer)
        /\ text = kept \o chunk /\ hit = Occurs(text, pattern)
  OBVIOUS
<1>2. /\ pattern # <<>> /\ given' = given \o chunk /\ buffer' = text /\ matched' = hit
      /\ pattern' = pattern
  BY <1>1 DEF ProcessChunk
<1>3. /\ pattern \in Seq(Symbols) /\ buffer \in Seq(Symbols) /\ given \in Seq(Symbols)
      /\ BufferBounded /\ IsEndOf(buffer, given)
      /\ ShortEnough(pattern) =>
           /\ ~Occurs(given, pattern)
           /\ Len(buffer) = Len(given) \/ Len(buffer) >= Len(pattern) - 1
  BY <1>2 DEF StreamInv
<1>4. chunk \in Seq(Symbols) /\ LargestChunk \in Nat /\ Len(chunk) \in Nat
      /\ Len(chunk) <= LargestChunk /\ MaxBuffer \in Nat
  BY LargestFacts, StreamAssumption
<1>5. Len(buffer) \in Nat /\ Len(given) \in Nat /\ Len(pattern) \in Nat
  BY <1>3, LenProperties
<1>6. /\ kept \in Seq(Symbols) /\ IsEndOf(kept, buffer)
      /\ Len(kept) + Len(chunk) <= (IF MaxBuffer >= 2 * LargestChunk THEN MaxBuffer
                                    ELSE 2 * LargestChunk)
      /\ ShortEnough(pattern) =>
           Len(kept) = Len(buffer) \/ Len(kept) >= Len(pattern) - 1
  <2>1. CASE Room(buffer, chunk)
    <3>1. kept = buffer
      BY <1>1, <2>1
    <3>2. IsEndOf(buffer, buffer)
      <4>1. PICK n : n = Len(buffer)
        OBVIOUS
      <4>2. n \in Nat /\ n <= n /\ \A j \in 1 .. n : n - n + j = j
        BY <1>5, <4>1
      <4> QED
        BY <4>1, <4>2 DEF IsEndOf
    <3>3. Len(buffer) + Len(chunk) <= MaxBuffer
      BY <2>1 DEF Room
    <3>4. Len(buffer) + Len(chunk) <= (IF MaxBuffer >= 2 * LargestChunk THEN MaxBuffer
                                       ELSE 2 * LargestChunk)
      BY <1>4, <1>5, <3>3
    <3> QED
      BY <1>3, <3>1, <3>2, <3>4
  <2>2. CASE ~Room(buffer, chunk)
    <3>1. kept = TrimBuffer(buffer)
      BY <1>1, <2>2
    <3>2. kept \in Seq(Symbols) /\ IsEndOf(kept, buffer)
          /\ Len(kept) = Len(buffer) - Len(buffer) \div 2
      BY <1>3, <3>1, TrimFacts
    <3>3. PICK n, l, L, M : n = Len(buffer) /\ l = Len(chunk) /\ L = LargestChunk /\ M = MaxBuffer
      OBVIOUS
    <3>4. n \in Nat /\ l \in Nat /\ L \in Nat /\ M \in Nat /\ l <= L
      BY <1>4, <1>5, <3>3
    <3>5. n + l > M /\ n <= IF M >= 2 * L THEN M ELSE 2 * L
      <4>1. ~(n + l <= M)
        BY <2>2, <3>3 DEF Room
      <4>2. n <= IF M >= 2 * L THEN M ELSE 2 * L
        BY <1>3, <3>3 DEF BufferBounded
      <4> QED
        BY <3>4, <4>1, <4>2
    <3>6. /\ n - n \div 2 + l <= IF M >= 2 * L THEN M ELSE 2 * L
          /\ n - n \div 2 >= (M - L + 2) \div 2
      BY <3>4, <3>5, KeptLengths
    <3>7. ShortEnough(pattern) => Len(kept) >= Len(pattern) - 1
      <4>1. PICK q, k, h : q = (M - L + 2) \div 2 /\ k = Len(pattern) /\ h = Len(kept)
        OBVIOUS
      <4>2. q \in Int /\ k \in Int /\ h \in Int
        BY <1>5, <3>2, <3>4, <4>1, LenProperties
      <4>3. h >= q
        BY <3>2, <3>3, <3>6, <4>1
      <4>4. ShortEnough(pattern) => q >= k - 1
        BY <3>3, <4>1 DEF ShortEnough
      <4>5. ShortEnough(pattern) => h >= k - 1
        BY <4>2, <4>3, <4>4
      <4> QED
        BY <4>1, <4>5
    <3>8. Len(kept) + Len(chunk) <= (IF MaxBuffer >= 2 * LargestChunk THEN MaxBuffer
                                     ELSE 2 * LargestChunk)
      BY <3>2, <3>3, <3>6
    <3> QED
      BY <3>2, <3>7, <3>8
  <2> QED
    BY <2>1, <2>2
<1>7. IsEndOf(kept, given) /\ Len(kept) \in Nat
  BY <1>3, <1>6, EndOfEnd, LenProperties
<1>8. /\ text \in Seq(Symbols) /\ given \o chunk \in Seq(Symbols)
      /\ Len(text) = Len(kept) + Len(chunk)
      /\ Len(given \o chunk) = Len(given) + Len(chunk)
  BY <1>1, <1>3, <1>4, <1>6, ConcatProperties
<1>9. IsEndOf(text, given \o chunk)
  BY <1>1, <1>3, <1>4, <1>6, <1>7, EndConcat
<1>10. hit => Occurs(given \o chunk, pattern)
  BY <1>1, <1>3, <1>8, <1>9, OccursInWhole
<1>11. ASSUME ShortEnough(pattern), ~hit
       PROVE  /\ ~Occurs(given \o chunk, pattern)
              /\ Len(text) = Len(given \o chunk) \/ Len(text) >= Len(pattern) - 1
  <2>1. Len(kept) = Len(given) \/ Len(kept) >= Len(pattern) - 1
    <3>1. PICK k, b, g, p : k = Len(kept) /\ b = Len(buffer) /\ g = Len(given) /\ p = Len(pattern)
      OBVIOUS
    <3>2. (k = b \/ k >= p - 1) /\ (b = g \/ b >= p - 1)
      BY <1>3, <1>6, <1>11, <3>1
    <3> QED
      BY <3>1, <3>2
  <2>2. ~Occurs(given \o chunk, pattern)
    <3>1. ~Occurs(given, pattern)
      BY <1>3, <1>11
    <3>2. ~Occurs(kept \o chunk, pattern)
      BY <1>1, <1>11
    <3>3. kept \in Seq(Symbols) /\ given \in Seq(Symbols) /\ chunk \in Seq(Symbols)
          /\ pattern \in Seq(Symbols) /\ IsEndOf(kept, given)
      BY <1>3, <1>4, <1>6, <1>7, Zenon
    <3>4. Occurs(given \o chunk, pattern) => Occurs(kept \o chunk, pattern)
      BY <2>1, <3>1, <3>3, NoneMissed, Zenon
    <3> QED
      BY <3>2, <3>4, Zenon
  <2>3. Len(text) = Len(given \o chunk) \/ Len(text) >= Len(pattern) - 1
    BY <1>4, <1>5, <1>7, <1>8, <2>1
  <2> QED
    BY <2>2, <2>3
<1>12. BufferBounded'
  BY <1>2, <1>6, <1>8 DEF BufferBounded
<1>13. hit \in BOOLEAN
  BY <1>1 DEF Occurs
<1> QED
  BY <1>2, <1>3, <1>8, <1>9, <1>10, <1>11, <1>12, <1>13 DEF StreamInv

LEMMA StreamStep ==
  StreamInv /\ [StreamNext]_streamVars => StreamInv'
<1> SUFFICES ASSUME StreamInv, [StreamNext]_streamVars PROVE StreamInv'
  OBVIOUS
<1>1. ASSUME NEW p \in Literals, NewStreaming(p) PROVE StreamInv'
  <2>1. pattern = <<>> /\ p # <<>> /\ pattern' = p /\ p \in Seq(Symbols)
        /\ buffer' = buffer /\ matched' = matched /\ given' = given
    BY <1>1, StreamAssumption DEF NewStreaming
  <2>2. buffer = <<>> /\ given = <<>> /\ ~matched /\ BufferBounded
        /\ IsEndOf(buffer, given) /\ buffer \in Seq(Symbols) /\ given \in Seq(Symbols)
    BY <2>1 DEF StreamInv
  <2>3. BufferBounded'
    BY <2>1, <2>2 DEF BufferBounded
  <2>4. ~Occurs(<<>>, p)
    BY <2>1, NotInEmpty
  <2> QED
    BY <2>1, <2>2, <2>3, <2>4 DEF StreamInv
<1>2. ASSUME NEW chunk \in Chunks, ProcessChunk(chunk) PROVE StreamInv'
  <2>1. CASE ~matched
    BY <1>2, <2>1, ChunkKeeps
  <2>2. CASE matched
    <3>1. pattern # <<>> /\ given' = given \o chunk /\ buffer' = buffer /\ matched'
          /\ matched' = matched /\ pattern' = pattern
      BY <1>2, <2>2 DEF ProcessChunk
    <3>2. pattern \in Seq(Symbols) /\ given \in Seq(Symbols) /\ chunk \in Seq(Symbols)
          /\ Occurs(given, pattern)
      BY <2>2, LargestFacts DEF StreamInv
    <3>3. given \o chunk \in Seq(Symbols) /\ Occurs(given \o chunk, pattern)
      BY <3>2, ConcatProperties, OccursInLonger
    <3>4. BufferBounded'
      BY <3>1 DEF StreamInv, BufferBounded
    <3> QED
      BY <2>2, <3>1, <3>2, <3>3, <3>4 DEF StreamInv
  <2> QED
    BY <2>1, <2>2
<1>3. ASSUME Reset PROVE StreamInv'
  <2>1. buffer' = <<>> /\ ~matched' /\ matched' \in BOOLEAN /\ given' = <<>>
        /\ pattern' = pattern /\ pattern \in Seq(Symbols)
    BY <1>3 DEF Reset, StreamInv
  <2>2. <<>> \in Seq(Symbols) /\ Len(<<>>) = 0 /\ IsEndOf(<<>>, <<>>)
    BY EmptySeq DEF IsEndOf
  <2>3. BufferBounded'
    <3>1. 0 <= IF MaxBuffer >= 2 * LargestChunk THEN MaxBuffer ELSE 2 * LargestChunk
      BY LargestFacts, StreamAssumption
    <3> QED
      BY <2>1, <2>2, <3>1 DEF BufferBounded
  <2>4. pattern # <<>> => ~Occurs(<<>>, pattern)
    BY <2>1, NotInEmpty
  <2> QED
    BY <2>1, <2>2, <2>3, <2>4 DEF StreamInv
<1>4. CASE UNCHANGED streamVars
  <2>1. pattern' = pattern /\ buffer' = buffer /\ matched' = matched /\ given' = given
    BY <1>4 DEF streamVars
  <2>2. BufferBounded' <=> BufferBounded
    BY <2>1 DEF BufferBounded
  <2> QED
    BY <2>1, <2>2 DEF StreamInv
<1> QED
  BY <1>1, <1>2, <1>3, <1>4 DEF StreamNext

(* HasMatch is right: no match is made up, and none is missed for a        *)
(* pattern that is short enough for the half of the buffer that a trim     *)
(* keeps, for any text in any chunks; and the buffer stays bounded         *)
(* (ProcessChunk and Reset).                                               *)
THEOREM StreamFindsWhatIsThere ==
  StreamSpec => []FindsWhatIsThere
<1>1. StreamInit => StreamInv
  <2> SUFFICES ASSUME StreamInit PROVE StreamInv
    OBVIOUS
  <2>1. pattern = <<>> /\ buffer = <<>> /\ ~matched /\ matched \in BOOLEAN /\ given = <<>>
    BY DEF StreamInit
  <2>2. <<>> \in Seq(Symbols) /\ Len(<<>>) = 0 /\ IsEndOf(<<>>, <<>>)
    BY EmptySeq DEF IsEndOf
  <2>3. BufferBounded
    <3>1. 0 <= IF MaxBuffer >= 2 * LargestChunk THEN MaxBuffer ELSE 2 * LargestChunk
      BY LargestFacts, StreamAssumption
    <3> QED
      BY <2>1, <2>2, <3>1 DEF BufferBounded
  <2> QED
    BY <2>1, <2>2, <2>3 DEF StreamInv
<1>2. StreamInv => FindsWhatIsThere
  BY DEF StreamInv, FindsWhatIsThere
<1> QED
  BY <1>1, <1>2, StreamStep, PTL DEF StreamSpec
=============================================================================
