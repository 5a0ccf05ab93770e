-------------------------- MODULE DiscoveryProofs --------------------------
(* Proofs about discovered rate limits, for any number of processes and    *)
(* resources, any limits and any number of calls, under every interleaving *)
(* of their SQL statements; about the groups of resources; and about what  *)
(* the parsers make of any output and any command.                         *)
EXTENDS Discovery, LimitParser, ResourceGroups, Integers, FiniteSetTheorems,
        SequenceTheorems, WellFoundedInduction, TLAPS

-----------------------------------------------------------------------------
(* The inductive invariant.                                                *)

Codes == {"ok", "429", "other"}

LearnStates  == [pc: {"learn"}, res: Resources, code: Codes]
UpdateStates == [pc: {"update"}, res: Resources, code: {"ok", "429"}]

(* What may follow a call of SaveRateLimitInfo.                            *)
Thens == {Idle} \cup LearnStates \cup UpdateStates

Rows == Infos \cup {NoRow}

CheckStates == [pc: {"check"}, key: Resources, info: Infos, then: Thens,
                read: SUBSET Rows]
WriteStates == [pc: {"write"}, key: Resources, info: Infos, then: Thens,
                read: SUBSET Rows, how: {"insert", "replace", "observe"}]

States == Thens \cup CheckStates \cup WriteStates

(* What a stored row, or one on its way into the database, rests on, when  *)
(* said has been stated so far.                                            *)
Reported(key, info, said) ==
  IF info.source = "learned" THEN info.limit > 0
  ELSE <<key, info.source, info.limit>> \in said

(* An outcome was counted for it only together with an observation; only   *)
(* what the learner inferred starts with outcomes.                         *)
Counted(info) ==
  info.source # "learned" /\ info.succ + info.fail > 0 => info.obs >= 2

(* What is saved is a single new observation, or was made from a row that  *)
(* the process has read.                                                   *)
Fresh(info) == info.obs = 1

DerivedFrom(info, r) == r # NoRow /\ info.source = r.source

Sound(s, said) ==
  /\ s \in States
  /\ s.pc \in {"check", "write"} => Reported(s.key, s.info, said) /\ Counted(s.info)
  /\ s.pc = "check" =>
       Fresh(s.info) \/ \E r \in s.read : DerivedFrom(s.info, r)

ProcInv == proc \in [Procs -> States] /\ \A p \in Procs : Sound(proc[p], reported)

RowInv ==
  \A r \in Resources : row[r] # NoRow =>
    Reported(r, row[r], reported) /\ Counted(row[r])

RateInv == \A p \in Procs : rateLimit[p] = 0 => \E x \in reported : x[3] = 0

IInv == TypeOK /\ ProcInv /\ RowInv /\ RateInv

(* A decision to replace a row is a decision against a row that is old by  *)
(* the day t, or that was not the only one seen, or for a source of at     *)
(* least its rank.                                                         *)
Justified(s, t) ==
  \E r \in s.read :
    /\ r # NoRow
    /\ \/ t - r.seen > 1
       \/ s.read # {r}
       \/ Priority[s.info.source] >= Priority[r.source]

(* A decision to insert is one of a process that found no row.             *)
InsertInv ==
  \A p \in Procs :
    proc[p].pc = "write" /\ proc[p].how = "insert" => NoRow \in proc[p].read

VerdictInv ==
  \A p \in Procs :
    proc[p].pc = "write" /\ proc[p].how = "replace" => Justified(proc[p], now)

-----------------------------------------------------------------------------
(* The confidence score.                                                   *)

(* The parts of the score that count outcomes and age.                     *)
SuccessPart(info) ==
  IF info.succ + info.fail = 0 THEN <<1, 1>>
  ELSE <<(info.succ + info.fail) + info.succ, 2 * (info.succ + info.fail)>>

RecencyPart(info) ==
  IF now - info.seen > 1 THEN <<7, 7 + (now - info.seen)>> ELSE <<1, 1>>

(* The fields of an info have their types.                                 *)
LEMMA InfoFields ==
  ASSUME NEW info \in Infos
  PROVE  /\ info.source \in Sources /\ info.limit \in Nat
         /\ info.obs \in Nat /\ info.obs > 0
         /\ info.succ \in Nat /\ info.fail \in Nat
         /\ info.seen \in 0 .. MaxTime /\ info.conf \in Nat \X (Nat \ {0})
  BY DEF Infos

(* The score, spelled out: a product of four fractions.                    *)
LEMMA ScoreShape ==
  ASSUME NEW info
  PROVE  ConfidenceScore(info) =
           <<(BaseConfidence[info.source] * info.obs)
               * (SuccessPart(info)[1] * RecencyPart(info)[1]),
             (10 * (info.obs + HalfObservations))
               * (SuccessPart(info)[2] * RecencyPart(info)[2])>>
  BY DEF ConfidenceScore, Times, SuccessPart, RecencyPart

(* Outcomes lower the score to no less than a half.                        *)
LEMMA SuccessBounds ==
  ASSUME NEW info \in Infos
  PROVE  \E a, b \in Nat \ {0} :
           /\ SuccessPart(info) = <<a, b>>
           /\ a <= b /\ b <= 2 * a
           /\ info.succ + info.fail = 0 => a = b
  <1>1. info.succ \in Nat /\ info.fail \in Nat
    BY InfoFields
  <1>2. CASE info.succ + info.fail = 0
    BY <1>2 DEF SuccessPart
  <1>3. CASE info.succ + info.fail # 0
    <2>1. SuccessPart(info) = <<(info.succ + info.fail) + info.succ,
                                2 * (info.succ + info.fail)>>
      BY <1>3 DEF SuccessPart
    <2>2. /\ (info.succ + info.fail) + info.succ \in Nat \ {0}
          /\ 2 * (info.succ + info.fail) \in Nat \ {0}
          /\ (info.succ + info.fail) + info.succ <= 2 * (info.succ + info.fail)
          /\ 2 * (info.succ + info.fail) <= 2 * ((info.succ + info.fail) + info.succ)
      BY <1>1, <1>3
    <2>3. QED
      BY <2>1, <2>2, <1>3
  <1>4. QED
    BY <1>2, <1>3

(* Age lowers the score, and within a day it does not.                     *)
LEMMA RecencyBounds ==
  ASSUME NEW info \in Infos, now \in Nat
  PROVE  \E a, b \in Nat \ {0} :
           /\ RecencyPart(info) = <<a, b>>
           /\ a <= b
           /\ now - info.seen <= 1 => a = 1 /\ b = 1
  <1>1. info.seen \in Int
    BY InfoFields
  <1>2. CASE now - info.seen > 1
    <2>1. RecencyPart(info) = <<7, 7 + (now - info.seen)>>
      BY <1>2 DEF RecencyPart
    <2>2. 7 + (now - info.seen) \in Nat \ {0} /\ 7 <= 7 + (now - info.seen)
      BY <1>1, <1>2
    <2>3. QED
      BY <1>1, <1>2, <2>1, <2>2
  <1>3. CASE ~(now - info.seen > 1)
    BY <1>3 DEF RecencyPart
  <1>4. QED
    BY <1>2, <1>3

(* The base confidence of a source.                                        *)
LEMMA BaseValues ==
  /\ \A s \in Sources : BaseConfidence[s] \in 6 .. 10 /\ Priority[s] \in 1 .. 4
  /\ \A s, t \in Sources : Priority[t] < Priority[s] =>
       /\ s # "learned"
       /\ \/ BaseConfidence[t] <= 9 /\ BaseConfidence[s] = 10
          \/ BaseConfidence[t] <= 8 /\ BaseConfidence[s] = 9
          \/ BaseConfidence[t] = 6 /\ BaseConfidence[s] = 8
  <1>1. /\ BaseConfidence["manual"] = 10 /\ BaseConfidence["http_header"] = 9
        /\ BaseConfidence["json_body"] = 8 /\ BaseConfidence["learned"] = 6
    BY DEF BaseConfidence
  <1>2. /\ Priority["manual"] = 4 /\ Priority["http_header"] = 3
        /\ Priority["json_body"] = 2 /\ Priority["learned"] = 1
    BY DEF Priority
  <1>3. QED
    BY <1>1, <1>2 DEF Sources

(* A product of positive numbers is positive.                              *)
LEMMA PositiveProduct ==
  ASSUME NEW a \in Nat \ {0}, NEW b \in Nat \ {0}
  PROVE  a * b \in Nat \ {0}
  OBVIOUS

(* A score is a fraction, and never zero.                                  *)
LEMMA ScoreType ==
  ASSUME NEW info \in Infos, now \in Nat
  PROVE  /\ ConfidenceScore(info) \in Nat \X (Nat \ {0})
         /\ ConfidenceScore(info)[1] > 0
  <1>1. PICK a, b \in Nat \ {0} : SuccessPart(info) = <<a, b>>
    BY SuccessBounds
  <1>2. PICK c, d \in Nat \ {0} : RecencyPart(info) = <<c, d>>
    BY RecencyBounds
  <1>3. /\ BaseConfidence[info.source] \in Nat \ {0}
        /\ info.obs \in Nat \ {0}
        /\ 10 * (info.obs + HalfObservations) \in Nat \ {0}
    BY InfoFields, BaseValues, DiscoveryAssumption
  <1>4. /\ BaseConfidence[info.source] * info.obs \in Nat \ {0}
        /\ a * c \in Nat \ {0} /\ b * d \in Nat \ {0}
    BY <1>3, PositiveProduct
  <1>5. /\ (BaseConfidence[info.source] * info.obs) * (a * c) \in Nat \ {0}
        /\ (10 * (info.obs + HalfObservations)) * (b * d) \in Nat \ {0}
    BY <1>3, <1>4, PositiveProduct
  <1>6. ConfidenceScore(info) =
          <<(BaseConfidence[info.source] * info.obs) * (a * c),
            (10 * (info.obs + HalfObservations)) * (b * d)>>
    BY <1>1, <1>2, ScoreShape
  <1>7. QED
    BY <1>5, <1>6

(* Products of naturals grow with their factors, and may be rearranged.    *)
LEMMA TimesMonotone ==
  ASSUME NEW x \in Nat, NEW y \in Nat, NEW u \in Nat, NEW v \in Nat,
         x <= y, u <= v
  PROVE  x * u <= y * v
  <1>1. PICK k \in Nat : y = x + k
    <2>1. y - x \in Nat /\ y = x + (y - x)
      OBVIOUS
    <2>2. QED
      BY <2>1
  <1>2. PICK m \in Nat : v = u + m
    <2>1. v - u \in Nat /\ v = u + (v - u)
      OBVIOUS
    <2>2. QED
      BY <2>1
  <1>3. y * v = x * u + x * m + k * u + k * m
    BY <1>1, <1>2
  <1>4. x * m \in Nat /\ k * u \in Nat /\ k * m \in Nat /\ x * u \in Nat
    OBVIOUS
  <1>5. QED
    BY <1>3, <1>4

LEMMA TimesInNat ==
  ASSUME NEW x \in Nat, NEW y \in Nat
  PROVE  x * y \in Nat
  OBVIOUS

(* The weight of one observation is at most that of o observations.        *)
LEMMA OneObservation ==
  ASSUME NEW o \in Nat \ {0}, NEW h \in Nat, NEW m \in Nat, NEW n \in Nat,
         m <= n
  PROVE  m * (o + h) <= n * (o * (1 + h))
  <1>1. PICK u \in Nat : o = 1 + u
    <2>1. o - 1 \in Nat /\ o = 1 + (o - 1)
      OBVIOUS
    <2>2. QED
      BY <2>1
  <1>2. o * (1 + h) = o + h + u * h
    BY <1>1
  <1>3. u * h \in Nat
    BY TimesInNat
  <1>4. o + h \in Nat /\ o * (1 + h) \in Nat /\ o + h <= o * (1 + h)
    BY <1>2, <1>3
  <1>5. QED
    BY <1>4, TimesMonotone

(* One observation of a source does not outweigh two or more of a source   *)
(* that is trusted more, not even at half of their weight - given that at  *)
(* least 8 observations make half of the confidence; the code has 10.      *)
LEMMA ObservationsOutweigh ==
  ASSUME NEW o \in Nat, NEW h \in Nat, NEW m \in Nat, NEW n \in Nat,
         o >= 2, h >= 8,
         \/ m <= 9 /\ n = 10
         \/ m <= 8 /\ n = 9
         \/ m <= 6 /\ n = 8
  PROVE  m * (2 * (o + h)) <= n * (o * (1 + h))
  <1>1. PICK u \in Nat : o = 2 + u
    <2>1. o - 2 \in Nat /\ o = 2 + (o - 2)
      OBVIOUS
    <2>2. QED
      BY <2>1
  <1>2. PICK v \in Nat : h = 8 + v
    <2>1. h - 8 \in Nat /\ h = 8 + (h - 8)
      OBVIOUS
    <2>2. QED
      BY <2>1
  <1>3. u * v \in Nat
    BY TimesInNat
  <1>4. /\ 2 * (o + h) = 20 + 2 * u + 2 * v
        /\ o * (1 + h) = 18 + 9 * u + 2 * v + u * v
    BY <1>1, <1>2
  <1>5. /\ 9 * (20 + 2 * u + 2 * v) <= 10 * (18 + 9 * u + 2 * v + u * v)
        /\ 8 * (20 + 2 * u + 2 * v) <= 9 * (18 + 9 * u + 2 * v + u * v)
        /\ 6 * (20 + 2 * u + 2 * v) <= 8 * (18 + 9 * u + 2 * v + u * v)
    BY <1>3
  <1>6. 20 + 2 * u + 2 * v \in Nat
    OBVIOUS
  <1>7. /\ m <= 9 => m * (20 + 2 * u + 2 * v) <= 9 * (20 + 2 * u + 2 * v)
        /\ m <= 8 => m * (20 + 2 * u + 2 * v) <= 8 * (20 + 2 * u + 2 * v)
        /\ m <= 6 => m * (20 + 2 * u + 2 * v) <= 6 * (20 + 2 * u + 2 * v)
    BY <1>6, TimesMonotone
  <1>8. m * (20 + 2 * u + 2 * v) \in Nat
    BY <1>6, TimesInNat
  <1>9. QED
    BY <1>3, <1>4, <1>5, <1>6, <1>7, <1>8

(* Two such weights compare as the scores do that have them as factors.    *)
LEMMA ScoresCompare ==
  ASSUME NEW m \in Nat, NEW n \in Nat, NEW o \in Nat, NEW h \in Nat,
         NEW p \in Nat, NEW q \in Nat, p <= q,
         NEW e \in Nat, NEW f \in Nat,
         (m * (o + h)) * f <= (n * (o * (1 + h))) * e
  PROVE  (m * 1 * p) * ((10 * (o + h)) * (f * 1))
           <= ((n * o) * (e * 1)) * ((10 * (1 + h)) * q)
  <1> DEFINE k == (m * (o + h)) * f
             l == (n * (o * (1 + h))) * e
  <1>1. k \in Nat /\ l \in Nat /\ k <= l
    <2>1. m * (o + h) \in Nat /\ n * (o * (1 + h)) \in Nat
      BY TimesInNat
    <2>2. QED
      BY <2>1, TimesInNat
  <1>2. p * k <= q * l
    BY <1>1, TimesMonotone
  <1>3. (m * 1 * p) * ((10 * (o + h)) * (f * 1)) = 10 * (p * k)
    OBVIOUS
  <1>4. ((n * o) * (e * 1)) * ((10 * (1 + h)) * q) = 10 * (q * l)
    OBVIOUS
  <1>5. p * k \in Nat /\ q * l \in Nat
    BY <1>1, TimesInNat
  <1> HIDE DEF k, l
  <1>6. QED
    BY <1>2, <1>3, <1>4, <1>5

(* A new observation from a less reliable source does not outscore a row   *)
(* that was seen within a day.                                             *)
LEMMA LowerSourceLoses ==
  ASSUME HalfObservations >= 8, now \in Nat,
         NEW old \in Infos, NEW info \in Infos, Counted(old),
         info.obs = 1, now - old.seen <= 1,
         Priority[info.source] < Priority[old.source]
  PROVE  ~Greater(ConfidenceScore(info), ConfidenceScore(old))
  <1> DEFINE m == BaseConfidence[info.source]
             n == BaseConfidence[old.source]
             o == old.obs
             h == HalfObservations
  <1>1. PICK a, b \in Nat \ {0} : SuccessPart(info) = <<a, b>> /\ a <= b
    BY SuccessBounds
  <1>2. PICK c, d \in Nat \ {0} : RecencyPart(info) = <<c, d>> /\ c <= d
    BY RecencyBounds
  <1>3. PICK e, f \in Nat \ {0} :
          /\ SuccessPart(old) = <<e, f>>
          /\ e <= f /\ f <= 2 * e
          /\ old.succ + old.fail = 0 => e = f
    BY SuccessBounds
  <1>4. RecencyPart(old) = <<1, 1>>
    BY RecencyBounds
  <1>5. /\ info.source \in Sources /\ old.source \in Sources
        /\ o \in Nat /\ o > 0 /\ h \in Nat
        /\ old.succ \in Nat /\ old.fail \in Nat
    BY InfoFields, DiscoveryAssumption
  <1>6. /\ m \in Nat /\ n \in Nat /\ m <= n
        /\ old.source # "learned"
        /\ \/ m <= 9 /\ n = 10
           \/ m <= 8 /\ n = 9
           \/ m <= 6 /\ n = 8
    BY <1>5, BaseValues
  <1>7. (m * (o + h)) * f <= (n * (o * (1 + h))) * e
    <2> HIDE DEF m, n, o, h
    <2>1. /\ m * (o + h) \in Nat /\ n * (o * (1 + h)) \in Nat
          /\ m * (2 * (o + h)) \in Nat
      BY <1>5, <1>6, TimesInNat
    <2>2. CASE old.succ + old.fail = 0
      <3>1. m * (o + h) <= n * (o * (1 + h))
        BY <1>5, <1>6, OneObservation
      <3>2. e = f
        BY <1>3, <2>2
      <3>3. QED
        BY <2>1, <3>1, <3>2, TimesMonotone
    <2>3. CASE old.succ + old.fail # 0
      <3>1. o >= 2
        BY <1>5, <1>6, <2>3 DEF Counted, o
      <3>2. m * (2 * (o + h)) <= n * (o * (1 + h))
        BY <1>5, <1>6, <3>1, ObservationsOutweigh DEF h
      <3>3. (m * (2 * (o + h))) * e <= (n * (o * (1 + h))) * e
        BY <2>1, <3>2, TimesMonotone
      <3>4. (m * (o + h)) * f <= (m * (o + h)) * (2 * e)
        BY <1>3, <2>1, TimesMonotone
      <3>5. (m * (o + h)) * (2 * e) = (m * (2 * (o + h))) * e
        BY <1>5, <1>6
      <3>6. /\ (m * (o + h)) * f \in Nat /\ (m * (o + h)) * (2 * e) \in Nat
            /\ (n * (o * (1 + h))) * e \in Nat
        BY <2>1, TimesInNat
      <3>7. QED
        BY <3>3, <3>4, <3>5, <3>6
    <2>4. QED
      BY <2>2, <2>3
  <1>8. a * c \in Nat /\ b * d \in Nat /\ a * c <= b * d
    BY <1>1, <1>2, TimesInNat, TimesMonotone
  <1>9. (m * 1 * (a * c)) * ((10 * (o + h)) * (f * 1))
          <= ((n * o) * (e * 1)) * ((10 * (1 + h)) * (b * d))
    <2> HIDE DEF m, n, o, h
    <2>1. QED
      BY <1>3, <1>5, <1>6, <1>7, <1>8, ScoresCompare
  <1>10. /\ ConfidenceScore(info) = <<m * 1 * (a * c), (10 * (1 + h)) * (b * d)>>
         /\ ConfidenceScore(old) = <<(n * o) * (e * 1), (10 * (o + h)) * (f * 1)>>
    <2>1. /\ ConfidenceScore(info) =
               <<(m * info.obs) * (SuccessPart(info)[1] * RecencyPart(info)[1]),
                 (10 * (info.obs + h)) * (SuccessPart(info)[2] * RecencyPart(info)[2])>>
          /\ ConfidenceScore(old) =
               <<(n * o) * (SuccessPart(old)[1] * RecencyPart(old)[1]),
                 (10 * (o + h)) * (SuccessPart(old)[2] * RecencyPart(old)[2])>>
      BY ScoreShape
    <2> HIDE DEF m, n, o, h
    <2>2. QED
      BY <1>1, <1>2, <1>3, <1>4, <2>1
  <1>11. /\ m * 1 * (a * c) \in Nat /\ (10 * (1 + h)) * (b * d) \in Nat
         /\ (n * o) * (e * 1) \in Nat /\ (10 * (o + h)) * (f * 1) \in Nat
    <2> HIDE DEF m, n, o, h
    <2>1. /\ m * 1 \in Nat /\ 10 * (1 + h) \in Nat /\ n * o \in Nat
          /\ e * 1 \in Nat /\ f * 1 \in Nat /\ 10 * (o + h) \in Nat
      BY <1>5, <1>6, TimesInNat
    <2>2. QED
      BY <1>8, <2>1, TimesInNat
  <1> HIDE DEF m, n, o, h
  <1>12. /\ (m * 1 * (a * c)) * ((10 * (o + h)) * (f * 1)) \in Nat
         /\ ((n * o) * (e * 1)) * ((10 * (1 + h)) * (b * d)) \in Nat
    BY <1>11, TimesInNat
  <1>13. QED
    BY <1>9, <1>10, <1>12 DEF Greater

-----------------------------------------------------------------------------
(* What the operations make of an info.                                    *)

(* A change of one field leaves an info, and the other fields.             *)
LEMMA SetLimit ==
  ASSUME NEW info \in Infos, NEW v \in Nat,
         NEW new, new = [info EXCEPT !.limit = v]
  PROVE  /\ new \in Infos /\ new.limit = v
         /\ new.source = info.source /\ new.obs = info.obs /\ new.succ = info.succ
         /\ new.fail = info.fail /\ new.seen = info.seen /\ new.conf = info.conf
  BY DEF Infos

LEMMA SetObs ==
  ASSUME NEW info \in Infos, NEW v \in Nat \ {0},
         NEW new, new = [info EXCEPT !.obs = v]
  PROVE  /\ new \in Infos /\ new.obs = v
         /\ new.source = info.source /\ new.limit = info.limit /\ new.succ = info.succ
         /\ new.fail = info.fail /\ new.seen = info.seen /\ new.conf = info.conf
  BY DEF Infos

LEMMA SetSucc ==
  ASSUME NEW info \in Infos, NEW v \in Nat,
         NEW new, new = [info EXCEPT !.succ = v]
  PROVE  /\ new \in Infos /\ new.succ = v
         /\ new.source = info.source /\ new.limit = info.limit /\ new.obs = info.obs
         /\ new.fail = info.fail /\ new.seen = info.seen /\ new.conf = info.conf
  BY DEF Infos

LEMMA SetFail ==
  ASSUME NEW info \in Infos, NEW v \in Nat,
         NEW new, new = [info EXCEPT !.fail = v]
  PROVE  /\ new \in Infos /\ new.fail = v
         /\ new.source = info.source /\ new.limit = info.limit /\ new.obs = info.obs
         /\ new.succ = info.succ /\ new.seen = info.seen /\ new.conf = info.conf
  BY DEF Infos

LEMMA SetSeen ==
  ASSUME NEW info \in Infos, NEW v \in 0 .. MaxTime,
         NEW new, new = [info EXCEPT !.seen = v]
  PROVE  /\ new \in Infos /\ new.seen = v
         /\ new.source = info.source /\ new.limit = info.limit /\ new.obs = info.obs
         /\ new.succ = info.succ /\ new.fail = info.fail /\ new.conf = info.conf
  BY DEF Infos

LEMMA SetConf ==
  ASSUME NEW info \in Infos, NEW v \in Nat \X (Nat \ {0}),
         NEW new, new = [info EXCEPT !.conf = v]
  PROVE  /\ new \in Infos /\ new.conf = v
         /\ new.source = info.source /\ new.limit = info.limit /\ new.obs = info.obs
         /\ new.succ = info.succ /\ new.fail = info.fail /\ new.seen = info.seen
  BY DEF Infos

LEMMA NewInfoFields ==
  ASSUME NEW source \in Sources, NEW limit \in Nat, now \in 0 .. MaxTime
  PROVE  LET info == NewInfo(source, limit) IN
         /\ info \in Infos
         /\ info.source = source /\ info.limit = limit
         /\ info.obs = 1 /\ info.succ = 0 /\ info.fail = 0
  BY DEF NewInfo, Infos

LEMMA ScoredFields ==
  ASSUME NEW info \in Infos, now \in Nat
  PROVE  LET new == Scored(info) IN
         /\ new \in Infos /\ new.conf[1] > 0
         /\ new.source = info.source /\ new.limit = info.limit
         /\ new.obs = info.obs /\ new.succ = info.succ /\ new.fail = info.fail
  <1>1. /\ ConfidenceScore(info) \in Nat \X (Nat \ {0})
        /\ ConfidenceScore(info)[1] > 0
    BY ScoreType
  <1> DEFINE c == ConfidenceScore(info)
  <1> HIDE DEF c
  <1>2. /\ [info EXCEPT !.conf = c] \in Infos
        /\ [info EXCEPT !.conf = c].conf = c
        /\ [info EXCEPT !.conf = c].source = info.source
        /\ [info EXCEPT !.conf = c].limit = info.limit
        /\ [info EXCEPT !.conf = c].obs = info.obs
        /\ [info EXCEPT !.conf = c].succ = info.succ
        /\ [info EXCEPT !.conf = c].fail = info.fail
    BY <1>1 DEF Infos, c
  <1>3. QED
    BY <1>1, <1>2 DEF Scored, c

(* What the learner infers with enough confidence is a limit of 1 or more. *)
LEMMA LearnedFields ==
  ASSUME NEW n \in Nat, NEW k \in Nat, now \in 0 .. MaxTime,
         ~Greater(<<3, 10>>, LearningConfidence(n, k))
  PROVE  LET info == LearnedInfo(n, k) IN
         /\ info \in Infos /\ Fresh(info)
         /\ info.source = "learned" /\ info.limit > 0
  <1>1. n >= 2
    BY DEF Greater, LearningConfidence
  <1>2. PICK j \in Nat \ {0} : LearningConfidence(n, k) = <<j, 100>>
    <2>1. LearningConfidence(n, k) = <<4 * (IF n + k > 10 THEN 10 ELSE n + k), 100>>
      BY <1>1 DEF LearningConfidence
    <2>2. 4 * (IF n + k > 10 THEN 10 ELSE n + k) \in Nat \ {0}
      BY <1>1
    <2>3. QED
      BY <2>1, <2>2
  <1>3. (6 * n + 4) \div 5 \in Nat \ {0}
    BY <1>1
  <1>4. PICK l \in Nat \ {0} : l = (6 * n + 4) \div 5
    BY <1>3
  <1> DEFINE i == NewInfo("learned", l)
             i1 == [i EXCEPT !.succ = n]
             i2 == [i1 EXCEPT !.fail = 1]
             i3 == [i2 EXCEPT !.conf = <<j, 100>>]
  <1>5. LearnedInfo(n, k) = i3
    BY <1>2, <1>4 DEF LearnedInfo
  <1> HIDE DEF i, i1, i2, i3
  <1>6. i \in Infos /\ i.source = "learned" /\ i.limit = l /\ i.obs = 1
    BY NewInfoFields DEF i, Sources
  <1>7. i1 \in Infos /\ i1.source = "learned" /\ i1.limit = l /\ i1.obs = 1
    BY <1>6, SetSucc DEF i1
  <1>8. i2 \in Infos /\ i2.source = "learned" /\ i2.limit = l /\ i2.obs = 1
    BY <1>7, SetFail DEF i2
  <1>9. /\ i3 \in Infos /\ i3.source = "learned" /\ i3.limit = l /\ i3.obs = 1
        /\ i3.conf = <<j, 100>>
    <2>1. <<j, 100>> \in Nat \X (Nat \ {0})
      OBVIOUS
    <2>2. QED
      BY <1>8, <2>1, SetConf DEF i3
  <1>10. QED
    BY <1>5, <1>9 DEF Fresh

(* An update after a success or a 429 keeps the source, and the limit too  *)
(* unless it is a learned one, of which at least 1 is left.                *)
LEMMA UpdatedFields ==
  ASSUME NEW info \in Infos, now \in 0 .. MaxTime,
         NEW new, new = Succeeded(info) \/ new = Limited(info)
  PROVE  /\ new \in Infos /\ new.source = info.source
         /\ new.conf[1] > 0 /\ new.obs = info.obs + 1
         /\ info.source # "learned" => new.limit = info.limit
         /\ info.limit > 0 => new.limit > 0
  <1>1. /\ info.limit \in Nat /\ info.obs \in Nat \ {0} /\ now \in Nat
        /\ info.succ \in Nat /\ info.fail \in Nat
    BY InfoFields
  <1>2. CASE new = Succeeded(info)
    <2> DEFINE f1 == [info EXCEPT !.succ = info.succ + 1]
               f2 == [f1 EXCEPT !.seen = now]
               f == [f2 EXCEPT !.obs = info.obs + 1]
    <2>1. new = Scored(f)
      BY <1>2 DEF Succeeded
    <2> HIDE DEF f1, f2, f
    <2>2. f1 \in Infos /\ f1.source = info.source /\ f1.limit = info.limit
      BY <1>1, SetSucc DEF f1
    <2>3. f2 \in Infos /\ f2.source = info.source /\ f2.limit = info.limit
      BY <2>2, SetSeen DEF f2
    <2>4. /\ f \in Infos /\ f.source = info.source /\ f.limit = info.limit
          /\ f.obs = info.obs + 1
      BY <1>1, <2>3, SetObs DEF f
    <2>5. QED
      BY <1>1, <2>1, <2>4, ScoredFields
  <1>3. CASE new = Limited(info)
    <2> DEFINE f1 == [info EXCEPT !.fail = info.fail + 1]
               f2 == [f1 EXCEPT !.seen = now]
               f == [f2 EXCEPT !.obs = info.obs + 1]
               g == [f EXCEPT !.limit = Reduced(f.limit)]
    <2>1. \/ new = Scored(f)
          \/ f.source = "learned" /\ new = Scored(g)
      BY <1>3 DEF Limited
    <2> HIDE DEF f1, f2, f
    <2>2. f1 \in Infos /\ f1.source = info.source /\ f1.limit = info.limit
      BY <1>1, SetFail DEF f1
    <2>3. f2 \in Infos /\ f2.source = info.source /\ f2.limit = info.limit
      BY <2>2, SetSeen DEF f2
    <2>4. /\ f \in Infos /\ f.source = info.source /\ f.limit = info.limit
          /\ f.obs = info.obs + 1
      BY <1>1, <2>3, SetObs DEF f
    <2>5. Reduced(info.limit) \in Nat \ {0}
      BY <1>1 DEF Reduced
    <2>6. /\ g \in Infos /\ g.source = info.source /\ g.obs = info.obs + 1
          /\ g.limit = Reduced(info.limit)
      BY <2>4, <2>5, SetLimit DEF g
    <2> HIDE DEF g
    <2>7. QED
      BY <1>1, <2>1, <2>4, <2>5, <2>6, ScoredFields
  <1>4. QED
    BY <1>2, <1>3

LEMMA ClearedFields ==
  ASSUME NEW info \in Infos, now \in 0 .. MaxTime
  PROVE  LET new == [info EXCEPT !.conf = <<0, 1>>, !.seen = now] IN
         /\ new \in Infos /\ new.source = info.source /\ new.limit = info.limit
         /\ new.obs = info.obs /\ new.succ = info.succ /\ new.fail = info.fail
  <1> DEFINE i == [info EXCEPT !.conf = <<0, 1>>]
             k == [i EXCEPT !.seen = now]
  <1>1. k = [info EXCEPT !.conf = <<0, 1>>, !.seen = now]
    OBVIOUS
  <1> HIDE DEF i, k
  <1>2. /\ i \in Infos /\ i.source = info.source /\ i.limit = info.limit
        /\ i.obs = info.obs /\ i.succ = info.succ /\ i.fail = info.fail
    <2>1. <<0, 1>> \in Nat \X (Nat \ {0})
      OBVIOUS
    <2>2. QED
      BY <2>1, SetConf DEF i
  <1>3. /\ k \in Infos /\ k.source = info.source /\ k.limit = info.limit
        /\ k.obs = info.obs /\ k.succ = info.succ /\ k.fail = info.fail
    BY <1>2, SetSeen DEF k
  <1>4. QED
    BY <1>1, <1>3, Zenon

(* What a write leaves: the row as it was, perhaps with one observation    *)
(* more, or what was to be saved.                                          *)
LEMMA WrittenCases ==
  ASSUME NEW old \in Rows, NEW info \in Infos, now \in 0 .. MaxTime,
         NEW how \in {"insert", "replace", "observe"},
         NEW new, new = Written(old, info, how)
  PROVE  /\ new \in Rows
         /\ \/ new = old /\ (old = NoRow \/ how = "insert")
            \/ /\ old = NoRow /\ how = "insert"
               /\ new \in Infos /\ new.source = info.source
               /\ new.limit = info.limit /\ new.obs = info.obs
               /\ new.succ = info.succ /\ new.fail = info.fail
            \/ /\ old # NoRow /\ how = "observe"
               /\ new \in Infos /\ new.source = old.source
               /\ new.limit = old.limit /\ new.obs = old.obs + 1
               /\ new.succ = old.succ /\ new.fail = old.fail
               /\ new.conf = old.conf
            \/ /\ old # NoRow /\ how = "replace"
               /\ new \in Infos /\ new.source = info.source
               /\ new.limit = info.limit /\ new.obs = old.obs + 1
               /\ new.succ = info.succ /\ new.fail = info.fail
  <1>1. CASE old = NoRow
    BY <1>1 DEF Written, Rows, Infos
  <1>2. CASE old # NoRow
    <2>1. old \in Infos /\ old.obs \in Nat
      BY <1>2, InfoFields DEF Rows
    <2>2. CASE how = "insert"
      BY <1>2, <2>2 DEF Written
    <2>3. CASE how = "observe"
      <3> DEFINE i == [old EXCEPT !.obs = old.obs + 1]
      <3>1. new = [i EXCEPT !.seen = now]
        BY <1>2, <2>3 DEF Written
      <3>0. old.obs + 1 \in Nat \ {0}
        BY <2>1
      <3> HIDE DEF i
      <3>2. /\ i \in Infos /\ i.source = old.source /\ i.limit = old.limit
            /\ i.obs = old.obs + 1 /\ i.succ = old.succ /\ i.fail = old.fail
            /\ i.conf = old.conf
        BY <2>1, <3>0, SetObs DEF i
      <3>3. QED
        BY <1>2, <2>3, <3>1, <3>2, SetSeen DEF Rows
    <2>4. CASE how = "replace"
      <3> DEFINE i == [info EXCEPT !.obs = old.obs + 1]
      <3>1. new = [i EXCEPT !.seen = now]
        BY <1>2, <2>4 DEF Written
      <3>0. old.obs + 1 \in Nat \ {0}
        BY <2>1
      <3> HIDE DEF i
      <3>2. /\ i \in Infos /\ i.source = info.source /\ i.limit = info.limit
            /\ i.obs = old.obs + 1 /\ i.succ = info.succ /\ i.fail = info.fail
            /\ i.conf = info.conf
        BY <2>1, <3>0, SetObs DEF i
      <3>3. QED
        BY <1>2, <2>4, <3>1, <3>2, SetSeen DEF Rows
    <2>5. QED
      BY <2>2, <2>3, <2>4
  <1>3. QED
    BY <1>1, <1>2

-----------------------------------------------------------------------------
(* Where a process is.                                                     *)

LEMMA StateFields ==
  ASSUME NEW s \in States
  PROVE  /\ s.pc \in {"idle", "learn", "update", "check", "write"}
         /\ s.pc = "learn" => s.res \in Resources /\ s.code \in Codes
         /\ s.pc = "update" => s.res \in Resources /\ s.code \in {"ok", "429"}
         /\ s.pc = "check" =>
              /\ s.key \in Resources /\ s.info \in Infos
              /\ s.then \in Thens /\ s.read \in SUBSET Rows
         /\ s.pc = "write" =>
              /\ s.key \in Resources /\ s.info \in Infos
              /\ s.then \in Thens /\ s.read \in SUBSET Rows
              /\ s.how \in {"insert", "replace", "observe"}
  BY DEF States, Thens, Idle, LearnStates, UpdateStates, CheckStates, WriteStates

(* What was stated stays stated.                                           *)
LEMMA StatedGrows ==
  ASSUME NEW key, NEW info, NEW said, NEW more, said \subseteq more,
         Reported(key, info, said)
  PROVE  Reported(key, info, more)
  BY DEF Reported

LEMMA SoundGrows ==
  ASSUME NEW s, NEW said, NEW more, said \subseteq more, Sound(s, said)
  PROVE  Sound(s, more)
  BY StatedGrows DEF Sound

(* Whatever follows a save is in order.                                    *)
LEMMA ThenSound ==
  ASSUME NEW s \in Thens, NEW said
  PROVE  Sound(s, said) /\ s.pc \notin {"check", "write"}
  BY DEF Sound, States, Thens, Idle, LearnStates, UpdateStates

LEMMA FollowUps ==
  ASSUME NEW r \in Resources, NEW code \in Codes
  PROVE  Learn(r, code) \in Thens /\ Update(r, code) \in Thens /\ Idle \in Thens
  BY DEF Learn, Update, Thens, LearnStates, UpdateStates, Codes

(* A call of SaveRateLimitInfo with an info that rests on something.       *)
LEMMA SaveSound ==
  ASSUME NEW key \in Resources, NEW info \in Infos, NEW then \in Thens,
         NEW read \in SUBSET Rows, NEW said,
         Reported(key, info, said), Counted(info),
         Fresh(info) \/ \E r \in read : DerivedFrom(info, r),
         NEW s, s = [pc |-> "check", key |-> key, info |-> info, then |-> then,
                     read |-> read]
  PROVE  Sound(s, said) /\ s.pc = "check"
  <1>1. s \in CheckStates
    BY DEF CheckStates
  <1>2. /\ s.pc = "check" /\ s.key = key /\ s.info = info
        /\ s.then = then /\ s.read = read
    OBVIOUS
  <1>3. QED
    BY <1>1, <1>2 DEF Sound, States

(* One process moves to a state that is in order.                          *)
LEMMA GotoInv ==
  ASSUME TypeOK, ProcInv, NEW p \in Procs, NEW s, Goto(p, s),
         Sound(s, reported'), reported \subseteq reported'
  PROVE  /\ ProcInv'
         /\ \A q \in Procs :
              /\ proc'[q].pc \in {"idle", "learn", "update", "check", "write"}
              /\ proc'[q].pc \in {"check", "write"} =>
                   proc'[q].key \in Resources /\ proc'[q].info \in Infos
  <1>1. proc' \in [Procs -> States]
    BY DEF Goto, ProcInv, Sound
  <1>2. ASSUME NEW q \in Procs
        PROVE  Sound(proc'[q], reported')
    <2>1. CASE q = p
      BY <2>1 DEF Goto, ProcInv
    <2>2. CASE q # p
      <3>1. proc'[q] = proc[q] /\ Sound(proc[q], reported)
        BY <2>2 DEF Goto, ProcInv
      <3>2. QED
        BY <3>1, SoundGrows
    <2>3. QED
      BY <2>1, <2>2
  <1>3. ProcInv'
    BY <1>1, <1>2 DEF ProcInv
  <1>4. ASSUME NEW q \in Procs
        PROVE  /\ proc'[q].pc \in {"idle", "learn", "update", "check", "write"}
               /\ proc'[q].pc \in {"check", "write"} =>
                    proc'[q].key \in Resources /\ proc'[q].info \in Infos
    BY <1>1, StateFields
  <1>5. QED
    BY <1>3, <1>4

(* The rows rest on what was stated, and more is stated.                   *)
LEMMA RowFrame ==
  ASSUME RowInv, row' = row, reported \subseteq reported'
  PROVE  RowInv'
  BY StatedGrows DEF RowInv

-----------------------------------------------------------------------------
(* Every operation preserves the invariant.                                *)

(* The row that is used for a resource is there.                           *)
LEMMA LookupFinds ==
  ASSUME IInv, NEW r \in Resources, NEW k \in Lookup(r)
  PROVE  /\ k \in Resources /\ row[k] # NoRow /\ row[k] \in Infos
         /\ Reported(k, row[k], reported) /\ Counted(row[k])
  <1>1. k \in Resources /\ row[k] # NoRow
    BY DEF Lookup
  <1>2. QED
    BY <1>1 DEF IInv, TypeOK, RowInv

LEMMA CallBound ==
  ASSUME TypeOK, NEW p \in Procs, Call(p)
  PROVE  calls' \in 0 .. MaxCalls
  <1>1. calls \in 0 .. MaxCalls /\ calls < MaxCalls /\ calls' = calls + 1
    BY DEF TypeOK, Call
  <1>2. QED
    BY <1>1, DiscoveryAssumption

LEMMA ProcessStep ==
  ASSUME IInv, NEW p \in Procs, NEW r \in Resources, NEW code \in Codes,
         ProcessCommandOutput(p, r, code)
  PROVE  IInv'
  <1>1. Learn(r, code) \in Thens
    BY FollowUps
  <1>2. now' = now /\ row' = row /\ calls' \in 0 .. MaxCalls
    BY CallBound DEF ProcessCommandOutput, IInv
  <1>3. CASE Goto(p, Learn(r, code)) /\ UNCHANGED <<rateLimit, reported>>
    <2>1. Sound(Learn(r, code), reported')
      BY <1>1, ThenSound
    <2>2. QED
      BY <1>2, <1>3, <2>1, GotoInv, RowFrame DEF IInv, TypeOK, RateInv
  <1>4. ASSUME NEW source \in {"http_header", "json_body"}, NEW limit \in Limits,
               reported' = reported \cup {<<r, source, limit>>},
               Save(p, r, Scored(NewInfo(source, limit)), Learn(r, code), {}),
               rateLimit' = [rateLimit EXCEPT ![p] = limit]
        PROVE  IInv'
    <2>1. source \in Sources /\ source # "learned" /\ limit \in Nat
      BY DiscoveryAssumption DEF Sources
    <2>2. PICK info \in Infos : info = NewInfo(source, limit)
      BY <2>1, NewInfoFields DEF IInv, TypeOK
    <2>3. /\ info.source = source /\ info.limit = limit
          /\ info.obs = 1 /\ info.succ = 0 /\ info.fail = 0
      BY <2>1, <2>2, NewInfoFields DEF IInv, TypeOK
    <2>4. PICK new : new = Scored(info)
      OBVIOUS
    <2>5. /\ new \in Infos /\ new.conf[1] > 0
          /\ new.source = source /\ new.limit = limit
          /\ new.obs = 1 /\ new.succ = 0 /\ new.fail = 0
      BY <2>2, <2>3, <2>4, ScoredFields DEF IInv, TypeOK
    <2>6. Reported(r, new, reported') /\ Counted(new) /\ Fresh(new)
      BY <2>1, <2>5, <1>4 DEF Reported, Counted, Fresh
    <2>7. PICK s : s = [pc |-> "check", key |-> r, info |-> new,
                        then |-> Learn(r, code), read |-> {}]
      OBVIOUS
    <2>8. Sound(s, reported')
      BY <1>1, <2>5, <2>6, <2>7, SaveSound
    <2>9. Goto(p, s)
      BY <1>4, <2>2, <2>4, <2>7 DEF Save
    <2>10. reported \subseteq reported'
      BY <1>4
    <2>11. RateInv'
      <3>1. SUFFICES ASSUME NEW q \in Procs, rateLimit'[q] = 0
                     PROVE  \E x \in reported' : x[3] = 0
        BY DEF RateInv
      <3>2. CASE q = p
        <4>1. <<r, source, limit>> \in reported' /\ limit = 0
          BY <1>4, <3>1, <3>2 DEF IInv, TypeOK
        <4>2. QED
          BY <4>1
      <3>3. CASE q # p
        <4>1. rateLimit[q] = 0
          BY <1>4, <3>1, <3>3 DEF IInv, TypeOK
        <4>2. QED
          BY <4>1, <2>10 DEF IInv, RateInv
      <3>4. QED
        BY <3>2, <3>3
    <2>12. rateLimit' \in [Procs -> Nat]
      BY <1>4, <2>1 DEF IInv, TypeOK
    <2>13. reported' \subseteq Resources \X Sources \X Limits
      BY <1>4, <2>1 DEF IInv, TypeOK
    <2>14. ProcInv' /\ RowInv'
      BY <1>2, <2>8, <2>9, <2>10, GotoInv, RowFrame DEF IInv
    <2>15. TypeOK'
      BY <1>2, <2>8, <2>9, <2>10, <2>12, <2>13, GotoInv DEF IInv, TypeOK
    <2>16. QED
      BY <2>11, <2>14, <2>15 DEF IInv
  <1>5. QED
    BY <1>3, <1>4 DEF ProcessCommandOutput

LEMMA ForceStep ==
  ASSUME IInv, NEW p \in Procs, NEW r \in Resources, NEW limit \in Limits,
         ForceLearnRateLimit(p, r, limit)
  PROVE  IInv'
  <1>1. /\ now' = now /\ row' = row /\ rateLimit' = rateLimit
        /\ calls' \in 0 .. MaxCalls
        /\ reported' = reported \cup {<<r, "manual", limit>>}
    BY CallBound DEF ForceLearnRateLimit, IInv
  <1>2. "manual" \in Sources /\ limit \in Nat
    BY DiscoveryAssumption DEF Sources
  <1>3. PICK info \in Infos : info = NewInfo("manual", limit)
    BY <1>2, NewInfoFields DEF IInv, TypeOK
  <1>4. /\ info.source = "manual" /\ info.limit = limit
        /\ info.obs = 1 /\ info.succ = 0 /\ info.fail = 0
    BY <1>2, <1>3, NewInfoFields DEF IInv, TypeOK
  <1>5. PICK new : new = [info EXCEPT !.conf = <<1, 1>>]
    OBVIOUS
  <1>6. /\ new \in Infos /\ new.conf = <<1, 1>>
        /\ new.source = "manual" /\ new.limit = limit
        /\ new.obs = 1 /\ new.succ = 0 /\ new.fail = 0
    <2>1. <<1, 1>> \in Nat \X (Nat \ {0})
      OBVIOUS
    <2>2. QED
      BY <1>4, <1>5, <2>1, SetConf
  <1>7. Reported(r, new, reported') /\ Counted(new) /\ Fresh(new)
    BY <1>1, <1>6 DEF Reported, Counted, Fresh
  <1>8. PICK s : s = [pc |-> "check", key |-> r, info |-> new, then |-> Idle,
                      read |-> {}]
    OBVIOUS
  <1>9. Sound(s, reported')
    BY <1>6, <1>7, <1>8, SaveSound, FollowUps DEF Thens
  <1>10. Goto(p, s)
    BY <1>3, <1>5, <1>8 DEF ForceLearnRateLimit, Save
  <1>11. reported \subseteq reported'
    BY <1>1
  <1>12. ProcInv' /\ RowInv' /\ RateInv'
    BY <1>1, <1>9, <1>10, <1>11, GotoInv, RowFrame DEF IInv, RateInv
  <1>13. reported' \subseteq Resources \X Sources \X Limits
    BY <1>1, <1>2 DEF IInv, TypeOK
  <1>14. TypeOK'
    BY <1>1, <1>9, <1>10, <1>11, <1>13, GotoInv DEF IInv, TypeOK
  <1>15. QED
    BY <1>12, <1>14 DEF IInv

LEMMA ClearStep ==
  ASSUME IInv, NEW p \in Procs, NEW r \in Resources, ClearRateLimitInfo(p, r)
  PROVE  IInv'
  <1>1. /\ now' = now /\ row' = row /\ rateLimit' = rateLimit
        /\ calls' \in 0 .. MaxCalls /\ reported' = reported
    BY CallBound DEF ClearRateLimitInfo, IInv
  <1>2. CASE proc' = proc
    BY <1>1, <1>2 DEF IInv, TypeOK, ProcInv, RowInv, RateInv
  <1>3. CASE /\ row[r] # NoRow
             /\ Save(p, r, [row[r] EXCEPT !.conf = <<0, 1>>, !.seen = now], Idle,
                     {row[r]})
    <2>1. PICK old \in Infos : old = row[r]
      BY <1>3 DEF IInv, TypeOK
    <2>2. Reported(r, old, reported) /\ Counted(old) /\ old # NoRow
      BY <1>3, <2>1 DEF IInv, RowInv
    <2>3. PICK new : new = [old EXCEPT !.conf = <<0, 1>>, !.seen = now]
      OBVIOUS
    <2>4. /\ new \in Infos /\ new.source = old.source /\ new.limit = old.limit
          /\ new.obs = old.obs /\ new.succ = old.succ /\ new.fail = old.fail
      <3>1. now \in 0 .. MaxTime
        BY DEF IInv, TypeOK
      <3>2. QED
        BY <2>3, <3>1, ClearedFields, Zenon
    <2>5. Reported(r, new, reported') /\ Counted(new) /\ DerivedFrom(new, old)
      BY <1>1, <2>2, <2>4 DEF Reported, Counted, DerivedFrom
    <2>6. PICK s : s = [pc |-> "check", key |-> r, info |-> new, then |-> Idle,
                        read |-> {old}]
      OBVIOUS
    <2>7. Sound(s, reported')
      <3>1. Idle \in Thens /\ {old} \in SUBSET Rows
        BY DEF Thens, Rows
      <3>2. \E q \in {old} : DerivedFrom(new, q)
        BY <2>5
      <3>3. QED
        BY <2>4, <2>5, <2>6, <3>1, <3>2, SaveSound
    <2>8. Goto(p, s)
      BY <1>3, <2>1, <2>3, <2>6 DEF Save
    <2>9. ProcInv' /\ RowInv' /\ RateInv' /\ TypeOK'
      BY <1>1, <2>7, <2>8, GotoInv, RowFrame DEF IInv, TypeOK, RateInv
    <2>10. QED
      BY <2>9 DEF IInv
  <1>4. QED
    BY <1>2, <1>3 DEF ClearRateLimitInfo

LEMMA LearnStep ==
  ASSUME IInv, NEW p \in Procs, LearnFromResponse(p)
  PROVE  IInv'
  <1>1. /\ now' = now /\ row' = row /\ rateLimit' = rateLimit
        /\ calls' = calls /\ reported' = reported
    BY DEF LearnFromResponse
  <1>2. PICK r \in Resources, code \in Codes : proc[p].res = r /\ proc[p].code = code
    BY StateFields DEF LearnFromResponse, IInv, ProcInv
  <1>3. Update(r, code) \in Thens
    BY FollowUps
  <1>4. ASSUME NEW s, Goto(p, s), Sound(s, reported')
        PROVE  IInv'
    BY <1>1, <1>4, GotoInv, RowFrame DEF IInv, TypeOK, RateInv
  <1>5. CASE Goto(p, Update(r, code))
    BY <1>3, <1>4, <1>5, ThenSound
  <1>6. ASSUME NEW n \in Counts, NEW k \in Counts,
               ~Greater(<<3, 10>>, LearningConfidence(n, k)),
               Save(p, r, LearnedInfo(n, k), Update(r, code), {})
        PROVE  IInv'
    <2>1. PICK new \in Infos :
            /\ new = LearnedInfo(n, k)
            /\ Fresh(new) /\ new.source = "learned" /\ new.limit > 0
      BY <1>6, LearnedFields, DiscoveryAssumption DEF IInv, TypeOK
    <2>2. Reported(r, new, reported') /\ Counted(new)
      BY <2>1 DEF Reported, Counted
    <2>3. PICK s : s = [pc |-> "check", key |-> r, info |-> new,
                        then |-> Update(r, code), read |-> {}]
      OBVIOUS
    <2>4. Sound(s, reported')
      BY <1>3, <2>1, <2>2, <2>3, SaveSound
    <2>5. Goto(p, s)
      BY <1>6, <2>1, <2>3 DEF Save
    <2>6. QED
      BY <1>4, <2>4, <2>5
  <1>7. QED
    BY <1>2, <1>5, <1>6 DEF LearnFromResponse

LEMMA UpdateStep ==
  ASSUME IInv, NEW p \in Procs, UpdateRateLimit(p)
  PROVE  IInv'
  <1>1. /\ now' = now /\ row' = row /\ rateLimit' = rateLimit
        /\ calls' = calls /\ reported' = reported
    BY DEF UpdateRateLimit
  <1>2. PICK r \in Resources : proc[p].res = r
    BY StateFields DEF UpdateRateLimit, IInv, ProcInv
  <1>3. Idle \in Thens
    BY DEF Thens
  <1>4. ASSUME NEW s, Goto(p, s), Sound(s, reported')
        PROVE  IInv'
    BY <1>1, <1>4, GotoInv, RowFrame DEF IInv, TypeOK, RateInv
  <1>5. CASE Goto(p, Idle)
    BY <1>3, <1>4, <1>5, ThenSound
  <1>6. ASSUME NEW k \in Lookup(r), NEW new,
               new = Succeeded(row[k]) \/ new = Limited(row[k]),
               Save(p, k, new, Idle, {row[k]})
        PROVE  IInv'
    <2>1. PICK old \in Infos : old = row[k]
      BY LookupFinds
    <2>2. /\ k \in Resources /\ old # NoRow
          /\ Reported(k, old, reported) /\ Counted(old)
      BY <2>1, LookupFinds
    <2>3. /\ new \in Infos /\ new.source = old.source
          /\ new.conf[1] > 0 /\ new.obs = old.obs + 1
          /\ old.source # "learned" => new.limit = old.limit
          /\ old.limit > 0 => new.limit > 0
      BY <1>6, <2>1, UpdatedFields DEF IInv, TypeOK
    <2>4. old.obs \in Nat /\ old.obs > 0
      BY InfoFields
    <2>5. Reported(k, new, reported') /\ Counted(new) /\ DerivedFrom(new, old)
      BY <1>1, <2>2, <2>3, <2>4 DEF Reported, Counted, DerivedFrom
    <2>6. PICK s : s = [pc |-> "check", key |-> k, info |-> new, then |-> Idle,
                        read |-> {old}]
      OBVIOUS
    <2>7. Sound(s, reported')
      <3>1. {old} \in SUBSET Rows
        BY DEF Rows
      <3>2. \E q \in {old} : DerivedFrom(new, q)
        BY <2>5
      <3>3. QED
        BY <1>3, <2>2, <2>3, <2>5, <2>6, <3>1, <3>2, SaveSound
    <2>8. Goto(p, s)
      BY <1>6, <2>1, <2>6 DEF Save
    <2>9. QED
      BY <1>4, <2>7, <2>8
  <1>7. CASE \E k \in Lookup(r) :
               Save(p, k, IF proc[p].code = "ok" THEN Succeeded(row[k])
                          ELSE Limited(row[k]), Idle, {row[k]})
    <2>1. PICK k \in Lookup(r) :
            Save(p, k, IF proc[p].code = "ok" THEN Succeeded(row[k])
                       ELSE Limited(row[k]), Idle, {row[k]})
      BY <1>7
    <2>2. CASE proc[p].code = "ok"
      <3>1. Save(p, k, Succeeded(row[k]), Idle, {row[k]})
        BY <2>1, <2>2 DEF Save
      <3>2. QED
        BY <1>6, <3>1
    <2>3. CASE proc[p].code # "ok"
      <3>1. Save(p, k, Limited(row[k]), Idle, {row[k]})
        BY <2>1, <2>3 DEF Save
      <3>2. QED
        BY <1>6, <3>1
    <2>4. QED
      BY <2>2, <2>3
  <1>8. QED
    BY <1>2, <1>5, <1>7 DEF UpdateRateLimit

LEMMA TakeOverStep ==
  ASSUME IInv, NEW p \in Procs, NEW r \in Resources,
         UpdateRateLimitFromDiscovery(p, r)
  PROVE  IInv'
  <1>1. UNCHANGED <<now, row, proc, calls, reported>>
    BY DEF UpdateRateLimitFromDiscovery
  <1>2. ASSUME NEW limit \in Nat, rateLimit' = [rateLimit EXCEPT ![p] = limit],
               limit = 0 => \E x \in reported : x[3] = 0
        PROVE  IInv'
    <2>1. rateLimit' \in [Procs -> Nat]
      BY <1>2 DEF IInv, TypeOK
    <2>2. RateInv'
      <3>1. SUFFICES ASSUME NEW q \in Procs, rateLimit'[q] = 0
                     PROVE  \E x \in reported : x[3] = 0
        BY <1>1 DEF RateInv
      <3>2. CASE q = p
        BY <1>2, <3>1, <3>2 DEF IInv, TypeOK
      <3>3. CASE q # p
        BY <1>2, <3>1, <3>3 DEF IInv, TypeOK, RateInv
      <3>4. QED
        BY <3>2, <3>3
    <2>3. QED
      BY <1>1, <2>1, <2>2 DEF IInv, TypeOK, ProcInv, RowInv
  <1>3. CASE rateLimit' = [rateLimit EXCEPT ![p] = Fallback]
    BY <1>2, <1>3, DiscoveryAssumption
  <1>4. ASSUME NEW k \in Lookup(r),
               rateLimit' = [rateLimit EXCEPT ![p] = row[k].limit]
        PROVE  IInv'
    <2>1. PICK old \in Infos : old = row[k] /\ Reported(k, old, reported)
      BY LookupFinds
    <2>2. old.limit \in Nat
      BY InfoFields
    <2>3. ASSUME old.limit = 0
          PROVE  \E x \in reported : x[3] = 0
      <3>1. <<k, old.source, old.limit>> \in reported
        BY <2>1, <2>3 DEF Reported
      <3>2. QED
        BY <2>3, <3>1
    <2>4. QED
      BY <1>2, <1>4, <2>1, <2>2, <2>3
  <1>5. QED
    <2>1. CASE \E k \in Lookup(r) :
                 rateLimit' = [rateLimit EXCEPT ![p] =
                                 IF Trusted(row[k]) THEN row[k].limit ELSE Fallback]
      <3>1. PICK k \in Lookup(r) :
              rateLimit' = [rateLimit EXCEPT ![p] =
                              IF Trusted(row[k]) THEN row[k].limit ELSE Fallback]
        BY <2>1
      <3>2. CASE Trusted(row[k])
        BY <1>4, <3>1, <3>2
      <3>3. CASE ~Trusted(row[k])
        BY <1>3, <3>1, <3>3
      <3>4. QED
        BY <3>2, <3>3
    <2>2. QED
      BY <1>3, <2>1 DEF UpdateRateLimitFromDiscovery

(* The state in which the second statement is about to run.                *)
LEMMA CheckMakes ==
  ASSUME IInv, NEW p \in Procs, SaveCheck(p)
  PROVE  \E s \in WriteStates :
           /\ Goto(p, s)
           /\ proc[p].pc = "check" /\ Sound(proc[p], reported)
           /\ s.pc = "write" /\ s.key = proc[p].key /\ s.info = proc[p].info
           /\ s.key \in Resources /\ s.info \in Infos
           /\ s.read = proc[p].read \cup {row[s.key]}
           /\ s.how = "insert" => row[s.key] = NoRow
           /\ s.how = "replace" =>
                row[s.key] # NoRow /\ ShouldUpdate(row[s.key], s.info)
  <1>1. PICK c \in States : c = proc[p] /\ Sound(c, reported) /\ c.pc = "check"
    BY DEF IInv, ProcInv, SaveCheck
  <1>2. /\ c.key \in Resources /\ c.info \in Infos
        /\ c.then \in Thens /\ c.read \in SUBSET Rows
    BY <1>1, StateFields
  <1>3. PICK old \in Rows : old = row[c.key]
    BY <1>2 DEF IInv, TypeOK, Rows
  <1>4. PICK how \in {"insert", "replace", "observe"} :
          how = IF old = NoRow THEN "insert"
                ELSE IF ShouldUpdate(old, c.info) THEN "replace" ELSE "observe"
    OBVIOUS
  <1>5. /\ how = "insert" => old = NoRow
        /\ how = "replace" => old # NoRow /\ ShouldUpdate(old, c.info)
    BY <1>4
  <1>6. PICK s : s = [pc |-> "write", key |-> c.key, info |-> c.info,
                      then |-> c.then, read |-> c.read \cup {old}, how |-> how]
    OBVIOUS
  <1>7. s \in WriteStates
    BY <1>2, <1>6 DEF WriteStates
  <1>8. Goto(p, s)
    BY <1>1, <1>3, <1>4, <1>6 DEF SaveCheck
  <1>9. /\ s.pc = "write" /\ s.key = c.key /\ s.info = c.info
        /\ s.read = c.read \cup {old} /\ s.how = how
    BY <1>6
  <1>10. QED
    BY <1>1, <1>2, <1>3, <1>5, <1>7, <1>8, <1>9

LEMMA CheckStep ==
  ASSUME IInv, NEW p \in Procs, SaveCheck(p)
  PROVE  IInv'
  <1>1. UNCHANGED <<now, row, rateLimit, calls, reported>>
    BY DEF SaveCheck
  <1>2. PICK s \in WriteStates :
          /\ Goto(p, s)
          /\ proc[p].pc = "check" /\ Sound(proc[p], reported)
          /\ s.pc = "write" /\ s.key = proc[p].key /\ s.info = proc[p].info
    BY CheckMakes
  <1>3. Sound(s, reported')
    BY <1>1, <1>2 DEF Sound, States
  <1>4. QED
    BY <1>1, <1>2, <1>3, GotoInv, RowFrame DEF IInv, TypeOK, RateInv

LEMMA WriteStep ==
  ASSUME IInv, NEW p \in Procs, SaveWrite(p)
  PROVE  IInv'
  <1>1. UNCHANGED <<now, rateLimit, calls, reported>>
    BY DEF SaveWrite
  <1>2. PICK c \in States : c = proc[p] /\ Sound(c, reported) /\ c.pc = "write"
    BY DEF IInv, ProcInv, SaveWrite
  <1>3. /\ c.key \in Resources /\ c.info \in Infos
        /\ c.then \in Thens /\ c.how \in {"insert", "replace", "observe"}
        /\ Reported(c.key, c.info, reported) /\ Counted(c.info)
    BY <1>2, StateFields DEF Sound
  <1>4. PICK old \in Rows : old = row[c.key]
    BY <1>3 DEF IInv, TypeOK, Rows
  <1>5. PICK new : new = Written(old, c.info, c.how)
    OBVIOUS
  <1>6. row' = [row EXCEPT ![c.key] = new] /\ Goto(p, c.then)
    BY <1>2, <1>4, <1>5 DEF SaveWrite
  <1>7. now \in 0 .. MaxTime
    BY DEF IInv, TypeOK
  <1>8. new \in Rows
    BY <1>3, <1>5, <1>7, WrittenCases
  <1>9. old # NoRow =>
          /\ Reported(c.key, old, reported) /\ Counted(old)
          /\ old.obs \in Nat /\ old.obs > 0
    BY <1>3, <1>4, InfoFields DEF IInv, RowInv, Rows
  <1>10. new # NoRow => Reported(c.key, new, reported) /\ Counted(new)
    BY <1>3, <1>5, <1>7, <1>9, WrittenCases DEF Reported, Counted
  <1>11. row' \in [Resources -> Infos \cup {NoRow}]
    BY <1>6, <1>8 DEF IInv, TypeOK, Rows
  <1>12. RowInv'
    BY <1>1, <1>6, <1>10 DEF IInv, TypeOK, RowInv
  <1>13. Sound(c.then, reported')
    BY <1>3, ThenSound
  <1>14. QED
    BY <1>1, <1>6, <1>11, <1>12, <1>13, GotoInv DEF IInv, TypeOK, RateInv

LEMMA FailStep ==
  ASSUME IInv, NEW p \in Procs, SaveFails(p)
  PROVE  IInv'
  <1>1. UNCHANGED <<now, row, rateLimit, calls, reported>>
    BY DEF SaveFails
  <1>2. proc[p].then \in Thens
    BY StateFields DEF IInv, ProcInv, SaveFails
  <1>3. Sound(proc[p].then, reported')
    BY <1>2, ThenSound
  <1>4. Goto(p, proc[p].then)
    BY DEF SaveFails
  <1>5. QED
    BY <1>1, <1>3, <1>4, GotoInv, RowFrame DEF IInv, TypeOK, RateInv

LEMMA CleanupStep ==
  ASSUME IInv, CleanupExpiredData
  PROVE  IInv'
  <1>1. UNCHANGED <<now, proc, rateLimit, calls, reported>>
    BY DEF CleanupExpiredData
  <1>2. \A r \in Resources : row'[r] = NoRow \/ row'[r] = row[r]
    BY DEF CleanupExpiredData
  <1>3. row' \in [Resources -> Infos \cup {NoRow}]
    BY DEF IInv, TypeOK, CleanupExpiredData
  <1>4. RowInv'
    BY <1>1, <1>2 DEF IInv, RowInv
  <1>5. QED
    BY <1>1, <1>3, <1>4 DEF IInv, TypeOK, ProcInv, RateInv

LEMMA TickStep ==
  ASSUME IInv, Tick
  PROVE  IInv' /\ now' > now
  <1>1. UNCHANGED <<row, proc, rateLimit, calls, reported>>
    BY DEF Tick
  <1>2. now' \in 0 .. MaxTime /\ now' > now
    BY DiscoveryAssumption DEF Tick, IInv, TypeOK
  <1>3. QED
    BY <1>1, <1>2 DEF IInv, TypeOK, ProcInv, RowInv, RateInv

-----------------------------------------------------------------------------
(* The theorems.                                                           *)

(* The invariant is inductive.                                             *)
THEOREM InductiveInvariant == Spec => []IInv
  <1>1. Init => IInv
    <2>1. SUFFICES ASSUME Init PROVE IInv
      OBVIOUS
    <2>2. \A p \in Procs : proc[p] = Idle
      BY <2>1 DEF Init
    <2>3. Idle \in Thens /\ Idle.pc = "idle"
      BY DEF Thens, Idle
    <2>4. ProcInv
      BY <2>1, <2>2, <2>3, ThenSound DEF Init, ProcInv, States
    <2>5. TypeOK
      BY <2>1, <2>2, <2>3, DiscoveryAssumption DEF Init, TypeOK
    <2>6. QED
      BY <2>1, <2>4, <2>5, DiscoveryAssumption DEF Init, IInv, RowInv, RateInv
  <1>2. IInv /\ [Next]_vars => IInv'
    <2>1. SUFFICES ASSUME IInv, [Next]_vars PROVE IInv'
      OBVIOUS
    <2>2. CASE UNCHANGED vars
      BY <2>1, <2>2 DEF vars, IInv, TypeOK, ProcInv, RowInv, RateInv
    <2>3. CASE Next
      BY <2>1, <2>3, TickStep, CleanupStep, ProcessStep, ForceStep, ClearStep,
         TakeOverStep, LearnStep, UpdateStep, CheckStep, WriteStep, FailStep
         DEF Next, Codes
    <2>4. QED
      BY <2>1, <2>2, <2>3
  <1>3. QED
    BY <1>1, <1>2, PTL DEF Spec

(* What a row says was said: every stored limit that claims to come from   *)
(* headers, from JSON or from the user was stated by that source for that  *)
(* resource, for any number of processes that interleave the statements of *)
(* SaveRateLimitInfo in any way.                                           *)
THEOREM RowsHaveProvenance == Spec => []Provenance
  <1>1. IInv => Provenance
    BY DEF IInv, Provenance, RowInv, RateInv, Reported
  <1>2. QED
    BY <1>1, InductiveInvariant, PTL

(* The row of a resource changes only by the second statement of a save,   *)
(* and by cleanup.                                                         *)
LEMMA RowChanges ==
  ASSUME IInv, [Next]_vars, row' # row
  PROVE  CleanupExpiredData \/ \E p \in Procs : SaveWrite(p)
  BY DEF Next, vars, Tick, ProcessCommandOutput, ForceLearnRateLimit,
     ClearRateLimitInfo, UpdateRateLimitFromDiscovery, LearnFromResponse,
     UpdateRateLimit, SaveCheck, SaveFails

(* The decision to replace a row is justified when it is taken.            *)
LEMMA VerdictTaken ==
  ASSUME HalfObservations >= 8, now \in Nat,
         NEW old \in Infos, old # NoRow, NEW info \in Infos, Counted(old),
         NEW read, Fresh(info) \/ \E r \in read : DerivedFrom(info, r),
         ShouldUpdate(old, info), now - old.seen <= 1, read \cup {old} = {old}
  PROVE  Priority[info.source] >= Priority[old.source]
  <1>1. /\ Priority[info.source] \in Nat /\ Priority[old.source] \in Nat
        /\ now - old.seen \in Int
    BY InfoFields, BaseValues
  <1>2. ~IsExpired(old)
    BY <1>1 DEF IsExpired
  <1>3. CASE Fresh(info)
    <2>1. SUFFICES ASSUME Priority[info.source] < Priority[old.source]
                   PROVE  FALSE
      BY <1>1
    <2>2. ~Greater(ConfidenceScore(info), ConfidenceScore(old))
      BY <1>3, <2>1, LowerSourceLoses DEF Fresh
    <2>3. QED
      BY <1>1, <1>2, <2>1, <2>2 DEF ShouldUpdate
  <1>4. CASE DerivedFrom(info, old)
    BY <1>1, <1>4 DEF DerivedFrom
  <1>5. QED
    BY <1>3, <1>4

(* Where a process decides to replace, the decision is justified.          *)
LEMMA CheckJustified ==
  ASSUME HalfObservations >= 8, IInv, NEW p \in Procs, SaveCheck(p)
  PROVE  \E s : /\ Goto(p, s)
                /\ s.pc = "write" /\ s.how = "replace" => Justified(s, now)
  <1>1. PICK s \in WriteStates :
          /\ Goto(p, s)
          /\ proc[p].pc = "check" /\ Sound(proc[p], reported)
          /\ s.pc = "write" /\ s.key = proc[p].key /\ s.info = proc[p].info
          /\ s.key \in Resources /\ s.info \in Infos
          /\ s.read = proc[p].read \cup {row[s.key]}
          /\ s.how = "replace" =>
               row[s.key] # NoRow /\ ShouldUpdate(row[s.key], s.info)
    BY CheckMakes
  <1>2. SUFFICES ASSUME s.how = "replace" PROVE Justified(s, now)
    BY <1>1
  <1>3. PICK old \in Infos : old = row[s.key] /\ Counted(old)
    BY <1>1, <1>2 DEF IInv, TypeOK, RowInv
  <1>4. PICK read : read = proc[p].read
    OBVIOUS
  <1>5. old # NoRow /\ ShouldUpdate(old, s.info) /\ s.read = read \cup {old}
    BY <1>1, <1>2, <1>3, <1>4
  <1>6. Fresh(s.info) \/ \E r \in read : DerivedFrom(s.info, r)
    BY <1>1, <1>4 DEF Sound
  <1>7. now \in Nat /\ now - old.seen \in Int
    BY InfoFields DEF IInv, TypeOK
  <1>8. CASE now - old.seen > 1 \/ s.read # {old}
    BY <1>5, <1>8 DEF Justified
  <1>9. CASE now - old.seen <= 1 /\ s.read = {old}
    <2>1. Priority[s.info.source] >= Priority[old.source]
      BY <1>1, <1>3, <1>5, <1>6, <1>7, <1>9, VerdictTaken
    <2>2. QED
      BY <1>5, <2>1 DEF Justified
  <1>10. QED
    BY <1>7, <1>8, <1>9

(* No other step brings a process to the second statement.                 *)
LEMMA OnlyCheckLeadsToWrite ==
  ASSUME IInv, [Next]_vars, NEW q \in Procs, ~SaveCheck(q), proc'[q].pc = "write"
  PROVE  proc'[q] = proc[q]
  <1>1. SUFFICES ASSUME proc'[q] # proc[q] PROVE FALSE
    OBVIOUS
  <1>2. ASSUME NEW s, Goto(q, s), s.pc # "write"
        PROVE  FALSE
    BY <1>2 DEF Goto, IInv, ProcInv
  <1>3. ASSUME NEW key, NEW info, NEW then, NEW read, Save(q, key, info, then, read)
        PROVE  FALSE
    <2>1. PICK s : s = [pc |-> "check", key |-> key, info |-> info, then |-> then,
                        read |-> read]
      OBVIOUS
    <2>2. QED
      BY <1>2, <1>3, <2>1 DEF Save
  <1>4. ASSUME NEW s \in Thens, Goto(q, s)
        PROVE  FALSE
    BY <1>2, <1>4, ThenSound
  <1>5. ASSUME NEW p \in Procs, NEW r \in Resources, NEW code \in Codes,
               ProcessCommandOutput(p, r, code)
        PROVE  FALSE
    BY <1>1, <1>3, <1>4, <1>5, FollowUps DEF ProcessCommandOutput, Goto, Save, IInv, ProcInv
  <1>6. ASSUME NEW p \in Procs, NEW r \in Resources, NEW limit \in Limits,
               ForceLearnRateLimit(p, r, limit)
        PROVE  FALSE
    BY <1>1, <1>3, <1>6 DEF ForceLearnRateLimit, Goto, Save, IInv, ProcInv
  <1>7. ASSUME NEW p \in Procs, NEW r \in Resources, ClearRateLimitInfo(p, r)
        PROVE  FALSE
    BY <1>1, <1>3, <1>7 DEF ClearRateLimitInfo, Goto, Save, IInv, ProcInv
  <1>8. ASSUME NEW p \in Procs, LearnFromResponse(p)
        PROVE  FALSE
    <2>1. p = q
      BY <1>1, <1>8 DEF LearnFromResponse, Goto, Save, IInv, ProcInv
    <2>2. Update(proc[p].res, proc[p].code) \in Thens
      BY <1>8, FollowUps, StateFields DEF LearnFromResponse, IInv, ProcInv
    <2>3. QED
      BY <1>3, <1>4, <1>8, <2>1, <2>2 DEF LearnFromResponse
  <1>9. ASSUME NEW p \in Procs, UpdateRateLimit(p)
        PROVE  FALSE
    <2>1. p = q
      BY <1>1, <1>9 DEF UpdateRateLimit, Goto, Save, IInv, ProcInv
    <2>2. Idle \in Thens
      BY DEF Thens
    <2>3. QED
      BY <1>3, <1>4, <1>9, <2>1, <2>2 DEF UpdateRateLimit
  <1>10. ASSUME NEW p \in Procs, SaveCheck(p)
         PROVE  FALSE
    BY <1>1, <1>10 DEF SaveCheck, Goto, IInv, ProcInv
  <1>11. ASSUME NEW p \in Procs, SaveWrite(p) \/ SaveFails(p)
         PROVE  FALSE
    <2>1. Goto(p, proc[p].then) /\ proc[p].pc \in {"check", "write"}
      BY <1>11 DEF SaveWrite, SaveFails
    <2>2. p = q
      BY <1>1, <2>1 DEF Goto, IInv, ProcInv
    <2>3. proc[p].then \in Thens
      BY <2>1, StateFields DEF IInv, ProcInv
    <2>4. QED
      BY <1>4, <2>1, <2>2, <2>3
  <1>12. CASE UNCHANGED proc
    BY <1>1, <1>12
  <1>13. QED
    BY <1>5, <1>6, <1>7, <1>8, <1>9, <1>10, <1>11, <1>12
       DEF Next, vars, Codes, Tick, CleanupExpiredData, UpdateRateLimitFromDiscovery

(* The clock does not go back.                                             *)
LEMMA ClockAdvances ==
  ASSUME IInv, [Next]_vars
  PROVE  now \in Nat /\ now' \in Nat /\ now <= now'
  <1>1. now \in Nat
    BY DEF IInv, TypeOK
  <1>2. CASE now' = now
    BY <1>1, <1>2
  <1>3. CASE Tick
    <2>1. PICK d \in Waits : now' = now + d
      BY <1>3 DEF Tick
    <2>2. d \in Nat
      BY DiscoveryAssumption
    <2>3. QED
      BY <1>1, <2>1, <2>2
  <1>4. QED
    BY <1>2, <1>3 DEF Next, vars, CleanupExpiredData, ProcessCommandOutput,
       ForceLearnRateLimit, ClearRateLimitInfo, UpdateRateLimitFromDiscovery,
       LearnFromResponse, UpdateRateLimit, SaveCheck, SaveWrite, SaveFails

(* A process leaves the second statement by running it or by its failure.  *)
LEMMA WriteEnds ==
  ASSUME IInv, [Next]_vars, NEW p \in Procs,
         proc[p].pc = "write", proc'[p] # proc[p]
  PROVE  SaveWrite(p) \/ SaveFails(p)
  <1>1. ASSUME NEW q \in Procs, NEW s, Goto(q, s)
        PROVE  q = p
    BY <1>1 DEF Goto, IInv, ProcInv
  <1>2. proc[p] # Idle
    BY DEF Idle
  <1>3. ASSUME NEW q \in Procs, Call(q)
        PROVE  q # p
    BY <1>2, <1>3 DEF Call
  <1>4. ASSUME NEW q \in Procs, NEW r \in Resources, NEW code \in Codes,
               ProcessCommandOutput(q, r, code)
        PROVE  FALSE
    BY <1>1, <1>3, <1>4 DEF ProcessCommandOutput, Save
  <1>5. ASSUME NEW q \in Procs, NEW r \in Resources, NEW limit \in Limits,
               ForceLearnRateLimit(q, r, limit)
        PROVE  FALSE
    BY <1>1, <1>3, <1>5 DEF ForceLearnRateLimit, Save
  <1>6. ASSUME NEW q \in Procs, NEW r \in Resources, ClearRateLimitInfo(q, r)
        PROVE  FALSE
    BY <1>1, <1>3, <1>6 DEF ClearRateLimitInfo, Save
  <1>7. ASSUME NEW q \in Procs, LearnFromResponse(q) \/ UpdateRateLimit(q) \/ SaveCheck(q)
        PROVE  FALSE
    BY <1>1, <1>7 DEF LearnFromResponse, UpdateRateLimit, SaveCheck, Save
  <1>8. ASSUME NEW q \in Procs, SaveWrite(q) \/ SaveFails(q)
        PROVE  q = p
    BY <1>1, <1>8 DEF SaveWrite, SaveFails
  <1>9. QED
    BY <1>4, <1>5, <1>6, <1>7, <1>8
       DEF Next, vars, Codes, Tick, CleanupExpiredData, UpdateRateLimitFromDiscovery

(* A justified decision stays justified: rows only get older.              *)
LEMMA VerdictStep ==
  ASSUME HalfObservations >= 8, IInv, VerdictInv, [Next]_vars
  PROVE  VerdictInv'
  <1>1. SUFFICES ASSUME NEW q \in Procs, proc'[q].pc = "write",
                        proc'[q].how = "replace"
                 PROVE  Justified(proc'[q], now')
    BY DEF VerdictInv
  <1>2. CASE SaveCheck(q)
    <2>1. PICK s : /\ Goto(q, s)
                   /\ s.pc = "write" /\ s.how = "replace" => Justified(s, now)
      BY <1>2, CheckJustified
    <2>2. proc'[q] = s /\ now' = now
      BY <1>2, <2>1 DEF Goto, IInv, ProcInv, SaveCheck
    <2>3. QED
      BY <1>1, <2>1, <2>2
  <1>3. CASE ~SaveCheck(q)
    <2>1. proc'[q] = proc[q]
      BY <1>1, <1>3, OnlyCheckLeadsToWrite
    <2>2. PICK s \in States : s = proc[q] /\ Justified(s, now)
      BY <1>1, <2>1 DEF IInv, ProcInv, VerdictInv
    <2>3. s.read \in SUBSET Rows
      BY <1>1, <2>1, <2>2, StateFields
    <2>4. PICK r \in s.read :
            /\ r # NoRow
            /\ \/ now - r.seen > 1
               \/ s.read # {r}
               \/ Priority[s.info.source] >= Priority[r.source]
      BY <2>2 DEF Justified
    <2>5. r.seen \in Nat
      BY <2>3, <2>4, InfoFields DEF Rows
    <2>6. now \in Nat /\ now' \in Nat /\ now <= now'
      BY ClockAdvances
    <2>7. now - r.seen > 1 => now' - r.seen > 1
      BY <2>5, <2>6
    <2>8. Justified(s, now')
      BY <2>4, <2>7 DEF Justified
    <2>9. QED
      BY <2>1, <2>2, <2>8
  <1>4. QED
    BY <1>2, <1>3

(* A row seen within a day that nobody has changed since the writer read   *)
(* it is not replaced by a less reliable source (ShouldUpdate,             *)
(* SaveRateLimitInfo), provided that half of the confidence takes at least *)
(* 8 observations; ConfidenceScore has 10.  With 7 or fewer, a single      *)
(* report of a header could outweigh a limit that the user set and that    *)
(* has met with nothing but failures.                                      *)
THEOREM FreshRowsAreKept ==
  ASSUME HalfObservations >= 8
  PROVE  Spec => FreshRowsStand
  <1> DEFINE Stands == \A p \in Procs :
               LET old == row[proc[p].key] new == row'[proc[p].key] IN
               (/\ proc[p].pc = "write" /\ proc'[p] # proc[p]
                /\ old # NoRow /\ proc[p].read = {old} /\ now - old.seen <= 1)
               => Priority[new.source] >= Priority[old.source]
  <1>1. Init => VerdictInv
    BY DEF Init, VerdictInv, Idle
  <1>2. IInv /\ VerdictInv /\ [Next]_vars => VerdictInv'
    BY VerdictStep
  <1>3. IInv /\ VerdictInv /\ [Next]_vars => [Stands]_vars
    <2>1. SUFFICES ASSUME IInv, VerdictInv, [Next]_vars, NEW p \in Procs,
                          proc[p].pc = "write", proc'[p] # proc[p],
                          row[proc[p].key] # NoRow,
                          proc[p].read = {row[proc[p].key]},
                          now - row[proc[p].key].seen <= 1
                   PROVE  Priority[row'[proc[p].key].source]
                            >= Priority[row[proc[p].key].source]
      OBVIOUS
    <2>2. PICK c \in States : c = proc[p]
      BY <2>1 DEF IInv, ProcInv
    <2>3. /\ c.pc = "write" /\ c.key \in Resources /\ c.info \in Infos
          /\ c.how \in {"insert", "replace", "observe"}
      BY <2>1, <2>2, StateFields
    <2>4. PICK old \in Infos : old = row[c.key]
      BY <2>1, <2>2, <2>3 DEF IInv, TypeOK
    <2>5. old # NoRow /\ c.read = {old} /\ now - old.seen <= 1
      BY <2>1, <2>2, <2>4
    <2>6. Priority[old.source] \in Nat /\ now - old.seen \in Int /\ now \in 0 .. MaxTime
      BY <2>1, InfoFields, BaseValues DEF IInv, TypeOK
    <2>7. CASE SaveFails(p)
      BY <2>2, <2>4, <2>6, <2>7 DEF SaveFails
    <2>8. CASE SaveWrite(p)
      <3>1. PICK new : new = Written(old, c.info, c.how)
        OBVIOUS
      <3>2. row'[c.key] = new
        BY <2>1, <2>2, <2>3, <2>4, <2>8, <3>1 DEF SaveWrite, IInv, TypeOK
      <3>3. c.how = "replace" => Priority[c.info.source] >= Priority[old.source]
        <4>1. SUFFICES ASSUME c.how = "replace"
                       PROVE  Priority[c.info.source] >= Priority[old.source]
          OBVIOUS
        <4>2. Justified(c, now)
          BY <2>1, <2>2, <4>1 DEF VerdictInv
        <4>3. QED
          BY <2>5, <2>6, <4>2 DEF Justified
      <3>5. Priority[new.source] >= Priority[old.source]
        <4>1. old \in Rows
          BY DEF Rows
        <4>2. QED
          BY <2>3, <2>5, <2>6, <3>1, <3>3, <4>1, WrittenCases
      <3>6. QED
        BY <2>2, <2>4, <3>2, <3>5
    <2>9. QED
      BY <2>1, <2>7, <2>8, WriteEnds
  <1>4. QED
    BY <1>1, <1>2, <1>3, InductiveInvariant, PTL DEF Spec, FreshRowsStand

(* A process that is about to insert has found no row.                     *)
LEMMA InsertStep ==
  ASSUME IInv, InsertInv, [Next]_vars
  PROVE  InsertInv'
  <1>1. SUFFICES ASSUME NEW q \in Procs, proc'[q].pc = "write",
                        proc'[q].how = "insert"
                 PROVE  NoRow \in proc'[q].read
    BY DEF InsertInv
  <1>2. CASE SaveCheck(q)
    <2>1. PICK s \in WriteStates :
            /\ Goto(q, s)
            /\ s.read = proc[q].read \cup {row[s.key]}
            /\ s.how = "insert" => row[s.key] = NoRow
      BY <1>2, CheckMakes
    <2>2. proc'[q] = s
      BY <2>1 DEF Goto, IInv, ProcInv
    <2>3. QED
      BY <1>1, <2>1, <2>2
  <1>3. CASE ~SaveCheck(q)
    <2>1. proc'[q] = proc[q]
      BY <1>1, <1>3, OnlyCheckLeadsToWrite
    <2>2. QED
      BY <1>1, <2>1 DEF InsertInv
  <1>4. QED
    BY <1>2, <1>3

(* What the second statement of a save makes of a row that is there.       *)
LEMMA WriteCounts ==
  ASSUME IInv, NEW p \in Procs, SaveWrite(p), NEW r \in Resources,
         r = proc[p].key, row[r] # NoRow
  PROVE  /\ row[r].obs \in Nat
         /\ \/ row'[r].obs = row[r].obs + 1
            \/ row'[r] = row[r] /\ proc[p].pc = "write" /\ proc[p].how = "insert"
  <1>1. PICK c \in States : c = proc[p] /\ c.pc = "write"
    BY DEF IInv, ProcInv, SaveWrite
  <1>2. /\ c.key \in Resources /\ c.info \in Infos
        /\ c.how \in {"insert", "replace", "observe"}
    BY <1>1, StateFields
  <1>3. PICK old \in Rows : old = row[r]
    BY DEF IInv, TypeOK, Rows
  <1>4. PICK new : new = row'[r]
    OBVIOUS
  <1>5. new = Written(old, c.info, c.how)
    BY <1>1, <1>2, <1>3, <1>4 DEF SaveWrite, IInv, TypeOK
  <1>6. old # NoRow /\ old.obs \in Nat
    BY <1>3, InfoFields DEF Rows
  <1>7. new.obs = old.obs + 1 \/ (new = old /\ c.how = "insert")
    BY <1>2, <1>3, <1>5, <1>6, WrittenCases DEF IInv, TypeOK
  <1>8. QED
    BY <1>1, <1>3, <1>4, <1>6, <1>7

(* Every write to a row that is there counts one observation more, also    *)
(* where others have added theirs since the writer read the row            *)
(* (SaveRateLimitInfo counts in SQL) - unless it is an INSERT whose writer *)
(* found no row when it looked: that one fails, and its observation is     *)
(* lost.                                                                   *)
THEOREM ObservationsGrowByOne == Spec => ObservationsCounted
  <1> DEFINE Counts1 == \A r \in Resources : row[r] # NoRow /\ row'[r] # NoRow =>
               IF row'[r] # row[r] THEN row'[r].obs = row[r].obs + 1
               ELSE \A p \in Procs :
                      SaveWrite(p) /\ proc[p].key = r => NoRow \in proc[p].read
  <1>1. Init => InsertInv
    BY DEF Init, InsertInv, Idle
  <1>2. IInv /\ InsertInv /\ [Next]_vars => InsertInv'
    BY InsertStep
  <1>3. IInv /\ InsertInv /\ [Next]_vars => [Counts1]_vars
    <2>1. SUFFICES ASSUME IInv, InsertInv, [Next]_vars, NEW r \in Resources,
                          row[r] # NoRow, row'[r] # NoRow
                   PROVE  /\ row'[r] # row[r] => row'[r].obs = row[r].obs + 1
                          /\ row'[r] = row[r] => \A p \in Procs :
                               SaveWrite(p) /\ proc[p].key = r => NoRow \in proc[p].read
      OBVIOUS
    <2>2. ASSUME row'[r] # row[r]
          PROVE  row'[r].obs = row[r].obs + 1
      <3>1. CASE CleanupExpiredData
        BY <2>1, <2>2, <3>1 DEF CleanupExpiredData
      <3>2. ASSUME NEW p \in Procs, SaveWrite(p)
            PROVE  row'[r].obs = row[r].obs + 1
        <4>1. proc[p].key = r
          BY <2>1, <2>2, <3>2 DEF SaveWrite, IInv, TypeOK
        <4>2. QED
          BY <2>1, <2>2, <3>2, <4>1, WriteCounts
      <3>3. QED
        BY <2>1, <2>2, <3>1, <3>2, RowChanges
    <2>3. ASSUME row'[r] = row[r], NEW p \in Procs, SaveWrite(p), proc[p].key = r
          PROVE  NoRow \in proc[p].read
      <3>1. /\ row[r].obs \in Nat
            /\ \/ row'[r].obs = row[r].obs + 1
               \/ proc[p].pc = "write" /\ proc[p].how = "insert"
        BY <2>1, <2>3, WriteCounts
      <3>2. proc[p].pc = "write" /\ proc[p].how = "insert"
        BY <2>3, <3>1
      <3>3. QED
        BY <2>1, <3>2 DEF InsertInv
    <2>4. QED
      BY <2>2, <2>3
  <1>4. QED
    BY <1>1, <1>2, <1>3, InductiveInvariant, PTL DEF Spec, ObservationsCounted

-----------------------------------------------------------------------------
(* Resource groups, for any groups, in any number, and any changes.        *)

GroupsTyped ==
  /\ IsFiniteSet(DOMAIN groups)
  /\ \A n \in DOMAIN groups : groups[n].priority \in Int

(* An identifier handed out since the last change is that of a group that  *)
(* claims the target, or of the default group where none does.             *)
Explains(n, target) ==
  /\ n \in DOMAIN groups
  /\ n \in Claims(target) \/ (Claims(target) = {} /\ n = Default)

AssignedInv ==
  \A a \in assigned : \E t : \E n \in DOMAIN groups :
    Explains(n, t) /\ a = <<t, GroupID(n, t, groups[n].share)>>

DefaultInv ==
  /\ Default \in DOMAIN groups \/ Default \in removed
  /\ crashed => Default \in removed

GroupInv == GroupsTyped /\ AssignedInv /\ DefaultInv

LEMMA AddFive ==
  ASSUME NEW S, IsFiniteSet(S), NEW a, NEW b, NEW c, NEW d, NEW e
  PROVE  IsFiniteSet(S \cup {a, b, c, d, e})
<1>1. IsFiniteSet(S \cup {a})
  BY FS_AddElement
<1>2. IsFiniteSet((S \cup {a}) \cup {b})
  BY <1>1, FS_AddElement
<1>3. IsFiniteSet(((S \cup {a}) \cup {b}) \cup {c})
  BY <1>2, FS_AddElement
<1>4. IsFiniteSet((((S \cup {a}) \cup {b}) \cup {c}) \cup {d})
  BY <1>3, FS_AddElement
<1>5. IsFiniteSet(((((S \cup {a}) \cup {b}) \cup {c}) \cup {d}) \cup {e})
  BY <1>4, FS_AddElement
<1>6. ((((S \cup {a}) \cup {b}) \cup {c}) \cup {d}) \cup {e} = S \cup {a, b, c, d, e}
  OBVIOUS
<1> QED
  BY <1>5, <1>6

(* initializeDefaultConfigs.                                               *)
LEMMA DefaultGroupsTyped ==
  /\ IsFiniteSet(DOMAIN DefaultGroups) /\ Default \in DOMAIN DefaultGroups
  /\ \A n \in DOMAIN DefaultGroups : DefaultGroups[n].priority \in Int
<1>1. DOMAIN DefaultGroups =
        ({} \cup {"GitHub_API_Core", "GitHub_API_Search", "Docker_Hub_Registry",
                  "AWS_API_Gateway", "Google_Cloud_APIs"})
        \cup {"Kubernetes_API_Core", "Kubernetes_API_Extensions",
              "REST_API_Generic", "GraphQL_Endpoints", Default}
  BY DEF DefaultGroups
<1>2. IsFiniteSet(DOMAIN DefaultGroups)
  <2>1. PICK S : S = {} \cup {"GitHub_API_Core", "GitHub_API_Search",
                              "Docker_Hub_Registry", "AWS_API_Gateway",
                              "Google_Cloud_APIs"}
    OBVIOUS
  <2>2. IsFiniteSet(S)
    BY <2>1, AddFive, FS_EmptySet
  <2>3. IsFiniteSet(S \cup {"Kubernetes_API_Core", "Kubernetes_API_Extensions",
                            "REST_API_Generic", "GraphQL_Endpoints", Default})
    BY <2>2, AddFive
  <2> QED
    BY <1>1, <2>1, <2>3
<1>3. ASSUME NEW n \in DOMAIN DefaultGroups
      PROVE  DefaultGroups[n].priority \in Int
  <2>1. CASE n = "GitHub_API_Core"
    BY <2>1 DEF DefaultGroups, Default, Group
  <2>2. CASE n = "GitHub_API_Search"
    BY <2>2 DEF DefaultGroups, Default, Group
  <2>3. CASE n = "Docker_Hub_Registry"
    BY <2>3 DEF DefaultGroups, Default, Group
  <2>4. CASE n = "AWS_API_Gateway"
    BY <2>4 DEF DefaultGroups, Default, Group
  <2>5. CASE n = "Google_Cloud_APIs"
    BY <2>5 DEF DefaultGroups, Default, Group
  <2>6. CASE n = "Kubernetes_API_Core"
    BY <2>6 DEF DefaultGroups, Default, Group
  <2>7. CASE n = "Kubernetes_API_Extensions"
    BY <2>7 DEF DefaultGroups, Default, Group
  <2>8. CASE n = "REST_API_Generic"
    BY <2>8 DEF DefaultGroups, Default, Group
  <2>9. CASE n = "GraphQL_Endpoints"
    BY <2>9 DEF DefaultGroups, Default, Group
  <2>10. CASE n = Default
    BY <2>10 DEF DefaultGroups, Default, Group
  <2> QED
    BY <1>1, <2>1, <2>2, <2>3, <2>4, <2>5, <2>6, <2>7, <2>8, <2>9, <2>10
<1>4. Default \in DOMAIN DefaultGroups
  BY <1>1
<1> QED
  BY <1>2, <1>3, <1>4

(* Best is what no other matching group outranks.                          *)
LEMMA BestClaims ==
  ASSUME GroupsTyped, NEW t
  PROVE  Best(t) = Claims(t) /\ (Matching(t) = {} => Claims(t) = {})
<1>1. \A n, m \in DOMAIN groups :
        groups[m].priority <= groups[n].priority
          <=> ~(groups[m].priority > groups[n].priority)
  BY DEF GroupsTyped
<1> QED
  BY <1>1 DEF Best, Matching, Claims

LEMMA GroupInitInv == GroupInit => GroupInv
<1> SUFFICES ASSUME GroupInit PROVE GroupInv
  OBVIOUS
<1>1. GroupsTyped
  BY DefaultGroupsTyped DEF GroupInit, GroupsTyped
<1>2. AssignedInv /\ DefaultInv
  BY DefaultGroupsTyped DEF GroupInit, AssignedInv, DefaultInv
<1> QED
  BY <1>1, <1>2 DEF GroupInv

(* A change of the groups, after which nothing is assigned yet.            *)
LEMMA GroupsChanged ==
  ASSUME GroupInv, Change, GroupsTyped',
         Default \in DOMAIN groups' \/ Default \in removed',
         removed \subseteq removed'
  PROVE  GroupInv'
<1>1. assigned' = {} /\ crashed' = crashed
  BY DEF Change
<1>2. AssignedInv'
  BY <1>1 DEF AssignedInv
<1>3. DefaultInv'
  BY <1>1 DEF GroupInv, DefaultInv
<1> QED
  BY <1>2, <1>3 DEF GroupInv

LEMMA PutTyped ==
  ASSUME GroupsTyped, NEW name, NEW g, Put(name, g),
         g.priority \in Int
  PROVE  GroupsTyped' /\ DOMAIN groups' = DOMAIN groups \cup {name}
<1>1. groups' = [n \in DOMAIN groups \cup {name} |-> IF n = name THEN g ELSE groups[n]]
  BY DEF Put
<1>2. DOMAIN groups' = DOMAIN groups \cup {name}
  BY <1>1
<1>3. IsFiniteSet(DOMAIN groups')
  BY <1>2, FS_AddElement DEF GroupsTyped
<1> QED
  BY <1>1, <1>2, <1>3 DEF GroupsTyped

(* GroupResource hands out the identifier of a group that claims the       *)
(* target.                                                                 *)
LEMMA AskInv ==
  ASSUME GroupInv, NEW t, GroupResource(t)
  PROVE  GroupInv'
<1>1. UNCHANGED <<groups, removed>>
  BY DEF GroupResource
<1>2. GroupsTyped'
  BY <1>1 DEF GroupInv, GroupsTyped
<1>3. ASSUME NEW n \in DOMAIN groups, Explains(n, t),
             assigned' = assigned \cup {<<t, GroupID(n, t, groups[n].share)>>}
      PROVE  AssignedInv'
  <2>1. \A m, s : Explains(m, s)' <=> Explains(m, s)
    BY <1>1 DEF Explains, Claims
  <2> SUFFICES ASSUME NEW a \in assigned'
               PROVE  \E s : \E m \in DOMAIN groups :
                        Explains(m, s) /\ a = <<s, GroupID(m, s, groups[m].share)>>
    BY <1>1, <2>1 DEF AssignedInv
  <2>2. CASE a \in assigned
    BY <2>2 DEF GroupInv, AssignedInv
  <2>3. CASE a = <<t, GroupID(n, t, groups[n].share)>>
    BY <1>3, <2>3
  <2> QED
    BY <1>3, <2>2, <2>3
<1>4. ASSUME NEW n \in Best(t),
             assigned' = assigned \cup {<<t, GroupID(n, t, groups[n].share)>>},
             crashed' = crashed
      PROVE  GroupInv'
  <2>1. n \in DOMAIN groups /\ Explains(n, t)
    BY BestClaims DEF GroupInv, Explains, Claims
  <2>2. AssignedInv'
    BY <1>3, <1>4, <2>1
  <2> QED
    BY <1>1, <1>2, <1>4, <2>2 DEF GroupInv, DefaultInv
<1>5. ASSUME Matching(t) = {}, Default \in DOMAIN groups,
             assigned' = assigned \cup
               {<<t, GroupID(Default, t, groups[Default].share)>>},
             crashed' = crashed
      PROVE  GroupInv'
  <2>1. Explains(Default, t)
    BY <1>5, BestClaims DEF GroupInv, Explains
  <2>2. AssignedInv'
    BY <1>3, <1>5, <2>1
  <2> QED
    BY <1>1, <1>2, <1>5, <2>2 DEF GroupInv, DefaultInv
<1>6. ASSUME Default \notin DOMAIN groups, assigned' = assigned
      PROVE  GroupInv'
  <2>1. AssignedInv'
    BY <1>1, <1>6 DEF GroupInv, AssignedInv, Explains, Claims
  <2> QED
    BY <1>1, <1>2, <1>6, <2>1 DEF GroupInv, DefaultInv
<1> QED
  BY <1>4, <1>5, <1>6 DEF GroupResource

(* Asking and every change of the configuration keep the invariant.        *)
LEMMA GroupNextInv == GroupInv /\ [GroupNext]_groupVars => GroupInv'
<1> SUFFICES ASSUME GroupInv, [GroupNext]_groupVars PROVE GroupInv'
  OBVIOUS
<1>1. CASE UNCHANGED groupVars
  BY <1>1 DEF groupVars, GroupInv, GroupsTyped, AssignedInv, DefaultInv,
              Explains, Claims
<1>2. ASSUME NEW t \in Targets, GroupResource(t)
      PROVE  GroupInv'
  BY <1>2, AskInv
<1>3. ASSUME NEW x \in NewGroups, NEW name,
             Change, removed' = removed,
             groups' = groups \/ Put(name, x.group)
      PROVE  GroupInv'
  <2>1. GroupsTyped' /\ DOMAIN groups \subseteq DOMAIN groups'
    <3>1. CASE groups' = groups
      BY <3>1 DEF GroupInv, GroupsTyped
    <3>2. CASE Put(name, x.group)
      BY <3>2, PutTyped, GroupsAssumption DEF GroupInv
    <3> QED
      BY <1>3, <3>1, <3>2
  <2> QED
    BY <1>3, <2>1, GroupsChanged DEF GroupInv, DefaultInv
<1>4. ASSUME NEW x \in NewGroups, AddResourceGroup(x.name, x.group)
      PROVE  GroupInv'
  BY <1>3, <1>4 DEF AddResourceGroup
<1>5. ASSUME NEW x \in NewGroups, NEW n, UpdateResourceGroup(n, x.name, x.group)
      PROVE  GroupInv'
  BY <1>3, <1>5 DEF UpdateResourceGroup
<1>6. ASSUME NEW name \in DOMAIN groups, RemoveResourceGroup(name)
      PROVE  GroupInv'
  <2>1. /\ Change /\ removed' = removed \cup {name}
        /\ groups' = [n \in DOMAIN groups \ {name} |-> groups[n]]
    BY <1>6 DEF RemoveResourceGroup
  <2>2. DOMAIN groups' = DOMAIN groups \ {name}
    BY <2>1
  <2>3. DOMAIN groups' \in SUBSET DOMAIN groups
    BY <2>2
  <2>4. IsFiniteSet(DOMAIN groups')
    BY <2>3, FS_Subset DEF GroupInv, GroupsTyped
  <2>5. GroupsTyped'
    BY <2>1, <2>2, <2>4 DEF GroupInv, GroupsTyped
  <2> QED
    BY <2>1, <2>2, <2>5, GroupsChanged DEF GroupInv, DefaultInv
<1> QED
  BY <1>1, <1>2, <1>4, <1>5, <1>6 DEF GroupNext

(* Two different groups that claim a target are more than one.             *)
LEMMA TwoClaims ==
  ASSUME GroupsTyped, NEW t, NEW m \in Claims(t), NEW n \in Claims(t), m # n
  PROVE  Cardinality(Claims(t)) > 1
<1>1. Claims(t) \in SUBSET DOMAIN groups
  BY DEF Claims
<1>2. IsFiniteSet(Claims(t))
  BY <1>1, FS_Subset DEF GroupsTyped
<1>3. {m, n} \in SUBSET Claims(t)
  OBVIOUS
<1>4. Cardinality({m, n}) <= Cardinality(Claims(t))
  BY <1>2, <1>3, FS_Subset
<1>5. IsFiniteSet({m}) /\ Cardinality({m}) = 1
  BY FS_Singleton
<1>6. Cardinality({m} \cup {n}) = Cardinality({m}) + 1
  BY <1>5, FS_AddElement
<1>7. {m} \cup {n} = {m, n}
  OBVIOUS
<1>8. Cardinality({m, n}) = 2
  BY <1>5, <1>6, <1>7
<1>9. Cardinality(Claims(t)) \in Nat
  BY <1>2, FS_CardinalityType
<1> QED
  BY <1>4, <1>8, <1>9

(* As long as the configuration stays, GroupResource gives every target    *)
(* one identifier, and one to several targets just where they share a      *)
(* limit, unless groups of equal priority compete; it fails only where the *)
(* default group was removed.                                              *)
THEOREM GroupsShareOneLimit == GroupSpec => []SharesOneLimit
<1>1. ASSUME GroupInv PROVE SharesOneLimit
  <2>1. crashed => Default \in removed
    BY <1>1 DEF GroupInv, DefaultInv
  <2> SUFFICES ASSUME NEW a \in assigned, NEW b \in assigned
               PROVE  IF a[1] = b[1]
                      THEN a[2] = b[2] \/ Cardinality(Claims(a[1])) > 1
                      ELSE /\ a[2] = b[2] => groups[a[2][1]].share
                           /\ /\ Claims(a[1]) = {a[2][1]}
                              /\ Claims(b[1]) = {a[2][1]}
                              /\ groups[a[2][1]].share
                              => a[2] = b[2]
    BY <2>1 DEF SharesOneLimit
  <2>2. PICK t : \E n \in DOMAIN groups :
          Explains(n, t) /\ a = <<t, GroupID(n, t, groups[n].share)>>
    BY <1>1 DEF GroupInv, AssignedInv
  <2>3. PICK u : \E m \in DOMAIN groups :
          Explains(m, u) /\ b = <<u, GroupID(m, u, groups[m].share)>>
    BY <1>1 DEF GroupInv, AssignedInv
  <2>4. PICK n \in DOMAIN groups :
          Explains(n, t) /\ a = <<t, GroupID(n, t, groups[n].share)>>
    BY <2>2
  <2>5. PICK m \in DOMAIN groups :
          Explains(m, u) /\ b = <<u, GroupID(m, u, groups[m].share)>>
    BY <2>3
  <2>6. /\ a[1] = t /\ a[2] = GroupID(n, t, groups[n].share)
        /\ b[1] = u /\ b[2] = GroupID(m, u, groups[m].share)
    BY <2>4, <2>5
  <2>7. a[2][1] = n /\ b[2][1] = m
    BY <2>6 DEF GroupID
  <2>8. CASE t = u
    <3>1. CASE n = m
      BY <2>6, <2>8, <3>1
    <3>2. CASE n # m
      <4>1. n \in Claims(t) /\ m \in Claims(t)
        BY <2>4, <2>5, <2>8, <3>2 DEF Explains
      <4>2. Cardinality(Claims(t)) > 1
        BY <1>1, <3>2, <4>1, TwoClaims DEF GroupInv
      <4> QED
        BY <2>6, <2>8, <4>2
    <3> QED
      BY <3>1, <3>2
  <2>9. CASE t # u
    <3>1. a[2] = b[2] => groups[n].share
      <4> SUFFICES ASSUME a[2] = b[2], ~groups[n].share PROVE FALSE
        OBVIOUS
      <4>1. n = m
        BY <2>7
      <4>2. a[2] = <<n, t>> /\ b[2] = <<n, u>>
        BY <2>6, <4>1 DEF GroupID
      <4>3. <<n, t>> = <<n, u>>
        BY <4>2
      <4> QED
        BY <2>9, <4>3
    <3>2. ASSUME Claims(t) = {n}, Claims(u) = {n}, groups[n].share
          PROVE  a[2] = b[2]
      <4>1. m = n
        BY <2>5, <3>2 DEF Explains
      <4> QED
        BY <2>6, <3>2, <4>1 DEF GroupID
    <3> QED
      BY <2>6, <2>7, <2>9, <3>1, <3>2
  <2> QED
    BY <2>8, <2>9
<1> QED
  BY <1>1, GroupInitInv, GroupNextInv, PTL DEF GroupSpec

-----------------------------------------------------------------------------
(* The parsers, on any output and any command.                             *)

LEMMA SmallestIn ==
  ASSUME NEW n \in Nat, NEW S \in SUBSET (1 .. n), S # {}
  PROVE  Smallest(S) \in S /\ \A j \in S : Smallest(S) <= j
<1>1. S \in SUBSET Nat
  OBVIOUS
<1>2. PICK m \in S : \A j \in S : <<j, m>> \notin OpToRel(<, Nat)
  BY <1>1, WFMin, NatLessThanWellFounded
<1>3. \A j \in S : ~(j < m)
  BY <1>1, <1>2, Zenon DEF OpToRel
<1>4. \A j \in S : m <= j
  BY <1>1, <1>3
<1> QED
  BY <1>4 DEF Smallest

(* The outputs that ParserNext can pick.                                   *)
IsOutput(out) ==
  /\ out.lines \in Seq(Lines) /\ out.seen \in Nat
  /\ out.json = Nil \/ \A n \in DOMAIN out.json : out.json[n] \in Int

NumberOrNil == Nat \cup {Nil}

LEMMA NilFacts ==
  /\ Nil # Huge /\ Nil \notin Int /\ Huge \notin Int /\ Nil \notin Reports /\ Nil \notin Lines
  /\ Hour \in Nat /\ Hour > 0 /\ Clock \in Nat /\ MaxSeconds \in Nat /\ MaxSeconds > 0
<1>1. {Nil, Huge} \cap Int = {}
  BY ParserAssumption
<1>2. Nil \notin Int /\ Huge \notin Int
  BY <1>1
<1> QED
  BY <1>2, ParserAssumption

(* The lines that Parser looks at are the first ones of the output.        *)
LEMMA VisibleFacts ==
  ASSUME NEW out, IsOutput(out)
  PROVE  /\ Visible(out) \in Seq(Lines) /\ Len(Visible(out)) <= Len(out.lines)
         /\ \A i \in 1 .. Len(Visible(out)) : Visible(out)[i] = out.lines[i]
         /\ out.seen > Len(out.lines) => Len(Visible(out)) = Len(out.lines)
<1>1. PICK ls, n, k : /\ ls = out.lines /\ n = Len(ls)
                      /\ k = IF out.seen > n THEN n ELSE out.seen
  OBVIOUS
<1>2. ls \in Seq(Lines) /\ n \in Nat /\ out.seen \in Nat
  BY <1>1, LenProperties DEF IsOutput
<1>3. k \in 0 .. n /\ (out.seen > n => k = n)
  BY <1>1, <1>2
<1>4. PICK a, v : a = 1 /\ v = SubSeq(ls, a, k)
  OBVIOUS
<1>5. Visible(out) = v
  BY <1>1, <1>4 DEF Visible
<1>6. a \in Int /\ k \in Int /\ k - a + 1 = k /\ (a <= k <=> k # 0)
      /\ \A i \in 1 .. k : a + i - 1 = i
  BY <1>2, <1>3, <1>4
<1>7. \A i \in a .. k : ls[i] \in Lines
  BY <1>1, <1>2, <1>3, <1>4, ElementOfSeq
<1>8. /\ v \in Seq(Lines) /\ Len(v) = (IF a <= k THEN k - a + 1 ELSE 0)
      /\ \A i \in 1 .. k - a + 1 : v[i] = ls[a + i - 1]
  BY <1>2, <1>4, <1>6, <1>7, SubSeqProperties
<1>9. Len(v) = k /\ \A i \in 1 .. k : v[i] = ls[i]
  BY <1>3, <1>6, <1>8
<1> QED
  BY <1>1, <1>3, <1>5, <1>8, <1>9

(* A header is Nil or a number that a line of this name states; it is Nil  *)
(* only if no such line has digits, or too many.                           *)
LEMMA HeaderFacts ==
  ASSUME NEW ls \in Seq(Lines), NEW name
  PROVE  /\ Header(ls, name) \in NumberOrNil
         /\ Header(ls, name) # Nil =>
              \E i \in 1 .. Len(ls) : ls[i].name = name /\ ls[i].num = Header(ls, name)
         /\ Header(ls, name) = Nil =>
              \/ \A i \in 1 .. Len(ls) : ls[i].name = name => ls[i].num = Nil
              \/ \E i \in 1 .. Len(ls) : ls[i].name = name /\ ls[i].num = Huge
<1>1. PICK n, S : n = Len(ls) /\ S = {i \in DOMAIN ls : ls[i].name = name /\ ls[i].num # Nil}
  OBVIOUS
<1>2. n \in Nat /\ DOMAIN ls = 1 .. n /\ \A i \in 1 .. n : ls[i].num \in Nat \cup {Nil, Huge}
  <2>1. n \in Nat /\ DOMAIN ls = 1 .. n /\ \A i \in 1 .. n : ls[i] \in Lines
    BY <1>1, LenProperties, ElementOfSeq
  <2> QED
    BY <2>1 DEF Lines
<1>3. Header(ls, name) = IF S = {} \/ ls[Smallest(S)].num = Huge THEN Nil
                         ELSE ls[Smallest(S)].num
  BY <1>1 DEF Header
<1>4. CASE S = {}
  <2>1. Header(ls, name) = Nil
    BY <1>3, <1>4
  <2>2. \A i \in 1 .. n : ls[i].name = name => ls[i].num = Nil
    BY <1>1, <1>2, <1>4
  <2> QED
    BY <1>1, <2>1, <2>2 DEF NumberOrNil
<1>5. CASE S # {}
  <2>1. S \in SUBSET (1 .. n)
    BY <1>1, <1>2
  <2>2. PICK i : i = Smallest(S)
    OBVIOUS
  <2>3. i \in S
    BY <1>2, <1>5, <2>1, <2>2, SmallestIn
  <2>4. i \in 1 .. n /\ ls[i].name = name /\ ls[i].num \in Nat \cup {Huge}
    BY <1>1, <1>2, <2>3
  <2>5. CASE ls[i].num = Huge
    BY <1>1, <1>3, <2>2, <2>4, <2>5 DEF NumberOrNil
  <2>6. CASE ls[i].num # Huge
    <3>1. Header(ls, name) = ls[i].num /\ ls[i].num \in Nat
      BY <1>3, <1>5, <2>2, <2>4, <2>6
    <3> QED
      BY <1>1, <2>4, <3>1, NilFacts DEF NumberOrNil
  <2> QED
    BY <2>5, <2>6
<1> QED
  BY <1>4, <1>5

(* Durations.                                                              *)
LEMMA SecondsFacts ==
  ASSUME NEW n \in Int
  PROVE  Seconds(n) \in Int /\ (0 <= n /\ n < MaxSeconds => Seconds(n) = n)
<1>1. PICK m, k, r : m = 2 * MaxSeconds /\ k = n + MaxSeconds /\ r = k % m
  OBVIOUS
<1>2. m \in Nat /\ m > 0 /\ k \in Int /\ MaxSeconds \in Int
  BY <1>1, NilFacts
<1>3. r \in Int /\ Seconds(n) = r - MaxSeconds
  BY <1>1, <1>2 DEF Seconds
<1>4. ASSUME 0 <= n, n < MaxSeconds
      PROVE  r = k
  <2>1. 0 <= k /\ k < m
    BY <1>1, <1>2, <1>4
  <2> QED
    BY <1>1, <1>2, <2>1
<1> QED
  BY <1>1, <1>2, <1>3, <1>4

LEMMA UntilFacts ==
  ASSUME NEW t \in Int
  PROVE  Until(t) \in Int /\ Until(t) >= 0
BY NilFacts DEF Until

LEMMA OrHourFacts ==
  ASSUME NEW w \in Int
  PROVE  OrHour(w) \in Int /\ (w >= 0 => OrHour(w) > 0)
BY NilFacts DEF OrHour

(* The line of one of these names that states x.                           *)
Says(ls, names, x) == \E i \in 1 .. Len(ls) : ls[i].name \in names /\ ls[i].num = x

(* The number that the document has under one of these names.              *)
Holds(json, names, x) == \E n \in DOMAIN json \cap names : json[n] = x

LimitNames == {"x-ratelimit-limit", "x-rate-limit-limit"}
RetryFields == {"retry_after", "retry_after_seconds", "error.retry_after"}

LEMMA OrZeroFacts ==
  ASSUME NEW a \in Int \cup {Nil}, NEW b \in Int \cup {Nil}
  PROVE  /\ First(a, b) \in Int \cup {Nil}
         /\ OrZero(First(a, b)) \in Int
         /\ OrZero(First(a, b)) # 0 =>
              OrZero(First(a, b)) = a \/ OrZero(First(a, b)) = b
         /\ First(a, b) # Nil => First(a, b) = a \/ First(a, b) = b
BY NilFacts DEF First, OrZero

LEMMA InfoTyped ==
  ASSUME NEW src, src \in {"http_header", "json_body"},
         NEW l \in Int, NEW r \in Int, NEW w \in Int,
         NEW info, info = Info(src, l, r, w)
  PROVE  /\ info \in Reports /\ info.source = src /\ info.limit = l
         /\ info.window = w /\ info.failed = 0
BY DEF Info, Reports

(* A window of headers is usable unless their retry-after overflows.       *)
LEMMA HeaderWindowFacts ==
  ASSUME NEW reset \in Int \cup {Nil}, NEW retry \in NumberOrNil
  PROVE  /\ HeaderWindow(reset, retry) \in Int
         /\ HeaderWindow(reset, retry) > 0 \/ (retry # Nil /\ retry >= MaxSeconds)
<1>1. PICK d : d = IF reset # Nil THEN Until(reset)
                   ELSE IF retry # Nil THEN Seconds(retry) ELSE 0
  OBVIOUS
<1>2. HeaderWindow(reset, retry) = OrHour(d)
  BY <1>1 DEF HeaderWindow
<1>3. d \in Int /\ (d >= 0 \/ (retry # Nil /\ retry >= MaxSeconds))
  <2>1. CASE reset # Nil
    BY <1>1, <2>1, UntilFacts
  <2>2. CASE reset = Nil /\ retry # Nil
    <3>1. retry \in Int /\ 0 <= retry /\ d = Seconds(retry)
      BY <1>1, <2>2 DEF NumberOrNil
    <3> QED
      BY <2>2, <3>1, SecondsFacts, NilFacts
  <2>3. CASE reset = Nil /\ retry = Nil
    BY <1>1, <2>3
  <2> QED
    BY <2>1, <2>2, <2>3
<1> QED
  BY <1>2, <1>3, OrHourFacts

(* What an info of parseHTTPHeaders or parseJSONResponse says of limit and *)
(* window is in the lines, or in the document.                             *)
HeaderInfo(ls, info) ==
  /\ info \in Reports /\ info.source = "http_header" /\ info.failed = 0
  /\ info.limit # 0 => Says(ls, LimitNames, info.limit)
  /\ info.window > 0 \/ \E s \in Nat : Says(ls, {"retry-after"}, s) /\ s >= MaxSeconds

DocumentInfo(json, info) ==
  /\ info \in Reports /\ info.source = "json_body" /\ info.failed = 0
  /\ info.limit # 0 => Holds(json, {"limit", "rate_limit.limit"}, info.limit)
  /\ info.window > 0 \/ \E s \in Int : Holds(json, RetryFields, s) /\ s >= MaxSeconds

LEMMA ParseHTTPHeadersFacts ==
  ASSUME NEW ls \in Seq(Lines)
  PROVE  \/ /\ ParseHTTPHeaders(ls) = Nil
            /\ Header(ls, "x-ratelimit-limit") = Nil /\ Header(ls, "retry-after") = Nil
         \/ HeaderInfo(ls, ParseHTTPHeaders(ls))
<1>1. PICK la, lb, ra, rb, ta, tb, re :
        /\ la = Header(ls, "x-ratelimit-limit") /\ lb = Header(ls, "x-rate-limit-limit")
        /\ ra = Header(ls, "x-ratelimit-remaining")
        /\ rb = Header(ls, "x-rate-limit-remaining")
        /\ ta = Header(ls, "x-ratelimit-reset") /\ tb = Header(ls, "x-rate-limit-reset")
        /\ re = Header(ls, "retry-after")
  OBVIOUS
<1>2. PICK limit, rem, reset, window :
        /\ limit = OrZero(First(la, lb)) /\ rem = OrZero(First(ra, rb))
        /\ reset = First(ta, tb) /\ window = HeaderWindow(reset, re)
  OBVIOUS
<1>3. CASE \A n \in {"x-ratelimit-limit", "x-ratelimit-remaining",
                     "x-ratelimit-reset", "retry-after", "x-rate-limit-limit",
                     "x-rate-limit-remaining", "x-rate-limit-reset"} :
             Header(ls, n) = Nil
  BY <1>3 DEF ParseHTTPHeaders
<1>4. CASE ~ \A n \in {"x-ratelimit-limit", "x-ratelimit-remaining",
                     "x-ratelimit-reset", "retry-after", "x-rate-limit-limit",
                     "x-rate-limit-remaining", "x-rate-limit-reset"} :
             Header(ls, n) = Nil
  <2>1. ParseHTTPHeaders(ls) = Info("http_header", limit, rem, window)
    BY <1>1, <1>2, <1>4 DEF ParseHTTPHeaders
  <2>2. /\ la \in NumberOrNil /\ lb \in NumberOrNil /\ ra \in NumberOrNil
        /\ rb \in NumberOrNil /\ ta \in NumberOrNil /\ tb \in NumberOrNil
        /\ re \in NumberOrNil
    BY <1>1, HeaderFacts
  <2>3. /\ la \in Int \cup {Nil} /\ lb \in Int \cup {Nil} /\ ra \in Int \cup {Nil}
        /\ rb \in Int \cup {Nil} /\ ta \in Int \cup {Nil} /\ tb \in Int \cup {Nil}
    BY <2>2 DEF NumberOrNil
  <2>4. /\ limit \in Int /\ (limit # 0 => limit = la \/ limit = lb)
        /\ rem \in Int /\ reset \in Int \cup {Nil}
    BY <1>2, <2>3, OrZeroFacts
  <2>5. window \in Int /\ (window > 0 \/ (re # Nil /\ re >= MaxSeconds))
    BY <1>2, <2>2, <2>4, HeaderWindowFacts
  <2>61. PICK h : h = "http_header"
    OBVIOUS
  <2>62. h \in {"http_header", "json_body"}
    BY <2>61
  <2>6. PICK info : info = Info(h, limit, rem, window)
    OBVIOUS
  <2>7. /\ info \in Reports /\ info.source = h /\ info.limit = limit
        /\ info.window = window /\ info.failed = 0
    <3>1. limit \in Int /\ rem \in Int /\ window \in Int
      BY <2>4, <2>5
    <3> QED
      BY <2>6, <2>62, <3>1, InfoTyped
  <2>8. limit # 0 => Says(ls, LimitNames, limit)
    <3>1. /\ la # Nil => Says(ls, LimitNames, la)
          /\ lb # Nil => Says(ls, LimitNames, lb)
      BY <1>1, HeaderFacts DEF Says, LimitNames
    <3> QED
      BY <2>4, <3>1, NilFacts
  <2>9. re # Nil => re \in Nat /\ Says(ls, {"retry-after"}, re)
    BY <1>1, <2>2, HeaderFacts DEF Says, NumberOrNil
  <2>10. HeaderInfo(ls, info)
    BY <2>5, <2>61, <2>7, <2>8, <2>9 DEF HeaderInfo
  <2> QED
    BY <2>1, <2>6, <2>61, <2>10
<1> QED
  BY <1>3, <1>4

(* A field of a document, or Nil.                                          *)
Field(json, n) == IF n \in DOMAIN json THEN json[n] ELSE Nil

LEMMA FieldFacts ==
  ASSUME NEW json, \A n \in DOMAIN json : json[n] \in Int, NEW n, NEW names, n \in names
  PROVE  /\ Field(json, n) \in Int \cup {Nil}
         /\ Field(json, n) # Nil => Holds(json, names, Field(json, n))
BY DEF Field, Holds

LEMMA ParseJSONResponseFacts ==
  ASSUME NEW json, json # Nil, \A n \in DOMAIN json : json[n] \in Int
  PROVE  ParseJSONResponse(json) = Nil \/ DocumentInfo(json, ParseJSONResponse(json))
<1>1. PICK la, lb, ra, rb, ta, tb, tc, reset :
        /\ la = Field(json, "limit") /\ lb = Field(json, "rate_limit.limit")
        /\ ra = Field(json, "remaining") /\ rb = Field(json, "rate_limit.remaining")
        /\ ta = Field(json, "retry_after") /\ tb = Field(json, "retry_after_seconds")
        /\ tc = Field(json, "error.retry_after") /\ reset = Field(json, "rate_limit.reset")
  OBVIOUS
<1>2. PICK limit, rem, retry, d, window :
        /\ limit = OrZero(First(la, lb)) /\ rem = OrZero(First(ra, rb))
        /\ retry = OrZero(First(First(ta, tb), tc))
        /\ d = IF retry > 0 THEN Seconds(retry)
               ELSE IF reset # Nil THEN Until(reset) ELSE 0
        /\ window = OrHour(d)
  OBVIOUS
<1>3. /\ la \in Int \cup {Nil} /\ lb \in Int \cup {Nil} /\ ra \in Int \cup {Nil}
      /\ rb \in Int \cup {Nil} /\ ta \in Int \cup {Nil} /\ tb \in Int \cup {Nil}
      /\ tc \in Int \cup {Nil} /\ reset \in Int \cup {Nil}
  <2>1. \A n : Field(json, n) \in Int \cup {Nil}
    BY DEF Field
  <2> QED
    BY <1>1, <2>1
<1>4. /\ limit \in Int /\ (limit # 0 => limit = la \/ limit = lb) /\ rem \in Int
  BY <1>2, <1>3, OrZeroFacts
<1>5. /\ retry \in Int /\ (retry # 0 => retry = ta \/ retry = tb \/ retry = tc)
  <2>1. PICK f : f = First(ta, tb)
    OBVIOUS
  <2>2. f \in Int \cup {Nil} /\ (f # Nil => f = ta \/ f = tb)
    BY <1>3, <2>1, OrZeroFacts
  <2>3. retry = OrZero(First(f, tc))
    BY <1>2, <2>1
  <2>4. retry \in Int /\ (retry # 0 => retry = f \/ retry = tc)
    BY <1>3, <2>2, <2>3, OrZeroFacts
  <2> QED
    BY <2>2, <2>4, NilFacts
<1>6. window \in Int /\ (window > 0 \/ retry >= MaxSeconds)
  <2>1. d \in Int /\ (d >= 0 \/ retry >= MaxSeconds)
    <3>1. CASE retry > 0
      <4>1. d = Seconds(retry) /\ 0 <= retry
        BY <1>2, <1>5, <3>1
      <4> QED
        BY <1>5, <4>1, SecondsFacts, NilFacts
    <3>2. CASE ~(retry > 0) /\ reset # Nil
      <4>1. d = Until(reset) /\ reset \in Int
        BY <1>2, <1>3, <3>2
      <4> QED
        BY <4>1, UntilFacts
    <3>3. CASE ~(retry > 0) /\ reset = Nil
      BY <1>2, <3>3
    <3> QED
      BY <3>1, <3>2, <3>3
  <2> QED
    BY <1>2, <2>1, OrHourFacts
<1>7. limit # 0 => Holds(json, {"limit", "rate_limit.limit"}, limit)
  <2>1. PICK names : names = {"limit", "rate_limit.limit"}
    OBVIOUS
  <2>2. "limit" \in names /\ "rate_limit.limit" \in names
    BY <2>1
  <2>3. (la # Nil => Holds(json, names, la)) /\ (lb # Nil => Holds(json, names, lb))
    BY <1>1, <2>2, FieldFacts
  <2> QED
    BY <1>4, <2>1, <2>3, NilFacts
<1>8. retry # 0 => Holds(json, RetryFields, retry)
  <2>2. /\ "retry_after" \in RetryFields /\ "retry_after_seconds" \in RetryFields
        /\ "error.retry_after" \in RetryFields
    BY DEF RetryFields
  <2>3. /\ ta # Nil => Holds(json, RetryFields, ta)
        /\ tb # Nil => Holds(json, RetryFields, tb)
        /\ tc # Nil => Holds(json, RetryFields, tc)
    BY <1>1, <2>2, FieldFacts
  <2> QED
    BY <1>5, <2>3, NilFacts
<1>9. PICK h, info : h = "json_body" /\ info = Info(h, limit, rem, window)
  OBVIOUS
<1>10. DocumentInfo(json, info)
  <2>1. limit \in Int /\ rem \in Int /\ window \in Int
    BY <1>4, <1>6
  <2>2. h \in {"http_header", "json_body"} /\ info = Info(h, limit, rem, window)
    BY <1>9
  <2>3. /\ info \in Reports /\ info.source = h /\ info.limit = limit
        /\ info.window = window /\ info.failed = 0
    BY <2>1, <2>2, InfoTyped
  <2>4. window > 0 \/ \E s \in Int : Holds(json, RetryFields, s) /\ s >= MaxSeconds
    BY <1>5, <1>6, <1>8, NilFacts
  <2> QED
    BY <1>7, <1>9, <2>3, <2>4 DEF DocumentInfo
<1>11. \/ ParseJSONResponse(json) = Nil
       \/ ParseJSONResponse(json) = Info("json_body", limit, rem, window)
  BY <1>1, <1>2 DEF ParseJSONResponse, Field
<1> QED
  BY <1>9, <1>10, <1>11

(* The info of Parser: of the lines, or of the document, and that only if  *)
(* no line states a limit or a delay that can be read.                     *)
FromLines(out, info) == HeaderInfo(out.lines, info)

FromDocument(out, info) ==
  /\ out.json # Nil /\ DocumentInfo(out.json, info)
  /\ \/ \A i \in 1 .. Len(out.lines) :
          out.lines[i].name \in {"x-ratelimit-limit", "retry-after"} =>
            out.lines[i].num = Nil
     \/ Says(out.lines, {"x-ratelimit-limit", "retry-after"}, Huge)

LEMMA BaseFacts ==
  ASSUME NEW out, IsOutput(out)
  PROVE  LET info == ParseFromCommandOutput(out)
         IN  info = Nil \/ FromLines(out, info) \/ FromDocument(out, info)
<1>1. PICK v, h : v = Visible(out) /\ h = ParseHTTPHeaders(v)
  OBVIOUS
<1>2. /\ v \in Seq(Lines) /\ Len(v) \in Nat /\ Len(out.lines) \in Nat
      /\ Len(v) <= Len(out.lines)
      /\ \A i \in 1 .. Len(v) : v[i] = out.lines[i]
      /\ out.seen > Len(out.lines) => Len(v) = Len(out.lines)
  BY <1>1, VisibleFacts, LenProperties DEF IsOutput
<1>3. \A names, x : Says(v, names, x) => Says(out.lines, names, x)
  <2>1. \A i \in 1 .. Len(v) : i \in 1 .. Len(out.lines)
    BY <1>2
  <2> QED
    BY <1>2, <2>1, Zenon DEF Says
<1>4. CASE h # Nil
  <2>1. HeaderInfo(v, h)
    BY <1>1, <1>2, <1>4, ParseHTTPHeadersFacts
  <2>2. HeaderInfo(out.lines, h)
    BY <1>3, <2>1 DEF HeaderInfo
  <2>3. ParseFromCommandOutput(out) = h
    BY <1>1, <1>4 DEF ParseFromCommandOutput, First
  <2> QED
    BY <2>2, <2>3 DEF FromLines
<1>5. CASE h = Nil
  <2>1. PICK d : d = IF out.seen > Len(out.lines) /\ out.json # Nil
                     THEN ParseJSONResponse(out.json) ELSE Nil
    OBVIOUS
  <2>2. ParseFromCommandOutput(out) = d
    BY <1>1, <1>5, <2>1 DEF ParseFromCommandOutput, First
  <2>3. CASE d # Nil
    <3>1. /\ out.seen > Len(out.lines) /\ out.json # Nil
          /\ d = ParseJSONResponse(out.json)
      BY <2>1, <2>3
    <3>2. DocumentInfo(out.json, d)
      <4>1. \A n \in DOMAIN out.json : out.json[n] \in Int
        BY <3>1 DEF IsOutput
      <4> QED
        BY <2>3, <3>1, <4>1, ParseJSONResponseFacts
    <3>3. Header(v, "x-ratelimit-limit") = Nil /\ Header(v, "retry-after") = Nil
      <4>1. ~HeaderInfo(v, h)
        BY <1>5, NilFacts DEF HeaderInfo
      <4> QED
        BY <1>1, <1>2, <4>1, ParseHTTPHeadersFacts
    <3>4. Len(v) = Len(out.lines) /\ \A i \in 1 .. Len(out.lines) : v[i] = out.lines[i]
      BY <1>2, <3>1
    <3>5. ASSUME NEW name, Header(v, name) = Nil
          PROVE  \/ \A i \in 1 .. Len(out.lines) :
                      out.lines[i].name = name => out.lines[i].num = Nil
                 \/ \E i \in 1 .. Len(out.lines) :
                      out.lines[i].name = name /\ out.lines[i].num = Huge
      BY <1>2, <3>4, <3>5, HeaderFacts
    <3>6. \/ \A i \in 1 .. Len(out.lines) :
               out.lines[i].name \in {"x-ratelimit-limit", "retry-after"} =>
                 out.lines[i].num = Nil
          \/ Says(out.lines, {"x-ratelimit-limit", "retry-after"}, Huge)
      BY <3>3, <3>5 DEF Says
    <3> QED
      BY <2>2, <3>1, <3>2, <3>6 DEF FromDocument
  <2> QED
    BY <2>2, <2>3
<1> QED
  BY <1>4, <1>5

(* What the enhanced patterns see: the lines themselves, or a message that *)
(* runs on to the number of the next line and never states a window.       *)
LEMMA RunOnFacts ==
  ASSUME NEW ls \in Seq(Lines), NEW i \in 1 .. Len(ls)
  PROVE  /\ DOMAIN RunOn(ls) = 1 .. Len(ls) /\ RunOn(ls)[i] \in Lines
         /\ RunOn(ls)[i].w # Nil => RunOn(ls)[i] = ls[i]
<1>1. /\ Len(ls) \in Nat /\ DOMAIN ls = 1 .. Len(ls)
      /\ \A j \in 1 .. Len(ls) : ls[j] \in Lines
  BY LenProperties, ElementOfSeq
<1>2. PICK n, num : /\ n = Len(ls)
                    /\ num = IF i < Len(ls) THEN ls[i + 1].num ELSE Nil
  OBVIOUS
<1>3. num \in Nat \cup {Nil, Huge}
  <2>1. CASE i < n
    <3>1. i + 1 \in 1 .. n
      BY <1>1, <1>2, <2>1
    <3>2. ls[i + 1].num \in Nat \cup {Nil, Huge}
      BY <1>1, <1>2, <3>1 DEF Lines
    <3> QED
      BY <1>2, <2>1, <3>2
  <2> QED
    BY <1>2, <2>1
<1>4. DOMAIN RunOn(ls) = 1 .. Len(ls)
  BY <1>1 DEF RunOn
<1>5. RunOn(ls)[i] = IF ls[i].name = Message THEN Line(Message, num, Nil) ELSE ls[i]
  BY <1>1, <1>2 DEF RunOn
<1>6. CASE ls[i].name = Message
  <2>1. ls[i].name \in STRING
    BY <1>1 DEF Lines
  <2>2. Line(Message, num, Nil) \in Lines
    BY <1>3, <1>6, <2>1 DEF Line, Lines
  <2>3. Line(Message, num, Nil).w = Nil
    BY DEF Line
  <2> QED
    BY <1>4, <1>5, <1>6, <2>2, <2>3
<1>7. CASE ls[i].name # Message
  BY <1>1, <1>4, <1>5, <1>7
<1> QED
  BY <1>6, <1>7

(* A match has a number, perhaps one that is too large; one of the two     *)
(* policy patterns has the window of a line of the output.                 *)
LEMMA FoundFacts ==
  ASSUME NEW out, IsOutput(out), NEW pattern, Found(out, pattern) # Nil
  PROVE  /\ Found(out, pattern) \in Lines /\ Found(out, pattern).num # Nil
         /\ pattern \in {"ratelimit-policy", "ratelimit-limit"} =>
              /\ Found(out, pattern).w # Nil
              /\ \E i \in DOMAIN out.lines : out.lines[i].w = Found(out, pattern).w
<1>1. PICK ls, n, f, S : /\ ls = out.lines /\ n = Len(ls) /\ f = RunOn(ls)
                         /\ S = {i \in DOMAIN f : Accepts(pattern, f[i])}
  OBVIOUS
<1>2. ls \in Seq(Lines) /\ n \in Nat /\ DOMAIN ls = 1 .. n
  BY <1>1, LenProperties DEF IsOutput
<1>3. PICK i : i = Smallest(S)
  OBVIOUS
<1>4. S # {} /\ Found(out, pattern) = f[i]
  BY <1>1, <1>3 DEF Found
<1>5. DOMAIN f = 1 .. n
  BY <1>1, <1>2 DEF RunOn
<1>6. i \in S
  <2>1. S \in SUBSET (1 .. n)
    BY <1>1, <1>5
  <2> QED
    BY <1>2, <1>3, <1>4, <2>1, SmallestIn
<1>7. i \in 1 .. n /\ Accepts(pattern, f[i])
  BY <1>1, <1>5, <1>6
<1>8. f[i] \in Lines /\ (f[i].w # Nil => f[i] = ls[i])
  BY <1>1, <1>2, <1>7, RunOnFacts
<1>9. f[i].num # Nil
  BY <1>7, Zenon DEF Accepts
<1>10. ASSUME pattern \in {"ratelimit-policy", "ratelimit-limit"}
       PROVE  f[i].w # Nil
  <2>1. PICK l : l = f[i]
    OBVIOUS
  <2>2. Accepts(pattern, l)
    BY <1>7, <2>1
  <2>3. CASE pattern = "ratelimit-policy"
    <3>1. Accepts("ratelimit-policy", l)
      BY <2>2, <2>3
    <3> QED
      BY <2>1, <3>1 DEF Accepts
  <2>4. CASE pattern = "ratelimit-limit"
    <3>1. Accepts("ratelimit-limit", l)
      BY <2>2, <2>4
    <3> QED
      BY <2>1, <3>1 DEF Accepts
  <2> QED
    BY <1>10, <2>3, <2>4
<1> QED
  BY <1>1, <1>2, <1>4, <1>7, <1>8, <1>9, <1>10

LEMMA FirstNumberFacts ==
  ASSUME NEW out, IsOutput(out), NEW n \in Nat, NEW patterns, DOMAIN patterns = 1 .. n
  PROVE  FirstNumber(out, patterns) \in NumberOrNil
<1>1. PICK S : S = {i \in DOMAIN patterns : /\ Found(out, patterns[i]) # Nil
                                            /\ Found(out, patterns[i]).num # Huge}
  OBVIOUS
<1>2. FirstNumber(out, patterns) =
        IF S = {} THEN Nil ELSE Found(out, patterns[Smallest(S)]).num
  BY <1>1 DEF FirstNumber
<1>3. CASE S = {}
  BY <1>2, <1>3 DEF NumberOrNil
<1>4. CASE S # {}
  <2>1. PICK i, p : i = Smallest(S) /\ p = patterns[i]
    OBVIOUS
  <2>2. S \in SUBSET (1 .. n)
    BY <1>1
  <2>3. i \in S
    BY <1>4, <2>1, <2>2, SmallestIn
  <2>4. Found(out, p) # Nil /\ Found(out, p).num # Huge
    BY <1>1, <2>1, <2>3
  <2>5. Found(out, p) \in Lines /\ Found(out, p).num # Nil
    BY <2>4, FoundFacts
  <2>6. Found(out, p).num \in Nat
    BY <2>4, <2>5 DEF Lines
  <2> QED
    BY <1>2, <1>4, <2>1, <2>6 DEF NumberOrNil
<1> QED
  BY <1>3, <1>4

(* A window of EnhancedParser is usable unless a policy gives no time, or  *)
(* more than a Duration holds.                                             *)
Windowed(out, w) ==
  w > 0 \/ \E i \in DOMAIN out.lines : /\ out.lines[i].w \in Nat
                                       /\ out.lines[i].w = 0 \/ out.lines[i].w >= MaxSeconds

LEMMA PolicyWindow ==
  ASSUME NEW out, IsOutput(out), NEW pattern \in {"ratelimit-policy", "ratelimit-limit"},
         NEW win,
         win = IF Found(out, pattern) = Nil \/ Found(out, pattern).w = Huge THEN Nil
               ELSE Seconds(Found(out, pattern).w)
  PROVE  win \in Int \cup {Nil} /\ (win # Nil => Windowed(out, win))
<1>1. CASE Found(out, pattern) = Nil \/ Found(out, pattern).w = Huge
  BY <1>1
<1>2. CASE ~(Found(out, pattern) = Nil \/ Found(out, pattern).w = Huge)
  <2>1. PICK i, w : /\ i \in DOMAIN out.lines /\ w = Found(out, pattern).w
                    /\ w = out.lines[i].w /\ w # Nil
    BY <1>2, FoundFacts
  <2>2. w \in Nat
    <3>1. Found(out, pattern) \in Lines
      BY <1>2, FoundFacts
    <3> QED
      BY <1>2, <2>1, <3>1 DEF Lines
  <2>3. win = Seconds(w)
    BY <1>2, <2>1
  <2>4. win \in Int /\ (w < MaxSeconds => win = w)
    BY <2>2, <2>3, SecondsFacts
  <2>5. CASE 0 < w /\ w < MaxSeconds
    BY <2>2, <2>4, <2>5 DEF Windowed
  <2>6. CASE ~(0 < w /\ w < MaxSeconds)
    <3>1. w = 0 \/ w >= MaxSeconds
      BY <2>2, <2>6, NilFacts
    <3> QED
      BY <2>1, <2>2, <2>4, <3>1 DEF Windowed
  <2> QED
    BY <2>5, <2>6
<1> QED
  BY <1>1, <1>2

LEMMA InferRateLimitFacts ==
  ASSUME NEW out
  PROVE  InferRateLimit(out) \in Int /\ InferRateLimit(out) # 0
BY DEF InferRateLimit

(* populateFromEnhancedHeaders always gives a limit, and a window that is  *)
(* usable as far as the policies are.                                      *)
LEMMA PopulateFacts ==
  ASSUME NEW out, IsOutput(out), NEW info \in Reports
  PROVE  /\ Populate(info, out) \in Reports /\ Populate(info, out).limit # 0
         /\ Populate(info, out).source = info.source
         /\ Windowed(out, Populate(info, out).window)
<1>1. PICK policy, docker, pn, dn, pw, dw, a, r, limit :
        /\ policy = Found(out, "ratelimit-policy")
        /\ docker = Found(out, "ratelimit-limit")
        /\ pn = (IF policy = Nil \/ policy.num = Huge THEN Nil ELSE policy.num)
        /\ dn = (IF docker = Nil \/ docker.num = Huge THEN Nil ELSE docker.num)
        /\ pw = (IF policy = Nil \/ policy.w = Huge THEN Nil ELSE Seconds(policy.w))
        /\ dw = (IF docker = Nil \/ docker.w = Huge THEN Nil ELSE Seconds(docker.w))
        /\ a = FirstNumber(out, <<"x-goog-quota-limit", "x-amzn-ratelimit",
                                  "x-rate-limit", "rate-limit", "quota-limit">>)
        /\ r = FirstNumber(out, <<"x-goog-quota-remaining", "x-ms-ratelimit-remaining">>)
        /\ limit = First(a, OrZero(First(dn, pn)))
  OBVIOUS
<1>2. PICK l, rem, w, f :
        /\ l = (IF limit = 0 THEN InferRateLimit(out) ELSE limit)
        /\ rem = First(r, info.remaining)
        /\ w = First(First(dw, pw), Hour)
        /\ f = (IF "429" \in out.mentions THEN 1 ELSE info.failed)
  OBVIOUS
<1>3. Populate(info, out) =
        [info EXCEPT !.limit = l, !.remaining = rem, !.window = w, !.failed = f]
  BY <1>1, <1>2 DEF Populate
<1>4. pn \in Int \cup {Nil} /\ dn \in Int \cup {Nil}
  <2>1. ASSUME NEW p, NEW m, m = Found(out, p),
               NEW q, q = IF m = Nil \/ m.num = Huge THEN Nil ELSE m.num
        PROVE  q \in Int \cup {Nil}
    <3>1. CASE m = Nil \/ m.num = Huge
      BY <2>1, <3>1
    <3>2. CASE ~(m = Nil \/ m.num = Huge)
      <4>1. m \in Lines /\ m.num # Nil
        BY <2>1, <3>2, FoundFacts
      <4> QED
        BY <2>1, <3>2, <4>1 DEF Lines
    <3> QED
      BY <3>1, <3>2
  <2> QED
    BY <1>1, <2>1
<1>5. a \in Int \cup {Nil} /\ r \in Int \cup {Nil}
  <2>1. PICK five, two, s, t :
          /\ five = 5 /\ two = 2
          /\ s = <<"x-goog-quota-limit", "x-amzn-ratelimit",
                   "x-rate-limit", "rate-limit", "quota-limit">>
          /\ t = <<"x-goog-quota-remaining", "x-ms-ratelimit-remaining">>
    OBVIOUS
  <2>2. five \in Nat /\ two \in Nat /\ DOMAIN s = 1 .. five /\ DOMAIN t = 1 .. two
    BY <2>1
  <2>3. FirstNumber(out, s) \in NumberOrNil /\ FirstNumber(out, t) \in NumberOrNil
    BY <2>2, FirstNumberFacts
  <2>4. a \in NumberOrNil /\ r \in NumberOrNil
    BY <1>1, <2>1, <2>3
  <2> QED
    BY <2>4 DEF NumberOrNil
<1>6. limit \in Int
  BY <1>1, <1>4, <1>5, NilFacts DEF First, OrZero
<1>7. l \in Int /\ l # 0
  BY <1>2, <1>6, InferRateLimitFacts
<1>8. rem \in Int /\ f \in Int
  BY <1>2, <1>5 DEF First, Reports
<1>9. w \in Int /\ Windowed(out, w)
  <2>1. /\ pw \in Int \cup {Nil} /\ (pw # Nil => Windowed(out, pw))
        /\ dw \in Int \cup {Nil} /\ (dw # Nil => Windowed(out, dw))
    <3>1. PICK p, d : p = "ratelimit-policy" /\ d = "ratelimit-limit"
      OBVIOUS
    <3>2. /\ p \in {"ratelimit-policy", "ratelimit-limit"}
          /\ d \in {"ratelimit-policy", "ratelimit-limit"}
      BY <3>1
    <3>3. /\ pw = IF Found(out, p) = Nil \/ Found(out, p).w = Huge THEN Nil
                  ELSE Seconds(Found(out, p).w)
          /\ dw = IF Found(out, d) = Nil \/ Found(out, d).w = Huge THEN Nil
                  ELSE Seconds(Found(out, d).w)
      BY <1>1, <3>1
    <3> QED
      BY <3>2, <3>3, PolicyWindow
  <2>2. Windowed(out, Hour)
    BY NilFacts DEF Windowed
  <2> QED
    BY <1>2, <2>1, <2>2, NilFacts DEF First
<1>10. PICK e : e = [info EXCEPT !.limit = l, !.remaining = rem, !.window = w,
                                 !.failed = f]
  OBVIOUS
<1>11. /\ e \in Reports /\ e.limit = l /\ e.window = w /\ e.source = info.source
  BY <1>7, <1>8, <1>9, <1>10 DEF Reports
<1> QED
  BY <1>3, <1>7, <1>9, <1>10, <1>11

(* An info that differs from another one in the failures only.             *)
LEMMA ClearFailed ==
  ASSUME NEW info \in Reports
  PROVE  [info EXCEPT !.failed = 0] =
           [source |-> info.source, limit |-> info.limit,
            remaining |-> info.remaining, window |-> info.window, failed |-> 0]
BY DEF Reports

LEMMA FailedFacts ==
  ASSUME NEW info \in Reports, NEW e, e = [info EXCEPT !.failed = @ + 1]
  PROVE  /\ e \in Reports /\ e.limit = info.limit /\ e.window = info.window
         /\ e.source = info.source
         /\ [e EXCEPT !.failed = 0] = [info EXCEPT !.failed = 0]
<1>1. /\ e \in Reports /\ e.limit = info.limit /\ e.window = info.window
      /\ e.source = info.source /\ e.remaining = info.remaining
  BY DEF Reports
<1>2. [e EXCEPT !.failed = 0] = [info EXCEPT !.failed = 0]
  <2>1. /\ [e EXCEPT !.failed = 0] =
              [source |-> e.source, limit |-> e.limit, remaining |-> e.remaining,
               window |-> e.window, failed |-> 0]
        /\ [info EXCEPT !.failed = 0] =
              [source |-> info.source, limit |-> info.limit,
               remaining |-> info.remaining, window |-> info.window, failed |-> 0]
    BY <1>1, ClearFailed, Zenon
  <2> QED
    BY <1>1, <2>1, Zenon
<1> QED
  BY <1>1, <1>2

(* enhanceDiscoveryResult keeps the source, and everything but failed if a *)
(* limit is there.                                                         *)
LEMMA EnhanceFacts ==
  ASSUME NEW out, IsOutput(out), NEW info \in Reports
  PROVE  LET e == EnhanceDiscoveryResult(info, out)
         IN  /\ e \in Reports /\ e.source = info.source
             /\ HasEnhanced(out) => e.limit # 0
             /\ e.window = info.window \/ Windowed(out, e.window)
             /\ info.limit # 0 => [e EXCEPT !.failed = 0] = [info EXCEPT !.failed = 0]
<1>1. PICK m, e : /\ m = (IF info.limit = 0 /\ HasEnhanced(out)
                          THEN Populate(info, out) ELSE info)
                  /\ e = IF "429" \in out.mentions THEN [m EXCEPT !.failed = @ + 1] ELSE m
  OBVIOUS
<1>2. EnhanceDiscoveryResult(info, out) = e
  BY <1>1 DEF EnhanceDiscoveryResult
<1>3. /\ m \in Reports /\ m.source = info.source
      /\ HasEnhanced(out) => m.limit # 0
      /\ m.window = info.window \/ Windowed(out, m.window)
      /\ info.limit # 0 => m = info
  BY <1>1, PopulateFacts
<1>4. /\ e \in Reports /\ e.limit = m.limit /\ e.window = m.window
      /\ e.source = m.source /\ [e EXCEPT !.failed = 0] = [m EXCEPT !.failed = 0]
  BY <1>1, <1>3, FailedFacts
<1> QED
  BY <1>2, <1>3, <1>4

(* The first argument that is a URL is the resource of a curl or wget with *)
(* only options before it that take no value, and its own --url.           *)
LEMMA ExtractedURL ==
  ASSUME NEW cmd \in Commands, NEW i \in 2 .. Len(cmd),
         cmd[1] \in {"curl", "wget"}, cmd[i] \in URLs,
         \A j \in 2 .. i - 1 : /\ cmd[j] \in Flags \ Valued
                               /\ cmd[j] = "--url" => j = i - 1
  PROVE  ExtractResourceInfo(cmd) = <<cmd[i]>>
<1>1. PICK n, S, m :
        /\ n = Len(cmd) /\ m = Smallest(S)
        /\ S = {k \in 2 .. Len(cmd) :
                  \/ cmd[k] \notin Flags
                  \/ cmd[1] = "curl" /\ cmd[k] \in {"-u", "--url"} /\ k < Len(cmd)}
  <2>1. PICK n, S : /\ n = Len(cmd)
                    /\ S = {k \in 2 .. Len(cmd) :
                         \/ cmd[k] \notin Flags
                         \/ cmd[1] = "curl" /\ cmd[k] \in {"-u", "--url"} /\ k < Len(cmd)}
    OBVIOUS
  <2> QED
    BY <2>1
<1>2. n \in Nat /\ cmd \in Seq(STRING)
  BY <1>1, ParserAssumption, LenProperties
<1>3. i \in S /\ cmd[i] \notin Flags
  <2>1. cmd[i] \notin Flags
    BY ParserAssumption DEF Flags
  <2> QED
    BY <1>1, <2>1
<1>4. S \in SUBSET (1 .. n)
  BY <1>1, <1>2
<1>5. m \in S /\ m <= i
  BY <1>1, <1>2, <1>3, <1>4, SmallestIn
<1>6. m \in 2 .. n /\ i \in 2 .. n
  BY <1>1, <1>5
<1>7. ExtractURL(cmd) = IF cmd[m] \in Flags THEN cmd[m + 1] ELSE cmd[m]
  <2>1. S # {} /\ cmd[1] \notin {"http", "https"}
    BY <1>3
  <2> QED
    BY <1>1, <2>1 DEF ExtractURL
<1>8. ExtractURL(cmd) = cmd[i]
  <2>1. CASE m = i
    BY <1>3, <1>7, <2>1
  <2>2. CASE m # i
    <3>1. m \in 2 .. i - 1
      BY <1>5, <1>6, <2>2
    <3>2. cmd[m] \in Flags \ Valued /\ (cmd[m] = "--url" => m = i - 1)
      BY <3>1
    <3>3. cmd[m] \in {"-u", "--url"}
      BY <1>1, <1>5, <3>2
    <3>4. cmd[m] = "--url"
      BY <3>2, <3>3 DEF Valued
    <3>5. m + 1 = i
      BY <1>6, <3>2, <3>4
    <3> QED
      BY <1>7, <3>2, <3>5
  <2> QED
    BY <2>1, <2>2
<1>9. cmd[i] # Nil /\ cmd # <<>>
  <2>1. cmd[i] # Nil
    BY ParserAssumption
  <2>2. cmd # <<>>
    BY <1>1, <1>2, <1>6, EmptySeq
  <2> QED
    BY <2>1, <2>2
<1> QED
  BY <1>8, <1>9 DEF ExtractResourceInfo

(* Before a call there is no info; after one the infos are those of its    *)
(* output.                                                                 *)
ParserInv ==
  /\ \/ base = Nil /\ enhanced = Nil
     \/ /\ IsOutput(output) /\ base = ParseFromCommandOutput(output)
        /\ enhanced = ParseEnhanced(output)
  /\ ResourceIsTheURL

LEMMA EmptyCommand == command = <<>> => ResourceIsTheURL
<1>1. ASSUME command = <<>>
      PROVE  ResourceIsTheURL
  <2>1. PICK z : z = Len(command)
    OBVIOUS
  <2>2. z = 0
    BY <1>1, <2>1
  <2>3. 2 .. z = {}
    BY <2>2
  <2> QED
    BY <2>1, <2>3, Zenon DEF ResourceIsTheURL
<1> QED
  BY <1>1

LEMMA ParserInitInv == ParserInit => ParserInv
BY EmptyCommand DEF ParserInit, ParserInv

LEMMA ParserNextInv == ParserInv /\ [ParserNext]_parserVars => ParserInv'
<1> SUFFICES ASSUME ParserInv, [ParserNext]_parserVars
             PROVE  ParserInv'
  OBVIOUS
<1>1. ASSUME NEW text \in Texts, NEW doc \in Documents, NEW words \in Mentions,
             NEW seen \in 0 .. Len(text) + 1,
             Parse([lines |-> text, json |-> doc, seen |-> seen, mentions |-> words])
      PROVE  ParserInv'
  <2>1. PICK out : out = [lines |-> text, json |-> doc, seen |-> seen, mentions |-> words]
    OBVIOUS
  <2>2. Parse(out)
    BY <1>1, <2>1
  <2>3. IsOutput(out)
    <3>1. text \in Seq(Lines) /\ Len(text) \in Nat
      BY ParserAssumption, LenProperties
    <3>2. doc = Nil \/ \A n \in DOMAIN doc : doc[n] \in Int
      BY ParserAssumption
    <3>3. seen \in Nat
      BY <3>1
    <3>4. out.lines = text /\ out.json = doc /\ out.seen = seen
      BY <2>1
    <3> QED
      BY <3>1, <3>2, <3>3, <3>4 DEF IsOutput
  <2>4. /\ output' = out /\ base' = ParseFromCommandOutput(out)
        /\ enhanced' = ParseEnhanced(out) /\ command' = <<>>
    BY <2>2 DEF Parse
  <2>5. ResourceIsTheURL'
    <3>1. PICK z : z = Len(command')
      OBVIOUS
    <3>2. z = 0
      BY <2>4, <3>1
    <3>3. 2 .. z = {}
      BY <3>2
    <3> QED
      BY <3>1, <3>3, Zenon DEF ResourceIsTheURL
  <2> QED
    BY <2>3, <2>4, <2>5 DEF ParserInv
<1>2. ASSUME NEW cmd \in Commands, Identify(cmd)
      PROVE  ParserInv'
  <2>1. /\ command' = cmd /\ resource' = ExtractResourceInfo(cmd)
        /\ output' = output /\ base' = base /\ enhanced' = enhanced
    BY <1>2 DEF Identify
  <2>2. ResourceIsTheURL'
    BY <2>1, ExtractedURL DEF ResourceIsTheURL
  <2> QED
    BY <2>1, <2>2 DEF ParserInv
<1>3. CASE UNCHANGED parserVars
  BY <1>3 DEF parserVars, ParserInv, ResourceIsTheURL
<1> QED
  BY <1>1, <1>2, <1>3 DEF ParserNext

(* What the infos of an output say is in it.                               *)
LEMMA InfosFollowOutput ==
  ASSUME IsOutput(output), base = ParseFromCommandOutput(output),
         enhanced = ParseEnhanced(output)
  PROVE  LimitWasStated /\ WindowIsUsable /\ EnhancedOnlyAdds
<1>1. DOMAIN output.lines = 1 .. Len(output.lines)
  BY LenProperties DEF IsOutput
<1>2. base = Nil \/ FromLines(output, base) \/ FromDocument(output, base)
  BY BaseFacts
<1>3. base # Nil => base \in Reports
  BY <1>2 DEF FromLines, FromDocument, HeaderInfo, DocumentInfo
<1>4. base # Nil => enhanced = EnhanceDiscoveryResult(base, output)
  BY DEF ParseEnhanced
<1>5. \A names, x : Says(output.lines, names, x) => x \in Stated(names)
  BY <1>1, Zenon DEF Says, Stated
<1>6. \A names, x : output.json # Nil /\ Holds(output.json, names, x) => x \in InJSON(names)
  BY Zenon DEF Holds, InJSON
<1>7. LimitWasStated
  <2>1. CASE FromLines(output, base)
    <3>1. base.source = "http_header"
      BY <2>1 DEF FromLines, HeaderInfo
    <3>2. base.limit # 0 => base.limit \in Stated({"x-ratelimit-limit", "x-rate-limit-limit"})
      BY <1>5, <2>1 DEF FromLines, HeaderInfo, LimitNames
    <3> QED
      BY <3>1, <3>2 DEF LimitWasStated
  <2>2. CASE FromDocument(output, base)
    <3>1. base.source = "json_body"
      BY <2>2 DEF FromDocument, DocumentInfo
    <3>2. base.limit # 0 => base.limit \in InJSON({"limit", "rate_limit.limit"})
      BY <1>6, <2>2 DEF FromDocument, DocumentInfo
    <3>3. \/ Stated({"x-ratelimit-limit", "retry-after"}) \subseteq {Nil}
          \/ Huge \in Stated({"x-ratelimit-limit", "retry-after"})
      <4>1. CASE Says(output.lines, {"x-ratelimit-limit", "retry-after"}, Huge)
        BY <1>5, <4>1
      <4>2. CASE \A i \in 1 .. Len(output.lines) :
                   output.lines[i].name \in {"x-ratelimit-limit", "retry-after"} =>
                     output.lines[i].num = Nil
        BY <1>1, <4>2, Zenon DEF Stated
      <4> QED
        BY <2>2, <4>1, <4>2 DEF FromDocument
    <3> QED
      BY <3>1, <3>2, <3>3 DEF LimitWasStated
  <2> QED
    BY <1>2, <2>1, <2>2 DEF LimitWasStated
<1>8. base # Nil =>
        base.window > 0 \/ \E s \in Retries : s \notin {Nil, Huge} /\ s >= MaxSeconds
  <2>1. CASE FromLines(output, base)
    <3>1. \A s \in Nat : s \notin {Nil, Huge}
      BY NilFacts
    <3> QED
      BY <1>5, <2>1, <3>1 DEF FromLines, HeaderInfo, Retries
  <2>2. CASE FromDocument(output, base)
    <3>1. \A s \in Int : s \notin {Nil, Huge}
      BY NilFacts
    <3>2. output.json # Nil
      BY <2>2 DEF FromDocument
    <3> QED
      BY <1>6, <2>2, <3>1, <3>2 DEF FromDocument, DocumentInfo, RetryFields, Retries
  <2> QED
    BY <1>2, <2>1, <2>2
<1>9. \A w : Windowed(output, w) =>
        w > 0 \/ \E v \in Windows \ {Nil, Huge} : v = 0 \/ v >= MaxSeconds
  <2>1. ASSUME NEW i \in DOMAIN output.lines, output.lines[i].w \in Nat
        PROVE  output.lines[i].w \in Windows \ {Nil, Huge}
    BY <2>1, NilFacts DEF Windows
  <2> QED
    BY <2>1 DEF Windowed
<1>10. PICK none : none = Info("http_header", 0, 0, Hour)
  OBVIOUS
<1>11. none \in Reports
  <2>1. PICK h, z : h = "http_header" /\ z = 0
    OBVIOUS
  <2>2. h \in {"http_header", "json_body"} /\ z \in Int /\ Hour \in Int
        /\ none = Info(h, z, z, Hour)
    BY <1>10, <2>1, NilFacts
  <2> QED
    BY <2>2, InfoTyped
<1>12. base = Nil => \/ enhanced = Nil /\ ~HasEnhanced(output)
                     \/ enhanced = Populate(none, output)
  BY <1>10 DEF ParseEnhanced
<1>13. WindowIsUsable
  <2>1. CASE base # Nil
    <3>1. enhanced.window = base.window \/ Windowed(output, enhanced.window)
      BY <1>3, <1>4, <2>1, EnhanceFacts
    <3> QED
      BY <1>8, <1>9, <2>1, <3>1 DEF WindowIsUsable
  <2>2. CASE base = Nil
    <3>1. enhanced # Nil => Windowed(output, enhanced.window)
      BY <1>11, <1>12, <2>2, PopulateFacts
    <3> QED
      BY <1>9, <2>2, <3>1 DEF WindowIsUsable
  <2> QED
    BY <2>1, <2>2
<1>14. EnhancedOnlyAdds
  <2>1. CASE base # Nil
    <3>1. /\ enhanced \in Reports /\ enhanced.source = base.source
          /\ HasEnhanced(output) => enhanced.limit # 0
          /\ base.limit # 0 => [enhanced EXCEPT !.failed = 0] = [base EXCEPT !.failed = 0]
      BY <1>3, <1>4, <2>1, EnhanceFacts
    <3> QED
      BY <3>1, NilFacts DEF EnhancedOnlyAdds
  <2>2. CASE base = Nil
    <3>1. enhanced # Nil => enhanced.limit # 0
      BY <1>11, <1>12, <2>2, PopulateFacts
    <3> QED
      BY <2>2, <3>1 DEF EnhancedOnlyAdds
  <2> QED
    BY <2>1, <2>2
<1> QED
  BY <1>7, <1>13, <1>14

(* On every output, whatever lines, fields and words are mixed in it: a    *)
(* limit that Parser reports was stated by the source it names, and        *)
(* EnhancedParser adds to what Parser finds and changes nothing of it; the *)
(* window is positive, except when a retry or a policy is too long for a   *)
(* Duration and, with EnhancedParser, when a policy says w=0.  On every    *)
(* command: extractResourceInfo takes the URL as the key if only options   *)
(* without a value (and --url) come before it; nothing is said of commands *)
(* like "curl -X POST <url>", whose key is not the URL.                    *)
THEOREM ParsersFollowOutput == ParserSpec => []InfoFollowsOutput
<1>1. ParserInv => InfoFollowsOutput
  <2> SUFFICES ASSUME ParserInv
               PROVE  InfoFollowsOutput
    OBVIOUS
  <2>1. ResourceIsTheURL
    BY DEF ParserInv
  <2>2. CASE base = Nil /\ enhanced = Nil
    BY <2>1, <2>2 DEF InfoFollowsOutput, LimitWasStated, WindowIsUsable, EnhancedOnlyAdds
  <2>3. CASE ~(base = Nil /\ enhanced = Nil)
    BY <2>1, <2>3, InfosFollowOutput DEF ParserInv, InfoFollowsOutput
  <2> QED
    BY <2>2, <2>3
<1> QED
  BY <1>1, ParserInitInv, ParserNextInv, PTL DEF ParserSpec
=============================================================================
