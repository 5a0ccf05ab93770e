------------------------------- MODULE Storage -------------------------------
(***************************************************************************)
(* MetricsStorage (pkg/storage/storage.go): the metrics of past runs, in   *)
(* memory, behind one RWMutex.  Every method is one critical section;      *)
(* workers store while the HTTP handlers read.  Time is in units of which  *)
(* an hour has HourLength.                                                 *)
(***************************************************************************)
EXTENDS Integers, Sequences, FiniteSets

CONSTANTS
  MaxSize, MaxAge,       \* maxSize and maxAge
  CleanupInterval,       \* 5 minutes
  HourLength,            \* an hour, for the hourly breakdown
  RunMetrics,            \* the RunMetrics that clients send: command, success,
                         \* duration, attempts
  MaxTime, MaxStores     \* bounds: the clock, and calls of Store

ASSUME StorageAssumption ==
  /\ MaxSize \in Nat /\ MaxAge \in Nat \ {0}
  /\ CleanupInterval \in Nat
  /\ HourLength \in Nat \ {0}
  /\ MaxTime \in Nat /\ MaxStores \in Nat
  /\ \A m \in RunMetrics :
       m.success \in BOOLEAN /\ m.duration \in Nat /\ m.attempts \in Nat

VARIABLES
  now,            \* time.Now()
  metrics,        \* s.metrics: StoredMetrics, with their Timestamp
  lastCleanup,    \* s.lastCleanup
  history         \* observation: all that was stored since the last Clear

storageVars == <<now, metrics, lastCleanup, history>>

StoredMetric(t, m) == [ts |-> t, run |-> m]

-----------------------------------------------------------------------------
(* Mutated Trim: the newest are dropped instead of the oldest.             *)
TrimNewest(ms) == IF Len(ms) > MaxSize THEN SubSeq(ms, 1, MaxSize) ELSE ms

(* Mutated Trim: off by one.                                               *)
TrimTooFew(ms) == IF Len(ms) > MaxSize + 1
                  THEN SubSeq(ms, Len(ms) - MaxSize, Len(ms)) ELSE ms

(* The slice that is left when there are more than maxSize.                *)
Trim(ms) == IF Len(ms) > MaxSize
            THEN SubSeq(ms, Len(ms) - MaxSize + 1, Len(ms)) ELSE ms

(* The loops that append to a new slice the metrics that are wanted: here  *)
(* those with a number in S.                                               *)
Collect(ms, S) ==
  LET kept[i \in 0 .. Len(ms)] ==
        IF i = 0 THEN <<>>
        ELSE IF i \in S THEN Append(kept[i - 1], ms[i]) ELSE kept[i - 1]
  IN  kept[Len(ms)]

(* The metrics younger than maxAge.                                        *)
KeepYoung(ms) == Collect(ms, {i \in DOMAIN ms : ms[i].ts > now - MaxAge})

CleanupDue == now - lastCleanup >= CleanupInterval

-----------------------------------------------------------------------------
StorageInit ==
  /\ now = 0
  /\ metrics = <<>>
  /\ lastCleanup = now
  /\ history = <<>>

Tick ==
  /\ now < MaxTime
  /\ now' = now + 1
  /\ UNCHANGED <<metrics, lastCleanup, history>>

(* Store: append, then cleanupIfNeeded.                                    *)
Store(m) ==
  LET appended == Append(metrics, StoredMetric(now, m))
  IN
  /\ Len(history) < MaxStores
  /\ history' = Append(history, StoredMetric(now, m))
  /\ \/ /\ ~CleanupDue
        /\ metrics' = appended
        /\ UNCHANGED lastCleanup
     \/ /\ CleanupDue
        /\ metrics' = Trim(KeepYoung(appended))
        /\ lastCleanup' = now
  /\ UNCHANGED now

Clear ==
  /\ metrics' = <<>>
  /\ history' = <<>>
  /\ UNCHANGED <<now, lastCleanup>>

StorageNext == Tick \/ Clear \/ \E m \in RunMetrics : Store(m)

StorageSpec == StorageInit /\ [][StorageNext]_storageVars

-----------------------------------------------------------------------------
(* GetRecent: the last limit metrics, all of them for a limit that is not  *)
(* positive or too large.                                                  *)
GetRecent(ms, limit) ==
  LET n == IF limit <= 0 \/ limit > Len(ms) THEN Len(ms) ELSE limit
  IN  SubSeq(ms, Len(ms) - n + 1, Len(ms))

(* GetByTimeRange and getMetricsInRange: both ends are exclusive.          *)
GetByTimeRange(ms, start, end) ==
  Collect(ms, {i \in DOMAIN ms : start < ms[i].ts /\ ms[i].ts < end})

(* Rates are floating point in the code; here fractions <<n, d>>, computed *)
(* by the same recurrences.                                                *)
FirstRate(success) == IF success THEN <<1, 1>> ELSE <<0, 1>>

(* Mutated NextRate: the old rate is weighted with the new count.          *)
NextRateNewCount(rate, count, success) ==
  IF success THEN <<rate[1] * count + rate[2], rate[2] * count>>
             ELSE <<rate[1] * count, rate[2] * count>>

(* The rate after the count-th run.                                        *)
NextRate(rate, count, success) ==
  IF success THEN <<rate[1] * (count - 1) + rate[2], rate[2] * count>>
             ELSE <<rate[1] * (count - 1), rate[2] * count>>

(* AvgDuration: integer division, which rounds down every time.            *)
NextAverage(avg, count, d) == (avg * (count - 1) + d) \div count

EmptyStats == [total |-> 0, successful |-> 0, failed |-> 0, duration |-> 0,
               attempts |-> 0, commands |-> <<>>, hours |-> <<>>]

CountCommand(commands, m) ==
  IF m.command \in DOMAIN commands
  THEN LET old == commands[m.command]
           n == old.count + 1
       IN  [commands EXCEPT ![m.command] =
              [count |-> n, rate |-> NextRate(old.rate, n, m.success),
               avg |-> NextAverage(old.avg, n, m.duration)]]
  ELSE [c \in DOMAIN commands \cup {m.command} |->
          IF c = m.command
          THEN [count |-> 1, rate |-> FirstRate(m.success), avg |-> m.duration]
          ELSE commands[c]]

CountHour(hours, s) ==
  LET h == s.ts \div HourLength
  IN  IF h \in DOMAIN hours
      THEN LET n == hours[h].count + 1
           IN  [hours EXCEPT ![h] =
                  [count |-> n, rate |-> NextRate(@.rate, n, s.run.success)]]
      ELSE [k \in DOMAIN hours \cup {h} |->
              IF k = h THEN [count |-> 1, rate |-> FirstRate(s.run.success)]
              ELSE hours[k]]

(* One turn of the loop of GetAggregatedStats.                             *)
CountRun(stats, s) ==
  [total |-> stats.total + 1,
   successful |-> stats.successful + (IF s.run.success THEN 1 ELSE 0),
   failed |-> stats.failed + (IF s.run.success THEN 0 ELSE 1),
   duration |-> stats.duration + s.run.duration,
   attempts |-> stats.attempts + s.run.attempts,
   commands |-> CountCommand(stats.commands, s.run),
   hours |-> CountHour(stats.hours, s)]

(* The loop over the metrics in range.                                     *)
CountRuns(ms) ==
  LET stats[i \in 0 .. Len(ms)] ==
        IF i = 0 THEN EmptyStats ELSE CountRun(stats[i - 1], ms[i])
  IN  stats[Len(ms)]

(* GetAggregatedStats up to the derived values.                            *)
AggregatedStats(ms, start, end) == CountRuns(GetByTimeRange(ms, start, end))

-----------------------------------------------------------------------------
StorageTypeOK ==
  /\ now \in 0 .. MaxTime
  /\ metrics \in Seq([ts: 0 .. MaxTime, run: RunMetrics])
  /\ lastCleanup \in 0 .. now
  /\ history \in Seq([ts: 0 .. MaxTime, run: RunMetrics])

(* Storage holds the newest metrics, in the order they came: whatever      *)
(* cleanups by age and by size went before, nothing is missing between     *)
(* what is kept, and GetRecent(n) are the n last runs stored.  A metric    *)
(* younger than maxAge is dropped only because there were too many: then   *)
(* at least maxSize newer ones are still there.                            *)
KeepsNewest ==
  /\ StorageTypeOK
  /\ Len(metrics) <= Len(history)
  /\ \A n \in 1 .. Len(metrics) :
       GetRecent(metrics, n)
         = SubSeq(history, Len(history) - n + 1, Len(history))
  /\ \A i \in 1 .. Len(history) - Len(metrics) :
       history[i].ts > now - MaxAge => Len(metrics) >= MaxSize

(* Between cleanups storage may grow, but right after one it is within     *)
(* both limits.                                                            *)
CleanupEnforcesLimits ==
  [][lastCleanup' # lastCleanup =>
       /\ Len(metrics') <= MaxSize
       /\ \A i \in 1 .. Len(metrics') : metrics'[i].ts > now - MaxAge]_storageVars

(* The range a query of the HTTP server asks for: the last hours.          *)
Ranges == {<<now - k * HourLength, now>> : k \in 1 .. 2}

InRange(g) == {i \in DOMAIN metrics : g[1] < metrics[i].ts /\ metrics[i].ts < g[2]}
Of(c, S) == {i \in S : metrics[i].run.command = c}
In(h, S) == {i \in S : metrics[i].ts \div HourLength = h}
Good(S) == {i \in S : metrics[i].run.success}

(* The time that the runs S took together.                                 *)
TotalDuration(S) ==
  LET total[i \in 0 .. Len(metrics)] ==
        IF i = 0 THEN 0
        ELSE total[i - 1] + (IF i \in S THEN metrics[i].run.duration ELSE 0)
  IN  total[Len(metrics)]

(* The rate <<n, d>> is the share of successes among the runs S.           *)
IsRate(rate, S) == rate[1] * Cardinality(S) = Cardinality(Good(S)) * rate[2]

(* AvgDuration rounds down at every run, and the errors add up: after n    *)
(* runs it is below the true average by at most (n - 1) / 2 nanoseconds.   *)
DriftBounded(command, S) ==
  LET n == command.count
      lost == TotalDuration(S) - n * command.avg
  IN  0 <= lost /\ 2 * lost <= n * (n - 1)

(* GetAggregatedStats counts every run of the range once, in the totals,   *)
(* in its command and in its hour; and the rates that it updates run by    *)
(* run are the true shares of successes; the averages drift within bounds. *)
StatsAgree ==
  \A g \in Ranges :
    LET stats == AggregatedStats(metrics, g[1], g[2])
        S == InRange(g)
    IN
    /\ stats.total = Cardinality(S)
    /\ stats.successful = Cardinality(Good(S))
    /\ stats.failed = stats.total - stats.successful
    /\ \A i \in S : /\ metrics[i].run.command \in DOMAIN stats.commands
                    /\ metrics[i].ts \div HourLength \in DOMAIN stats.hours
    /\ \A c \in DOMAIN stats.commands :
         /\ stats.commands[c].count = Cardinality(Of(c, S))
         /\ IsRate(stats.commands[c].rate, Of(c, S))
         /\ DriftBounded(stats.commands[c], Of(c, S))
    /\ \A h \in DOMAIN stats.hours :
         /\ stats.hours[h].count = Cardinality(In(h, S))
         /\ IsRate(stats.hours[h].rate, In(h, S))
=============================================================================
