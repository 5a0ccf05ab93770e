\* Two workers and a channel of four, which five connections can overfill;
\* more stores than fit, and time for several cleanups.
CONSTANTS
  Conns = {c1, c2, c3, c4, c5}
  NumWorkers = 2
  Stoppers = {s1}
  MaxStarts = 1
  NoConn = NoConn
  Silent = {c1, c2, c3}
  MaxSize = 2
  MaxAge = 3
  CleanupInterval = 2
  HourLength = 2
  RunMetrics <- SomeRuns
  MaxTime = 6
  MaxStores = 5
SPECIFICATION MCSpec
CHECK_DEADLOCK FALSE
INVARIANTS
  SingleOwner
  StoredExactlyOnce
  NoWorkerOutlivesStop
  KeepsNewest
  StatsAgree
PROPERTIES
  StopTerminates
  AcceptedIsHandled
  PromiseKept
  CleanupEnforcesLimits
