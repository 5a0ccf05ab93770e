\* examples.md:7 and :50: a window longer than requests live.
CONSTANTS
  RateLimit = 1
  Window = 3
  RetryOffsets <- NoRetry
  Clients = {c1}
  Resources = {r1}
  Ids = {i1, i2}
  Lifetime = 2
  MaxProbes = 1
  MaxTime = 2
SPECIFICATION SchedulerSpec
INVARIANT BookingsKeepLimit
