\* One client more than the server admits, both kinds of server; every
\* combination of options, up to four attempts, a strategy that returns zero
\* or a positive delay; commands that need not end by themselves, and may
\* ignore SIGTERM.
CONSTANTS
  Clients = {c1, c2}
  MaxConnections = 1
  NoClient = NoClient
  Kinds = {"UnixServer", "patienced"}
  MaxAttempts = 4
  ExitCodes <- SomeExitCodes
  DelayValues = {0, 1}
SPECIFICATION MCSpec
INVARIANTS
  ConnectionsAccounted
  AttemptsAccounted
  StopsAtDecision
  ReportedTimeoutsHappened
PROPERTIES
  NoReplyAfterStop
  EveryClientRuns
  StopReturns
  TimeoutEndsRun
