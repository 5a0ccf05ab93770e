\* service.go:190 and :197, with one process.
CONSTANTS
  Procs = {p1}
  Resources = {r1}
  Limits = {3}
  Fallback = 5
  Counts = {7}
  HalfObservations = 10
  MaxAge = 7
  Waits = {4, 8}
  MaxTime = 8
  MaxCalls = 2
  NoRow = NoRow
SPECIFICATION Spec
CHECK_DEADLOCK FALSE
PROPERTY ClearedIsDisabled
