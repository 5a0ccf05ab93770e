\* Architecture.md:237-239.
CONSTANTS
  MaxAttempts = 2
  ExitCodes <- SomeExitCodes
  DelayValues = {1}
SPECIFICATION ExecutorSpec
INVARIANT EachReasonIsItsOwn
