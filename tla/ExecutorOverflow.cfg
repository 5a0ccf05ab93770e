\* README.md:544.
CONSTANTS
  MaxAttempts = 1
  ExitCodes <- SomeExitCodes
  DelayValues = {1}
SPECIFICATION ExecutorSpec
INVARIANT ExitMatchesCommand
