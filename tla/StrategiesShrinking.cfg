\* README.md:144 and the help of exponential.
CONSTANTS
  MaxInt = 2047
  RandDen = 3
  Second = 4
  Bases <- MCBases
  Mults <- MCMults
  Hour = 240
  Maxes <- MCMaxes
  Caps = {0, 48}
  Rates = {1, 2}
  RateDen = 2
  Windows = {2, 4}
  Outputs <- MCOutputs
  PlainAttempts = 14
  LearningAttempts = 6
SPECIFICATION Spec
CHECK_DEADLOCK FALSE
INVARIANT ExponentialIncreases
