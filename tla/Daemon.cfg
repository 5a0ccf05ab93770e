\* Two processes; one of them may be a program that uses the package.
CONSTANTS
  Instances = {i1, i2}
  NoFile = NoFile
  Embedders = {i1}
SPECIFICATION MCSpec
CHECK_DEADLOCK FALSE
INVARIANTS
  SerialStartsAreExclusive
PROPERTIES
  OnlyRacesFailStart
  ShutdownCompletes
