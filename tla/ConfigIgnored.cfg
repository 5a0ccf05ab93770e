\* README.md:423 and Development-Guidelines.md:87.
SPECIFICATION ConfigSpec
CONSTANTS
  Day = 100
  FileRaws <- MCFileRaws
  EnvRaws <- MCEnvRaws
  FlagValues <- MCFlagValues
  DaemonRaws <- MCDaemonRaws
  DaemonFlagValues <- MCDaemonFlagValues
  FileSize = 2
  EnvSize = 1
  FlagSize = 1
  Strings <- MCStrings
  BadPatterns = {"("}
CHECK_DEADLOCK FALSE
INVARIANTS
  EnvironmentApplies
