\* Two processes and two resources of one host; days on which nothing is seen,
\* and enough of them to expire.  Two settings in a file, one variable, one flag.
CONSTANTS
  Procs = {p1, p2}
  Resources = {r1, r2}
  Limits = {0, 3}
  Fallback = 5
  Counts = {7}
  HalfObservations = 10
  MaxAge = 7
  Waits = {4, 8}
  MaxTime = 8
  MaxCalls = 2
  NoRow = NoRow
  Texts <- MCTexts
  Documents <- MCDocs
  Mentions <- MCMentions
  Commands <- MCCommands
  URLs <- MCURLs
  Clock = 100
  Hour = 360
  MaxSeconds = 1000
  Huge = Huge
  Nil = Nil
  NewGroups <- MCNewGroups
  MaxChanges = 2
  MaxAsked = 2
  Day = 100
  FileRaws <- MCFileRaws
  EnvRaws <- MCEnvRaws
  FlagValues <- MCFlagValues
  DaemonRaws <- MCDaemonRaws
  DaemonFlagValues <- MCDaemonFlagValues
  FileSize = 2
  EnvSize = 1
  FlagSize = 1
  Strings <- MCStrings
  BadPatterns = {"("}
SYMMETRY Symmetry
SPECIFICATION MCSpec
CHECK_DEADLOCK FALSE
INVARIANTS
  Provenance
  InfoFollowsOutput
  SharesOneLimit
  HighestLayerDecides
  DebugNamesSupplier
PROPERTIES
  FreshRowsStand
  ObservationsCounted
