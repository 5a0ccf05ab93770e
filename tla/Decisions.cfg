\* Durations that overflow; two clients and two resources, with a retry exactly
\* one window later and requests that live as long as the window; small sets of
\* patterns, texts and responses.
CONSTANTS
  MaxInt = 2047
  RandDen = 3
  Second = 4
  Bases <- MCBases
  Mults <- MCMults
  Hour = 240
  Maxes <- MCMaxes
  Caps = {0, 48}
  Rates = {1, 2}
  RateDen = 2
  Windows = {2, 4}
  Outputs <- MCOutputs
  PlainAttempts = 14
  LearningAttempts = 6
  RateLimit = 1
  Window = 2
  RetryOffsets <- OneRetry
  Clients = {c1, c2}
  Resources = {r1, r2}
  Ids = {i1, i2}
  Lifetime = 2
  MaxProbes = 1
  MaxTime = 2
  Texts <- MCTexts
  Documents <- MCDocuments
  RegexMatches <- MCRegexMatches
  JSONMatches <- MatchJSON
  SetNames = {"p", "q"}
  Priorities = {0, 2}
  Symbols = {"a", "b"}
  Literals <- MCLiterals
  Chunks <- MCChunks
  MaxBuffer = 6
  MaxText = 11
  Callers = {c1, c2}
  Responses <- MCResponses
  StatusPatternMatches <- MatchesStatusPattern
  MaxCalls = 3
  Attempts = {0, 2}
SYMMETRY Symmetry
SPECIFICATION MCSpec
CHECK_DEADLOCK FALSE
INVARIANTS
  WaitWithinBounds
  WaitFollowsLastOutput
  IdsUnique
  LiveBookingsKept
  OrderlyBookingsKeepLimit
  BestMatchReturned
  MatchIsExistential
  FindsWhatIsThere
  AnswersSuitResponses
PROPERTIES
  WaitsNeverShrink
  LearnsWhatHappened
  FreeStaysFree
  CleanupInvisible
