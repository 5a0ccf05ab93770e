\* docker.yaml:58 and kubernetes.yaml:24.
CONSTANTS
  Texts <- MCTexts
  Documents <- MCDocuments
  RegexMatches <- MCRegexMatches
  JSONMatches <- MatchJSON
  SetNames = {"p", "q"}
  Priorities = {0, 2}
SPECIFICATION SetSpec
CHECK_DEADLOCK FALSE
INVARIANT WildcardComparesEach
