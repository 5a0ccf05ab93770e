\* pattern_set.go:242.
CONSTANTS
  Texts <- MCTexts
  Documents <- MCDocuments
  RegexMatches <- MCRegexMatches
  JSONMatches <- MatchJSON
  SetNames = {"p", "q"}
  Priorities = {0, 2}
SPECIFICATION SetSpec
CHECK_DEADLOCK FALSE
INVARIANT ResultIsBestMatch
