---------------------------- MODULE PatternSets -----------------------------
(***************************************************************************)
(* Pattern sets (pkg/patterns/pattern_set.go) and the parsing of their     *)
(* JSON patterns (pkg/patterns/json_matcher.go): validating a set when it  *)
(* is loaded, and the loop over the set's map that looks for the best      *)
(* match.  Whether a parsed pattern matches a document is left open here:  *)
(* module JSONMatcher says it.                                             *)
(*                                                                         *)
(* A JSON value is a record [t, v]; the text of a pattern is a record of   *)
(* what parsePattern can see in it: the comparison operators it contains   *)
(* in order, its path, its value, and whether it has the multiline prefix. *)
(***************************************************************************)
EXTENDS Integers, Sequences, FiniteSets, Functions

CONSTANTS
  Texts,              \* the pattern texts
  Documents,          \* the inputs; NotJSON is one that does not parse
  SetNames,           \* names of the patterns of a set
  Priorities,         \* some of 0 (PriorityLow) to 3 (PriorityCritical)
  JSONMatches(_, _)   \* a matcher matches a document

ASSUME PatternSetsAssumption ==
  /\ Priorities \subseteq 0 .. 3 /\ "none" \notin SetNames
  /\ \A text \in Texts : /\ text.ops \in Seq({"==", "!=", "=~", ">", "<", ">=", "<="})
                         /\ text.multiline \in BOOLEAN

Null == [type |-> "null", datum |-> 0]
Num(n) == [type |-> "num", datum |-> n]
Str(s) == [type |-> "str", datum |-> s]
Arr(s) == [type |-> "arr", datum |-> s]
Obj(f) == [type |-> "obj", datum |-> f]
NotJSON == [type |-> "none", datum |-> 0]

-----------------------------------------------------------------------------
(* A path is a sequence of parts: a field, then nothing ("field"), an      *)
(* index ("at") or the wildcard ("all").                                   *)
Part(f, a, i) == [field |-> f, access |-> a, at |-> i]

(* NewJSONPatternMatcher.  parsePattern looks for the operators in the     *)
(* random order of a map and splits the text at the one it finds: every    *)
(* operator of the text is a possible outcome.  Splitting at another than  *)
(* the first one, inside the value, garbles path and value.  An expected   *)
(* value that is no string makes the type assertion for =~ panic.          *)
Garbled == Str("garbled")

Matcher(status, path, op, value) ==
  [status |-> status, path |-> path, op |-> op, value |-> value]

BadMatcher(status) == Matcher(status, <<>>, "none", Null)

ParsedAt(text, i) ==
  LET op == text.ops[i]
      value == IF i = 1 THEN text.value ELSE Garbled
      path == IF i = 1 THEN text.path ELSE <<Part("garbled", "field", 0)>>
  IN
  IF Cardinality({j \in DOMAIN text.ops : text.ops[j] = op}) # 1 \/ ~text.pathOK
  THEN BadMatcher("error")
  ELSE IF op = "=~" /\ value.type # "str" THEN BadMatcher("panic")
  ELSE Matcher("ok", path, op, value)

NewJSONPatternMatcher(text) ==
  IF text.multiline \/ text.ops = <<>> THEN {BadMatcher("error")}
  ELSE {ParsedAt(text, i) : i \in DOMAIN text.ops}

-----------------------------------------------------------------------------
VARIABLES
  patterns,           \* the set: name -> [text, priority]; <<>> before
  setPhase,           \* "new", "loaded", "error", "panic", "matching", "done"
  validated,          \* the set went through LoadPatternSetFromYAML
  input,              \* the document of the current MatchWithContext
  tried,              \* the names the loop has passed, in its order
  best,               \* the best match so far: name, or "none"
  matching,           \* observation: the names that matched
  skipped             \* observation: the names skipped as invalid

setVars == <<patterns, setPhase, validated, input, tried, best, matching,
             skipped>>

SetInit ==
  /\ patterns = <<>>
  /\ setPhase = "new"
  /\ validated = FALSE
  /\ input = NotJSON
  /\ tried = <<>>
  /\ best = "none"
  /\ matching = {}
  /\ skipped = {}

(* LoadPatternSetFromYAML and Validate: every pattern, the multiline ones  *)
(* too, has to make a JSON matcher.  The first one in the random order of  *)
(* the map that does not decides; a panic is not recovered.                *)
LoadPatternSet(ps) ==
  /\ setPhase = "new"
  /\ \E made \in [DOMAIN ps -> UNION {NewJSONPatternMatcher(ps[n].text) :
                                        n \in DOMAIN ps}] :
       /\ \A n \in DOMAIN ps : made[n] \in NewJSONPatternMatcher(ps[n].text)
       /\ setPhase' \in IF \A n \in DOMAIN ps : made[n].status = "ok"
                        THEN {"loaded"}
                        ELSE {made[n].status : n \in DOMAIN ps} \ {"ok"}
  /\ patterns' = ps
  /\ validated' = TRUE
  /\ UNCHANGED <<input, tried, best, matching, skipped>>

(* A PatternSet that the caller builds itself is not validated.            *)
BuildPatternSet(ps) ==
  /\ setPhase = "new"
  /\ patterns' = ps
  /\ setPhase' = "loaded"
  /\ UNCHANGED <<validated, input, tried, best, matching, skipped>>

StartMatch(doc) ==
  /\ setPhase = "loaded"
  /\ setPhase' = "matching"
  /\ input' = doc
  /\ UNCHANGED <<patterns, validated, tried, best, matching, skipped>>

(* Mutated Better: bestPriority starts at 0.                               *)
BetterThanLow(n) ==
  patterns[n].priority > IF best = "none" THEN 0 ELSE patterns[best].priority

(* pattern.Priority > bestPriority, which starts at -1.                    *)
Better(n) ==
  patterns[n].priority > IF best = "none" THEN -1 ELSE patterns[best].priority

(* One turn of the loop over the map: n is any name not yet passed.  The   *)
(* matchers of the multiline prefix are regular expressions on the whole   *)
(* input: text.matches says which inputs they match.                       *)
TryPattern(n) ==
  LET text == patterns[n].text IN
  /\ setPhase = "matching"
  /\ n \in DOMAIN patterns \ Range(tried)
  /\ tried' = Append(tried, n)
  /\ \E m \in IF text.multiline THEN {BadMatcher("ok")}
              ELSE NewJSONPatternMatcher(text) :
       LET hit == /\ m.status = "ok"
                  /\ IF text.multiline THEN input \in text.matches
                     ELSE JSONMatches(m, input)
       IN
       /\ setPhase' = IF m.status = "panic" THEN "panic" ELSE setPhase
       /\ skipped' = IF m.status = "ok" THEN skipped ELSE skipped \cup {n}
       /\ matching' = IF hit THEN matching \cup {n} ELSE matching
       /\ best' = IF hit /\ Better(n) THEN n ELSE best
  /\ UNCHANGED <<patterns, validated, input>>

(* The return of the best match.                                           *)
FinishMatch ==
  /\ setPhase = "matching"
  /\ Range(tried) = DOMAIN patterns
  /\ setPhase' = "done"
  /\ UNCHANGED <<patterns, validated, input, tried, best, matching, skipped>>

(* MatchResult.Pattern: it points to the loop variable, one for the whole  *)
(* loop under go 1.21, which holds the definition tried last.              *)
ResultPattern == patterns[tried[Len(tried)]]

(* All sets of at most Cardinality(SetNames) patterns.                     *)
Definitions == [text: Texts, priority: Priorities]

SetNext ==
  \/ \E ps \in [SetNames -> Definitions] : LoadPatternSet(ps) \/ BuildPatternSet(ps)
  \/ \E doc \in Documents : StartMatch(doc)
  \/ \E n \in SetNames : TryPattern(n)
  \/ FinishMatch

SetSpec == SetInit /\ [][SetNext]_setVars

-----------------------------------------------------------------------------
(* Type invariant of the set and of the loop.                              *)
SetTypeOK ==
  /\ setPhase \in {"new", "loaded", "error", "panic", "matching", "done"}
  /\ setPhase # "new" => patterns \in [SetNames -> Definitions]
  /\ input \in Documents \cup {NotJSON}
  /\ Range(tried) \subseteq SetNames
  /\ matching \subseteq Range(tried)
  /\ best \in matching \cup {"none"}

(* The match that MatchWithContext returns has the highest priority of all *)
(* patterns that match, in whatever order the map is walked, and there is  *)
(* one as soon as any pattern matches.                                     *)
BestPriorityWins ==
  setPhase = "done" =>
    /\ best = "none" <=> matching = {}
    /\ \A n \in matching : patterns[n].priority <= patterns[best].priority

(* A set that passed Validate is used as a whole: none of its patterns is  *)
(* skipped or panics later, unless its text holds several operators, for   *)
(* which each parse is a new draw.                                         *)
ValidatedIsUsed ==
  validated /\ tried # <<>> =>
    /\ \A n \in skipped : Len(patterns[n].text.ops) > 1
    /\ setPhase = "panic" => Len(patterns[tried[Len(tried)]].text.ops) > 1

(* MatchWithContext answers as its patterns say: the best of what matches  *)
(* is returned, and nothing that Validate let through is left out.         *)
BestMatchReturned ==
  SetTypeOK /\ BestPriorityWins /\ ValidatedIsUsed

(* "If this is a higher priority match, or first match, use it": the       *)
(* definition in the returned MatchResult is that of the best match, the   *)
(* one its PatternName names.  It is violated: Pattern points to the loop  *)
(* variable, and another pattern was tried after the best match.           *)
ResultIsBestMatch ==
  setPhase = "done" /\ best # "none" => ResultPattern = patterns[best]
=============================================================================
