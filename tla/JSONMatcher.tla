---------------------------- MODULE JSONMatcher -----------------------------
(***************************************************************************)
(* JSONPatternMatcher (pkg/patterns/json_matcher.go): following the path   *)
(* of a pattern through a document and comparing what it leads to, against *)
(* a definition of what a pattern means.                                   *)
(***************************************************************************)
EXTENDS PatternSets

CONSTANT RegexMatches       \* pairs <<string, expression>> that match

-----------------------------------------------------------------------------
NotFound == [found |-> FALSE, value |-> Null]
FoundValue(v) == [found |-> TRUE, value |-> v]

(* navigateToField.                                                        *)
navigateToField(v, f) ==
  IF v.type = "obj" /\ f \in DOMAIN v.datum THEN FoundValue(v.datum[f]) ELSE NotFound

(* Mutated CollectFound: the wildcard takes the first element only.        *)
CollectFirst(results) ==
  IF results = <<>> \/ ~Head(results).found THEN NotFound
  ELSE FoundValue(Arr(<<Head(results).value>>))

(* The values found behind a wildcard; none at all means not found.        *)
CollectFound(results) ==
  LET hits == SelectSeq(results, LAMBDA r : r.found) IN
  IF hits = <<>> THEN NotFound
  ELSE FoundValue(Arr([i \in DOMAIN hits |-> hits[i].value]))

(* extractValueRecursive.                                                  *)
RECURSIVE extractValue(_, _)
extractValue(v, path) ==
  IF path = <<>> THEN FoundValue(v)
  ELSE
  LET part == Head(path)
      rest == Tail(path)
      here == IF part.field = "" THEN FoundValue(v)
              ELSE navigateToField(v, part.field)
      arr == here.value
  IN
  CASE ~here.found -> NotFound
    [] here.found /\ part.access = "field" -> extractValue(here.value, rest)
    [] here.found /\ part.access # "field" /\ arr.type # "arr" -> NotFound
    [] here.found /\ part.access = "all" /\ arr.type = "arr" ->
         IF rest = <<>> THEN FoundValue(arr)
         ELSE CollectFound([i \in DOMAIN arr.datum |->
                              extractValue(arr.datum[i], rest)])
    [] here.found /\ part.access = "at" /\ arr.type = "arr" ->
         IF part.at \in 0 .. Len(arr.datum) - 1
         THEN extractValue(arr.datum[part.at + 1], rest) ELSE NotFound

(* compareEqual: an array equals what one of its elements equals.          *)
RECURSIVE compareEqual(_, _)
compareEqual(actual, expected) ==
  IF actual.type = "arr"
  THEN \E i \in DOMAIN actual.datum : compareEqual(actual.datum[i], expected)
  ELSE actual.type = expected.type /\ actual.datum = expected.datum

(* compareNumeric: false unless both are numbers.                          *)
compareNumeric(actual, expected, op) ==
  /\ actual.type = "num" /\ expected.type = "num"
  /\ CASE op = ">"  -> actual.datum > expected.datum
       [] op = "<"  -> actual.datum < expected.datum
       [] op = ">=" -> actual.datum >= expected.datum
       [] op = "<=" -> actual.datum <= expected.datum

(* compareRegex, with the expression compiled by parsePattern.             *)
compareRegex(actual, expected) ==
  actual.type = "str" /\ <<actual.datum, expected.datum>> \in RegexMatches

compareValues(op, actual, expected) ==
  CASE op = "==" -> compareEqual(actual, expected)
    [] op = "!=" -> ~compareEqual(actual, expected)
    [] op = "=~" -> compareRegex(actual, expected)
    [] OTHER -> compareNumeric(actual, expected, op)

-----------------------------------------------------------------------------
(* JSONPatternMatcher.MatchWithContext without a context.                  *)
MatchJSON(m, doc) ==
  LET e == extractValue(doc, m.path) IN
  doc.type # "none" /\ e.found /\ compareValues(m.op, e.value, m.value)

(* The JSON pattern that HTTPPatternMatcher has for a status, and the body *)
(* of a response as it sees it; the path $.* is a field of the name "*".   *)
BodyDocument(r) ==
  CASE r.body = "empty" -> NotJSON
    [] r.body = "star" -> Obj([f \in {"*"} |-> Str("x")])
    [] OTHER -> Obj([f \in {"error"} |-> Str("x")])

StatusMatcher == Matcher("ok", <<Part("*", "field", 0)>>, "!=", Null)

MatchesStatusPattern(r) == MatchJSON(StatusMatcher, BodyDocument(r))

-----------------------------------------------------------------------------
(* The nodes a path leads to, every wildcard followed to all elements.     *)
RECURSIVE Reach(_, _)
Reach(v, path) ==
  IF path = <<>> THEN {v}
  ELSE
  LET part == Head(path)
      base == IF part.field = "" THEN {v}
              ELSE {navigateToField(v, part.field).value :
                      f \in {part.field} \cap (IF v.type = "obj" THEN DOMAIN v.datum ELSE {})}
  IN UNION {CASE part.access = "field" -> Reach(b, Tail(path))
              [] part.access = "at" ->
                   UNION {Reach(b.datum[i], Tail(path)) :
                            i \in {part.at + 1} \cap (IF b.type = "arr" THEN DOMAIN b.datum ELSE {})}
              [] part.access = "all" ->
                   UNION {Reach(b.datum[i], Tail(path)) :
                            i \in IF b.type = "arr" THEN DOMAIN b.datum ELSE {}} :
            b \in base}

HasWildcard(path) == \E i \in DOMAIN path : path[i].access = "all"

(* A JSON pattern with == matches when some node its path leads to has the *)
(* value, wildcards included, and with != only when none has; the other    *)
(* operators, if the path has no wildcard, match when the node it leads to *)
(* compares so (extractValueRecursive, compareValues).                     *)
MatchIsExistential ==
  setPhase = "done" =>
    \A n \in DOMAIN patterns \ skipped :
      LET text == patterns[n].text
          nodes == IF input.type = "none" THEN {} ELSE Reach(input, text.path)
          equal == \E v \in nodes : compareEqual(v, text.value)
      IN
      ~text.multiline /\ Len(text.ops) = 1 =>
        CASE text.ops[1] = "==" -> n \in matching <=> equal
          [] text.ops[1] = "!=" -> n \in matching => ~equal
          [] OTHER ->
               ~HasWildcard(text.path) =>
                 (n \in matching <=>
                    \E v \in nodes : compareValues(text.ops[1], v, text.value))

(* "Docker registry is unavailable" (predefined/docker.yaml) and           *)
(* "Container image pull error" (predefined/kubernetes.yaml) are patterns  *)
(* with =~ behind a wildcard: such a pattern, and one with < or >, matches *)
(* when some node its path leads to compares so.  It is violated:          *)
(* extractValueRecursive returns the nodes as an array, which compareRegex *)
(* and compareNumeric refuse.                                              *)
WildcardComparesEach ==
  setPhase = "done" =>
    \A n \in DOMAIN patterns \ skipped :
      LET text == patterns[n].text
          nodes == IF input.type = "none" THEN {} ELSE Reach(input, text.path)
      IN
      (/\ ~text.multiline /\ Len(text.ops) = 1
       /\ text.ops[1] \in {"=~", ">", "<", ">=", "<="})
      => (n \in matching <=>
            \E v \in nodes : compareValues(text.ops[1], v, text.value))
=============================================================================
