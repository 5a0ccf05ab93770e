--------------------------- MODULE MCPatternSets ---------------------------
(* Small JSON documents, and pattern texts with each kind of operator and  *)
(* path, that TLC makes pattern sets of.                                   *)
EXTENDS JSONMatcher

F(f) == Part(f, "field", 0)
Text(ops, path, value) ==
  [ops |-> ops, path |-> path, pathOK |-> TRUE, value |-> value,
   multiline |-> FALSE, matches |-> {}]

Doc(status, codes) ==
  Obj([f \in {"status", "errors"} |->
         IF f = "status" THEN Str(status)
         ELSE Arr([i \in DOMAIN codes |->
                     Obj([g \in {"code", "message"} |->
                            IF g = "code" THEN Num(codes[i])
                            ELSE Str("registry unavailable")])])])

MCDocuments == {NotJSON, Obj([f \in {"msg"} |-> Str("a > b")]),
                Doc("ok", <<>>), Doc("bad", <<2, 5>>), Doc("ok", <<5>>)}

MCTexts ==
  {Text(<<"==">>, <<F("status")>>, Str("ok")),
   Text(<<"=~">>, <<F("status")>>, Str("o.")),
   Text(<<"=~">>, <<F("status")>>, Num(5)),
   Text(<<"==">>, <<Part("errors", "all", 0), F("code")>>, Num(5)),
   Text(<<">">>, <<Part("errors", "all", 0), F("code")>>, Num(3)),
   Text(<<"=~">>, <<Part("errors", "all", 0), F("message")>>, Str("registry.*unavailable")),
   Text(<<"<=">>, <<Part("errors", "at", 0), F("code")>>, Num(3)),
   Text(<<"!=">>, <<Part("errors", "all", 0)>>, Null),
   Text(<<"==", ">">>, <<F("msg")>>, Str("a > b")),
   [Text(<<"==">>, <<F("status")>>, Str("ok")) EXCEPT !.pathOK = FALSE],
   [Text(<<>>, <<>>, Null) EXCEPT !.multiline = TRUE, !.matches = {NotJSON}]}

MCRegexMatches == {<<"ok", "o.">>, <<"registry unavailable", "registry.*unavailable">>}
=============================================================================
