---------------------------- MODULE MCKnowledge ----------------------------
(* One session with a part of how patience comes to know its settings and  *)
(* limits: loading the configuration, the shared database of discovery     *)
(* with a few processes and calls, the parsers on one output, or the       *)
(* resource groups.                                                        *)
EXTENDS MCConfig, Discovery, LimitParser, ResourceGroups, TLC

VARIABLE session

allVars == <<vars, parserVars, groupVars, configVars, session>>

Symmetry == Permutations(Procs) \cup Permutations(Resources)

MCLines ==
  {Line("x-ratelimit-limit", 60, 0), Line("x-ratelimit-limit", Huge, Nil),
   Line("x-ratelimit-limit", Nil, Nil), Line("x-ratelimit-remaining", 3, Nil),
   Line("x-ratelimit-reset", Clock - 1, Nil),
   Line("x-ratelimit-reset", Clock + 5, Nil),
   Line("x-rate-limit-limit", 20, Nil), Line("x-rate-limit-remaining", 7, Nil),
   Line("ratelimit-policy", 100, 60), Line("ratelimit-policy", 0, Huge),
   Line("x-goog-quota-limit", 0, Nil), Line("throttle-limit", 5, Nil)} \cup
  {Line("retry-after", n, Nil) : n \in {0, 3, MaxSeconds + 500, 2 * MaxSeconds}}

JSON(n, v) == [k \in {n} |-> v]
MCDocs ==
  {Nil, JSON("limit", -5), JSON("remaining", 2), JSON("retry_after", 30),
   JSON("error.retry_after", MaxSeconds + 1),
   [k \in {"rate_limit.limit", "rate_limit.reset", "retry_after_seconds"} |->
      IF k = "rate_limit.limit" THEN 8
      ELSE IF k = "rate_limit.reset" THEN Clock - 1 ELSE 0]}

MCTexts == {<<>>} \cup {<<l>> : l \in MCLines} \cup {<<k, l>> : k, l \in MCLines}
           \cup {<<Line(Message, Nil, Nil), l>> : l \in MCLines}

MCMentions == {{}, {"429", "github"}}

MCURLs == {"u1", "u2"}
MCCommands ==
  {<<>>, <<"kubectl", "get">>, <<"http", "u1">>, <<"http">>, <<"wget", "-s">>} \cup
  UNION {{<<tool, u>>, <<tool, "-s", u>>, <<tool, u, "-X", "POST">>,
          <<tool, "-X", "POST", u>>, <<tool, "-u", "user:pass", u>>,
          <<tool, "-s", "--url", u>>, <<tool, "--url">>} :
           tool \in {"curl", "wget"}, u \in MCURLs}

MCGroup(n, matches, share, p) == [name |-> n, group |-> Group(matches, share, p)]
MCNewGroups ==
  {MCGroup("Custom", {"other", "aws"}, TRUE, 7),
   MCGroup(Default, {"gcp"}, FALSE, 1),
   MCGroup("GraphQL_Endpoints", {"graphql_under_api_v4", "k8s_pods"}, TRUE, 3),
   [MCGroup("Custom", {}, TRUE, 9) EXCEPT !.group.valid = FALSE]}

MCInit ==
  /\ session \in {"config", "database", "parser", "groups"}
  /\ Init /\ ParserInit /\ GroupInit /\ ConfigInit
  /\ session # "config" => args.cmd = "patienced" /\ args.flags = Nothing

MCNext ==
  \/ /\ session = "config" /\ ConfigNext
     /\ UNCHANGED <<vars, parserVars, groupVars, session>>
  \/ /\ session = "database" /\ Next
     /\ UNCHANGED <<parserVars, groupVars, configVars, session>>
  \/ /\ session = "parser" /\ ParserNext
     /\ UNCHANGED <<vars, groupVars, configVars, session>>
  \/ /\ session = "groups" /\ GroupNext
     /\ UNCHANGED <<vars, parserVars, configVars, session>>

MCSpec == MCInit /\ [][MCNext]_allVars
=============================================================================
