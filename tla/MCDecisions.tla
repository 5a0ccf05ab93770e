---------------------------- MODULE MCDecisions ----------------------------
(* One session with a part of what decides about the next attempt, whether *)
(* there is one and when: a strategy in a run of patience, clients of the  *)
(* request scheduler, a pattern set, a streaming matcher, or the HTTP      *)
(* selector with concurrent callers.                                       *)
EXTENDS MCStrategies, MCScheduler, MCPatternSets, HTTPRouting, Streaming

VARIABLE session

rest == <<setVars, streamVars, routeVars, session>>
allVars == <<vars, schedulerVars, rest>>

MCChunks == {<<"a">>, <<"b", "a">>, <<"a", "b">>}
MCLiterals == {<<"a", "a", "b">>, <<"b", "b", "a", "b">>, <<"a", "b", "a", "a", "b", "a">>}

Response(status, url, headers, ra, body) ==
  [status |-> status, url |-> url, headers |-> headers, contentType |-> "json",
   throttling |-> "X-Amzn-ErrorType" \in headers, retryAfter |-> ra,
   resetAfter |-> 7, body |-> body]

Limit == "X-RateLimit-Limit"
MCResponses ==
  {Response(429, "github", {Limit, "Retry-After"}, 90, "error"),
   Response(429, "github", {Limit, "Retry-After"}, 5, "error"),
   Response(403, "none", {"Content-Type"}, 0, "error"),
   Response(503, "none", {}, 0, "k8s"),
   Response(503, "none", {}, 0, "empty"),
   Response(503, "k8s", {}, 0, "plain"),
   Response(429, "other", {"X-Amzn-ErrorType", "Retry-After"}, 3, "plain"),
   Response(429, "github", {"X-Rate-Limit-Reset"}, 0, "star")}

MCInit ==
  /\ session \in {"strategy", "scheduler", "set", "stream", "http"}
  /\ Init /\ SchedulerInit /\ SetInit /\ StreamInit /\ RouteInit
  /\ session # "strategy" => plan = CHOOSE p \in Plans : TRUE

MCNext ==
  \/ session = "strategy" /\ Next /\ UNCHANGED <<schedulerVars, rest>>
  \/ session = "scheduler" /\ SchedulerNext /\ UNCHANGED <<vars, rest>>
  \/ /\ session = "set" /\ SetNext
     /\ UNCHANGED <<vars, schedulerVars, streamVars, routeVars, session>>
  \/ /\ session = "stream" /\ StreamNext
     /\ UNCHANGED <<vars, schedulerVars, setVars, routeVars, session>>
  \/ /\ session = "http" /\ RouteNext
     /\ UNCHANGED <<vars, schedulerVars, setVars, streamVars, session>>

MCSpec == MCInit /\ [][MCNext]_allVars
=============================================================================
