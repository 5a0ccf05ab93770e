---------------------------- MODULE HTTPRouting -----------------------------
(***************************************************************************)
(* HTTP responses and the strategies chosen for them: the pattern matcher  *)
(* (pkg/patterns/http_pattern_matcher.go), the selector with its cache     *)
(* (pkg/backoff/http_aware_selector.go) and the delays that                *)
(* HTTPAwareAdaptiveBackoff makes of the choice                            *)
(* (pkg/backoff/http_aware_adaptive.go), with several goroutines on one    *)
(* object.  The cache has a lock, the metrics of the matcher and the       *)
(* fields currentAttempt and lastResponse have none.                       *)
(*                                                                         *)
(* A response is a record: status; url, the service its URL names or       *)
(* "none"; headers, the set of headers it has; contentType; throttling,    *)
(* that X-Amzn-ErrorType says so; retryAfter and resetAfter, the seconds   *)
(* of Retry-After and X-Rate-Limit-Reset (-1: not a number); body.         *)
(***************************************************************************)
EXTENDS Integers, FiniteSets

CONSTANTS
  Callers,            \* goroutines
  Responses,          \* the responses
  StatusPatternMatches(_),   \* whether the JSON pattern of the status routes
                             \* matches a response
  MaxCalls,           \* bound: calls altogether
  Attempts            \* values given to Delay

ASSUME RoutingAssumption ==
  /\ IsFiniteSet(Callers)
  /\ \A r \in Responses : /\ r.status \in Nat
                          /\ r.retryAfter \in Nat \cup {-1}
                          /\ StatusPatternMatches(r) \in BOOLEAN
  /\ MaxCalls \in Nat /\ Attempts \subseteq Nat

Apis == {"github", "aws", "k8s", "generic"}
Routed == {"X-RateLimit-Limit", "X-GitHub-Media-Type", "X-Amzn-ErrorType"}

(* HTTPPatternConfig: which of the routes are on; the selector always      *)
(* takes the default, all of them and a default pattern.                   *)
RouteConfigs == [header: BOOLEAN, api: BOOLEAN, status: BOOLEAN, default: BOOLEAN]
DefaultHTTPPatternConfig ==
  [header |-> TRUE, api |-> TRUE, status |-> TRUE, default |-> TRUE]

-----------------------------------------------------------------------------
(* DetectAPI: the URL first, then the headers, then the body.              *)
DetectAPI(r) ==
  CASE r.url \in {"github", "aws", "k8s"} -> r.url
    [] r.url \notin {"github", "aws", "k8s"}
       /\ "X-GitHub-Media-Type" \in r.headers -> "github"
    [] r.url \notin {"github", "aws", "k8s"}
       /\ "X-GitHub-Media-Type" \notin r.headers
       /\ r.headers \cap {"X-Amzn-ErrorType", "X-Amzn-RequestId"} # {} -> "aws"
    [] OTHER -> IF r.body = "k8s" THEN "k8s" ELSE "generic"

(* getPatternTypeFromStatus.                                               *)
PatternType(status) ==
  CASE status \in 200 .. 299 -> "success"
    [] status \in {401, 403} -> "auth_error"
    [] status = 429 -> "rate_limit"
    [] status \in (400 .. 499) \ {401, 403, 429} -> "client_error"
    [] status >= 500 -> "server_error"
    [] OTHER -> "unknown"

(* What the Content-Type route asks of type, body and status.              *)
ContentTypeRoutes(r) ==
  /\ "Content-Type" \in r.headers
  /\ \/ r.contentType \in {"json", "xml"} /\ r.body = "error"
     \/ r.contentType = "html" /\ (r.body = "error" \/ r.status >= 400)

HeaderRoutes(r) ==
  (r.headers \cap Routed)
  \cup (IF ContentTypeRoutes(r) THEN {"Content-Type"} ELSE {})

(* The statuses that have a pattern of their own.                           *)
StatusPatterns == {200, 400, 401, 403, 404, 429, 500, 502, 503}

(* matchPattern: any content matches any named pattern.                    *)
matchPattern(r) == r.body # "empty"

(* The routes that MatchHTTPResponse may take; of several headers in the   *)
(* configuration the one that comes first in the order of the map.         *)
Routes(config, r) ==
  LET byHeader == IF config.header THEN HeaderRoutes(r) ELSE {}
      byApi == config.api /\ matchPattern(r)
      byStatus == /\ config.status /\ r.status \in StatusPatterns
                  /\ StatusPatternMatches(r)
      byDefault == config.default /\ matchPattern(r)
  IN
  IF byHeader # {} THEN byHeader
  ELSE IF byApi THEN {"api"}
  ELSE IF byStatus THEN {"status"}
  ELSE IF byDefault THEN {"default"}
  ELSE {"none"}

(* extractContextFromResponse: Context["retry_after"] is the header's text. *)
HeaderContext(r) ==
  IF "Retry-After" \in r.headers THEN [kind |-> "string", seconds |-> r.retryAfter]
  ELSE [kind |-> "absent", seconds |-> -1]

(* setRetryStrategy replaces it by a number for responses with rate limit  *)
(* headers and for status 429, except AWS throttling.                      *)
RetryAfterContext(r) ==
  LET limited == \/ "X-RateLimit-Limit" \in r.headers
                 \/ r.status = 429 /\ ~r.throttling
      asked == "Retry-After" \in r.headers
      reset == ~asked /\ "X-Rate-Limit-Reset" \in r.headers
  IN
  CASE limited /\ asked /\ r.retryAfter >= 0 ->
         [kind |-> "number", seconds |-> r.retryAfter]
    [] limited /\ reset /\ r.resetAfter >= 0 ->
         [kind |-> "number", seconds |-> r.resetAfter]
    [] OTHER -> HeaderContext(r)

(* MatchHTTPResponse: the possible results.                                *)
MatchHTTPResponse(config, r) ==
  {[matched |-> route # "none",
    route |-> route,
    type |-> IF route = "none" THEN "" ELSE
             IF route = "default" THEN "default" ELSE PatternType(r.status),
    api |-> IF config.api THEN DetectAPI(r) ELSE "unknown",
    retryAfter |-> IF route = "none" THEN [kind |-> "absent", seconds |-> -1]
                   ELSE RetryAfterContext(r)] :
     route \in Routes(config, r)}

(* GetBackoffRecommendation: strategy and initial delay in seconds.  Only  *)
(* a string is taken for the delay of a rate limit.                        *)
GetBackoffRecommendation(m) ==
  CASE m.matched /\ m.type = "rate_limit" ->
         [strategy |-> "fixed",
          delay |-> IF m.retryAfter.kind = "string" /\ m.retryAfter.seconds >= 0
                    THEN m.retryAfter.seconds ELSE 60]
    [] m.matched /\ m.type \in {"server_error", "default", "unknown"} ->
         [strategy |-> "exponential", delay |-> 1]
    [] OTHER -> [strategy |-> "none", delay |-> 0]

-----------------------------------------------------------------------------
(* selectStrategyFromResult: type of strategy and base delay (-1: none).   *)
Recommendation(type, base) == [type |-> type, base |-> base]
NoAnswer == Recommendation("none", -1)

Recommend(m) ==
  CASE m.api = "github" ->
         Recommendation("diophantine",
           IF m.retryAfter.kind = "number" THEN m.retryAfter.seconds ELSE -1)
    [] m.api = "aws" -> Recommendation("polynomial", -1)
    [] m.api = "k8s" -> Recommendation("exponential", 1)
    [] OTHER -> Recommendation("adaptive", -1)

(* Mutated CacheKey: the URL is left out.                                  *)
CacheKeyNoURL(r) ==
  [status |-> r.status, contentType |-> r.contentType, throttling |-> r.throttling,
   headers |-> r.headers \cap (Routed \cup {"Content-Type"})]

(* generateCacheKey: neither the body nor Retry-After is part of it.       *)
CacheKey(r) ==
  [status |-> r.status, url |-> r.url, contentType |-> r.contentType,
   throttling |-> r.throttling,
   headers |-> r.headers \cap (Routed \cup {"Content-Type"})]

(* applyHTTPAwareStrategy, in tenths of a second: the jitter of 20% to     *)
(* either side; pow(x, n) is 1 for n < 1.  The fallback is NewExponential  *)
(* with 1s, 2 and 30s.                                                     *)
Pow(b, n) == IF n < 1 THEN 1 ELSE b ^ n
Jittered(d) == (d - d \div 5) .. (d + d \div 5)

applyStrategy(rec, attempt) ==
  LET n == IF attempt = 0 THEN 1 ELSE attempt
      fallback == IF attempt <= 0 THEN 10 ELSE 10 * 2 ^ (attempt - 1)
  IN
  CASE rec.type = "diophantine" ->
         {(IF rec.base >= 0 THEN 10 * rec.base ELSE 600) * n}
    [] rec.type = "polynomial" -> Jittered(10 * ((3 * Pow(n, 2)) \div 2))
    [] rec.type = "exponential" -> Jittered(10 * rec.base * Pow(2, attempt - 1))
    [] OTHER -> {IF fallback > 300 THEN 300 ELSE fallback}

-----------------------------------------------------------------------------
VARIABLES
  strategyCache,      \* key -> recommendation
  metrics,            \* of the matcher: total, found, failed
  currentAttempt, lastResponse,   \* fields of HTTPAwareAdaptiveBackoff
  caller,             \* per goroutine: where it is and what it holds
  calls,              \* calls made so far
  seen,               \* observation: responses that were matched
  overlapped          \* observation: two calls were in the matcher at once

routeVars == <<strategyCache, metrics, currentAttempt, lastResponse, caller,
               calls, seen, overlapped>>

NoResponse == [status |-> 0]
Idle(answer, delay) ==
  [pc |-> "idle", response |-> NoResponse, read |-> <<>>, answer |-> answer,
   delay |-> delay]

RouteInit ==
  /\ strategyCache = <<>>
  /\ metrics = [total |-> 0, found |-> 0, failed |-> 0]
  /\ currentAttempt = 0
  /\ lastResponse = NoResponse
  /\ caller = [c \in Callers |-> Idle(NoAnswer, -1)]
  /\ calls = 0
  /\ seen = {}
  /\ overlapped = FALSE

Begin(c, r) ==
  caller' = [caller EXCEPT ![c] = [@ EXCEPT !.pc = "lookup", !.response = r,
                                            !.answer = NoAnswer, !.delay = -1]]

(* NextDelayWithHTTPContext(r).                                            *)
NextDelay(c, r) ==
  /\ caller[c].pc = "idle" /\ calls < MaxCalls
  /\ calls' = calls + 1
  /\ lastResponse' = r
  /\ Begin(c, r)
  /\ UNCHANGED <<strategyCache, metrics, currentAttempt, seen, overlapped>>

(* Delay(n): the last response again, the fallback as long as there is     *)
(* none.                                                                   *)
DelayCall(c, n) ==
  /\ caller[c].pc = "idle" /\ calls < MaxCalls
  /\ calls' = calls + 1
  /\ currentAttempt' = n
  /\ IF lastResponse # NoResponse THEN Begin(c, lastResponse)
     ELSE \E d \in applyStrategy(Recommendation("adaptive", -1), n) :
            caller' = [caller EXCEPT ![c] = Idle(NoAnswer, d)]
  /\ UNCHANGED <<strategyCache, metrics, lastResponse, seen, overlapped>>

(* applyHTTPAwareStrategy reads currentAttempt again, whoever wrote it.    *)
Apply(c, rec) ==
  \E d \in applyStrategy(rec, currentAttempt) :
    caller' = [caller EXCEPT ![c] = [@ EXCEPT !.pc = "idle", !.answer = rec,
                                              !.delay = d, !.read = <<>>]]

(* SelectStrategy under the read lock: a cached answer ends the call.      *)
Lookup(c) ==
  LET k == CacheKey(caller[c].response) IN
  /\ caller[c].pc = "lookup"
  /\ \/ k \in DOMAIN strategyCache /\ Apply(c, strategyCache[k])
     \/ /\ k \notin DOMAIN strategyCache
        /\ caller' = [caller EXCEPT ![c] = [@ EXCEPT !.pc = "matching",
                                                     !.read = metrics]]
  /\ UNCHANGED <<strategyCache, metrics, currentAttempt, lastResponse, calls,
                 seen, overlapped>>

(* The unsynchronised counters: each write is based on what was read at    *)
(* the start of the match or on what is there now.                         *)
Counted(read, now, matched) ==
  {[total |-> t, found |-> f, failed |-> x] :
     t \in {read.total + 1, now.total + 1},
     f \in IF matched THEN {read.found + 1, now.found + 1} ELSE {now.found},
     x \in IF matched THEN {now.failed} ELSE {read.failed + 1, now.failed + 1}}

(* MatchHTTPResponse and selectStrategyFromResult, outside the lock.       *)
Match(c) ==
  /\ caller[c].pc = "matching"
  /\ seen' = seen \cup {caller[c].response}
  /\ overlapped' = (overlapped \/ \E d \in Callers \ {c} : caller[d].pc = "matching")
  /\ \E m \in MatchHTTPResponse(DefaultHTTPPatternConfig, caller[c].response) :
       /\ metrics' \in Counted(caller[c].read, metrics, m.matched)
       /\ caller' = [caller EXCEPT ![c] = [@ EXCEPT !.pc = "storing",
                                                    !.answer = Recommend(m)]]
  /\ UNCHANGED <<strategyCache, currentAttempt, lastResponse, calls>>

(* Under the write lock: the last of several concurrent answers stays.     *)
Store(c) ==
  LET k == CacheKey(caller[c].response) IN
  /\ caller[c].pc = "storing"
  /\ strategyCache' = [x \in DOMAIN strategyCache \cup {k} |->
                         IF x = k THEN caller[c].answer ELSE strategyCache[x]]
  /\ Apply(c, caller[c].answer)
  /\ UNCHANGED <<metrics, currentAttempt, lastResponse, calls, seen, overlapped>>

RouteNext ==
  \E c \in Callers :
    \/ \E r \in Responses : NextDelay(c, r)
    \/ \E n \in Attempts : DelayCall(c, n)
    \/ Lookup(c)
    \/ Match(c)
    \/ Store(c)

RouteSpec == RouteInit /\ [][RouteNext]_routeVars

-----------------------------------------------------------------------------
(* Type invariant of the shared object and of the calls.                   *)
RouteTypeOK ==
  /\ \A c \in Callers : caller[c].pc \in {"idle", "lookup", "matching", "storing"}
  /\ \A k \in DOMAIN strategyCache : strategyCache[k].type \in
       {"diophantine", "polynomial", "exponential", "adaptive"}
  /\ lastResponse \in Responses \cup {NoResponse}
  /\ seen \subseteq Responses
  /\ metrics.total <= calls

Answered(c) == caller[c].pc = "idle" /\ caller[c].answer # NoAnswer

(* Whatever the cache holds and whoever filled it, a response whose API    *)
(* the URL or a header of the cache key tells gets the strategy of that    *)
(* API; only bodies and X-Amzn-RequestId can bring in another one          *)
(* (SelectStrategy, DetectAPI, generateCacheKey).                          *)
StrategySuitsAPI ==
  \A c \in Callers :
    LET r == caller[c].response IN
    Answered(c) /\ (\/ r.url \in {"github", "aws", "k8s"}
                    \/ r.headers \cap {"X-GitHub-Media-Type", "X-Amzn-ErrorType"} # {})
    => \A m \in MatchHTTPResponse(DefaultHTTPPatternConfig, r) :
         caller[c].answer.type = Recommend(m).type

(* A rate limited response of GitHub.                                      *)
AsksToWait(r) ==
  r.url = "github" /\ {"X-RateLimit-Limit", "Retry-After"} \subseteq r.headers

(* A rate limited GitHub response waits at least as long as it asks for,   *)
(* whatever the attempt, as long as no other response with its cache key   *)
(* has been matched: generateCacheKey leaves Retry-After out, so that the  *)
(* cache may hold that one's answer, with a shorter wait.                  *)
WaitsAsLongAsAsked ==
  \A c \in Callers :
    LET r == caller[c].response IN
    (/\ Answered(c) /\ AsksToWait(r)
     /\ \A s \in seen : CacheKey(s) = CacheKey(r) => s = r)
    => caller[c].delay >= 10 * r.retryAfter

(* The counters of the matcher lose updates when calls overlap; otherwise  *)
(* every match is counted once, as a success or as a failure               *)
(* (MatchHTTPResponse).                                                    *)
MetricsExactIfSerial ==
  (/\ ~overlapped
   /\ \A c \in Callers : caller[c].pc # "matching")
  => metrics.total = metrics.found + metrics.failed

(* GetBackoffRecommendation retries a matched response exactly if its      *)
(* status is 429, a server error or no status class at all, whatever the   *)
(* route; success, authentication and client errors are never retried, and *)
(* under the other configurations only the default pattern retries them.   *)
RetriesOnlyTransient ==
  \A r \in seen : \A config \in RouteConfigs :
    \A m \in MatchHTTPResponse(config, r) :
      m.matched /\ m.route # "default" =>
        (GetBackoffRecommendation(m).strategy # "none"
         <=> r.status = 429 \/ r.status >= 500 \/ r.status < 200
             \/ r.status \in 300 .. 399)

(* Concurrent callers of the selector, which share the cache, the attempt  *)
(* and the last response: a response whose API the URL or a header of the  *)
(* cache key tells gets the strategy of that API; a rate limited GitHub    *)
(* response waits as long as it asks for unless another response with the  *)
(* same cache key was matched; what will not change is not retried outside *)
(* the default route; and no match goes uncounted unless two overlap.      *)
AnswersSuitResponses ==
  /\ RouteTypeOK
  /\ StrategySuitsAPI
  /\ WaitsAsLongAsAsked
  /\ RetriesOnlyTransient
  /\ MetricsExactIfSerial
=============================================================================
