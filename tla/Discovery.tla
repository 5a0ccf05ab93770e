------------------------------ MODULE Discovery ------------------------------
(***************************************************************************)
(* Discovered rate limits (pkg/discovery: service.go, learner.go, types.go *)
(* and database.go): what processes that share the SQLite database make of *)
(* the outputs of their commands, and the limit that a Diophantine         *)
(* strategy takes from there (pkg/backoff/diophantine_discovery.go).       *)
(* SaveRateLimitInfo reads the stored row, decides in the process, and     *)
(* writes in a second statement; the updates after a success or a 429 read *)
(* once more before that.  A step here is one SQL statement with the       *)
(* computation that follows it.                                            *)
(*                                                                         *)
(* All resources have the same host and path.  Confidence, floating point  *)
(* in the code, is a fraction <<n, d>>.  Time counts in days.  The rows of *)
(* learning_data are not kept: what the learner infers from them is any    *)
(* estimate that its own rules allow.                                      *)
(***************************************************************************)
EXTENDS Naturals, FiniteSets

CONSTANTS
  Procs,            \* processes with a discovery.Service
  Resources,        \* resource_id: the key of a row
  Limits,           \* limits that outputs and users state; 0: none stated
  Fallback,         \* fallbackRateLimit of the strategies
  Counts,           \* requests the learner may find in a window
  HalfObservations, \* 10: observations that give half of the confidence
  MaxAge,           \* 30: days after which cleanup deletes a row
  Waits,            \* bound: numbers of days that may pass at once
  MaxTime,          \* bound: the clock
  MaxCalls,         \* bound: calls of the service
  NoRow             \* sql.ErrNoRows

ASSUME DiscoveryAssumption ==
  /\ Limits \subseteq Nat
  /\ Fallback \in Nat \ {0}
  /\ Counts \subseteq Nat
  /\ HalfObservations \in Nat \ {0}
  /\ MaxAge \in Nat
  /\ Waits \subseteq Nat \ {0}
  /\ MaxTime \in Nat
  /\ MaxCalls \in Nat

VARIABLES
  now,          \* the day
  row,          \* row[r]: the row of rate_limits with this key, or NoRow
  proc,         \* proc[p]: where p is in its call
  rateLimit,    \* rateLimit[p]: the limit of p's Diophantine strategy
  calls,        \* how many calls of the service were made
  reported      \* observation: <<resource, source, limit>> ever stated

vars == <<now, row, proc, rateLimit, calls, reported>>

Sources == {"http_header", "json_body", "learned", "manual"}

-----------------------------------------------------------------------------
(* getSourcePriority.                                                      *)
Priority == [manual |-> 4, http_header |-> 3, json_body |-> 2, learned |-> 1]

(* Ten times the base confidence of ConfidenceScore.                       *)
BaseConfidence == [manual |-> 10, http_header |-> 9, json_body |-> 8,
                   learned |-> 6]

Greater(x, y) == x[1] * y[2] > y[1] * x[2]

Times(x, y) == <<x[1] * y[1], x[2] * y[2]>>

(* ConfidenceScore: source, observations, success rate, recency.           *)
ConfidenceScore(info) ==
  LET total == info.succ + info.fail
      age == now - info.seen
      observations == <<info.obs, info.obs + HalfObservations>>
      success == IF total = 0 THEN <<1, 1>> ELSE <<total + info.succ, 2 * total>>
      recency == IF age > 1 THEN <<7, 7 + age>> ELSE <<1, 1>>
  IN  Times(Times(<<BaseConfidence[info.source], 10>>, observations),
            Times(success, recency))

IsExpired(info) == now - info.seen > 7

(* Mutated ShouldUpdate: the latest report wins.                           *)
ShouldUpdateLatest(old, new) ==
  \/ Greater(ConfidenceScore(new), ConfidenceScore(old))
  \/ IsExpired(old)
  \/ new.seen >= old.seen

ShouldUpdate(old, new) ==
  \/ Greater(ConfidenceScore(new), ConfidenceScore(old))
  \/ IsExpired(old)
  \/ Priority[new.source] > Priority[old.source]

(* What parser and user hand over: one observation, seen now.              *)
NewInfo(source, limit) ==
  [source |-> source, limit |-> limit, obs |-> 1, succ |-> 0, fail |-> 0,
   seen |-> now, conf |-> <<0, 1>>]

Scored(info) == [info EXCEPT !.conf = ConfidenceScore(info)]

(* analyzeWindowPattern and calculateLearningConfidence, for n successes   *)
(* and k 429s in a window: 20 percent more than what went through.         *)
LearningConfidence(n, k) ==
  IF n < 2 THEN <<0, 1>>
  ELSE <<4 * (IF n + k > 10 THEN 10 ELSE n + k), 100>>

LearnedInfo(n, k) ==
  [NewInfo("learned", (6 * n + 4) \div 5) EXCEPT
     !.succ = n, !.fail = 1, !.conf = LearningConfidence(n, k)]

-----------------------------------------------------------------------------
Idle == [pc |-> "idle"]

Init ==
  /\ now = 0
  /\ row = [r \in Resources |-> NoRow]
  /\ proc = [p \in Procs |-> Idle]
  /\ rateLimit = [p \in Procs |-> Fallback]
  /\ calls = 0
  /\ reported = {}

Goto(p, s) == proc' = [proc EXCEPT ![p] = s]

(* Call SaveRateLimitInfo with info for the row key; then do what follows. *)
(* read: an observation, the states in which p has read that row so far.   *)
Save(p, key, info, then, read) ==
  Goto(p, [pc |-> "check", key |-> key, info |-> info, then |-> then,
           read |-> read])

(* What is left of ProcessCommandOutput, for the response code.            *)
Learn(r, code) == [pc |-> "learn", res |-> r, code |-> code]
Update(r, code) ==
  IF code \in {"ok", "429"} THEN [pc |-> "update", res |-> r, code |-> code]
  ELSE Idle

Call(p) ==
  /\ proc[p] = Idle
  /\ calls < MaxCalls
  /\ calls' = calls + 1

(* ProcessCommandOutput, the parser: it may find a limit in headers or in  *)
(* JSON, and the code is below 400, 429 or another.  The strategy takes    *)
(* over at once what was found, however little it is trusted.              *)
ProcessCommandOutput(p, r, code) ==
  /\ Call(p)
  /\ \/ \E source \in {"http_header", "json_body"}, limit \in Limits :
          /\ reported' = reported \cup {<<r, source, limit>>}
          /\ Save(p, r, Scored(NewInfo(source, limit)), Learn(r, code), {})
          /\ rateLimit' = [rateLimit EXCEPT ![p] = limit]
     \/ Goto(p, Learn(r, code)) /\ UNCHANGED <<rateLimit, reported>>
  /\ UNCHANGED <<now, row>>

(* ForceLearnRateLimit.                                                    *)
ForceLearnRateLimit(p, r, limit) ==
  /\ Call(p)
  /\ reported' = reported \cup {<<r, "manual", limit>>}
  /\ Save(p, r, [NewInfo("manual", limit) EXCEPT !.conf = <<1, 1>>], Idle, {})
  /\ UNCHANGED <<now, row, rateLimit>>

(* ClearRateLimitInfo: an error without a row; else the row is saved again *)
(* with confidence 0.                                                      *)
ClearRateLimitInfo(p, r) ==
  /\ Call(p)
  /\ \/ row[r] = NoRow /\ UNCHANGED proc
     \/ /\ row[r] # NoRow
        /\ Save(p, r, [row[r] EXCEPT !.conf = <<0, 1>>, !.seen = now], Idle,
                {row[r]})
  /\ UNCHANGED <<now, row, rateLimit, reported>>

-----------------------------------------------------------------------------
(* LearnFromResponse: after a 429 the learner may infer a limit, which is  *)
(* saved if the confidence is at least 0.3.                                *)
LearnFromResponse(p) ==
  LET s == proc[p] IN
  /\ s.pc = "learn"
  /\ \/ /\ s.code = "429"
        /\ \E n, k \in Counts :
             /\ k > 0
             /\ ~Greater(<<3, 10>>, LearningConfidence(n, k))
             /\ Save(p, s.res, LearnedInfo(n, k), Update(s.res, s.code), {})
     \/ Goto(p, Update(s.res, s.code))
  /\ UNCHANGED <<now, row, rateLimit, calls, reported>>

(* GetRateLimitInfo, or else GetRateLimitInfoByHost: the keys of the row   *)
(* that is used for r.                                                     *)
Lookup(r) ==
  IF row[r] # NoRow THEN {r}
  ELSE {k \in Resources : row[k] # NoRow /\
          \A j \in Resources : row[j] # NoRow =>
            /\ ~Greater(row[j].conf, row[k].conf)
            /\ ~Greater(row[k].conf, row[j].conf) => row[j].seen <= row[k].seen}

(* GetRateLimitForCommand of the strategy: a row of confidence 0.5 or more *)
(* that was seen within a week.                                            *)
Trusted(info) == ~Greater(<<1, 2>>, info.conf) /\ ~IsExpired(info)

(* UpdateRateLimitFromDiscovery, before every check of the strategy: what  *)
(* ProcessCommandOutput has set does not last.                             *)
UpdateRateLimitFromDiscovery(p, r) ==
  /\ proc[p] = Idle
  /\ \/ rateLimit' = [rateLimit EXCEPT ![p] = Fallback]
     \/ \E k \in Lookup(r) :
          rateLimit' = [rateLimit EXCEPT ![p] =
                          IF Trusted(row[k]) THEN row[k].limit ELSE Fallback]
  /\ UNCHANGED <<now, row, proc, calls, reported>>

(* UpdateRateLimitFromSuccess and UpdateRateLimitFromFailure, what they    *)
(* make of the row: after a 429 a learned limit shrinks if more than one   *)
(* request in five fails.                                                  *)
Succeeded(info) ==
  Scored([info EXCEPT !.succ = @ + 1, !.seen = now, !.obs = @ + 1])

Reduced(limit) == IF limit * 9 < 10 THEN 1 ELSE (limit * 9) \div 10

Limited(info) ==
  LET f == [info EXCEPT !.fail = @ + 1, !.seen = now, !.obs = @ + 1]
  IN  Scored(IF f.source = "learned" /\ 5 * f.fail > f.succ + f.fail
             THEN [f EXCEPT !.limit = Reduced(@)] ELSE f)

(* Mutated UpdateRateLimit: the result is saved under the key asked for.   *)
UpdateRateLimitUnderOwnKey(p) ==
  LET s == proc[p] IN
  /\ s.pc = "update"
  /\ \/ Goto(p, Idle)
     \/ \E k \in Lookup(s.res) :
          Save(p, s.res, IF s.code = "ok" THEN Succeeded(row[k])
                         ELSE Limited(row[k]), Idle, {row[k]})
  /\ UNCHANGED <<now, row, rateLimit, calls, reported>>

(* The first statement of those two: there is no row, or it cannot be      *)
(* read; or what is made of it is saved under the key of that row.         *)
UpdateRateLimit(p) ==
  LET s == proc[p] IN
  /\ s.pc = "update"
  /\ \/ Goto(p, Idle)
     \/ \E k \in Lookup(s.res) :
          Save(p, k, IF s.code = "ok" THEN Succeeded(row[k])
                     ELSE Limited(row[k]), Idle, {row[k]})
  /\ UNCHANGED <<now, row, rateLimit, calls, reported>>

-----------------------------------------------------------------------------
(* SaveRateLimitInfo, the first statement: read the row and decide.        *)
SaveCheck(p) ==
  LET s == proc[p]
      old == row[s.key]
  IN
  /\ s.pc = "check"
  /\ Goto(p, [pc |-> "write", key |-> s.key, info |-> s.info,
              then |-> s.then, read |-> s.read \cup {old},
              how |-> IF old = NoRow THEN "insert"
                      ELSE IF ShouldUpdate(old, s.info) THEN "replace"
                      ELSE "observe"])
  /\ UNCHANGED <<now, row, rateLimit, calls, reported>>

(* Mutated Written: the count is the one that was read, plus one.          *)
WrittenCount(old, info, how) ==
  IF old = NoRow THEN IF how = "insert" THEN [info EXCEPT !.seen = now] ELSE NoRow
  ELSE CASE how = "insert"  -> old
         [] how = "observe" -> [old EXCEPT !.obs = @ + 1, !.seen = now]
         [] how = "replace" -> [info EXCEPT !.seen = now]

(* The second statement applied to the row as it is by then: an INSERT     *)
(* fails if the row exists, an UPDATE does nothing if it does not.         *)
Written(old, info, how) ==
  IF old = NoRow THEN IF how = "insert" THEN [info EXCEPT !.seen = now] ELSE NoRow
  ELSE CASE how = "insert"  -> old
         [] how = "observe" -> [old EXCEPT !.obs = @ + 1, !.seen = now]
         [] how = "replace" -> [info EXCEPT !.obs = old.obs + 1, !.seen = now]

SaveWrite(p) ==
  LET s == proc[p] IN
  /\ s.pc = "write"
  /\ row' = [row EXCEPT ![s.key] = Written(@, s.info, s.how)]
  /\ Goto(p, s.then)
  /\ UNCHANGED <<now, rateLimit, calls, reported>>

(* A statement of SaveRateLimitInfo fails; the caller logs it, or returns. *)
SaveFails(p) ==
  /\ proc[p].pc \in {"check", "write"}
  /\ Goto(p, proc[p].then)
  /\ UNCHANGED <<now, row, rateLimit, calls, reported>>

(* CleanupExpiredData, from the daily ticker of any process.               *)
CleanupExpiredData ==
  /\ row' = [r \in Resources |->
       IF row[r] # NoRow /\ now - row[r].seen > MaxAge THEN NoRow ELSE row[r]]
  /\ UNCHANGED <<now, proc, rateLimit, calls, reported>>

Tick ==
  /\ \E d \in Waits : now' = now + d
  /\ now' <= MaxTime
  /\ UNCHANGED <<row, proc, rateLimit, calls, reported>>

-----------------------------------------------------------------------------
Next ==
  \/ Tick
  \/ CleanupExpiredData
  \/ \E p \in Procs :
       \/ \E r \in Resources :
            \/ \E code \in {"ok", "429", "other"} : ProcessCommandOutput(p, r, code)
            \/ \E limit \in Limits : ForceLearnRateLimit(p, r, limit)
            \/ ClearRateLimitInfo(p, r)
            \/ UpdateRateLimitFromDiscovery(p, r)
       \/ LearnFromResponse(p)
       \/ UpdateRateLimit(p)
       \/ SaveCheck(p)
       \/ SaveWrite(p)
       \/ SaveFails(p)

Spec == Init /\ [][Next]_vars

-----------------------------------------------------------------------------
Infos == [source: Sources, limit: Nat, obs: Nat \ {0}, succ: Nat, fail: Nat,
          seen: 0 .. MaxTime, conf: Nat \X (Nat \ {0})]

TypeOK ==
  /\ now \in 0 .. MaxTime
  /\ row \in [Resources -> Infos \cup {NoRow}]
  /\ \A p \in Procs :
       /\ proc[p].pc \in {"idle", "learn", "update", "check", "write"}
       /\ proc[p].pc \in {"check", "write"} =>
            proc[p].key \in Resources /\ proc[p].info \in Infos
  /\ rateLimit \in [Procs -> Nat]
  /\ calls \in 0 .. MaxCalls
  /\ reported \subseteq Resources \X Sources \X Limits

(* What a row says was said: a limit that is stored as coming from headers,*)
(* from JSON or from the user was stated by that source for this very      *)
(* resource, and a learned limit is at least 1 - however reads and writes  *)
(* of several processes interleave, and although an update may start from  *)
(* the row of another resource of the host.  And a strategy works with a   *)
(* limit of 0, with which nothing can be scheduled, only if a response     *)
(* came without a limit (GetRateLimitForCommand).                          *)
Provenance ==
  /\ TypeOK
  /\ \A r \in Resources : row[r] # NoRow =>
       IF row[r].source = "learned" THEN row[r].limit > 0
       ELSE <<r, row[r].source, row[r].limit>> \in reported
  /\ \A p \in Procs : rateLimit[p] = 0 => \E x \in reported : x[3] = 0

(* A row that was seen within a day, and that has not changed since the    *)
(* writer looked at it, is not replaced by a less reliable source          *)
(* (ShouldUpdate, SaveRateLimitInfo).                                      *)
FreshRowsStand ==
  [][\A p \in Procs :
       LET old == row[proc[p].key] new == row'[proc[p].key] IN
       (/\ proc[p].pc = "write" /\ proc'[p] # proc[p]
        /\ old # NoRow /\ proc[p].read = {old} /\ now - old.seen <= 1)
       => Priority[new.source] >= Priority[old.source]]_vars

(* Observations are counted one by one, whatever the interleaving: a write *)
(* to a row that is there adds one to its count, also to what others have  *)
(* added since the writer read it.  The exception is an INSERT whose       *)
(* writer found no row when it looked: it fails because another process    *)
(* inserted one meanwhile (UNIQUE), and its observation is lost.           *)
ObservationsCounted ==
  [][\A r \in Resources : row[r] # NoRow /\ row'[r] # NoRow =>
       IF row'[r] # row[r] THEN row'[r].obs = row[r].obs + 1
       ELSE \A p \in Procs :
              SaveWrite(p) /\ proc[p].key = r => NoRow \in proc[p].read]_vars

(* "ClearRateLimitInfo removes rate limit information" (service.go:190),   *)
(* "we can set the confidence to 0 to effectively disable it" (:197): when *)
(* the save that ClearRateLimitInfo makes - the only one with confidence   *)
(* 0 - is done, the strategy does not trust the row.  SaveRateLimitInfo    *)
(* asks ShouldUpdate, which compares computed scores and does not look at  *)
(* the confidence to be saved.                                             *)
ClearedIsDisabled ==
  [][\A p \in Procs :
       SaveWrite(p) /\ proc[p].info.conf[1] = 0 =>
         \/ row'[proc[p].key] = NoRow
         \/ ~Trusted(row'[proc[p].key])]_vars
=============================================================================
