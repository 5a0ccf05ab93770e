------------------------- MODULE CoordinationProofs -------------------------
(* Proofs about what several clients share: the socket server, for any     *)
(* number of clients and any limit on connections; the HTTP-aware          *)
(* selector, for any callers and responses; and pattern sets, for any      *)
(* patterns and documents.                                                 *)
EXTENDS Coordination, HTTPRouting, PatternSets, FiniteSetTheorems, SequenceTheorems,
        TLAPS

-----------------------------------------------------------------------------
(* The inductive invariant.                                                *)

Handlers == {c \in Clients : Admitted(c)}

(* The counter counts the handlers.  (Any number of clients may exist;     *)
(* only finitely many are admitted.)                                       *)
CounterInv == IsFiniteSet(Handlers) /\ active = Cardinality(Handlers)

(* The accept loop holds a connection exactly between Accept and the       *)
(* decision about it, and that connection has no handler yet; a client     *)
(* that has not dialled has no connection.                                 *)
PlaceInv ==
  /\ server = "off" => accept = "off"
  /\ accept = "place" <=> holding # NoClient
  /\ \A c \in Clients :
       /\ conn[c] = "open" <=> Serving(c) \/ holding = c
       /\ holding = c \/ conn[c] \in {"none", "backlog"} => handler[c] = "none"
       /\ pc[c] = "new" => conn[c] = "none"

(* A handler that Stop did not wait for sees the cancelled context before  *)
(* it reads.                                                               *)
QuietInv == server = "stopped" => \A c \in Clients : handler[c] # "read"

IInv == TypeOK /\ CounterInv /\ PlaceInv /\ QuietInv

-----------------------------------------------------------------------------
(* A handler is added to the counted ones ...                              *)
LEMMA HandlerAdded ==
  ASSUME CounterInv, NEW h \in Clients, ~Admitted(h),
         Handlers' = Handlers \cup {h}, active' = active + 1
  PROVE  CounterInv'
<1>1. h \notin Handlers
  BY DEF Handlers
<1> QED
  BY <1>1, FS_AddElement DEF CounterInv

(* ... or leaves, and then there was one to count.                         *)
LEMMA HandlerRemoved ==
  ASSUME CounterInv, NEW h \in Clients, Admitted(h),
         Handlers' = Handlers \ {h}, active' = active - 1
  PROVE  CounterInv' /\ active > 0
<1>1. h \in Handlers
  BY DEF Handlers
<1>2. CounterInv'
  BY <1>1, FS_RemoveElement DEF CounterInv
<1>3. active \in Nat /\ active # 0
  BY <1>1, FS_CardinalityType, FS_EmptySet DEF CounterInv
<1> QED
  BY <1>2, <1>3

(* What the deferred function of handleConnection does to the counter.     *)
LEMMA UncountCounts ==
  ASSUME TypeOK, CounterInv, NEW c \in Clients, Uncount(c)
  PROVE  CounterInv' /\ active > 0
<1>1. Handlers' = Handlers \ {c}
  BY DEF Handlers, Admitted, Serving, Uncount, TypeOK
<1>2. active' = active - 1 /\ Admitted(c)
  BY DEF Uncount, Admitted
<1> QED
  BY <1>1, <1>2, HandlerRemoved

(* A step that changes no handler and not the counter.                     *)
LEMMA CounterFrame ==
  ASSUME CounterInv, active' = active,
         \A c \in Clients : Admitted(c)' <=> Admitted(c)
  PROVE  CounterInv'
<1>1. Handlers' = Handlers
  BY DEF Handlers
<1> QED
  BY <1>1 DEF CounterInv

-----------------------------------------------------------------------------
(* Nothing is counted before the server starts.                            *)
LEMMA InitIInv == Init => IInv
<1> SUFFICES ASSUME Init PROVE IInv
  OBVIOUS
<1>1. TypeOK
  BY CoordinationAssumption DEF Init, TypeOK
<1>2. CounterInv
  <2>1. Handlers = {}
    BY DEF Init, Handlers, Admitted, Serving
  <2> QED
    BY <2>1, FS_EmptySet DEF Init, CounterInv
<1>3. PlaceInv /\ QuietInv
  BY CoordinationAssumption DEF Init, PlaceInv, QuietInv, Serving
<1> QED
  BY <1>1, <1>2, <1>3 DEF IInv

(* The accept loop: Accept and the decision that follows it.               *)
LEMMA AcceptKeeps ==
  ASSUME IInv, AcceptStep
  PROVE  IInv'
<1> USE CoordinationAssumption DEF IInv, TypeOK, clientVars
<1>1. ASSUME NEW c \in Clients, Accept(c)
      PROVE  IInv'
  <2>1. TypeOK'
    BY <1>1 DEF Accept
  <2>2. CounterInv'
    BY <1>1, CounterFrame DEF Accept, Admitted, Serving
  <2>3. PlaceInv'
    <3>1. CASE accept' = "done"
      BY <1>1, <3>1 DEF Accept, PlaceInv, Serving
    <3>2. CASE accept' = "place"
      <4>1. /\ conn[c] = "backlog" /\ conn' = [conn EXCEPT ![c] = "open"]
            /\ holding' = c /\ holding = NoClient
            /\ server' # "off" /\ UNCHANGED <<handler, pc>>
        BY <1>1, <3>2 DEF Accept, PlaceInv
      <4>2. handler[c] = "none" /\ pc[c] # "new"
        BY <4>1 DEF PlaceInv
      <4> QED
        BY <3>2, <4>1, <4>2 DEF PlaceInv, Serving
    <3> QED
      BY <1>1, <3>1, <3>2 DEF Accept
  <2>4. QuietInv'
    BY <1>1 DEF Accept, QuietInv
  <2> QED
    BY <2>1, <2>2, <2>3, <2>4
<1>2. CASE Admit
  <2>1. holding \in Clients /\ handler[holding] = "none" /\ ~Admitted(holding)
    BY <1>2 DEF Admit, PlaceInv, Admitted, Serving
  <2>2. TypeOK'
    BY <1>2, <2>1 DEF Admit
  <2>3. CounterInv'
    <3>1. CASE UNCHANGED <<active, handler>>
      BY <3>1, CounterFrame DEF Admitted, Serving
    <3>2. CASE active' = active + 1 /\ handler' = [handler EXCEPT ![holding] = "loop"]
      <4>1. Handlers' = Handlers \cup {holding}
        BY <2>1, <3>2 DEF Handlers, Admitted, Serving
      <4> QED
        BY <2>1, <3>2, <4>1, HandlerAdded
    <3> QED
      BY <1>2, <3>1, <3>2 DEF Admit
  <2>4. PlaceInv'
    BY <1>2, <2>1 DEF Admit, PlaceInv, Serving
  <2>5. QuietInv'
    BY <1>2, <2>1 DEF Admit, QuietInv
  <2> QED
    BY <2>2, <2>3, <2>4, <2>5
<1> QED
  BY <1>1, <1>2 DEF AcceptStep

(* A handler: its check of the context, its reply, its end.                *)
LEMMA HandlerKeeps ==
  ASSUME IInv, NEW c \in Clients, HandlerStep(c)
  PROVE  IInv'
<1> USE DEF IInv, TypeOK, clientVars
<1>1. CASE /\ Serving(c) /\ Finish(c)
           /\ UNCHANGED <<kind, server, accept, holding, active, request, response, clientVars>>
  <2>1. TypeOK'
    BY <1>1 DEF Finish
  <2>2. \A d \in Clients : Admitted(d)' <=> Admitted(d)
    BY <1>1 DEF Finish, Admitted, Serving
  <2>3. CounterInv'
    BY <1>1, <2>2, CounterFrame
  <2>4. PlaceInv'
    BY <1>1 DEF PlaceInv, Finish, Serving
  <2>5. QuietInv'
    BY <1>1 DEF QuietInv, Finish
  <2> QED
    BY <2>1, <2>3, <2>4, <2>5
<1>2. CASE Uncount(c)
  <2>1. CounterInv' /\ active > 0
    BY <1>2, UncountCounts
  <2>2. TypeOK'
    BY <1>2, <2>1, CoordinationAssumption DEF Uncount
  <2>3. PlaceInv' /\ QuietInv'
    BY <1>2 DEF PlaceInv, QuietInv, Uncount, Serving
  <2> QED
    BY <2>1, <2>2, <2>3
<1>3. CASE Done(c)
  <2>1. TypeOK'
    BY <1>3 DEF Done
  <2>2. \A d \in Clients : Admitted(d)' <=> Admitted(d)
    BY <1>3 DEF Done, Admitted, Serving
  <2>3. CounterInv'
    BY <1>3, <2>2, CounterFrame DEF Done
  <2>4. PlaceInv' /\ QuietInv'
    BY <1>3 DEF PlaceInv, QuietInv, Done, Serving
  <2> QED
    BY <2>1, <2>3, <2>4
<1>4. CASE /\ handler[c] = "loop" /\ ~Cancelled
           /\ handler' = [handler EXCEPT ![c] = "read"]
           /\ UNCHANGED <<kind, server, accept, holding, active, conn, request, response, clientVars>>
  <2>1. TypeOK'
    BY <1>4
  <2>2. \A d \in Clients : Admitted(d)' <=> Admitted(d)
    BY <1>4 DEF Admitted, Serving
  <2>3. CounterInv'
    BY <1>4, <2>2, CounterFrame
  <2>4. PlaceInv' /\ QuietInv'
    BY <1>4 DEF PlaceInv, QuietInv, Cancelled, Serving
  <2> QED
    BY <2>1, <2>3, <2>4
<1>5. CASE HandlerReply(c)
  <2>1. TypeOK'
    BY <1>5 DEF HandlerReply
  <2>2. \A d \in Clients : Admitted(d)' <=> Admitted(d)
    BY <1>5 DEF HandlerReply, Admitted, Serving
  <2>3. CounterInv'
    BY <1>5, <2>2, CounterFrame DEF HandlerReply
  <2>4. PlaceInv' /\ QuietInv'
    BY <1>5 DEF HandlerReply, PlaceInv, QuietInv, Serving
  <2> QED
    BY <2>1, <2>3, <2>4
<1> QED
  BY <1>1, <1>2, <1>3, <1>4, <1>5 DEF HandlerStep, HandlerCheck, HandlerEnds, Serving

(* Start, the steps of Stop, and the end of the process.                   *)
LEMMA ServerKeeps ==
  ASSUME IInv, Start \/ StopCancel \/ StopStep \/ Kill
  PROVE  IInv'
<1> USE CoordinationAssumption DEF IInv, TypeOK
<1>1. CASE Kill
  <2>1. TypeOK'
    BY <1>1 DEF Kill, clientVars
  <2>2. \A c \in Clients : ~Admitted(c)' /\ ~Serving(c)'
    BY <1>1 DEF Kill, Running, Admitted, Serving
  <2>3. CounterInv'
    <3>1. Handlers' = {}
      BY <2>2 DEF Handlers
    <3> QED
      BY <1>1, <3>1, FS_EmptySet DEF CounterInv, Kill
  <2>4. PlaceInv' /\ QuietInv'
    BY <1>1, <2>2 DEF Kill, PlaceInv, QuietInv, Running, Admitted, Serving, clientVars
  <2> QED
    BY <2>1, <2>3, <2>4
<1>2. CASE Start \/ StopCancel \/ StopStep
  <2>1. UNCHANGED <<kind, holding, active, handler, request, response, pc, registered>>
    BY <1>2 DEF Start, StopCancel, StopStep, StopClose, StopWait, clientVars
  <2>2. TypeOK'
    BY <1>2, <2>1 DEF Start, StopCancel, StopStep, StopClose, StopWait
  <2>3. \A c \in Clients : (Admitted(c)' <=> Admitted(c)) /\ (Serving(c)' <=> Serving(c))
    BY <2>1 DEF Admitted, Serving
  <2>4. CounterInv'
    BY <2>1, <2>3, CounterFrame
  <2>5. \A c \in Clients : /\ conn'[c] = "open" <=> conn[c] = "open"
                           /\ conn'[c] = "none" <=> conn[c] = "none"
                           /\ conn'[c] = "backlog" => conn[c] = "backlog"
    BY <1>2 DEF Start, StopCancel, StopStep, StopClose, StopWait
  <2>6. PlaceInv'
    <3>1. (accept' = "place" <=> accept = "place") /\ server' # "off"
      BY <1>2 DEF PlaceInv, Start, StopCancel, StopStep, StopClose, StopWait
    <3> QED
      BY <2>1, <2>3, <2>5, <3>1 DEF PlaceInv
  <2>7. QuietInv'
    BY <1>2, <2>1 DEF QuietInv, Start, StopCancel, StopStep, StopClose, StopWait, Running, Admitted, Serving
  <2> QED
    BY <2>2, <2>4, <2>6, <2>7
<1> QED
  BY <1>1, <1>2

(* The clients touch only what is theirs, and a first dial.                *)
LEMMA ClientKeeps ==
  ASSUME IInv, NEW c \in Clients, ClientStep(c) \/ Exit(c)
  PROVE  IInv'
<1> USE DEF IInv, TypeOK, serverVars, Waiting
<1>1. UNCHANGED <<kind, server, accept, holding, active, handler>>
  BY DEF ClientStep, Connect, Answer, ContextExpired, SendFails, Exit
<1>2. \A d \in Clients : (Admitted(d)' <=> Admitted(d)) /\ (Serving(d)' <=> Serving(d))
  BY <1>1 DEF Admitted, Serving
<1>3. CounterInv' /\ QuietInv'
  BY <1>1, <1>2, CounterFrame DEF QuietInv
<1>4. TypeOK'
  BY <1>1 DEF ClientStep, Connect, Answer, ContextExpired, SendFails, Exit, Send, RunCommand
<1>5. PlaceInv'
  <2>1. /\ pc'[c] # "new"
        /\ conn'[c] = "open" <=> conn[c] = "open"
        /\ conn'[c] \in {"none", "backlog"} => conn[c] \in {"none", "backlog"}
        /\ \A d \in Clients : d # c => conn'[d] = conn[d] /\ pc'[d] = pc[d]
    <3>1. CASE Connect(c)
      BY <3>1 DEF Connect, Send, RunCommand, PlaceInv
    <3>2. CASE Answer(c) \/ ContextExpired(c) \/ SendFails(c) \/ Exit(c)
      BY <3>2 DEF Answer, ContextExpired, SendFails, Exit, Send, RunCommand
    <3> QED
      BY <3>1, <3>2 DEF ClientStep
  <2> QED
    BY <1>1, <1>2, <2>1 DEF PlaceInv
<1> QED
  BY <1>3, <1>4, <1>5

(* No step breaks the inductive invariant.                                 *)
LEMMA IInvStep ==
  ASSUME IInv, [Next]_vars
  PROVE  IInv'
<1>1. CASE UNCHANGED vars
  <2>1. \A c \in Clients : (Admitted(c)' <=> Admitted(c)) /\ (Serving(c)' <=> Serving(c))
    BY <1>1 DEF vars, serverVars, Admitted, Serving
  <2>2. CounterInv'
    BY <1>1, <2>1, CounterFrame DEF vars, serverVars, IInv
  <2>3. TypeOK' /\ PlaceInv' /\ QuietInv'
    BY <1>1, <2>1 DEF IInv, TypeOK, PlaceInv, QuietInv, vars, serverVars, clientVars
  <2> QED
    BY <2>2, <2>3 DEF IInv
<1> QED
  BY <1>1, AcceptKeeps, HandlerKeeps, ServerKeeps, ClientKeeps DEF Next

(* The inductive invariant holds in every state.                           *)
THEOREM InductiveInvariant == Spec => []IInv
<1>1. IInv /\ [Next]_vars => IInv'
  BY IInvStep
<1> QED
  BY <1>1, InitIInv, PTL DEF Spec

-----------------------------------------------------------------------------
(* activeConnections is the number of handlers that have not taken         *)
(* themselves out of it, never above the limit and never below zero, and   *)
(* every connection that is kept open has somebody who will close it -     *)
(* with Stop, or the end of the process, at any moment (acceptConnections  *)
(* and handleConnection in unix_server.go).                                *)
THEOREM ConnectionsStayAccounted == Spec => []ConnectionsAccounted
<1>1. IInv => ConnectionsAccounted
  BY DEF IInv, CounterInv, PlaceInv, ConnectionsAccounted, Handlers
<1> QED
  BY <1>1, InductiveInvariant, PTL

(* After Stop has returned no answer is written, also not by a handler     *)
(* that the accept loop launches afterwards (Stop in unix_server.go).      *)
THEOREM StopSilences == Spec => NoReplyAfterStop
<1> DEFINE Silent == server = "stopped" =>
             \A c \in Clients : response'[c] # "none" => response[c] # "none"
<1>1. ASSUME IInv, [Next]_vars, server = "stopped", NEW c \in Clients,
             response'[c] # "none"
      PROVE  response[c] # "none"
  <2>1. \A d \in Clients : handler[d] # "read"
    BY <1>1 DEF IInv, QuietInv
  <2>2. \/ response' = response
        \/ \E d \in Clients : response' = [response EXCEPT ![d] = "none"]
    BY <1>1, <2>1
    DEF Next, vars, Start, AcceptStep, Accept, Admit, StopCancel, StopStep, StopClose,
        StopWait, Kill, HandlerStep, HandlerCheck, HandlerReply, HandlerEnds, Uncount, Done,
        ClientStep, Connect, Answer, ContextExpired, SendFails, Exit
  <2> QED
    BY <1>1, <2>2 DEF IInv, TypeOK
<1>2. IInv /\ [Next]_vars => [Silent]_vars
  BY <1>1
<1> QED
  BY <1>2, InductiveInvariant, PTL DEF Spec, NoReplyAfterStop

-----------------------------------------------------------------------------
(* The HTTP-aware selector.  An answer, cached or fresh, was made for a    *)
(* response with the same key; what the key holds decides the API wherever *)
(* the URL or a header of the key names it.                                *)

(* The answers that a match of r can give.                                 *)
Answers(r) == {Recommend(m) : m \in MatchHTTPResponse(DefaultHTTPPatternConfig, r)}

(* What r says of its API without its body.                                *)
TellsAPI(r) == \/ r.url \in {"github", "aws", "k8s"}
               \/ r.headers \cap {"X-GitHub-Media-Type", "X-Amzn-ErrorType"} # {}

LEMMA ResultFacts ==
  ASSUME NEW config, NEW r, NEW m \in MatchHTTPResponse(config, r)
  PROVE  \E route \in Routes(config, r) :
           /\ m.route = route
           /\ m.matched \in BOOLEAN
           /\ m.matched <=> route # "none"
           /\ route \notin {"none", "default"} => m.type = PatternType(r.status)
           /\ m.api = (IF config.api THEN DetectAPI(r) ELSE "unknown")
           /\ m.retryAfter = IF route = "none" THEN [kind |-> "absent", seconds |-> -1]
                             ELSE RetryAfterContext(r)
<1>1. PICK route \in Routes(config, r) :
        m = [matched |-> route # "none",
             route |-> route,
             type |-> IF route = "none" THEN "" ELSE
                      IF route = "default" THEN "default" ELSE PatternType(r.status),
             api |-> IF config.api THEN DetectAPI(r) ELSE "unknown",
             retryAfter |-> IF route = "none" THEN [kind |-> "absent", seconds |-> -1]
                            ELSE RetryAfterContext(r)]
  BY Zenon DEF MatchHTTPResponse
<1>2. /\ m.route = route /\ m.matched = (route # "none")
      /\ m.api = (IF config.api THEN DetectAPI(r) ELSE "unknown")
      /\ m.retryAfter = IF route = "none" THEN [kind |-> "absent", seconds |-> -1]
                        ELSE RetryAfterContext(r)
  BY <1>1, Zenon
<1>3. route \notin {"none", "default"} => m.type = PatternType(r.status)
  BY <1>1, Zenon
<1> QED
  BY <1>2, <1>3

(* The strategy of an API.                                                 *)
TypeFor(api) == CASE api = "github" -> "diophantine" [] api = "aws" -> "polynomial"
                  [] api = "k8s" -> "exponential" [] OTHER -> "adaptive"

LEMMA RecommendType ==
  ASSUME NEW m
  PROVE  /\ Recommend(m).type = TypeFor(m.api)
         /\ Recommend(m).type \in {"diophantine", "polynomial", "exponential", "adaptive"}
<1>1. CASE m.api = "github"
  BY <1>1 DEF Recommend, TypeFor, Recommendation
<1>2. CASE m.api = "aws"
  BY <1>2 DEF Recommend, TypeFor, Recommendation
<1>3. CASE m.api = "k8s"
  BY <1>3 DEF Recommend, TypeFor, Recommendation
<1>4. CASE m.api \notin {"github", "aws", "k8s"}
  BY <1>4 DEF Recommend, TypeFor, Recommendation
<1> QED
  BY <1>1, <1>2, <1>3, <1>4

LEMMA AnswerTypes ==
  ASSUME NEW r, NEW a \in Answers(r)
  PROVE  /\ a.type = TypeFor(DetectAPI(r))
         /\ a.type \in {"diophantine", "polynomial", "exponential", "adaptive"}
<1>1. PICK m \in MatchHTTPResponse(DefaultHTTPPatternConfig, r) : a = Recommend(m)
  BY DEF Answers
<1>2. DefaultHTTPPatternConfig.api
  BY DEF DefaultHTTPPatternConfig
<1>3. m.api = DetectAPI(r)
  BY <1>2, ResultFacts
<1> QED
  BY <1>1, <1>3, RecommendType

(* The API is the same for all responses with one key that tells it.       *)
LEMMA KeyTellsAPI ==
  ASSUME NEW s, NEW r, CacheKey(s) = CacheKey(r), TellsAPI(r)
  PROVE  DetectAPI(s) = DetectAPI(r)
<1>1. CacheKey(s).url = s.url /\ CacheKey(r).url = r.url
      /\ CacheKey(s).headers = s.headers \cap (Routed \cup {"Content-Type"})
      /\ CacheKey(r).headers = r.headers \cap (Routed \cup {"Content-Type"})
  BY DEF CacheKey
<1>2. s.url = r.url
      /\ ("X-GitHub-Media-Type" \in s.headers <=> "X-GitHub-Media-Type" \in r.headers)
      /\ ("X-Amzn-ErrorType" \in s.headers <=> "X-Amzn-ErrorType" \in r.headers)
  <2>1. s.headers \cap (Routed \cup {"Content-Type"})
          = r.headers \cap (Routed \cup {"Content-Type"})
    BY <1>1
  <2>2. "X-GitHub-Media-Type" \in Routed /\ "X-Amzn-ErrorType" \in Routed
    BY DEF Routed
  <2> QED
    BY <1>1, <2>1, <2>2
<1>3. CASE r.url \in {"github", "aws", "k8s"}
  <2>1. s.url \in {"github", "aws", "k8s"}
    BY <1>2, <1>3
  <2>2. DetectAPI(r) = r.url /\ DetectAPI(s) = s.url
    BY <1>3, <2>1 DEF DetectAPI
  <2> QED
    BY <1>2, <2>2
<1>4. CASE r.url \notin {"github", "aws", "k8s"} /\ "X-GitHub-Media-Type" \in r.headers
  BY <1>2, <1>4 DEF DetectAPI
<1>5. CASE r.url \notin {"github", "aws", "k8s"} /\ "X-GitHub-Media-Type" \notin r.headers
  <2>1. "X-Amzn-ErrorType" \in r.headers /\ "X-Amzn-ErrorType" \in s.headers
    BY <1>2, <1>5 DEF TellsAPI
  <2>2. /\ r.headers \cap {"X-Amzn-ErrorType", "X-Amzn-RequestId"} # {}
        /\ s.headers \cap {"X-Amzn-ErrorType", "X-Amzn-RequestId"} # {}
    BY <2>1
  <2> QED
    BY <1>2, <1>5, <2>2 DEF DetectAPI
<1> QED
  BY <1>3, <1>4, <1>5

(* A rate limited GitHub response sets its own delay.                      *)
LEMMA AskedIsWaited ==
  ASSUME NEW r, r.url = "github", {"X-RateLimit-Limit", "Retry-After"} \subseteq r.headers,
         r.retryAfter \in Nat \cup {-1}, NEW a \in Answers(r),
         NEW n \in Nat, NEW d \in applyStrategy(a, n)
  PROVE  d >= 10 * r.retryAfter
<1>1. PICK m \in MatchHTTPResponse(DefaultHTTPPatternConfig, r) : a = Recommend(m)
  BY DEF Answers
<1>2. PICK route \in Routes(DefaultHTTPPatternConfig, r) :
        /\ m.api = (IF DefaultHTTPPatternConfig.api THEN DetectAPI(r) ELSE "unknown")
        /\ m.retryAfter = IF route = "none" THEN [kind |-> "absent", seconds |-> -1]
                          ELSE RetryAfterContext(r)
  BY ResultFacts
<1>3. m.api = "github"
  <2>1. DetectAPI(r) = "github"
    BY DEF DetectAPI
  <2> QED
    BY <1>2, <2>1 DEF DefaultHTTPPatternConfig
<1>4. m.retryAfter = RetryAfterContext(r)
  <2>1. "X-RateLimit-Limit" \in HeaderRoutes(r) /\ "none" \notin HeaderRoutes(r)
    BY DEF HeaderRoutes, Routed
  <2>2. Routes(DefaultHTTPPatternConfig, r) = HeaderRoutes(r)
    BY <2>1 DEF Routes, DefaultHTTPPatternConfig
  <2> QED
    BY <1>2, <2>1, <2>2
<1>5. a.type = "diophantine"
      /\ a.base = IF m.retryAfter.kind = "number" THEN m.retryAfter.seconds ELSE -1
  BY <1>1, <1>3 DEF Recommend, Recommendation
<1>6. PICK k : k = IF n = 0 THEN 1 ELSE n
  OBVIOUS
<1>7. k \in Nat /\ k >= 1
  BY <1>6
<1>8. d = (IF a.base >= 0 THEN 10 * a.base ELSE 600) * k
  BY <1>5, <1>6 DEF applyStrategy
<1>9. CASE r.retryAfter \in Nat
  <2>1. RetryAfterContext(r) = [kind |-> "number", seconds |-> r.retryAfter]
    BY <1>9 DEF RetryAfterContext
  <2>2. a.base = r.retryAfter
    BY <1>4, <1>5, <2>1
  <2>3. PICK b \in Nat : b = r.retryAfter
    BY <1>9
  <2>4. d = (10 * b) * k
    BY <1>8, <2>2, <2>3
  <2>5. (10 * b) * k >= 10 * b
    BY <1>7, <2>3
  <2> QED
    BY <2>3, <2>4, <2>5
<1>10. CASE r.retryAfter = -1
  <2>1. RetryAfterContext(r) = HeaderContext(r)
    BY <1>10 DEF RetryAfterContext
  <2>2. HeaderContext(r) = [kind |-> "string", seconds |-> r.retryAfter]
    BY DEF HeaderContext
  <2>3. a.base = -1
    BY <1>4, <1>5, <2>1, <2>2
  <2>4. d = 600 * k
    BY <1>8, <2>3
  <2>5. 600 * k >= 0
    BY <1>7
  <2> QED
    BY <1>7, <1>10, <2>4, <2>5
<1> QED
  BY <1>9, <1>10

(* What is retried depends on the status alone, unless the default pattern *)
(* decides.                                                                *)
LEMMA RetriedStatus ==
  ASSUME NEW r, r.status \in Nat, NEW config, NEW m \in MatchHTTPResponse(config, r),
         m.matched, m.route # "default"
  PROVE  GetBackoffRecommendation(m).strategy # "none"
         <=> r.status = 429 \/ r.status >= 500 \/ r.status < 200 \/ r.status \in 300 .. 399
<1>1. PICK x \in Nat : x = r.status
  OBVIOUS
<1>2. m.type = PatternType(x) /\ m.matched
  BY <1>1, ResultFacts
<1>3. /\ GetBackoffRecommendation(m).strategy # "none"
           <=> m.type \in {"rate_limit", "server_error", "default", "unknown"}
  <2>1. CASE m.type = "rate_limit"
    BY <1>2, <2>1 DEF GetBackoffRecommendation
  <2>2. CASE m.type \in {"server_error", "default", "unknown"}
    BY <1>2, <2>2 DEF GetBackoffRecommendation
  <2>3. CASE m.type \notin {"rate_limit", "server_error", "default", "unknown"}
    BY <2>3 DEF GetBackoffRecommendation
  <2> QED
    BY <2>1, <2>2, <2>3
<1>4. PatternType(x) \in {"rate_limit", "server_error", "default", "unknown"}
      <=> x = 429 \/ x >= 500 \/ x < 200 \/ x \in 300 .. 399
  <2>1. CASE x \in 200 .. 299
    BY <2>1 DEF PatternType
  <2>2. CASE x \in {401, 403}
    BY <2>2 DEF PatternType
  <2>3. CASE x = 429
    BY <2>3 DEF PatternType
  <2>4. CASE x \in (400 .. 499) \ {401, 403, 429}
    BY <2>4 DEF PatternType
  <2>5. CASE x >= 500
    BY <2>5 DEF PatternType
  <2>6. CASE x < 200 \/ x \in 300 .. 399
    BY <2>6 DEF PatternType
  <2> QED
    BY <2>1, <2>2, <2>3, <2>4, <2>5, <2>6
<1> QED
  BY <1>1, <1>2, <1>3, <1>4

Counters == [total: Nat, found: Nat, failed: Nat]

(* A record of a goroutine has these fields.                               *)
Shaped(x) == x = [pc |-> x.pc, response |-> x.response, read |-> x.read,
                  answer |-> x.answer, delay |-> x.delay]

(* What a goroutine holds while its call is under way, and after it, with  *)
(* these responses matched, whether calls overlapped, and these counters.  *)
CallOK(x, matched, over, counts) ==
  /\ Shaped(x)
  /\ x.pc \in {"idle", "lookup", "matching", "storing"}
  /\ x.pc # "idle" => x.response \in Responses
  /\ x.pc = "matching" => /\ x.read \in Counters
                          /\ ~over => x.read = counts
  /\ x.pc = "storing" => x.response \in matched /\ x.answer \in Answers(x.response)
  /\ x.pc = "idle" /\ x.answer # NoAnswer =>
       /\ x.response \in Responses
       /\ \E s \in matched : CacheKey(s) = CacheKey(x.response) /\ x.answer \in Answers(s)
       /\ \E n \in Nat : x.delay \in applyStrategy(x.answer, n)

(* The calls that are still to be counted by the matcher.                  *)
Uncounted == {c \in Callers : caller[c].pc \in {"lookup", "matching"}}

CallersOK ==
  /\ caller = [c \in Callers |-> caller[c]]
  /\ \A c \in Callers : CallOK(caller[c], seen, overlapped, metrics)

CacheOK ==
  \A k \in DOMAIN strategyCache :
    \E s \in seen : CacheKey(s) = k /\ strategyCache[k] \in Answers(s)

SharedOK ==
  /\ lastResponse \in Responses \cup {NoResponse} /\ seen \subseteq Responses
  /\ currentAttempt \in Nat /\ calls \in Nat /\ metrics \in Counters
  /\ overlapped \in BOOLEAN
  /\ ~overlapped => metrics.total = metrics.found + metrics.failed

CallsCounted ==
  /\ metrics.total + Cardinality(Uncounted) <= calls
  /\ \A c \in Callers : caller[c].pc = "matching" =>
       caller[c].read.total + Cardinality(Uncounted) <= calls

(* The inductive invariant.                                                *)
RouteInv == CallersOK /\ CacheOK /\ SharedOK /\ CallsCounted

LEMMA UncountedFinite ==
  IsFiniteSet(Uncounted) /\ Cardinality(Uncounted) \in Nat
<1>1. Uncounted \subseteq Callers /\ IsFiniteSet(Callers)
  BY RoutingAssumption DEF Uncounted
<1> QED
  BY <1>1, FS_Subset, FS_CardinalityType

(* The invariant says what the property says.                              *)
LEMMA RouteInvSuits ==
  ASSUME RouteInv
  PROVE  AnswersSuitResponses
<1>1. ASSUME NEW c \in Callers, Answered(c)
      PROVE  /\ caller[c].response \in Responses
             /\ \E s \in seen : /\ CacheKey(s) = CacheKey(caller[c].response)
                                /\ caller[c].answer \in Answers(s)
             /\ \E n \in Nat : caller[c].delay \in applyStrategy(caller[c].answer, n)
  BY <1>1 DEF RouteInv, CallersOK, CallOK, Answered
<1>2. RouteTypeOK
  <2>1. \A c \in Callers : caller[c].pc \in {"idle", "lookup", "matching", "storing"}
    BY DEF RouteInv, CallersOK, CallOK
  <2>2. \A k \in DOMAIN strategyCache : strategyCache[k].type \in
          {"diophantine", "polynomial", "exponential", "adaptive"}
    BY AnswerTypes DEF RouteInv, CacheOK
  <2>3. lastResponse \in Responses \cup {NoResponse} /\ seen \subseteq Responses
    BY DEF RouteInv, SharedOK
  <2>4. metrics.total <= calls
    <3>1. PICK t, u, n : t = metrics.total /\ u = Cardinality(Uncounted) /\ n = calls
      OBVIOUS
    <3>2. t \in Nat /\ n \in Nat /\ t + u <= n
      BY <3>1 DEF RouteInv, SharedOK, CallsCounted, Counters
    <3>3. u \in Nat
      BY <3>1, UncountedFinite
    <3> QED
      BY <3>1, <3>2, <3>3
  <2> QED
    BY <2>1, <2>2, <2>3, <2>4 DEF RouteTypeOK
<1>3. StrategySuitsAPI
  <2> SUFFICES ASSUME NEW c \in Callers, Answered(c), TellsAPI(caller[c].response),
                      NEW m \in MatchHTTPResponse(DefaultHTTPPatternConfig, caller[c].response)
               PROVE  caller[c].answer.type = Recommend(m).type
    BY DEF StrategySuitsAPI, TellsAPI
  <2>1. PICK s \in seen : CacheKey(s) = CacheKey(caller[c].response)
                          /\ caller[c].answer \in Answers(s)
    BY <1>1
  <2>2. DetectAPI(s) = DetectAPI(caller[c].response)
    BY <2>1, KeyTellsAPI
  <2>3. caller[c].answer.type = TypeFor(DetectAPI(s))
    BY <2>1, AnswerTypes
  <2>4. Recommend(m) \in Answers(caller[c].response)
    BY DEF Answers
  <2>5. Recommend(m).type = TypeFor(DetectAPI(caller[c].response))
    BY <2>4, AnswerTypes
  <2> QED
    BY <2>2, <2>3, <2>5
<1>4. WaitsAsLongAsAsked
  <2> SUFFICES ASSUME NEW c \in Callers, Answered(c), caller[c].response.url = "github",
                      {"X-RateLimit-Limit", "Retry-After"} \subseteq caller[c].response.headers,
                      \A s \in seen : CacheKey(s) = CacheKey(caller[c].response)
                                        => s = caller[c].response
               PROVE  caller[c].delay >= 10 * caller[c].response.retryAfter
    BY DEF WaitsAsLongAsAsked, AsksToWait
  <2>1. PICK r : r = caller[c].response
    OBVIOUS
  <2>2. r \in Responses /\ r.retryAfter \in Nat \cup {-1}
    BY <1>1, <2>1, RoutingAssumption
  <2>3. caller[c].answer \in Answers(r)
    BY <1>1, <2>1
  <2>4. PICK n \in Nat : caller[c].delay \in applyStrategy(caller[c].answer, n)
    BY <1>1
  <2> QED
    BY <2>1, <2>2, <2>3, <2>4, AskedIsWaited
<1>5. RetriesOnlyTransient
  <2>1. \A r \in seen : r.status \in Nat
    BY RoutingAssumption DEF RouteInv, SharedOK
  <2> QED
    BY <2>1, RetriedStatus DEF RetriesOnlyTransient
<1>6. MetricsExactIfSerial
  BY DEF RouteInv, SharedOK, MetricsExactIfSerial
<1> QED
  BY <1>2, <1>3, <1>4, <1>5, <1>6 DEF AnswersSuitResponses

LEMMA CallKept ==
  ASSUME NEW x, NEW s1, NEW s2, NEW o1, NEW o2, NEW m1, NEW m2, CallOK(x, s1, o1, m1),
         s1 \subseteq s2, x.pc = "matching" /\ ~o2 => ~o1 /\ m2 = m1
  PROVE  CallOK(x, s2, o2, m2)
BY Zenon DEF CallOK

(* One goroutine moves.                                                    *)
LEMMA OneMoves ==
  ASSUME caller = [d \in Callers |-> caller[d]], NEW c \in Callers, NEW x,
         caller' = [caller EXCEPT ![c] = x]
  PROVE  /\ caller' = [d \in Callers |-> caller'[d]]
         /\ caller'[c] = x /\ \A d \in Callers : d # c => caller'[d] = caller[d]
         /\ Uncounted' = IF x.pc \in {"lookup", "matching"} THEN Uncounted \cup {c}
                         ELSE Uncounted \ {c}
<1>1. /\ caller' = [d \in Callers |-> caller'[d]]
      /\ caller'[c] = x /\ \A d \in Callers : d # c => caller'[d] = caller[d]
  OBVIOUS
<1>2. Uncounted' = {d \in Callers : caller'[d].pc \in {"lookup", "matching"}}
  BY DEF Uncounted
<1>3. CASE x.pc \in {"lookup", "matching"}
  BY <1>1, <1>2, <1>3 DEF Uncounted
<1>4. CASE x.pc \notin {"lookup", "matching"}
  BY <1>1, <1>2, <1>4 DEF Uncounted
<1> QED
  BY <1>1, <1>3, <1>4

LEMMA UncountedCounts ==
  ASSUME NEW c \in Callers
  PROVE  /\ c \notin Uncounted =>
              /\ Cardinality(Uncounted \cup {c}) = Cardinality(Uncounted) + 1
              /\ Uncounted \ {c} = Uncounted
         /\ c \in Uncounted =>
              /\ Cardinality(Uncounted \ {c}) = Cardinality(Uncounted) - 1
              /\ Uncounted \cup {c} = Uncounted
<1>1. CASE c \notin Uncounted
  <2>1. Cardinality(Uncounted \cup {c}) = Cardinality(Uncounted) + 1
    BY <1>1, UncountedFinite, FS_AddElement
  <2>2. Uncounted \ {c} = Uncounted
    BY <1>1
  <2> QED
    BY <1>1, <2>1, <2>2
<1>2. CASE c \in Uncounted
  <2>1. Cardinality(Uncounted \ {c}) = Cardinality(Uncounted) - 1
    BY <1>2, UncountedFinite, FS_RemoveElement
  <2>2. Uncounted \cup {c} = Uncounted
    BY <1>2
  <2> QED
    BY <1>2, <2>1, <2>2
<1> QED
  BY <1>1, <1>2

(* A call begins.                                                          *)
LEMMA BeginKeeps ==
  ASSUME RouteInv, NEW c \in Callers, NEW r \in Responses, caller[c].pc = "idle",
         Begin(c, r), calls' = calls + 1, currentAttempt' \in Nat,
         lastResponse' \in Responses \cup {NoResponse},
         UNCHANGED <<strategyCache, metrics, seen, overlapped>>
  PROVE  RouteInv'
<1>1. PICK x : x = [caller[c] EXCEPT !.pc = "lookup", !.response = r,
                                     !.answer = NoAnswer, !.delay = -1]
  OBVIOUS
<1>2. Shaped(caller[c]) /\ caller = [d \in Callers |-> caller[d]]
      /\ \A d \in Callers : CallOK(caller[d], seen, overlapped, metrics)
  BY DEF RouteInv, CallersOK, CallOK
<1>3. x = [pc |-> "lookup", response |-> r, read |-> caller[c].read,
           answer |-> NoAnswer, delay |-> -1]
  BY <1>1, <1>2 DEF Shaped
<1>4. caller' = [caller EXCEPT ![c] = x] /\ x.pc = "lookup"
  BY <1>1, <1>3 DEF Begin
<1>5. /\ caller' = [d \in Callers |-> caller'[d]]
      /\ caller'[c] = x /\ \A d \in Callers : d # c => caller'[d] = caller[d]
      /\ Uncounted' = Uncounted \cup {c}
  BY <1>2, <1>4, OneMoves
<1>6. \A d \in Callers : CallOK(caller'[d], seen', overlapped', metrics')
  <2>1. CallOK(x, seen, overlapped, metrics)
    BY <1>3 DEF CallOK, Shaped
  <2> QED
    BY <1>2, <1>5, <2>1
<1>7. Cardinality(Uncounted') = Cardinality(Uncounted) + 1
  <2>1. c \notin Uncounted
    BY DEF Uncounted
  <2> QED
    BY <1>5, <2>1, UncountedCounts
<1>8. /\ metrics'.total + Cardinality(Uncounted') <= calls'
      /\ \A d \in Callers : caller'[d].pc = "matching" =>
           caller'[d].read.total + Cardinality(Uncounted') <= calls'
  <2>1. PICK u, n, t : u = Cardinality(Uncounted) /\ n = calls /\ t = metrics.total
    OBVIOUS
  <2>2. u \in Nat /\ n \in Nat /\ t \in Nat /\ t + u <= n
    BY <2>1, UncountedFinite DEF RouteInv, SharedOK, CallsCounted, Counters
  <2>3. ASSUME NEW d \in Callers, caller'[d].pc = "matching"
        PROVE  caller'[d].read.total + (u + 1) <= n + 1
    <3>1. d # c /\ caller'[d] = caller[d] /\ caller[d].pc = "matching"
      BY <1>4, <1>5, <2>3
    <3>2. caller[d].read.total \in Nat /\ caller[d].read.total + u <= n
      BY <2>1, <3>1 DEF RouteInv, CallersOK, CallsCounted, CallOK, Counters
    <3> QED
      BY <2>2, <3>1, <3>2
  <2> QED
    BY <1>7, <2>1, <2>2, <2>3
<1>9. CallersOK' /\ CallsCounted'
  BY <1>5, <1>6, <1>8 DEF CallersOK, CallsCounted
<1>10. CacheOK'
  BY DEF RouteInv, CacheOK
<1>11. SharedOK'
  BY DEF RouteInv, SharedOK
<1> QED
  BY <1>9, <1>10, <1>11 DEF RouteInv

(* A call ends, with an answer from the cache or with its own one.         *)
LEMMA ApplyKeeps ==
  ASSUME RouteInv, NEW c \in Callers, NEW rec, Apply(c, rec),
         caller[c].response \in Responses,
         \E s \in seen : CacheKey(s) = CacheKey(caller[c].response) /\ rec \in Answers(s),
         UNCHANGED <<metrics, currentAttempt, lastResponse, calls, seen, overlapped>>,
         \A k \in DOMAIN strategyCache' :
           \E s \in seen : CacheKey(s) = k /\ strategyCache'[k] \in Answers(s)
  PROVE  RouteInv'
<1>1. PICK x, delay : /\ delay \in applyStrategy(rec, currentAttempt)
                      /\ x = [caller[c] EXCEPT !.pc = "idle", !.answer = rec,
                                               !.delay = delay, !.read = <<>>]
                      /\ caller' = [caller EXCEPT ![c] = x]
  BY Zenon DEF Apply
<1>2. Shaped(caller[c]) /\ caller = [d \in Callers |-> caller[d]]
      /\ currentAttempt \in Nat
      /\ \A d \in Callers : CallOK(caller[d], seen, overlapped, metrics)
  BY DEF RouteInv, CallersOK, SharedOK, CallOK
<1>3. x = [pc |-> "idle", response |-> caller[c].response, read |-> <<>>,
           answer |-> rec, delay |-> delay]
  BY <1>1, <1>2 DEF Shaped
<1>4. x.pc = "idle"
  BY <1>3
<1>5. /\ caller' = [d \in Callers |-> caller'[d]]
      /\ caller'[c] = x /\ \A d \in Callers : d # c => caller'[d] = caller[d]
      /\ Uncounted' = Uncounted \ {c}
  BY <1>1, <1>2, <1>4, OneMoves
<1>6. \A d \in Callers : CallOK(caller'[d], seen', overlapped', metrics')
  <2>1. CallOK(x, seen, overlapped, metrics)
    <3>1. x.response = caller[c].response /\ x.answer = rec /\ x.delay = delay /\ Shaped(x)
      BY <1>3 DEF Shaped
    <3> QED
      BY <1>1, <1>2, <1>4, <3>1 DEF CallOK
  <2> QED
    BY <1>2, <1>5, <2>1
<1>7. Cardinality(Uncounted') \in Nat /\ Cardinality(Uncounted') <= Cardinality(Uncounted)
  <2>1. PICK U : U = Uncounted
    OBVIOUS
  <2>2. IsFiniteSet(U) /\ Cardinality(U) \in Nat /\ U \ {c} \subseteq U
    BY <2>1, UncountedFinite
  <2>3. IsFiniteSet(U \ {c}) /\ Cardinality(U \ {c}) <= Cardinality(U)
    BY <2>2, FS_Subset
  <2>4. Cardinality(U \ {c}) \in Nat
    BY <2>3, FS_CardinalityType
  <2> QED
    BY <1>5, <2>1, <2>3, <2>4
<1>8. /\ metrics'.total + Cardinality(Uncounted') <= calls'
      /\ \A d \in Callers : caller'[d].pc = "matching" =>
           caller'[d].read.total + Cardinality(Uncounted') <= calls'
  <2>1. PICK u, w, n, t : u = Cardinality(Uncounted) /\ n = calls /\ t = metrics.total
                          /\ w = Cardinality(Uncounted')
    OBVIOUS
  <2>2. u \in Nat /\ n \in Nat /\ t \in Nat /\ t + u <= n /\ w \in Nat /\ w <= u
    BY <1>7, <2>1, UncountedFinite DEF RouteInv, SharedOK, CallsCounted, Counters
  <2>3. ASSUME NEW d \in Callers, caller'[d].pc = "matching"
        PROVE  caller'[d].read.total + w <= n
    <3>1. d # c /\ caller'[d] = caller[d] /\ caller[d].pc = "matching"
      BY <1>4, <1>5, <2>3
    <3>2. caller[d].read.total \in Nat /\ caller[d].read.total + u <= n
      BY <2>1, <3>1 DEF RouteInv, CallersOK, CallsCounted, CallOK, Counters
    <3> QED
      BY <2>2, <3>1, <3>2
  <2> QED
    BY <2>1, <2>2, <2>3
<1>9. CallersOK' /\ CallsCounted'
  BY <1>5, <1>6, <1>8 DEF CallersOK, CallsCounted
<1>10. CacheOK'
  BY DEF CacheOK
<1>11. SharedOK'
  BY DEF RouteInv, SharedOK
<1> QED
  BY <1>9, <1>10, <1>11 DEF RouteInv

(* Delay without a response so far: the fallback answers at once.          *)
LEMMA FallbackKeeps ==
  ASSUME RouteInv, NEW c \in Callers, NEW delay, caller[c].pc = "idle",
         caller' = [caller EXCEPT ![c] = Idle(NoAnswer, delay)],
         calls' = calls + 1, currentAttempt' \in Nat,
         UNCHANGED <<strategyCache, metrics, lastResponse, seen, overlapped>>
  PROVE  RouteInv'
<1>1. PICK x : x = Idle(NoAnswer, delay)
  OBVIOUS
<1>2. caller = [d \in Callers |-> caller[d]]
      /\ \A d \in Callers : CallOK(caller[d], seen, overlapped, metrics)
  BY DEF RouteInv, CallersOK
<1>3. x.pc = "idle" /\ x.answer = NoAnswer /\ Shaped(x)
  BY <1>1 DEF Idle, Shaped
<1>4. /\ caller' = [d \in Callers |-> caller'[d]]
      /\ caller'[c] = x /\ \A d \in Callers : d # c => caller'[d] = caller[d]
      /\ Uncounted' = Uncounted \ {c}
  BY <1>1, <1>2, <1>3, OneMoves
<1>5. \A d \in Callers : CallOK(caller'[d], seen', overlapped', metrics')
  <2>1. CallOK(x, seen, overlapped, metrics)
    BY <1>3 DEF CallOK
  <2> QED
    BY <1>2, <1>4, <2>1
<1>6. Uncounted' = Uncounted
  <2>1. c \notin Uncounted
    BY DEF Uncounted
  <2> QED
    BY <1>4, <2>1
<1>7. /\ metrics'.total + Cardinality(Uncounted') <= calls'
      /\ \A d \in Callers : caller'[d].pc = "matching" =>
           caller'[d].read.total + Cardinality(Uncounted') <= calls'
  <2>1. PICK u, n, t : u = Cardinality(Uncounted) /\ n = calls /\ t = metrics.total
    OBVIOUS
  <2>2. u \in Nat /\ n \in Nat /\ t \in Nat /\ t + u <= n
    BY <2>1, UncountedFinite DEF RouteInv, SharedOK, CallsCounted, Counters
  <2>3. ASSUME NEW d \in Callers, caller'[d].pc = "matching"
        PROVE  caller'[d].read.total + u <= n + 1
    <3>1. d # c /\ caller'[d] = caller[d] /\ caller[d].pc = "matching"
      BY <1>3, <1>4, <2>3
    <3>2. caller[d].read.total \in Nat /\ caller[d].read.total + u <= n
      BY <2>1, <3>1 DEF RouteInv, CallersOK, CallsCounted, CallOK, Counters
    <3> QED
      BY <2>2, <3>1, <3>2
  <2> QED
    BY <1>6, <2>1, <2>2, <2>3
<1>8. CallersOK' /\ CallsCounted'
  BY <1>4, <1>5, <1>7 DEF CallersOK, CallsCounted
<1>9. CacheOK'
  BY DEF RouteInv, CacheOK
<1>10. SharedOK'
  BY DEF RouteInv, SharedOK
<1> QED
  BY <1>8, <1>9, <1>10 DEF RouteInv

(* Nothing cached: the match begins, with a look at the counters.          *)
LEMMA MissKeeps ==
  ASSUME RouteInv, NEW c \in Callers, caller[c].pc = "lookup",
         caller' = [caller EXCEPT ![c] = [@ EXCEPT !.pc = "matching", !.read = metrics]],
         UNCHANGED <<strategyCache, metrics, currentAttempt, lastResponse, calls, seen,
                     overlapped>>
  PROVE  RouteInv'
<1>1. PICK x : x = [caller[c] EXCEPT !.pc = "matching", !.read = metrics]
  OBVIOUS
<1>2. caller = [d \in Callers |-> caller[d]] /\ Shaped(caller[c])
      /\ \A d \in Callers : CallOK(caller[d], seen, overlapped, metrics)
      /\ metrics \in Counters /\ caller[c].response \in Responses
  BY DEF RouteInv, CallersOK, SharedOK, CallOK
<1>3. x.pc = "matching" /\ x.read = metrics /\ x.response = caller[c].response /\ Shaped(x)
  BY <1>1, <1>2 DEF Shaped
<1>4. caller' = [caller EXCEPT ![c] = x]
  BY <1>1
<1>5. /\ caller' = [d \in Callers |-> caller'[d]]
      /\ caller'[c] = x /\ \A d \in Callers : d # c => caller'[d] = caller[d]
      /\ Uncounted' = Uncounted \cup {c}
  BY <1>2, <1>3, <1>4, OneMoves
<1>6. \A d \in Callers : CallOK(caller'[d], seen', overlapped', metrics')
  <2>1. CallOK(x, seen, overlapped, metrics)
    BY <1>2, <1>3 DEF CallOK
  <2> QED
    BY <1>2, <1>5, <2>1
<1>7. Uncounted' = Uncounted
  <2>1. c \in Uncounted
    BY DEF Uncounted
  <2> QED
    BY <1>5, <2>1
<1>8. \A d \in Callers : caller'[d].pc = "matching" =>
        caller'[d].read.total + Cardinality(Uncounted) <= calls
  <2> SUFFICES ASSUME NEW d \in Callers, caller'[d].pc = "matching"
               PROVE  caller'[d].read.total + Cardinality(Uncounted) <= calls
    OBVIOUS
  <2>1. CASE d = c
    BY <1>3, <1>5, <2>1 DEF RouteInv, CallsCounted
  <2>2. CASE d # c
    BY <1>5, <2>2 DEF RouteInv, CallsCounted
  <2> QED
    BY <2>1, <2>2
<1>9. CallersOK' /\ CallsCounted'
  BY <1>5, <1>6, <1>7, <1>8 DEF CallersOK, CallsCounted, RouteInv
<1>10. CacheOK'
  BY DEF RouteInv, CacheOK
<1>11. SharedOK'
  BY DEF RouteInv, SharedOK
<1> QED
  BY <1>9, <1>10, <1>11 DEF RouteInv

(* What a match makes of the counters.                                     *)
LEMMA CountedFacts ==
  ASSUME NEW read \in Counters, NEW now \in Counters, NEW hit \in BOOLEAN,
         NEW new \in Counted(read, now, hit)
  PROVE  /\ new \in Counters
         /\ new.total = read.total + 1 \/ new.total = now.total + 1
         /\ read = now /\ now.total = now.found + now.failed =>
              new.total = new.found + new.failed
<1>1. PICK t, f, x :
        /\ new = [total |-> t, found |-> f, failed |-> x]
        /\ t \in {read.total + 1, now.total + 1}
        /\ f \in IF hit THEN {read.found + 1, now.found + 1} ELSE {now.found}
        /\ x \in IF hit THEN {now.failed} ELSE {read.failed + 1, now.failed + 1}
  <2> DEFINE T == {read.total + 1, now.total + 1}
             F == IF hit THEN {read.found + 1, now.found + 1} ELSE {now.found}
             X == IF hit THEN {now.failed} ELSE {read.failed + 1, now.failed + 1}
  <2>1. Counted(read, now, hit)
          = {[total |-> t, found |-> f, failed |-> x] : t \in T, f \in F, x \in X}
    BY DEF Counted
  <2> HIDE DEF T, F, X
  <2>2. \E t \in T, f \in F, x \in X : new = [total |-> t, found |-> f, failed |-> x]
    BY <2>1
  <2> QED
    BY <2>2 DEF T, F, X
<1>2. /\ read.total \in Nat /\ now.total \in Nat /\ read.found \in Nat /\ now.found \in Nat
      /\ read.failed \in Nat /\ now.failed \in Nat
  BY DEF Counters
<1>3. t \in Nat /\ f \in Nat /\ x \in Nat
  BY <1>1, <1>2
<1>4. new.total = t /\ new.found = f /\ new.failed = x /\ new \in Counters
  BY <1>1, <1>3 DEF Counters
<1>5. ASSUME read = now, now.total = now.found + now.failed PROVE t = f + x
  <2>1. t = now.total + 1
    BY <1>1, <1>5
  <2>2. CASE hit
    <3>1. f = now.found + 1 /\ x = now.failed
      BY <1>1, <1>5, <2>2
    <3> QED
      BY <1>2, <1>5, <2>1, <3>1
  <2>3. CASE ~hit
    <3>1. f = now.found /\ x = now.failed + 1
      BY <1>1, <1>5, <2>3
    <3> QED
      BY <1>2, <1>5, <2>1, <3>1
  <2> QED
    BY <2>2, <2>3
<1> QED
  BY <1>1, <1>4, <1>5

LEMMA MatchKeeps ==
  ASSUME RouteInv, NEW c \in Callers, Match(c)
  PROVE  RouteInv'
<1>1. PICK m \in MatchHTTPResponse(DefaultHTTPPatternConfig, caller[c].response) :
        /\ metrics' \in Counted(caller[c].read, metrics, m.matched)
        /\ caller' = [caller EXCEPT ![c] = [@ EXCEPT !.pc = "storing",
                                                     !.answer = Recommend(m)]]
  BY DEF Match
<1>2. /\ caller[c].pc = "matching"
      /\ seen' = seen \cup {caller[c].response}
      /\ overlapped' = (overlapped \/ \E d \in Callers \ {c} : caller[d].pc = "matching")
      /\ UNCHANGED <<strategyCache, currentAttempt, lastResponse, calls>>
  BY DEF Match
<1>3. /\ caller = [d \in Callers |-> caller[d]] /\ Shaped(caller[c])
      /\ \A d \in Callers : CallOK(caller[d], seen, overlapped, metrics)
      /\ caller[c].response \in Responses /\ caller[c].read \in Counters
      /\ ~overlapped => caller[c].read = metrics
  BY <1>2 DEF RouteInv, CallersOK, CallOK
<1>4. PICK x, r : /\ r = caller[c].response
                  /\ x = [caller[c] EXCEPT !.pc = "storing", !.answer = Recommend(m)]
  OBVIOUS
<1>5. x.pc = "storing" /\ x.response = r /\ x.answer = Recommend(m) /\ Shaped(x)
  BY <1>3, <1>4 DEF Shaped
<1>6. /\ caller' = [d \in Callers |-> caller'[d]]
      /\ caller'[c] = x /\ \A d \in Callers : d # c => caller'[d] = caller[d]
      /\ Uncounted' = Uncounted \ {c}
  <2>1. caller' = [caller EXCEPT ![c] = x]
    BY <1>1, <1>4
  <2> QED
    BY <1>3, <1>5, <2>1, OneMoves
<1>7. /\ metrics \in Counters /\ calls \in Nat /\ overlapped \in BOOLEAN
      /\ seen \subseteq Responses
      /\ ~overlapped => metrics.total = metrics.found + metrics.failed
  BY DEF RouteInv, SharedOK
<1>8. /\ metrics' \in Counters
      /\ metrics'.total = caller[c].read.total + 1 \/ metrics'.total = metrics.total + 1
      /\ ~overlapped => metrics'.total = metrics'.found + metrics'.failed
  <2>1. m.matched \in BOOLEAN
    BY ResultFacts
  <2>2. PICK hit, read, now, new :
          /\ hit \in BOOLEAN /\ hit = m.matched /\ read = caller[c].read
          /\ now = metrics /\ new = metrics'
    BY <2>1
  <2>3. read \in Counters /\ now \in Counters /\ new \in Counted(read, now, hit)
    BY <1>1, <1>3, <1>7, <2>2
  <2>4. /\ new \in Counters
        /\ new.total = read.total + 1 \/ new.total = now.total + 1
        /\ read = now /\ now.total = now.found + now.failed =>
             new.total = new.found + new.failed
    BY <2>2, <2>3, CountedFacts
  <2> QED
    BY <1>3, <1>7, <2>2, <2>4
<1>9. \A d \in Callers : CallOK(caller'[d], seen', overlapped', metrics')
  <2> SUFFICES ASSUME NEW d \in Callers PROVE CallOK(caller'[d], seen', overlapped', metrics')
    OBVIOUS
  <2>1. CASE d = c
    <3>1. Recommend(m) \in Answers(r) /\ r \in seen' /\ r \in Responses
      BY <1>2, <1>3, <1>4 DEF Answers
    <3>2. CallOK(x, seen', overlapped', metrics')
      BY <1>5, <3>1 DEF CallOK
    <3> QED
      BY <1>6, <2>1, <3>2
  <2>2. CASE d # c
    <3>1. caller'[d] = caller[d] /\ CallOK(caller[d], seen, overlapped, metrics)
      BY <1>3, <1>6, <2>2
    <3>2. PICK y, s1, s2, o1, o2, m1, m2 :
            /\ y = caller[d] /\ s1 = seen /\ s2 = seen' /\ o1 = overlapped
            /\ o2 = overlapped' /\ m1 = metrics /\ m2 = metrics'
      OBVIOUS
    <3>3. s1 \subseteq s2 /\ (y.pc = "matching" => o2)
      BY <1>2, <2>2, <3>2
    <3>4. CallOK(y, s1, o1, m1)
      BY <3>1, <3>2
    <3>5. CallOK(y, s2, o2, m2)
      BY <3>3, <3>4, CallKept
    <3> QED
      BY <3>1, <3>2, <3>5
  <2> QED
    BY <2>1, <2>2
<1>10. Cardinality(Uncounted') = Cardinality(Uncounted) - 1
  <2>1. c \in Uncounted
    BY <1>2 DEF Uncounted
  <2> QED
    BY <1>6, <2>1, UncountedCounts
<1>11. /\ metrics'.total + Cardinality(Uncounted') <= calls'
       /\ \A d \in Callers : caller'[d].pc = "matching" =>
            caller'[d].read.total + Cardinality(Uncounted') <= calls'
  <2>1. PICK u, n, t, s, k : u = Cardinality(Uncounted) /\ n = calls /\ t = metrics.total
                             /\ s = metrics'.total /\ k = caller[c].read.total
    OBVIOUS
  <2>2. /\ u \in Nat /\ n \in Nat /\ t \in Nat /\ t + u <= n /\ k \in Nat /\ k + u <= n
        /\ s = k + 1 \/ s = t + 1
    BY <1>2, <1>3, <1>7, <1>8, <2>1, UncountedFinite DEF RouteInv, CallsCounted, Counters
  <2>3. s + (u - 1) <= n
    BY <2>2
  <2>4. ASSUME NEW d \in Callers, caller'[d].pc = "matching"
        PROVE  caller'[d].read.total + (u - 1) <= n
    <3>1. d # c /\ caller'[d] = caller[d] /\ caller[d].pc = "matching"
      BY <1>5, <1>6, <2>4
    <3>2. caller[d].read.total \in Nat /\ caller[d].read.total + u <= n
      BY <2>1, <3>1 DEF RouteInv, CallersOK, CallsCounted, CallOK, Counters
    <3> QED
      BY <2>2, <3>1, <3>2
  <2> QED
    BY <1>2, <1>10, <2>1, <2>3, <2>4
<1>12. CallersOK' /\ CallsCounted'
  BY <1>6, <1>9, <1>11 DEF CallersOK, CallsCounted
<1>13. CacheOK'
  BY <1>2 DEF RouteInv, CacheOK
<1>14. SharedOK'
  BY <1>2, <1>3, <1>7, <1>8 DEF RouteInv, SharedOK
<1> QED
  BY <1>12, <1>13, <1>14 DEF RouteInv

LEMMA StoreAnswerKeeps ==
  ASSUME RouteInv, NEW c \in Callers, Store(c)
  PROVE  RouteInv'
<1>1. PICK k, a, r : r = caller[c].response /\ k = CacheKey(r) /\ a = caller[c].answer
  OBVIOUS
<1>2. /\ caller[c].pc = "storing"
      /\ strategyCache' = [x \in DOMAIN strategyCache \cup {k} |->
                             IF x = k THEN a ELSE strategyCache[x]]
      /\ Apply(c, a)
      /\ UNCHANGED <<metrics, currentAttempt, lastResponse, calls, seen, overlapped>>
  BY <1>1 DEF Store
<1>3. r \in seen /\ r \in Responses /\ a \in Answers(r)
  BY <1>1, <1>2 DEF RouteInv, CallersOK, CallOK
<1>4. \A x \in DOMAIN strategyCache' :
        \E s \in seen : CacheKey(s) = x /\ strategyCache'[x] \in Answers(s)
  <2> SUFFICES ASSUME NEW x \in DOMAIN strategyCache'
               PROVE  \E s \in seen : CacheKey(s) = x /\ strategyCache'[x] \in Answers(s)
    OBVIOUS
  <2>1. CASE x = k
    <3>1. strategyCache'[x] = a
      BY <1>2, <2>1
    <3> QED
      BY <1>1, <1>3, <2>1, <3>1
  <2>2. CASE x # k
    <3>1. x \in DOMAIN strategyCache /\ strategyCache'[x] = strategyCache[x]
      BY <1>2, <2>2
    <3> QED
      BY <3>1 DEF RouteInv, CacheOK
  <2> QED
    BY <2>1, <2>2
<1>5. \E s \in seen : CacheKey(s) = CacheKey(caller[c].response) /\ a \in Answers(s)
  BY <1>1, <1>3
<1> QED
  BY <1>1, <1>2, <1>3, <1>4, <1>5, ApplyKeeps

LEMMA RouteStep ==
  RouteInv /\ [RouteNext]_routeVars => RouteInv'
<1> SUFFICES ASSUME RouteInv, [RouteNext]_routeVars PROVE RouteInv'
  OBVIOUS
<1>1. ASSUME NEW c \in Callers, NEW r \in Responses, NextDelay(c, r) PROVE RouteInv'
  <2>1. /\ caller[c].pc = "idle" /\ Begin(c, r) /\ calls' = calls + 1
        /\ lastResponse' \in Responses \cup {NoResponse}
        /\ currentAttempt' \in Nat
        /\ UNCHANGED <<strategyCache, metrics, seen, overlapped>>
    BY <1>1 DEF NextDelay, RouteInv, SharedOK
  <2> QED
    BY <2>1, BeginKeeps
<1>2. ASSUME NEW c \in Callers, NEW n \in Attempts, DelayCall(c, n) PROVE RouteInv'
  <2>1. /\ caller[c].pc = "idle" /\ calls' = calls + 1 /\ currentAttempt' \in Nat
        /\ lastResponse' \in Responses \cup {NoResponse}
        /\ UNCHANGED <<strategyCache, metrics, lastResponse, seen, overlapped>>
    BY <1>2, RoutingAssumption DEF DelayCall, RouteInv, SharedOK
  <2>2. CASE lastResponse # NoResponse
    <3>1. PICK r : r = lastResponse
      OBVIOUS
    <3>2. r \in Responses /\ Begin(c, r)
      BY <1>2, <2>1, <2>2, <3>1 DEF DelayCall
    <3> QED
      BY <2>1, <3>2, BeginKeeps
  <2>3. CASE lastResponse = NoResponse
    <3>1. PICK d : caller' = [caller EXCEPT ![c] = Idle(NoAnswer, d)]
      BY <1>2, <2>3 DEF DelayCall
    <3> QED
      BY <2>1, <3>1, FallbackKeeps
  <2> QED
    BY <2>2, <2>3
<1>3. ASSUME NEW c \in Callers, Lookup(c) PROVE RouteInv'
  <2>1. PICK k : k = CacheKey(caller[c].response)
    OBVIOUS
  <2>2. /\ caller[c].pc = "lookup"
        /\ UNCHANGED <<strategyCache, metrics, currentAttempt, lastResponse, calls, seen,
                       overlapped>>
    BY <1>3 DEF Lookup
  <2>3. CASE k \in DOMAIN strategyCache
    <3>1. PICK rec : rec = strategyCache[k]
      OBVIOUS
    <3>2. Apply(c, rec)
      BY <1>3, <2>1, <2>3, <3>1 DEF Lookup
    <3>3. \E s \in seen : CacheKey(s) = CacheKey(caller[c].response) /\ rec \in Answers(s)
      BY <2>1, <2>3, <3>1 DEF RouteInv, CacheOK
    <3>4. caller[c].response \in Responses
      BY <2>2 DEF RouteInv, CallersOK, CallOK
    <3>5. \A x \in DOMAIN strategyCache' :
            \E s \in seen : CacheKey(s) = x /\ strategyCache'[x] \in Answers(s)
      BY <2>2 DEF RouteInv, CacheOK
    <3> QED
      BY <2>2, <3>2, <3>3, <3>4, <3>5, ApplyKeeps
  <2>4. CASE k \notin DOMAIN strategyCache
    <3>1. caller' = [caller EXCEPT ![c] = [@ EXCEPT !.pc = "matching", !.read = metrics]]
      BY <1>3, <2>1, <2>4 DEF Lookup
    <3> QED
      BY <2>2, <3>1, MissKeeps
  <2> QED
    BY <2>3, <2>4
<1>4. ASSUME NEW c \in Callers, Match(c) PROVE RouteInv'
  BY <1>4, MatchKeeps
<1>5. ASSUME NEW c \in Callers, Store(c) PROVE RouteInv'
  BY <1>5, StoreAnswerKeeps
<1>6. CASE UNCHANGED routeVars
  <2>1. UNCHANGED <<strategyCache, metrics, currentAttempt, lastResponse, caller, calls,
                    seen, overlapped>>
    BY <1>6 DEF routeVars
  <2>2. CallersOK'
    BY <2>1 DEF RouteInv, CallersOK
  <2>3. Uncounted' = Uncounted
    BY <2>1 DEF Uncounted
  <2>4. CallsCounted'
    BY <2>1, <2>3 DEF RouteInv, CallsCounted
  <2>5. CacheOK' /\ SharedOK'
    BY <2>1 DEF RouteInv, CacheOK, SharedOK
  <2> QED
    BY <2>2, <2>4, <2>5 DEF RouteInv
<1> QED
  BY <1>1, <1>2, <1>3, <1>4, <1>5, <1>6 DEF RouteNext

(* For any number of goroutines on one selector and any responses: an      *)
(* answer, cached or not, has the strategy of the API that the URL or a    *)
(* header of the cache key tells; a rate limited GitHub response waits as  *)
(* long as it asks for, provided that no other response with the same      *)
(* cache key has been matched (of those nothing is said: the wait may be   *)
(* that of the other response); retries depend on the status, and only     *)
(* overlapping matches lose counts (SelectStrategy, MatchHTTPResponse and  *)
(* applyHTTPAwareStrategy).                                                *)
THEOREM RoutingSuitsResponses ==
  RouteSpec => []AnswersSuitResponses
<1>1. RouteInit => RouteInv
  <2> SUFFICES ASSUME RouteInit PROVE RouteInv
    OBVIOUS
  <2>1. \A c \in Callers : caller[c] = Idle(NoAnswer, -1)
    BY DEF RouteInit
  <2>2. Idle(NoAnswer, -1).pc = "idle" /\ Idle(NoAnswer, -1).answer = NoAnswer
        /\ Shaped(Idle(NoAnswer, -1))
    BY DEF Idle, Shaped
  <2>3. CallersOK
    BY <2>1, <2>2 DEF RouteInit, CallersOK, CallOK
  <2>4. CacheOK
    BY DEF RouteInit, CacheOK
  <2>5. SharedOK /\ metrics.total = 0 /\ calls = 0
    <3>1. metrics \in Counters /\ metrics.total = 0 /\ metrics.found = 0 /\ metrics.failed = 0
      BY DEF RouteInit, Counters
    <3>2. /\ lastResponse = NoResponse /\ seen = {} /\ currentAttempt = 0 /\ calls = 0
          /\ overlapped = FALSE
      BY DEF RouteInit
    <3>3. metrics.total = metrics.found + metrics.failed
      BY <3>1
    <3> QED
      BY <3>1, <3>2, <3>3 DEF SharedOK
  <2>6. Cardinality(Uncounted) = 0
    <3>1. Uncounted = {}
      BY <2>1, <2>2 DEF Uncounted
    <3> QED
      BY <3>1, FS_EmptySet
  <2>7. CallsCounted
    BY <2>1, <2>2, <2>5, <2>6 DEF CallsCounted
  <2> QED
    BY <2>3, <2>4, <2>5, <2>7 DEF RouteInv
<1> QED
  BY <1>1, RouteStep, RouteInvSuits, PTL DEF RouteSpec

-----------------------------------------------------------------------------
(* Pattern sets, for any names, texts and documents and any meaning of the *)
(* JSON patterns.                                                          *)

Valid(ps) ==
  \A n \in SetNames : \E m \in NewJSONPatternMatcher(ps[n].text) : m.status = "ok"

SetOK ==
  /\ setPhase \in {"new", "loaded", "error", "panic", "matching", "done"}
  /\ setPhase = "new" => validated = FALSE
  /\ setPhase \in {"new", "loaded"} => tried = <<>>
  /\ setPhase # "new" => patterns \in [SetNames -> Definitions]
  /\ input \in Documents \cup {NotJSON}

LoopOK ==
  /\ tried \in Seq(SetNames)
  /\ matching \subseteq Range(tried) /\ skipped \subseteq Range(tried)

BestOK ==
  /\ best \in matching \cup {"none"}
  /\ best = "none" => matching = {}
  /\ \A n \in matching : patterns[n].priority <= patterns[best].priority

(* What Validate has accepted stays so.                                    *)
ValidOK ==
  validated /\ (setPhase \in {"loaded", "matching"} \/ tried # <<>>) => Valid(patterns)

SetInv == SetOK /\ LoopOK /\ BestOK /\ ValidOK /\ ValidatedIsUsed

LEMMA BadMatcherStatus ==
  ASSUME NEW s
  PROVE  BadMatcher(s).status = s
BY DEF BadMatcher, Matcher

(* A text with at most one operator that has once made a matcher always    *)
(* makes one.                                                              *)
LEMMA SingleMatcher ==
  ASSUME NEW text \in Texts, ~(Len(text.ops) > 1),
         \E m \in NewJSONPatternMatcher(text) : m.status = "ok"
  PROVE  /\ ~text.multiline
         /\ \A m \in NewJSONPatternMatcher(text) : m.status = "ok"
<1>1. PICK ops, k : ops = text.ops /\ k = Len(ops)
  OBVIOUS
<1>2. k \in Nat /\ DOMAIN ops = 1 .. k /\ k <= 1
  <2>1. ops \in Seq({"==", "!=", "=~", ">", "<", ">=", "<="})
    BY <1>1, PatternSetsAssumption
  <2>2. k \in Nat /\ DOMAIN ops = 1 .. k
    BY <1>1, <2>1, LenProperties
  <2> QED
    BY <1>1, <2>2
<1>3. ~(text.multiline \/ text.ops = <<>>)
  <2>1. ASSUME text.multiline \/ text.ops = <<>>
        PROVE  FALSE
    <3>1. NewJSONPatternMatcher(text) = {BadMatcher("error")}
      BY <2>1, Zenon DEF NewJSONPatternMatcher
    <3>2. PICK m \in NewJSONPatternMatcher(text) : m.status = "ok"
      OBVIOUS
    <3>3. m = BadMatcher("error") /\ m.status = "ok"
      BY <3>1, <3>2
    <3>4. BadMatcher("error").status = "error"
      BY BadMatcherStatus, Zenon
    <3>5. "error" = "ok"
      BY <3>3, <3>4, Zenon
    <3> QED
      BY <3>5
  <2> QED
    BY <2>1
<1>4. NewJSONPatternMatcher(text) = {ParsedAt(text, i) : i \in DOMAIN ops}
  BY <1>1, <1>3, Zenon DEF NewJSONPatternMatcher
<1>5. PICK m \in NewJSONPatternMatcher(text) : m.status = "ok"
  OBVIOUS
<1>6. PICK i \in DOMAIN ops : m = ParsedAt(text, i)
  BY <1>4, <1>5
<1>7. \A j \in DOMAIN ops : j = i
  BY <1>2, <1>6
<1>8. \A m2 \in NewJSONPatternMatcher(text) : m2 = m
  BY <1>4, <1>6, <1>7, Zenon
<1> QED
  BY <1>3, <1>5, <1>8, Zenon

LEMMA RangeAppend ==
  ASSUME NEW s \in Seq(SetNames), NEW n \in SetNames, NEW t, t = Append(s, n)
  PROVE  /\ t \in Seq(SetNames) /\ t # <<>> /\ t[Len(t)] = n
         /\ Range(t) = Range(s) \cup {n}
<1>1. PICK k : k = Len(s)
  OBVIOUS
<1>2. /\ k \in Nat /\ DOMAIN s = 1 .. k
      /\ t \in Seq(SetNames) /\ Len(t) = k + 1
      /\ \A i \in 1 .. k : t[i] = s[i]
      /\ t[k + 1] = n
  BY <1>1, AppendProperties, LenProperties
<1>3. DOMAIN t = 1 .. k + 1
  BY <1>2, LenProperties
<1>4. t # <<>>
  BY <1>2, EmptySeq
<1>5. Range(t) \subseteq Range(s) \cup {n}
  <2>1. ASSUME NEW i \in 1 .. k + 1
        PROVE  t[i] \in Range(s) \cup {n}
    <3>1. CASE i \in 1 .. k
      BY <1>2, <3>1 DEF Range
    <3>2. CASE i = k + 1
      BY <1>2, <3>2
    <3> QED
      BY <1>2, <2>1, <3>1, <3>2
  <2> QED
    BY <1>3, <2>1 DEF Range
<1>6. Range(s) \cup {n} \subseteq Range(t)
  <2>1. k + 1 \in 1 .. k + 1 /\ \A i \in 1 .. k : i \in 1 .. k + 1
    BY <1>2
  <2> QED
    BY <1>2, <1>3, <2>1 DEF Range
<1> QED
  BY <1>2, <1>4, <1>5, <1>6

LEMMA EmptyRange == Range(<<>>) = {}
BY DEF Range

LEMMA SetInitInv == SetInit => SetInv
<1> SUFFICES ASSUME SetInit
             PROVE  SetInv
  OBVIOUS
<1>1. SetOK
  BY DEF SetInit, SetOK
<1>2. LoopOK
  BY EmptyRange, EmptySeq DEF SetInit, LoopOK
<1>3. BestOK
  BY DEF SetInit, BestOK
<1>4. ValidOK /\ ValidatedIsUsed
  BY DEF SetInit, ValidOK, ValidatedIsUsed
<1> QED
  BY <1>1, <1>2, <1>3, <1>4 DEF SetInv

(* A new set, before any pattern is tried.                                 *)
LEMMA NewSetInv ==
  ASSUME SetInv, setPhase = "new", NEW ps \in [SetNames -> Definitions],
         LoadPatternSet(ps) \/ BuildPatternSet(ps)
  PROVE  SetInv'
<1>1. /\ tried = <<>> /\ ~validated /\ input \in Documents \cup {NotJSON}
      /\ LoopOK /\ best \in matching \cup {"none"}
  BY DEF SetInv, SetOK, BestOK
<1>2. matching = {} /\ skipped = {}
  BY <1>1, EmptyRange DEF LoopOK
<1>3. /\ patterns' = ps /\ input' = input /\ tried' = <<>> /\ best' = best
      /\ matching' = {} /\ skipped' = {}
  BY <1>1, <1>2 DEF LoadPatternSet, BuildPatternSet
<1>4. best' = "none"
  BY <1>1, <1>2, <1>3
<1>5. setPhase' \in {"loaded", "error", "panic"} /\ (setPhase' = "loaded" /\ validated' => Valid(ps))
  <2>1. CASE LoadPatternSet(ps)
    <3>1. DOMAIN ps = SetNames
      OBVIOUS
    <3>2. PICK made :
            /\ \A n \in SetNames : made[n] \in NewJSONPatternMatcher(ps[n].text)
            /\ setPhase' \in IF \A n \in SetNames : made[n].status = "ok"
                             THEN {"loaded"}
                             ELSE {made[n].status : n \in SetNames} \ {"ok"}
      BY <2>1, <3>1, Zenon DEF LoadPatternSet
    <3>3. \A n \in SetNames : made[n].status \in {"ok", "error", "panic"}
      <4>1. ASSUME NEW text, NEW m \in NewJSONPatternMatcher(text)
            PROVE  m.status \in {"ok", "error", "panic"}
        <5>1. \/ m = BadMatcher("error") \/ m = BadMatcher("panic")
              \/ \E path, op, value : m = Matcher("ok", path, op, value)
          BY <4>1, Zenon DEF NewJSONPatternMatcher, ParsedAt
        <5>2. CASE m = BadMatcher("error")
          BY <5>2 DEF BadMatcher, Matcher
        <5>3. CASE m = BadMatcher("panic")
          BY <5>3 DEF BadMatcher, Matcher
        <5>4. CASE \E path, op, value : m = Matcher("ok", path, op, value)
          BY <5>4 DEF Matcher
        <5> QED
          BY <5>1, <5>2, <5>3, <5>4
      <4> QED
        BY <3>2, <4>1
    <3>4. CASE \A n \in SetNames : made[n].status = "ok"
      <4>1. Valid(ps)
        BY <3>2, <3>4 DEF Valid
      <4>2. setPhase' = "loaded"
        BY <3>2, <3>4
      <4> QED
        BY <4>1, <4>2
    <3>5. CASE ~ \A n \in SetNames : made[n].status = "ok"
      <4>1. PICK n \in SetNames : setPhase' = made[n].status /\ setPhase' # "ok"
        BY <3>2, <3>5
      <4>2. setPhase' \in {"error", "panic"}
        BY <3>3, <4>1
      <4> QED
        BY <4>2
    <3> QED
      BY <3>4, <3>5
  <2>2. CASE BuildPatternSet(ps)
    BY <1>1, <2>2 DEF BuildPatternSet
  <2> QED
    BY <2>1, <2>2
<1>6. SetOK'
  BY <1>1, <1>3, <1>5 DEF SetOK
<1>7. LoopOK'
  BY <1>3, EmptyRange, EmptySeq DEF LoopOK
<1>8. BestOK'
  BY <1>3, <1>4 DEF BestOK
<1>9. ValidOK' /\ ValidatedIsUsed'
  BY <1>3, <1>5 DEF ValidOK, ValidatedIsUsed
<1> QED
  BY <1>6, <1>7, <1>8, <1>9 DEF SetInv

LEMMA StartMatchInv ==
  ASSUME SetInv, NEW doc \in Documents, StartMatch(doc)
  PROVE  SetInv'
<1>1. /\ setPhase = "loaded" /\ setPhase' = "matching" /\ input' = doc
      /\ patterns' = patterns /\ validated' = validated /\ tried' = tried
      /\ best' = best /\ matching' = matching /\ skipped' = skipped
  BY DEF StartMatch
<1>2. SetOK'
  BY <1>1 DEF SetInv, SetOK
<1>3. LoopOK' /\ BestOK'
  BY <1>1 DEF SetInv, LoopOK, BestOK
<1>4. ValidOK'
  BY <1>1 DEF SetInv, ValidOK
<1>5. ValidatedIsUsed'
  BY <1>1 DEF SetInv, ValidatedIsUsed
<1> QED
  BY <1>2, <1>3, <1>4, <1>5 DEF SetInv

LEMMA FinishMatchInv ==
  ASSUME SetInv, FinishMatch
  PROVE  SetInv'
<1>1. /\ setPhase = "matching" /\ setPhase' = "done" /\ input' = input
      /\ patterns' = patterns /\ validated' = validated /\ tried' = tried
      /\ best' = best /\ matching' = matching /\ skipped' = skipped
  BY DEF FinishMatch
<1>2. SetOK'
  BY <1>1 DEF SetInv, SetOK
<1>3. LoopOK' /\ BestOK'
  BY <1>1 DEF SetInv, LoopOK, BestOK
<1>4. ValidOK'
  BY <1>1 DEF SetInv, ValidOK
<1>5. ValidatedIsUsed'
  BY <1>1 DEF SetInv, ValidatedIsUsed
<1> QED
  BY <1>2, <1>3, <1>4, <1>5 DEF SetInv

(* One turn of the loop: a new best match beats all that matched before.   *)
LEMMA TryPatternInv ==
  ASSUME SetInv, NEW n \in SetNames, TryPattern(n)
  PROVE  SetInv'
<1>1. PICK text : text = patterns[n].text
  OBVIOUS
<1>2. PICK m, hit :
        /\ m \in IF text.multiline THEN {BadMatcher("ok")} ELSE NewJSONPatternMatcher(text)
        /\ hit \in BOOLEAN
        /\ setPhase' = IF m.status = "panic" THEN "panic" ELSE setPhase
        /\ skipped' = IF m.status = "ok" THEN skipped ELSE skipped \cup {n}
        /\ matching' = IF hit THEN matching \cup {n} ELSE matching
        /\ best' = IF hit /\ Better(n) THEN n ELSE best
  <2>1. PICK m \in IF text.multiline THEN {BadMatcher("ok")} ELSE NewJSONPatternMatcher(text) :
          LET hit == /\ m.status = "ok"
                     /\ IF text.multiline THEN input \in text.matches
                        ELSE JSONMatches(m, input)
          IN
          /\ setPhase' = IF m.status = "panic" THEN "panic" ELSE setPhase
          /\ skipped' = IF m.status = "ok" THEN skipped ELSE skipped \cup {n}
          /\ matching' = IF hit THEN matching \cup {n} ELSE matching
          /\ best' = IF hit /\ Better(n) THEN n ELSE best
    BY <1>1, Zenon DEF TryPattern
  <2> DEFINE found == /\ m.status = "ok"
                      /\ IF text.multiline THEN input \in text.matches
                         ELSE JSONMatches(m, input)
  <2>2. CASE found
    <3>1. /\ matching' = matching \cup {n}
          /\ best' = IF Better(n) THEN n ELSE best
      BY <2>1, <2>2, Zenon
    <3> QED
      BY <2>1, <3>1, Zenon
  <2>3. CASE ~found
    <3>1. matching' = matching /\ best' = best
      BY <2>1, <2>3, Zenon
    <3> QED
      BY <2>1, <3>1, Zenon
  <2> QED
    BY <2>2, <2>3
<1>3. /\ setPhase = "matching" /\ tried' = Append(tried, n)
      /\ patterns' = patterns /\ validated' = validated /\ input' = input
  BY DEF TryPattern
<1>4. tried \in Seq(SetNames) /\ matching \subseteq Range(tried) /\ skipped \subseteq Range(tried)
  BY DEF SetInv, LoopOK
<1>5. /\ tried' \in Seq(SetNames) /\ tried' # <<>> /\ tried'[Len(tried')] = n
      /\ Range(tried') = Range(tried) \cup {n}
  <2>1. PICK t : t = tried'
    OBVIOUS
  <2>2. /\ t \in Seq(SetNames) /\ t # <<>> /\ t[Len(t)] = n
        /\ Range(t) = Range(tried) \cup {n}
    BY <1>3, <1>4, <2>1, RangeAppend
  <2> QED
    BY <2>1, <2>2
<1>6. patterns \in [SetNames -> Definitions] /\ text \in Texts
  <2>1. patterns \in [SetNames -> Definitions]
    BY <1>3 DEF SetInv, SetOK
  <2> QED
    BY <1>1, <2>1 DEF Definitions
<1>7. SetOK'
  BY <1>2, <1>3, <1>5, <1>6 DEF SetInv, SetOK
<1>8. LoopOK'
  BY <1>2, <1>4, <1>5 DEF LoopOK
<1>9. BestOK'
  <2>1. \A k \in SetNames : patterns[k].priority \in Int /\ patterns[k].priority >= 0
    <3>1. \A k \in SetNames : patterns[k] \in Definitions
      BY <1>6
    <3>2. \A k \in SetNames : patterns[k].priority \in Priorities
      BY <3>1 DEF Definitions
    <3>3. Priorities \subseteq 0 .. 3
      BY PatternSetsAssumption, Zenon
    <3>4. \A x \in Priorities : x \in Int /\ x >= 0
      BY <3>3
    <3> QED
      BY <3>2, <3>4, Zenon
  <2>2. "none" \notin SetNames
    BY PatternSetsAssumption
  <2>3. matching \subseteq SetNames
    BY <1>4, RangeOfSeq
  <2>4. /\ best \in matching \cup {"none"} /\ (best = "none" => matching = {})
        /\ \A k \in matching : patterns[k].priority <= patterns[best].priority
    BY DEF SetInv, BestOK
  <2>5. CASE ~hit
    BY <1>2, <1>3, <2>4, <2>5 DEF BestOK
  <2>6. CASE hit /\ Better(n)
    <3>1. best' = n /\ matching' = matching \cup {n} /\ n # "none"
      BY <1>2, <2>2, <2>6
    <3>2. \A k \in matching : patterns[k].priority <= patterns[n].priority
      <4>1. CASE best = "none"
        BY <2>4, <4>1
      <4>2. CASE best # "none"
        <5>1. best \in SetNames /\ patterns[n].priority > patterns[best].priority
          BY <2>3, <2>4, <2>6, <4>2 DEF Better
        <5> QED
          BY <2>1, <2>3, <2>4, <5>1
      <4> QED
        BY <4>1, <4>2
    <3>3. patterns[n].priority <= patterns[n].priority
      BY <2>1
    <3> QED
      BY <1>3, <3>1, <3>2, <3>3 DEF BestOK
  <2>7. CASE hit /\ ~Better(n)
    <3>1. best' = best /\ matching' = matching \cup {n}
      BY <1>2, <2>7
    <3>2. best # "none"
      BY <2>1, <2>7 DEF Better
    <3>3. patterns[n].priority <= patterns[best].priority
      <4>1. best \in SetNames
        BY <2>3, <2>4, <3>2
      <4> QED
        BY <2>1, <2>7, <3>2, <4>1 DEF Better
    <3> QED
      BY <1>3, <2>4, <3>1, <3>2, <3>3 DEF BestOK
  <2> QED
    BY <1>2, <2>5, <2>6, <2>7
<1>10. validated => Valid(patterns)
  BY <1>3 DEF SetInv, ValidOK
<1>11. ValidOK'
  BY <1>3, <1>10 DEF ValidOK
<1>12. ValidatedIsUsed'
  <2>1. validated /\ m.status # "ok" => Len(text.ops) > 1
    <3>1. ASSUME validated, ~(Len(text.ops) > 1)
          PROVE  m.status = "ok"
      <4>1. \E k \in NewJSONPatternMatcher(text) : k.status = "ok"
        BY <1>1, <1>10, <3>1 DEF Valid
      <4>2. /\ ~text.multiline
            /\ \A k \in NewJSONPatternMatcher(text) : k.status = "ok"
        BY <1>6, <3>1, <4>1, SingleMatcher
      <4> QED
        BY <1>2, <4>2
    <3> QED
      BY <3>1
  <2>2. \A k \in skipped : validated => Len(patterns[k].text.ops) > 1
    <3>1. tried = <<>> => skipped = {}
      BY <1>4, EmptyRange
    <3> QED
      BY <3>1 DEF SetInv, ValidatedIsUsed
  <2>3. validated => \A k \in skipped' : Len(patterns[k].text.ops) > 1
    BY <1>1, <1>2, <2>1, <2>2
  <2>4. validated /\ setPhase' = "panic" => Len(patterns[n].text.ops) > 1
    BY <1>1, <1>2, <1>3, <2>1
  <2> QED
    BY <1>3, <1>5, <2>3, <2>4 DEF ValidatedIsUsed
<1> QED
  BY <1>7, <1>8, <1>9, <1>11, <1>12 DEF SetInv

LEMMA SetNextInv == SetInv /\ [SetNext]_setVars => SetInv'
<1> SUFFICES ASSUME SetInv, [SetNext]_setVars
             PROVE  SetInv'
  OBVIOUS
<1>1. ASSUME NEW ps \in [SetNames -> Definitions], LoadPatternSet(ps) \/ BuildPatternSet(ps)
      PROVE  SetInv'
  <2>1. setPhase = "new"
    BY <1>1 DEF LoadPatternSet, BuildPatternSet
  <2> QED
    BY <1>1, <2>1, NewSetInv
<1>2. CASE UNCHANGED setVars
  <2>1. SetOK' /\ LoopOK' /\ BestOK'
    BY <1>2 DEF setVars, SetInv, SetOK, LoopOK, BestOK
  <2>2. ValidOK' /\ ValidatedIsUsed'
    BY <1>2 DEF setVars, SetInv, ValidOK, ValidatedIsUsed
  <2> QED
    BY <2>1, <2>2 DEF SetInv
<1> QED
  BY <1>1, <1>2, StartMatchInv, TryPatternInv, FinishMatchInv DEF SetNext

(* For any set, any document and any order of the map: MatchWithContext    *)
(* returns a match as soon as a pattern matches, of the highest priority;  *)
(* and a set that Validate accepted is used as a whole, except for texts   *)
(* with several operators.                                                 *)
THEOREM BestMatchIsReturned == SetSpec => []BestMatchReturned
<1>1. SetInv => BestMatchReturned
  <2> SUFFICES ASSUME SetInv
               PROVE  BestMatchReturned
    OBVIOUS
  <2>1. Range(tried) \subseteq SetNames
    BY RangeOfSeq DEF SetInv, LoopOK
  <2>2. SetTypeOK
    BY <2>1 DEF SetInv, SetOK, LoopOK, BestOK, SetTypeOK
  <2>3. BestPriorityWins
    <3>1. "none" \notin matching
      BY <2>1, PatternSetsAssumption DEF SetInv, LoopOK
    <3> QED
      BY <3>1 DEF SetInv, BestOK, BestPriorityWins
  <2> QED
    BY <2>2, <2>3 DEF SetInv, BestMatchReturned
<1> QED
  BY <1>1, SetInitInv, SetNextInv, PTL DEF SetSpec
=============================================================================
