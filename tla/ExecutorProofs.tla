--------------------------- MODULE ExecutorProofs ---------------------------
(* Proofs about the retry loop, for any number of attempts, any exit codes *)
(* a process can have, any delays, and commands that end, fail to start,   *)
(* hang or die at any moment.                                              *)
EXTENDS Executor, FiniteSetTheorems, TLAPS

-----------------------------------------------------------------------------
(* The inductive invariant.                                                *)

Outputs == [exit: -1 .. 255, matches: SUBSET Patterns]

Reasons == {"failure_pattern_matched", "success_pattern_matched", "exit_code_0",
            "exit_code", "timeout", "error"}

Entries == [out: Outputs, timeout: BOOLEAN, reason: Reasons]

Looping == {"ready", "running", "terminating", "sleeping"}

Undecided(out) == ~Failed(out) /\ ~Succeeded(out)

(* Attempts that have ended, and how, by the books of the daemon's metrics *)
(* and by those of the summary.                                            *)
GoodAttempts(m) == {i \in 1 .. Len(m) : m[i].success}
BadAttempts(m)  == {i \in 1 .. Len(m) : ~m[i].success}

BooksInv ==
  /\ stats.successful = Cardinality(GoodAttempts(attemptMetrics))
  /\ stats.failed = Cardinality(BadAttempts(attemptMetrics))
  /\ stats.successful + stats.failed = Len(attemptMetrics)

(* Where the loop is tells how many attempts have begun and ended.         *)
LoopInv ==
  /\ phase \in {"ready", "sleeping"} => attempt = Len(history) /\ attempt < config.attempts
  /\ phase \in {"running", "terminating"} =>
       attempt = Len(history) + 1 /\ attempt <= config.attempts
  /\ phase \in Looping => stats.total = attempt /\ Len(attemptMetrics) = Len(history)
  /\ phase \in Looping \cup {"failed"} => result = NoResult
  /\ phase \in {"returned", "exiting"} => result # NoResult

(* The reasons given, and the flag that is never reset.                    *)
HistoryInv ==
  /\ history \in Seq(Entries)
  /\ timedOut <=> \E i \in 1 .. Len(history) : history[i].timeout
  /\ \A i \in 1 .. Len(history) :
       history[i].reason = "timeout" <=>
         Undecided(history[i].out) /\ \E j \in 1 .. i : history[j].timeout

(* What a Result says, about the last attempt and about the run.           *)
ResultInv ==
  result # NoResult =>
    /\ Len(history) > 0
    /\ result.attempts = Len(history)
    /\ Len(history) <= config.attempts
    /\ stats.total = Len(history)
    /\ Len(attemptMetrics) = Len(history)
    /\ result.exit = history[Len(history)].out.exit
    /\ result.reason = history[Len(history)].reason
    /\ result.reason = "failure_pattern_matched" <=> Failed(history[Len(history)].out)
    /\ result.success \in BOOLEAN
    /\ result.success <=> Succeeded(history[Len(history)].out)
    /\ result.timedOut <=> timedOut
    /\ result.metrics = NewRunMetrics(result.success, attemptMetrics)
    /\ phase = "exited" => ExitStatusMatches

(* The metrics are sent at most once, after Run has returned.              *)
SenderInv ==
  /\ phase \notin {"exiting", "exited"} => sender = "none"
  /\ sender # "done" => received = <<>>
  /\ result # NoResult => received \in {<<>>, <<result.metrics>>}

IInv ==
  ExecutorTypeOK /\ BooksInv /\ LoopInv /\ HistoryInv /\ StopsAtDecision /\ ResultInv /\ SenderInv

-----------------------------------------------------------------------------
(* What the helpers of Run compute.                                        *)

(* One more element at the end of a list.                                  *)
LEMMA AppendFacts ==
  ASSUME NEW S, NEW s \in Seq(S), NEW e \in S
  PROVE  /\ Append(s, e) \in Seq(S)
         /\ Len(s) \in Nat
         /\ Len(Append(s, e)) = Len(s) + 1
         /\ Append(s, e)[Len(s) + 1] = e
         /\ \A i \in 1 .. Len(s) : Append(s, e)[i] = s[i]
  OBVIOUS

(* CheckSuccess and processAttemptResult decide by the precedence of       *)
(* failure pattern, success pattern and exit code.                         *)
LEMMA CheckMeaning ==
  ASSUME NEW out
  PROVE  /\ CheckSuccess(out).success \in BOOLEAN
         /\ CheckSuccess(out).success <=> Succeeded(out)
         /\ CheckSuccess(out).reason \in Reasons \ {"timeout", "error"}
         /\ CheckSuccess(out).reason = "failure_pattern_matched" <=> Failed(out)
         /\ ShouldStop(out) <=> ~Undecided(out)
<1>1. CASE Failed(out)
  BY <1>1 DEF CheckSuccess, ShouldStop, Undecided, Failed, Succeeded, Reasons
<1>2. CASE ~Failed(out) /\ "success" \in out.matches
  BY <1>2 DEF CheckSuccess, ShouldStop, Undecided, Failed, Succeeded, Reasons
<1>3. CASE ~Failed(out) /\ "success" \notin out.matches /\ out.exit = 0
  BY <1>3 DEF CheckSuccess, ShouldStop, Undecided, Failed, Succeeded, Reasons
<1>4. CASE ~Failed(out) /\ "success" \notin out.matches /\ out.exit # 0
  BY <1>4 DEF CheckSuccess, ShouldStop, Undecided, Failed, Succeeded, Reasons
<1> QED
  BY <1>1, <1>2, <1>3, <1>4

(* The attempts of a list are finitely many.                               *)
LEMMA AttemptsFinite ==
  ASSUME NEW S, NEW m \in Seq(S)
  PROVE  /\ IsFiniteSet(GoodAttempts(m)) /\ Cardinality(GoodAttempts(m)) \in Nat
         /\ IsFiniteSet(BadAttempts(m)) /\ Cardinality(BadAttempts(m)) \in Nat
<1>1. IsFiniteSet(1 .. Len(m))
  BY FS_Interval
<1>2. GoodAttempts(m) \in SUBSET (1 .. Len(m)) /\ BadAttempts(m) \in SUBSET (1 .. Len(m))
  BY DEF GoodAttempts, BadAttempts
<1>3. IsFiniteSet(GoodAttempts(m)) /\ IsFiniteSet(BadAttempts(m))
  BY <1>1, <1>2, FS_Subset
<1> QED
  BY <1>3, FS_CardinalityType

(* NewRunMetrics counts one attempt more, on the right side.               *)
LEMMA CountAppend ==
  ASSUME NEW S, NEW m \in Seq(S), NEW e \in S
  PROVE  /\ Cardinality(GoodAttempts(Append(m, e))) =
              IF e.success THEN Cardinality(GoodAttempts(m)) + 1
              ELSE Cardinality(GoodAttempts(m))
         /\ Cardinality(BadAttempts(Append(m, e))) =
              IF e.success THEN Cardinality(BadAttempts(m))
              ELSE Cardinality(BadAttempts(m)) + 1
<1> DEFINE n == Len(m) + 1
           longer == Append(m, e)
<1>1. /\ Len(m) \in Nat /\ Len(longer) = n /\ longer[n] = e
      /\ \A i \in 1 .. Len(m) : longer[i] = m[i]
  BY AppendFacts
<1>2. n \notin GoodAttempts(m) /\ n \notin BadAttempts(m)
  BY <1>1 DEF GoodAttempts, BadAttempts
<1> HIDE DEF longer
<1>3. CASE e.success
  <2>1. GoodAttempts(longer) = GoodAttempts(m) \cup {n}
    BY <1>1, <1>3 DEF GoodAttempts
  <2>2. BadAttempts(longer) = BadAttempts(m)
    BY <1>1, <1>3 DEF BadAttempts
  <2> HIDE DEF n
  <2>3. Cardinality(GoodAttempts(longer)) = Cardinality(GoodAttempts(m)) + 1
    BY <1>2, <2>1, AttemptsFinite, FS_AddElement
  <2> QED
    BY <1>3, <2>2, <2>3 DEF longer
<1>4. CASE ~e.success
  <2>1. BadAttempts(longer) = BadAttempts(m) \cup {n}
    BY <1>1, <1>4 DEF BadAttempts
  <2>2. GoodAttempts(longer) = GoodAttempts(m)
    BY <1>1, <1>4 DEF GoodAttempts
  <2> HIDE DEF n
  <2>3. Cardinality(BadAttempts(longer)) = Cardinality(BadAttempts(m)) + 1
    BY <1>2, <2>1, AttemptsFinite, FS_AddElement
  <2> QED
    BY <1>4, <2>2, <2>3 DEF longer
<1> QED
  BY <1>3, <1>4

(* RunStats after an attempt has ended.                                    *)
LEMMA StatsEnd ==
  ASSUME NEW s \in [total: Nat, successful: Nat, failed: Nat], NEW good \in BOOLEAN
  PROVE  /\ RecordAttemptEnd(s, good) \in [total: Nat, successful: Nat, failed: Nat]
         /\ RecordAttemptEnd(s, good).total = s.total
         /\ RecordAttemptEnd(s, good).successful =
              IF good THEN s.successful + 1 ELSE s.successful
         /\ RecordAttemptEnd(s, good).failed = IF good THEN s.failed ELSE s.failed + 1
<1>1. CASE good = TRUE
  BY <1>1 DEF RecordAttemptEnd
<1>2. CASE good = FALSE
  <2>1. RecordAttemptEnd(s, good) = [s EXCEPT !.failed = @ + 1]
    BY <1>2 DEF RecordAttemptEnd
  <2>2. s.failed + 1 \in Nat
    OBVIOUS
  <2> QED
    BY <1>2, <2>1, <2>2
<1> QED
  BY <1>1, <1>2

-----------------------------------------------------------------------------
(* Before the first attempt all books are empty.                           *)
LEMMA InitIInv == ExecutorInit => IInv
<1> SUFFICES ASSUME ExecutorInit PROVE IInv
  OBVIOUS
<1>1. ExecutorTypeOK
  <2>1. stats \in [total: Nat, successful: Nat, failed: Nat]
    BY DEF ExecutorInit, NewRunStats
  <2>2. attemptMetrics \in Seq([exit: Int, success: BOOLEAN])
    BY DEF ExecutorInit
  <2>3. attempt \in 0 .. MaxAttempts /\ exitCode \in 0 .. 255
    BY ExecutorAssumption DEF ExecutorInit
  <2>4. timedOut \in BOOLEAN
    BY DEF ExecutorInit
  <2>5. result = NoResult
    BY DEF ExecutorInit
  <2> QED
    BY <2>1, <2>2, <2>3, <2>4, <2>5 DEF ExecutorInit, ExecutorTypeOK
<1>2. BooksInv
  <2>1. GoodAttempts(attemptMetrics) = {} /\ BadAttempts(attemptMetrics) = {}
    BY DEF ExecutorInit, GoodAttempts, BadAttempts
  <2>2. stats.successful = 0 /\ stats.failed = 0 /\ Len(attemptMetrics) = 0
    BY DEF ExecutorInit, NewRunStats
  <2> QED
    BY <2>1, <2>2, FS_EmptySet DEF BooksInv
<1>3. LoopInv
  <2>1. config.attempts \in 1 .. MaxAttempts
    BY DEF ExecutorInit, Configs
  <2> QED
    BY <2>1, ExecutorAssumption DEF ExecutorInit, LoopInv, Looping, NewRunStats
<1>4. HistoryInv /\ StopsAtDecision
  BY DEF ExecutorInit, HistoryInv, StopsAtDecision
<1>5. ResultInv /\ SenderInv
  BY DEF ExecutorInit, ResultInv, SenderInv
<1> QED
  BY <1>1, <1>2, <1>3, <1>4, <1>5 DEF IInv

-----------------------------------------------------------------------------
(* The end of an attempt, however it ended.                                *)

(* What FinishAttempt does to the books, with the conversions of           *)
(* CheckSuccess, determineFinalReason and buildFinalResult carried out.    *)
LEMMA FinishEffect ==
  ASSUME IInv, NEW out \in Outputs, NEW to \in BOOLEAN, FinishAttempt(out, to)
  PROVE  \E any \in BOOLEAN, e \in Entries, m \in [exit: Int, success: BOOLEAN] :
           /\ any <=> timedOut \/ to
           /\ timedOut' = any
           /\ e.out = out /\ e.timeout = to
           /\ e.reason = "timeout" <=> Undecided(out) /\ any
           /\ e.reason = "failure_pattern_matched" <=> Failed(out)
           /\ m.success <=> Succeeded(out)
           /\ history' = Append(history, e)
           /\ attemptMetrics' = Append(attemptMetrics, m)
           /\ stats' = RecordAttemptEnd(stats, m.success)
           /\ \/ /\ Undecided(out) /\ attempt < config.attempts
                 /\ phase' \in {"sleeping", "ready"} /\ result' = result
              \/ /\ phase' = "returned"
                 /\ result' = BuildResult(m.success, out, any, e.reason, attemptMetrics')
           /\ UNCHANGED <<config, attempt, sender, received, exitCode>>
<1> DEFINE r == CheckSuccess(out)
<1>1. PICK any \in BOOLEAN : any = (timedOut \/ to)
  BY DEF IInv, ExecutorTypeOK
<1>2. /\ r.success \in BOOLEAN
      /\ r.success <=> Succeeded(out)
      /\ r.reason \in Reasons \ {"timeout", "error"}
      /\ r.reason = "failure_pattern_matched" <=> Failed(out)
      /\ ShouldStop(out) <=> ~Undecided(out)
  BY CheckMeaning
<1> DEFINE why == IF ShouldStop(out) THEN r.reason ELSE FinalReason(out, any)
           e == [out |-> out, timeout |-> to, reason |-> why]
           m == [exit |-> out.exit, success |-> r.success]
<1>3. why \in Reasons
  BY <1>2 DEF FinalReason, Reasons
<1>4. why = "timeout" <=> Undecided(out) /\ any
  BY <1>2 DEF FinalReason, Reasons
<1>5. why = "failure_pattern_matched" <=> Failed(out)
  BY <1>2 DEF FinalReason, Undecided
<1>6. e \in Entries /\ m \in [exit: Int, success: BOOLEAN]
  BY <1>2, <1>3 DEF Entries, Outputs
<1>7. /\ timedOut' = any
      /\ history' = Append(history, e)
      /\ attemptMetrics' = Append(attemptMetrics, m)
      /\ stats' = RecordAttemptEnd(stats, m.success)
      /\ UNCHANGED <<config, attempt, sender, received, exitCode>>
  BY <1>1 DEF FinishAttempt
<1>8. \/ /\ Undecided(out) /\ attempt < config.attempts
         /\ phase' \in {"sleeping", "ready"} /\ result' = result
      \/ /\ phase' = "returned"
         /\ result' = BuildResult(m.success, out, any, why, attemptMetrics')
  <2>1. CASE ShouldStop(out)
    BY <1>1, <1>2, <1>7, <2>1 DEF FinishAttempt
  <2>2. CASE ~ShouldStop(out)
    <3>1. r.success = FALSE
      BY <1>2, <2>2 DEF Undecided
    <3> QED
      BY <1>1, <1>2, <1>7, <2>2, <3>1 DEF FinishAttempt
  <2> QED
    BY <2>1, <2>2
<1> HIDE DEF r, why
<1>9. e.out = out /\ e.timeout = to /\ e.reason = why /\ m.success = r.success
  OBVIOUS
<1> HIDE DEF e, m
<1> QED
  BY <1>1, <1>2, <1>4, <1>5, <1>6, <1>7, <1>8, <1>9

(* ... and that leaves the invariant as it is.                             *)
LEMMA FinishKeeps ==
  ASSUME IInv, phase \in {"running", "terminating"},
         NEW out \in Outputs, NEW to \in BOOLEAN, FinishAttempt(out, to)
  PROVE  IInv'
<1>1. PICK any \in BOOLEAN, e \in Entries, m \in [exit: Int, success: BOOLEAN] :
           /\ any <=> timedOut \/ to
           /\ timedOut' = any
           /\ e.out = out /\ e.timeout = to
           /\ e.reason = "timeout" <=> Undecided(out) /\ any
           /\ e.reason = "failure_pattern_matched" <=> Failed(out)
           /\ m.success <=> Succeeded(out)
           /\ history' = Append(history, e)
           /\ attemptMetrics' = Append(attemptMetrics, m)
           /\ stats' = RecordAttemptEnd(stats, m.success)
           /\ \/ /\ Undecided(out) /\ attempt < config.attempts
                 /\ phase' \in {"sleeping", "ready"} /\ result' = result
              \/ /\ phase' = "returned"
                 /\ result' = BuildResult(m.success, out, any, e.reason, attemptMetrics')
           /\ UNCHANGED <<config, attempt, sender, received, exitCode>>
  BY FinishEffect
<1>2. /\ attempt = Len(history) + 1 /\ attempt <= config.attempts
      /\ stats.total = attempt /\ Len(attemptMetrics) = Len(history)
      /\ result = NoResult
      /\ sender = "none" /\ received = <<>>
  BY DEF IInv, LoopInv, Looping, SenderInv
<1>3. /\ attempt \in Nat /\ config.attempts \in Nat
      /\ stats \in [total: Nat, successful: Nat, failed: Nat]
      /\ history \in Seq(Entries)
      /\ attemptMetrics \in Seq([exit: Int, success: BOOLEAN])
  BY DEF IInv, ExecutorTypeOK, Configs, HistoryInv
<1>4. /\ history' \in Seq(Entries) /\ Len(history) \in Nat
      /\ Len(history') = Len(history) + 1
      /\ history'[Len(history) + 1] = e
      /\ \A i \in 1 .. Len(history) : history'[i] = history[i]
  BY <1>1, <1>3, AppendFacts
<1>5. /\ attemptMetrics' \in Seq([exit: Int, success: BOOLEAN])
      /\ Len(attemptMetrics') = Len(attemptMetrics) + 1
  BY <1>1, <1>3, AppendFacts
<1>6. /\ stats' \in [total: Nat, successful: Nat, failed: Nat]
      /\ stats'.total = stats.total
      /\ stats'.successful = IF m.success THEN stats.successful + 1 ELSE stats.successful
      /\ stats'.failed = IF m.success THEN stats.failed ELSE stats.failed + 1
  BY <1>1, <1>3, StatsEnd
<1>7. ExecutorTypeOK'
  <2>1. result' = NoResult \/ result'.exit \in -1 .. 255
    BY <1>1, <1>2 DEF BuildResult, Outputs
  <2>2. phase' \in {"ready", "running", "terminating", "sleeping", "returned",
                 "failed", "exiting", "exited"}
    BY <1>1
  <2> QED
    BY <1>1, <1>5, <1>6, <2>1, <2>2 DEF IInv, ExecutorTypeOK, NoResult
<1>8. BooksInv'
  <2>1. /\ Cardinality(GoodAttempts(attemptMetrics)) \in Nat
        /\ Cardinality(BadAttempts(attemptMetrics)) \in Nat
    BY <1>3, AttemptsFinite
  <2>2. /\ Cardinality(GoodAttempts(attemptMetrics')) =
             IF m.success THEN Cardinality(GoodAttempts(attemptMetrics)) + 1
             ELSE Cardinality(GoodAttempts(attemptMetrics))
        /\ Cardinality(BadAttempts(attemptMetrics')) =
             IF m.success THEN Cardinality(BadAttempts(attemptMetrics))
             ELSE Cardinality(BadAttempts(attemptMetrics)) + 1
    BY <1>1, <1>3, CountAppend
  <2>3. /\ stats.successful = Cardinality(GoodAttempts(attemptMetrics))
        /\ stats.failed = Cardinality(BadAttempts(attemptMetrics))
        /\ stats.successful + stats.failed = Len(attemptMetrics)
    BY DEF IInv, BooksInv
  <2> QED
    BY <1>2, <1>4, <1>5, <1>6, <2>1, <2>2, <2>3 DEF BooksInv
<1>9. LoopInv'
  <2>1. phase' = "returned" => result' # NoResult
    <3>1. BuildResult(m.success, out, any, e.reason, attemptMetrics').attempts = attempt
      BY DEF BuildResult
    <3>2. NoResult.attempts = 0 /\ attempt # 0
      BY <1>2, <1>4 DEF NoResult
    <3> QED
      BY <1>1, <3>1, <3>2
  <2> QED
    BY <1>1, <1>2, <1>3, <1>4, <1>5, <1>6, <2>1 DEF LoopInv, Looping, NoResult
<1>10. HistoryInv'
  <2>1. timedOut <=> \E i \in 1 .. Len(history) : history[i].timeout
    BY DEF IInv, HistoryInv
  <2>2. any <=> \E i \in 1 .. Len(history') : history'[i].timeout
    <3>1. ASSUME any PROVE \E i \in 1 .. Len(history') : history'[i].timeout
      <4>1. CASE to
        <5>1. Len(history) + 1 \in 1 .. Len(history')
          BY <1>4
        <5>2. history'[Len(history) + 1].timeout
          BY <1>1, <1>4, <4>1, Zenon
        <5> QED
          BY <5>1, <5>2
      <4>2. CASE timedOut
        <5>1. PICK i \in 1 .. Len(history) : history[i].timeout
          BY <2>1, <4>2
        <5>2. i \in 1 .. Len(history') /\ history'[i].timeout
          BY <1>4, <5>1
        <5> QED
          BY <5>2
      <4> QED
        BY <1>1, <3>1, <4>1, <4>2
    <3>2. ASSUME NEW i \in 1 .. Len(history'), history'[i].timeout PROVE any
      <4>1. CASE i = Len(history) + 1
        BY <1>1, <1>4, <3>2, <4>1
      <4>2. CASE i \in 1 .. Len(history)
        BY <1>1, <1>4, <2>1, <3>2, <4>2
      <4> QED
        BY <1>4, <4>1, <4>2
    <3> QED
      BY <3>1, <3>2
  <2>3. ASSUME NEW i \in 1 .. Len(history')
        PROVE  history'[i].reason = "timeout" <=>
                 Undecided(history'[i].out) /\ \E j \in 1 .. i : history'[j].timeout
    <3>1. CASE i = Len(history) + 1
      <4>1. any <=> \E j \in 1 .. i : history'[j].timeout
        BY <1>4, <2>2, <3>1
      <4>2. history'[i].reason = "timeout" <=> Undecided(history'[i].out) /\ any
        BY <1>1, <1>4, <3>1
      <4> QED
        BY <4>1, <4>2
    <3>2. CASE i \in 1 .. Len(history)
      <4>1. history[i].reason = "timeout" <=>
              Undecided(history[i].out) /\ \E j \in 1 .. i : history[j].timeout
        BY <3>2 DEF IInv, HistoryInv
      <4>2. history'[i] = history[i] /\ \A j \in 1 .. i : history'[j] = history[j]
        BY <1>4, <3>2
      <4> QED
        BY <4>1, <4>2
    <3> QED
      BY <1>4, <3>1, <3>2
  <2> QED
    BY <1>1, <1>4, <2>2, <2>3 DEF HistoryInv
<1>11. StopsAtDecision'
  <2> SUFFICES ASSUME phase' \in {"ready", "running", "terminating", "sleeping"},
                      NEW i \in 1 .. Len(history')
               PROVE  Undecided(history'[i].out)
    BY DEF StopsAtDecision, Undecided
  <2>1. Undecided(out)
    BY <1>1
  <2>2. CASE i = Len(history) + 1
    BY <1>1, <1>4, <2>1, <2>2
  <2>3. CASE i \in 1 .. Len(history)
    BY <1>4, <2>3 DEF IInv, StopsAtDecision, Undecided
  <2> QED
    BY <1>4, <2>2, <2>3
<1>12. ResultInv'
  <2> SUFFICES ASSUME result' # NoResult PROVE ResultInv'
    BY DEF ResultInv, NoResult
  <2>1. phase' = "returned" /\ result' = BuildResult(m.success, out, any, e.reason, attemptMetrics')
    BY <1>1, <1>2
  <2>2. /\ result'.success = m.success
        /\ result'.attempts = attempt
        /\ result'.exit = out.exit
        /\ result'.timedOut = any
        /\ result'.reason = e.reason
        /\ result'.metrics = NewRunMetrics(m.success, attemptMetrics')
    BY <2>1 DEF BuildResult
  <2>3. history'[Len(history')] = e /\ Len(history') > 0 /\ Len(history') = attempt
    BY <1>2, <1>4
  <2>4. m.success \in BOOLEAN
    OBVIOUS
  <2>5. result'.metrics = NewRunMetrics(result'.success, attemptMetrics')
    BY <2>2
  <2> QED
    BY <1>1, <1>2, <1>4, <1>5, <1>6, <2>1, <2>2, <2>3, <2>4, <2>5 DEF ResultInv
<1>13. SenderInv'
  BY <1>1, <1>2 DEF SenderInv
<1> QED
  BY <1>7, <1>8, <1>9, <1>10, <1>11, <1>12, <1>13 DEF IInv

(* The ways in which a command ends all lead through FinishAttempt.        *)
LEMMA CommandKeeps ==
  ASSUME IInv,
         \/ \E e \in ExitCodes, m \in SUBSET config.patterns : CommandExits(e, m)
         \/ CommandTerminates
  PROVE  IInv'
<1>1. /\ config.patterns \subseteq Patterns
      /\ config.emptyMatches \subseteq Patterns
  BY DEF IInv, ExecutorTypeOK, Configs
<1>2. TimeoutOutput \in Outputs
  BY <1>1 DEF TimeoutOutput, Output, Outputs
<1>3. CASE CommandTerminates
  BY <1>2, <1>3, FinishKeeps DEF CommandTerminates
<1>4. ASSUME NEW e \in ExitCodes, NEW m \in SUBSET config.patterns, CommandExits(e, m)
      PROVE  IInv'
  <2>1. Output(e, m) \in Outputs
    BY <1>1, ExecutorAssumption DEF Output, Outputs
  <2> QED
    BY <1>2, <1>4, <2>1, FinishKeeps DEF CommandExits
<1> QED
  BY <1>3, <1>4

(* The head of the loop.                                                   *)
LEMMA StartKeeps ==
  ASSUME IInv, StartAttempt
  PROVE  IInv'
<1>1. /\ phase = "ready" /\ phase' = "running" /\ attempt' = attempt + 1
      /\ stats' = [stats EXCEPT !.total = @ + 1]
      /\ UNCHANGED <<config, timedOut, attemptMetrics, result, sender, received,
                     exitCode, history>>
  BY DEF StartAttempt, RecordAttemptStart
<1>2. /\ attempt = Len(history) /\ attempt < config.attempts
      /\ stats.total = attempt /\ Len(attemptMetrics) = Len(history)
      /\ result = NoResult
  BY <1>1 DEF IInv, LoopInv, Looping
<1>3. /\ attempt \in Nat /\ config.attempts \in Nat /\ config.attempts <= MaxAttempts
      /\ stats \in [total: Nat, successful: Nat, failed: Nat]
  BY ExecutorAssumption DEF IInv, ExecutorTypeOK, Configs
<1>4. /\ stats' \in [total: Nat, successful: Nat, failed: Nat]
      /\ stats'.total = stats.total + 1
      /\ stats'.successful = stats.successful /\ stats'.failed = stats.failed
  BY <1>1, <1>3
<1>5. ExecutorTypeOK'
  <2>1. attempt' \in 0 .. MaxAttempts
    BY <1>1, <1>2, <1>3, ExecutorAssumption
  <2> QED
    BY <1>1, <1>4, <2>1 DEF IInv, ExecutorTypeOK, NoResult
<1>6. BooksInv'
  BY <1>1, <1>4 DEF IInv, BooksInv, GoodAttempts, BadAttempts
<1>7. LoopInv'
  BY <1>1, <1>2, <1>3, <1>4 DEF LoopInv, Looping, NoResult
<1>8. HistoryInv'
  BY <1>1 DEF IInv, HistoryInv, Undecided, Failed, Succeeded
<1>9. StopsAtDecision'
  BY <1>1 DEF IInv, StopsAtDecision, Failed, Succeeded
<1>10. ResultInv' /\ SenderInv'
  BY <1>1, <1>2 DEF IInv, ResultInv, SenderInv, NoResult
<1> QED
  BY <1>5, <1>6, <1>7, <1>8, <1>9, <1>10 DEF IInv

(* Run returns an error instead of a Result.                               *)
LEMMA RunFailsKeeps ==
  ASSUME IInv, NEW exited \in BOOLEAN, RunFails(exited)
  PROVE  IInv'
<1> DEFINE e == [out |-> Output(0, {}), timeout |-> FALSE, reason |-> "error"]
<1>1. /\ phase = "running" /\ phase' = "failed"
      /\ history' = Append(history, e) \/ history' = history
      /\ UNCHANGED <<config, attempt, timedOut, stats, attemptMetrics, result,
                     sender, received, exitCode>>
  BY DEF RunFails
<1>2. result = NoResult /\ sender = "none" /\ received = <<>>
  BY <1>1 DEF IInv, LoopInv, Looping, SenderInv
<1>3. /\ e \in Entries /\ e.reason # "timeout" /\ e.timeout = FALSE
      /\ ~Undecided(e.out)
  BY DEF Entries, Outputs, Output, Reasons, Undecided, Failed, Succeeded
<1> HIDE DEF e
<1>4. ExecutorTypeOK'
  BY <1>1 DEF IInv, ExecutorTypeOK, NoResult
<1>5. BooksInv'
  BY <1>1 DEF IInv, BooksInv, GoodAttempts, BadAttempts
<1>6. LoopInv' /\ StopsAtDecision'
  BY <1>1, <1>2 DEF LoopInv, Looping, StopsAtDecision, NoResult
<1>7. ResultInv' /\ SenderInv'
  BY <1>1, <1>2 DEF ResultInv, SenderInv, NoResult
<1>8. HistoryInv'
  <2>1. CASE history' = history
    BY <1>1, <2>1 DEF IInv, HistoryInv, Undecided, Failed, Succeeded
  <2>2. CASE history' = Append(history, e)
    <3>1. /\ history' \in Seq(Entries) /\ Len(history) \in Nat
          /\ Len(history') = Len(history) + 1
          /\ history'[Len(history) + 1] = e
          /\ \A i \in 1 .. Len(history) : history'[i] = history[i]
      BY <1>3, <2>2, AppendFacts DEF IInv, HistoryInv
    <3>2. timedOut <=> \E i \in 1 .. Len(history) : history[i].timeout
      BY DEF IInv, HistoryInv
    <3>3. timedOut => \E i \in 1 .. Len(history') : history'[i].timeout
      BY <3>1, <3>2
    <3>4. ASSUME NEW i \in 1 .. Len(history'), history'[i].timeout
          PROVE  timedOut
      <4>1. i # Len(history) + 1
        BY <1>3, <3>1, <3>4
      <4> QED
        BY <3>1, <3>2, <3>4, <4>1
    <3>5. ASSUME NEW i \in 1 .. Len(history')
          PROVE  history'[i].reason = "timeout" <=>
                   Undecided(history'[i].out) /\ \E j \in 1 .. i : history'[j].timeout
      <4>1. CASE i = Len(history) + 1
        BY <1>3, <3>1, <4>1
      <4>2. CASE i \in 1 .. Len(history)
        <5>1. history[i].reason = "timeout" <=>
                Undecided(history[i].out) /\ \E j \in 1 .. i : history[j].timeout
          BY <4>2 DEF IInv, HistoryInv
        <5>2. history'[i] = history[i] /\ \A j \in 1 .. i : history'[j] = history[j]
          BY <3>1, <4>2
        <5> QED
          BY <5>1, <5>2
      <4> QED
        BY <3>1, <4>1, <4>2
    <3> QED
      BY <1>1, <3>1, <3>3, <3>4, <3>5 DEF HistoryInv
  <2> QED
    BY <1>1, <2>1, <2>2
<1> QED
  BY <1>4, <1>5, <1>6, <1>7, <1>8 DEF IInv

(* Steps that only move Run along: deadline, sleep, and the start of the   *)
(* goroutine that sends the metrics.                                       *)
LEMMA MoveKeeps ==
  ASSUME IInv, DeadlineFires \/ Wake \/ HandleResult
  PROVE  IInv'
<1>1. /\ UNCHANGED <<config, attempt, timedOut, stats, attemptMetrics, result, history,
                     received, exitCode>>
      /\ \/ phase = "running" /\ phase' = "terminating" /\ sender' = sender
         \/ phase = "sleeping" /\ phase' = "ready" /\ sender' = sender
         \/ phase = "returned" /\ phase' = "exiting" /\ sender' = "running"
  BY DEF DeadlineFires, Wake, HandleResult, runVars
<1>2. ExecutorTypeOK'
  BY <1>1 DEF IInv, ExecutorTypeOK, NoResult
<1>3. BooksInv'
  BY <1>1 DEF IInv, BooksInv, GoodAttempts, BadAttempts
<1>4. LoopInv'
  BY <1>1 DEF IInv, LoopInv, Looping, NoResult
<1>5. HistoryInv'
  BY <1>1 DEF IInv, HistoryInv, Undecided, Failed, Succeeded
<1>6. StopsAtDecision'
  BY <1>1 DEF IInv, StopsAtDecision, Failed, Succeeded
<1>7. ResultInv'
  BY <1>1 DEF IInv, ResultInv, NoResult, Failed, Succeeded, NewRunMetrics
<1>8. SenderInv'
  BY <1>1 DEF IInv, SenderInv, NoResult
<1> QED
  BY <1>2, <1>3, <1>4, <1>5, <1>6, <1>7, <1>8 DEF IInv

(* SendMetricsAsync delivers once or not at all.                           *)
LEMMA SendKeeps ==
  ASSUME IInv, NEW delivered \in BOOLEAN, SendMetrics(delivered)
  PROVE  IInv'
<1>1. /\ UNCHANGED <<config, phase, attempt, timedOut, stats, attemptMetrics, result, history,
                     exitCode>>
      /\ phase = "exiting" /\ sender = "running" /\ sender' = "done"
      /\ received' = IF delivered THEN Append(received, result.metrics) ELSE received
  BY DEF SendMetrics, runVars
<1>2. ExecutorTypeOK'
  BY <1>1 DEF IInv, ExecutorTypeOK, NoResult
<1>3. BooksInv'
  BY <1>1 DEF IInv, BooksInv, GoodAttempts, BadAttempts
<1>4. LoopInv'
  BY <1>1 DEF IInv, LoopInv, Looping, NoResult
<1>5. HistoryInv'
  BY <1>1 DEF IInv, HistoryInv, Undecided, Failed, Succeeded
<1>6. StopsAtDecision'
  BY <1>1 DEF IInv, StopsAtDecision, Failed, Succeeded
<1>7. ResultInv'
  BY <1>1 DEF IInv, ResultInv, NoResult, Failed, Succeeded, NewRunMetrics
<1>8. SenderInv'
  <2>1. received = <<>>
    BY <1>1 DEF IInv, SenderInv
  <2>2. received' = <<>> \/ received' = <<result.metrics>>
    BY <1>1, <2>1
  <2> QED
    BY <1>1, <2>2 DEF SenderInv
<1> QED
  BY <1>2, <1>3, <1>4, <1>5, <1>6, <1>7, <1>8 DEF IInv

(* os.Exit: the status follows from the last attempt.                      *)
LEMMA ExitKeeps ==
  ASSUME IInv, ExitTool
  PROVE  IInv'
<1> DEFINE out == history[Len(history)].out
<1>1. /\ UNCHANGED <<config, attempt, timedOut, stats, attemptMetrics, result, history,
                     sender, received>>
      /\ phase \in {"exiting", "failed"} /\ phase' = "exited"
  BY DEF ExitTool, runVars
<1>2. \/ phase = "failed" /\ exitCode' = 1
      \/ /\ phase = "exiting"
         /\ exitCode' = IF result.success THEN 0
                        ELSE IF result.reason = "failure_pattern_matched" THEN 1
                        ELSE result.exit % 256
  BY DEF ExitTool
<1>3. phase = "failed" => result = NoResult
  BY DEF IInv, LoopInv
<1>4. ASSUME result # NoResult
      PROVE  /\ exitCode' \in 0 .. 255
             /\ exitCode' = 0 <=> Succeeded(out)
             /\ Failed(out) => exitCode' = 1
             /\ ~Failed(out) /\ ~Succeeded(out) => exitCode' = out.exit % 256
  <2>1. /\ result.exit = out.exit
        /\ result.reason = "failure_pattern_matched" <=> Failed(out)
        /\ result.success <=> Succeeded(out)
        /\ Len(history) > 0 /\ history \in Seq(Entries)
    BY <1>4 DEF IInv, ResultInv, HistoryInv
  <2>2. out.exit \in -1 .. 255
    <3>1. history[Len(history)] \in Entries
      BY <2>1
    <3> HIDE DEF out
    <3>2. out \in Outputs
      BY <3>1 DEF Entries, out
    <3> QED
      BY <3>2 DEF Outputs
  <2>3. out.exit = 0 => Failed(out) \/ Succeeded(out)
    BY DEF Succeeded
  <2>4. Succeeded(out) => ~Failed(out)
    BY DEF Succeeded
  <2> HIDE DEF out
  <2>5. out.exit # 0 => out.exit % 256 # 0 /\ out.exit % 256 \in 0 .. 255
    BY <2>2
  <2>6. exitCode' = IF Succeeded(out) THEN 0
                    ELSE IF Failed(out) THEN 1 ELSE out.exit % 256
    BY <1>2, <1>3, <1>4, <2>1
  <2> QED
    BY <2>3, <2>4, <2>5, <2>6
<1>5. exitCode' \in 0 .. 255
  <2>1. CASE result = NoResult
    BY <1>2, <2>1 DEF IInv, LoopInv
  <2> QED
    BY <1>4, <2>1
<1>6. ExecutorTypeOK'
  BY <1>1, <1>5 DEF IInv, ExecutorTypeOK, NoResult
<1>7. BooksInv'
  BY <1>1 DEF IInv, BooksInv, GoodAttempts, BadAttempts
<1>8. LoopInv' /\ StopsAtDecision'
  BY <1>1 DEF LoopInv, Looping, StopsAtDecision
<1>9. HistoryInv'
  BY <1>1 DEF IInv, HistoryInv, Undecided, Failed, Succeeded
<1>10. ResultInv'
  <2> SUFFICES ASSUME result # NoResult PROVE ResultInv'
    BY <1>1 DEF ResultInv, NoResult
  <2>1. ExitStatusMatches'
    BY <1>1, <1>4 DEF ExitStatusMatches, Succeeded, Failed
  <2> QED
    BY <1>1, <2>1 DEF IInv, ResultInv, NoResult, Failed, Succeeded, NewRunMetrics
<1>11. SenderInv'
  BY <1>1 DEF IInv, SenderInv, NoResult
<1> QED
  BY <1>6, <1>7, <1>8, <1>9, <1>10, <1>11 DEF IInv

(* No step breaks the inductive invariant.                                 *)
LEMMA IInvStep ==
  ASSUME IInv, [ExecutorNext]_executorVars
  PROVE  IInv'
<1>1. CASE UNCHANGED executorVars
  <2>1. UNCHANGED <<config, phase, attempt, timedOut, stats, attemptMetrics, result, history,
                    sender, received, exitCode>>
    BY <1>1 DEF executorVars, runVars
  <2>2. ExecutorTypeOK' /\ LoopInv' /\ SenderInv'
    BY <2>1 DEF IInv, ExecutorTypeOK, LoopInv, Looping, SenderInv, NoResult
  <2>3. BooksInv'
    BY <2>1 DEF IInv, BooksInv, GoodAttempts, BadAttempts
  <2>4. HistoryInv' /\ StopsAtDecision'
    BY <2>1 DEF IInv, HistoryInv, StopsAtDecision, Undecided, Failed, Succeeded
  <2>5. ResultInv'
    BY <2>1 DEF IInv, ResultInv, ExitStatusMatches, NoResult, Failed, Succeeded, NewRunMetrics
  <2> QED
    BY <2>2, <2>3, <2>4, <2>5 DEF IInv
<1>2. CASE Exited
  BY <1>1, <1>2 DEF Exited
<1> QED
  BY <1>1, <1>2, StartKeeps, MoveKeeps, ExitKeeps, CommandKeeps, RunFailsKeeps, SendKeeps
  DEF ExecutorNext, ToolSteps, CommandSteps

(* The inductive invariant holds in every state of a run.                  *)
THEOREM InductiveInvariant == ExecutorSpec => []IInv
<1>1. IInv /\ [ExecutorNext]_executorVars => IInv'
  BY IInvStep
<1> QED
  BY <1>1, InitIInv, PTL DEF ExecutorSpec

-----------------------------------------------------------------------------
(* Result, summary, daemon metrics and exit status tell the story of the   *)
(* attempts that were really made, for any number of attempts (Run,        *)
(* RunStats, NewRunMetrics, handleExecutionResult).                        *)
THEOREM BooksAgree == ExecutorSpec => []AttemptsAccounted
<1>1. IInv => AttemptsAccounted
  <2> SUFFICES ASSUME IInv PROVE AttemptsAccounted
    OBVIOUS
  <2>1. ExecutorTypeOK
    BY DEF IInv
  <2>2. ASSUME result # NoResult
        PROVE  /\ phase = "exited" => ExitStatusMatches
               /\ result.attempts = Len(history)
               /\ result.attempts <= config.attempts
               /\ stats.total = Len(history)
               /\ stats.successful + stats.failed = Len(history)
               /\ result.success <=> Succeeded(history[Len(history)].out)
               /\ result.timedOut <=> \E i \in 1 .. Len(history) : history[i].timeout
    BY <2>2 DEF IInv, ResultInv, BooksInv, HistoryInv
  <2>3. ASSUME result # NoResult
        PROVE  received \in {<<>>, <<[finalStatus |-> IF result.success THEN "succeeded"
                                                      ELSE "failed",
                                      totalAttempts |-> stats.total,
                                      successfulAttempts |-> stats.successful,
                                      failedAttempts |-> stats.failed]>>}
    <3>1. received \in {<<>>, <<result.metrics>>}
      BY <2>3 DEF IInv, SenderInv
    <3>2. /\ result.metrics = NewRunMetrics(result.success, attemptMetrics)
          /\ stats.total = Len(attemptMetrics)
          /\ stats.successful = Cardinality(GoodAttempts(attemptMetrics))
          /\ stats.failed = Cardinality(BadAttempts(attemptMetrics))
      BY <2>3 DEF IInv, ResultInv, BooksInv
    <3>3. result.metrics = [finalStatus |-> IF result.success THEN "succeeded"
                                            ELSE "failed",
                            totalAttempts |-> stats.total,
                            successfulAttempts |-> stats.successful,
                            failedAttempts |-> stats.failed]
      BY <3>2, Zenon DEF NewRunMetrics, GoodAttempts, BadAttempts
    <3> QED
      BY <3>1, <3>3, Zenon
  <2> QED
    BY <2>1, <2>2, <2>3 DEF AttemptsAccounted
<1> QED
  BY <1>1, InductiveInvariant, PTL

(* Run starts another attempt only while nothing is decided                *)
(* (processAttemptResult).                                                 *)
THEOREM LoopStopsAtDecision == ExecutorSpec => []StopsAtDecision
<1>1. IInv => StopsAtDecision
  BY DEF IInv
<1> QED
  BY <1>1, InductiveInvariant, PTL

(* A failed attempt that timed out is reported as a timeout, and a timeout *)
(* is reported only in a run in which one has happened                     *)
(* (determineFinalReason and the timedOut of Run).  That the flag outlives *)
(* its attempt, EachReasonIsItsOwn, is refuted by TLC.                     *)
THEOREM TimeoutsAreReal == ExecutorSpec => []ReportedTimeoutsHappened
<1>1. IInv => ReportedTimeoutsHappened
  BY DEF IInv, HistoryInv, ResultInv, ReportedTimeoutsHappened, Undecided
<1> QED
  BY <1>1, InductiveInvariant, PTL
=============================================================================
