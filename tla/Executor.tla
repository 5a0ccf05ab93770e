------------------------------ MODULE Executor ------------------------------
(***************************************************************************)
(* The retry loop of the command line tool: Executor.Run and the helpers   *)
(* it calls (pkg/executor/executor.go), the condition checker              *)
(* (pkg/conditions/conditions.go), the run statistics (pkg/ui/ui.go), the  *)
(* metrics client (pkg/metrics/metrics.go) and the way the tool turns a    *)
(* Result into its own exit status (cmd/patience/subcommands.go).          *)
(*                                                                         *)
(* Concurrent with the loop are the wrapped command, the context deadline  *)
(* that sends it SIGTERM, and, at the end, the goroutine that sends the    *)
(* metrics while the tool exits.  Output is abstracted to the set of       *)
(* configured patterns it matches.                                         *)
(***************************************************************************)
EXTENDS Integers, Sequences, FiniteSets

CONSTANTS
  MaxAttempts,        \* bound: largest --attempts that is tried
  ExitCodes,          \* exit codes the command may return; -1: by a signal
  DelayValues         \* what one call of the strategy's Delay may return

ASSUME ExecutorAssumption ==
  /\ MaxAttempts \in Nat \ {0}
  /\ ExitCodes \subseteq -1 .. 255
  /\ DelayValues \subseteq Nat /\ DelayValues # {}

Patterns == {"failure", "success"}

(* The options that decide the control flow, and the wrapped command.      *)
(* emptyMatches: the configured patterns that match an empty output;       *)
(* ignoresTerm: the command ignores SIGTERM.                               *)
Configs ==
  {c \in [attempts: 1 .. MaxAttempts, timeout: BOOLEAN, ignoresTerm: BOOLEAN,
          patterns: SUBSET Patterns, emptyMatches: SUBSET Patterns] :
     c.emptyMatches \subseteq c.patterns}

VARIABLES
  config,             \* fields of Executor, fixed for the run
  phase,              \* where Run is
  attempt,            \* the loop variable: attempts started so far
  timedOut,           \* the local variable timedOut of Run
  stats,              \* RunStats: attempts started, ended well, ended badly
  attemptMetrics,     \* per attempt: exit code and success
  result,             \* the Result that Run returns
  sender,             \* the goroutine of SendMetricsAsync
  received,           \* the RunMetrics that the daemon got
  exitCode,           \* the exit status of the tool
  history             \* observation, per attempt: the output Run worked
                      \* with, whether it timed out, and the reason given

runVars == <<attempt, timedOut, stats, attemptMetrics, result, history>>
executorVars == <<config, phase, runVars, sender, received, exitCode>>

NoResult == [success |-> FALSE, attempts |-> 0]

-----------------------------------------------------------------------------
(* RunStats, the figures of the summary.                                   *)
NewRunStats == [total |-> 0, successful |-> 0, failed |-> 0]

RecordAttemptStart(s) == [s EXCEPT !.total = @ + 1]

RecordAttemptEnd(s, success) ==
  IF success THEN [s EXCEPT !.successful = @ + 1]
  ELSE [s EXCEPT !.failed = @ + 1]

(* NewRunMetrics counts the attempts again, for the daemon.                *)
NewRunMetrics(success, attempts) ==
  [finalStatus |-> IF success THEN "succeeded" ELSE "failed",
   totalAttempts |-> Len(attempts),
   successfulAttempts |->
     Cardinality({i \in 1 .. Len(attempts) : attempts[i].success}),
   failedAttempts |->
     Cardinality({i \in 1 .. Len(attempts) : ~attempts[i].success})]

-----------------------------------------------------------------------------
(* CommandOutput: the exit code and which patterns stdout or stderr match. *)
Output(e, m) == [exit |-> e, matches |-> m]

(* executeAttempt returns CommandOutput{ExitCode: -1} for a timeout: what  *)
(* the command had printed is dropped.                                     *)
TimeoutOutput == Output(-1, config.emptyMatches)

(* CheckSuccess: failure pattern, success pattern, exit code, in this      *)
(* order; without a Checker processAttemptResult does the same with the    *)
(* exit code alone.                                                        *)
CheckSuccess(out) ==
  IF "failure" \in out.matches
  THEN [success |-> FALSE, reason |-> "failure_pattern_matched"]
  ELSE IF "success" \in out.matches
  THEN [success |-> TRUE, reason |-> "success_pattern_matched"]
  ELSE IF out.exit = 0
  THEN [success |-> TRUE, reason |-> "exit_code_0"]
  ELSE [success |-> FALSE, reason |-> "exit_code"]

(* Mutated ShouldStop: only success ends the loop.                         *)
StopOnSuccessOnly(out) == CheckSuccess(out).success

(* processAttemptResult: stop on success or on the failure pattern.        *)
ShouldStop(out) ==
  \/ CheckSuccess(out).success
  \/ CheckSuccess(out).reason = "failure_pattern_matched"

(* Mutated FinalReason: the exit code of a timeout is taken for one.       *)
ReasonByExitCode(out, to) ==
  IF out.exit = -1 THEN "timeout" ELSE CheckSuccess(out).reason

(* determineFinalReason, and the failureReason of AttemptFailure (the      *)
(* wording "max retries reached" left out).                                *)
FinalReason(out, to) == IF to THEN "timeout" ELSE CheckSuccess(out).reason

(* Mutated BuildResult: the configured number instead of the attempts made. *)
ResultWithMaxAttempts(success, out, to, reason, attempts) ==
  [success |-> success, attempts |-> config.attempts, exit |-> out.exit,
   timedOut |-> to, reason |-> reason,
   metrics |-> NewRunMetrics(success, attempts)]

(* buildFinalResult.                                                       *)
BuildResult(success, out, to, reason, attempts) ==
  [success |-> success, attempts |-> attempt, exit |-> out.exit,
   timedOut |-> to, reason |-> reason,
   metrics |-> NewRunMetrics(success, attempts)]

-----------------------------------------------------------------------------
ExecutorInit ==
  /\ config \in Configs
  /\ phase = "ready"
  /\ attempt = 0
  /\ timedOut = FALSE
  /\ stats = NewRunStats
  /\ attemptMetrics = <<>>
  /\ result = NoResult
  /\ sender = "none"
  /\ received = <<>>
  /\ exitCode = 0
  /\ history = <<>>

(* The head of the loop: AttemptStart, RecordAttemptStart, spawn.          *)
StartAttempt ==
  /\ phase = "ready"
  /\ attempt' = attempt + 1
  /\ stats' = RecordAttemptStart(stats)
  /\ phase' = "running"
  /\ UNCHANGED <<config, timedOut, attemptMetrics, result, sender, received,
                 exitCode, history>>

(* Run, from the end of executeAttempt to the next wait or return: out is  *)
(* the output Run works with, to whether executeAttempt reported a         *)
(* timeout.  What Run tells the strategy (RecordOutcome,                   *)
(* ProcessCommandOutput) shows in the delays only, which are any of        *)
(* DelayValues.                                                            *)
FinishAttempt(out, to) ==
  LET r == CheckSuccess(out)
      anyTimeout == timedOut \/ to
      ended == Append(attemptMetrics, [exit |-> out.exit,
                                       success |-> r.success])
  IN
  /\ timedOut' = anyTimeout
  /\ stats' = RecordAttemptEnd(stats, r.success)
  /\ attemptMetrics' = ended
  /\ history' = Append(history, [out |-> out, timeout |-> to, reason |->
                   IF ShouldStop(out) THEN r.reason
                   ELSE FinalReason(out, anyTimeout)])
  /\ \/ /\ ShouldStop(out)
        /\ result' = BuildResult(r.success, out, anyTimeout, r.reason, ended)
        /\ phase' = "returned"
     \/ /\ ~ShouldStop(out)
        /\ attempt = config.attempts
        /\ result' = BuildResult(FALSE, out, anyTimeout,
                                 FinalReason(out, anyTimeout), ended)
        /\ phase' = "returned"
     \/ /\ ~ShouldStop(out)
        /\ attempt < config.attempts
        /\ \E delay \in DelayValues :
             phase' = IF delay > 0 THEN "sleeping" ELSE "ready"
        /\ UNCHANGED result
  /\ UNCHANGED <<config, attempt, sender, received, exitCode>>

-----------------------------------------------------------------------------
(* The command ends by itself.  RunWithOutputAndContext asks ctx.Err() only *)
(* after cmd.Run has returned: a command that fails just before its        *)
(* deadline may be taken for a timeout.                                    *)
CommandExits(e, m) ==
  /\ phase = "running"
  /\ \/ FinishAttempt(Output(e, m), FALSE)
     \/ /\ config.timeout
        /\ e # 0
        /\ FinishAttempt(TimeoutOutput, TRUE)

(* Run returns nil and the error of cmd.Run, without a retry: the command  *)
(* could not be started; or it exited with 0 and one write of its output   *)
(* crossed the buffer limit, because limitedBuffer.Write then returns less *)
(* than len(p) and io.MultiWriter turns that into ErrShortWrite.           *)
RunFails(exited) ==
  /\ phase = "running"
  /\ phase' = "failed"
  /\ history' = IF exited
                THEN Append(history, [out |-> Output(0, {}), timeout |-> FALSE,
                                      reason |-> "error"])
                ELSE history
  /\ UNCHANGED <<config, attempt, timedOut, stats, attemptMetrics, result,
                 sender, received, exitCode>>

(* Mutated DeadlineFires: the command is run without the context.          *)
DeadlineIgnored ==
  /\ phase = "running"
  /\ config.timeout
  /\ UNCHANGED executorVars

(* The deadline of the attempt: cmd.Cancel sends SIGTERM to the process    *)
(* group and cmd.Run goes on waiting for the process.                      *)
DeadlineFires ==
  /\ phase = "running"
  /\ config.timeout
  /\ phase' = "terminating"
  /\ UNCHANGED <<config, runVars, sender, received, exitCode>>

(* The command ends after SIGTERM, because of it or by itself: cmd.Run     *)
(* returns an error, the deadline has passed, executeAttempt reports a     *)
(* timeout.                                                                *)
CommandTerminates ==
  /\ phase = "terminating"
  /\ FinishAttempt(TimeoutOutput, TRUE)

(* time.Sleep(delay) is over.                                              *)
Wake ==
  /\ phase = "sleeping"
  /\ phase' = "ready"
  /\ UNCHANGED <<config, runVars, sender, received, exitCode>>

-----------------------------------------------------------------------------
(* handleExecutionResult: start the metrics goroutine and go on to         *)
(* os.Exit.                                                                *)
HandleResult ==
  /\ phase = "returned"
  /\ sender' = "running"
  /\ phase' = "exiting"
  /\ UNCHANGED <<config, runVars, received, exitCode>>

(* SendMetricsAsync: the goroutine runs while the process exists; its      *)
(* errors (no daemon, a full socket) are ignored.                          *)
SendMetrics(delivered) ==
  /\ phase = "exiting"
  /\ sender = "running"
  /\ sender' = "done"
  /\ received' = IF delivered THEN Append(received, result.metrics) ELSE received
  /\ UNCHANGED <<config, phase, runVars, exitCode>>

(* os.Exit: 0 for success, 1 for the failure pattern, else the command's   *)
(* exit code as the low byte the system keeps; 1 for an error of Run.      *)
ExitTool ==
  /\ \/ /\ phase = "exiting"
        /\ exitCode' = IF result.success THEN 0
                       ELSE IF result.reason = "failure_pattern_matched" THEN 1
                       ELSE result.exit % 256
     \/ /\ phase = "failed"
        /\ exitCode' = 1
  /\ phase' = "exited"
  /\ UNCHANGED <<config, runVars, sender, received>>

Exited == phase = "exited" /\ UNCHANGED executorVars

-----------------------------------------------------------------------------
CommandSteps ==
  \/ \E e \in ExitCodes, m \in SUBSET config.patterns : CommandExits(e, m)
  \/ \E exited \in BOOLEAN : RunFails(exited)

ToolSteps == StartAttempt \/ Wake \/ HandleResult \/ ExitTool

ExecutorNext ==
  \/ ToolSteps
  \/ CommandSteps
  \/ DeadlineFires
  \/ CommandTerminates
  \/ \E delivered \in BOOLEAN : SendMetrics(delivered)
  \/ Exited

ExecutorSpec == ExecutorInit /\ [][ExecutorNext]_executorVars

(* Fairness: the tool itself keeps running, a context deadline fires, and  *)
(* a command that does not ignore SIGTERM dies of it.  Nothing is assumed  *)
(* about commands ending by themselves: that is what --timeout is for; one *)
(* that ignores SIGTERM need never end.                                    *)
ExecutorFairness ==
  /\ WF_executorVars(ToolSteps)
  /\ WF_executorVars(DeadlineFires)
  /\ WF_executorVars(~config.ignoresTerm /\ CommandTerminates)

-----------------------------------------------------------------------------
ExecutorTypeOK ==
  /\ config \in Configs
  /\ phase \in {"ready", "running", "terminating", "sleeping", "returned",
                "failed", "exiting", "exited"}
  /\ attempt \in 0 .. MaxAttempts
  /\ timedOut \in BOOLEAN
  /\ stats \in [total: Nat, successful: Nat, failed: Nat]
  /\ attemptMetrics \in Seq([exit: Int, success: BOOLEAN])
  /\ sender \in {"none", "running", "done"}
  /\ exitCode \in 0 .. 255
  /\ result = NoResult \/ result.exit \in -1 .. 255

(* Reference: what an attempt with this output means, by README's "Pattern *)
(* Precedence".                                                            *)
Failed(out)    == "failure" \in out.matches
Succeeded(out) == ~Failed(out) /\ ("success" \in out.matches \/ out.exit = 0)

(* The exit status of the tool: 0 exactly when the last attempt succeeded, *)
(* 1 for the failure pattern, else the (non-zero) code of the command.     *)
ExitStatusMatches ==
  LET out == history[Len(history)].out
  IN  /\ exitCode = 0 <=> Succeeded(out)
      /\ Failed(out) => exitCode = 1
      /\ ~Failed(out) /\ ~Succeeded(out) => exitCode = out.exit % 256

(* The books agree: when Run returns a Result, its attempt count, the      *)
(* statistics of the summary and the commands really run tell the same     *)
(* story, within the configured limit; if the daemon got metrics, it got   *)
(* them once and they tell that story too; and so does the exit status of  *)
(* the tool in the end.                                                    *)
AttemptsAccounted ==
  /\ ExecutorTypeOK
  /\ result # NoResult =>
       /\ phase = "exited" => ExitStatusMatches
       /\ result.attempts = Len(history)
       /\ result.attempts <= config.attempts
       /\ stats.total = Len(history)
       /\ stats.successful + stats.failed = Len(history)
       /\ result.success <=> Succeeded(history[Len(history)].out)
       /\ result.timedOut <=> \E i \in 1 .. Len(history) : history[i].timeout
       /\ received \in {<<>>, <<[finalStatus |-> IF result.success THEN "succeeded"
                                                 ELSE "failed",
                                totalAttempts |-> stats.total,
                                successfulAttempts |-> stats.successful,
                                failedAttempts |-> stats.failed]>>}

(* Run goes on to another attempt only when every attempt so far left the  *)
(* matter open: not after a success and not after an output that the       *)
(* failure pattern matched.                                                *)
StopsAtDecision ==
  phase \in {"ready", "running", "terminating", "sleeping"} =>
    \A i \in 1 .. Len(history) :
      ~Failed(history[i].out) /\ ~Succeeded(history[i].out)

(* No timeout is made up and none is lost: an attempt that left the matter *)
(* open and timed out is reported as a timeout; a timeout is reported only *)
(* in a run in which the command has timed out, never for a mere death by  *)
(* a signal, whose exit code is that of a timeout too; and the reason of a *)
(* run is the one given for its last attempt.                              *)
ReportedTimeoutsHappened ==
  /\ \A i \in 1 .. Len(history) :
       /\ history[i].reason = "timeout" => \E j \in 1 .. i : history[j].timeout
       /\ /\ history[i].timeout
          /\ ~Failed(history[i].out) /\ ~Succeeded(history[i].out)
          => history[i].reason = "timeout"
  /\ result # NoResult => result.reason = history[Len(history)].reason

(* "When an attempt fails, patience immediately reports why it failed"     *)
(* (Architecture.md:237): only an attempt that timed out is reported as a  *)
(* timeout.  Run declares timedOut outside the loop and never resets it.   *)
EachReasonIsItsOwn ==
  \A i \in 1 .. Len(history) :
    history[i].reason = "timeout" => history[i].timeout

(* With --timeout the tool ends, even if the command never ends by itself  *)
(* ("Prevent commands from hanging indefinitely") - unless the command     *)
(* ignores SIGTERM, after which cmd.Run waits without a limit.             *)
TimeoutEndsRun == config.timeout /\ ~config.ignoresTerm ~> phase = "exited"

(* "The final exit code matches your command's result": if the command     *)
(* exited with 0 and no pattern is configured, so does the tool.           *)
ExitMatchesCommand ==
  /\ phase = "exited"
  /\ config.patterns = {}
  /\ Len(history) > 0
  /\ history[Len(history)].out.exit = 0
  => exitCode = 0
=============================================================================
