# Verification of patience

TLA+ models of the `patience` command line tool and of its daemon `patienced`,
with TLC configurations and TLAPS proofs. Paths are relative to the root of the
repository; line numbers refer to the commit the models were written from.

## 1. The system

`patience` runs a command again and again until it succeeds, waiting between
attempts as a *strategy* says. It can send what happened to the daemon
`patienced`, which keeps the metrics in memory and shows them over HTTP. With
the `diophantine` strategy and `--daemon` it is also meant to coordinate with
other instances, so that together they respect a rate limit.

| component | state it keeps | operations | what makes it correct |
|---|---|---|---|
| executor (`pkg/executor`), conditions, `ui`, metrics client | attempt counter, last output, sticky `timedOut`, statistics, per-attempt metrics | `Run` and its helpers, the command runner with deadline and SIGTERM | stops at the first decision, counts agree, exit status follows the last attempt, `--timeout` ends it |
| command line (`cmd/patience`) | options | subcommands, `handleExecutionResult` | builds what the settings say, turns a `Result` into an exit status |
| strategies (`pkg/backoff`) | none, or a previous delay, a window of outcomes with buckets, a learned `Retry-After` | `Delay`, `RecordOutcome`, `ProcessCommandOutput` | delays within bounds, overflow or not; what is learned is what happened |
| HTTP-aware selection (`pkg/backoff/http_aware_selector.go`, `http_aware_adaptive.go`) | a cache under an RWMutex, an attempt and a response without one | `SelectStrategy`, `NextDelayWithHTTPContext`, `Delay` | the answer suits the response of the caller |
| Diophantine strategy | rate limit, window, offsets | `CanScheduleRequest`, `Delay` | no window over the limit |
| request scheduler (`pkg/daemon/scheduler.go`) | requests per resource, under one RWMutex | `AddRequest`, `GetActiveRequests`, `CanScheduleWithStrategy`, `GetNextAvailableSlot`, `CleanupExpiredRequests` | unique identifiers, no live request forgotten, limit kept |
| worker pool (`pkg/daemon/worker_pool.go`) | bounded channel, `started`, context, WaitGroup | `Start`, `SubmitConnection`, `Stop`, worker loop | each connection handled by one worker and stored once, `Stop` returns and leaves no worker |
| metrics storage (`pkg/storage`) | slice of metrics, time of the last cleanup | `Store`, `Clear`, queries, aggregation | keeps the newest, cleanup enforces both limits, statistics agree with the metrics |
| daemon life cycle (`pkg/daemon/daemon.go`, `cmd/patienced`) | goroutines, context, PID file, socket | start check, `Start`, signals, `Stop`, `Close`, `-stop` | one daemon at a time, it ends, it leaves nothing behind |
| protocol server (`pkg/daemon/unix_server.go`) | connection count, context, WaitGroup | `Start`, accept loop, handlers, `Stop` | counts its connections, answers or closes, `Stop` returns |
| daemon client (`pkg/daemon/client.go`) | one connection | handshake, schedule, register | never holds up the command |
| discovery (`pkg/discovery`) | SQLite tables of limits and observations; resource groups in a map | parse, learn, save, expire, group | a worse source never overwrites a better one, limits are stored as they were stated and under the right key |
| configuration (`pkg/config`) | merged options and their sources | load, merge, validate, debug output | precedence of flags, environment, file, defaults |
| patterns (`pkg/patterns`) | compiled patterns, the buffer of the streaming matcher, counters | load, match, process a chunk, route a response | a match is one, whatever the order of maps and the split into chunks |
| logging, monitoring | none the rest depends on | output | - |

How they interact: the executor calls strategy, conditions and reporter in the
same goroutine; the wrapped command and its deadline run beside it. The metrics
client talks to the daemon's accept loop over a Unix socket, the accept loop
hands connections to the worker pool over a channel, the workers call
`MetricsStorage.Store`, and the HTTP handlers read the storage under its lock.
Daemon processes share two files, the PID file and the socket; processes of the
tool share the discovery database. The daemon client talks a line protocol (one
JSON object per line, answers in order) with whoever listens on the socket.

What is hard to test here: the submit/stop race of the pool, the accept/stop
race of the protocol server, deadlines against commands and clients that do not
end, a search for a slot that gives the lock back at every step, crashes and
restarts between the steps that touch the two shared files, reads and writes of
the database that other processes interleave, a cache whose key leaves
something out, maps that are walked in random order, cleanups that run only
when something else happens, statistics computed incrementally, integers that
overflow before they are capped, layers of configuration with different notions
of "set". The list, line by line, is under `hazards` in `PROJECT.json`.

## 2. Modules

| module | models |
|---|---|
| `Delivery` | abstract: what the worker pool promises the connections it is given |
| `WorkerPool` | `worker_pool.go`; implements `Delivery` |
| `Executor` | `executor.go` (without the daemon), `conditions.go`, `ui.go` (statistics), `metrics.go`, the end of `subcommands.go` |
| `Diophantine` | `backoff/diophantine.go`: `CanScheduleRequest` as an operator |
| `Scheduler` | `scheduler.go`, with the clients that use it; extends `Diophantine` |
| `Backoff` | the delay functions of `strategy.go`, `polynomial.go` and `diophantine.go` as operators on integers of the machine |
| `Strategies` | `Run`'s sequence of calls to a strategy, with the state of `adaptive.go`, `http_aware.go` and decorrelated jitter; extends `Backoff` |
| `Storage` | `storage.go` |
| `Daemon` | `daemon.go`, start and stop of `server.go`, `cmd/patienced/main.go` |
| `Coordination` | `unix_server.go`, `client.go`, `configureDaemonClient`, `coordinateWithDaemon` |
| `Discovery` | `discovery/service.go`, `learner.go`, `types.go`, `database.go`, `backoff/diophantine_discovery.go`: what several processes do to the shared table of limits |
| `LimitParser` | `discovery/parser.go`, `enhanced_parser.go` |
| `ResourceGroups` | `discovery/resource_grouper.go` |
| `PatternSets` | `patterns/pattern_set.go`, and how `json_matcher.go` parses a pattern |
| `JSONMatcher` | the rest of `json_matcher.go`: following a path, comparing; extends `PatternSets` |
| `Streaming` | the streaming matcher of `patterns/multiline_matcher.go` |
| `HTTPRouting` | `patterns/http_pattern_matcher.go`, `backoff/http_aware_selector.go`, `http_aware_adaptive.go` |
| `Config` | `config/config.go`, how the subcommands load and validate, `loadConfiguration` of `patienced` |
| `WorkerPoolProofs`, `ExecutorProofs`, `DaemonProofs`, `ConfigProofs` | theorems about the module of that name, see section 4 |
| `SchedulerProofs` | theorems about `Diophantine` and `Scheduler` |
| `CoordinationProofs` | theorems about `Coordination`, `HTTPRouting` and `PatternSets` |
| `DiscoveryProofs` | theorems about `Discovery`, `ResourceGroups` and `LimitParser` |
| `LoopProofs` | theorems about `Backoff` with `Strategies`, `Storage` and `Streaming`, and the lemmas on induction and loops they need |
| `MC...` | constants and initial restrictions for TLC |

Every module has its state in `VARIABLES` named after the fields they stand
for, and one action per stretch of code that no other goroutine or process can
interrupt: a critical section, a `select`, a blocking read, a system call on a
shared file, an SQL statement. Variables under "observation" or "history" only
watch; no guard reads them. Definitions whose comment begins with "Mutated" are
wrong on purpose: each is a plausible mistake in the definition that follows
it, and `PROJECT.json` names the property that notices it. Invariants are
conjunctions of named parts, the type invariant among them; the run checks the
conjunction. Each property has one mutant, which breaks one of its parts: that
the other parts can fail is not shown by a run.

**WorkerPool and Delivery.** `SubmitConnection` is two steps, because it
releases the lock between its check and its `select`; `Stop` is three (mark,
cancel, wait). The channel is a sequence bounded by `QueueCap`; both of Go's
choices at a `select` with two ready cases are kept. What a client sends is
`"metrics"` or `"unusable"`, the latter covering errors, silence until the read
deadline and bad JSON. `Delivery` knows neither workers nor locks nor `Stop`: a
connection is refused, or waits in a bounded line, is served in its turn by one
of a fixed number of servers and leaves one record if it brings metrics. The
refinement mapping (`Promise`, `PhaseOf`, `Recorded`) reads the phase of a
connection off its place, its result and the storage; `PromiseKept` is
`Delivery`'s specification under it.

**Executor.** Output is the set of configured patterns that it matches. An
attempt ends by itself, by a start failure, by more output than the buffer
takes, or at the deadline; the last takes two steps, the signal and the death of
the command, which a command that ignores SIGTERM need never take. The goroutine
that sends the metrics runs beside the `os.Exit` of the tool and may lose.

**Scheduler.** Time counts in minutes, the step of `GetNextAvailableSlot`, which
is one action per candidate because it takes the lock anew for each. Booking is
one `AddRequest` per retry. `orderly` watches whether bookings were made on
answers that were still fresh. The sort in `CanScheduleRequest` puts each time
at its rank, since `sort.Slice` is not stable and equal times are equal.

**Backoff and Strategies.** A duration is an integer of at most `MaxInt` that
wraps where Go's does; a float that does not fit becomes the largest or the
smallest integer, depending on the machine. A random draw is a multiple of
1/`RandDen`. Multipliers and exponents are fractions (a delay for the exponent
x/y is the whole part of a root, `Root`), and delays may be negative:
`FlagsValid` is what the subcommands accept, which for most strategies is
everything. A run is the sequence of attempts with the calls that `Run` makes:
outcome recorded (with the delay computed again), output processed, `Delay`. An
output is the hints that the regular expressions would find: the retry headers
in their order (`Refused` for digits that `Atoi` refuses), the reset, the JSON
field.

**Storage.** Metrics carry a time, a command, a success flag and a duration.
`Store` contains its cleanup. The loops over the metrics (`Collect`,
`CountRuns`) are recursive functions of the number of turns. Success rates,
floating point in the code, are fractions computed by the same recurrence;
average durations keep the integer division.

**Daemon.** Processes share `pidFile` and `socket`. `Start` is the sequence of
its effects on them, `Stop` likewise; a process may be killed anywhere, and the
system may give its PID to another program. The HTTP server is `Server.Start`,
which shuts down when the context is cancelled and then waits for the request
under way (`busy`), if there is one; a request may end or not. `overlapped`
watches which two starts were under way at the same time.

**Coordination.** A client is in one of the exchanges of the protocol; the
server is a `UnixServer` or what `patienced` really runs on that socket. The
accept loop holds a connection between `Accept` and the launch of the handler,
which is where `Stop` can overtake it. A handler ends in the three steps of its
deferred function: it closes the connection, takes itself out of the counter
(`Uncount`) and out of the WaitGroup (`Done`).

**Discovery.** One action per SQL statement, with the decision that follows it
in the process. Confidence is a fraction, computed with the factors of
`ConfidenceScore`; time counts in days. What the learner finds in the rows of
`learning_data` is any estimate its rules allow (at least two successes, a
confidence of at least 0.3). `read` watches in which states a process has seen
the row it is about to write.

**LimitParser.** An output is a sequence of header-like lines, a JSON document
and a set of words; the parsers consult them in the order of the code, with the
generic patterns that run over the end of a line. A number may be too large for
`Atoi` (`Huge`), a duration may overflow. `ParserAssumption` says what a line, a
document and a command are.

**ResourceGroups.** A group is the set of targets that its patterns match. The
map is walked in any order.

**PatternSets, JSONMatcher and Streaming.** A pattern text is the operators it
contains, a parsed path and a value; documents are small JSON trees. Loading,
validation and matching choose any order of the map and of the operators.
Whether a parsed pattern matches a document is a parameter of `PatternSets`,
`JSONMatches`, for which the run takes `MatchJSON` of `JSONMatcher`: that module
follows the path with recursive operators. The streaming matcher sees a text
over `Symbols` cut into chunks in every way.

**HTTPRouting.** A response is a status, the API that its URL, headers or body
tell, and its `Retry-After`. Callers interleave between the read lock, the match
outside any lock and the write lock; the counters, written without a lock, may
lose updates, and `Delay` may see the attempt or the response of another caller.
Whether the pattern for a status matches a body is again a parameter
(`StatusPatternMatches`, in the run `MatchesStatusPattern` of `JSONMatcher`).

**Config.** A layer is a partial function from keys to raw values; decoding may
fail or coerce as mapstructure does. Reading, binding, decoding, merging and
validating are one step each, for each of the ten subcommands, for callers of
`LoadWithPrecedence` and for `patienced`. `Strings` is the set of texts a
setting may hold (all strings for TLC, which only asks whether a value is one);
`Unset` is the empty string, Go's zero value. `InputAssumption` says what a raw
value is: if it decodes, it decodes to a value of the key's type.

`MCMetrics`, `MCRun`, `MCDecisions` and `MCKnowledge` put several parts that
share no state into one run: a variable `session` chooses in the initial state
which of them a behaviour is about, the others stay in an initial state. For
this the parts of one run use different names (`SchedulerInit`, `SetInit`, ...).

## 3. Runs

| run | instance | result |
|---|---|---|
| `metrics` | pool: 5 connections (3 of them silent), 2 workers, channel of 4, one `Stop` | one owner, stored exactly once, no worker outlives `Stop`; `Stop` returns, what was accepted is handled; every behaviour is one of `Delivery` |
| | storage: 5 stores of 3 kinds of run, size 2, age 3, cleanup every 2 | newest kept and nothing dropped without a reason, both limits enforced at a cleanup, statistics agree |
| `run` | loop: up to 4 attempts, all options, commands that may ignore SIGTERM | result, statistics, metrics and exit status agree, the first decision is final, a timeout that decides nothing is reported and none is made up, `--timeout` ends the run of a command that dies of SIGTERM |
| | coordination: 2 clients, room for 1, either server | connections accounted for, nothing answered after `Stop`, `Stop` returns, every client runs its command |
| `daemon` | 2 processes, one may use the package without `main` | exclusive if starts do not overlap, a start fails only beside one that overlaps with it, a shutdown completes and `Stop` leaves nothing unless an HTTP request never ends |
| `decisions` | strategy: every strategy, up to 14 attempts with durations up to 2047; 6 attempts with windows of 2 and 4 for the learning ones | waits within bounds, not shrinking where the flags make a growing series, `Retry-After` used for its own response only, the adaptive strategy learns what happened |
| | scheduler: 2 clients, 2 resources, 2 identifiers, limit 1, a retry exactly one window later | bookings on fresh answers keep the limit in every span no longer than window and lifetime, identifiers unique, live bookings kept, a free slot stays free, cleanup is invisible |
| | set: 2 patterns out of 11 texts, 2 priorities, 5 documents; stream: a text of up to 11 symbols in a buffer of 6; http: 2 goroutines, 3 calls, 8 responses | the name of the best match is returned, a match is what path and operator mean (behind a wildcard: `==` and `!=`), short patterns are found across chunks in a bounded buffer, answers suit the responses |
| `knowledge` | config: all commands; up to 2 settings in the file, 1 variable, 1 flag, good and bad ones | for the commands that load settings the highest layer decides, and the debug output names it for every key that is set |
| | database: 2 processes, 2 resources of one host, 2 calls; parser: outputs of up to 2 lines and a document; groups: 2 changes of the defaults, 2 questions | stored limits come from the source and resource they are stored for, a fresh row stands, every write counts one observation; what the parsers report is in the output; a resource has one identifier |
| `executor_overflow` | a command with more output than the buffer | **violated**: exit 0 becomes 1 |
| `executor_sticky` | 2 attempts | **violated**: a failure after a timeout is reported as a timeout |
| `discovery_clear` | 1 process, 2 calls | **violated**: a row is trusted after `ClearRateLimitInfo` |
| `patterns_wildcard` | the pattern sets of `decisions` | **violated**: `=~` behind a wildcard never matches |
| `patterns_result` | the same | **violated**: the definition in the result is not that of the best match |
| `config_ignored` | the layers of `knowledge` | **violated**: seven of the ten strategies never look at the environment |
| `config_debug` | the same | **violated**: defaults are shown as values of the file |

Three more configurations, outside the list of runs, each show TLC a case that a
passing property has to exempt; all three are violated:

| configuration | module | property | shows |
|---|---|---|---|
| `SchedulerLongWindow.cfg` | `MCScheduler` | `BookingsKeepLimit` | with a window of 3 and a lifetime of 2 one client books more than the limit into a window, always on fresh answers |
| `DaemonSlowClient.cfg` | `MCDaemon` | `StopReturns` | an HTTP request that does not end keeps `Stop` from returning |
| `StrategiesShrinking.cfg` | `MCStrategies` | `ExponentialIncreases` | `exponential` with a multiplier of 1/2 waits less each time |

Why these bounds. Five connections are one more than the channel of two workers
holds, so rejection happens, and three silent ones keep both workers busy with
one more waiting. Four attempts allow a timeout, a failure, a zero delay and a
decision in one run. For the scheduler one retry a window after the first is the
tight case for the half-open window, one identifier too few makes clients
collide, one probe makes the search give up, and the clock runs for a whole
window, so requests expire. Five stores overfill a storage of two between
cleanups and leave enough for the age limit to act on; averages of 5 and 0 are
not whole. Two daemons are what a race needs. A second client is what the limit
of one turns away. For the database two calls with up to three saves each are
enough to have a row inserted, replaced and observed under the eyes of the other
process, waits of 4 and 8 days reach decay, expiry and deletion, and a row of
the other resource is there to be mistaken for one's own; two lines are what it
takes for one to be read as the other's number. For the strategies a `MaxInt` of
2047 makes every growing series overflow within 14 attempts, a base of 300 lies
above the hour of 240, multipliers lie below, at and above 1, a base is
negative, and six attempts fill and slide a window of four. Two patterns
compete, a buffer of six symbols is halved twice in a text of eleven, and three
calls of two goroutines allow a miss that overlaps a miss and a hit after both.
Two settings in the file are enough for one to be shadowed and another to be
broken. All bounds are `CONSTANTS` named as such.

Deadlock is checked in `run`, where only the coordination of clients and servers
may stop for good (`MCNext` lets it stutter). The other runs do without:
everything may be closed, exited or stopped (`metrics`, `daemon`), or the calls
of a bounded session made (`decisions`, `knowledge`).

Fairness. Goroutines and processes that can run do run; deadlines (the worker's
5 seconds, the server's 30, `Accept`'s deadline, the command's context) pass.
Nothing is assumed of wrapped commands ending, of clients closing, or of anyone
calling `Stop`. A signalled command is assumed to die only if it does not ignore
SIGTERM, and `TimeoutEndsRun` is about those commands. Nothing is assumed of
HTTP clients either: `ShutdownCompletes` exempts a request that never ends, and
`DaemonSlowClient.cfg` shows what it does. `Shutdown` returns when no request is
under way. In `metrics` and `run` the fairness of a part is assumed in the
sessions about that part (`session = "pool" => Fairness`).

## 4. Theorems

All are proved for every value of the constants that satisfies the named
`ASSUME`s of the modules; one theorem states one condition more. Of the 40
properties the passing runs check, 33 are proved here: all but the liveness
properties and one about recursive operators.

| theorem | states | in |
|---|---|---|
| `OwnershipIsUnique`, `StoresExactlyOnce`, `StopIsQuiescent` | `SingleOwner`, `StoredExactlyOnce`, `NoWorkerOutlivesStop` | `WorkerPoolProofs` |
| `PoolKeepsPromise` | `PromiseKept`, the refinement of `Delivery` | `WorkerPoolProofs` |
| `WindowCheckIsComplete`, `CheckIsExact`, `RemovalKeepsLimit` | what `CanScheduleRequest` decides | `SchedulerProofs` |
| `IdentifiersUnique`, `NoLiveBookingLost`, `CleanupIsInvisible`, `FreeSlotsStayFree` | `IdsUnique`, `LiveBookingsKept`, `CleanupInvisible`, `FreeStaysFree` | `SchedulerProofs` |
| `OrderlyBookingsFit` | `OrderlyBookingsKeepLimit` | `SchedulerProofs` |
| `ConnectionsStayAccounted`, `StopSilences` | `ConnectionsAccounted`, `NoReplyAfterStop` | `CoordinationProofs` |
| `RoutingSuitsResponses` | `AnswersSuitResponses` | `CoordinationProofs` |
| `BestMatchIsReturned` | `BestMatchReturned` | `CoordinationProofs` |
| `BooksAgree`, `LoopStopsAtDecision`, `TimeoutsAreReal` | `AttemptsAccounted`, `StopsAtDecision`, `ReportedTimeoutsHappened` | `ExecutorProofs` |
| `SerialStartsExclude`, `StartFailsOnlyInRaces` | `SerialStartsAreExclusive`, `OnlyRacesFailStart` | `DaemonProofs` |
| `RowsHaveProvenance`, `ObservationsGrowByOne` | `Provenance`, `ObservationsCounted` | `DiscoveryProofs` |
| `FreshRowsAreKept`, if `HalfObservations >= 8` | `FreshRowsStand` | `DiscoveryProofs` |
| `GroupsShareOneLimit` | `SharesOneLimit` | `DiscoveryProofs` |
| `ParsersFollowOutput` | `InfoFollowsOutput` | `DiscoveryProofs` |
| `WaitsBounded`, `WaitsFollowOutput`, `WaitsGrow`, `LearningIsTrue` | `WaitWithinBounds`, `WaitFollowsLastOutput`, `WaitsNeverShrink`, `LearnsWhatHappened` | `LoopProofs` |
| `StorageKeepsNewest`, `CleanupsEnforceLimits`, `StatisticsAgree` | `KeepsNewest`, `CleanupEnforcesLimits`, `StatsAgree` | `LoopProofs` |
| `StreamFindsWhatIsThere` | `FindsWhatIsThere` | `LoopProofs` |
| `LayersDecide`, `DebugNamesSetters` | `HighestLayerDecides`, `DebugNamesSupplier` | `ConfigProofs` |

The other theorems (`InductiveInvariant`, `BookkeepingInvariant`) are the
inductive invariants these rest on.

*Worker pool.* `OwnedOnce` is inductive once the state is typed and batches not
yet started have no workers (`BatchAbsent`: otherwise `Start` could reuse a
worker that holds something). `StoredExactlyOnce` is not: that the next store is
the first needs `StoredOnceByHolder` (what is stored is closed, or with a worker
that is about to close it), that a closed connection was stored needs
`ClosedAfterStore`, and both need `ResultMatchesPlace`, which ties what
`SubmitConnection` returned to where the connection is. For the refinement each
action maps to a step of `Delivery` or to a stutter. The hard step is taking a
connection from the channel: `Delivery` serves at most as many at once as it has
servers, so the connections being handled have to be at most as many as the
workers of one batch. `HolderInv` gives that: whoever is handled is held by a
live worker, and live workers belong to the last batch, because `Stop` waits for
all of them before `Start` can make another. All of this covers restarts and
any number of callers of `Stop`, which the run does not.

*Diophantine check.* The code examines only windows that start with a request.
`WindowCheckIsComplete` shows that this decides all of them: a window over the
limit contains requests, the one that starts at its earliest request contains
them all. `CheckIsExact` is about `CanScheduleRequest` itself, the sort
included (which permutes the times and orders them): it says yes exactly when no
window of length `Window`, wherever it starts, holds more than the limit.
`RemovalKeepsLimit`: dropping requests never turns a yes into a no.

*Scheduler.* The book-keeping comes from `IInv == SchedulerTypeOK /\ IdsUnique
/\ LiveBookingsKept`, `CleanupIsInvisible` from the lemma that cleanup leaves
the active requests of every resource as they are, `FreeSlotsStayFree` from
`CheckIsExact`: expiry only shrinks what is counted. `OrderlyBookingsFit` is
about all bookings ever made, while the check sees the active ones only. Its
invariant `LimitInv` says that the history is finite (`FiniteInv`), that
requests expire `Lifetime` after they are due (`ExpiryInv`), that the history
keeps the limit (`KeptInv`), and that a client in the middle of its bookings
still has room for the rest (`FreshInv`). The heart is `AnswerCoversExpired`: an
expired request was due at least `Lifetime` ago, so no span that is no longer
than that holds it together with a request that is still to come, and the check,
which does not count it, is right not to; a span no longer than `Window` is what
the check speaks of. Hence the span of the property, the shorter of the two,
which needs no condition on the constants. For whole windows longer than the
lifetime (an hour in the code, `executor.go:325`, while `--window` has no upper
bound) the limit is not kept: `SchedulerLongWindow.cfg`.

*Protocol server.* The counter equals the number of handlers that have not left
it (`CounterInv`, over finite sets of a possibly infinite set of clients)
because the accept loop holds a connection exactly between `Accept` and its
decision (`PlaceInv`). A handler that `Stop` did not wait for sees the cancelled
context before it reads (`QuietInv`), so nothing is answered after `Stop`.

*Executor.* The statistics count the metrics (`BooksInv`), the place in the loop
tells how many attempts began and ended (`LoopInv`), the sticky flag and the
reasons follow from the history (`HistoryInv`), the `Result` from its last entry
(`ResultInv`), and the sender sends it at most once (`SenderInv`).
`StopsAtDecision` is inductive beside these.

*Daemon.* Two instances that are in their start have overlapped, and the socket
that an instance meets between its cleanup and its `Listen` was made by one
whose start overlapped with its own (`StartsKnown`); that one may be dead by
then. If all processes are `patienced` and no starts overlapped, at most one is
alive (`Alone`): the PID file, once written, keeps the others out. Both parts
hold through crashes at any step and reuse of a PID.

*Discovery.* `IInv` carries what was stated from the parser through each SQL
statement of a process into the row (`ProcInv`, `RowInv`), with the observations
that outcomes rest on. `ObservationsGrowByOne` allows one loss, which the code
has: two processes find no row, both insert, and the second fails on UNIQUE
(`database.go:147`). `FreshRowsAreKept` adds `VerdictInv`, that a decision to
replace is justified by the row read, and compares the confidence scores, which
are products of four fractions. The condition `HalfObservations >= 8` comes from
there (the code has 10): with 7 or fewer, one report of a header could outweigh
a limit the user set that has met with nothing but failures. Groups: every
identifier given out since the last change is explained by the groups as they
are (`AssignedInv`); the default group is there unless somebody removed it
(`DefaultInv`).

*Configuration.* What is in `cfg` at each step of the load, in terms of the
layers (`PhaseInv`), and what `sources` names by then (`SourceInv`).
`LayersDecide` is about the three subcommands that load settings,
`LoadWithPrecedence` and `patienced`; of the seven others it says that they run
with valid settings only. `DebugNamesSetters` leaves out defaults beside a file,
where the output is wrong (`config_debug`). The settings may be any and any
number; the runs take two in the file and one elsewhere.

*Loops.* What a loop over data computes needs induction, and the library's
induction theorems take a predicate, which the provers cannot instantiate.
`LoopProofs` starts from the one fact that needs none, that a set of naturals
has a smallest element (`SmallestElement`, from well-foundedness), and derives
induction for a set in place of a predicate (`Induction`) and, for a step
function given as a function, that the recursive function over it exists and
satisfies its equation (`Iteration`). Each loop of the model is a recursive
function of the number of turns made, so that its meaning follows: the powers
and Fibonacci numbers of `Backoff`, the buckets over the window
(`CountOutcomes`), the filter of the cleanup and of `GetByTimeRange`
(`Collect`), and the aggregation (`CountRuns`).

*Strategies.* Each delay function is bounded by a lemma of its own; the product
that wraps lands below the smallest or above the largest integer, and `Capped`
takes both to the maximum. `IInv` adds to that which state of the strategy the
last wait came from (`WaitedByStrategy`), without which nothing is known of the
delay that `recordStrategyOutcome` computes again, and that the window of the
adaptive strategy is as full as its count says. `WaitsGrow` compares two
successive members of each series, for any flags that `Growing` admits: a base
that is not negative, a multiplier of at least 1, an offset of at most an hour.
With fractions that takes the monotonicity of powers, of the whole part of a
fraction and of a root (`RootFacts`).

*Storage.* `StorageInv`: timestamps rise, none is in the future, and what is
stored is the end of the history (`IsEndOf`). The filter by age keeps an end
because the timestamps rise; the trim keeps an end of that end. Young metrics
are dropped only by the trim. `StatisticsAgree` needs no invariant beyond types:
it follows the aggregation turn by turn, with the rates as fractions whose
denominators are the counts and the averages within the rounding of each turn.

*Streaming.* As long as nothing has matched, the buffer is an end of what was
given, and long enough to hold all but the last symbol of a short pattern
(`StreamInv`); so an occurrence that the next chunk completes lies within buffer
and chunk.

*HTTP-aware selection.* What a caller holds between its locks was computed from
a response with the key of its own (`CallersOK`), and so is what the cache holds
(`CacheOK`). Where the URL or a header of the key tells the API, the strategy
depends on nothing the key leaves out; the wait does (`Retry-After`, the body),
so it is shown long enough only where all matched responses with that key are
the same. The counters never exceed the calls that were made, and agree with
each other unless two calls overlapped (`SharedOK`, `CallsCounted`).

*Pattern sets.* The best match so far has the highest priority of those that
matched (`BestOK`), and a set that Validate has accepted stays so (`ValidOK`): a
text with one operator makes the same matcher every time (`SingleMatcher`). The
theorem holds for every meaning of the patterns.

*Parsers.* `ParserInv` only says that the infos are those of the output. The
rest is about the operators, for every output: a header is a number that a
visible line of its name states (`HeaderFacts`), each info follows its lines or
its document (`HeaderInfo`, `DocumentInfo`), a document counts only when all
lines were seen and none gave a number (`BaseFacts`), a window is positive
unless what it was computed from overflows or is zero (`PolicyWindow`), the key
is the URL where no option with a value comes before it, and populating always
yields a limit (`PopulateFacts`).

Only model-checked, and why:
- liveness (`StopTerminates`, `AcceptedIsHandled`, `TimeoutEndsRun`,
  `ShutdownCompletes`, `StopReturns`, `EveryClientRuns`): fairness is outside
  the prover;
- `MatchIsExistential` of `JSONMatcher`: it compares two recursions over JSON
  trees, and the prover refuses modules with recursive operators. Recursive
  functions, the way out in `LoopProofs`, need a set as their domain, which trees
  of any depth do not form without one more layer of definitions than the code
  has.

## 5. What the models show about the code

Findings with a run, which checks what a document, a comment, a test or a
shipped pattern says; `PROJECT.json` quotes it:

- `executor_overflow`: output beyond the buffer limit turns exit status 0 into 1
  (`executor.go:33`);
- `executor_sticky`: `timedOut` is never reset, so later failures are reported as
  timeouts (`executor.go:535`); `ReportedTimeoutsHappened` says exactly when;
- `discovery_clear`: `ClearRateLimitInfo` leaves a fresh row in force, because
  `ShouldUpdate` looks at the computed score, which is the same (`service.go:203`).
  For the same reason a second manual limit does not replace the first, nor does a
  changed limit in later headers, unless the row is older than a day;
- `patterns_wildcard`: behind a wildcard only `==` and `!=` compare the nodes
  (`json_matcher.go:275`, `:384`), so that the patterns at `kubernetes.yaml:24` and
  `docker.yaml:58` never match;
- `patterns_result`: the returned `Pattern` points to the loop variable, which under
  Go 1.21 holds the pattern tried last (`pattern_set.go:247`);
- `config_ignored`: seven of the ten subcommands read neither file nor environment
  (`subcommands.go:699`);
- `config_debug`: the debug output calls every default "config file" once there is a
  file (`config.go:664`).

Other places where the code and a document or comment disagree, or where it does
what a reader may not expect, visible in the models:

Executor and command line
- `executor.go:104`: after SIGTERM nothing else is sent and `cmd.Run` waits
  without a limit, so that a command that ignores the signal hangs the tool
  (`README.md:20` promises the contrary).
- `executor.go:214`: output of an attempt that timed out is dropped, so a failure
  pattern in it does not stop the retries (`README.md:210`).
- `executor.go:379`: the delay "actually used" is computed again, which for a
  strategy with jitter gives another value.
- `subcommands.go:444`: the tool may exit before the metrics are sent
  (`DAEMON.md:268`).

Strategies
- `subcommands.go:125`: `exponential` accepts multipliers below 1, with which the
  waits shrink (`StrategiesShrinking.cfg`), against "Exponentially increasing
  delays" of `README.md:144`.
- `strategy.go:67`, `:106`, `:229`: products overflow before the cap; a negative
  delay is no wait at all, and jitter can exceed the maximum.
- `subcommands.go:663-815`: linear, fixed, jitter, decorrelated jitter and Fibonacci
  accept negative delays, which are no wait at all.
- `diophantine.go:76`: an offset above an hour is waited in full once, later
  waits are an hour.
- `http_aware.go:104`: an `X-RateLimit-Retry-After` of 0 hides the reset header of
  the same output.
- `adaptive.go:127`: within a run only failures are learnt, and a bucket of
  nothing but failures becomes the best one, because 0 beats the initial -1.

Daemon
- `executor.go:325`: requests expire an hour after they are due, whatever
  `--window` is; with a longer one, as in `examples.md:50`, the scheduler lets a
  window hold more than the limit (`SchedulerLongWindow.cfg`).
- `server.go:69`: `Shutdown` without a deadline waits for a request that a slow
  client never ends, and `Stop` with it (`DaemonSlowClient.cfg`), while
  `daemon_worker_pool_test.go:247` expects it within 5 seconds.
- `worker_pool.go:107`: a submit that has passed its check may write to the
  channel after `Stop` has marked the pool, against the comment at `:76`.
- `daemon.go:272`: after a signal the PID file and the socket stay
  (`DAEMON.md:18`).
- `daemon.go:150`: on its socket `patienced` reads metrics; it does not speak the
  protocol of the daemon client (`DAEMON.md:272`), which never registers.
- `storage.go:253`, `storage.go:85`: between cleanups storage exceeds
  `max_metrics`, and without a `Store` nothing ages out (`DAEMON.md:94`, `:345`).
- `cmd/patienced/main.go:58`: two processes started at once both pass the check,
  and the second takes the socket of the first. `main.go:191`: `-stop` may signal
  a process that got the PID of a daemon that is gone.
- `unix_server.go:94`: "Wait for all connections" does not wait for the accept
  loop; one handler may start after `Stop` returned. It answers nothing
  (`NoReplyAfterStop`).
- `unix_server.go:330`: every schedule request is granted; the request scheduler
  is not used by any server (`DAEMON.md:280`).

Configuration
- YAML names are searched for but their content is parsed as TOML.
- The file's `delay`, `backoff`, `max_delay` and `multiplier` are validated but
  used by no strategy, and `diophantine` is not an allowed backoff type.
- A timeout without a unit is nanoseconds in the file and an error in the
  environment; an empty variable is ignored.
- `patienced`: a flag equal to its default cannot override the file, the default
  files of `DefaultConfig` differ from those of the flags, so that a daemon
  started with `-config` may not be found by `-stop`; the duration as a string
  in `DAEMON.md` is refused by `json.Unmarshal`, and the variables of
  `DAEMON.md:103` are never read.

Patterns
- `json_matcher.go:56`: a text with two operators is parsed in the order of a
  map; `:85`: `=~` with a number or a boolean panics.
- Sets with a `multiline:` pattern do not pass `Validate`.
- `http_pattern_matcher.go:258`: with the default configuration an API pattern
  matches whatever has content, so that status patterns and the default are not
  reached.
- `http_aware_selector.go:191`: the cache key ignores `Retry-After` and the body, so
  that a response may wait as long as an earlier one asked for, while
  `http_aware_integration_test.go:475` says "First retry uses Retry-After";
  `http_pattern_matcher.go:201`: the counters are not synchronised.

Discovery
- `parser.go:151`: the first word that is no option is taken for the URL, so that
  `curl -X POST <url>` (`examples.md:34`) is stored under `POST`.
- `database.go:147`: of two processes that insert the first row at once, one fails and
  its observation is lost.
- `learner.go:215`: an update computed from a row that another process has
  replaced since can bring back the replaced source; that is why
  `FreshRowsStand` asks for a current reading.
- `service.go:71`: the value compared with 429 is documented as an exit code,
  which never exceeds 255; the model takes it as the parameter it is.
- The parser's generic pattern takes the number of a "remaining" or "reset" line,
  or of the next line, for a limit, and the IETF patterns it compiles are never
  consulted; a header with nothing but `Retry-After` hides a limit in the JSON
  body and gives limit 0; a reset given as seconds is in the past and becomes an
  hour.
- `RemoveResourceGroup` of the default group makes `GroupResource` fail with a nil
  pointer. `EnhancedParser`, `ResourceGrouper` and `EffectivenessTracker` are used
  by tests only.

## 6. Not modelled

Text processing whose result is one string or a table of regular expressions:
`identifyAPIResource` and the normalisation of paths, `AnalyzeResourcePattern`,
the matchers for stack traces, structured logs and scenarios,
`ParseHTTPResponse` and `LoadHTTPPatternConfig`. The effectiveness tracker
(counters that only its tests read), the learner's trend analysis, HTTP handlers
that only read and format, logging, monitoring, flag parsing, the wording of
reports, the rounding of floating point. Within modelled components: `Close` and
the `TypeSafe` variants of the client and `LoadFromFile`/`LoadWithEnvironment`,
which only tests call, and protocol errors that no client of this repository can
cause.

## 7. Plan

Done: every component whose operations change state, see section 2; one
refinement, proved; every safety property of the runs but `MatchIsExistential`
proved for all values of the constants. What is left:

1. the text matchers of section 6, if their regular expressions are ever made
   explicit;
2. `MatchIsExistential`, once trees have a set of their own in the model;
3. a second refinement: the daemon client and `UnixServer` as one remote call of
   the scheduler, which is worth stating when the server uses the scheduler
   (section 5).
