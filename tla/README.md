# A verification project for Mecone

Mecone tests HTTP caches. A *client* sends scripted requests through a proxy to
an *origin* it controls, fetches the origin's log of what the proxy forwarded,
and judges each test from the answers and the log. A *catalog run* does this
for many proxies at once, starting and stopping each of them. This directory
models that program in TLA+, checks the models with TLC on small instances and
proves every safety property that the passing runs check with TLAPS, for every
value of the constants. Paths below are relative to `src/`.

## The system

| part | state | operations | talks to |
|---|---|---|---|
| origin store and control plane (`pkg/origin/store.go`, `control.go`) | the entries by test id, each with script, counter and log; `lastSweep` | PUT, DELETE of a script, GET of a log, the lazy sweep | the client over HTTP; the test handler through `*entry` pointers |
| origin test handler (`pkg/origin/respond.go`) | the locals of each handler | look up, number, build the answer (conditions, ranges), log, disconnect, delay, write | the store; the proxy |
| test scheduler (`pkg/client/runner.go`: `Run`, `plan`, `execute`, `schedule`) | one job per test and protocol, its `done` channel and result; a semaphore | wait for required tests, take a slot, exercise, assign, close | goroutines through channels |
| test exercise (`runner.go`: `exercise`, `sendSteps`, `send`; `control.go`) | observations of the steps | upload, send steps and parallel groups, fetch the log, judge, delete | the origin and the proxy |
| judge (`pkg/check/check.go`) | none | `Evaluate`, `Verdict` | called by exercise |
| corpus (`pkg/corpus/corpus.go`) | tests and `byID` | `Load` with the search for cycles, `Select` | gives the scheduler its tests |
| catalog orchestration (`pkg/orchestrate/orchestrate.go`) | one goroutine per target, a semaphore, a run per target | listen, start, await, exercise, stop, close | targets; the client's `Run` |
| target lifecycle (`pkg/target`) | work directory, process or container | `Start`, `WaitReady`, `Stop` | processes, docker, TCP ports |
| origin server (`pkg/origin/server.go`) | two listeners, a goroutine for each | `Listen`, `Close`, `Serve`, shutdown | the contexts of the command line and of the orchestrator |
| test definitions (`pkg/testdef`), wire protocol (`pkg/protocol`) | none | `Validate`, `Test.Script`, `ResponseFor`, templates | the corpus, the client and the origin |
| configuration (`pkg/config`) | none | `Validate`, defaults, `ListenHost` and the other readings | the orchestrator and the targets |
| scores and reports (`pkg/report`, `pkg/results`) | none | tallies, weighted score, ranking, rendering | the command line |
| command line (`pkg/cli`, `cmd/mecone`) | output files, stdout, exit code | the commands, their output and gates, signals | everyone |
| transports (`pkg/proto`) | none | names of protocols, construction of transports | the client |

What is hard, and what would make it wrong:

* the origin numbers and logs a request in two critical sections, keeps using
  an entry that a later PUT has replaced, and reads the clock before it takes
  the lock: numbers must be unique, nothing may be lost, and a log must belong
  to one upload;
* a test's goroutine waits on channels of other goroutines, then on a bounded
  semaphore, then on the network, and the first wait ignores the context: the
  jobs must never all wait, and `Run` must return;
* a step may time out, an upload may be stored although its answer is lost, the
  proxy may forward late or twice, another client's upload may sweep the
  script: a verdict must rest on full evidence;
* a test is numbered, scripted, answered and judged in four packages, which
  must agree on what a step is, with a proxy between them that stores,
  revalidates, repeats and drops: the verdict must follow from what happened,
  and what a test file gets wrong must not be blamed on the proxy;
* conditional requests and ranges are evaluated by two pieces of code, one of
  them the standard library's;
* the interface that all origins bind depends on every target of a catalog, the
  address that a target is told on that target alone;
* a target's life has a dozen early returns with deferred cleanup, and depends
  on ports and processes that the program does not own;
* an origin shuts down while its goroutines may not have started, its handlers
  may not end and its listeners may break, and "run" does so on every way out
  of its client: the exit code must tell what happened;
* the score divides sums over levels that may be empty, and a target without
  results must not pass for a good one or for a bad one.

`PROJECT.json` lists each hazard at its line with the properties for it.

## The modules

**OriginStore** models `store.go`, `control.go` and the control of
`respond.go`. The state is `store.tests`, `store.lastSweep`, the entries (named
by the PUT that allocates them, so that a replaced entry still exists for the
handlers that hold it), the clock, and the place and locals of each request's
handler. Each critical section is an action: `Put` is `store.put` with its
sweep, `TestGet`, `TestNextSeq`, `TestRecord` and `TestAnswer` are the sections
of `serveTest`. `now` of a put is read in `PutArrive`, before the lock, as in
the code. A `TestGone` is a delayed answer whose connection ends.

**TestOutcomes** is the abstract promise of the scheduler: each test's outcome
is decided once; it is judged only when all it requires passed, skipped only
for a reason, and an error otherwise. **Scheduler** is the goroutines of
`execute` and `schedule` that implement it. `AwaitDone` receives from a `done`
channel, `Acquire` and `CanceledBeforeStart` are the two branches of the
`select`, `Release` is the deferred receive, `Assign` and `Close` the last two
steps of the goroutine. `exercise` is one nondeterministic action here.

**TestRun** is `exercise` in detail, composed with the actions of OriginStore
(it EXTENDS that module and takes its actions for the requests of this client,
of the proxy and of another client) and with a proxy that may answer by itself,
forward a step at any time and any number of times, and relay or drop the
origin's answers. The control requests (upload, log, deletion) go to the origin
or get lost on the way. With no `OriginControl` the client sends them through the
proxy, which is then taken to pass each of them on once and unchanged, and to
store none of the answers. What the judge asks of an answer's headers and body is
abstracted to *good* or *bad* here; Exchange has it in full.

**Definition** holds the rules of `pkg/testdef` (`Validate`, down to the lines)
and `Test.Script` with `Script.ResponseFor`. **Respond** is `build` of
`respond.go`: the parser of lists of entity tags, `notModified`, and ranges,
with `http.ServeContent` as an external operator: its preconditions in their
order (`If-Match` or `If-Unmodified-Since`, `If-None-Match` or
`If-Modified-Since`, `If-Range`), then one range. **Judge** is `check.go`:
`Evaluate` and the checks it calls, `Verdict`, and `Log.Step`. The three are
operators without state; a header line is a record, a value a sequence of
tokens, so that lists, templates and patterns are parsed and not assumed.
**Exchange** puts them together with Corpus: a file is loaded and selected, the
client sends the steps of one test, the origin answers and logs what a proxy
forwards, and the client judges. Its proxy stores answers, revalidates them,
answers by itself, drops step numbers and interim responses, fails, and sends
any earlier request again at any time, also after the log was fetched. The
control plane never fails here and an answer is one step: failures and
interleavings within the origin are what TestRun is for.

**Config** is `pkg/config`: the rules of `Validate` for every section, the
defaults, and what is derived from a file (`TargetConcurrency`, `Probe`,
`ListenHost`, and with `pkg/target` and `pkg/orchestrate` the network mode and
the hosts). A file comes with the machine it is read on: its operating system,
and whether `os.Hostname` works there. Catalog EXTENDS it.

**Catalog** is `config.Load` and `orchestrate.Run` with the lifecycle of
`pkg/target`; its targets, slots, ports and stop commands are those of the file
that was loaded. The machine is part of the model: ports are bound by origins and proxies and are
released by `FreePort` before the proxy binds them; proxies start, exit and are
stopped. What is out of the run's hands happens too: a listener of an origin
breaks and its error is discarded (`OriginBreaks`), a start command is killed or
fails when its proxy is already on its way (`LaunchAborted`), a stop command fails
or ends well without an end of the proxy (`StopFails`, `StopIsTrusted`); `left`
keeps why a proxy was left alone. `Fails(t, place)` sets `run.Error` and goes on
with the deferred calls that are registered at that point, in their order.

**Corpus** is `Load` and `Select`, with every way in which they refuse: a bad
entry, no suite at all, an unknown requirement, a cycle, a filter that names an
unknown suite or a pattern that does not parse, nothing selected. The recursive
`visit` and `include` run one call or return at a time over an explicit stack. `order` is a history variable.

**OriginServer** is `server.go`: `Listen` binds up to two listeners, `Serve` runs
a goroutine for each until its context is done or one of them breaks, and shuts
both down within one time limit. `cause` is `context.Cause` of the derived
context. `net/http` is modelled as the code relies on it: `Accepts` may come
after the shutdown, and then closes its listener. The key pair that `ServeTLS`
loads is taken to be the one `Listen` has checked. **Command** EXTENDS it with
the commands of `pkg/cli`: `mpc` is where the command is, `EndsWith` where an
error takes it ("run" has an origin to stop first), `files` what is at each path
(a file that cannot be written may have been emptied), `found` what
`catalogError` or `checkMinMust` will say. "catalog" stands for "run" and
"client" with targets in their configuration; how tests run is left to the
other modules. The errors that end a command are kept apart only where a
property needs it.

**Score** is `Summarize`, one result at a time, then the ranking of the runs and
the gate of `report -min-must`. A summary is a record of tallies by level and of
the other counts; `index` is the map from a suite to its place. The rate that is
compared with the bar is a fraction instead of a float, and the bar itself
`MinMust / Parts` percent, with no bound on either side, as for the flag; the
rounding of floats and the bars NaN and infinity are left out.

`MC*` modules hold the instances for TLC. Definitions introduced by "Faulty
variant" are deliberate errors, unused by the specifications; each one, put in
place of the definition that follows it, makes TLC violate a property, which
shows that the property can fail. `PROJECT.json` pairs them under `mutants` and
gives the source lines of every definition under `map`.

## The runs

| run | instance | what it shows |
|---|---|---|
| `origin_log` | four requests of any kind, two ids and a rejected one, two scripts, a log of two entries, TTL 1, three ticks | numbers name one request, nothing is lost below the cap, a log belongs to one upload, and has every answered request; a sweep takes nothing fresh and keeps nothing beyond 2 TTL |
| `origin_order` | as above, violated | the log is not in arrival order: see *Disagreements* |
| `scheduler_run` | six tests, one slot: a diamond, a missing requirement, a test that does not apply | order of execution, absence of deadlock, the refinement of TestOutcomes, and that `Run` returns |
| `run_sweep` | a wait and a request, forwarded once; one upload of another client; canceled at any time | verdicts only on full evidence and none for a canceled test, a deleted script stays deleted, and `exercise` returns |
| `catalog_run` | eight catalogs (foreground and background processes; containers on the host's, the bridge's and a named network, on Linux and elsewhere; unmanaged proxies; named interfaces; a machine without a name) and fifteen files that are refused, one, two or ten slots, three ports | upstream outlives proxy, bounded load, clean up on every path, failures are reported, the client and every target are given a host that leads from their network to the origin, the run returns unless a command it waits for never ends |
| `catalog_ports`, `catalog_cancel`, `catalog_kill` | process and container, violated | see *Disagreements* |
| `corpus_all` | every graph over three tests, diamonds, chains and cycles over four, refused entries, every filter; then one test of every kind, good or malformed: every `If-None-Match` of up to four tokens and longer ones, two such fields with and without ranges, dates, methods, ranges with `If-Range` (tags weak and strong, dates) and with the other preconditions, empty bodies, interim responses, waits, parallel groups, forwarded headers; at most three requests reach the origin | `Load` accepts exactly the acyclic corpora, `Select` returns exactly the closure, what is accepted can be played; the origin answers with the response the test means and as the request asks; the verdict follows from what happened and does not depend on when the log was fetched, steps arrive in order, and the exchange ends |
| `origin_ignore` | responses with ranges, violated | see *Disagreements* |
| `command_run` | every command, two listeners, six choices of output files, a signal at any moment | nothing keeps serving after a command, handlers are cut off only by the time limit, a broken listener fails the command and a signal does not, the origin outlives the client, exit code 0 means complete output and good targets, and every command ends |
| `score_all` | two runs, two suites, three results of any level and outcome, a bar of 66.7 % | summaries are exact, the score is a share that follows the results, the gate holds every run |

Most runs leave the type invariants (`TypeOK`, `RunTypeOK`, `CommandTypeOK`) to
the proofs, which establish those of OriginStore, Scheduler, TestRun, Catalog,
Corpus, Command and Score.

Bounds, and why they suffice. Four requests at the origin are an upload and
three racing test requests (one more than the log holds), or two uploads, a
request and a fetch. The clock of `origin_log` ends at
`TTL + 4`, so a script can be stored, miss one sweep, and grow older than 2 TTL;
that of `run_sweep` at `TTL + 3`, enough for one sweep between two steps of the
test. One scheduler slot is fewer than the tests
the diamond can make ready. Two slots for three targets make one target wait;
three ports let two managed targets run at once and also run out, and one of
them is the container port that two bridged containers share. Three requests
in an exchange are a request, its repetition and the request of a later step;
four tokens are the shortest list in which a weak mark stands before a tag, or a
comma within one. Tests are
symmetric only where no liveness is checked (`origin_log`).
Three results do not reach a score that rounding could turn into 100; that part
of `FullScoreIsEarned` rests on its proof. `TTL`, `MaxLog` and the clock are small numbers in place of 30 minutes,
`maxLogEntries` and real time.

The origin runs and `run_sweep` do not check deadlock: a finite supply of
requests ends.
Everywhere else a finished program stutters in an action of its own, so a
deadlock is an error.

### Fairness

* Scheduler: weak fairness of each job, of the handshake and of the report. The
  Go scheduler starves no goroutine, and everything `exercise` waits for ends:
  the HTTP client has a timeout and wait steps have lengths. That claim is
  checked by `run_sweep`. Nobody is obliged to cancel.
* TestRun: weak fairness of the client only, whose timeout may always end a
  request. Nothing is asked of the proxy, the origin or time.
* Catalog: weak fairness of each target's goroutine, except where it is `Blocked`:
  `exec.go:58` waits for everyone who holds the output of a command, without a
  `WaitDelay`, so a proxy that keeps the pipe of the command that started or
  stopped it blocks its target for ever, canceled or not; a long `docker run` ends
  only with the context. `CatalogReturns` has as its premise that no target stays
  there. For the rest, the probe has a deadline, `client.Run` returns by the
  above, and stops have a grace period.
* Exchange: weak fairness of `Load` and `Select`, and of the client, whose
  timeout may end any request. Nothing is asked of the proxy.
* Command: weak fairness of the command's own goroutine and of those of the
  server, with the time limit on the shutdown. Tests end by the above, those of a
  catalog under the premise of `CatalogReturns`. Handlers
  need not end, and nothing makes a signal arrive or a listener break.

### Disagreements

Five runs show the code doing something else than its documentation says; each
is a finding in `PROJECT.json` with the quoted lines.

* `origin_order`: of two concurrent requests the one numbered first may be
  logged second, since `nextSeq` and `record` are separate critical sections.
* `catalog_ports`: a port taken between `FreePort` and the proxy's bind is not
  a startup failure if another target's origin or proxy answers the probe.
* `catalog_cancel`: a `docker run` killed by the context may leave a container.
* `catalog_kill`: a failing stop command ends the stop before `SIGKILL`.
* `origin_ignore`: a response with both `ranges` and `ignore_conditionals` is
  answered with 304, since `http.ServeContent` evaluates the conditions.

More of them were met without a run of their own.

* A container on network `bridge` counts as one that joins a docker network
  (`Docker.JoinsNetwork`), so it publishes its `container_port` on the machine and
  not a free port, which `docs/configuration.md:171` says of named networks only.
  Two such targets collide (`Bridged` in `MCCatalog`): `docker run` can publish
  the port for one of them only (`Published` in `Launch`), fails for the other,
  and `FailureIsReported` holds that one to an error and no results.
* `docs/configuration.md:104-106` says that the client always reaches the control
  plane at 127.0.0.1, so that a specific `listen` address makes it unreachable.
  `controlHost` (`orchestrate.go:166-167`) uses the interface that the origin
  bound; `OriginIsReachable` states this for every `listen`, and holds.
* `docs/architecture.md:99-101` says that a matching `If-None-Match` gives a 304.
  `notModified` joins all fields of that name first, but a response with `ranges`
  goes through `http.ServeContent`, which reads only the first of them: a tag
  listed in a second field does not count where ranges are served.
  `AnsweredAsAsked` leaves such requests out (`Disputed`), as it leaves out
  `ignore_conditionals` together with `ranges`.
* `docs/architecture.md:188` gives 8 as the default of `target_concurrency`, and
  `config.go:40` has 10.
* `docs/architecture.md:191-194` says that every renderer walks the runs in catalog
  order. The summary tables of the text and Markdown reports rank them with
  `byScoreDesc`, and the tests of `pkg/report` ask for it; `RankingIsFair` is about
  that ranking.

## The proofs

**OriginStoreProofs**, for all requests, ids, scripts, `TTL` and `MaxLog`:
`TypeCorrect`, `Retention`, `UniqueSeqs`, `CompleteLog`, `UnmixedLog`,
`VisibleAnswers` and `FreshSurvive`. None of these is inductive. `IInv` adds
that pointers lead only to entries whose PUT was stored (`PointersInv`), that an
entry's script and creation time are fixed and never in the future
(`EntriesInv`), and how `lastSweep`, `lastPut` and the age of what is kept
relate (`SweepInv`): two gaps of at most TTL give the bound of 2 TTL. `LInv`
ties the log, the counter and the handlers in between together: every logged
number is at most the counter, a numbered handler's is too, and an answered
request is in its entry's log unless that is full. `NextSeqPost` and
`RecordPost` say once what the two critical sections do; all other steps are
`Quiet` for `LInv`.

**SchedulerProofs**, for all tests, protocols, acyclic requirements and slots:
`TypeCorrect`, `RequiredFirst`, `ReasonedSkips`, `Slots`, `CompleteReport`,
`DeadlockFree` and `Refinement`. `IInv` says that the prerequisites behind a
job have passed (`DepsInv`), that what is returned, assigned and reported agree
(`ResultInv`, `ReportInv`), that a skip has its reason already when it is
returned (`SkipInv`), and who holds the slots (`SlotInv`). Finished jobs never
change (`DoneIsFinal`). `DeadlockFree` takes an unfinished job of least rank:
all it requires is finished, so it can step, or waits for a slot whose holder
can. `Refinement` maps a job to its result once its channel is closed.

**TestRunProofs**, for every plan of steps, proxy and set of other clients. What
is proved of the origin by itself is not proved again: `RunImplementsStore` shows
that a test run, its client and proxy hidden, is a behaviour of OriginStore, so
`IInv` and `LInv` carry over and `StorePromisesHold` restates the results. On top
of them `RInv` says what each request can be at (`RolesInv`: nobody but the one
upload stores anything under the test's id), that `exercise` goes on only after
its upload was answered (`UploadInv`), and which steps have ended where the
client is (`EvidenceInv`). From these follow `RunTypeCorrect`,
`VerdictHasEvidence` and `DeletionIsFinal`. The action property `CanceledIsError`
needs one more invariant: a client that is canceled before it asks for its log is
`Doomed` to end with an error (`CancelingIsNoVerdict`).

**CatalogProofs**, for all configuration files, targets and ports: `TypeCorrect`,
`ProxyHasUpstream`, `LoadIsBounded`, `RunCleansUp`, `LifecycleFailureIsReported`
and `OriginsAreReachable`. `IInv` places every resource between two points of its
goroutine: the slot (`SlotInv`), the origin, the work directory and the process
(`ResourceInv`), the error or the results (`OutcomeInv`); `LoadInv` says that
only what `Validate` accepted is run. Each deferred call then is a step that takes
back what its section says is held. `OriginsAreReachable` is about `Validate` and
the derived hosts. `Leads` looks from the network of the target: the loopback
address means the machine only on the machine's own network, docker's gateway
means it only behind that gateway, and the host name only on a named network,
where Mecone is a container too. The proof goes case by case over unmanaged and
managed targets and the three networks; without the rules of `Validate`, or with a
machine whose name is not known, it does not hold.

**CorpusProofs**, for corpora of any size and any graph of requirements:
`TypeCorrect`, `CorpusIsSound`, `RefusalIsJust`, `SelectionIsLeast` and
`SelectionCanBeScheduled`. The stacks of `visit` and `include` are `Chained` (each call is for the test that its
caller has reached), what a call has gone past is done (`Behind`), and no test is
on the stack of `visit` twice. `OrderInv` says that a finished test comes after
all it requires in the order in which `visit` finished them; `NoCircle` turns
that order into the absence of cycles by taking the test of a supposed circle
that finished first. `ChooseInv` keeps the selection within the closure and
closed under all requirements but the ones on the stack.
`SelectionCanBeScheduled` is the bridge to Scheduler: a selection is closed, and
the place at which `visit` finished a test ranks it above all it requires
(`FinishedIsRanked`).

**ExchangeProofs**, for every corpus, every test and any number of requests:
`CorpusPromisesHold` (the corpus is not touched by the exchange),
`OriginAnswersAsMeant`, `AnsweredAsItAsks`, `MatchesIsListed`, `OrderIsKept`,
`VerdictIsTimeless`, `VerdictIsJust` and `AcceptedCanBePlayed`.
`EntriesInv` leads from the corpus to a test that `Validate` accepted;
`ExchangeInv` says that the script is that test's (`PlayInv`), that every logged
request was answered from it (`LogInv`), that the steps under way are of one
parallel group and no later one was sent (`SentInv`), and that the client's copy
of the log is the start of the origin's (`SeenInv`). `ServedIsMeant` is where the
packages meet: the name that `Script` and `ResponseFor` find is the one the test
means. `VerdictIsJust` compares the loop of `inOrder` with the existence of an
order-preserving choice (`InOrderIsAmong`, in both directions) and needs
`JudgedInv`. `AcceptedCanBePlayed` rests on `PlayedInv`: all headers on the way,
stored by the proxy or in the log, are free of malformed templates. It follows a
line of the file through `Validate`, `Expand`, `Header.Add`, `build` and the
stamp of the origin (`HeaderIsGood`, `BuildIsGood`, `WrittenIsGood`), those of
interim responses too (`EarlyIsGood`); that every pattern of an expectation can be
read is what `Validate` leaves of it (`PatternsAreReadable`).

`AnsweredAsItAsks` compares the parser of lists of entity tags with a definition
of such lists by the quotes around each place (`Lists`). `NextETagCuts` says
where the tag that `nextETag` finds begins and ends; a place after it has the
same parity of quotes before it in the rest as in the whole (`QuotesOfRest`), and
the tag is the only one that begins before that rest (`OneTagListed`). So a list is its
first tag and the rest (`ListsUnfold`), and `MatchesIsListed` follows by taking a
shortest list on which the loop and the definition differ. Several fields are one
such list once they are joined (`JoinIsList`). `BuiltAsAsked` goes through
`build` case by case; where ranges are served there is one field, which `Join`
leaves as it is (`FlattenUnfolds`, `TailBehindOne`), and `IfRangeIsOfVersion`
compares the strong match of `If-Range` with a definition by the tag and the date
of the response. `AskedInv` carries its result to the log: the status of
an entry is the one that `build` gives for what the entry has of the request.

**CommandProofs**, for every command, choice of listeners and output files:
`TypeCorrect`, `NothingStaysServing`, `ShutdownIsGraceful`, `BrokenOriginFails`,
`OriginIsThereForClient` and `SuccessMeansComplete`. `ServerInv` is about
`Serve` alone: what has happened before it is called, which listeners are open,
why it leaves its wait, and how far the shutdown has come. On it stand how far
the origin is for each place of the command (`OriginInv`), which errors are
remembered (`ErrorInv`) and what is in the files (`OutputInv`).

**ScoreProofs**, for any suites and any number of runs and results: `FullScore`,
`ScoreMoves`, `SummariesCount`, `GateIsStrict`, `RankingIsFair` and `TypeCorrect`.
The first two rest on the
invariant that no level has more passes than results (`ScoreInv`) and on facts
about integer division: the quotient is the largest number whose product is
within the dividend (`QuotientIsLargest`), so a share of at most 100 stays within
bounds (`Share`), does not fall when the same weight is added to both sides
(`ShareGrows`) and does not rise when it is added below only (`ShareShrinks`).
`AddShares` says what a result adds to the two sums. `SummariesCount` needs
`ExactInv`: `index` gives every summary to one suite. Its lemmas say that a sum
over a finite set exists, and grows by one with one more result of its kind
(`SumOneMore`, `CountedAdd`). `GateIsStrict` needs `GateInv`: the runs before
the one that `checkMinMust` has reached meet the bar. `RankingIsFair` is about
`byScoreDesc`: every run is ranked once, a higher score before a lower one, equal
ones in the order given, and failed or unscored runs last. The order is total
(`PrecedesIsTotal`), so a run has fewer runs ahead of it than any run it precedes
has (`AheadFacts`), and as no two runs have the same number ahead of them, every
place is taken (`EveryPlaceIsTaken`). `TypeCorrect` needs the same, since the
ranking is chosen by its places.

What is assumed of the constants is in the `ASSUME`s, which TLC evaluates on the
instances of the runs. Scheduler assumes a `Rank`, that is, acyclic requirements:
`CorpusIsSound` proves that `Load` accepts no other corpus, and
`SelectionCanBeScheduled` that what `Select` takes of it has such a rank. Files are lists of
entries and definitions are what the Go types make them (`CorpusAssumption`,
`DefinitionsAssumption`, `PlanAssumption`); that the name of a response is not
the token that stands for a malformed template only keeps names and templates
apart, since a name is never expanded. A catalog's number of slots is an integer
and the targets of an accepted file have their names in `Names`
(`CatalogAssumption`); the container port is a port (`PortAssumption`); dates are
those that the model can compare (`NowAssumption`); there are finitely many
suites (`BoundsAssumption`).

The library's induction schemes cannot be used with these provers. Where a fact
about all numbers or lists was needed, its proof takes a least counterexample
(`LeastNumber`, `SmallestSubset`), and loops of the code are recursive functions
over positions, whose existence is a lemma (`CountsExist`, `AddsExist`,
`SumsExist`, `FlatsExist`).

Only model-checked: the liveness properties (`RunReturns`, `ExerciseReturns`,
`CatalogReturns`, `ExchangeEnds`, `CommandEnds`), since fairness is out of the
prover's reach. Proved and not part of a run: `Slots` and `CompleteReport` of
Scheduler, `RankingIsStable` of Score, and the results that are about operators
or about the fit of two modules (`MatchesIsListed`, `SelectionCanBeScheduled`,
`RunImplementsStore`, `StorePromisesHold`, `CorpusPromisesHold`).

## Not modelled

Rendering (reports as text, tables, CSV, Markdown and JSON), the comparison with
a baseline, which only annotates a rendered report, the decoding of YAML and
JSON, the syntax of header lines, the expansion of variables in files and
commands, the merging of a configuration file with flags, and the arguments of
docker are formatting and I/O.
Transports (`pkg/proto`) configure the standard library and have no state. Data
races inside the Go runtime are not considered: shared data is under a mutex or
handed over by a channel. What a command does with its output pipe is outside of
the program (see *Fairness*), and whether a catalog run whose origin breaks in the
middle should say so is not judged, since nothing in the repository says it
(`orchestrate.go:112`). What `http.ServeContent` makes of `If-Match` and
`If-Unmodified-Since` is in the model, but no property is about it, as the
documents do not mention it. Several ranges in one request are not told apart from
one.

A step of which nothing was logged when the client fetched the log can still
reach the origin later; `VerdictStands` is about every other step.

## Plan

Done: all modules above with their runs, and the proofs of every safety property
and action property of the passing runs. What could follow:

1. the liveness properties as theorems, once a prover can reason about `ENABLED`
   and fairness;
2. a specification that runs Corpus, Scheduler and one TestRun per job as one
   system. Today they are joined by assumptions that the next module proves
   (`SelectionCanBeScheduled` for `Rank`, `ExerciseReturns` for the fairness of
   `exercise`).
