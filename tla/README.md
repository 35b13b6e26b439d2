# Verification of EventWeave

EventWeave compiles scenarios into event plans, fills in texts, sends the plans
somewhere and scores what an agent makes of them (Python), and replays or serves
the plans (Go).  This directory holds TLA+ models of both halves, the TLC
configurations that check them on small instances, and TLAPS proofs.

    tlc -config MCWorkerPool.cfg MCWorkerPool      # a model-checking run
    tlapm WorkerPoolProofs.tla                     # proofs of a module

`PROJECT.json` lists the runs, what each definition models (`map`), one mutant
per checked property, the hazards, the findings and the theorems.

## 1. The system

| Component | State it keeps | Operations | What makes it correct |
|---|---|---|---|
| Worker pool `worker/pool.go` | a bounded channel, a closed flag, a context, three atomic counters | Submit/Write, Open, Close, the worker loop | every event has one outcome; Close drains what it owes; nobody blocks for ever; the counters add up |
| Replay loop `runtime/runtime.go` | position in the sorted plan, emitted and failed statistics | RunWithContext | plan order, no event twice, stops once `--max-failures` writes have returned an error to it, ends on a signal, honest statistics |
| Batching Kafka sink `sinks/kafka/batch.go` | buffer, timer, closed flag, counters, one mutex | Write, Flush, Close, timer callback, retries | no accepted event lost, stranded or stored more often than the client has attempted it |
| Streaming HTTP endpoint `server/http_server.go` | replay buffer, list of subscriber channels, counters | Write, handleEvents, Close | order and completeness for each client across replay and live events; slow clients hurt only themselves |
| Syslog endpoint `server/syslog_server.go` | TCP connections or UDP registrations, background loops | accept, register, clean up, Write, Close | known clients are served, fresh registrations live, Close ends |
| Serve loop `server/server.go`, `router.go` | endpoints, position in the plan | open all, route and write, wait for a signal, close all | no endpoint left open; every event goes where its filter says |
| HTTP, Kafka, syslog, file, stdout, null sinks `sinks/*` | two counters each | Write with retries | retries within count and time budgets; one counter per write |
| Clock and rate limiter | start time, last slot | Wait | never early; a late loop catches up |
| Loader, configuration, statistics, metrics, encoders (Go) | none worth a model | parse, validate, format | |
| Scenario compiler `eventweave/compiler` | loaded packs, counters of ids, flows, the lists of entities and events | load packs, generate entities, expand the timeline, add noise, jitter, sort, check rules and schemas | the closure of the dependencies, references that resolve, order within a flow, rules that hold in the plan that is written |
| Plan directory: `compiler/writer.py`, `ai/*`, `cli/commands/semantic.py` | the files of a plan, the cache of assets, the semantic pool | compile, semantic generate | references and pool agree; `--force` repairs what the cache holds; a killed command leaves something the next can use |
| Python runtime `eventweave/runtime`, `run`, `encode`, `export` | the sorted plan, position, counters of the sink | write with retries, encode, enrich, preflight | every event accounted for, in order, closed sink, retries within their limits |
| Evaluator `eventweave/evaluation`, `benchmark` | consumed candidates, metrics, reports, ranking | match findings and stages, score, validate a suite, run agents, rank | one candidate for each expectation, first fit, metrics within bounds, a suite that validates can be run |
| Realism report `eventweave/quality` | none | count, compare with gates | the figures that the gates of a suite compare |
| Scaffolding, exporters, CLI | none | report, print | |

How they interact.  `run` and `bench` build one sink, wrap it in a worker pool
when `--workers` is above one and the sink is `http` or `kafka`, and hand it to
the replay loop.  The loop calls Open, Write for each event, Flush, Failed and,
deferred, Close; with a pool, Write is Submit, and the workers call the inner
sink's Write concurrently.  `serve` builds endpoints instead; one goroutine
writes every event to each endpoint and closes them after a signal, while the
endpoints' own goroutines accept clients.  The Python commands meet each other
and the Go side only through files, above all a plan directory: `compile` writes
it, `semantic generate` reads tasks and events, keeps a cache below it, rewrites
`event_plan.jsonl` and adds `semantic_pool.json`; `run`, `encode`, `export`,
`benchmark` and the Go commands read it.

Hard behaviour: Submit racing Close in the pool; timers whose callbacks are waiting
for the mutex when they are stopped; clients that come and go between the steps of a
broadcast; signals that may arrive at any point; retries that store part of a batch;
statistics kept in two places.  On the Python side it is long sequences of legal
steps: several files rewritten one after the other by commands that may be killed; a
cache that outlives the plan it was made for; lists that grow while they are
iterated over, counters that start again, jitter that moves events after they were
checked; packs that depend on each other in circles; and a greedy matching whose
result depends on the order of lists.  The hazards in `PROJECT.json` name the lines.

## 2. Modules

| Module | Models | Uses |
|---|---|---|
| `WorkerPool` | `worker/pool.go` | |
| `WorkerPoolProofs` | theorems about it | extends `WorkerPool` |
| `Delivery` | the abstract promise of a replay | |
| `Replay` | `RunWithContext` over direct and pooled sinks, `SortEvents`, the signal | instantiates `WorkerPool` (composition) and `Delivery` (refinement) |
| `ReplayProofs` | theorems about it, and that it implements `Delivery` | extends `Replay`, instantiates `WorkerPoolProofs` |
| `KafkaBatch` | `sinks/kafka/batch.go` | |
| `KafkaBatchProofs` | theorems about it | extends `KafkaBatch` |
| `HttpBroadcast` | `server/http_server.go` and the goroutine that drives it | |
| `HttpBroadcastProofs` | theorems about it | extends `HttpBroadcast` |
| `SyslogServer` | `server/syslog_server.go`, TCP and UDP, and that goroutine | |
| `SyslogServerProofs` | theorems about it | extends `SyslogServer` |
| `PyNone` | the value None, dictionaries and sorted lists, for the modules of the Python half | |
| `Packs` | `compiler/pack_loader.py`, `realism_resolver.py`: packs, dependencies, profiles | extends `PyNone` |
| `Timeline` | `compiler/planner.py`, `noise_generator.py`, `jitter.py` | extends `PyNone` |
| `Rules` | `compiler/rules.py` and the checks of `schema_validator.py` on events | extends `Timeline` |
| `Compiler` | `compiler/engine.py`: the whole compilation | extends `Packs`, `Timeline`, `Rules` |
| `CompilerProofs` | theorems about it | extends `Compiler` |
| `Evaluation` | `evaluation/evaluator.py` | extends `PyNone` |
| `Realism` | the metrics of `quality/realism.py` that gates compare | extends `PyNone` |
| `Benchmark` | `evaluation/validator.py`, `runner.py`, `io.py` | extends `Evaluation`, `Realism` |
| `BenchmarkProofs` | theorems about matching, scores, validation and ranking | extends `Benchmark` |
| `Semantic` | the pure parts of `eventweave/ai`: jobs, validation, resolution | extends `PyNone` |
| `LocalRuntime` | `runtime/local.py`, its sinks, `encode`, `export`, enrichment | extends `Semantic` |
| `PlanDirectory` | `compile`, `semantic generate` and the readers on one directory | extends `LocalRuntime` |
| `PlanDirectoryProofs` | theorems about it and about the runs of `LocalRuntime` | extends `PlanDirectory` |
| `MC...` | the instances that TLC checks | extend the module they name |

Definitions whose comment begins with `Mutated X` are deliberate bugs: they are
used by no specification and serve to show that a property can fail.

Variables called "history" in a declaration record what happened and influence
nothing.  Messages, payloads and encodings are abstract: an event is a value,
and encoding it either works or does not.

**WorkerPool.**  `spc`, `wpc` and `phase` say where each submitter, each worker
and Close are; the flag `closed` and the context are read off `phase`.  Submit is
five alternatives after `SubmitBegin`: the closed check is a step before the
send, so a Submit may pass the check, be descheduled, and send after Close has
joined the workers.  `SubmitSend` is enabled under both policies whenever the
channel has room, because Go's select picks any ready arm.  A worker takes jobs
in `select` or `drain` state and leaves only from `drain` with an empty channel.

**Replay.**  The pool of the composition has one submitter, the replay
goroutine.  `Main` is that goroutine, `Work(w)` the workers, `Cancel` the signal.
A direct sink is its two counters.  `pc` distinguishes the ways out: `returned`
(statistics and no error), `interrupted` (ctx.Err() from the head of the loop),
and `error` (nothing was opened).

**Delivery** says what a caller may rely on whatever the sink: events are offered in
plan order, none twice, and a limit on events cuts off the end of the sorted plan,
so that no event is left out before one that is offered; an offer is taken or
refused at once, or taken and settled later; the replay is over only when nothing
that was taken is unsettled.  `Replay!KeepsPromise` maps an event inside Submit, in
the channel or in a worker's hands to "taken".

**KafkaBatch.**  Everything happens under one mutex, so a critical section that does
not touch the network is one step.  A section that sends keeps `mu` taken over
several steps (`SendError`, `SendOk`, `GiveUp`).  `timer` is the timer in `s.timer`;
`stale` counts callbacks that wait for the mutex although their timer has been
stopped.  The increment of `failed` outside the mutex is a load and a store, and so
is the one inside, since the two race.  `SendOk` and `SendError` are calls of
`WriteMessages`.  The writer that `runtime.go` builds leaves kafka-go's own retries
on, so a call attempts a message up to `ClientAttempts` times and may store a copy
with each; a call that succeeds has stored each message at least once.  An attempt
may also come to its end after the context of its call has expired: what it stores
then is counted with its call, because nothing that the sink does depends on when it
arrives.

**HttpBroadcast.**  `Write` is the critical section `WriteRetain` followed by
one step per subscriber: `WriteSend` or, when the channel stays full, `WriteTimeout`.
Each connection is a handler that registers and copies the buffer in one critical
section, then writes the copy, then its channel.  A channel is named by its client.

**SyslogServer.**  `Write` is the copy of the peers, one step per peer, and the step
that installs the survivors.  `idle` counts the cleanup periods since a UDP client
was last heard.

**Compiler.**  `phase` says which call of `ScenarioPlanner.compile` or
`compile_scenario` is running; each loop over packs, timeline items, references,
noise events and events to jitter is one step per turn.  `Packs` keeps the stack of
`load_with_dependencies` and the packs visited, in order.  `Timeline` shares one
list, `entities`, between the expander and the loop that iterates over it, as the
code does: `$new` appends to the list of which `NextFlow` takes the next element,
and the counters `made` are the expander's own and start at zero.  Every random draw
(which entity, which delay, jitter, probability) is a choice.  A delay may be given
with its ends in either order.  A step whose `at`, `delay` or `jitter` cannot be
read as a duration ends the compilation where the expander comes to it
(`ExpandFails`); the scenario's own duration and the maximum of jitter are taken to
be readable.  Time is counted in microseconds, because that is what jitter and step
jitter use to keep events apart; one attribute stands for all.  The four relations
of `Rules` that compare events look at positions in the sorted list, as `rules.py`
does; the property `StrictIsSound` says what they mean by times.

**Evaluation, Realism, Benchmark.**  `MatchFinding` and `MissFinding` are one
turn of the loop in `evaluate`, `MatchStage` and `MissStage` one of
`_evaluate_timeline_stages`; a ratio is an integer out of `One`.  `Benchmark`
validates a suite and then runs it over the same files, which may be missing
or malformed where the loaders look; each scenario makes an evaluator, which
takes its steps before the next one.  An exception that no caller handles is the
phase `raised`.

**Semantic, LocalRuntime, PlanDirectory.**  `files`, `cache` and `command` are the
directory and the process that works on it.  `compile` writes its eight files one
per step, in the order of `PlanWriter.write`; `semantic generate` takes one job per
step, from the cache, from a provider or after a retry, and then writes plan and
pool in two steps.  Between any two steps, and in the middle of a write, the process
may be killed.  A half-written JSON file is `Torn`; of `event_plan.jsonl`, whose
lines stand for themselves, a prefix may be left.  `run`, `encode run` and `export`
read what is there and send it: `LocalRuntime` has one action for each thing that
may become of an event, with the clock of retries (`elapsed`) in seconds.
`received` is what has reached the endpoint, each post with the answer that the sink
saw: 2xx, 429, 5xx, another status, or none.  The endpoint may have processed any of
them, so each counts as an arrival; a post without an answer may have arrived or
not.  `PostRaises` is an answer that is no HTTP: the `http.client.HTTPException` is
none of the exceptions that `http.py` catches, and ends the run with the event in
flight neither written nor failed.  An encoder is the set of attributes it requires,
an enrichment profile its ordered mappings and its defaults.

A cache key joins provider, scenario, task and event with underscores, which the ids
of scenarios and tasks have themselves.  `Words` splits these ids at their
underscores, and `Joined` puts the words together again, so that different tasks may
have one key.  `KeysApart` says that those of an instance do not.  A generate
without `--force` takes what it finds under a key; its pool is `Trusted` only if
`KeysApart`, one made with `--force` always.

## 3. Runs

| Run | Instance | Shows |
|---|---|---|
| `worker_pool` | 3 events, 2 submitters, 2 workers, queue of 1, both policies | `Conservation`, `OneOutcome`, `DrainedOnClose`, `SubmitReturns`, `CloseReturns` |
| `replay` | 3 events (2 at the same time), 14 configurations, 2 workers, queue of 1 | `KeepsPromise` (refinement of `Delivery`), `LoopStopsAtMaxFailures`, `EmittedBracket`, `AtMostOneLateWrite`, `Terminates` |
| `kafka_batch` | 3 events, 2 writers, batches of 2, 1 retry, 2 attempts of the client in each call, 1 event that does not encode | `OnePlace`, `NeverStranded`, `StoredAtLeastOnce`, `HonestCounters`, `EveryEventSettles` |
| `http_broadcast` | 3 events, 2 clients, replay buffer of 2, channels of 1 | `InOrderOnce`, `NothingSilentlyMissed`, `WritesReturn`, `HandlersExit` |
| `syslog_server` | 3 peers, 1 of them not allowed, 2 events, time to live of 2 periods | `NoWriteToClosed`, `ServedOnceListed`, `FreshClientsServed`, `CloseReturns` |
| `compile` | 11 scenarios over 2 packs directories, up to 3 flows | `PacksClosure`, `RefsResolve`, `FlowOrderKept`, `StrictIsSound`, `CompileEnds` |
| `evaluation` | every answer of up to 3 findings to 25 ground truths, stages, and 29 suites with faults or gates | `FirstFit`, `ScoresFair`, `ValidatedSuiteRuns` |
| `plan_dir` | a scenario, an edit of it and another scenario with the same event ids, 2 events, 2 tasks, 4 commands, 10 sinks | `RefsInPool`, `ForcedIsFresh`, `EveryEventAccounted` |
| `syslog_forgotten` | as `syslog_server` | the code violates `NoConnectionForgotten` |
| `replay_shutdown` | as `replay` | the code violates `ShutdownPrintsStats` |
| `replay_max_failures` | as `replay` | the code violates `StopsAfterFailedWrites` |
| `compile_new_ids` | as `compile` | the code violates `EntityIdsUnique` |

The runs of the Go half and `compile` also check a type invariant, with the
bounds of queues, buffers and flows in it.

Why the bounds are enough for the cases that matter.  In the pool, one event more
than the queue and one worker hold makes Submit block or fail, and two submitters
let one be between check and send while Close runs.  A batch of two with three
events gives full and partial batches and a second buffer for a late callback to
meet.  A replay buffer and channels shorter than the plan overflow.  Three peers let
a connection arrive before, between and during writes.  In the Go half, the only
bounds that are not constants of the code are `NumEvents` (events written by the
serve loop), `MaxUnencodable`, and the finite set `Events`; `ClientAttempts` is 2 in
place of the ten attempts of kafka-go.

The scenarios of `compile` are one per difficulty: references back to a step that
may not have happened, three steps of one flow in order-preserving jitter, noise
that forms a group of its own, jitter that may break a rule, an inferred primary
type, a step that creates entities of its own primary type, a delay whose ends are
swapped before one that cannot be read.  The packs depend on each other in a circle,
and in the second directory the dependency of a dependency is missing.  `MaxFlows`
bounds the one scenario that makes flows for ever.  In `evaluation`, two findings
suffice for an order of a list that costs a match which another order would have
made, and a third leaves room for other matches beside it; spellings that differ
only in case are distinct names with the same normal form.  `One` is 1008, a
multiple of all denominators of the small metrics; the means over four and seven
round down.  In `plan_dir`, four commands suffice for a compile, a generate that is
killed, one that fails on what that left, and one with `--force`; or for a plan, a
generate, an edited plan under the same scenario id, and another generate with what
the first has cached.  What a run, `encode` or `export` does depends on the event
plan alone and changes no file, so these come after at most one command
(`MaxBeforeRun`), a compile that may have been killed.  Two retries, a backoff of 4,
8 seconds and a budget of 9 let the retries end for either reason.

Deadlock is checked for `WorkerPool`, `Replay` and `Compiler`, whose end states are
explicit (`Finished`, `Returned`, `Rest`).  It is off (`CHECK_DEADLOCK FALSE`) for
the sink and the endpoints, which are passive: after the plan is written, the
endpoint closed and the clients gone, nothing is left to happen.  It is off for
`evaluation`, which ends with a ranking or an exception, and for `plan_dir`, where
commands stop at `MaxCommands`.

Fairness.  Go runs every runnable goroutine, so a goroutine inside an operation
has weak fairness: submitters inside Submit, workers, Close once begun, the replay
loop, a broadcast in progress (its waits have timeouts), an accept loop whose
listener is closed.  Starting an operation is never fair: no one needs to submit,
close, connect or signal.  Timer callbacks get strong fairness because they compete
for a mutex, which Go hands to starving waiters.  A send to Kafka ends because its
context has a deadline.  `compile` is one sequential program: `FairSpec` says that
it takes its next step.  An HTTP handler is fair only once its client's connection
is broken, since a client that does not read may block it until then.

### What the violations mean

- `NoConnectionForgotten`: `writeTCP` assigns the survivors of a copy to `s.conns`;
  a connection accepted meanwhile vanishes from the list, is never served and is not
  closed by Close.  `ServedOnceListed` is what does hold: connections that were
  added between two writes are served and closed.
- `StopsAfterFailedWrites`: "Stop after N failed writes" (`docs/go-runtime.md:84`,
  `main.go:248`).  The limit is compared with the errors that Write returns to the
  loop (`runtime.go:174`), and a pool's Write returns none for what a worker fails
  to write later.  `LoopStopsAtMaxFailures` is what holds: the loop stops at that
  many errors from Write, and otherwise only at the end of the plan or for a signal.
- `ShutdownPrintsStats`: a signal that interrupts a wait ends the run with
  statistics; one that is noticed at the head of the loop ends it with an error, and
  the command prints no statistics.  Queued events are drained either way
  (`KeepsPromise`).
- `EntityIdsUnique`: the expander counts the ids of `$new` entities from one again,
  so the first `$new.device` gets the id of the first declared device.
  `RefsResolve` is what holds: each reference is the id of *some* entity.

## 4. Proofs

`WorkerPoolProofs` proves, for every number of events, submitters and workers,
every queue size and both policies, from the named assumptions of `WorkerPool`
(a queue of at least one, at least one worker, finitely many threads):

- `TypeCorrect`: `Spec => []TypeOK`
- `OneOutcomeHolds`: `Spec => []OneOutcome`
- `DrainedOnCloseHolds`: `Spec => []DrainedOnClose`
- `ConservationHolds`: `Spec => []Conservation`

The first three follow from `PoolInvariant`, `Spec => []PoolInv`.  None of them is
inductive alone.  `PoolInv` adds where events are: a carried event has no outcome
(`CarriedInv`); the queue holds accepted, unwritten events, each once
(`QueueInv`); so do the hands of the workers, disjoint from the queue and each
other (`HandInv`); an accepted event is written, queued or in hand
(`AcceptedInv`).  The core of the drain argument is `CloseInv`: an exited worker saw
the cancellation and an empty channel *after* Close had fixed the set `owed`, and
what has been appended since comes from a Submit that had not returned then,
so it is not owed.  When all workers have exited, hands are empty and no owed
event is queued, so `AcceptedInv` leaves only "written".  There is one lemma per
action.  `Conservation` is inductive over `TypeOK`: each step moves one event
between summands, and the lemmas on cardinality say so for the two sets of threads.

`BenchmarkProofs`, for every suite, every set of plans and outputs, and any number
of findings and agents, from `NamesAssumption` and `BenchmarksAssumption` (agents are
read from directories, required scores are integers, and what can be parsed is a
`Document`: its findings and stages are lists, their ids finite sets):

- `MatchesFirstFit`, `ScoresAreFair`, `ValidatedRuns`: `Spec => []` of `FirstFit`,
  `ScoresFair` and `ValidatedSuiteRuns`, all from `BenchInvariant`, `Spec =>
  []BenchInv`.

`FirstFitOf` says of any list of candidates what `FirstFit` says of the findings; an
evaluator that is at work has a first fit of the expectations so far, for findings
and for stages, since the candidates that are open are exactly those that no earlier
expectation has taken (`FitAppend`).  Two first fits of the same documents are equal
(`FitUnique`: at the first difference one of the two would have passed over a free
candidate), so a report is determined by ground truth and answer, `ReportOf`.  That
gives the three parts of `ScoresFair`: an answer equal to the truth is matched with
itself in order (`FitIdentity`), ratios and means stay in range (`MeanBounds`, which
has to show first that the sum over a finite function exists), and a first fit has
at least half of the matches of any matching, because each match that another one
has and it lacks can be charged to a candidate that it took (`FitHalf`).  It also
gives `ValidatedSuiteRuns`: validation and run score the same output with two
evaluators, and `GoodEntry` says of an entry that *every* first fit of its sample
output reaches the required score.  `ValidateInv` carries that through the loop of
the validator, `SuiteInv` keeps it, and `SampleInv` uses it for the reports of the
run.  `BenchInv` quantifies over all matchings, so TLC checks the three properties
but not it.

`KafkaBatchProofs`, for every set of events and of goroutines that write, every
batch size above one and every number of retries, from `BatchAssumption` and
`SenderAssumption` (the holder of the mutex is named apart from the goroutines):

- `BatchTypesHold`, `OnePlaceHolds`, `NeverStrandedHolds`,
  `StoredAtLeastOnceHolds`, `HonestCountersHold`: each `Spec => []` the property
  of that name, all from `BatchInvariant`, `Spec => []BatchInv`.

`OnePlace` says that the places of an event add up; what is inductive is that
buffer, batch, acknowledged and dropped events are disjoint and repeat nothing
(`PlaceInv`).  `MutexInv` says what is true while the mutex is free.  `TimerInv`
carries the argument about late callbacks: a timer is armed, or its callback waits,
*exactly* while something is buffered, hence a callback of the current timer always
finds a batch, and one of a stopped timer takes another's batch without stranding
anything.  `CopiesInv` bounds the copies of an event by `ClientAttempts` for each
call of `WriteMessages` that its batch has had so far.  `CounterInv` is about the
increments that race: a value of the failed counter that a goroutine has read is a
lower bound of the failures, one less if that goroutine's own event is among them;
so whatever is stored later never exceeds what has failed.

`HttpBroadcastProofs`, for every plan, every finite set of clients, every size
of the replay buffer and of the channels, from `BroadcastAssumption`:

- `BroadcastTypesHold`, `InOrderOnceHolds`, `NothingSilentlyMissedHolds`, from
  `BroadcastInvariant`, `Spec => []BroadcastInv`.

The invariant follows an event through the four places where it can be for one
client: written, in the copy of the replay buffer, in the channel, or due
because the broadcast has not come to that client yet.  `OrderInv` says
that these follow one another in plan order, `BufferInv` that the replay buffer is
the end of what was broadcast, so that the copy a client takes when it registers
ends where its channel begins, and `MissedInv` that what is in none of them was
dropped for this client and counted.  `SubsInv` is needed because both are false for a
client that is registered twice.

`SyslogServerProofs`, for every set of peers, every allow list, every time to
live and every number of events, from `SyslogAssumption`:

- `SyslogTypesHold`, `NoWriteToClosedHolds`, `ServedOnceListedHolds`,
  `FreshClientsServedHolds`, from `SyslogInvariant`, `Spec => []SyslogInv`.

`OpenInv` and `NewcomerInv` keep apart the peers of the copy, those that have
survived, and the connection that is about to be added; `ListedInv` then says which
connections the list is going to have when the present write is through.  It
claims nothing of a connection that is added during a write, which is what
`NoConnectionForgotten` finds.  `ClientInv` is the same for registered addresses.

`ReplayProofs`, for every plan with distinct ids, every set of configurations,
every number of workers and every queue size, from `ReplayAssumption` and
`PooledAssumption` (what the pool asks of its parameters):

- `ReplayTypesHold`, `AtMostOneLateWriteHolds`, `EmittedBracketHolds`,
  `LoopStopsAtMaxFailuresHolds`, from `ReplayInvariant`, `Spec => []ReplayInv`;
- `KeepsPromiseHolds`: `Spec => KeepsPromise`, that is, a replay over a direct
  sink or over a pool implements `Delivery`.

The proof is a composition.  Each step of a replay is one of the pool or leaves the
pool alone (`PoolMoves`), so `PoolInv` and `Conservation` come from
`WorkerPoolProofs`, instantiated for the one submitter; `SinkInv` adds how the
loop's position and the pool's phase go together, `OfferInv` that what has been
offered is a prefix of the sorted plan, `CountInv` that the statistics of the loop
agree with the counters of the sink, and `StopInv` why the loop was left.  When the
pool is closed, what `DrainedOnClose` promises leaves no event in the queue or in a
hand (`NothingLeft`), from which `EmittedBracket` follows.  For the refinement there
is one lemma per action: `Load` maps to the load, since a limit leaves out no event
before one that it keeps (`CutsTheEnd`), a write of a direct sink and the return of
a Submit to an offer, a worker's write to a settlement, the return of the loop to
the end, and everything else to a stutter; the end needs `HowItEnds`, that nothing
taken is unsettled by then.  `SortEvents` chooses an enumeration of the plan;
`SortedExists` shows that there is one, by counting for each event those before it,
which gives its place without an induction over the plan.

`CompilerProofs`, for every set of scenarios and of packs directories, every
number of entities, flows, noise events and tasks, from `InputAssumption` (what
the loaders accept: lists are lists, durations and counts are natural numbers,
types are among `Types`; the durations of a step may be unreadable):

- `PacksClosureHolds`, from `PackInvariant`, `Spec => []PackInv`;
- `CompilerTypesHold` and `StrictIsSoundHolds`, from `PlanInvariant`,
  `Spec => []PlanInv`;
- `RefsResolveHolds`, from `RefInvariant`, `Spec => []RefInv`;
- `FlowOrderKeptHolds`, from `FlowInvariant`, `Spec => []FlowInv`.

`Reachable` is the smallest set that holds the domain and is closed under
`depends_on`.  `PackInv` says that what is loaded or waits on the stack is within
it, and that each dependency of a loaded pack is loaded or waits; so when the stack
is empty, what is loaded is closed, hence all of `Reachable`.  `PlanInv` says which
events there may be in each phase (`IdsInv`: ids stay behind the flow and step being
expanded, and behind the next noise number, so that none repeats), that every list
keeps its type across the two sorts, the grouping and the shifts of jitter, and that
from the last sort on the list is in plan order (`SortedInv`).  Order by position
and order by time are then the same, and since a strict compilation without errors
has no warning of a rule (`StrictInv`), each relation that `rules.py` reads off
positions holds by the times of the events.  `RefInv` says where the references of
an event come from while the plan is still being made, those of an unfinished event
included: `$ref` copies from an earlier event, and jitter, sorting and placeholders
leave references alone.  It is kept because an entity never goes away, and a warning
only to the errors.  `FlowInv` follows the times.  During the expansion the ids of a
list grow, so the last event with a key is the latest step with it, and an event
with a delay is not before it (`AfterIn`, which does not depend on the order of the
list and so survives both sorts and the noise).  During jitter (`JitterInv`) the
events reached so far grow strictly within their groups, which are contiguous; and
an event is moved forward by no more than the margin and one microsecond for each
event ahead of it in the flow, because the one that it is clamped behind has one
less ahead of it.  After jitter only ids and times matter, and nothing changes them
(`DriftInv`, `OrderInv`).

`PlanDirectoryProofs`, for every set of scenarios and edits of them, every number of
commands, killed anywhere, every sink, retry policy and limit, from
`PlansAssumption` (what `compile` writes: lists of tasks, which
`build_semantic_tasks` keeps apart by id, and of events, whose ids `CompilerProofs`
shows to be distinct), `ScenarioAssumption` (an id of a scenario is neither a
missing nor a torn file), `OptionsAssumption` and `RetryAssumption` (the ranges of
the command-line options):

- `References` and `Freshness`: `Spec => []` of `RefsInPool` and `ForcedIsFresh`,
  from `DirectoryInvariant`, `Spec => []DirInv`;
- `Accounting`: `Spec => []EveryEventAccounted`, from `RunInvariant`, `Spec =>
  []RunInv`.

Neither property of the directory is inductive: both speak of a plan and a pool that
are complete.  `PoolFor` says the same of a pool that is under way: its entries were
made for the first jobs of tasks and events, in their order, if `--force` was given
or `KeysApart` holds; under `--force` each has the wording of its task, and with
`KeysApart` it is also what the cache holds (`Fresh`), unless that file was torn by
a kill.  `IsCache` says of each cache entry what it was made for; what is found
under a key was made for parts that give this key, hence, with `KeysApart`, for the
same task and event.  `GenerateInv` keeps that, together with the jobs that remain
(`Remains`), through hits, answers, retries and crashes; between the two writes it
says that the event plan on disk is already the resolved one.  `PairedInv` is what
is left when a generate is over: some events from which, with the tasks, pool and
plan were made (`Pairing`).  From it `RefsInPool` follows by looking at which jobs
there are for an event and a task (`Jobs` lists each event, task and index once); a
command that writes the plan, the pool or the tasks ends the pair.  Freshness
survives a later generate, with or without `--force`, because as long as the pair
stands the tasks are the same ones, and what is written under a key of the pool is
what its job asked for, or torn (`CacheKeepsFresh`).

`RunInv` follows a run event by event.  `RunOrder` bounds what has arrived by what
the loop has tried, keeps the arrivals in the order of the plan, and says that the
event in flight has had only answers that are retried; `RunCopies` bounds the
arrivals of the current event by its attempts, `RunRetries` its clock by the pause
before the last retry.  `RunWritten` makes the counter of the sink the number of
arrivals that were answered with success, `RunLines` says that the file, stdout and
export sinks hold exactly the events before the loop's position, and `RunForetold`
that an export has written those that preflight counts, so far.  An aborted run of
the http sink has counted every event but the one in flight; that of a sink of lines
has one failure and the lines before it.

The sorts are `Ranked`, which gives each element the place that its rank says, and
lists that are filtered are `Only`, a recursive function over positions.  What
these, the sum of a function and the list of jobs compute for every input is proved
by inductions written out as least-element arguments (`LeastNat`, `Positions`),
because the library's theorems of induction take an operator as a parameter, which
no installed prover can instantiate.

Every invariant that a passing run checks, and the refinement `KeepsPromise`, is thus a
theorem.  Only model-checked, because TLAPS cannot prove liveness under fairness:
`SubmitReturns`, `CloseReturns`, `Terminates`, `EveryEventSettles`, `WritesReturn`,
`HandlersExit` and `CompileEnds`.

## 5. Not modelled, and the plan

In the order planned:

1. `ServeLoop`: opening endpoints, closing all when one fails, routing by
   filter, signals; the endpoints' promises as an abstract endpoint.
   Properties: no endpoint is left open on any way out; each endpoint gets
   exactly the matching events, in order.
2. `HttpSink`, of the Go runtime: retry count and time budget, backoff in whole
   seconds, pacing of the rate limiter and the clock; the same for the
   unbatched Kafka sink.  Properties: number of attempts, total time, never
   early.  The Python sink's retries are in `LocalRuntime`.
3. Relations and sources of the compiler, `semantic inspect`, the other figures
   of the realism report.

Disagreements between the code and what is written about it that no run of its own
shows.  The models have the behaviour of the code, and the property named says what
holds instead:

- `internal/stats/stats.go:13` calls the emitted count "succeeded writes".  With a pool
  it counts events that were taken (`runtime.go:179`), of which a worker may fail to
  write some.  `EmittedBracket`: it overstates what was written by no more than the
  sink's failures.
- `internal/stats/stats.go:14` calls the failed count "failed writes".  The loop counts a
  failed write of a direct sink (`runtime.go:173`) and then adds the sink's counter
  (line 183), which has counted it too, so that each counts twice.
- "Close stops the pool, drains remaining jobs" (`worker/pool.go:75`), but a Submit that
  has looked at the closed flag (line 90) before Close sets it may send when the workers
  have left: it returns nil, and nobody takes the event.  `DrainedOnClose`: an event
  whose Submit had returned nil before Close was called is written.  The replay loop,
  the only caller in the repository, closes its pool after its last Write.
- "4xx responses are not retried" (`docs/local-runtime.md:61-62`).  `http.py:203` retries
  a 429 like a 5xx, so an event whose first post was processed arrives again.
  `EveryEventAccounted`: an event arrives again only after a 429, a 5xx or no answer.
- "The cache key includes the provider type, scenario id, task id, and event id"
  (`docs/semantic-sidecar.md:203-204`), but joined with underscores (`cache.py:63`):
  scenario `ecommerce_refund_flow` with task `semantic_reply` has the key of
  `ecommerce_refund_flow_semantic` with `reply`, and a generate without `--force` would
  take the asset of the one for the other.  `References` and `Freshness` (section 4)
  are about all sets of ids: the two properties ask that keys do not coincide
  (`KeysApart`) without `--force`, and with it only for what the cache then holds.
  In the instance of `plan_dir` no keys coincide.

Other differences only ask how a sentence is to be read:

- `docs/agent-evaluation.md` calls missed findings those "that the agent did not
  report"; with greedy matching a finding that was reported may be missed
  because an earlier, less specific expectation took it.  `ScoresFair` says how much
  that can cost.
- The same page calls the recall of timeline events an "average per-matched-stage"
  figure; the code divides by the number of expected stages.
- It calls aggregate metrics averages "across all scenarios"; reports are keyed by
  scenario id, so a repeated id counts once.  A suite with repeated ids does not
  validate.
- With `--force`, `compile` leaves the `ground_truth.json` of an earlier scenario in
  place when the new one has none.
- `run --encoder` never enriches, so `encode preflight --enrich` may foretell more
  than `run` can encode; it speaks of `encode run --enrich`.

Left out for good: message formatting and the formats of the encoders, template
rendering and prompts, loaders and configuration parsing, metrics and reports,
scaffolding and the command line.  They format or parse one value at a time and
keep no state that steps of other components could disturb.  A command that fails
while it reads a torn file is left out where it changes nothing but its own
output file.
