# spec2program: verification project

TLA+ models, model-checking runs and machine-checked proofs for spec2program, a
service that turns a vehicle specification into a commissioning program, checks
it, repairs it with an LLM, schedules it on tester channels, exports it and
helps out when a step fails on the line. All paths below are relative to the
repository.

## 1. The system

### Components

| component | code | state it keeps | operations |
|---|---|---|---|
| domain models | `backend/models.py` | none | bounds and types of specifications, programs, requests |
| LLM providers, offline planner | `backend/llm_service.py` | shared HTTP client | generate, repair, recover; the deterministic plan |
| validator | `backend/validator.py` | none | `validate_program`, `validate_recovery_steps`, `is_valid` |
| pipeline | `backend/generator.py` | the program, findings and notes of a request | generate, fall back, repair, learn durations, schedule |
| scheduler | `backend/scheduler.py` | heap, degrees, channels of a call | topological sort, critical path, channel schedule, sweep |
| duration model | `backend/duration_model.py` | parsed model, stamp, lock, memo (per process) | load, predict, info |
| duration training | `scripts/train_duration_model.py` | the model file | train and write |
| exports | `backend/otx_export.py`, `backend/export_csv.py` | none | gate, OTX in list order, CSV by order |
| recovery | `backend/recovery.py` | the recovery of a request | LLM, policy, validation |
| history | `backend/db.py` | SQLite file; connection and lock (per process) | open, migrate, record, list, reset |
| batch | `backend/batch.py` | bounded thread pool (per process) | run a fleet, shut down |
| shutdown | `lifespan` of `backend/main.py` | none | close the HTTP client, then shut the pool down |
| HTTP API | `backend/main.py` | none of its own | handlers, history writes, error mapping |
| frontend | `frontend/app.js` | editor, last program and its spec, panels, buttons | handlers between awaits |
| analytics, diff | `backend/analytics.py`, `backend/diff.py` | none | `analyse_program`, `diff_programs` |
| CLI, configuration, evaluation | `backend/cli.py`, `config.py`, `scripts/eval_harness.py` | none | I/O around the same pipeline |

### How they interact

A request to `/api/generate` runs `run_pipeline` on a thread of the server's
pool: a provider (an LLM or the planner) returns a program; the validator lists
findings; an LLM's invalid program is sent back for repair up to
`MAX_REPAIR_ATTEMPTS` times; notes are extended; the duration model, shared by
all threads, may rewrite every duration; the scheduler computes the critical
path; the answer goes to the client and, as a row, to the history. The client
sends the program back to be scheduled on channels, exported (validated once
more) or recovered from a failure. A batch runs the same pipeline for every
vehicle of a fleet on a thread pool that all batches share; the calls of all
these threads to the LLM go through one HTTP client. Both are made on first use,
checked and replaced by threads that race for them, and closed when the
application is shut down, whoever is still using them. The page keeps the last
program with the spec it came from and has several calls under way at once,
whose answers come in any order. The trainer is another process and shares the
model file only.

### What is hard

* **A verdict and what it is about part ways.** Findings are computed in the
  repair loop; notes, durations and schedule change afterwards; the export
  validates again but does not schedule; the CSV is sorted, the validator walks
  the list; a recovery is judged by unlocks read off order numbers.
* **Rule sets that must agree.** Planner and validator, recovery policy and
  validator, the two copies of the greedy channel loop, gate and pipeline.
* **Interleavings.** The duration model's fast path and memo are used outside
  its lock; the file is rewritten in place; the history connection is shared; the
  HTTP client is looked at without its lock; the page's answers meet an editor
  that has moved on.
* **Shared resources.** Fleets compete for one pool and one client; a shutdown
  can fall between getting either and using it.
* **Partial failure.** Providers, repair rounds, the model file, SQL statements,
  crashes between them; each has its own way to fall back or to swallow.
* **Boundaries.** Repeated dependencies in degree counters, duplicate, missing
  and cyclic orders, zero channels, zero durations, schema bounds reached from
  inside the program.

`PROJECT.json` lists each hazard at its line with the properties that watch it.

### What makes each part right

* Scheduler: a call is refused exactly if no schedule exists; no two steps on a
  channel at once; dependencies honoured; the cycle time is between the critical
  path and the sum; sweep and schedule agree.
* Pipeline: the answer's verdict is that of its program; a valid program runs on
  a test bench; the fallback always serves a vehicle of up to 200 ECUs; repair ends.
* Planner: never invalid, and safe in the parallel schedule its dependencies
  allow.
* Duration model: a stamp that matches the file vouches for the cached model;
  no thread waits for ever.
* Recovery: what is called valid can be run from the state the failure left;
  nothing is not a recovery.
* History: migrations are all or nothing; a row is there if and only if its
  request was told so.
* Batch: every vehicle of a fleet gets the program it would get alone, in the
  order sent, or the fleet fails as a whole; pool and client keep their bounds;
  every fleet ends.
* Frontend: a program travels with its spec; typed text is kept; a result stands
  beside its spec; the buttons come back.
* Analytics and diff: agree with validator and scheduler; lose no step.

## 2. Modules

| module | models | state and actions |
|---|---|---|
| `Programs` | `models.py` | records for specifications, ECUs, programs, steps; `SchemaValid` for the bounds the pipeline reaches |
| `Validator` | `validator.py` | operators; the loop over the steps is stated per position (`SeenBefore`, `UnlockedAt`, `StepErrors`) |
| `Planner` | `MockProvider.generate_program` | `MockPlan`: which steps an ECU gets, services, the chain of prerequisites |
| `Scheduler` | `compute_optimization`, `_cycle_time_for_channels`, `channel_sweep` | recursive functions over the topological order |
| `ChannelScheduler` | `schedule_with_channels`, `_topological_order` | `in_degree`, heap (`ready`), `ordered`, `channel_free_at`, `placed`; one action per loop turn |
| `Pipeline` | `run_pipeline`, `generate_program`, `export_otx`, `export_csv` | `program`, `issues`, `provider_name`, `repair_attempts`, `failure`, `export`; one action per stage and outcome |
| `DurationModel` | `duration_model.py`, the trainer's write | file, stamp, model, lock, memo, a `pc` per thread; one action per step at which another thread can come in |
| `Recovery` | `recovery.py`, `recover` | `recovery_steps`, `notes`, `issues`; LLM, failure, policy, validation |
| `HistoryDb` | `db.py`, `_persist_history` | `disk` and `work` (file, and what the connection sees), connection, lock, `pc` per thread; statements, commits, failures, crashes |
| `HttpClient` | `get_http_client`, `close_http_client`, one call of `_call_chat_completions` or `_call_repair` | `client` (`_client`), clients made and closed, where each caller's call stands and the client it was handed |
| `Batch` | `batch.py`, `generate_batch`, `lifespan` | `executor` (`_executor`), pools made and shut down, queue per pool; `phase`, `next`, `results` per fleet; `stage`, `rounds` per vehicle; `rows`. Handler, worker, pipeline and shutdown steps |
| `Fleets` | what `/api/batch` promises | the abstract specification of `Batch`: outcomes, replies, history |
| `Frontend` | `app.js` | `editor`, `screen`, `lastProgram`, `lastSpec`, calls and loads under way, `panels`, `saved`; a click, a key or an answer is an action |
| `Reports` | `analytics.py`, `diff.py` | operators `AnalyseProgram`, `DiffPrograms` |
| `Bench` | nothing in the code | a test bench that runs steps one by one; the yardstick for "valid" |
| `MC*` | | instances for TLC |
| `*_proofs` | | theorems |

`Pipeline` extends `Validator`, `Planner`, `Reports` (and with it `Scheduler`) and
`Bench`; `Recovery` extends `Validator`, `Scheduler` and `Bench`;
`ChannelScheduler` extends `Scheduler`. `Batch` composes fleets, pool and
`HttpClient` (an instance with the vehicles as callers) and instantiates `Fleets` for the
refinement: `Outcome` maps a vehicle's stage to what came of it, `Reply` a
handler's phase and results to the answer. Of the pipeline it keeps the calls
and the ways it ends; the rest is `Pipeline`.

`concurrent.futures` and `httpx` are outside the repository and modelled from how
the code uses them: `submit` refuses after `shutdown(wait=False)`, workers drain
the queue even then, `map` hands results out in order and cancels what has not
begun when one raises; a closed client refuses, one at its connection limit
makes a call wait or time out. A shutdown under running requests is what tests
with `TestClient` do and what a forced stop does; uvicorn waits for requests first.

`get_http_client` can return `None`: when the client is closed between the look
and the return. The call then raises (`None` has no `post`) and is treated
as any failed call, which the model shows to be harmless.
`Pipeline` takes from `DurationModel` what a request may find: with a file that is
`"changing"` each step has the duration of the first training, of the second, or the
one it had, and the request may also be lost (the file is gone between stamp and
read, torn, or forgotten before the prediction). Durations of two models can so
stand in one program; nothing in the code promises otherwise.

Definitions keep the source's names where they model a named thing. An operator
introduced by a comment "A slip:" is a wrong variant of the definition after
it: it is used by no specification, and shows that the properties notice.

Abstractions common to all modules: texts are lengths, classes or tags;
times are tenths of seconds and natural; an issue is its severity, kind,
step and ECU.

## 3. Model-checking

| run | shows | instance |
|---|---|---|
| `channel_scheduler` | sort and placement are correct and refuse exactly the impossible; both greedy loops and the critical path agree; every call ends | three steps; every choice of none, one or two dependencies, repeated, cyclic and missing ones included; four order lists (contiguous, shuffled, repeated, gapped), three duration lists with zero, 0 to 3 channels |
| `pipeline` | verdict, bench, gate, planner and repair properties; every request is answered | the planner on each of 256 single-ECU vehicles (7 services, two targets) and on pairs of ECUs; two and three fully equipped ECUs, at and over a bound of ten dependencies; an LLM with 1303 first answers, most of two steps, and eight in each repair round; notes at and over their bound; a model file that is missing, good, broken or changing |
| `duration_model` | the cache's consistency and freedom from deadlock | two requests, a health check, three changes of the file (whole, torn, gone) |
| `recovery` | valid recoveries run, none is not a recovery, policy and validator agree | programs of up to three steps (gaps, repeated, descending), four vehicles, all reasons, six LLM answers with every kind of notes |
| `history_db` | atomic migrations, durable records, clean reads, the lock is released | two writers, a reader, a reset, migrations of two and one statements, two failures, one crash |
| `batch` | the refinement of `Fleets`, the bounds of pool and client, every fleet ends | two fleets of one or two vehicles, one worker, one connection, one repair round, one shutdown; one vehicle whose fallback fails, one that always fails |
| `frontend` | program and spec go together, typed text is kept, only late answers mismatch, buttons come back | a sample and a spec of the user's own, broken text, two programs, two calls about a program under way |
| `stale_memo`, `sweep_short_circuit`, `recovery_notes`, `unmigrated_use`, `frontend_mismatch` | a claim of the code's documentation that the code does not keep, see section 4 | as above, or the one program that shows it |

Why these bounds are enough. The scheduler's hazards are about pairs: a
dependency listed twice, two steps competing for a channel, a cycle; three steps
on up to three channels contain each with a bystander. In the pipeline two
steps suffice for "before" and "after", two rounds of repair for a round that
follows a failed or a useless one, and the planner treats ECUs independently but
for the two closing steps, so one ECU in all variants and pairs of them cover
its rules. A stale entry in the duration cache needs a slow thread, a fast one
and a change between two others; the third thread is the probe and the third
change replaces a file that was torn. In the history a failure inside a
migration, a failure of a row and a crash are each met by a second writer.
In a batch every race is between two fleets or two vehicles: two that make a pool
or a client at once, one that queues behind another, one that fails before or
after its neighbour; one worker and one connection make them wait, one shutdown
falls before, between and after. The proofs need none of these bounds. On the
page a mismatch needs two specs, a stale answer a second program, and answers out
of order two calls.

Bounds that are not in the code: `MaxChanges`, `MaxFaults`, `MaxCrashes`,
`MaxShutdowns`, `MaxGenerated`, `MaxCalls`, and one load of a sample at a time.
`MaxWorkers`, `MaxConnections` and, in `Batch`, `MaxRepairAttempts` are settings of
the code with smaller values. `MaxDependsOn` is 1000 in the code and 10 in the run of
`Pipeline`, so that a plan for three ECUs can break it; it has the code's value
elsewhere, as `MaxNotes` (10000), `MaxDescription` (1000) and in `Pipeline`
`MaxRepairAttempts` (2) have everywhere.

`CHECK_DEADLOCK FALSE` is set in every configuration: a request, a call and a
bounded environment come to an end. What must not stop is stated as liveness.

### Fairness

* `ChannelScheduler`: weak fairness of the next step; it is a sequential call.
* `Pipeline`: weak fairness of `Serve`. An LLM call returns or runs into
  `llm_timeout`, so each stage ends. Nothing makes the client export.
* `DurationModel`: weak fairness of each thread's own steps once it has begun;
  requests and changes of the file may never come. A thread that waits for the
  lock competes with finitely many others that each take it at most once per
  step, so weak fairness of the threads is enough and none is assumed of the
  lock.
* `HistoryDb`: weak fairness of each thread's steps, for the same reasons; no
  failure and no crash is ever forced.
* `Batch`: weak fairness of each handler once its fleet was sent, of each pool's
  workers, and of each vehicle's thread. A call ends by its answer, `llm_timeout`
  or the pool's timeout. Fleets need not be sent, nor the server be stopped.
* `Frontend`: a `fetch` settles (weak fairness of the answers to the list of
  samples, to a generate call and to a batch). Nothing is assumed of the user.

## 4. Where the code and its words differ

Each is a run that violates one property; the quotations are in
`PROJECT.json` under `findings`.

* **A stale prediction survives retraining** (`duration_model.py:140`): a
  prediction under way with the old model is memoised after the memo was
  cleared. `DurationModel` also shows, without a property against it, that a
  thread can find no model at all between load and prediction, which raises.
* **A failed migration poisons the process** (`db.py:124`): the connection is
  kept before it is migrated, and later calls use it without a schema.
* **Recovery can fail hard** (`recovery.py:143`): `notes` that are not text
  raise outside the fallback, or are reported as the client's fault.
* **The channel sweep's short-circuit** (`scheduler.py:299`) assumes that one
  channel more never hurts; with greedy list scheduling it can.
* **A result beside another spec** (`app.js:504`): keys pressed while a program is
  generated invalidate nothing, and the late answer is shown beside the changed
  text. `OnlyLateAnswersMismatch` shows that this is the only way.

Four more limits, which no property forbids; the properties say where they end:

* The CSV follows the order numbers, the gate walks the list
  (`export_csv.py:68`); where the two disagree, work instructions can flash
  before they unlock. `DeliveredProgramsRun` speaks of every OTX export, and of CSV
  in ascending order only.
* An answer called valid may not be accepted back (`generator.py:139`): its notes
  may have outgrown their bound. `DeliveredProgramsRun` says that this takes a fallback,
  a round of repair or a duration model, whose sentences are the pipeline's own.
* The planner's fault-clear step can exceed the bound on dependencies
  (`llm_service.py:298`) with 201 fully equipped ECUs, and the fallback fails with
  it. `SmallVehiclesAnswered` says that up to 200 ECUs, with a good or no model file,
  no request fails. A model file that is broken or changes meanwhile can lose a
  request (`duration_model.py:133`, `:162`).
* A file exported from the page is named when it is there (`app.js:531`): after
  whatever program is the last by then, or not saved at all if there is none.
  `ProgramFitsSpec` says that an older program never gives the name.

## 5. Proofs

Checked by TLAPS for every value of the constants that meets the named
assumptions of the modules. Every invariant and action property that a run checks
is also a theorem, so that the bounds of section 3 matter to liveness only.

How they argue. An invariant says what the old facts of a stage are still good for;
one lemma per action shows that it is kept. What a fold or a recursive function
computes is proved by induction over positions: a fold equals the last element
of its trace (`FoldTrace`), a recursive function exists since each prefix of it
does (`SortExists`, `BackExists`, `FlattensExists`), and a claim about all
positions follows from the set of positions where it holds (`UpFrom`), because
the library's induction theorems take an operator, which the provers cannot
instantiate.

* **`Operators_proofs`**: facts about the operators for all data.
  `ValidatedStepsRun`: a list in which the validator's loop finds nothing runs
  through on the bench, from any state that is at least as unlocked and as far
  along as the loop assumes; pipeline and recovery both rest on it.
  `EndsCertified`: the forward pass over the topological order ends each step its
  own duration after the latest of its dependencies; before it, that a schedulable
  program has a topological order, that `_topological_order` finds it and that
  only one takes the least ready order each time (`SortIsTopological`,
  `SortIsUnique`). `DiffExact`, `DiffComplete`: for programs without repeated
  orders; with them `diff_programs` sees only the last step of each, and the
  first fails. Further lemmas walk the critical path back and count ECUs and
  step types for the analytics.
* **`ChannelScheduler_proofs`**: `TypeCorrect`, `ChannelsExclusive`,
  `DependenciesRespected`, `RefusesTheImpossible`, `CriticalPathProved`,
  `CycleTimesProved`. Assumption: requests are typed (`RequestsAssumption`). The
  safety properties are not inductive: that a placed step's dependencies are
  placed rests on the order in which they were sorted. `IInv` adds what the
  counters mean (`HeapInv`: a degree is the number of positions of the dependency
  list not yet popped, and the heap holds the steps with none), that each popped
  step comes after its dependencies (`SortInv`), and that the placed steps are a
  prefix of the sorted ones and no channel is free before its last step has ended
  (`PlaceInv`). The work is in `PopInv`: decrementing once per occurrence keeps
  the degree a cardinality. `VerdictInv` adds that placing starts only after a
  complete sort; when the heap runs empty early, what is left over is a set in
  which each step waits for another. For the cycle time `GreedyInv` says that the
  loop under way has the channels and ends of the sweep's own loop after as many
  turns (`InStep`), that everything placed ends within the sum of its durations
  (`Timely`, `InUse`: a channel that is not free is busy until a step's end), and
  that with a channel per step each ends as early as the forward pass says
  (`Unhindered`).
* **`Pipeline_proofs`**: `TypeCorrect`, `VerdictKept`, `GateAgrees`,
  `SmallVehiclesServed`, `RepairsValidated`, `DeliveredRun`, `PlansSound`,
  `AnalyticsRight`. Assumptions: typed requests and answers
  (`PipelineAssumption`), and room for the planner's own notes (`NotesAssumption`
  in `Planner`: 119 of 10000 characters). Learned durations and notes do not touch what
  the validator looks at; a program without errors has no cycle, since each step
  depends on earlier ones of the list, so that it can be scheduled unless orders
  repeat. `VerdictInv` says of each stage that the findings, old as they are,
  have the verdict of a fresh validation; `DeliveryInv` which programs still fit
  the schema and that a document is that of the program; `CoverageInv` that the
  findings still know whether an ECU was forgotten. `SmallVehiclesServed` counts: an
  ECU has at most one step per rank (`PlannedFew`), no planned step waits for more
  than two (`PrereqFew`), so that a plan's longest list of dependencies is that of its
  fault-clear step, of at most five per ECU (`BodySmall`, `PlanFits`).
  `PlansSound` needs most: what is planned for an ECU is what is wanted of it in
  the order of fixed ranks (`PlannedIsRanked`, `PlannedMeans`); the steps of all
  ECUs lie one behind the other (`BodyMeans`); so a plan is a program
  (`PlanIsProgram`) and keeps rules that mention neither planner nor validator
  (`PlanRules`: what an ECU needs first is joined to it by a chain of
  dependencies, and the closing steps wait for everything). Any list with these
  rules is free of errors (`RulesErrorFree`) and safe in parallel (`RulesSafe`, by
  induction along the chain), and the pipeline leaves a plan as it is but for
  notes and durations (`PlanKeptInv`).
* **`Recovery_proofs`**: `TypeCorrect`, `NoneIsNoRecovery`, `RecoveryRuns`,
  `PolicyIsSound`. Assumption: typed requests and answers, and descriptions of at
  least 60 characters (`RecoveryAssumption`; the code allows 1000), for with
  less room the policy's own texts do not fit. `RunInv` says who made the steps
  and that the findings are about them. `PolicyIsSound` compares policy and
  validator rule by rule on the at most three steps of a recovery.
* **`DurationModel_proofs`**: `TypeCorrect`, `CacheCorrect`, `LoadCorrect`,
  `NoReturn`, for any number of threads and changes. The invariant says who may
  hold what: only the lock's holder reads and stores (`LockInv`), what it is about
  to store is no older than its stamp nor than the cached model, stamps come from
  the past (`PastInv`), a request's stamp is no older than the request
  (`SinceInv`), and once a request that began after the last change has loaded,
  neither the cache nor a thread about to store has an older model (`FreshInv`).
  `TypeInv` adds for the types that a model in use is one the file has had, and
  that a prediction under way has a step left to be made for.
* **`HistoryDb_proofs`**: `TypeCorrect`, `MigrationsWhole`, `RecordsKept`,
  `NoDirtyReads`, `ForwardOnly`. The invariant `TxnInv` says that what the
  connection sees beyond the file is the work of the lock's holder: statements
  of a migration, or its own row; hence each of the two commits moves the file
  forward. The crash needs no other fact. SQLite's transactions are taken at
  their word.
* **`Batch_proofs`**: `TypeCorrect`, `BoundsKept`, `Refines`. Assumption: a finite
  set of fleets, sizes and bounds that are numbers (`BatchAssumption`). `Refines`
  is `Spec => Promise!Spec`: initial states map to initial states and every step
  to a step of `Fleets` or to none. The invariant relates the parts that race:
  `FleetInv` (the handler's position says how many vehicles there are, what it has
  collected are the results of its first vehicles as they still are, and no
  pipeline begins for a vehicle that was not submitted), `QueueInv` (what waits in
  a pool was submitted to it), `PoolInv` (every pool but the shared one was shut
  down, each was made for a fleet, and none works for more vehicles than it has
  workers) and `HttpInv` (every client but the shared one is closed, and the
  connections of each that was made stay within the limit). `BoundsKept` is the
  last two; without `QueueInv` a worker could start a vehicle of another pool.
* **`Frontend_proofs`**: `TypeCorrect`, `ProgramsFit`, `TypedKept`,
  `OnlyLateAnswers`. The invariant adds to `ProgramFitsSpec` that the button is
  disabled exactly while a generate call is under way (`OneGenerate`), that the last
  program is of the last spec (`Remembered`), that it is the latest generated and no
  call is about a later one (`LatestLast`), and that text is the user's only once the
  flag is set (`FlagSet`). Assumption: null is neither a spec, a program nor a file.

`NoServiceAssumption` (`Programs`) says that "no service" is a string, which is so
but which the provers cannot tell of a literal; TLC evaluates it.

Left to TLC: liveness (`Terminates`, `AlwaysAnswers`, `EveryRequestEnds`,
`EveryFleetEnds`, `ButtonsComeBack`) and with it whatever speaks of `ENABLED`, which
are beyond the prover; the five violated claims of section 4, which are refuted by
example; and the sweep's short-circuit, of which only the cycle time for the
requested number of channels is proved to be that of the schedule.

## 6. What is not modelled

* Prompts, HTTP, JSON extraction, logging, XML and CSV writing, static files,
  rate limiting: I/O and formatting.
* The regression and its training: numerics. The trainer's write is modelled.
* The rollup of a batch, the rendering of the page, its format button and its
  health probe: display only.
* The chart of channels draws the steps of the last program with the schedule of
  the one that was sent (`app.js:642`); the model only says which program a panel
  tells about. The file of an export is named likewise (`app.js:531`); there the
  model has both programs.
* Samples that the user chooses quickly one after the other may be answered in
  any order, and the editor then holds the earlier choice; the model allows that
  and no property forbids it.
* The command line and the evaluation harness: they call the same pipeline one
  vehicle after the other and print; configuration: read once, constants here.
* The file's stamp is taken to differ after every change; two writes of the
  same size within the clock's resolution are not told apart by the code either.
* More than one server process on one database or model file: the container
  starts one.

## 7. Plan

Done in this order: the vocabulary, validator and scheduler; the channel
scheduler and its proofs; planner, pipeline and exports and their proofs; the
duration model and its proofs; recovery; history and its proofs; the batch with
the HTTP client, its refinement of `Fleets` and their proofs; the frontend and
its proofs; analytics, and the diff and its proofs; the proofs about folds and
recursive functions, and with them bench, schedules, recovery, analytics and
planner for every input.

Next:

1. The hypotheses of `PlansSound`: what the planner makes of a vehicle with repeated
   ECU ids, where it plans for each of them and the validator knows the last only.
2. `DurationModel` under `Pipeline` as a refinement: that what `Models` lets a
   request find is what the cache's steps can give it.
