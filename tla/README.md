# OpenTruth in TLA+

OpenTruth operates an application, records what it did (`A-*`), what it saw
(`O-*`) and what it concluded (`E-*`) in a run directory, rolls the conclusions
up to a verdict, and seals the directory with a manifest of digests. This
directory specifies that core: the planner, the rules of the roll-up, the run
directory, one call of `verify()`, one call of `diff_runs()`, the pool of jobs
behind the web server, concurrent CI jobs on one machine, and the readers of runs
(`explain`, `pack` and their HTTP twins). TLC checks the modules on small
instances; TLAPS proves the theorems listed below for every value of the constants.

Paths below are relative to `opentruth/` unless they name a document.

## The system

| Part | Source | State | Operations | Talks to |
|---|---|---|---|---|
| verdict rules | `verdicts.py` | none | roll a constraint, a requirement, a comparison; confidence; exit code | engine, diff |
| evidence store | `store.py` | one run directory: three JSON files, three JSONL files, blobs, manifest; id counters; `sealed` | create, allocate, append, write, seal, freeze; verify a manifest | every part that writes or reads a run |
| engine | `engine.py` | the control of one `verify()` call, the application process | the call itself | store, runners, process control, planner, rules |
| runners | `runners/http.py`, `state.py`, `browser.py` | cookie jars, last exchange, last SQL result, page | run one step of a plan | application, store, checks |
| checks | `assertions.py` | none | decide an assert step on the observations of its action | runners |
| application control | `runners/process.py` | the child process and its log handle | start, wait for health, stop | engine; the application writes `artifacts/server.log` by itself |
| diff | `diff.py` | the control of one `diff_runs()` call | compare two finished runs, record and seal the comparison | store, graph, rules |
| server, jobs | `server.py` | thread pool and its queue, semaphore, run directories | verify, loop, diff over HTTP; time out; restart | engine, diff |
| server, readers | `server.py`, `graph.py`, `explain.py` | none of their own | list runs, show a run, explain a node, pack | run directories being written |
| planning | `ir.py`, `planning.py`, `llm.py` | the plan under construction | declared IR, else model, else expander; to a `plan.json` | engine |
| requirements, environment | `requirement.py`, `discovery.py`, `ids.py` | none | read the two declaration files | engine, planning |
| command line, CI | `cli.py`, `ci.py`, `../action.yml` | none; the checkout's `.opentruth/runs` | verify, explain, diff, pack; exit codes; verify and then always pack | all |

What makes the parts correct, and what is hard about it:

* **Rules.** No path through the early returns may lead to `PROVEN` with a
  constraint unproven. Hard: several truths at once (failing, unknown, missing).
* **Store.** Ids are never reused, links never dangle, the seal covers every
  file and keeps covering it. Hard: writers that are not the store (the
  application's log), a crash between or inside the writes of `seal()`.
* **Engine.** The verdict is the roll-up of the file, over every constraint; a
  run that was not carried out claims nothing. Hard: exceptions from nearly
  every call, most of them after rows have been recorded; plans in any order.
* **Runners.** A check is decided on the exchange the plan means. Hard: state
  kept between steps, requests that leave no exchange.
* **Planning.** A plan has only steps its runner executes, for declared
  constraints; declared IR is executed whole or not at all; the expander checks
  every constraint, on an operation of its own. Hard: three sources with two
  fallbacks, proposals that are bad half-way, ids that repeat, the order in which
  constraints disturb each other.
* **Diff.** A comparison is about two intact, complete runs, and a constraint
  cannot be got rid of by no longer declaring it. Hard: the runs may be tampered
  with, comparisons themselves, or unreadable.
* **Server.** Permits and threads come back, every client is answered, a 200
  stands for sealed runs, a job that outlives its client does no harm. Hard:
  timeouts that do not cancel, lookups made long before the job runs, restarts.
* **Readers.** A clean answer is about an intact run; damage is flagged; a run
  that is just being sealed is not flagged. Hard: every reader goes through the
  directory at least twice, while others write or change it.
* **Jobs side by side.** Evidence is about the application that was started, and
  the bundle is about the run that was made. Hard: ports that are free only for a
  moment, applications that die, runs other jobs left in the checkout.

`PROJECT.json` lists each hazard at its line with the properties that cover it.

## The modules

```
Verdicts ── MCVerdicts              the rules, with their lemmas; a growing notebook
   │           └── VerdictsProofs
   │
RunStages                           the life of a run directory, from outside (abstract)
   ├─ Protocol (with Verdicts)      what a verification promises (abstract)
   ├─ Readers ── MCReaders          explain, get_run, pack beside any writer
   │     └───── ReadersProofs
   │
RunStore ─┬─ Engine ── MCEngine     verify(); implements Protocol, RunStages
          │     └───── EngineProofs
          └─ DiffRun ── MCDiffRun   diff_runs(); implements RunStages
                └───── DiffProofs

ServerPool ── MCServerPool          jobs of the web server; implements RunStages
   └───────── PoolProofs
Jobs ── MCJobs                      CI jobs, ports, pack; implements RunStages
   └─── JobsProofs
Planner ── MCPlanner                build_plan
   └────── PlannerProofs
```

`RunStages` is the contract that composes the parts: absent, open, decided
(`verdict.json`), torn (an empty `manifest.json`), sealed, in this order, with a stop
anywhere. Each of the four writers is proved to keep to it (`EngineKeepsStages`,
`DiffKeepsStages`, `PoolKeepsStages`, `JobsKeepStages`). `Readers` assumes one thing more
of whoever writes: that no file of the run changes after `verdict.json`, and
`manifest.json` not after it is complete. The two modules that have the files are proved to
keep to that as well (`DiffRests`, and `RunRests` if the application leaves no children
behind), so what `Readers` shows holds beside them.

**Verdicts** has one operator per function of `verdicts.py`. A list of results is
the set of its members, since the rules ask only which results occur;
`confidence()` counts rows and is taken over the set of rows, which differ by
their ids. The fraction is kept as a pair.

**RunStore** is the run directory with the operations of the `RunStore` class. A
JSONL file is the set of its rows. `server.log` is the number of writes made into
it, apart from the rows because the application owns the handle. A digest is the
content itself (no collisions), so the manifest is a `Snapshot`. `seal()` is four
steps: take the digests; open `manifest.json`, which leaves it empty; write it;
take the write bits away. `phase` names how far the owner has got.

**Engine** is `verify()` from `store.create()` on, as one thread with a program
counter, and the application as a second process that writes its log and exits
when it likes. Its actions follow the source in order: `CreateRun`,
`WriteRequirements`; `StartApp`, `UseRunningApp` or `StartRaises`; `Healthy` or
`Unreachable`; `BuildPlan` or `RejectIr`; for every step of the plan
`Act` (operate, append the action), `Observe` (append the observations) and
`JudgeAssert`, `JudgeError` or `JudgeNothing`; `RunnerRaises` at any of these;
`InconclusiveOne` per iteration of `_inconclusive_all`; `StopApp` or `StopRaises`
(the `finally`); `CoverOne` per iteration of `_ensure_coverage`; `WriteVerdict`;
`Seal`. What no handler of `verify()` catches ends the call by way of `stop_app`
(`EngineRaises`: an answer to the health poll that is no HTTP, a planner's exception other than
`IrError`) or at once (`FinishRaises`: a store call outside the `try`, a notebook that `load_jsonl`
cannot read back). `Crash` may come at any moment. A step is its kind and its constraint; the
several observations of an action are one row; an assertion names its action, as `action_id` does; what an application answers is
reduced to whether it answered, and what a check says of an answer to the results
the check can have (`Judgements`) with the observations it then cites (`Cites`).
An interrupt has the effect of `Crash`: the call ends where it is.

**Protocol** is the promise without the engine: gather rows; once every constraint
has one, decide over all of them, once; then seal. `Engine!KeepsPromise` is the
refinement, with `Stage`, `Assertions` and `verdict.json` for its variables.

**Planner** is `build_plan()`. It takes declared IR, else a model's proposal, else
the expander (`UseIr`, `AskModel`, `UseExpander`); every loop of the three is an
action per iteration, so a plan can be given up between any two of its steps
(`CompileStep` that refuses, `SanitizeStep` that meets a hostile step, `FallBack`). A
statement is the set of needles the expander would find in it, a step its id, its
constraint, its kind, its check and the outcome of the checks on its other fields
(`fields`, which the plan keeps). The expander's steps also carry the place in the
requirement of the constraint they were planned for (`for`, which is the model's own: in the code
it is the turn of the loop), because ids may repeat. `ExpandRaises` is a declared route without a
method or a path.
`Executable` is `sanitize_step`: with `strict` a step it refuses ends the block, without
it the step is passed over.

**DiffRun** is `diff_runs()`: load two runs (intact, tampered and flagged, or
unreadable), then action, two observations and assertion for each constraint of
either, verdict, seal. A compared run may be a comparison itself, whose rows hold
deltas instead of results.

**ServerPool** is the job side of `server.py`. A request is submitted, waits in the
pool's queue, is taken by a thread, tries the semaphore without blocking, runs one
job (`verify`, `diff`, or a `loop` of verify, verify, diff), releases, and sets the
future; the handler answers or gives up. A run directory is reduced to the stages
readers can tell apart (those of `RunStages`). `Restart` kills
threads, queue and connections, and keeps the directories.

**Readers** has one writer, one reader and somebody who changes a sealed run. The
writer creates each file empty and then writes it, `verdict.json` last, then
`manifest.json`, and stops where it likes. The reader is `explain` (with `get_run` and
`explain_node`, which load the same graph) or `pack` (with the server's download). Its
actions are `Ask` (the lookup), `ReadManifest`, `ListFiles`, `HashFile` per file and
`CompareFiles` (`verify_manifest`); then `LoadFile` per file of the graph, after
`Reload` if an `IntegrityError` was caught, or `ZipFile` per name of the second listing;
then `Finish`. Changes may come between any two of them. A file is as it was sealed,
changed, garbled or gone. `Suspect` is an `IntegrityError`, `Fail` any other exception.

**Jobs** has any number of CI jobs in one checkout: `free_port`, the run directory,
the application that binds its port or finds it taken, `wait_health`, steps answered
by whoever listens, `stop_app`, verdict and seal; then `pack`, which `action.yml` runs
whatever came before, on `latest_run`. Modification times are readings of a clock that may
stand still between two changes, so that equal times occur. Verifiers may raise or
die, applications may exit at any time, and the application of a dead verifier goes on.

## The runs

| Run | Instance | What it shows |
|---|---|---|
| `Verdicts` | 3 constraints, up to 4 rows | the README's verdict table; more rows never prove, and never mend a failure; inconclusive rows leave the confidence alone |
| `EngineState` | state mode, 2 constraints, every plan of up to 3 steps | the verdict is the roll-up of the file; `PROVEN` is witnessed by observations made for each constraint; uncovered constraints never pass; an abandoned run claims nothing; checks are decided on the latest exchange of their channel; the engine implements `Protocol` |
| `EngineModes` | all modes, 2 constraints, plans of up to 2 steps, 3 log writes | the notebook is walkable at every moment, also after crashes and lost ids: from an assertion to the action of its own step, to what was observed of that action, and back; ids are unique; a sealed run verifies for good; `verify()` ends unless somebody keeps it waiting for ever |
| `Planner` | all modes; requirements of up to 4 constraints; IR blocks and proposals of up to 2 steps | plans are executable whoever made them; declared IR is executed whole or not at all; a fallback starts over; the expander checks every constraint, also one that shares its id with another, judges none on another's operation or the wrong channel, and checks the session before anything disturbs it |
| `PoolSafety` | 3 requests (diffs and loops), 2 threads, 2 permits | Busy cannot happen with the code's sizes; 200 means sealed; only sealed runs are compared |
| `PoolLive` | 2 requests, 2 threads, 1 permit, 1 restart | permits balance, a 429 leaves nothing behind, every client is answered, the pool comes to rest |
| `Diff` | 2 constraint ids, every pair of runs over them | what `PROVEN`, `FAILED` and `INCONCLUSIVE` mean for a comparison; rows and verdict agree; an assertion cites both sides |
| `Readers` | 4 files (two of the graph, two not) and a stranger, up to 3 changes | clean answers are about intact runs; damage done before the reader came is flagged; nobody's run is flagged while it is sealed |
| `Jobs` | 2 jobs, 2 ports | another job's application answers only after a port was given out twice or the own application had gone; the bundle is sealed and never older than the run the job has sealed |

Three runs show where the code and its documentation part; each checks one
statement of the documentation and TLC finds it violated:

| Run | Statement | What the code does |
|---|---|---|
| `EngineOrphans` | README, `PROVEN` is "chain intact, seal valid" | a child the application left behind writes to `server.log` after it was hashed; the run ends `PROVEN` and does not verify |
| `VerdictsUncovered` | README, no coverage means "the requirement is `NOT_PROVEN`" | a failing constraint is asked for first: `PARTIALLY_PROVEN` |
| `ReadersTamper` | README, "Tamper any file and `opentruth explain` reports `INTEGRITY FAILED`" | if the file no longer parses, or is gone, and it is `manifest.json` or one of the graph's, `explain` ends in a traceback and `get_run` in a 500 |

Other disagreements met while modelling, which are plain from the source and have
no run of their own:

* An exception of `start_app` leaves `verify()` without a verdict (`engine.py:121`,
  `StartRaises`), where README law 5 has "could not look is `INCONCLUSIVE`". So does one of
  `wait_health` that is no `URLError` or `OSError` (`EngineRaises`), and a notebook that cannot be
  read back: rows are written with `ensure_ascii=False` and read with `splitlines()`, which also
  splits at U+2028 (`store.py:153-159`, `FinishRaises`).
* `manifest.json` exists, empty, inside its write and after a crash there
  (`store.py:126`, stage `torn`); directory lookups ask for its presence only. README:
  "SHA-256 of everything; sealed=true".
* The listings of the server show every directory with a `verdict.json`
  (`server.py:325`); PRODUCT-REPORT: "Last 24 sealed web runs".
* A comparison's verdict comes from the loaded rows (`diff.py:204-206`), and all its
  assertions may pass under `NOT_PROVEN`; PRODUCT-REPORT: "Rolled up from E-* only".
* Steps of a model's proposal that do not pass the allow-list are dropped and the
  rest is executed (`llm.py:171-177`); only a hostile kind gives the proposal up.
* After a verification that ended without a seal, `pack` takes the newest sealed run of
  the checkout, from an earlier job (`store.py:203`); `BundleIsNoOlder` speaks of
  verifications that sealed theirs.

Bounds, and why they are enough:

* Two constraints: the happy path and one other are all the rules distinguish; a
  third is in `Verdicts`, where it is cheap.
* Plans of three steps hold the shortest sequences in which a stale result could
  be judged (request, failing request, check; query, request, cell check), in which a
  runner fails after a pass, and in which one constraint is left out. State mode
  has every kind of step of api mode, so `EngineState` covers both. `MCPlans` is every
  sequence of the kinds of the mode, because declared IR may order them freely; only the check a
  runner does not know, which looks at nothing, is left to plans of up to two steps.
* `MaxLog` bounds the application's writes. The log matters to the seal only, so
  `EngineState` allows none beyond its creation; `EngineModes` allows two more,
  before and after the digests are taken. The application leaves no
  children behind in either (`SealStands` needs that); in `EngineOrphans` it does.
* A loop has three runs in the code; two more requests fill both threads and the
  queue. `PoolSafety` has no restart (a failing job leaves the same half-written
  directories); `PoolLive` has one. Its single permit is not the code's number: it
  makes the branch that raises `Busy` happen, which `NeverBusy` shows does not happen
  with the code's own.
* `Planner`'s blocks and proposals have one step for every way to be refused, and pairs
  of them where the order matters (a refused step after an accepted one, repeated
  ids). Its requirements have every pair of statements, so every way one constraint can
  disturb another; `ExecutableStands` and `IrStands` are about lists of any length.
* `Readers` has, of each sort of file a reader distinguishes (in the graph or not,
  `verdict.json` or not, belonging to the run or not), at least one. Three changes are one in each of the
  first pass, the gap and the second pass; `MaxDamage` bounds nothing in the proofs.
* `Jobs` has two of each, which is what a port given out twice or a choice between two
  runs needs; the proofs are for any number.
* Requests and jobs are interchangeable; symmetry is used in `PoolSafety` and `Jobs`,
  which check invariants only.

Deadlock is not checked: every behaviour ends (a call returns, requests are
finite).

### Fairness

`Engine!FairSpec` is weak fairness of the verifier's thread everywhere but where it is at somebody
else's mercy (`AtTheirMercy`). What it is fair about has an end of its own: files, SQLite (5 s
for a lock, then a count), both waits of `stop_app`, the roll-up and the seal. What it leaves
out is what the code does not bound:

* an HTTP step. `timeout=10` (`runners/http.py:37`) bounds each operation on the socket; an
  application that sends its answer little by little keeps `resp.read()` busy for ever;
* the health poll, whose deadline is looked at between two polls, for the same reason, and
  `build_plan()`, which may ask a model (`llm.py:91-92`);
* every step of the browser: `page.content()` (`runners/browser.py:115`) and closing the browser
  (`:202-203`) have no deadline.

`VerifyEnds` therefore states its assumption: **if** the call is time and again at no such place
(`[]<>~AtTheirMercy`: whoever it waits for lets go of it in the end), **then** it ends. What it shows
is that nothing else holds it up. Nothing is assumed of the application beside: it may hang, exit, or
never write.

`ServerPool!FairSpec` is weak fairness of each job and of each waiting handler. That jobs go on is an
assumption here, the one `VerifyEnds` makes: the server judges only the MiniAuth application that
comes with it (`server.py:161, 184-185`), which answers. That handlers go on is the code's:
`future.result` has a timeout. Submitting a request and restarting are never forced.

## What is proved

`Verdicts` holds the lemmas about its operators, for any notebook whose results are
results (`Notebook`), of any size, over any set of constraints. `ConstraintRule` says when a
constraint passes and fails; `ProvenRule` goes through the early returns of
`roll_requirement`; `MoreRowsNeverProve` follows from both. The proofs of the engine cite them.

`VerdictsProofs` is about the notebook that grows row by row in `MCVerdicts`, for any number of
constraints and rows: `TableStands`, `DoubtStands` and `PaddingStands`. The invariant is that
every row is about a constraint and has a result (`RowsOK`); the last two are action properties, and
compare the roll-up before a row with the one after it.

`EngineProofs` is about `Engine`, for every `Last`, `Modes`, `Plans` and `MaxLog`
that satisfy `EngineAssumption` and `NoFileAssumption` (a plan that is written differs
from no plan).

* `TypeCorrect`: `Spec => []TypeOK`. `TypeOK` is not inductive: an assert step reads
  `Steps[ip]`. `TypeInv` adds `InPlan`, that plan.json exists while the runner works
  and that `ip` is in its range between the halves of a step.
* `VerdictStands`: `Spec => []VerdictFollowsEvidence`. `VerdictInv` adds where `verify()`
  can be once the verdict exists (`Final`): past every action that records a row.
* `SealStands`: `Spec => []SealedIsIntact`, **assuming** `Descendants = FALSE`, that is,
  that an application leaves no children with its log open. `SealInv` adds that the
  application may not log from the coverage loop on and that the digests in memory
  are those of the files. Without the assumption it is false (`EngineOrphans`): a child that
  still holds the handle writes after the digests are taken, and freezing the file does
  not stop it.
* `EngineKeepsPromise`: `Spec => KeepsPromise`. `CoverInv` says that in the coverage loop
  every constraint before the cursor has a row; with it `WriteVerdict` is `Decide`.
  `StepShape` classifies the steps of the engine by what they can do to evidence,
  verdict and seal, and is shared by these proofs.
* `RunRests`: `Spec => RestsOnceDecided`, under the assumption of `SealStands` and for the same
  reason. `QuietInv` says that the log has no writer left when the verdict is written.
* `StoreNeverRefuses`: `Spec => []StoreAccepts`. The guards of `RunStore` stand for exceptions of
  the store; in the model an action they disable would silently not happen. The theorem says that
  they hold wherever `verify()` makes the call, so that nothing is lost by having them as guards. `WrittenInv`
  says which files exist at each place, and that a run without a plan gets no further than `stop_app`.
* `VerifyAdvances`: `Spec => NeverTurnsBack`, that each step of the thread goes to a later place or
  round its loop with less of it left (`Left`, a natural number), and that the application cannot set
  it back. Together with `StoreNeverRefuses` it is the part of `VerifyEnds` that does not depend on
  scheduling or on who keeps it waiting.

The rest of the module is about what a run may claim. Each invariant below is
inductive together with `TypeInv`, the first three also with `VerdictInv`.

* `AbandonedStands`: `Spec => []AbandonedRunClaimsNothing`. `AbandonInv` follows the cursor
  of `_inconclusive_all`: up to the runner it is at the first constraint, every
  constraint before it has a doubtful row, and past the loop (`Certain`: not by way of an
  exception, after which there is no verdict) every constraint has one.
  Rows stay (`RowsStay`), so the doubt is still there when the verdict is computed, and
  by `ConstraintRule` nothing passes.
* `ProvenStands`: `Spec => []ProvenIsWitnessed`. `WitnessInv` says of every passing row what
  the theorem says of a `PROVEN` run; `ConclusiveRows` that only `JudgeAssert` records one.
* `UncoveredStands`: `Spec => []UncoveredNeverPasses`. `CoverageInv` ties a passing row to
  an assert step of the plan on disk, which is written once (`PlanAppears`).
* `LatestStands`: `Spec => []JudgedOnLatest`. `SourceInv` relates the runner's memory to
  the plan: the exchange and the query it holds, if they can be judged (`ok`), are those of the
  latest request and the latest query before `ip`. `ActKeepsLatest` is about the step that could
  break it: a new request overwrites the memory or empties it before anything is judged.
* `IdsStand`: `Spec => []IdsNeverReused`. `IdsInv` says that the counter of a prefix is at least
  every id in its file, so the next id is new also when ids were lost in between.
* `NotebookStands`: `Spec => []NotebookIsClosed`. `OperatedInv` says that while a step is observed
  and judged, the action recorded under the counter's present value is that step's, and
  `WitnessInv` that the observation made last is of that action: the two an assertion refers to.

`EngineKeepsStages` and its three sisters show, from the same invariants, that each
writer goes through `RunStages`: the verdict is written once, on an open directory, and
the manifest only when there is one.

`DiffProofs`, for any set of constraint ids and any two runs over them:
`DiffProvenStands` and `DiffFailedStands` rest on `DiffInv` (the verdict on disk is
that of the two loaded runs) and on `ProvenDiff` and `FailedDiff`, which go through the
early returns of `roll_diff`. `DiffCitesStand` and `DiffNotebookStands` need `BookInv`:
the observations a constraint's assertion will cite are those just made of either side
(`NotesInv`), and the loop has left one assertion for every constraint behind it (`RowsInv`).
`DiffRests` and `DiffSealStands` (a sealed comparison verifies for good) come from `SealInv`, that
the digests in memory and in the manifest are those of the files; nothing is assumed of an
application here, because none writes into the directory. `DiffStoreNeverRefuses` and
`DiffAdvances` are what they are in `EngineProofs`; the loop has as many rounds left as there
are constraints to compare (`TodoCount`).

`PoolProofs`, for any number of requests, threads, permits and restarts:
`PoolTypeCorrect`, `PoolOkMeansSealed`, `PoolBusyLeavesNothing`, `PoolDiffReadsSealed`,
`PoolPermitsBalance`, `PoolNeverBusy`. The inductive invariant is
`TypeOK /\ JobInv /\ LoopInv /\ QueueInv`: how far a job is by its state, that the runs of a
loop are made one after the other, and that the queue holds each queued job once (without
it a job could be started twice and take two permits). `NeverBusy` follows from
`PermitsBalance` and the number of idle threads, by cardinalities. `PoolAdvances` is the part of
`PoolComesToRest` that does not depend on scheduling: `Done` measures how far a job is, every step of
its thread increases it, and no other job, handler or restart decreases it.

`PlannerProofs`, for requirements, blocks and proposals of any length:
`PlannerTypeCorrect`, `ExecutableStands`, `IrStands`, `FallbackStands`. `PlannerInv` ties
the route to the state: which loops a planner can be in (`Routed`), ids are positions outside
declared IR (`Numbered`), the validated steps are a prefix of the block and the compiled
ones a prefix of those (`TypedSoFar`, `CompiledSoFar`), and the expander's plan begins with the happy
path (`HappyFirst`).

Three more theorems there are about the expander's plans: `OwnStands`, `SessionStands` and
`CheckedStands`. What an iteration of `expand()` appends is one block of steps for one
constraint (`OneAppended`), and a block can be judged by itself: it has an assert
(`CheckedBlock`), its asserts come right after an operation of the right channel (`OwnBlock`), the
block of a session leaves the page alone (`SessionBlock`), and any other has no reload (`FitBlock`).
`OpsBlock` goes through the table of blocks. `ExpanderInv`, inductive together with `PlannerInv`, carries that over to the plan:

* `OwnSoFar`: every assert made so far looks back, over asserts only, on an operation of its own
  constraint. Steps are only appended, so no earlier assert is disturbed.
* `InPlace`: until the first loop of `expand()` has ended, nothing after the first step
  has navigated or cleared cookies; every reload has been made by then, and what comes before
  it in the plan stays as it was.
* `CheckedSoFar`: every constraint handled so far has an assert that was planned for it, by its
  place in the requirement. Steps are only appended, and a block has an assert of the
  constraint it was made for (`AppendedChecked`).

`ReadersProofs`, for any set of files and any number of changes:
`ReadersTypeCorrect`, `ReadersCleanMeansIntact`, `ReadersFlagSpoiled`,
`ReadersNoFalseAlarm`. `DirInv` says what an undamaged directory holds at each stage;
`PathInv` what the reader has seen when it is past `verify_manifest`; `SpoiledInv` that a
file which was damaged when the reader came cannot have been seen as sealed; `StillInv`
that without a change under the reader both passes have seen what is there; `AlarmInv`
that a run found by its manifest, undamaged, looks intact from the first step on.

`JobsProofs`, for any number of jobs and ports: `JobsTypeCorrect`,
`JobsForeignNeedsRace`, `JobsBundleIsNoOlder`. `PhaseInv` is what a job has by the label it
is at; `PortInv` that two jobs with one port, neither of which has lost its application,
are both in `collided`; `PackInv` and `BundleInv` that what pack has chosen was the latest
when it chose and that a run with a manifest keeps its time.

`StoreNeverRefuses`, `VerifyAdvances` and their counterparts for `diff_runs()` assume
`NoFileIsNoContent`: the value that stands for a missing file is none of the contents that are written.
The other assumptions on constants are `EngineAssumption`, `NoFileAssumption`, `DiffAssumption`,
`PoolAssumption`, `PlannerAssumption`, `ReadersAssumption` and `JobsAssumption`, each in the
module that declares the constants; TLC evaluates them in the runs.

With this every invariant the passing runs check, and every action property, is stated by a
theorem. Only model-checked are the liveness properties (`VerifyEnds`, `EveryRequestAnswered`,
`PoolComesToRest`), which are out of the prover's reach (`VerifyAdvances` and `PoolAdvances` prove that there
are only finitely many steps to take, not that they are taken), and of course the three disagreements
above, which are counterexamples. What the theorems do not reach is what the models leave out;
see below.

## What is not modelled

* The contents of requests, pages, SQL rows and declarations; timestamps other than
  modification times; wording.
* Lines of a JSONL file cut in half by a crash: a row is appended whole in
  `RunStore`; `Readers` has files that do not parse.
* Collisions of run ids (eight hex digits) and of digests. A manifest rewritten to agree
  with changed files is as good as the original to every reader of the code, and is no
  change in `Readers`; nor does anything protect the manifest's other fields
  (`store.py:167-170`), which `Readers` has as `relabelled` and no property calls damage.
* When exactly a subdirectory is listed by `_iter_files` or `rglob`: names appearing or going
  between the listings of two directories count as changes under the reader.
* The order of a comparison's constraints, which nothing depends on.
* `node_id` and the tree `explain` prints; a graph that declared ids make cyclic (`graph.py:38-41`,
  a constraint with the id of its requirement), on which the printing would recurse.
* `run_file`, the listings and the pages of the server, which read one file or filter
  names and change nothing.
* An environment file whose `url` names a fixed port: in `Jobs` every job uses the port
  that `free_port` gave it.
* The site, the example applications, the chat request of the model planner, the
  outputs and summaries written for GitHub.

## State of the plan

Done: `Verdicts`, `RunStore`, `Engine`, `Protocol`, `DiffRun` and `ServerPool`; then
`RunStages` as their common contract, `Planner`, `Readers` and `Jobs`, each with its
instance and its proofs.

What is left would add detail rather than parts: `Jobs` with a fixed port; the listing
order of subdirectories in `Readers`; and for `build_plan()` and the jobs of CI what
`VerifyAdvances` and `PoolAdvances` are for the others.
