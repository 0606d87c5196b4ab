# TLA+ verification of the context orchestration engine

The engine hands a long task from one language-model worker to the next. What
crosses the boundary is never a conversation but a *canonical execution state*,
merged from what workers claim, persisted to SQLite after every turn, and
compiled into a bounded package for the next worker. This directory holds TLA+
models of that machinery, the TLC runs that check them and the TLAPS proofs
about them. Paths below are relative to `src/src/context_orchestration/` unless
they begin with `src/`.

## 1. Inventory

| Part | Source | State it keeps | Operations | Talks to |
|---|---|---|---|---|
| Orchestrator loop | `core/orchestrator.py` | the `ExecutionState` in memory, the queue of assignments, `previous_worker`, the `RunSummary` | `create_task`, `run`, `resume(max_steps)`, `_execute` | store, compiler, worker, reconciler, event callbacks |
| Store | `storage/sqlite_store.py` | tables `tasks`, `state_snapshots`, `worker_executions`, `handoffs`, `context_packages`, `events` | one commit per method | SQLite |
| Execution state | `context/state.py` | plan, completions, decisions, artifacts, issues, attempts, assumptions, histories | `add_*`, `upsert_artifact` | - |
| Reconciler | `core/reconciler.py` | - | `reconcile` and its nine merge steps | execution state |
| Context compiler | `context/compiler.py` | - | `compile`: rank, include, truncate, trim | execution state |
| Handoffs | `context/handoff.py` | - | `build_handoff_record`, `handoff_audit` | execution state |
| Worker | `core/worker.py` | messages of the attempt | `execute`: work call, report call, validation retries | gateway |
| Gateways | `gateway/llm_gateway.py`, `gateway/http_gateway.py` | - | `complete`: schema variants, rate limit retries, unwrapping | model providers |
| Providers | `gateway/providers.py` | a static directory | detect, qualify, rank, spread | HTTP |
| Planner | `core/planner.py` | - | `parse_plan`, `heuristic_plan`, `split_budget` | gateway |
| Contracts | `core/contracts.py` | - | record types, coercion of loose JSON, `normalize` | - |
| Engine facade | `engine.py` | registry, store, gateway | `run`, `create`, `resume`, `step`, queries | orchestrator |
| Web server | `web/server.py` | `RUNS`: per run a queue, a replay and a thread | start, stream, start-and-stream, keys, plan | orchestrator in a thread, browser by SSE |
| Visit counter | `web/counter.py` | one number in Redis or SQLite | `bump`, `total` | Redis REST |
| Page: setup | `web/static/js/setup.js` | the steps and their shares, the keys and the reports on them, the team | editing, checking keys, asking for a plan | web server |
| Page: transport | `web/static/js/run.js`, `main.js` | run flags, event queue, timer, open stream | click, event, timer, error callbacks | web server |
| Command line | `cli.py`, `ui/console.py` | - | argument parsing, printing | engine |

What is hard here, and to test:

* **Crashes.** A turn ends in three commits (`save_worker_execution`,
  `save_handoff`, `save_state`), a run in two. The process may die between any
  two, and `resume` rebuilds everything from what it finds.
* **Two notions of done.** `resume` asks the executions table; the verdict
  (`_has_remaining`) asks the history inside the state.
* **Partial failure.** A worker that fails is skipped, the loop goes on, and the
  failed turn is run again by a later `resume`, after turns with higher numbers.
* **Untrusted claims** over many turns: repeated, reworded, contradictory.
* **Threads and requests.** The run's thread and any number of watching
  requests share a queue and a list without a lock; clients come and go.
* **Retries** that nest (worker, schema variants, rate limits), **limits and
  rounding** in the compiler and the planner, **fallbacks** in the counter,
  **callbacks** on the page.

What makes each part correct:

* *Orchestrator and store*: a completed turn is never run again nor its record
  changed; the verdict agrees with the record; the state never claims what the
  tables do not hold; whatever happens, resuming ends with every turn completed.
* *Reconciler and state*: nothing known is forgotten, doubled or closed on a
  worker's word; the plan loses no step; doubtful claims are flagged.
* *Compiler*: the package fits its budget but for what the required texts cost
  at their shortest, and says what was dropped; required sections are there.
* *Worker and gateways*: a bounded number of provider calls; quota errors are
  not retried as format errors; a failure is always reported as one.
* *Run stream*: every event reaches the watcher, once and in order, and the
  stream ends if its thread ever began.
* *Page transport*: as long as no connection breaks and no request of an earlier
  run is left open it plays one run, every event once and in order, and it gives
  the button back.
* *Planner*: every step gets its minimum, the shares keep to the total and grow
  as far as rounding allows, and each turn is told what the page showed beside its
  step.
* *Providers and keys*: the model a worker was given is asked of the vendor that
  offered it, with the key that was asked about, under the name it was offered
  by.
* *Counter*: the total is never overstated when it is called durable.

`PROJECT.json` lists every hazard at its line with the properties that watch it.

## 2. Modules

| Module | Models | Kind |
|---|---|---|
| `TaskLedger` | what the engine promises a caller about one task | abstract specification |
| `Orchestrator` | `ContextOrchestrator` over `SQLiteStore` | state machine; implements `TaskLedger` |
| `OrchestratorProofs` | theorems about `Orchestrator` | proofs |
| `Reconciler`, `MCReconciler` | `StateReconciler` over `ExecutionState` | state machine, its instance for TLC |
| `ReconcilerProofs` | theorems about `Reconciler` | proofs |
| `RunStream` | one run's thread, session and watchers in `web/server.py` | state machine |
| `RunStreamProofs` | theorems about `RunStream` | proofs |
| `ContextCompiler`, `MCContextCompiler` | `ContextCompiler.compile` | state machine, its instance for TLC |
| `ContextCompilerProofs` | theorems about `ContextCompiler` | proofs |
| `WorkerCalls` | one turn of `UniversalWorker` over `HTTPGateway` or `LiteLLMGateway` | state machine |
| `WorkerCallsProofs` | theorems about `WorkerCalls` | proofs |
| `BudgetSplit` | `split_budget` and the page's copy of it, one loop iteration at a time | state machine |
| `Planner`, `MCPlanner` | the plan editor, the plan endpoint, the preparation of a run; extends `BudgetSplit` | state machine, its instance for TLC |
| `PlannerProofs` | theorems about `BudgetSplit` and `Planner` | proofs |
| `Providers` | keys, model names, model lists and their ranking | operators |
| `KeySetup`, `MCKeySetup` | the page's keys and team, inspections, the roster of a run; extends `Providers` | state machine, its instance for TLC |
| `KeySetupProofs` | theorems about `Providers` and `KeySetup` | proofs |
| `RunPage` | the page's transport over what it can tell of `RunStream` | state machine |
| `RunPageProofs` | theorems about `RunPage` | proofs |

Operators whose comment begins with *Deviation* are plausible mistakes in the
definition that follows them (a dropped guard, a forgotten write). No
specification uses them; each is substituted for its original to see that a
property notices.

### Orchestrator

State. `taskStatus` and `stored` are the columns `status` and `state_json` of
the task's row; `executions` and `handoffs` are those tables by `seq`;
`packages` counts the packages saved for a turn. `mem`, `pending`, `turn`,
`limit`, `previous`, `audited` and `summary` are the local variables of
`resume` and `_execute`, and `pc` is the next commit. Of the execution state the
module keeps the status and the two histories, since resumability depends on
nothing else; because `reconcile` and the append to `worker_history` happen in
memory with no write between them, "the turn is COMPLETED in the history" is
also "its result has been folded in". An execution row cites its package, as
`context_package_id` does.

Actions. `CreateTask` (alone or as the start of `run`), `LoadState` and
`LoadExecutions` (`resume`, `step`), `BeginRun`, `CompileTurn`, then either
`WorkerFails`, `SaveFailure`, `SaveFailedState` or `WorkerSucceeds`,
`SaveExecution`, `SaveHandoff`, `SaveState`; `Finish` and `SetStatus` at the
end. Each is what happens up to and including the next commit. `Crash` may
happen between any two and keeps only the tables. It also stands for an
exception nobody handles (a roster that no longer has a worker of the plan).

Not in it: `state_snapshots` and `events` are written along with the other
tables but nothing that decides anything reads them. One process drives a task
at a time.

### Reconciler

A turn is a sequence of claims, merged kind by kind in the order of `reconcile`;
`rank` is how far the turn has come and a merge step takes one more claim of
that kind or a later one, so every list a worker can send is covered. Texts are
values with a `Key`, which is what `normalize` makes of them. The state's lists
are sets, as the reconciler looks records up by key only. `FailTurn` is a turn
that produced nothing to merge: the loop has made its task current before the
worker failed and leaves it so; `Extra` is the task a worker beyond the plan is
given. `seen`, `structured` and `planned` are the local sets of the merge
methods, and `warnings` is what the reports of all turns flag.

### RunStream

The thread puts events into `sink` in the order in which `_execute` calls
`StreamEvents`; each watching request is a drain that sends a copy of `replay`
and then takes from `sink`. Taking an event and recording it in the replay are
two steps, as nothing locks them. A client that disconnects does not interrupt
its drain: the web framework runs the generator in a thread and only abandons
it when the call under way returns. `Drop` and `Abandon` model that framework
and are external to the source.

### ContextCompiler

One compilation. `key` goes through the sections by priority; each is ranked
(`Kept`: anchors, then relevance blended with recency, up to the cap), then
included whole, cut to the first lines that fit (`Trim`), omitted, or, for the
assigned task and the objective, shortened by fifths (`_truncate`) and included
whatever it costs. The code ranks all sections before it fills the first one;
since sections do not look at each other the model ranks each when its turn
comes. An item is its place and its number of words in common with the focus; a
section's text is the length of its first lines, and the package is `length`,
the characters rendered so far, so that costs are those of the rendered text
with its titles, blank lines and notes. `Score` is the code's formula over a
common denominator. `Tokens` is `HeuristicTokenEstimator` (`compiler.py:48-60`) and
counts by characters; its other branch, one token per word, matters only for
words shorter than three letters. Where the package `tiktoken` can be imported,
`default_estimator` (`compiler.py:75-79`) takes `TiktokenEstimator` instead, whose
counts come from a vocabulary of another project: that estimator is not modelled.
What is said of the order of steps, of what is kept, reported and marked does not
depend on how tokens are counted; the numbers of `SpendingBounded` do.
`_truncate`'s own condition, that some text is left (`while text`), never ends its
loop, as the limit of 24 characters does before; the blanks it strips off the end
of a cut are left out. `forced` and `unfit` are history variables: the required
sections that had to be shortened, and those that did not suffice even then. The
part of a required text that was cut off is marked in the package and not
listed as dropped, in the code as in the model.

### WorkerCalls

`stage` is the call under way (`execute` makes a work call and a handoff call)
or how the turn ended; `attempt` is the loop of `_call_validated`, `format` the
loop of `complete` over response formats, `waits` the loop over rate limits
inside it. `users` counts the user messages sent, `requests` everything sent,
and `limited` the rate limits reported in a row. Each action is one answer of
the provider and what the three loops make of it; the two gateways share the
actions and differ, by `gateway`, in `Broken` and `Hollow`: a connection that
breaks while the answer is read is a bad answer to one and a refused format to
the other, an answer without choices ends the turn of one and is retried by the
other. How long a wait is, and the shapes of requests, are left out; so is a
roster whose configuration names a vendor that is not in the directory, which
only repeats an error without any request.

### BudgetSplit and Planner

`BudgetSplit` is the division of a total between the steps of a plan: `Divide`
starts it, `RoundShare` adds the share of one more step, rounded to a multiple
of 50 and raised to the minimum, `TakeBack` is one iteration of the loop that
takes what is over off the shares from the last one on. The weights are exact
fractions; where the floating point of the code meets a tie it may round either
way, and the server and the page do round differently, so the model allows both.

`Planner` uses that division twice, as the code does: the server divides for the
plan it answers with (`SplitPlan`), the page after every edit (`ApplyCaps`,
`FillCaps`). `rows` is the editor (`planSteps`, `applyCaps`, the `manual` mark of
a share that was typed), `asked` the plan request under way, during which the
page can be edited, and `PlanArrives` what its answer does to the editor. `total`
is where the slider stands and `label` the total written beside it; the slider
snaps to its own steps, the label and the message of an arriving plan do not.
`HeuristicPlan` and `ParsePlan` are `heuristic_plan` and `parse_plan` with steps
that say something or nothing. `BuildRunBody`, `StepBudgets`, `Assigned` and
`Prepare` follow the shares through the request into the budgets of the turns;
`Assigned` is `build_assignments`, which gives workers beyond the plan a turn of
their own. Only the stand-in has such workers, as it runs on `workers.json`.

### Providers and KeySetup

A model's name is the sequence of its `/` segments and a key that of its `-` or
`_` segments, so that prefixes, stripping and qualifying are exact. `Detect`,
`SplitModel`, `Qualify`, `StripVendor`, `ListModels`, `IsChatModel`, `Rank`,
`Spread` and `InspectKey` are the functions of `gateway/providers.py`, `Resolve`
is `_resolve_provider` of the HTTP gateway. How a name is scored (`strength`) is
a number the row carries.

`KeySetup` is the page: `keys` the cards, `pool` the report on the lent keys,
`team` the workers with the key and the model of each, and `checking` and
`lending` the inspections under way, which answer in any order while the page is
edited. A key that is typed over loses its report and `team` is not rebuilt; the
answer of an inspection goes to the card by its identity, whatever it holds by
then: both as in `wireKeys` and `checkKeys`. `Reports` is the endpoint, with a
vendor that lists its models to the keys it issued, or fails. `ConfigOf` is
`build_registry` and `Run` records which vendor is asked for which model with
which key. Of the fields of `team`, `for` and `menu` are the report the model
was taken from and the one its menu was drawn from.

### RunPage

`page` is the transport state of `run.js` and the functions of that file are
operators from page to page: `ResetRun`, `Enqueue`, `Pump`, `Handle`, `Finish`.
`link` is the request or stream of each run; `wire` what was sent on it and not
read yet. On the server's side `taken` says how far a run's drains have come and
`orphans` how many drains of broken connections are still blocked in `sink.get`;
each may take one more event, which the next watcher is then never sent. That is
what `RunStream` shows of a session, seen from one page, and the thread that
always ends its events is its `StreamEnds`. `serverless` chooses the transport:
either a POST answered with a task id and then an `EventSource`, which the
browser reopens when it breaks, or one POST whose body carries the events. The
timers of `pump` fire in any order and at any time, those of an earlier run
included. `overlapped` is a history variable.

## 3. Runs

| Run | Question | Bounds | Result |
|---|---|---|---|
| `orchestrator_crash` | Do the promises survive crashes, failures, steps? | 3 turns, 2 workers, steps of 1 and 2, 3 failures, 2 crashes | holds, 360k states |
| `crash_loses_turn` | Is every package compiled from all completed work? | 1 crash | violated |
| `crash_stuck_status` | Does a killed and resumed task finish? | 1 crash | violated |
| `reconciler` | Is state only ever gained, and doubt flagged? | 2 workers, 5 texts (4 keys), 3 claims, any number of turns, failed ones too | holds, 3.3M states |
| `steps_collide` | Does a claim complete only the step it names? | 2 steps whose key is empty | violated |
| `run_stream` | Does a run's stream deliver and end? | 1 turn (6 events), 2 watchers, disconnections, a store that may not open | holds, 35k states |
| `context_compiler` | Does a package fit, miss nothing silently, keep the best? | 6 sections, 3 items, caps of 2, an anchor, 3 budgets, 3 lengths | holds, 274k states |
| `worker_calls` | Do nested retries stay within their product? | 3 attempts, 3 formats, 3 waits, both gateways | holds, 12k states |
| `planner` | Does every turn get the share the page shows, and do shares keep to their total? | 8 rows, up to 7 steps to plan, 4 slider positions, 4 edits | holds, 3.7M states |
| `key_setup` | Is every model asked of the vendor that offered it? | 3 vendors, 3 keys, 2 cards, 2 lent keys, 4 steps, 6 edits | holds, 208k states |
| `stale_team` | Whatever was edited meanwhile? | the same, 5 edits | violated |
| `run_page` | Does the page play one run to its end and give the button back? | 2 runs of 4 events, 2 breaks, both transports, paced or not | holds, 263k states |

Why the bounds are enough. Three turns of two workers give a first, a middle and
a last turn, a worker with two turns and one that may fail between two that do
not; steps of 1 and 2 stop before, inside and at the end of the plan; two
crashes let a recovery itself be interrupted, three failures let a turn fail
again when it is retried. Every theorem of section 4 lifts its property to all
values. Three claims are two that collide plus one before, between or after
them, of any kind and in the same or another turn; the texts hold a plan step in
two spellings, another step, the task of a surplus worker and no task. Two
watchers are what a reconnecting page needs; the events of a second turn repeat
those of the first as far as a stream is concerned, with a handoff before them
(the theorems cover every number of turns). The six
sections of a package are two required texts, one optional text, a list with an
anchor, a list without and one with a placeholder; three items overflow a cap of
two. A budget of 15 is too small for the required texts even at their shortest,
one of 57 for most lists and such that the sum of two estimates takes a package of
58 tokens for fitting, one of 100 for some lists. Two retries give a first, a middle and a last
attempt, three formats a strictest, a middle and a last one; the longest turn
sends exactly the 72 requests of the bound, and the theorems cover every other
size.
The demo plan has seven rows, and four edits are enough to remove one, type a
share, switch the mode and run, in any order and with a plan answered in
between. Seven is the least number of steps whose minima (1750) exceed where the
slider begins (1500), so that a plan raises the total it was asked for, and more
than that repeats the case; the code's bound of twelve is one of the values the
theorems cover. The slider positions are its middle, its beginning, below the
minima of the rows, one where rounding overshoots so that the last of eight
shares falls short of the one before it, and one where seven shares do not add
up. Three vendors are one
whose models are named after itself and after another vendor, one whose key is
not marked and one whose prefix differs from its name; their lists hold a
duplicate, an inactive model, one with too short a context and one of an
excluded kind. Two runs are what one stream of events can confuse; three were
checked with fewer events. Three events before `stream_end` are the least with
which something can be queued when a connection breaks that is not yet the end
of the run; with two breaks two drains are left behind.

What the passing runs show: `WriteAhead`, `ReconciledOnce`,
`NoReworkAfterCompletion` and `VerdictIsEarned` say that the tables and the state
stay consistent through every interruption; `LossBounded` says how much the violation found by
`crash_loses_turn` can cost: one turn for one death; `AuditTrail` that audits
and the handoff count name real predecessors; `KeepsLedger` that all of it adds
up to the abstract ledger; `PausedMeansMoreRemain` that the two notions of done
disagree only over a turn a death has lost; `EveryTurnCompletes` that nothing
wedges a task, and that its status says so for good if no process died. `PlanAccounted`, `KeysUnique`, `NothingForgotten` and `DoubtsAreFlagged`
are the trust rules of `core/reconciler.py:11-19` made precise.
`EventsConserved`, `SentOnce`, `SoleWatcherSeesAll` and `StreamEnds` are what a
page may rely on; a stream hangs only when `SQLiteStore(db)`, which is opened
outside the `try` (`web/server.py:888`), raises in the thread. `SpendingBounded` says exactly what a package may cost beyond its budget,
and by which of the required texts: the first counts instead of the budget if it
does not fit at its shortest (20 tokens with the titles of the code), the second
adds its shortest form (20 tokens) if it does not fit at that, or one token if a
sum of two estimates took it for fitting; whatever costs more than the budget
holds nothing optional. `Accounted` is "reported instead
of silently vanishing" (`src/README.md:381-383`); `AnchorsFirst` says that
ranking, capping and cutting together keep what anchors are for; `BestKept` that
the cap is used and used for the best; `Compiles` that shortening ends even when
it cannot succeed. `RequestsBounded` and `QuotaRespected` say that the three
loops of a model call compose: they cost what they multiply to, and a quota ends
all three. `SharesWithinTotal` and `FairShares` say what a division promises at
its boundaries, how much of the total it may leave out and where a share may be
less than the one before it; `ShownSharesCurrent` that no edit, plan or mode leaves
a stale share of the slider's total on the page, and how far the total written
beside the slider may be from it; and `TurnsGetTheirShare` that every turn, those of extra
workers included, is told what its row showed. The fact "Ceiling" on the page
(`setup.js:570`) is not what a run may cost: it leaves out the minimum and the
turns of the stand-in's extra workers. `SpreadIsEven` and `RoutedAsChosen` say
that suggestions use all a key offers and that names survive the way from the
vendor's list through the page and the roster to the gateway. `PlaysOneRun` and
`ButtonComesBack` say what double clicks, stale timers, leftover drains and
broken connections can and cannot do to the page. Their exceptions are real
behaviour of the code, each found by TLC when it is removed: on a serverless
host the previous run's reader may still be open when the button is back, and
its `stream_end` then ends the next run on the page; a paced serverless run whose
body is cut while events are queued never gives the button back
(`run.js:84`); a paced local run may lose both its last events to two drains
left behind. The hazards at those lines are therefore not attributed to the two
properties, nor that of a thread that dies before its `try` to `StreamEnds`: the
model has them, and what the code does there is not what one would want.

Where the code departs from what is written about it. The four violated runs
show one sentence each that the code does not keep. In five more places it is
known how far the code departs, and a property of a passing run states that
exactly; take the excess out of the property and TLC finds the case.

| Run and property | Written | What the code does |
|---|---|---|
| `crash_loses_turn` | a killed process's next worker gets a package built from what is on disk (`storage/sqlite_store.py:3-6`) | a turn whose row was committed and whose state was not is skipped and in no package |
| `crash_stuck_status` | a killed run resumes and finishes the task (`src/README.md:494`) | killed before the verdict, the task reads running for good |
| `steps_collide` | near-identical claims dedupe (`core/contracts.py:40`) | all texts without a-z and 0-9 are one |
| `stale_team` | a choice is kept if its key still offers it (`setup.js:478`) | a model is asked of a vendor that never offered it |
| `context_compiler`, `SpendingBounded` | the cost is never a sum of estimates (`compiler.py:338-339`), a required text shrinks until the package fits (`:412`), packages stay inside the budget (`src/README.md:491`) | `compiler.py:418` adds two estimates and may be one token over; at 24 characters it gives up |
| `planner`, `FairShares` | shares grow down the plan (`planner.py:15`, `:248`), the surplus comes off the largest (`:267`), they add up (`tests/test_planner.py:5-6`) | the surplus comes off the last: 4500 between 8 ends 700, 650; what rounding loses is lost: 5500 between 7 is 5450 |
| `planner`, `ShownSharesCurrent` | what is shown is what gets sent (`setup.js:329-330`) | seven steps at 1500: the label and the message say 1750, the shares are those of 2000 |
| `worker_calls`, `TypeOK` | every call has one user message (`src/README.md:489`) | a retry has two (`core/worker.py:159-168`) |
| `reconciler`, `NothingForgotten` | artifacts are never overwritten (`src/README.md:333`) | description and content are (`context/state.py:109-112`); name, creator, modifiers and version are kept |

`findings` in `PROJECT.json` quotes them in full.

Fairness. `Orchestrator!FairSpec`: weak fairness of the invocation's own steps
(a live process runs its loop; worker calls end, as every gateway has a
timeout) and strong fairness of `resume` without a limit, that is, an operator
who keeps resuming; the code promises progress to no other. Failures and
crashes are not fair and are bounded, so that they stop. `RunStream!FairSpec`:
the thread and the drains run; nobody has to watch or to leave.
`ContextCompiler!FairSpec`: the function runs. `RunPage!FairSpec`: requests are
answered or refused, what was sent arrives unless the connection breaks, timers
fire, the browser reopens an `EventSource`; nobody has to click, breaks are
bounded.

`CHECK_DEADLOCK FALSE` appears only in the configurations of `RunStream`,
`ContextCompiler`, `WorkerCalls`, `Planner`, `KeySetup` and `RunPage`: a run
whose stream has ended, a compiled package and a turn that has ended do nothing
more, and a page does nothing once its reader has made the edits and clicks of
the bound.

## 4. Proofs

`OrchestratorProofs` proves, for every plan length, roster size, set of step
limits, and number of failures and crashes:

* `TypeCorrect`: `Spec => []TypeOK`;
* and, from `MaxCreates = 1`: `Invariance`, `StateNeverAheadOfTables`
  (`WriteAhead`), `NoDoubleReconcile` (`ReconciledOnce`), `CompletedTurnsStayDone`
  (`NoReworkAfterCompletion`), `VerdictsAreEarned` (`VerdictIsEarned`),
  `CompletedRowsAreFinal` (`CompletedIsFinal`) and `Refinement` (`KeepsLedger`).

`MaxCreates = 1` says that a task id is created once. Ids are drawn at random
unless the caller supplies one, and `create_task` with an id in use leaves the
executions of the old task in place (see the hazards); the theorems are about
the ordinary case and name the assumption.

The argument. None of the invariants is inductive alone: that no completed turn
is run again depends on what `pending` was computed from and on what has been
committed since, and that depends on where the invocation stands. `IInv`
therefore says, beside the types, for every value of `pc`: which turn is being
worked on (`TurnInv`); that nothing is stored before the task is created
(`BirthInv`); that what is still to run is not completed, and whether the
current turn's row is already written (`QueueInv`); that the turns a state in
memory or in the table holds are in the other tables, the one being saved aside
(`MemInv`, `WriteAhead`); and which statuses the two columns may show
(`StatusInv`). One lemma per part goes through the actions; `InvStep` puts them
together. The refinement maps each commit to a step of the ledger or to
stuttering; its verdict steps need `IInv` to know that a completed run has no
turn left.

The module's second half is about what is lost and what is said. `AuditsAreTrue`
(`AuditTrail`) needs no assumption on `MaxCreates`: `AuditInv` says that the
worker an audit will name is the one that wrote the newest handoff, wherever the
loop stands. `DeathsLoseOneTurnEach` (`LossBounded`) and `PausedTasksHaveMore`
(`PausedMeansMoreRemain`) need `MaxCreates = 1` and, beside `IInv`, `CarryInv`:
what a live invocation is about to store is what the tables lack, so that only
its death loses it; that a death costs one turn is then a fact about the
cardinality of a set that gains at most one element.

`ReconcilerProofs` proves, for every set of workers and texts, every plan and
every `Key` and `Sense`, `TypeCorrect`, `OneRecordForAKey` (`KeysUnique`),
`NoStepIsLost` (`PlanAccounted`), `WordsAreDoubted` (`DoubtsAreFlagged`) and
`WorkersUndoNothing` (`NothingForgotten`). `IInv` adds that a turn under way has
its worker, that a creator is not among those who modified an artifact, that
`planned` covers the texts of the plan, and per kind of doubt that its claims
are flagged already; for unplanned work this needs that a step of the plan never
is. The least pending step exists by well-founded induction on the naturals.

`RunStreamProofs` proves, for every number of turns and every set of watchers,
`TypeCorrect`, `NoEventIsLost` (`EventsConserved`), `NothingIsSentTwice`
(`SentOnce`) and `TheOnlyClientSeesAll` (`SoleWatcherSeesAll`). The run emits
its events in an order that numbers them (`EmittedInOrder`), so that what is in
the sink is exactly what was emitted last and not yet taken (`SinkIsRest`), what
was taken is in a hand or in the replay (`TakenIsKept`), and what a client was
sent, the sentinel apart, is in the replay and in it once (`SentIsKept`). A
client that watches alone needs more: nothing is taken by another hand, so what
it was sent and holds is all that was taken (`AloneIsSentAll`).

`RunPageProofs` proves, for every number of events, clicks and breaks,
`TypeCorrect` and `OneRunIsPlayed` (`PlaysOneRun`): order and completeness as long
as there was no break and no display reset over an open request, and whatever
breaks that an `EventSource` draws one run only. `IInv` says of the run the
page follows that shown, queue and wire are its events one after the other
without a gap (`InOrder`, `WireInOrder`), that a page that ended has read them
all, and that on a serverless host no request of another run is open unless the
display was reset over one. The functions of `run.js` get a lemma each: what
plays goes on in order (`PumpPlays`), what is read extends it (`EnqueueReads`).

`WorkerCallsProofs` proves, for every number of retries, waits and formats,
`TypeCorrect`, `RequestsAreBounded`, `QuotaIsRespected` and `NothingBuildsUp`.
The assumptions are that the three are natural numbers and that there is a
format. That `requests` is bounded is not inductive; `Reached` counts what the
calls, attempts, formats and waits that are over may have sent, and `IInv` says
that `requests` never exceeds it while the turn is calling. Every answer that
does not end the turn moves it to a place with a larger `Reached`, and `Room`
says that the largest is below the bound.

`ContextCompilerProofs` proves, for every list of sections, titles, caps,
anchors, budgets and lengths, `TypeCorrect`, `SpendingIsBounded`,
`NothingVanishes` (`Accounted`), `TheBestAreKept` (`BestKept`) and
`AnchorsComeFirst` (`AnchorsFirst`). The assumptions are that the two required sections exist,
have one text and are not ranked, and that budgets and lengths are positive. The
cost needs `Spent`: the bound on the second required text depends on what the
first may have cost, and on nothing optional being in the package by then. `Accounted` needs `Split` (the items of the section under
way are its lines or already dropped) and `Ahead` (nothing of a later section is
in the package). What the ranking keeps is proved without an induction over the
sort: in a finite order the number of elements before each is injective into the
numbers below the size of the set, hence onto, so that the first r places hold
exactly r elements (`RanksAreTaken`, `BestAreEnough`). `Ranked` carries that from
the ranking through the cut to the package.

`PlannerProofs` has two halves. Of the division alone (`SplitSpec`), for every
total, number of steps, minimum and grain and with either rounding of a tie:
`SharesStayWithinTotal` (`SharesWithinTotal`), `SharesAlwaysAddUp` and
`SharesAreFair` (`FairShares`). `IInv` says that `over` is the sum of the shares
less the total, that no share is below the minimum, and that the shares not yet
asked hold exactly the minimum once the loop has passed them, so that what is
over when it ends is over the minima. `FairInv` bounds what the shares rounded so
far fall short by, half a grain for each, and keeps them in order. A sum is
carried as its partial sums (`AddUpTo`), of which each iteration says how they
change; that the recursive `Sum` is the last of them follows from the least place
where the two would differ (`SumIsUnique`).

Of the whole page and server (`Spec`): `PlansKeepToLimits` (`TypeOK`),
`ShownSharesAreCurrent`, `TurnsGetTheirShares`, and `PageImplementsSplit`, that
`Planner` implements `SplitSpec`: every division of the page or of the endpoint
is one of `split_budget`, all other steps stutter; so what was proved of the
division is true of the page (`PageSharesWithinTotal`, `PageSharesAreFair`).
`PageInv` says besides whose division is going on, that it is of the total and
the rows shown (the page's) or of the plan found (the server's), that its shares
are still the shown ones until the next edit (`JobInv`), how far the label may be
from the slider (`LabelInv`; it needs that a plan's shares add up to its total but
for rounding, `AnswerAddsUp`), and that the turns
prepared are those of the request sent (`TurnsInv`). The assumptions: a plan has
at least two steps and a template as many (`PlannerAssumption`), the slider's
ends are a whole number of its steps apart, the minima of the longest plan fit
on it, it begins no higher than the largest total a plan may have, and the grain is no coarser than two thirds of it
(`SliderAssumption`).

`KeySetupProofs` proves, for every set of vendors, keys, marks and model lists,
every pool and every order of edits and answers, `SetupKeepsItsTypes`
(`TypeOK`), `SuggestionsAreEven` (`SpreadIsEven`) and `CallsGoWhereChosen`
(`RoutedAsChosen`). First the operators: `SortedIsAll` says that sorting keeps
every element, by the counting above, `ModelsAreOrdered` and `RankIsAll` that
each appetite orders all the models that can take a turn, and `PickedIsDealt`
that one more suggestion keeps the count even: those in `used` were suggested
once more than the others, and `used` is never all. The recursion of `spread` is
followed by an induction over a set of numbers (`FromZeroOn`), which needs no
operator as a parameter. Then the state: `IInv` says that every report, on a
card, of the pool or behind a menu, is sound (its models were offered by the
vendor that issued the key it is about, its suggestions are even), and that every
worker's model was offered to the key and vendor it is remembered with; `Lending`,
proved apart, that every inspection of the pool asks for a step at least. One lemma
per action keeps it; `WhoPays` says which key a worker is called with.
`RoutedAsChosen` itself is part of the invariant, since only `Run` makes calls.
The assumptions: an id has one place in a vendor's list, and the lent keys bear
the mark of one vendor (`PoolAssumption`). The code does not check the latter: it
asks and names the vendor of the first lent key for all of them
(`web/server.py:286`, `321-334`, `694-697`), so a pool of several vendors' keys is
outside what it, and the theorem, promises.

Only model-checked: liveness (`EveryTurnCompletes`, `StreamEnds`, `Compiles`,
`ButtonComesBack`), as the prover has no rule for fairness or ENABLED. Every
invariant and action property of the passing runs is a theorem.

## 5. Plan

What a next step would add, in order; each with its run and mutants.

1. `TwoDrivers`: two processes resuming one task, to say what is lost (see the
   hazards; nothing in the documents promises anything for it).
2. A second turn and a third watcher in the `run_stream` run, should the time a
   run may take allow it: the theorems already cover them, the liveness not.
3. Theorems that every step of a compilation, a division and a turn lessens a
   measure: what of `Compiles` and its like can be proved without fairness.
4. The coercers of `core/contracts.py`, as functions from shapes of JSON to
   records.

## 6. Not modelled

* The visit counter (`web/counter.py`, `visits.js`): a number beside the page
  that shares no state with a run. Its hazard is listed all the same.
* The mock gateway, prompts, the wording of steps, packages and events, and what
  an event draws (`built.js`, `live.js`): text and layout nothing decides upon.
* The coercers of `core/contracts.py`: they turn loose JSON into the records the
  models begin with.
* The command line and the console, the serverless entry point: argument parsing
  and printing over the engine facade.
* Listings and inspection endpoints: queries that change nothing.
