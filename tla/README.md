# Younggeul: a TLA+ model of the Seoul apartment simulation

Younggeul ingests housing data, publishes it as immutable snapshots, and runs a
round-based market simulation on a snapshot, from the command line or from a
web application. This directory holds TLA+ modules of its stateful parts, the
TLC configurations that check them on small instances, and TLAPS proofs about
them.

Paths below are relative to the repository: `APP` is
`apps/kr-seoul-apartment/src/younggeul_app_kr_seoul_apartment`, `CORE` is
`core/src/younggeul_core`.

## The system

| Component | State | Operations | What makes it correct |
|---|---|---|---|
| Run store (`APP/web/run_store.py`) | `meta.json` and `report.md` per run on disk, one lock | create, update status, reconcile at startup, list, read | the cap on inflight runs, final statuses, who has a report |
| Simulation service (`APP/web/services.py`, `app.py`) | executor queue, two worker threads, phase of the server | take a run, simulate, report the outcome; start, stop, kill | each run executed once, every accepted run ends |
| Routes and pages (`APP/web/routes`) | what a browser shows | submit; load and poll a run | a page never has to take back what it showed |
| Round resolver (`APP/simulation/nodes/_resolver_math.py`, `round_resolver.py`) | segments, participants | one round: price, sentiment, matching | no debts, no unit from nowhere, deltas explain the result |
| Decider and policies (`.../participant_decider.py`, `simulation/policies`) | none | an action for each participant | which markets are reachable at all |
| Gate (`.../continue_gate.py`) | none | another round or report | rounds are bounded, when they stop |
| Snapshot store (`APP/snapshot.py`) | one directory per snapshot: table, manifest | publish, resolve, resolve latest | immutability, complete or invisible, one reference |
| Simulation graph (`APP/simulation/graph.py`, `graph_state.py`) | LangGraph state with reducers, event log | eleven nodes, two routers, stubs where a model or a snapshot is missing | bounded rounds, a true reason for the end, runs independent of each other |
| Planning nodes (`intake_planner`, `scenario_builder`, `domain/`) | intake plan, scenario, roster | resolve, clamp and default what a model answers | whatever is planned can be simulated |
| World initializer and forecaster (`world_initializer.py`, `forecaster.py`) | first world, participants, baseline reports | build segments and participants | participants are those of the roster |
| Reporting nodes (`round_summarizer` ... `report_renderer`) | evidence, claims, report | collect, claim, gate, render | claims rest on evidence of their run and round |
| Event stores (`APP/simulation/event_store.py`) | events, in memory or one JSONL file per run | append, clear, read sorted, count | no event lost, no torn line taken for an event |
| Evidence stores (`APP/simulation/evidence/store.py`) | records by id | add, look up by kind or subject | (as the reporting nodes) |
| Replay (`APP/simulation/replay/engine.py`) | replayed state | fold handlers over events | a replay arrives where the simulation did |
| Connectors (`APP/connectors`, `CORE/connectors`) | rate limiter, attempts | fetch with retries, map to Bronze | calls are spaced, fetches end, failures are reported |
| Pipelines and transforms (`pipeline*.py`, `transforms`) | none | Bronze to Silver to Gold | every sale counted once, changes between adjacent months |
| Command line (`APP/cli.py`) | files it writes | ingest, snapshot, baseline, simulate, report, eval, serve | refuses options that make no sense |
| LLM adapter (`simulation/llm`) | none | one call, parsed and validated | an answer of the schema or an exception |
| Shadow runner and abdp adapters (`shadow_runner.py`, `CORE/_compat`) | a second market loop, driven by abdp | run, project an audit log | (not modelled) |

They interact as follows. The web application creates a run in the run store
and hands it to a worker thread; the worker builds a simulation graph and
invokes it; the graph's decider, resolver and gate loop over rounds, its
reporting nodes write the report, and the worker stores that with the run's
final status. Readers of runs share only files with the writers. `ingest` fetches
rows through the connectors and one rate limiter, transforms them and writes
Gold rows; `snapshot publish` stores these, `baseline` writes a forecast beside
them, and simulations read both. Every node of a simulation appends to the
event log, from which the replay engine rebuilds the state.

The behaviours that are hard to test are: two workers and the event loop on the same files
with only the writers under a lock; a kill or a stop at any point and a
restart on what is left on disk; failing disks between two writes; several
processes that publish the same snapshot; the matching loop with its shared
seller cursor; which sequences of rounds policies, resolver and gate allow
*together*; a log that is read while it is written, or after a kill; a replay
that must agree with the nodes of a graph that can be built in four ways; an
evidence store that outlives the run; retries, back-off and rate limit on one
clock; fetches that fail while others succeed. `PROJECT.json` lists the hazards with their lines.

## Modules

| Module | Models | With |
|---|---|---|
| `RunLifecycle` | the abstract promise of the web application: a run is accepted under the cap, begins, ends once | |
| `RunStore` | run store, routes, workers, server | `MCRunStore`, `RunStoreProofs`; implements `RunLifecycle` |
| `Market` | decider, policies, resolver, gate | `MCMarket`, `MarketProofs`, `MarketRoundProofs` |
| `SnapshotStore` | snapshot store | `MCSnapshotStore`, `SnapshotProofs` |
| `Transforms` | cells to Bronze, Silver and Gold rows, as operators | used by `LiveIngest` |
| `LiveIngest` | ingest command, live plan, connectors, retry, limiter, pipeline | `MCLiveIngest`, `LiveIngestProofs` |
| `Planning` | scenario, roster, snapshot as read, baseline, first world, as operators | used by `SimulationGraph` |
| `Replay` | replay engine, as operators | used by `SimulationGraph` |
| `SimulationGraph` | the graph, all its nodes and stubs, evidence store, in-memory log | `MCSimulationGraph`, `SimulationGraphProofs` |
| `EventLog` | file event store under threads and kills | `MCEventLog`, `EventLogProofs` |
| `SequenceFacts` | nothing: lemmas on sequences and induction | extended by the proofs |

No module declares a `RECURSIVE` operator. What a proof reasons about is a
recursive function (the replay, the doubled delays, a sum of prices, the
participants of the buckets before one), an order statistic (the median) or a
set; folds and sorts of the community modules are left where no proof looks at
what they return. The guards of a `CASE` exclude each other; where the order of
the code's `if`s decides, the definition is an `IF`: of two guards that hold
together TLA+ does not say which one counts, though TLC takes the first.

Definitions whose comment says "(A bug to detect ...)" or "mutant" belong to no
behaviour. Each is a plausible mistake in the definition that follows it; put
in its place, a run must fail. They show what the properties would notice.

### RunStore

| State | Code |
|---|---|
| `meta[r]`, `report[r]` | `meta.json` (its status) and `report.md` of the run; `"dir"` is the directory before the first `_write_meta` |
| `lock` | `RunStore._lock` |
| `thread[t]` | where a worker or the event loop is, with the arguments of its call |
| `queue` | the executor's work queue |
| `page[r]` | what the browser shows of the run and whether htmx polls |
| `server` | phase of `app_lifespan` |

A step is the work between two points where another thread or a kill can
intervene: taking the lock with the read and the check of the transition
(`EnterUpdate`), replacing `meta.json` (`WriteMeta`), truncating `report.md`
(`OpenReport`), filling it (`FillReport`). `_write_meta` replaces the file
atomically; `Path.write_text` on the report does not, hence two steps. Page
reads take no lock: they read the status (`ReadMeta`) and then, only if it is
completed, the report (`ReadReport`). `DiskFault` is an `OSError` in any file
operation under the lock; failing reads under the lock have the effect of
failing writes. `SubmitRaises` is `executor.submit` raising when it starts a thread. CPython has queued the work
item by then, so the item may be there though the caller was told it is not.
`Crash` keeps the files and the browser's page and nothing else. One server
process is assumed, which is how `cli.py` starts uvicorn.

Where `meta[r]` is completed and the report is not there yet, a page that
loads shows a completed run without a report and, not being inflight, does not
poll (`templates/run_detail.html:10-14`). `PageNotContradicted` and
`PolledPageSettles` are stated so that this is allowed for such pages and
excluded for pages that poll.

**Runs.**
`run_store_safety` has three runs, a cap of two, two workers, one fault, one
kill or stop: the cap is met and refuses, both workers and the event loop
compete for the lock, one run waits in the queue, and a fault can hit each
file operation once, before or after a restart. It checks nine properties, among
them the refinement of `RunLifecycle`. `run_store_live` has two runs, one worker
and one kill or stop, without symmetry. `run_store_persisted` shows the finding
below.

**Fairness.** Weak fairness for each thread's `UpdateStatus` stands for a
scheduler that lets every thread run and a lock that is not starved: each run
takes the lock a bounded number of times, so it is free again and again and a
waiter is not postponed for ever. `Simulate` is fair because `graph.invoke`
ends (bounded rounds). `Poll` needs strong fairness: the event loop
is busy and free in turn, and asyncio serves requests in the order they come.
Submitting, loading, stopping, killing, restarting and faults are not fair:
nobody has to do them. `EveryRunEnds` therefore assumes the server to be up
again and again.

**Bounds.** `MaxFaults` and `MaxStops` bound the number of faults and of
kills or stops; `Runs` is finite, so run ids are used up, also those of
directories that got no `meta.json`.

### Market

| State | Code |
|---|---|
| `segment` | the target `SegmentState` in `world` |
| `capital`, `holdings` | `participants` as last committed |
| `actions` | `market_actions`, by kind |
| `book` | the locals of `pure_resolve_round`: buyers and sellers still to come, matches, copies of the participants, deltas |
| `stage`, `round`, `trades` | the next node, `round_no`, what the gate reads of `last_outcome` |

One segment is enough for what the code does: the decider sends every action to the
scenario's first district (`target_gus[0]`). Sentiment and price moves are in
thousandths. `PossibleMoves` stands for the confidences: net pressure is at
most the share of buys and at least minus the share of sells, and any move of
the set between the two may happen. A floating-point product that lands just
below an integer and is truncated one lower is abstracted away. The matching
loop is modelled step by step: `SkipBuyer`, `SkipSeller`, `Trade`,
`BuyNatural`, and the three ways in which it ends (`LoopEnds`). An injected
`policy_registry` may propose anything, also unsupported actions
(`CustomPolicy`); otherwise `Heuristic` applies.

**Runs.**
`market_any`: four participants, all 4^4 mixes of buy, sell, hold and ignored,
capital that always pays for a unit and capital that does unless the price rises, holdings of none and of two, a
segment whose natural supply is one. Two buyers against two sellers with one unable on each
side is the smallest case in which a wrong skip differs from a right one; four
participants include it in every order. `market_heuristic`: every role that
trades, sentiments on both sides of the thresholds 300, 500 and 600, all
trends, moves at and around the trend threshold, three rounds.

Two things one might expect are *not* true of the code, and not stated: a round without trades is
not a fixed point (its trend becomes flat, and buyers who would not buy in a
downturn could buy in the next round; the gate prevents that round), and the
sum of the participants' money is not constant: what is paid for natural
supply leaves the market (`Conserved` says how much).

### SnapshotStore

| State | Code |
|---|---|
| `dir`, `table`, `created` | the directory, `gold_district_monthly_metrics.jsonl`, and `manifest.json` (its `created_at`) of each content |
| `process[p]` | where a CLI invocation or the web application is in `publish_snapshot` or `resolve_snapshot` |
| `clock` | the wall clock, which may be set back |

A snapshot's id is a SHA-256 of its content, taken as injective: content, id
and directory are one. Each file is written to a temporary name of its own and
moved into place, one step. A step boundary lies wherever another process can
look: exists, mkdir, table, date, manifest; listing, each candidate of
`latest`, the table. `Crash` is a kill or a failing file operation; nothing is
cleaned up, as in the code. Files that somebody edits by hand are not
modelled, so the integrity checks of `_load_manifest` never fail here.

**Runs.** `snapshot_safety`: two contents, so that `latest` has to choose, three
processes (two publishers of one snapshot and a reader or a second content),
three clock values, one crash. `snapshot_republish` shows the finding below.
There is no liveness: nothing waits.

### Transforms and LiveIngest

| State | Code |
|---|---|
| `request` | the options of `ingest_command` (`cli.py`) |
| `plan` | the fetches `run_live_ingest_gus_months` still has to make |
| `stage`, `attempt` | where the fetch under way is in `retry`, then where `run_pipeline` is |
| `sinceLast` | `time.monotonic() - _last_call` of the `RateLimiter` |
| `tables`, `gold` | Bronze rows, then Silver rows; Gold rows |
| `sinceCall`, `answers`, `failures` | histories: when any service was called last, what was answered, what was given up |

`Transforms` treats a text as what the parsers tell apart: an int, a decimal,
an int with commas, a float as pandas reads a column with a missing cell,
`NaN`, blank. So a district code that arrives as `11110.0`, an amount that
arrives as `3.0` and is lost, a cancelled deal, the 31st of a short month and a district
outside Seoul are different inputs with different ways through the code.
Roundings (`HalfUp`, `HalfEven`, `Truncate`) are on integers; changes are kept
as the pair whose quotient they are.

Time is counted from events in ticks of half a second, up to the limiter's
interval, as nothing depends on more. The limiter sleeps until the interval is
over, then notes the time; a call takes up to `MaxCall`; back-off with up to
half its delay as jitter passes before the next wait.

`LiveIngestAssumption` lets the options be anything that the parsers return;
`ResponsesAssumption` says that a service answers with a finite list of rows,
and MOLIT with one frame: all its rows have the columns of `COLUMN_MAP`, with
cells of any kind in them, or none has them all. The k-th smallest price is the
one with less than k below it and k or more up to it (`Ranked`), the median the
one in the middle or the mean of two.

**Run `ingest`.** Ten option sets: live with a month-on-month step over a new
year, a year-on-year step, a repeated month (refused), two districts, missing
months (refused); fixture plain, with repeated districts and a month 13, with
a district outside Seoul, with exclusive options, with an empty list. Each MOLIT call may be
answered in six ways, each KOSIS call in four, and every call may fail for
good or for now, three attempts per fetch. `GoldSummarisesSales` recomputes
from the cells the service sent, independently of the transforms, which rows
are sales, and wants each counted once in the row of its district and month,
nothing else counted, and prices in order; `TrendsAreAdjacent` compares months by their index, not by the
string arithmetic of `_prev_month`. `StepsRunOut` counts down: each step of an
ingest uses up one of the steps that its plan and the attempts of each fetch
leave it. `ingest_raises` shows the finding below.

**Fairness.** `WF_vars(Next)`: one thread that does not stop. Calls end because
`client.list` has a timeout or raises, which is taken from its use here.

### Planning, Replay and SimulationGraph

| State | Code |
|---|---|
| `build`, `seed`, `run` | arguments of `build_simulation_graph`, the seeded state, the number of the `invoke` |
| `node` | the node LangGraph runs next, `"end"` or `"raised"` |
| `plan`, `scenario`, `roster`, `max_rounds` | `intake_plan`, `scenario`, `participant_roster`, `max_rounds` |
| `world`, `participants`, `round_no`, `actions`, `outcome` | `world`, `participants`, `round_no`, `market_actions`, `last_outcome` |
| `warnings`, `claims` | the two lists whose reducers append |
| `log` | the events of the run in the in-memory store |
| `evidence` | the evidence store of the graph |

One action per node, with its stub as a disjunct or a raise. The routers are
evaluated where LangGraph does, after the world and after a round. A segment is
its first state and the round that last moved it, a round is whether it
trades: what happens to prices and books is `Market`. What the heuristic
policies read of a segment, its trend and the bands of its sentiment, may be
anything in every round (`Segments`), and which participants have the capital
or the holdings their role is asked for is chosen too (`Able`): participants of
one role need not agree, and investors buy and sell besides buyers and
landlords. The model answers with
any plan or selection of a set, or not at all (`GenerateStructured`).
`Planning` clamps, defaults and resolves them as the code does, with their
warnings in order; `Replay` folds its handlers over events whose payloads are
records with the keys the nodes put there. Sorting is `Ascending`, filtering
`Within`; the sections of the report are sets of claims, as nothing depends on
their order. With a snapshot but no
model the limit of rounds is not defaulted (`default_max_rounds` is only read
by the stub of the world initializer): the routers then use 3
(`RoutedLimit`).

`SimulationGraphAssumption` lets the model answer with anything of the shape
of its schema. A roster it selects may even violate the schema, as
`StructuredLLM` is a protocol and the builder sanitizes what it gets.
`SeedsAssumption` says what callers seed: rows, scenario, roster and limit of
their schemas, and at least one district, because `_parse_gus_csv` refuses an
empty list. Districts may repeat, scenario and snapshot need not fit together,
and a limit may be zero.

**Run `simulation`.** All four builds, two invocations of each graph, seeds
with and without a snapshot, a scenario and a limit; a snapshot with a district that lacks the newest month, with
a baseline and without one; a roster without a buyer, in which two investors
buy or not; plans of 1, 6 and 30 months, with hints that name
districts, one that is not there, or nothing; selections with an alias, a
repeated and an unsupported shock, an unknown role, a role in two buckets,
crossed ranges, or nothing. `ReplayAgrees` is checked after every node, so for
every prefix of a log. Of up to three participants
any may be able, of more all are (`MCAble`): every
choice of a round stays in the log, and a model may plan eight
rounds. `NodesRunOut` counts the nodes an invocation has left:
nine, and two for each round of the limit that the planner may set, the caller
seeded or the world node fills in. `simulation_runs` shows the finding below.

### EventLog

| State | Code |
|---|---|
| `lock` | `FileEventStore._lock` |
| `path`, `files` | the file that `{run_id}.jsonl` names, and what every file ever made holds, also an unlinked one that somebody has open |
| `pending[w]` | the event a writer is appending |
| `reader[r]` | where a reader is in `get_events` or `count`, which file it has open, how far `count` has read and which pieces ended a line for it |
| `begun`, `appended`, `expected`, `grown` | histories: what was written in part, what was appended since the last clear, what a reader has to find, which lines went on while it read |

A line longer than the buffers reaches the file in two pieces. Readers take no
lock. A kill loses what was not written and keeps the file. `write` or `close`
may fail, after none, a part or all of what was left of the line reached the
file (`AppendFails`); so may `open` (`OpenFails`). Both release the lock. A torn line, of a kill or of
a failing disk, is continued by the next append, and the log does not parse from
then on (`get_events` raises; `ReadsComplete` says that it never returns less
instead). `DamageBounded` counts the lines that do not parse: a kill or a
failure costs one at the most, and concurrent appends and clears none.

`get_events` is one step: it reads to the end of the file, and a line it meets
half written raises, whatever is written after it. `count` is one step per line
(`CountLine`), because a half-written line raises nothing there: its part is a
line of its own at the end of the file, and its rest is another one if it is
written before `count` reads again. `CountsBetween` allows for those (`grown`).
A piece that was cut inside a character may not decode (`CutShort`). Two
things are left out: a cut that
spares a whole line but for its line feed, which is an event for whoever reads
it next, and errors of the reader's own file.

**Run `event_log`.** Two writers, three events of which two are long and two
share a timestamp, one of them made before an earlier append; one reader,
one clear, one kill, one fault. There is no liveness: a read ends by itself, and a writer
waits for nobody but the holder of the lock.

## What the runs show

| Run | Expect | Properties |
|---|---|---|
| `run_store_safety` | pass | `TypeOK`, `CapacityRespected`, `ReportOnlyForCompleted`, `CompletedHasReport`, `LeakBounded`, `ExecutedOnce`, `PageNotContradicted`, `FinalStays`, `ImplementsLifecycle` |
| `run_store_live` | pass | `EveryRunEnds`, `PolledPageSettles` |
| `run_store_persisted` | violation | `CompletedIsPersisted` |
| `market_any` | pass | `TypeOK`, `LoopIsMaximal`, `DeltasExplainRound`, `Conserved` |
| `market_heuristic` | pass | `NeverCrossed`, `DownturnIsLast`, `NobodySells` |
| `snapshot_safety` | pass | `TypeOK`, `ManifestIsLast`, `ReferencesAgree`, `LatestIsFresh`, `OnlyCrashesStrand`, `Immutable` |
| `snapshot_republish` | violation | `RepublishSucceeds` |
| `ingest` | pass | `TypeOK`, `CallsSpaced`, `GoldSummarisesSales`, `TrendsAreAdjacent`, `StepsRunOut`, `IngestEnds` |
| `ingest_raises` | violation | `UnrecoverableRaises` |
| `simulation` | pass | `TypeOK`, `ReplayAgrees`, `PlanServable`, `GateAcceptsWriter`, `StopReasonTrue`, `NodesRunOut` |
| `simulation_runs` | violation | `RunsIndependent` |
| `event_log` | pass | `TypeOK`, `ReadsComplete`, `CountsBetween`, `DamageBounded` |

To repeat one: `tlc -config SnapshotSafety.cfg MCSnapshotStore.tla`.

Worth knowing from the runs that pass:

- Under the default policies buyers and sellers never meet (`NeverCrossed`):
  buying wants sentiment above 500 and no downturn, selling wants a downturn
  or sentiment below 300. So nobody ever sells (`NobodySells`), every purchase
  is from natural supply, and a downturn is always the end
  (`DownturnIsLast`).
- A slot of the cap can be lost until the next restart, but each lost slot
  costs a failing disk; a graceful stop loses none (`LeakBounded`).
- Only a crash can leave a snapshot directory that nobody will complete
  (`OnlyCrashesStrand`); it makes those rows unpublishable until somebody
  removes the directory.
- The citation gate fails no claim the writer of the same graph makes, not
  even with another run's evidence beside it (`GateAcceptsWriter`): its verdict, which never
  reaches the renderer, would not have changed a report.
- A replay agrees with the graph after every node of a run planned by a model
  over a snapshot. A log written by the planning stubs does not
  replay, and no log replays strictly once the report is written
  (`ReplayAgrees` states both).
- A read of the log without the lock never misses an event that was appended
  when it began, though it may raise while a long line is being written, after
  a kill or a failed append, or when a clear comes between `exists()` and `open()`.
- `count` may return more than the number of events, which its docstring
  promises (`event_store.py:141`): a long line that is finished while it reads
  counts twice (`CountsBetween` bounds how many do). Only tests call it.
- Retries keep the distance of the rate limiter, and a fetch that is given up
  stops no other one.

### Findings

- **A completed run may never get its report.** `update_status` replaces
  `meta.json` before it writes `report.md` (`run_store.py:78-81`), and
  `reconcile_stale_runs` looks at pending and running runs only. A kill
  between the two leaves a run that is still completed and without a report when
  the server has started again, reconciled and serves
  (`run_store_persisted`). `tests/unit/test_run_store.py:110-113` and
  `docs/web-ui.md:21` state both as persisted.
- **The loser of a publishing race may raise.** A publisher that finds the
  directory reads `manifest.json`, which the winner writes last
  (`snapshot.py:107-123`, `142`): it raises `FileNotFoundError`
  (`snapshot_republish`). `tests/unit/test_snapshot.py:158-176` expects the
  winner's reference.
- **A failed fetch is a successful ingest.** A connector whose call fails for
  good returns no records and a manifest with status "failed"
  (`connectors/molit.py:179-193`) that nobody reads; `ingest` prints
  "success". `CORE/connectors/protocol.py:46-47` says that it raises
  (`ingest_raises`).
- **Runs of one graph share their evidence.** `build_simulation_graph` makes
  one evidence store (`graph.py:79`) whose look-ups know nothing of runs, so
  claims of a second run cite the first one's records (`simulation_runs`).
  `tests/unit/test_graph.py:302` calls such runs independent. The command
  line and the web application build a graph per run.

## What is proved

`tlapm <module>.tla` checks the proofs of a module; from nothing, each takes
between half a minute and four minutes. They hold for every value of the constants that
satisfies the named `ASSUME`s of the modules, which TLC evaluates on every run.
Every safety property of every passing run is a theorem, the refinement of
`RunLifecycle` included.

**RunStoreProofs** (`RunStoreAssumption`: finitely many runs; any workers, cap, bounds).
`TypeCorrect`, `CapacityHolds`, `ReportsOfCompletedRuns`, `FinalIsFinal`,
`Refinement`. The invariant `IInv` adds to `TypeOK` who is in the lock
(`Held`), when a thread may be busy (`Serving`), what a thread in the lock
relies on (`Calls`: the transition it checked is still valid at the write),
and that an admitted creation still has room (`Room`). Without `Calls` the
check and the write of a transition would be two unrelated steps and
`FinalStays` would not follow; `Room` needs that the event loop alone creates
runs, while everybody else can only make room.
`RunsExecutedOnce`, `PagesStayTrue`, `ReportsFollow` and `LeaksCostFaults`
follow a run from the handler that accepted it through the executor's queue to
one worker. Their invariant `OInv` adds what each thread may be asked to do
(`Errands`), that whatever is queued or worked on was written to disk before
(`Known`), that nobody shares a run (`Once`) and that a run is new to the
executor when it is submitted (`Fresh`). `Once` alone is not inductive: it is
`Fresh` that keeps a submission from doubling what is already queued.

**MarketProofs** (`MarketAssumption`). `MarketTypeCorrect`: under any policy
capital, holdings, price and volume stay above their floors at every step of
the loop. `PoliciesNeverCross`, `NobodyEverSells` and `DownturnEndsMarket`
assume `CustomPolicy = FALSE`; their invariant says that buys and sells were
decided on one and the same segment, that the book only takes from capital and
adds to holdings, and that a price move below zero needs a sell.

**MarketRoundProofs**, under any policy: `DeltasAlwaysExplain`,
`LoopAlwaysMaximal`, `AlwaysConserved`. The loop invariant (`Loop`) is that the
participants taken off either list come before all that are left, that of those
taken off exactly the able and willing have traded, and that the number of
matches counts them. The end of the loop then has as many trades as the
declarative definition, which ranks participants and knows nothing of two
cursors. Sums over all participants are handled by induction over sets of
numbers (`NatInductive`, a first-order consequence of the library's
well-founded induction): a step of the book changes a sum by what it changes
at one participant.

**SnapshotProofs** (`SnapshotStoreAssumption`). `SnapshotTypeCorrect`,
`ManifestPromisesTable`, `OneReference`, `LatestIsNotStale`,
`PublishedForEver`, `CrashesStrand`. `IInv` says who owns a directory: between its mkdir and
its manifest exactly one process fills it (`Owned`, `Exclusive`), and whoever
has read a manifest knows a date that never changes (`Known`). For `latest`,
`Looking` says of each snapshot there was at the start that it is either no
newer than the best candidate or still to be looked at. `CrashesStrand` counts
the directories without a manifest that no process fills: a step adds one only
by being a crash.

**EventLogProofs** (`EventLogAssumption`; any writers, readers, events, clears,
kills, faults). `LogTypeCorrect`, `ReadsAreComplete`, `CountsAreBounded`,
`DamageIsBounded`. The invariant says where the pieces of each event are:
in one place at most (`Unique`), a tail right behind its head (`Tails`), those
of an event being appended at the end of the named file (`Appending`), those of
an appended event in the named file (`Kept`); and that a reader with something
to find has the named file open until a clear takes its name (`Unmoved`). For
`count`, `Lined` says which pieces it has taken for lines: of every event at
most one, and a second only if its line went on meanwhile, so that two
injections bound the number of lines. For the damage, `Blamed` says that the
lines stranded by somebody who does not hold the lock are no more than kills
and faults; a line that does not parse ends with a stranded piece or right
after one.

**LiveIngestProofs** (`LiveIngestAssumption`, `ResponsesAssumption`).
`CallsAlwaysSpaced`: the limiter's own clock is never ahead of the time since
the last call (`Clock`), so that its sleep is long enough, for retries too.
`IngestTypeCorrect`: the plan names no fetch twice (`Planned`), and answers,
failures and what is left of the plan always add up to it (`Kept`).
`TrendsCompareAdjacent`: what one step of the pipeline hands on is what the
next one needs (`Prepared`: sequences of rows, months that are months), and the
arithmetic of `_prev_month` and `_prev_year` agrees with the index of a month.
`GoldCountsSales` compares Gold with the cells the services sent. Its invariant
(`Booked`) says of every stage that the rows of any district and month in
`tables` are as many as the sales in the answers: Bronze rows that will be
counted while fetching (`Selling`), Silver rows that are counted after it
(`InRows`). It rests on three groups of lemmas: what becomes of one row
(`CellParsed`, `DateOf`, `BronzeDeal`: a row makes a deal of a district and
month exactly when its cells say that it is a sale of it); that lists lose and
repeat nothing (`DealsMapped`, `DealsNormalized`, `DealsGrouped`, over the
lemmas on `Hits` of `SequenceFacts`; `SalesAdded` needs that no fetch is
answered twice); and that average and median lie between the extremes
(`TotalBetween` by induction over the recursive sum, `RankedFound`: a sequence
has a k-th smallest element).
`IngestRunsOut` is about steps and not about states: `StepsLeft`, a number that
the plan, the attempt under way and the stage determine, decreases with every
step and is never negative. It is the half of `IngestEnds` that needs no
fairness; what is left to TLC is that some step is possible until the ingest is
over, and is taken.

**SimulationGraphProofs** (`SimulationGraphAssumption`, `SeedsAssumption`; any
builds, seeds, answers, numbers of invocations). `TypesCorrect`,
`StopReasonsTrue`, `GateAccepts`, `PlansServable`, `ReplaysAgree`,
`GraphRunsOut`. Six invariants, each preserved by every node with the help of
those before it:

- `Loop`: types; what each node may count on; that the log has as many rounds
  as the state says and no more than the limit; and which rounds of the log
  traded nothing, none while the loop goes on and at most the last one after
  it. Without the last part the evidence builder's reason, which reads only the
  last outcome, would say nothing about the rounds before.
- `Evidenced`: the evidence of this run is there once the builder ran and not
  before, whatever earlier runs of the graph have left.
- `Gated`: every claim cites a record of its subject and round, so that the
  gate fails none and the renderer blocks none. The number of claims is counted
  through `FlattenSeq`.
- `Prepared`: what the log holds when (`Ordered`), and that the plan can be
  simulated (`Servable`): the districts resolved from a hint are districts of
  the rows, the scenario starts after the newest of them, shocks are distinct
  and supported, and the rounds are within 1..8. It rests on lemmas about each
  of the builder's helpers, for every answer of the model.
- `Mirrored`: the log replays to the state of the graph, or raises. It rests on
  one lemma per handler, on `ReplayedMore` (one event more is one step more of
  the fold) and, for the number of participants, on `ParticipantsBuilt`: the
  numbering of the buckets gives every participant an id of its own.
- `Limits`: past planning only a graph with a snapshot reader leaves the limit
  of rounds to the routers. With it `Left` says what `NodesLeft` comes to at
  each node, and `GraphRunsOut` that every node makes it less: a scenario may
  set a limit, but none above the eight rounds counted on until then, the world
  node does not change the limit the routers will use, and each round takes two
  nodes. So an invocation planned by the model runs at most 25 nodes, one that
  the command line limits to ten rounds (`validate_max_rounds`) at most 29.

**SequenceFacts** holds the lemmas that several of these need: induction over a
set of numbers, sequences without repetitions, `FlattenSeq`, how often a
sequence hits a set.

**Only model-checked:** liveness under fairness, which the prover cannot
treat (`EveryRunEnds`, `PolledPageSettles`, `IngestEnds`). Nothing is claimed of
the interest rate, migration and price per pyeong in Gold rows, which are
computed with `SelectSeq` and division, besides that they do not disturb the
rest.

## What is not modelled

- **Shadow runner and abdp adapters.** The loop is `ScenarioRunner` of the
  optional package `abdp`, whose code is not in the repository; the policies
  and the resolver it calls are those of `Market`. The audit starts from the
  *final* state of the simulation (`cli.py:791-792`).
- **LangGraph itself.** Nodes run one at a time in the order of the edges; its
  recursion limit depends on its version and is not modelled; `NodesRunOut`
  bounds what it counts.
- **Clocks that go back** between two events of a run. `EventLog` has
  timestamps in any order; `SimulationGraph` assumes that they follow the
  nodes.
- **Manifests and hashes of fetches**, which the program never reads back;
  request metrics, tracing, templates, schemas and Markdown, which no
  decision reads.
- **Several segments in one round**, which the decider never asks for.
- **eval, report and serve** of the command line: a subprocess, a print, a
  server. Its plain `write_text` of Gold rows is not atomic and is taken as one
  step.

## Plan

The parts of the system that this directory can hold to the code are modelled,
and its safety properties are proved. What is left:

1. The rate and the net migration of a Gold row: that they are those of its
   month, over `SelectSeq`, of which the prover knows no facts.
2. A measure like `StepsLeft` and `NodesLeft` for the run store, where each
   run, not the whole of the service, has a number of steps left.
3. The arithmetic of `price_per_pyeong_avg` and of the areas, with their roundings.
