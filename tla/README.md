# ObsBench: specifications, model checking and proofs

`obs-bench` measures what observability stacks cost. For each experiment of a batch it
reinstalls a central Prometheus, reinstalls the stack under test (Prometheus,
VictoriaMetrics, Loki or OpenSearch), loads it for hours, reads its consumption from the
central Prometheus and saves one row in SQLite. `obs-advisor` estimates capacity and cost
from the rows. What can go wrong is rarely in one function: an experiment inherits the
cluster an earlier one left, calls fail half done, a signal comes in the middle, the
process dies and is started again. A wrong row looks like a right one. This directory
holds the TLA+ project kept beside the code: modules, TLC runs and TLAPS proofs.

## Inventory

| Component (under `src/`) | State | Operations | Hard because |
|---|---|---|---|
| `obs-bench/internal/commands` | index, two counters, exit code | `run-batch`, `run-experiment` | goes on after failures and after a signal |
| `…/usecases/experiment` | stage of `RunExperiment` | seven steps, first error ends it | order of the stages; the row is saved last |
| `…/services/monitoring`, `prometheus`, `victoria-metrics`, `loki`, `opensearch`, `experimentstack` | none of their own | one sequence of provider calls each | every create is a plain create, so all rests on the clean-up before it |
| `…/services/experimentworkload`, `metrics-provider`, `log-provider`, `load-generator` | timer, ticker, tunnel | start the load, query it every second, stop the producer | deferred calls, transient errors, context |
| `…/providers/kubernetes` | the cluster | create and delete, `DeleteNamespace`, `PortForwardService` | waits, select races, finalizers, a goroutine |
| `…/providers/helm` | releases | `Up`, `TryUninstall` | half-installed releases; one takes the context, the other does not |
| `…/providers/docker`, `docker-registry` | images | build, push | only that they fail |
| `…/providers/resources-usage-info-storage` | the table | migrate, `Save` | crash, concurrent migrations |
| `…/services/resources-usage-info-collector`, `pkg/resourcepromql`, `pkg/promquery` | none | retry until all four figures are there | the window it measures moves; four queries make one row |
| `obs-bench/images/log-load-generator` | second, lines sent | send in batches, sleep | late and lost answers, documents refused in a 200 |
| `obs-bench/images/disk-usage-metrics-exporter` | the published size | read the volume, expose | zeros after a failure, three periods without a common phase |
| `obs-bench/images/metrics-provider` | gauges | change, expose | a data race on random values |
| `obs-bench/cmd`, `internal/app`, `internal/config` | runCtx | start, signal, exit | a done context reaches every call |
| `obs-advisor/server/capacitymodel` | none (reads the table) | estimate, validate | segments, medians and clamps at their edges; rows that are saved meanwhile |
| `obs-advisor/server`, pages | none | serve, report | – |
| `infra`, `data`, `docs` | – | – | not code of the program |

The process is sequential: concurrency comes from the cluster (ingestion, the namespace
controller, pods), from the tunnel's goroutine, from signals, and from process deaths with
a restart. Components interact through calls that return an error; through the cluster,
which survives the process; and through the context of `main.go:17`.

## Modules

| Module | Models | State |
|---|---|---|
| `Stacks` | what each service asks of the cluster: sequences of calls in the order of the code | – |
| `Cluster` | releases, namespaces, objects, webhooks and roles, load; the effect of each call, what remains of one that failed, what refuses one | `release ns objects scoped exporter producer ingested` |
| `Experiment` | batch loop, `RunExperiment`, row, signal, crash, restart | `proc exitCode ctx next succeeded failed stage todo err attempt rows` |
| `Ledger` | abstract: what a batch promises of table, counters and exit code | `table pos recorded ok bad live up code` |
| `NamespaceDeletion` | `DeleteNamespace`, `RecreateNamespace`, forced finalization, namespace controller | `pc now tick strip phase marked content held …` |
| `PortForward` | `PortForwardService`, its goroutine, its channels | `call stopCh closes readyCh errCh fwd …` |
| `QueryLoad` | `runQueryLoad`, `waitForQueryAPI` on top of `PortForward` | `pc t served skipped apiReady …` |
| `Storage` | the SQLite file: migration statement by statement, `Save`, several processes, SQLite's locks | `db draft reserved shared pc` |
| `ResultTable` | abstract: an append-only table | `results` |
| `LogLoadGenerator` | `main` of the log producer: the seconds, batches, errors and sleeps | `pc clock deadline sent stored counted failed slowest …` |
| `Measurement` | the disk exporter, the scrapes of it, the disk query, the rounds of `Collect` | `clock usage snap sample steps pc asked disk …` |
| `CapacityModel` | estimates and holdout of `obs-advisor` as functions of a growing table | `table` |
| `MC*` | batches and sets for TLC | – |
| `*Proofs` | theorems | – |

`Experiment` extends `Cluster`, which extends `Stacks`; it refines `Ledger` under the mapping
at its end. `QueryLoad` extends `PortForward`. `NamespaceDeletion` and `QueryLoad` look into
two calls that are one step in `Experiment`. What these modules show them to return is what the
step may do there: `DeleteNamespace` gone (`CallReturns`), nil with a claim left because a strip of
finalizers failed (`StripFails`), finalized by a signal with content left, with nil or with an
error (`SignalInDeletion`), an error with the namespace still terminating (`Remains`); the read load
done, failed, or waiting for a pod (`WaitsForPod`). `Storage`
is about the file below `Save`: there an insert is one of many processes', in `Experiment`
it is the append of a row. It refines `ResultTable`, reading an old table through what the
migration makes of it. `LogLoadGenerator` looks into the producer that `Cluster` has as an
object that serves its load, `Measurement` into the figures that `Experiment` has as one call
between the end of the load and `Save`. `CapacityModel` reads the rows that `Experiment` saves.

### How state and actions correspond to the code

A service returns at its first failing call, so it is a sequence (`MonitoringCalls`,
`VictoriaMetricsCalls` …) and `todo` is what is left of it. `CallReturns` is a call that
returns nil; `CallRefused`, `CallCancelled` and `CallFails` are the three ways to an error:
the cluster refuses (`Blocked`), the context is done, or something else fails. The last two
may leave a partial effect (`Remains`): a release recorded as failed or completed later by
Helm's goroutine, a namespace in deletion, an object that exists although its creation
reported an error. `ListFails` is the list error that
`DeleteVMServiceScrape` passes over; `StripFails` and `SignalInDeletion` are the two ways in which a
namespace is finalized over its content. `GiveUp` ends the stage; the deletion of the producer
that `runLogExperiment` defers is the one call still made after an error (`Deferred`).
`NextStage` moves on when the service returned nil. `SkipInvalid`, `StartExperiment`,
`ExperimentFails`, `ExperimentSucceeds` and `Exit` are the loop of `run-batch`.

A row records the entry it claims and, as history, what it was measured on: the two releases
and the loads the data volume holds. `hit`, `leaked`, `orphaned` and `signalledAt` are
history too: no action reads them.

In `Storage` each process is at a statement of `NewResourcesUsageInfoStorageProvider` (`pc`), from
`CreateTable` over `ListColumns` to `Commit`; `StartFails` is its error return with the deferred
rollback and `db.Close`. `db` is what is committed and `draft` what the one writing
transaction has changed. `excused` is history.

In `LogLoadGenerator` an action is one turn of a loop of `main`; a second has `Second` ticks, an
answer takes any number of them up to the timeout of the client, and a batch whose answer is
an error may have been stored in part. `stored`, `counted`, `failed` and `slowest` are history.

In `Measurement` there are three actors that nobody synchronises: `CollectOnce` and
`CollectFails` are `collectOnce` of the exporter, `Scrape` the central Prometheus, and the process goes
from the load (`pc = "load"`) over what it does before `Collect` has its tunnel (`"close"`) to the
queries (`DiskQuery`, then three times `NextQuery`; `QueryFails` begins the round anew). `steps` holds
what `max_over_time` can look at: the sample that was there at each multiple of the step.
`held`, `sustained` and `last` are history of the volume that the properties compare with.

In `CapacityModel` the only action is `Save`: a request has no effect, so the properties quantify
over the requests in each state of the table. What the code filters out of its slices, the model leaves out of a
function from row numbers, so that the other rows keep theirs. `Interpolate`, `DeduplicateByLoad`, `Median`,
`AlphaByRetention`, `RowsForResourceModel`, `EstimateResource`, `Holdout` are the functions of the same
names.

Abstractions: a release is named by its namespace; chart values are left out but for the
retention; a manifest is the name of its object; a load is the value of its entry;
building an image is a call without effect; the list-and-delete of webhooks, roles and
custom resources is one step, whose interruption is a failure before it; the pods of a namespace are
one kind, of which some may still run or none (`podRuns`).

Assumptions about what is outside `src/`: a namespace whose deletion ends with nil takes its release
record and data volume with it. What may outlive it all the same: finalized custom resources; claims
whose finalizers a failed strip has left, which are in deletion, so that no pod can mount their
volume and an installation that meets one is refused (`Blocked`), until they go (`ClaimGone`); in
`NamespaceDeletion` also a pod in a long termination grace period or on a dead node (`PodStops`), which in
`Experiment` is taken to serve and send nothing any more (its service is gone, and the producer and the
exporters do not survive a SIGTERM that reaches them). The namespace controller begins to delete the content within the two minutes of
`ForceAfter`, and the calls of a forced finalization under the background context are answered. A
validating webhook of the VictoriaMetrics operator whose operator is gone refuses
uninstallation and creation (`Blocked`); Helm refuses a name in use and objects owned by
another release; `ForwardPorts` returns once `stopCh` is closed; after a signal the start of
the fx application may itself report the context's error (`Exit`). SQLite: transactions are
deferred, one writer at a time, no commit while another connection reads within a
transaction, DDL is transactional, a dead process is rolled back; who finds a lock taken
waits or fails (drivers differ). The central Prometheus: an instant query sees the last sample; a
failed scrape ends the series until the next one; a subquery looks at the multiples of its
step. An OpenSearch that answers a bulk request with 200 may have refused any of its documents.

## Runs

| Run | Bounds | Shows |
|---|---|---|
| `experiment_metrics` | 5 entries, 2 faults, signal | `RowFaithful`, `OneGeneration`, `FailureIsolation`, `ExitTellsRows`, `TypeOK` |
| `experiment_logs` | 2 entries, 1 fault, 1 restart, signal | `LogRowsPure`, `LoadStopped`, `NothingNewAfterSignal`, `LedgerSpec`, `BatchEnds` |
| `experiment_rerun` | 1 entry, 3 faults, 2 restarts | `RowFaithful`, `FailureIsolation` |
| `experiment_pureload` | 2 entries, no fault | violates `PureLoad` |
| `namespace_deletion` | minutes 2 and 5, 2 stuck kinds, 2 faults | `NilMeansGone`, `StuckIsResolved`, `OrphansAreKnown`, `Returns`, `TypeOK` |
| `namespace_forced` | same | violates `ForcedOnlyWhenStuck` |
| `query_load` | wait 3, load 4, query 0–2 ticks, 3 faults | `TunnelClosedOnce`, `NilMeansFullLoad`, `SignalEndsLoad`, `NoGoroutineLeak`, `ReturnsIfReady`, `TypeOK` |
| `query_readload` | same, but queries of 0 ticks and 1 fault | violates `ReadLoadKept` |
| `storage` | 2 processes, 4 starts, 2 faults, 4 rows; databases: none, old and empty, old with 2 rows | `TypeOK`, `ReadyIsMigrated`, `CleanStart`, `TableSpec` |
| `log_load_generator` | loads 1, 5, 9 lines; 2 parts, batches of 3; seconds of 4 ticks, answers up to 6; 2 seconds | `TypeOK`, `RateNotExceeded`, `StoredNearSent`, `KeepsUp` |
| `measurement` | 2 sizes; reading every tick, scrape and step every 2; load 8, warm-up 3, `Collect` 2; 1 fault | `SustainedPeakSeen`, `FigureIsRecent`, `WindowClean`, `CollectEnds`, `TypeOK` |
| `capacity_model` | up to 4 of 10 rows: 3 loads, a short period and a day, growth of 4/5, 8/5 and 0, zeros, another stack; 6 loads asked | `EstimateIsReference`, `GrowthIsBounded`, `OnlyNeighboursMatter`, `HoldoutIsForecast` |

Bounds. Two faults suffice for a failure, and a second failure in the experiment that has to
clean up after it; the third of `experiment_rerun` allows one in each of three processes. The log
batch, of which liveness is checked too, has one: a failure, a death or a loss at any point, with a
signal and a restart at any other; its safety properties are proved for every number. The
metrics batch begins and ends with VictoriaMetrics, whose clean-up is longest, and has
Prometheus, OpenSearch and an invalid entry between. `MaxFaults` and `MaxRestarts` bound
nothing but faults and restarts; a refusal by the cluster or by a done context is not a
fault. Minutes stand for the ticks of 200 ms since the code compares times with two and five
minutes only. `WaitMax`, `Duration` and `QueryMax` are as small as still lets a wait expire,
a load lose a tick and a query run over the timer; `query_readload` has one fault, so that the
tunnel that breaks is the only thing that goes wrong. Two processes race for one migration, and
four starts let each of them come again after it failed or died; a third would be one more of
those that find the locks taken. The loads of `log_load_generator` are below, between and above its parts and
caps, where the division cuts, and an answer may outlast its second. The load of `measurement` is
as short as lets a size be held for a reading, a scrape and a step within the window after the
warm-up, and is closed at once; larger windows, a late close, longer periods and more faults are the
matter of the proofs. Figures of
`capacity_model` are multiples of 1/1536, which every division of its rows divides; a period is a
logarithm to base 32, so that powers stay integers; four rows are two loads with two runs each, or three
with a calibration run. No symmetry is used.

`CHECK_DEADLOCK` stays on everywhere: each specification has a `Terminating` step for the
states in which its code has returned, and nothing else may stop.

### What the properties mean

* `RowFaithful`: never is a leftover measured in place of the experiment's own stack.
* `OneGeneration`, `LogRowsPure`: which loads can be in the volume of a measured stack: one's
  own, and for metrics at most the one load served at the moment of installation.
* `FailureIsolation`: no call is refused for what an *earlier* experiment left. This is the
  claim behind all clean-up sequences; dropping any one of them breaks it. It excepts what a signal
  orphans in the middle of a deletion, and the claim that a failed strip leaves, while it is there.
* `LoadStopped`: no producer outlives its experiment unless its deletion failed.
* `NothingNewAfterSignal`: the loop goes on after SIGTERM, and uninstalls, yet installs nothing.
* `ExitTellsRows`, `LedgerSpec`: rows, counters and exit code agree on every path.
* `BatchEnds`: the wait for a ready pod has no timeout (`provider.go:924-941`), so a batch
  ends only if no such wait lasts for ever; after a signal it ends in any case.
* `StuckIsResolved`, `NilMeansGone`: stuck finalizers cost at most five minutes, and nil is not a lie.
* `OrphansAreKnown`: what outlives a namespace is custom resources, which the forced finalization does not
  know, and pods without a finalizer that still run, which it passes over. More is left only if a call
  failed, or if a signal came before the controller had deleted the content.
* `TunnelClosedOnce`, `NoGoroutineLeak`, `ReturnsIfReady`,
  `NilMeansFullLoad`: the tunnel and the load end, once, and nil only after a full load.
* `SignalEndsLoad`: a signal ends the load, and with an error, so that no interrupted load is measured; in
  the last second the timer may win the select.
* `SustainedPeakSeen`, `FigureIsRecent`: the disk figure is a maximum over samples of readings, each
  with a period of its own. It is no less than a size held for the three periods together, a failed
  reading's zero notwithstanding, and no older than the window and two periods. A shorter
  peak may be missed.
* `WindowClean`: a load that is stopped late and a round of queries that is repeated for minutes
  move the window away from the warm-up, never into it; and none of the four figures is older than the last query that failed.
* `CollectEnds`: a volume that was never scraped leaves `Collect` without data until its timeout. The wait for
  its tunnel comes before that timeout begins and is the matter of `ReturnsIfReady`.
* `RateNotExceeded`, `StoredNearSent`, `KeepsUp`: how far the load that a row claims may be from the
  load the stack had. The last one says which answers are fast enough: the division of the load by
  ten cuts the batch, so a load of 19 needs answers within 1/18 of a second, not 1/10; above 5000 lines a
  second the cut at 500 lines counts, and 10000 (`experiments-final.yaml:98-106`) need 1/20.
* `EstimateIsReference`, `GrowthIsBounded`: an answer is the reference's in every order of the rows,
  and an odd measurement bounds its harm. `OnlyNeighboursMatter`: which rows leave which answers alone.
  `HoldoutIsForecast`: the reported error is of a forecast that did not know the row.
* `TableSpec`: no migration loses, doubles or rewrites a row, however it ends and however stale the
  columns it acts on; `ReadyIsMigrated`: an insert finds its columns; `CleanStart`: nothing an
  earlier start has left makes one fail that comes alone. (Two that start at once may both fail:
  each may hold the lock the other needs. The next start succeeds.)

### Disagreements between code and documents

* `PureLoad`: a metric stack is installed while the exporter of the previous metrics
  experiment still runs, and holds its series for the whole experiment
  (`usecase.go:58-64`; `experiments-final.yaml:7-8`).
* `ForcedOnlyWhenStuck`: a signal finalizes a namespace that is not stuck
  (`provider.go:159`; comment at `provider.go:176`). The run has content in the namespace that the
  controller has not begun to delete.
* `ReadLoadKept`: a load whose tunnel breaks once the API has answered ends well without a single answered query
  (`workload.go:113-117`; `docs/methodology.md:70`).

Noticed on the way, and not the matter of a run: `CreateVMServiceScrape` has the load scraped every 30 s
(`provider.go:525`), the Prometheus under test scrapes it every 15 s (`prometheus/service.go:76`), and
`docs/methodology.md:18` fixes 15 s; OpenSearch is installed without a retention, which
`docs/methodology.md:21` fixes at 7 days and the CLI takes as 1, 7 or 30; an explicit `error_budget` of 0 becomes 20 %
(`server/main.go:71`); a measured figure of zero counts as a perfect prediction in the mean
error of the holdout (`model.go:223`).

### Fairness

`Experiment`: weak fairness of the process, except while it waits for a ready pod under a live context
(`WaitsForPod`): that wait has no timeout, and `BatchEnds` states as its hypothesis that none lasts for ever.
Every other wait is under a timeout, or ends with an answer of the API server, of Docker or of a registry,
which are taken to answer. No fairness of the environment. `NamespaceDeletion`: the calling goroutine, the passing of minutes and the first
sweep of the namespace controller; none for `ReleaseFinalizer`, so finalizers may stay for
ever. `QueryLoad`: the two goroutines, and that `ForwardPorts` returns after `stopCh` is closed;
none for pods, the API or the signal, hence the hypothesis of `ReturnsIfReady`. `Measurement`: time, the
readings of the exporter and the scrapes go on (`run` of the exporter and the loop of Prometheus have
no end), and the process takes its steps; no fairness of `DiskQuery` and `NextQuery`, so queries may
fail for ever. `Storage`, `LogLoadGenerator` and `CapacityModel`: none, they have safety
properties only.

## Proofs

TLAPS checks, for every batch, bound and timeout the assumptions of the modules admit:

| Theorem | Statement |
|---|---|
| `ExperimentProofs!TypeCorrect` | `Spec => []TypeOK` |
| `ExperimentProofs!RowsAreFaithful` | `Spec => []RowFaithful` |
| `ExperimentProofs!ExitCodeTellsRows` | `Spec => []ExitTellsRows` |
| `ExperimentProofs!Implements` | `Spec => LedgerSpec` |
| `IsolationProofs!SignalStopsNewWork` | `Spec => []NothingNewAfterSignal` |
| `IsolationProofs!ExperimentsAreIsolated` | `Spec => []FailureIsolation` |
| `IsolationProofs!LoadIsStopped` | `Spec => []LoadStopped` |
| `IsolationProofs!OneGenerationOfLoad` | `Spec => []OneGeneration` |
| `IsolationProofs!LogLoadIsOwn` | `Spec => []LogRowsPure` |
| `NamespaceDeletionProofs!TypeCorrect` | `Spec => []TypeOK` |
| `NamespaceDeletionProofs!NilIsGone` | `Spec => []NilMeansGone` |
| `NamespaceDeletionProofs!NothingElseOutlives` | `Spec => []OrphansAreKnown` |
| `NamespaceDeletionProofs!StuckIsRemoved` | `Spec => []StuckIsResolved`, if `ForceAfter + 2 < Deadline` |
| `QueryLoadProofs!TypeCorrect` | `Spec => []TypeOK` |
| `QueryLoadProofs!StopClosedOnce` | `Spec => []TunnelClosedOnce` |
| `QueryLoadProofs!NilIsFullLoad` | `Spec => []NilMeansFullLoad` |
| `StorageProofs!TypeCorrect` | `Spec => []TypeOK` |
| `StorageProofs!ReadyFindsNewTable` | `Spec => []ReadyIsMigrated` |
| `StorageProofs!StartsAreClean` | `Spec => []CleanStart` |
| `StorageProofs!ImplementsTable` | `Spec => TableSpec` |
| `LogLoadGeneratorProofs!TypeCorrect` | `Spec => []TypeOK` |
| `LogLoadGeneratorProofs!LoadNotExceeded` | `Spec => []RateNotExceeded` |
| `LogLoadGeneratorProofs!StoredStaysNear` | `Spec => []StoredNearSent` |
| `LogLoadGeneratorProofs!ProducerKeepsUp` | `Spec => []KeepsUp` |
| `MeasurementProofs!TypeCorrect` | `Spec => []TypeOK` |
| `MeasurementProofs!WindowIsClean` | `Spec => []WindowClean` |
| `MeasurementProofs!SustainedPeakIsSeen` | `Spec => []SustainedPeakSeen` |
| `MeasurementProofs!FigureIsOfTheWindow` | `Spec => []FigureIsRecent` |
| `CapacityModelProofs!EveryEstimateIsReference` | `Spec => []EstimateIsReference` |
| `CapacityModelProofs!GrowthStaysBounded` | `Spec => []GrowthIsBounded` |
| `CapacityModelProofs!ForeignRowsDoNotMatter` | `Spec => []OnlyNeighboursMatter` |
| `CapacityModelProofs!NoRowPredictsItself` | `Spec => []HoldoutIsForecast` |

* **Types.** Each effect, partial effect and spontaneous step keeps the types of the cluster
  (`EffectType`, `RemainsType`, `ClusterStepType`); `TypeInv` adds `Busy`: an experiment under way has a valid entry.
* **Rows.** `RowFaithful` alone is not inductive: nothing in it says why the release standing at
  the save is the experiment's own. `StackInv` does: of the central release in every stage and
  of the stack from `deploy` on, either the calls left still reinstall what they take away, or
  none of them touches it and it is up, installed by this attempt with its retention (`Stands`).
  That the sequences of `Stacks` are of this form are the lemmas `MonitoringReinstalls`,
  `DeployReinstalls` and `WorkloadTouchesNothing`; that no other call touches a release is
  `EffectKeeps`, `RemainsKeeps`, `ClusterStepKeeps`.
* **Exit code.** `AccountInv` counts the rows of this process: as many as successes, one more
  between `Save` and its count, and while nothing has failed the rows are a copy of the entries.
* **Ledger.** `StepLedger` maps each action: `Save` to `Record`, the two counting steps and
  `Exit`, `Signal`, `Crash`, `Restart` to their counterparts, all calls to a stutter.
* **Signal.** `LateInv`: an experiment begun after the signal stands at the first two calls of
  `UpMonitoring` or has failed there, since the second takes the context.
* **Isolation.** `FailureIsolation` is the hardest: it says of every call that nothing refuses it, and
  what would refuse it was left any number of experiments ago. The facts of the cluster that may
  stand in the way of a call are its *obstacles*: `InTheWay(c)` are those of a call, `Removes` and `Adds`
  what a call does to them, and `NothingInTheWay` shows that a call without obstacles is not refused for a
  leftover. `Passes(todo, Gone)` then says of the calls left: each obstacle of each of them is gone, or is
  removed by a call before it and not brought back in between. `UpMonitoring` and every `Deploy` pass
  whatever they find (`MonitoringPasses`, `DeployPasses`), the later stages pass when the stack is up (`WorkloadPasses`,
  `CollectPasses`); a call that returns hands the property on to the rest, and so do the steps that the cluster
  takes by itself. `LeftInv` is that invariant, with two facts of
  the cluster without which it is not inductive: roles and webhooks come from charts only
  (`ScopedFromCharts`), and a namespace that is absent has no volume and at most custom resources that were
  finalized and a claim in deletion (`AbsentIsEmpty`). A deletion has several ways to nil; `Nil` is what they
  have in common, and the lemmas on it (`NilRemoves`, `NilAdds`, `NilVolume` …) serve them all.
* **Load.** In every sequence a call that starts a producer is followed by queries and by its deletion only
  (`Orderly`). `LoadInv`: a producer that no failure has left has its deletion still among the calls
  left, the deferred one after an error included. Hence `LoadStopped` between experiments.
* **Generations.** `GenerationInv`: once a stack is up, the loads in its volume and those that can still come
  are the experiment's own or the one that was served when it was installed (`Own`). It needs that
  the namespace was absent before, so that the volume began empty. `LogRowsPure` is this with `LoadInv`: for a log
  backend no load was served then, or a failure has left its producer.
* **Storage.** `TableSpec` rests on what the writer has in hand: `DraftInv` says at each statement
  where the migrated rows are, `LockInv` that who writes holds both locks, so that `OthersWait`:
  nobody changes `db` meanwhile. `CleanInv` adds that a start without excuse is the only one
  under way and that its table stays old until it commits, so `NotRefused`.
* **Nil, stopCh.** `NilInv` carries that the namespace is gone across to the creation; `Owner`
  says who may close `stopCh` at each place; `OnClock` and `FullLoad` what the timer shows there.
* **Stuck namespaces.** `StripInv`: once the controller has been through the content, what is left has a
  finalizer or is a pod that runs (`Lasting`), and while no call fails a kind has no finalizer any more when it
  has been stripped; hence `NothingElseOutlives`, at the step that makes the namespace absent and at
  every later one, at which a controller only takes away. `ForceInv` follows the ticks: the first one over `ForceAfter` forces, the next one finds the
  namespace gone. It needs that next tick before the deadline: with `Deadline = ForceAfter + 2` the
  select may take a ticker that is no use any more, and TLC finds the error.
* **Producer.** `OnTime`: whole seconds have passed between the seconds. `ErrorsFit`: each error of a
  second but the last has slept within it. `FullBatches`: while nothing has failed, what was sent is full
  batches, each of which took at most the slowest answer.
* **Measurement.** A size takes its time from the volume into the figure, so `CopiesTell` says of each
  copy what it tells of a size that was held so and so long: the snapshot (`SnapTells`), the sample
  (`SampleTells`), the steps (`StepsTell`), and at the end `SustainedTells`. A tick makes every copy a tick
  older; that a multiple of the step is always met is `MultipleNear`. The maximum exists since a tick
  adds at most one sample (`Topped`). `Timely` orders the queries after the load.

* **Capacity model.** An answer is a function of a sorted list of medians, so the proofs go through
  sorting: `OrderExists` and `SortedProperties` by induction over the number of values. The induction
  theorems of the library take an operator and cannot be used; `NatSetInduction` states induction for a
  *set* of numbers, from the well-foundedness of `<`, and that is enough. `Rank` counts the values that are not
  above the k-th, hence `MedianIsMiddle`. `DeduplicateProperties`: one point for each load, in their order.
  `InterpolateLine`: the search of `interpolate` finds the segment of the two loads around a load, of the first or the last two
  beyond them, and at a measured load the segment before, whose line ends there (`SegmentEnds`). So an
  answer is the reference's (`ReferenceHolds`), and it depends on the medians of two loads
  only, which a row elsewhere leaves as they are (`Elsewhere`). `GrowthHolds` carries one factor from the points through medians
  (`MedianGrows`), lines (`SegmentGrows`) and answers (`InterpolateGrows`). The provers know no
  law of exponentiation: `PowerSum` gets it by counting the subsets of a set of `m + n` numbers (`FS_SUBSET`).
  `NoRowPredictsItself` needs only that the subset without the last row is the subset of the earlier table.

Assumptions are the named `ASSUME`s of the modules: types of the constants, and
`ForceAfter + 1 < Deadline`; `StuckIsRemoved` states its own. `UnitAssumption` of `CapacityModel` says that the
divisions of figures are exact: the code divides floats, the model integers in units of `1/Unit`, and a
division that cuts would be an error of the model. TLC checks it for the rows of the run.

Model-checked only: the liveness properties `BatchEnds`, `Returns`, `SignalEndsLoad`, `NoGoroutineLeak`,
`ReturnsIfReady` and `CollectEnds`, which are out of the prover's reach. Every other property of a passing run
is a theorem.

## Not modelled, and why

Generated manifests and chart values, downloads, image builds, logging: no property depends on
them. `deleteReleasedPVsForNamespace`: depends on a storage class that is not in the
repository. The values of the metrics provider, and the race on them: random, and in no figure of
a row. The values of the cpu and memory queries, and their label selectors. Parameters, shutdown and
pages of `obs-advisor`, and of its model the means of the errors, the error range, the cost and every
figure whose logarithm is not an integer: no finite instance represents them. A row of a load
under a second, whose duration rounds to 0 and which then counts with its retention. The filter on the
workload type, which the instrument determines (`usecase.go:71-75`): a request in which they disagree
finds no rows. `infra`, `data`: not
program code.

## Plan

1. Done: the modules and the proofs above. What is left of the code to model has no state (manifests,
   values, requests, wording) or depends on a cluster that the repository does not describe.
2. Done: every safety property of the passing runs is a theorem. Left are stronger ones: that `NamespaceDeletion` and
   `QueryLoad` implement the steps that `Experiment` has for them, as refinements.
