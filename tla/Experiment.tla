----------------------------- MODULE Experiment -----------------------------
(***************************************************************************)
(* The process obs-bench run-batch: the loop over the entries of the file, *)
(* RunExperiment for each valid entry, the provider calls it makes against *)
(* the cluster, and the row it saves. A run-experiment process is a batch  *)
(* of one entry.                                                           *)
(*                                                                         *)
(* Around it: calls that fail with or without effect, SIGTERM (ctx), the   *)
(* death of the process at any point, and the operator who starts the same *)
(* batch again on whatever the cluster and the database then hold.         *)
(***************************************************************************)
EXTENDS Cluster, Functions

CONSTANTS
  Batch,        \* the experiments of the file
  MaxFaults,    \* bound: calls that fail of their own, and deaths of the process
  MaxRestarts   \* bound: processes after the first one

ASSUME BatchAssumption ==
  Batch \in Seq([instrument : STRING, load : Int, retention : Int, duration : Int])

ASSUME BoundsAssumption == MaxFaults \in Nat /\ MaxRestarts \in Nat

VARIABLES
  proc,       \* running, exited, or dead
  exitCode,   \* of a process that exited
  ctx,        \* runCtx: live, or done after a signal
  next,       \* index of the entry of the current iteration
  succeeded, failed,   \* the counters of the loop
  stage,      \* where RunExperiment is; idle: between two experiments
  todo,       \* calls the service of this stage has left
  err,        \* the stage has met an error
  attempt,    \* number of RunExperiment calls so far, over all processes
  rows,       \* the table: what each row claims, and what it was measured on
  hit,        \* history: a call of this experiment failed and was passed over
  leaked,     \* history: a producer was left that nothing will stop
  orphaned,   \* history: a namespace was finalized on a signal, content and all
  signalledAt,   \* history: attempt at the last signal
  faults, restarts

loopVars == << proc, exitCode, ctx, next, succeeded, failed >>
runVars == << stage, todo, err, attempt, rows >>
historyVars == << hit, leaked, orphaned, signalledAt, faults, restarts >>
vars == << clusterVars, loopVars, runVars, historyVars >>

Stages == {"idle", "monitoring", "deploy", "workload", "collect", "save", "saved"}

Entry == Batch[next]

Valid(e) ==
  /\ e.load > 0
  /\ e.retention \in {1, 7, 30}
  /\ e.duration > 0
  /\ e.instrument \in Instruments

\* A plausible slip: the charts keep a default retention.
RetentionOfDefault(r) == IF r \in {"monitoring", "opensearch"} THEN 0 ELSE 7

\* UpOpenSearchStack takes no notice of the retention it is given.
RetentionOf(r) ==
  IF r \in {"monitoring", "opensearch"} THEN 0 ELSE Entry.retention

\* The row of RunExperiment, and what its figures come from.
Row == [entry |-> Entry, attempt |-> attempt, leaked |-> leaked, orphaned |-> orphaned,
        stack |-> release[Entry.instrument], central |-> release["monitoring"],
        ingested |-> ingested[Entry.instrument]]

-----------------------------------------------------------------------------
(* The loop of run-batch. *)

\* A plausible slip: the first entry is number 0.
ProcessInitFromZero ==
  /\ proc = "running" /\ exitCode = 0 /\ ctx = "live"
  /\ next = 0 /\ succeeded = 0 /\ failed = 0
  /\ stage = "idle" /\ todo = << >> /\ err = FALSE

ProcessInit ==
  /\ proc = "running" /\ exitCode = 0 /\ ctx = "live"
  /\ next = 1 /\ succeeded = 0 /\ failed = 0
  /\ stage = "idle" /\ todo = << >> /\ err = FALSE

Init ==
  /\ ClusterInit /\ ProcessInit
  /\ attempt = 0 /\ rows = << >>
  /\ hit = FALSE /\ leaked = FALSE /\ orphaned = FALSE /\ signalledAt = 0
  /\ faults = 0 /\ restarts = 0

Idle == proc = "running" /\ stage = "idle"

\* A plausible slip: an entry that is skipped is not counted.
SkipInvalidUncounted ==
  /\ Idle /\ next <= Len(Batch)
  /\ ~Valid(Entry)
  /\ next' = next + 1
  /\ UNCHANGED << clusterVars, proc, exitCode, ctx, succeeded, failed, runVars,
                  historyVars >>

SkipInvalid ==
  /\ Idle /\ next <= Len(Batch)
  /\ ~Valid(Entry)
  /\ failed' = failed + 1
  /\ next' = next + 1
  /\ UNCHANGED << clusterVars, proc, exitCode, ctx, succeeded, runVars, historyVars >>

StartExperiment ==
  /\ Idle /\ next <= Len(Batch)
  /\ Valid(Entry)
  /\ stage' = "monitoring" /\ todo' = MonitoringCalls /\ err' = FALSE
  /\ attempt' = attempt + 1
  /\ hit' = FALSE
  /\ UNCHANGED << clusterVars, loopVars, rows, leaked, orphaned, signalledAt, faults,
                  restarts >>

ExperimentFails ==
  /\ proc = "running" /\ stage # "idle"
  /\ err /\ todo = << >>
  /\ stage' = "idle"
  /\ failed' = failed + 1
  /\ next' = next + 1
  /\ UNCHANGED << clusterVars, proc, exitCode, ctx, succeeded, todo, err, attempt,
                  rows, historyVars >>

ExperimentSucceeds ==
  /\ proc = "running" /\ stage = "saved"
  /\ stage' = "idle"
  /\ succeeded' = succeeded + 1
  /\ next' = next + 1
  /\ UNCHANGED << clusterVars, proc, exitCode, ctx, failed, todo, err, attempt,
                  rows, historyVars >>

\* main starts the application under runCtx once the command has returned: after
\* a signal that may be an error of its own.
Exit ==
  /\ Idle /\ next > Len(Batch)
  /\ proc' = "exited"
  /\ exitCode' \in IF failed > 0 \/ Batch = << >> THEN {1}
                   ELSE IF ctx = "done" THEN {0, 1} ELSE {0}
  /\ UNCHANGED << clusterVars, ctx, next, succeeded, failed, runVars, historyVars >>

-----------------------------------------------------------------------------
(* RunExperiment: one call after the other, one stage after the other. *)

\* A call is about to be made.
AtCall == proc = "running" /\ stage # "idle" /\ todo # << >>

\* A plausible slip: the deferred deletion runs under the cancelled context.
IgnoresCtxUninstallOnly(c) == c.op = "uninstall"

\* A plausible slip: the providers make their calls under a context of their own.
IgnoresCtxDetached(c) == c.op # "query"

\* helm list and uninstall take no context; the deferred deletion has its own.
IgnoresCtx(c) == c.op \in {"uninstall", "stopProducer"}

Effects(c) == Effect(c, Entry, attempt, RetentionOf(c.on))

CallReturns ==
  /\ AtCall
  /\ LET c == Head(todo) IN
       /\ ~Blocked(c)
       /\ ctx = "live" \/ IgnoresCtx(c)
       /\ Effects(c)
  /\ todo' = Tail(todo)
  /\ UNCHANGED << loopVars, stage, err, attempt, rows, historyVars >>

\* The calls still made after c has failed: runLogExperiment has deferred one.
Deferred(c) == IF c.op = "query" THEN Tail(todo) ELSE << >>

\* A plausible slip: a call that failed is made again, whatever it failed of.
GiveUpNever(c) ==
  /\ todo' = (IF c.op = "stopProducer" THEN Tail(todo) ELSE todo) /\ err' = err
  /\ UNCHANGED << loopVars, stage, attempt, rows, signalledAt, restarts >>

\* A failed call ends its stage; what the deferred deletion of the producer
\* returns is only logged.
GiveUp(c) ==
  /\ IF c.op = "stopProducer" THEN todo' = Tail(todo) /\ err' = err
                               ELSE todo' = Deferred(c) /\ err' = TRUE
  /\ UNCHANGED << loopVars, stage, attempt, rows, signalledAt, restarts >>

\* DeleteNamespace waits for a namespace to go: module NamespaceDeletion.
InDeletion == AtCall /\ Head(todo).op = "deleteNs" /\ ns[Head(todo).on] # "absent"

\* A producer that exists although its creation, or its deletion, has failed.
Leaks(c) == leaked' = (leaked \/ (/\ c.op \in {"create", "stopProducer"}
                                 /\ producer' # NoProducer))

\* The API server or Helm refuses the call for what it finds in the cluster.
CallRefused ==
  /\ AtCall
  /\ Blocked(Head(todo))
  /\ GiveUp(Head(todo))
  /\ UNCHANGED << clusterVars, hit, leaked, orphaned, faults >>

\* The context is done; the call it interrupts may have had its effect.
CallCancelled ==
  /\ AtCall /\ ctx = "done" /\ ~IgnoresCtx(Head(todo))
  /\ Remains(Head(todo), Entry, attempt, RetentionOf(Head(todo).on))
  /\ GiveUp(Head(todo))
  /\ IF Head(todo).op = "create" THEN Leaks(Head(todo)) ELSE UNCHANGED leaked
  /\ UNCHANGED << hit, orphaned, faults >>

CallFails ==
  /\ AtCall /\ faults < MaxFaults
  /\ Remains(Head(todo), Entry, attempt, RetentionOf(Head(todo).on))
  /\ GiveUp(Head(todo))
  /\ Leaks(Head(todo))
  /\ hit' = TRUE
  /\ faults' = faults + 1
  /\ UNCHANGED orphaned

\* DeleteVMServiceScrape passes over the kinds it cannot list.
ListFails ==
  /\ AtCall /\ Head(todo).op = "scrapes"
  /\ \/ ctx = "done" /\ UNCHANGED faults
     \/ ctx = "live" /\ faults < MaxFaults /\ faults' = faults + 1
  /\ hit' = TRUE
  /\ todo' = Tail(todo)
  /\ UNCHANGED << clusterVars, loopVars, stage, err, attempt, rows, leaked,
                  orphaned, signalledAt, restarts >>

\* A list or patch of the forced finalization fails, which is only logged: the
\* namespace is finalized, and DeleteNamespace returns nil.
StripFails ==
  /\ InDeletion /\ ctx = "live" /\ faults < MaxFaults
  /\ Head(todo).on \in Releases
  /\ NamespaceUnstripped(Head(todo).on)
  /\ todo' = Tail(todo)
  /\ faults' = faults + 1
  /\ UNCHANGED << loopVars, stage, err, attempt, rows, hit, leaked, orphaned,
                  signalledAt, restarts >>

\* A plausible slip: the error of a stage is only logged.
NextStageUnchecked(from, to, calls) ==
  /\ proc = "running" /\ stage = from
  /\ todo = << >>
  /\ stage' = to
  /\ todo' = calls
  /\ err' = FALSE
  /\ UNCHANGED << clusterVars, loopVars, attempt, rows, historyVars >>

\* The service of the stage has returned nil.
NextStage(from, to, calls) ==
  /\ proc = "running" /\ stage = from
  /\ ~err /\ todo = << >>
  /\ stage' = to
  /\ todo' = calls
  /\ UNCHANGED << clusterVars, loopVars, err, attempt, rows, historyVars >>

Deploy == NextStage("monitoring", "deploy", DeployCalls(Entry.instrument))

Run == NextStage("deploy", "workload", WorkloadCalls(Entry.instrument))

Collect == NextStage("workload", "collect", << Call("collect", "monitoring") >>)

StartSave == NextStage("collect", "save", << >>)

\* A plausible slip: the row is inserted under a context of its own.
SaveAnyway ==
  /\ proc = "running" /\ stage = "save" /\ ~err
  /\ rows' = Append(rows, Row)
  /\ stage' = "saved"
  /\ UNCHANGED << clusterVars, loopVars, todo, err, attempt, historyVars >>

Save ==
  /\ proc = "running" /\ stage = "save" /\ ~err /\ ctx = "live"
  /\ rows' = Append(rows, Row)
  /\ stage' = "saved"
  /\ UNCHANGED << clusterVars, loopVars, todo, err, attempt, historyVars >>

SaveFails ==
  /\ proc = "running" /\ stage = "save" /\ ~err
  /\ \/ ctx = "done" /\ UNCHANGED << hit, faults >>
     \/ ctx = "live" /\ faults < MaxFaults /\ faults' = faults + 1 /\ hit' = TRUE
  /\ err' = TRUE
  /\ UNCHANGED << clusterVars, loopVars, stage, todo, attempt, rows, leaked, orphaned,
                  signalledAt, restarts >>

-----------------------------------------------------------------------------
(* Around the process. *)

Signal ==
  /\ proc = "running" /\ ctx = "live"
  /\ ctx' = "done"
  /\ signalledAt' = attempt
  /\ UNCHANGED << clusterVars, proc, exitCode, next, succeeded, failed, runVars, hit,
                  leaked, orphaned, faults, restarts >>

\* The signal comes during the wait of DeleteNamespace, which finalizes the namespace
\* at once. It returns nil when it then finds the namespace gone, the context done or
\* not, so the service goes on to its next call; else an error.
SignalInDeletion ==
  /\ InDeletion /\ ctx = "live"
  /\ NamespaceForced(Head(todo).on)
  /\ ctx' = "done"
  /\ signalledAt' = attempt /\ orphaned' = TRUE
  /\ \/ todo' = Tail(todo) /\ UNCHANGED err
     \/ todo' = << >> /\ err' = TRUE
  /\ UNCHANGED << proc, exitCode, next, succeeded, failed, stage, attempt, rows, hit,
                  leaked, faults, restarts >>

\* The process dies; a call in flight may still take effect.
Crash ==
  /\ proc = "running" /\ faults < MaxFaults
  /\ IF AtCall
       THEN Remains(Head(todo), Entry, attempt, RetentionOf(Head(todo).on))
       ELSE UNCHANGED clusterVars
  /\ leaked' = (leaked \/ producer' # NoProducer)
  /\ proc' = "dead" /\ stage' = "idle" /\ todo' = << >> /\ err' = FALSE
  /\ faults' = faults + 1
  /\ UNCHANGED << exitCode, ctx, next, succeeded, failed, attempt, rows, hit,
                  orphaned, signalledAt, restarts >>

\* The operator runs the batch again.
Restart ==
  /\ proc # "running" /\ restarts < MaxRestarts
  /\ restarts' = restarts + 1
  /\ proc' = "running" /\ exitCode' = 0 /\ ctx' = "live"
  /\ next' = 1 /\ succeeded' = 0 /\ failed' = 0
  /\ UNCHANGED << clusterVars, runVars, hit, leaked, orphaned, signalledAt, faults >>

Environment ==
  /\ ClusterStep
  /\ UNCHANGED << loopVars, runVars, historyVars >>

BenchStep ==
  \/ SkipInvalid \/ StartExperiment \/ ExperimentFails \/ ExperimentSucceeds
  \/ CallReturns \/ CallRefused \/ CallCancelled \/ CallFails \/ ListFails \/ StripFails
  \/ Deploy \/ Run \/ Collect \/ StartSave \/ Save \/ SaveFails
  \/ Exit

\* Nothing is left to do once the process has ended.
Terminating == proc # "running" /\ UNCHANGED vars

Next == \/ BenchStep \/ Signal \/ SignalInDeletion \/ Crash \/ Restart \/ Environment
        \/ Terminating

\* runQueryLoad and Collect first wait for a ready pod, which has no timeout: only a
\* done context is sure to end it (module PortForward).
WaitsForPod == AtCall /\ Head(todo).op \in {"query", "collect"} /\ ctx = "live"

\* The process makes its next step, unless it waits for a pod that never gets ready:
\* every other wait is under a timeout or ends with an answer of the API server, of
\* Docker or of a registry, which are taken to answer.
Spec == Init /\ [][Next]_vars /\ WF_vars(BenchStep /\ ~WaitsForPod)

-----------------------------------------------------------------------------
(* Properties. *)

RowRecord == [entry : Range(Batch), attempt : Nat, leaked : BOOLEAN, orphaned : BOOLEAN,
              stack : ReleaseRecord, central : ReleaseRecord, ingested : SUBSET Nat]

RunTypeOK ==
  /\ proc \in {"running", "exited", "dead"} /\ exitCode \in {0, 1}
  /\ ctx \in {"live", "done"}
  /\ next \in 1..(Len(Batch) + 1) /\ succeeded \in Nat /\ failed \in Nat
  /\ stage \in Stages /\ todo \in Seq(Calls) /\ err \in BOOLEAN
  /\ attempt \in Nat /\ rows \in Seq(RowRecord)
  /\ hit \in BOOLEAN /\ leaked \in BOOLEAN /\ orphaned \in BOOLEAN
  /\ signalledAt \in Nat
  /\ faults \in Nat /\ restarts \in Nat

TypeOK == ClusterTypeOK /\ RunTypeOK

\* A row was measured on the stack its own experiment installed, with the
\* retention it claims, and read from a central Prometheus that the same
\* experiment installed: nothing that an earlier experiment, a failed one or a
\* process that died left behind is ever measured in its place. (OpenSearch
\* ignores the retention: usecase.go:76-79 saves what was asked for.)
RowFaithful ==
  \A k \in 1..Len(rows) : LET row == rows[k] IN
    /\ row.stack.status = "deployed" /\ row.stack.by = row.attempt
    /\ row.central.status = "deployed" /\ row.central.by = row.attempt
    /\ row.entry.instrument # "opensearch" => row.stack.retention = row.entry.retention

\* What a stack has ingested by the time it is measured is the load of its own
\* experiment and at most the one load that was being served when it was
\* installed: its data volume goes with its namespace, and RecreateNamespace
\* takes the old load away before the new one comes. (Not so once a signal has
\* finalized a namespace whose content outlived it.)
OneGeneration ==
  \A k \in 1..Len(rows) : ~rows[k].orphaned =>
    rows[k].ingested \subseteq {rows[k].entry.load, rows[k].stack.exposed}

\* A log backend is measured under its own load only, unless a producer was left
\* behind by a deletion that failed or a process that died (workload.go:66-72),
\* or a volume by a deletion that a signal cut short.
LogRowsPure ==
  \A k \in 1..Len(rows) : LET row == rows[k] IN
    IsLogBackend(row.entry.instrument) /\ ~row.leaked /\ ~row.orphaned
      => row.ingested \subseteq {row.entry.load}

\* The cluster an earlier experiment leaves, finished, failed, interrupted or
\* dead at any point, never makes a later one fail: a call is refused only in an
\* experiment one of whose own calls has already failed. Every create of the
\* providers is a plain Create, so this rests on the deletions before it. There are two
\* exceptions: a signal during a deletion, which orphans what it leaves, and a claim
\* that a failed strip has left, which is none of what the next deletion looks for.
FailureIsolation ==
  AtCall /\ Blocked(Head(todo)) => hit \/ orphaned \/ "claim" \in objects[Head(todo).on]

\* Between experiments no log load runs, also after a signal or an error in the
\* middle of the load, unless its deletion failed or the process died.
LoadStopped == Idle /\ ~leaked => producer = NoProducer

\* The counters partition the entries gone through, and the exit code tells
\* whether each of them left its row.
ExitTellsRows ==
  /\ succeeded + failed = next - 1
  /\ proc = "exited" /\ exitCode = 0 =>
       /\ succeeded = Len(Batch)
       /\ Len(rows) >= Len(Batch)
       /\ \A k \in 1..Len(Batch) :
            rows[Len(rows) - Len(Batch) + k].entry = Batch[k]

\* The batch goes on through its entries after a signal, and TryUninstall takes no
\* notice of it; yet an experiment that begins after the signal installs nothing, not
\* even in part.
NothingNewAfterSignal ==
  ctx = "done" => \A r \in Releases : release[r].by <= signalledAt

\* A started batch comes to an end, whatever fails in it, if no wait for a ready pod
\* goes on for ever (provider.go:924-941: without a timeout). After a signal it does so
\* without that hypothesis: the loop goes through all entries that are left, and no call
\* of theirs waits for anything.
BatchEnds ==
  /\ []<>~WaitsForPod => (proc = "running" ~> proc # "running")
  /\ ctx = "done" /\ proc = "running" ~> proc # "running"

\* experiments-final.yaml:7-8: the load value of a metrics row is the number of
\* active series, so a measured stack holds no series of another experiment.
PureLoad == \A k \in 1..Len(rows) : rows[k].ingested \subseteq {rows[k].entry.load}

-----------------------------------------------------------------------------
(* What the batch promises, apart from how: module Ledger. *)

Claims == [k \in 1..Len(rows) |-> rows[k].entry]

L == INSTANCE Ledger WITH
       table <- Claims, pos <- next, recorded <- (stage = "saved"),
       ok <- succeeded, bad <- failed, live <- (ctx = "live"),
       up <- (proc = "running"), code <- exitCode, Valid <- Valid

\* Every step of the process is a step of the ledger or leaves it as it is.
LedgerSpec == L!Spec
=============================================================================
