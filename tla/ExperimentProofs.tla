-------------------------- MODULE ExperimentProofs --------------------------
(***************************************************************************)
(* Theorems about module Experiment, for every batch and every bound.      *)
(***************************************************************************)
EXTENDS Experiment, SequenceTheorems, TLAPS

-----------------------------------------------------------------------------
(* What the calls keep of the cluster, whatever its state: the types, and   *)
(* the release of an instrument nobody reinstalls.                          *)

\* The load a stack is being sent is a number.
LEMMA ServedType ==
  ASSUME ClusterTypeOK, NEW i \in Instruments
  PROVE  Served(i) \in Nat
<1>1. CASE i = "prometheus"
  BY <1>1 DEF Served, ClusterTypeOK
<1>2. CASE i = "victoria_metrics"
  BY <1>2 DEF Served, ClusterTypeOK
<1>3. CASE i \in LogInstruments
  BY <1>3 DEF Served, ClusterTypeOK, LogInstruments
<1> QED
  BY <1>1, <1>2, <1>3 DEF Instruments, MetricInstruments

\* An installation keeps the types, whatever its outcome.
LEMMA InstalledType ==
  ASSUME ClusterTypeOK, NEW r \in Namespaces, NEW by \in Nat, NEW retention \in Nat,
         NEW status \in {"failed", "deployed"}, Installed(r, by, retention, status)
  PROVE  ClusterTypeOK'
<1> DEFINE exposed == CASE r \in MetricInstruments -> exporter
                        [] r \in LogInstruments -> Served(r)
                        [] OTHER -> 0
<1>1. exposed \in Nat
  <2>1. r \in LogInstruments => Served(r) \in Nat
    BY ServedType DEF Instruments
  <2> QED
    BY <2>1 DEF ClusterTypeOK
<1>2. [status |-> status, by |-> by, retention |-> retention, exposed |-> exposed]
        \in ReleaseRecord
  BY <1>1 DEF ReleaseRecord
<1>3. release' = [release EXCEPT ![r] =
        [status |-> status, by |-> by, retention |-> retention, exposed |-> exposed]]
  BY DEF Installed
<1> HIDE DEF exposed
<1>4. release' \in [Releases -> ReleaseRecord]
  BY <1>2, <1>3 DEF ClusterTypeOK
<1>5. scoped' \in [Releases -> SUBSET {"webhook", "roles"}]
  BY DEF ClusterTypeOK, Installed, ChartScoped
<1>6. objects' \in [Namespaces -> SUBSET Objects]
  BY DEF ClusterTypeOK, Installed, ChartObjects, Objects
<1>7. ns' \in [Namespaces -> {"absent", "active", "terminating"}]
  BY DEF ClusterTypeOK, Installed
<1> QED
  BY <1>4, <1>5, <1>6, <1>7 DEF ClusterTypeOK, Installed

\* The records of an absent release and an absent producer have their types.
LEMMA NoneTypes ==
  NoRelease \in ReleaseRecord /\ NoProducer \in [to : Instruments \cup {"-"}, load : Nat]
  BY DEF NoRelease, NoProducer, ReleaseRecord

\* So does the end of a namespace, deleted or finalized, whatever is kept of it.
LEMMA NamespaceType ==
  ASSUME ClusterTypeOK, NEW n \in Namespaces,
         \/ NamespaceGone(n) \/ NamespaceUnstripped(n)
         \/ NamespaceForced(n)
  PROVE  ClusterTypeOK'
<1>1. ASSUME NEW kept \in SUBSET Objects, Vanished(n, kept)
      PROVE  ClusterTypeOK'
  BY <1>1, NoneTypes DEF ClusterTypeOK, Vanished
<1>3. {} \in SUBSET Objects /\ {"claim"} \in SUBSET Objects
  BY DEF Objects
<1>2. CASE NamespaceForced(n)
  BY <1>2, NoneTypes DEF ClusterTypeOK, NamespaceForced
<1> QED
  BY <1>1, <1>2, <1>3 DEF NamespaceGone, NamespaceUnstripped

\* Every call that succeeds keeps the types.
LEMMA EffectType ==
  ASSUME ClusterTypeOK, NEW c \in Calls, NEW e, e.instrument \in Instruments,
         e.load \in Nat, NEW a \in Nat, NEW retention \in Nat,
         Effect(c, e, a, retention)
  PROVE  ClusterTypeOK'
<1>0. c.on \in Namespaces /\ (c.op = "create" => c.what \in Objects)
  BY DEF Calls
<1>1. CASE c.op = "uninstall"
  <2>1. Uninstalled(c.on)
    BY <1>1 DEF Effect
  <2>2. release' \in [Releases -> ReleaseRecord]
    BY <2>1, NoneTypes DEF ClusterTypeOK, Uninstalled
  <2>3. scoped' \in [Releases -> SUBSET {"webhook", "roles"}]
    <3>1. PICK left \in SUBSET scoped[c.on] : scoped' = [scoped EXCEPT ![c.on] = left]
      BY <2>1 DEF Uninstalled
    <3>2. \A r \in Releases : scoped'[r] \subseteq scoped[r]
      BY <3>1 DEF ClusterTypeOK
    <3> QED
      BY <3>1, <3>2 DEF ClusterTypeOK
  <2>4. objects' \in [Namespaces -> SUBSET Objects]
    BY <1>0, <2>1 DEF ClusterTypeOK, Uninstalled
  <2> QED
    BY <2>1, <2>2, <2>3, <2>4 DEF ClusterTypeOK, Uninstalled
<1>2. CASE c.op \in {"webhooks", "roles", "scrapes"}
  <2>1. \/ \E kind : DeleteScoped(c.on, kind)
        \/ DeleteVMServiceScrape
    BY <1>2 DEF Effect
  <2> QED
    BY <2>1 DEF ClusterTypeOK, DeleteScoped, DeleteVMServiceScrape
<1>3. CASE c.op = "deleteNs"
  <2>1. NamespaceGone(c.on) \/ UNCHANGED clusterVars
    BY <1>3 DEF Effect
  <2> QED
    BY <1>0, <2>1, NamespaceType DEF ClusterTypeOK, clusterVars
<1>4. CASE c.op = "createNs"
  <2>1. CreateNamespace(c.on)
    BY <1>4 DEF Effect
  <2> QED
    BY <2>1 DEF ClusterTypeOK, CreateNamespace
<1>5. CASE c.op = "up"
  <2>1. Installed(c.on, a, retention, "deployed")
    BY <1>5 DEF Effect
  <2> QED
    BY <1>0, <2>1, InstalledType
<1>6. CASE c.op = "create"
  <2>1. Created(c.on, c.what, e.instrument, e.load)
    BY <1>6 DEF Effect
  <2>2. objects' \in [Namespaces -> SUBSET Objects]
    BY <1>0, <1>6, <2>1 DEF ClusterTypeOK, Created
  <2> QED
    BY <2>1, <2>2 DEF ClusterTypeOK, Created
<1>7. CASE c.op = "stopProducer"
  <2>1. DeleteLogProducerDeployment
    BY <1>7 DEF Effect
  <2> QED
    BY <2>1, NoneTypes DEF ClusterTypeOK, DeleteLogProducerDeployment
<1>8. CASE c.op \in {"image", "waitPVC", "query", "collect"}
  <2>1. UNCHANGED clusterVars
    BY <1>8 DEF Effect
  <2> QED
    BY <2>1 DEF ClusterTypeOK, clusterVars
<1> QED
  BY <1>1, <1>2, <1>3, <1>4, <1>5, <1>6, <1>7, <1>8 DEF Calls, Ops

\* So does a call that fails, whatever it leaves.
LEMMA RemainsType ==
  ASSUME ClusterTypeOK, NEW c \in Calls, NEW e, e.instrument \in Instruments,
         e.load \in Nat, NEW a \in Nat, NEW retention \in Nat,
         Remains(c, e, a, retention)
  PROVE  ClusterTypeOK'
<1>0. c.on \in Namespaces
  BY DEF Calls
<1>1. CASE UNCHANGED clusterVars
  BY <1>1 DEF ClusterTypeOK, clusterVars
<1>2. CASE \E status \in {"failed", "deployed"} : Installed(c.on, a, retention, status)
  BY <1>0, <1>2, InstalledType
<1>3. CASE /\ ns' = [ns EXCEPT ![c.on] = "terminating"]
           /\ UNCHANGED << release, objects, scoped, exporter, producer, ingested >>
  BY <1>3 DEF ClusterTypeOK
<1>4. CASE Effect(c, e, a, retention)
  BY <1>4, EffectType
<1> QED
  BY <1>1, <1>2, <1>3, <1>4 DEF Remains

\* And what the cluster does by itself.
LEMMA ClusterStepType ==
  ASSUME ClusterTypeOK, ClusterStep
  PROVE  ClusterTypeOK'
<1>1. CASE \E i \in Instruments : Ingest(i)
  <2>1. PICK i \in Instruments : Ingest(i)
    BY <1>1
  <2>2. Served(i) \in Nat
    BY ServedType
  <2> QED
    BY <2>1, <2>2 DEF ClusterTypeOK, Ingest
<1>2. CASE \E n \in Namespaces : ns[n] = "terminating" /\ NamespaceGone(n)
  BY <1>2, NamespaceType
<1>3. CASE \E n \in Namespaces : ClaimGone(n)
  BY <1>3 DEF ClusterTypeOK, ClaimGone
<1> QED
  BY <1>1, <1>2, <1>3 DEF ClusterStep

-----------------------------------------------------------------------------
(* The release of an instrument. *)

\* Only these calls touch the release of the namespace they are made on.
Touches(c, r) == c.on = r /\ c.op \in {"uninstall", "deleteNs", "up"}

\* A call that succeeds leaves every other release standing.
LEMMA EffectKeeps ==
  ASSUME ClusterTypeOK, NEW c \in Calls, NEW e, NEW a, NEW retention,
         NEW r \in Releases, ns[r] = "active", ~Touches(c, r),
         Effect(c, e, a, retention)
  PROVE  release'[r] = release[r] /\ ns'[r] = "active"
<1>0. r \in Namespaces /\ c.on \in Namespaces
  BY DEF Namespaces, Calls
<1>1. CASE c.op = "uninstall"
  BY <1>0, <1>1 DEF Effect, Uninstalled, Touches, ClusterTypeOK
<1>2. CASE c.op = "deleteNs"
  BY <1>0, <1>2 DEF Effect, NamespaceGone, Vanished, Touches, ClusterTypeOK, clusterVars
<1>3. CASE c.op = "createNs"
  BY <1>0, <1>3 DEF Effect, CreateNamespace, ClusterTypeOK
<1>4. CASE c.op = "up"
  BY <1>0, <1>4 DEF Effect, Installed, Touches, ClusterTypeOK
<1>5. CASE c.op \in {"webhooks", "roles", "scrapes", "create", "stopProducer"}
  BY <1>5 DEF Effect, DeleteScoped, DeleteVMServiceScrape, Created,
              DeleteLogProducerDeployment
<1>6. CASE c.op \in {"image", "waitPVC", "query", "collect"}
  BY <1>6 DEF Effect, clusterVars
<1> QED
  BY <1>1, <1>2, <1>3, <1>4, <1>5, <1>6 DEF Calls, Ops

\* So does a call that fails.
LEMMA RemainsKeeps ==
  ASSUME ClusterTypeOK, NEW c \in Calls, NEW e, NEW a, NEW retention,
         NEW r \in Releases, ns[r] = "active", ~Touches(c, r),
         Remains(c, e, a, retention)
  PROVE  release'[r] = release[r] /\ ns'[r] = "active"
<1>0. r \in Namespaces /\ c.on \in Namespaces
  BY DEF Namespaces, Calls
<1>1. CASE UNCHANGED clusterVars
  BY <1>1 DEF clusterVars
<1>2. CASE c.op = "up" /\ \E status : Installed(c.on, a, retention, status)
  BY <1>0, <1>2 DEF Installed, Touches, ClusterTypeOK
<1>3. CASE /\ c.op = "deleteNs"
           /\ ns' = [ns EXCEPT ![c.on] = "terminating"]
           /\ UNCHANGED << release, objects, scoped, exporter, producer, ingested >>
  BY <1>0, <1>3 DEF Touches, ClusterTypeOK
<1>4. CASE Effect(c, e, a, retention)
  BY <1>4, EffectKeeps
<1> QED
  BY <1>1, <1>2, <1>3, <1>4 DEF Remains

\* So does the cluster by itself.
LEMMA ClusterStepKeeps ==
  ASSUME ClusterTypeOK, NEW r \in Releases, ns[r] = "active", ClusterStep
  PROVE  release'[r] = release[r] /\ ns'[r] = "active"
<1>0. r \in Namespaces
  BY DEF Namespaces
<1>1. CASE \E i \in Instruments : Ingest(i)
  BY <1>1 DEF Ingest
<1>2. CASE \E n \in Namespaces : ns[n] = "terminating" /\ NamespaceGone(n)
  BY <1>0, <1>2 DEF NamespaceGone, Vanished, ClusterTypeOK
<1>3. CASE \E n \in Namespaces : ClaimGone(n)
  BY <1>3 DEF ClaimGone
<1> QED
  BY <1>1, <1>2, <1>3 DEF ClusterStep

\* Nothing but an installation gives a release to another experiment.
LEMMA OnlyInstalls ==
  ASSUME ClusterTypeOK, NEW c \in Calls, NEW e, NEW a, NEW retention,
         NEW r \in Releases,
         \/ Effect(c, e, a, retention)
         \/ Remains(c, e, a, retention)
         \/ NamespaceUnstripped(c.on) \/ NamespaceForced(c.on)
         \/ ClusterStep
  PROVE  \/ release'[r].by \in {release[r].by, 0}
         \/ c.op = "up" /\ release'[r].by = a
<1>0. NoRelease.by = 0 /\ c.on \in Namespaces
  BY DEF NoRelease, Calls
<1>1. ASSUME NEW status, Installed(c.on, a, retention, status)
      PROVE  release'[r].by \in {release[r].by, a}
  BY <1>1 DEF Installed, ClusterTypeOK
<1>2. CASE Effect(c, e, a, retention)
  <2>1. \/ Uninstalled(c.on) \/ NamespaceGone(c.on)
        \/ release' = release
        \/ c.op = "up" /\ Installed(c.on, a, retention, "deployed")
    BY <1>2 DEF Effect, DeleteScoped, DeleteVMServiceScrape, CreateNamespace, Created,
                DeleteLogProducerDeployment, clusterVars, Calls, Ops
  <2> QED
    BY <1>0, <1>1, <2>1 DEF Uninstalled, NamespaceGone, Vanished, ClusterTypeOK
<1>3. CASE Remains(c, e, a, retention)
  <2>1. CASE c.op = "up" /\ \E status : Installed(c.on, a, retention, status)
    BY <1>1, <2>1
  <2>2. CASE Effect(c, e, a, retention)
    BY <1>2, <2>2
  <2>3. CASE release' = release
    BY <2>3
  <2> QED
    BY <1>3, <2>1, <2>2, <2>3 DEF Remains, clusterVars
<1>4. CASE NamespaceUnstripped(c.on) \/ NamespaceForced(c.on)
  BY <1>0, <1>4 DEF NamespaceUnstripped, Vanished, NamespaceForced
<1>5. CASE ClusterStep
  BY <1>0, <1>5 DEF ClusterStep, Ingest, NamespaceGone, Vanished, ClaimGone
<1> QED
  BY <1>2, <1>3, <1>4, <1>5

-----------------------------------------------------------------------------
(* The sequences of calls. *)

\* Every service makes calls the cluster knows.
LEMMA CallTypes ==
  /\ \A op \in Ops \ {"create"}, on \in Namespaces : Call(op, on) \in Calls
  /\ \A on \in Namespaces, what \in Objects : Create(on, what) \in Calls
  BY DEF Call, Create, Calls

\* UpMonitoring is a sequence of calls.
LEMMA MonitoringType == MonitoringCalls \in Seq(Calls)
  BY CallTypes DEF MonitoringCalls, Ops, Namespaces, Releases

\* The disk exporter and its service are a sequence of calls.
LEMMA DiskType == \A i \in Instruments : DiskObjects(i) \in Seq(Calls)
<1>1. ASSUME NEW i \in Instruments
      PROVE  /\ Create(i, "disk-exporter") \in Calls
             /\ Create(i, "disk-service") \in Calls
             /\ Create(i, "disk-monitor") \in Calls
  BY CallTypes DEF Objects, Namespaces, Releases
<1> QED
  BY <1>1 DEF DiskObjects

\* The Deploy of every stack is a sequence of calls (experimentstack/deploy.go).
LEMMA DeployType == \A i \in Instruments : DeployCalls(i) \in Seq(Calls)
<1>1. PrometheusCalls \in Seq(Calls)
  BY CallTypes, DiskType DEF PrometheusCalls, Image, Ops, Objects, Namespaces,
     Releases, Instruments, MetricInstruments
<1>2. VictoriaMetricsCalls \in Seq(Calls)
  BY CallTypes, DiskType DEF VictoriaMetricsCalls, Image, Ops, Objects, Namespaces,
     Releases, Instruments, MetricInstruments
<1>3. LokiCalls \in Seq(Calls)
  BY CallTypes, DiskType DEF LokiCalls, Image, Ops, Objects, Namespaces, Releases,
     Instruments, LogInstruments
<1>4. OpenSearchCalls \in Seq(Calls)
  BY CallTypes, DiskType DEF OpenSearchCalls, Image, Ops, Objects, Namespaces,
     Releases, Instruments, LogInstruments
<1> QED
  BY <1>1, <1>2, <1>3, <1>4 DEF DeployCalls, Instruments, MetricInstruments,
     LogInstruments

\* The workload of every instrument is a sequence of calls (workload.go:48-75).
LEMMA WorkloadType == \A i \in Instruments : WorkloadCalls(i) \in Seq(Calls)
<1>1. UpLogProvider \in Seq(Calls)
  BY CallTypes DEF UpLogProvider, RecreateNs, Image, Ops, Objects, Namespaces
<1>2. UpMetricsProvider \in Seq(Calls)
  BY CallTypes DEF UpMetricsProvider, RecreateNs, Image, Ops, Objects, Namespaces
<1>3. ASSUME NEW i \in Instruments
      PROVE  Call("query", i) \in Calls /\ Call("stopProducer", "log-producer") \in Calls
  BY CallTypes DEF Ops, Namespaces, Releases
<1> QED
  BY <1>1, <1>2, <1>3 DEF WorkloadCalls

-----------------------------------------------------------------------------
(* A release is reinstalled: after every call that takes it away comes the  *)
(* one that installs it.                                                    *)

NoTouch(s, r) == \A k \in 1..Len(s) : ~Touches(s[k], r)

Reinstalls(s, r) ==
  \A k \in 1..Len(s) : Touches(s[k], r) /\ s[k].op # "up" =>
    \E j \in (k + 1)..Len(s) : Touches(s[j], r)

\* UpMonitoring reinstalls the central Prometheus whatever it has taken away.
LEMMA MonitoringReinstalls ==
  Reinstalls(MonitoringCalls, "monitoring") /\ ~NoTouch(MonitoringCalls, "monitoring")
  BY DEF MonitoringCalls, Reinstalls, NoTouch, Touches, Call

\* Each stack is reinstalled, and no stack touches the central Prometheus.
LEMMA DeployReinstalls ==
  \A i \in Instruments :
    /\ Reinstalls(DeployCalls(i), i) /\ ~NoTouch(DeployCalls(i), i)
    /\ NoTouch(DeployCalls(i), "monitoring")
<1> USE DEF DiskObjects, Reinstalls, NoTouch, Touches, Call, Create, Image
<1>1. /\ Reinstalls(PrometheusCalls, "prometheus")
      /\ ~NoTouch(PrometheusCalls, "prometheus")
      /\ NoTouch(PrometheusCalls, "monitoring")
  BY DEF PrometheusCalls
<1>2. /\ Reinstalls(VictoriaMetricsCalls, "victoria_metrics")
      /\ ~NoTouch(VictoriaMetricsCalls, "victoria_metrics")
      /\ NoTouch(VictoriaMetricsCalls, "monitoring")
  BY DEF VictoriaMetricsCalls
<1>3. /\ Reinstalls(LokiCalls, "loki") /\ ~NoTouch(LokiCalls, "loki")
      /\ NoTouch(LokiCalls, "monitoring")
  BY DEF LokiCalls
<1>4. /\ Reinstalls(OpenSearchCalls, "opensearch")
      /\ ~NoTouch(OpenSearchCalls, "opensearch")
      /\ NoTouch(OpenSearchCalls, "monitoring")
  BY DEF OpenSearchCalls
<1> HIDE DEF Reinstalls, NoTouch
<1> QED
  BY <1>1, <1>2, <1>3, <1>4 DEF DeployCalls, Instruments, MetricInstruments,
     LogInstruments

\* The workload touches no release.
LEMMA WorkloadTouchesNothing ==
  \A i \in Instruments, r \in Releases : NoTouch(WorkloadCalls(i), r)
<1> USE DEF NoTouch, Touches, Call, Create, Image, Releases, Instruments,
            MetricInstruments, LogInstruments, IsLogBackend
<1>1. ASSUME NEW i \in LogInstruments, NEW r \in Releases
      PROVE  NoTouch(WorkloadCalls(i), r)
  BY DEF WorkloadCalls, UpLogProvider, RecreateNs
<1>2. ASSUME NEW i \in MetricInstruments, NEW r \in Releases
      PROVE  NoTouch(WorkloadCalls(i), r)
  BY DEF WorkloadCalls, UpMetricsProvider, RecreateNs
<1> QED
  BY <1>1, <1>2

\* What a call leaves to do, when it is done.
LEMMA TailReinstalls ==
  ASSUME NEW s \in Seq(Calls), s # << >>, NEW r, Reinstalls(s, r)
  PROVE  /\ Reinstalls(Tail(s), r)
         /\ NoTouch(s, r) => NoTouch(Tail(s), r)
         /\ NoTouch(Tail(s), r) => NoTouch(s, r) \/ (Touches(Head(s), r) /\ Head(s).op = "up")
<1>1. /\ Tail(s) \in Seq(Calls) /\ Len(Tail(s)) = Len(s) - 1
      /\ \A k \in 1..Len(Tail(s)) : Tail(s)[k] = s[k + 1]
      /\ Head(s) = s[1] /\ Len(s) \in Nat /\ Len(s) >= 1
  BY HeadTailProperties, EmptySeq
<1>2. Reinstalls(Tail(s), r)
  <2>1. SUFFICES ASSUME NEW k \in 1..Len(Tail(s)), Touches(Tail(s)[k], r),
                        Tail(s)[k].op # "up"
                 PROVE  \E j \in (k + 1)..Len(Tail(s)) : Touches(Tail(s)[j], r)
    BY DEF Reinstalls
  <2>2. k + 1 \in 1..Len(s) /\ Touches(s[k + 1], r) /\ s[k + 1].op # "up"
    BY <1>1, <2>1
  <2>3. PICK j \in (k + 2)..Len(s) : Touches(s[j], r)
    BY <2>2 DEF Reinstalls
  <2>4. j - 1 \in (k + 1)..Len(Tail(s)) /\ Touches(Tail(s)[j - 1], r)
    BY <1>1, <2>3
  <2> QED
    BY <2>4
<1>3. NoTouch(s, r) => NoTouch(Tail(s), r)
  BY <1>1 DEF NoTouch
<1>4. NoTouch(Tail(s), r) => NoTouch(s, r) \/ (Touches(Head(s), r) /\ Head(s).op = "up")
  <2>1. SUFFICES ASSUME NoTouch(Tail(s), r), NEW k \in 1..Len(s), Touches(s[k], r)
                 PROVE  Touches(Head(s), r) /\ Head(s).op = "up"
    BY DEF NoTouch
  <2>2. \A j \in 2..Len(s) : ~Touches(s[j], r)
    <3>1. ASSUME NEW j \in 2..Len(s) PROVE ~Touches(s[j], r)
      <4>1. j - 1 \in 1..Len(Tail(s)) /\ s[j] = Tail(s)[j - 1]
        BY <1>1
      <4> QED
        BY <4>1, <2>1 DEF NoTouch
    <3> QED
      BY <3>1
  <2>3. k = 1
    BY <1>1, <2>1, <2>2
  <2>4. Touches(Head(s), r)
    BY <1>1, <2>1, <2>3
  <2>5. Head(s).op = "up"
    <3>1. s[1].op # "up" => \E j \in 2..Len(s) : Touches(s[j], r)
      BY <1>1, <2>4 DEF Reinstalls
    <3> QED
      BY <1>1, <2>2, <3>1
  <2> QED
    BY <2>4, <2>5
<1> QED
  BY <1>2, <1>3, <1>4

-----------------------------------------------------------------------------
(* Types. *)

\* Only a running process is in an experiment, and only in one of a valid entry.
Busy == stage # "idle" => proc = "running" /\ next <= Len(Batch) /\ Valid(Entry)

TypeInv == TypeOK /\ Busy

\* The batch is finite.
LEMMA BatchLength == Len(Batch) \in Nat
  BY BatchAssumption, LenProperties

\* While an index is within the batch, the entry is one of the batch.
LEMMA EntryType ==
  ASSUME RunTypeOK, next <= Len(Batch), Valid(Entry)
  PROVE  /\ Entry.instrument \in Instruments /\ Entry.load \in Nat
         /\ Entry.retention \in Nat /\ \A r : RetentionOf(r) \in Nat
         /\ Entry \in Range(Batch)
<1>1. Batch \in Seq([instrument : STRING, load : Int, retention : Int, duration : Int])
  BY BatchAssumption
<1>2. next \in 1..Len(Batch) /\ Entry = Batch[next]
  BY <1>1 DEF RunTypeOK, Entry
<1>3. Entry \in [instrument : STRING, load : Int, retention : Int, duration : Int]
  BY <1>1, <1>2, ElementOfSeq
<1>4. Entry.load \in Nat /\ Entry.retention \in Nat /\ Entry.instrument \in Instruments
  BY <1>3 DEF Valid
<1>5. Entry \in Range(Batch)
  BY <1>1, <1>2 DEF Range
<1> QED
  BY <1>4, <1>5 DEF RetentionOf

\* The types hold when the first process starts.
LEMMA InitType == Init => TypeInv
<1> SUFFICES ASSUME Init PROVE TypeInv
  OBVIOUS
<1>1. ClusterTypeOK
  BY NoneTypes DEF Init, ClusterInit, ClusterTypeOK
<1>2. todo \in Seq(Calls) /\ rows \in Seq(RowRecord)
  BY EmptySeq DEF Init, ProcessInit
<1>3. next \in 1..(Len(Batch) + 1)
  BY BatchLength DEF Init, ProcessInit
<1>4. RunTypeOK /\ Busy
  BY <1>2, <1>3 DEF Init, ProcessInit, RunTypeOK, Stages, Busy
<1> QED
  BY <1>1, <1>4 DEF TypeInv, TypeOK

\* What a step does to the cluster is one of the effects of module Cluster.
LEMMA ClusterMoves ==
  ASSUME TypeInv, Next
  PROVE  \/ UNCHANGED clusterVars
         \/ ClusterStep
         \/ /\ AtCall
            /\ \/ CallReturns /\ Effects(Head(todo))
               \/ Remains(Head(todo), Entry, attempt, RetentionOf(Head(todo).on))
               \/ StripFails /\ NamespaceUnstripped(Head(todo).on)
               \/ SignalInDeletion /\ NamespaceForced(Head(todo).on)
<1>1. CASE CallReturns
  BY <1>1 DEF CallReturns
<1>2. CASE CallRefused \/ ListFails
  BY <1>2 DEF CallRefused, ListFails
<1>3. CASE CallCancelled \/ CallFails
  BY <1>3 DEF CallCancelled, CallFails
<1>4. CASE Crash
  BY <1>4 DEF Crash
<1>5. CASE Environment
  BY <1>5 DEF Environment
<1>6. CASE SkipInvalid \/ StartExperiment \/ ExperimentFails \/ ExperimentSucceeds \/ Exit
  BY <1>6 DEF SkipInvalid, StartExperiment, ExperimentFails, ExperimentSucceeds, Exit
<1>7. CASE Deploy \/ Run \/ Collect \/ StartSave \/ Save \/ SaveFails
  BY <1>7 DEF Deploy, Run, Collect, StartSave, NextStage, Save, SaveFails
<1>8. CASE Signal \/ Restart \/ Terminating
  BY <1>8 DEF Signal, Restart, Terminating, vars
<1>9. CASE StripFails \/ SignalInDeletion
  BY <1>9 DEF StripFails, SignalInDeletion, InDeletion
<1> QED
  BY <1>1, <1>2, <1>3, <1>4, <1>5, <1>6, <1>7, <1>8, <1>9 DEF Next, BenchStep

\* The call about to be made, and what is left after it, have their types.
LEMMA HeadType ==
  ASSUME TypeInv, AtCall
  PROVE  /\ Head(todo) \in Calls /\ Tail(todo) \in Seq(Calls)
         /\ Entry.instrument \in Instruments /\ Entry.load \in Nat
         /\ RetentionOf(Head(todo).on) \in Nat /\ attempt \in Nat
<1>1. todo \in Seq(Calls) /\ todo # << >> /\ attempt \in Nat
  BY DEF TypeInv, TypeOK, RunTypeOK, AtCall
<1>2. next <= Len(Batch) /\ Valid(Entry) /\ RunTypeOK
  BY DEF TypeInv, TypeOK, Busy, AtCall
<1> QED
  BY <1>1, <1>2, EntryType

\* Every step keeps the types of the cluster.
LEMMA ClusterTypeStep ==
  ASSUME TypeInv, [Next]_vars
  PROVE  ClusterTypeOK'
<1>0. ClusterTypeOK
  BY DEF TypeInv, TypeOK
<1>1. CASE UNCHANGED clusterVars
  BY <1>0, <1>1 DEF ClusterTypeOK, clusterVars
<1>2. CASE ClusterStep
  BY <1>0, <1>2, ClusterStepType
<1>3. CASE AtCall /\ Effects(Head(todo))
  BY <1>0, <1>3, HeadType, EffectType DEF Effects
<1>4. CASE AtCall /\ Remains(Head(todo), Entry, attempt, RetentionOf(Head(todo).on))
  BY <1>0, <1>4, HeadType, RemainsType
<1>5. CASE /\ AtCall
           /\ NamespaceUnstripped(Head(todo).on) \/ NamespaceForced(Head(todo).on)
  <2>1. Head(todo).on \in Namespaces
    BY <1>5, HeadType DEF Calls
  <2> QED
    BY <1>0, <1>5, <2>1, NamespaceType
<1> QED
  BY <1>1, <1>2, <1>3, <1>4, <1>5, ClusterMoves DEF vars

\* Every step keeps the types of the process and of the table.
LEMMA RunTypeStep ==
  ASSUME TypeInv, [Next]_vars
  PROVE  RunTypeOK' /\ Busy'
<1> USE DEF TypeInv, TypeOK
<1>1. CASE SkipInvalid
  <2>1. next' \in 1..(Len(Batch) + 1) /\ failed' \in Nat
    BY <1>1, BatchLength DEF SkipInvalid, RunTypeOK
  <2> QED
    BY <1>1, <2>1 DEF SkipInvalid, Idle, RunTypeOK, Busy, runVars, historyVars
<1>2. CASE StartExperiment
  <2>1. todo' \in Seq(Calls) /\ attempt' \in Nat
    BY <1>2, MonitoringType DEF StartExperiment, RunTypeOK
  <2>2. Busy'
    BY <1>2 DEF StartExperiment, Idle, Busy, loopVars, Entry, Valid
  <2> QED
    BY <1>2, <2>1, <2>2 DEF StartExperiment, RunTypeOK, loopVars, Stages
<1>3. CASE ExperimentFails
  BY <1>3, BatchLength DEF ExperimentFails, RunTypeOK, Busy, historyVars, Stages
<1>4. CASE ExperimentSucceeds
  BY <1>4, BatchLength DEF ExperimentSucceeds, RunTypeOK, Busy, historyVars, Stages
<1>5. CASE Exit
  BY <1>5 DEF Exit, Idle, RunTypeOK, Busy, runVars, historyVars
<1>6. CASE CallReturns
  BY <1>6, HeadType DEF CallReturns, RunTypeOK, Busy, loopVars, historyVars, Entry, Valid
<1>7. ASSUME AtCall, GiveUp(Head(todo)), orphaned' \in BOOLEAN, hit' \in BOOLEAN,
             leaked' \in BOOLEAN, faults' \in Nat
      PROVE  RunTypeOK' /\ Busy'
  <2>1. todo' \in Seq(Calls) /\ err' \in BOOLEAN
    BY <1>7, HeadType, EmptySeq DEF GiveUp, Deferred, RunTypeOK
  <2> QED
    BY <1>7, <2>1 DEF GiveUp, RunTypeOK, Busy, loopVars, Entry, Valid
<1>8. CASE CallRefused
  BY <1>7, <1>8 DEF CallRefused, RunTypeOK
<1>9. CASE CallCancelled
  BY <1>7, <1>9 DEF CallCancelled, RunTypeOK, Leaks
<1>10. CASE CallFails
  BY <1>7, <1>10 DEF CallFails, RunTypeOK, Leaks
<1>11. CASE ListFails
  BY <1>11, HeadType DEF ListFails, RunTypeOK, Busy, loopVars, Entry, Valid
<1>12. CASE Deploy \/ Run \/ Collect \/ StartSave
  <2>1. PICK to \in Stages, calls \in Seq(Calls), from \in Stages \ {"idle"} :
          NextStage(from, to, calls)
    <3>1. stage # "idle" => Entry.instrument \in Instruments
      BY EntryType DEF Busy
    <3>2. Call("collect", "monitoring") \in Calls
      BY CallTypes DEF Ops, Namespaces, Releases
    <3>3. CASE Deploy
      BY <1>12, <3>1, <3>3, DeployType DEF Deploy, NextStage, Stages
    <3>4. CASE Run
      BY <1>12, <3>1, <3>4, WorkloadType DEF Run, NextStage, Stages
    <3>5. CASE Collect
      <4>1. << Call("collect", "monitoring") >> \in Seq(Calls)
        BY <3>2
      <4> QED
        BY <3>5, <4>1 DEF Collect, Stages
    <3>6. CASE StartSave
      <4>1. << >> \in Seq(Calls)
        BY EmptySeq
      <4> QED
        BY <3>6, <4>1 DEF StartSave, Stages
    <3> QED
      BY <1>12, <3>3, <3>4, <3>5, <3>6
  <2> QED
    BY <2>1 DEF NextStage, RunTypeOK, Busy, loopVars, historyVars, Entry, Valid
<1>13. CASE Save
  <2>1. Row \in RowRecord
    BY <1>13, EntryType DEF Save, Row, RowRecord, ClusterTypeOK, RunTypeOK, Busy, Releases
  <2>2. rows' \in Seq(RowRecord)
    BY <1>13, <2>1 DEF Save, RunTypeOK
  <2> QED
    BY <1>13, <2>2 DEF Save, RunTypeOK, Busy, loopVars, historyVars, Entry, Valid, Stages
<1>14. CASE SaveFails
  <2>1. hit' \in BOOLEAN
    BY <1>14 DEF SaveFails, RunTypeOK
  <2>2. faults' \in Nat
    BY <1>14 DEF SaveFails, RunTypeOK
  <2> QED
    BY <1>14, <2>1, <2>2 DEF SaveFails, RunTypeOK, Busy, loopVars, Entry, Valid
<1>15. CASE Signal
  BY <1>15 DEF Signal, RunTypeOK, Busy, runVars, historyVars, Entry, Valid
<1>16. CASE Crash
  <2>1. leaked' \in BOOLEAN
    BY <1>16, Zenon DEF Crash
  <2>2. todo' \in Seq(Calls)
    BY <1>16, EmptySeq DEF Crash
  <2>3. faults' \in Nat
    BY <1>16 DEF Crash, RunTypeOK
  <2> QED
    BY <1>16, <2>1, <2>2, <2>3 DEF Crash, RunTypeOK, Busy, Stages
<1>17. CASE Restart
  BY <1>17, BatchLength DEF Restart, RunTypeOK, Busy, runVars
<1>18. CASE Environment
  BY <1>18 DEF Environment, RunTypeOK, Busy, loopVars, runVars, historyVars, Entry, Valid
<1>19. CASE StripFails
  BY <1>19, HeadType DEF StripFails, InDeletion, RunTypeOK, Busy, loopVars, Entry, Valid
<1>20. CASE SignalInDeletion
  <2>1. todo' \in Seq(Calls) /\ err' \in BOOLEAN
    BY <1>20, HeadType, EmptySeq DEF SignalInDeletion, InDeletion, RunTypeOK
  <2>2. /\ ctx' = "done" /\ signalledAt' = attempt /\ orphaned' = TRUE
        /\ UNCHANGED << proc, exitCode, next, succeeded, failed, stage, attempt, rows, hit,
                        leaked, faults, restarts >>
    BY <1>20 DEF SignalInDeletion
  <2> QED
    BY <2>1, <2>2 DEF RunTypeOK, Busy, Entry, Valid
<1>21. CASE UNCHANGED vars
  BY <1>21 DEF vars, RunTypeOK, Busy, loopVars, runVars, historyVars, Entry, Valid
<1> QED
  BY <1>1, <1>2, <1>3, <1>4, <1>5, <1>6, <1>8, <1>9, <1>10, <1>11, <1>12, <1>13,
     <1>14, <1>15, <1>16, <1>17, <1>18, <1>19, <1>20, <1>21 DEF Next, BenchStep, Terminating

\* The types, and that an experiment has a valid entry, hold in every state.
LEMMA TypeInvariant == Spec => []TypeInv
<1>1. TypeInv /\ [Next]_vars => TypeInv'
  BY ClusterTypeStep, RunTypeStep DEF TypeInv, TypeOK
<1> QED
  BY <1>1, InitType, PTL DEF Spec

\* The types of the process, the table and the cluster hold in every state.
THEOREM TypeCorrect == Spec => []TypeOK
<1>1. TypeInv => TypeOK
  BY DEF TypeInv
<1> QED
  BY <1>1, TypeInvariant, PTL

-----------------------------------------------------------------------------
(* What is measured is what the experiment installed.                       *)

\* Release r is the one of this experiment.
Up(r) ==
  /\ release[r].status = "deployed" /\ release[r].by = attempt /\ ns[r] = "active"
  /\ r \in Instruments \ {"opensearch"} => release[r].retention = Entry.retention

\* The calls left reinstall what they take away, and unless they do, or one has
\* failed, r is up.
Stands(r) == Reinstalls(todo, r) /\ (~err /\ NoTouch(todo, r) => Up(r))

StackInv ==
  /\ stage # "idle" => Stands("monitoring")
  /\ stage \notin {"idle", "monitoring"} => Stands(Entry.instrument)
  /\ stage \in {"save", "saved"} => todo = << >>

RowInv == StackInv /\ RowFaithful

\* A sequence that does not touch a release reinstalls it trivially.
LEMMA NoTouchReinstalls == \A s, r : NoTouch(s, r) => Reinstalls(s, r)
  BY DEF NoTouch, Reinstalls

\* A stage without calls left touches no release.
LEMMA NothingLeft == \A r : NoTouch(<< >>, r) /\ Reinstalls(<< >>, r)
  BY DEF NoTouch, Reinstalls

\* A release that stands does so after every call, whatever becomes of the call.
LEMMA StandsCall ==
  ASSUME TypeInv, AtCall, NEW r \in Releases, Stands(r),
         \/ CallReturns \/ CallRefused \/ CallCancelled \/ CallFails \/ ListFails
         \/ StripFails \/ SignalInDeletion
  PROVE  Stands(r)'
<1> DEFINE c == Head(todo)
<1>1. /\ ClusterTypeOK /\ c \in Calls /\ todo \in Seq(Calls) /\ todo # << >>
      /\ Reinstalls(todo, r)
  BY HeadType DEF TypeInv, TypeOK, RunTypeOK, AtCall, Stands
<1>2. attempt' = attempt /\ Entry' = Entry
  BY DEF CallReturns, CallRefused, CallCancelled, CallFails, ListFails, StripFails,
         SignalInDeletion, GiveUp, loopVars, Entry
<1>3. /\ Reinstalls(Tail(todo), r)
      /\ NoTouch(Tail(todo), r) => NoTouch(todo, r) \/ (Touches(c, r) /\ c.op = "up")
  BY <1>1, TailReinstalls
<1>4. NoTouch(todo, r) => ~Touches(c, r)
  BY <1>1 DEF NoTouch
<1> HIDE DEF c
<1>5. ASSUME todo' = Tail(todo), err' = err, ~Touches(c, r),
             ns[r] = "active" => release'[r] = release[r] /\ ns'[r] = "active"
      PROVE  Stands(r)'
  BY <1>2, <1>3, <1>5 DEF Stands, Up
<1>6. CASE CallReturns
  <2>1. Effect(c, Entry, attempt, RetentionOf(c.on)) /\ todo' = Tail(todo) /\ err' = err
    BY <1>6 DEF CallReturns, Effects, c
  <2>2. CASE ~Touches(c, r)
    BY <1>1, <1>5, <2>1, <2>2, EffectKeeps
  <2>3. CASE Touches(c, r) /\ c.op = "up"
    <3>1. Installed(r, attempt, RetentionOf(r), "deployed")
      BY <2>1, <2>3 DEF Effect, Touches
    <3>2. r \in Namespaces
      BY DEF Namespaces
    <3>3. Up(r)'
      BY <1>1, <1>2, <3>1, <3>2 DEF Installed, Up, ClusterTypeOK, RetentionOf, Instruments,
         MetricInstruments, LogInstruments
    <3> QED
      BY <1>3, <2>1, <3>3 DEF Stands
  <2>4. CASE Touches(c, r) /\ c.op # "up"
    BY <1>3, <1>4, <2>1, <2>4 DEF Stands
  <2> QED
    BY <2>2, <2>3, <2>4
<1>7. CASE CallRefused \/ CallCancelled \/ CallFails
  <2>1. GiveUp(c)
    BY <1>7 DEF CallRefused, CallCancelled, CallFails, c
  <2>2. CASE c.op # "stopProducer"
    <3>1. err' = TRUE /\ (todo' = Tail(todo) \/ todo' = << >>)
      BY <2>1, <2>2 DEF GiveUp, Deferred
    <3> QED
      BY <1>3, <3>1, NothingLeft DEF Stands
  <2>3. CASE c.op = "stopProducer"
    <3>1. /\ todo' = Tail(todo) /\ err' = err
          /\ ~Touches(c, r)
      BY <2>1, <2>3 DEF GiveUp, Touches
    <3>2. UNCHANGED clusterVars \/ Remains(c, Entry, attempt, RetentionOf(c.on))
      BY <1>7, <2>3 DEF CallRefused, CallCancelled, CallFails, c
    <3>3. ns[r] = "active" => release'[r] = release[r] /\ ns'[r] = "active"
      BY <1>1, <3>1, <3>2, RemainsKeeps DEF clusterVars
    <3> QED
      BY <1>5, <3>1, <3>3
  <2> QED
    BY <2>2, <2>3
<1>8. CASE ListFails
  BY <1>5, <1>8 DEF ListFails, Touches, clusterVars, c
<1>9. CASE StripFails \/ SignalInDeletion
  <2>1. /\ c.op = "deleteNs" /\ c.on \in Namespaces
        /\ NamespaceUnstripped(c.on) \/ NamespaceForced(c.on)
        /\ \/ todo' = Tail(todo) /\ err' = err
           \/ todo' = << >> /\ err' = TRUE
    BY <1>1, <1>9 DEF StripFails, SignalInDeletion, InDeletion, c, Calls
  <2>2. CASE todo' = << >> /\ err' = TRUE
    BY <2>2, NothingLeft DEF Stands
  <2>3. CASE todo' = Tail(todo) /\ err' = err /\ c.on = r
    BY <1>3, <1>4, <2>1, <2>3 DEF Stands, Touches
  <2>4. CASE todo' = Tail(todo) /\ err' = err /\ c.on # r
    <3>1. ~Touches(c, r) /\ r \in Namespaces
      BY <2>4 DEF Touches, Namespaces
    <3>2. ns[r] = "active" => release'[r] = release[r] /\ ns'[r] = "active"
      BY <1>1, <2>1, <2>4, <3>1 DEF NamespaceUnstripped, Vanished, NamespaceForced,
         ClusterTypeOK
    <3> QED
      BY <1>5, <2>4, <3>1, <3>2
  <2> QED
    BY <2>1, <2>2, <2>3, <2>4
<1> QED
  BY <1>6, <1>7, <1>8, <1>9

\* So it does while the cluster moves by itself, or nothing does.
LEMMA StandsElse ==
  ASSUME TypeInv, NEW r \in Releases, Stands(r), UNCHANGED << attempt, next, todo, err >>,
         ClusterStep \/ UNCHANGED clusterVars
  PROVE  Stands(r)'
<1>1. ns[r] = "active" => release'[r] = release[r] /\ ns'[r] = "active"
  BY ClusterStepKeeps DEF clusterVars, TypeInv, TypeOK
<1> QED
  BY <1>1 DEF Stands, Up, Entry

\* A stage hands a release that stands to the next one.
LEMMA StandsNext ==
  ASSUME TypeInv, NEW r \in Releases, Stands(r), NEW from, NEW to, NEW calls,
         NextStage(from, to, calls), NoTouch(calls, r)
  PROVE  Stands(r)'
<1>1. Up(r)
  BY NothingLeft DEF Stands, NextStage
<1>2. Up(r)'
  BY <1>1 DEF Up, NextStage, Entry, loopVars, clusterVars
<1> QED
  BY <1>2, NoTouchReinstalls DEF Stands, NextStage

\* Every step keeps what stands of the releases of the experiment under way.
LEMMA StackStep ==
  ASSUME TypeInv, StackInv, [Next]_vars
  PROVE  StackInv'
<1>0. /\ "monitoring" \in Releases
      /\ stage # "idle" => Entry.instrument \in Instruments /\ Entry.instrument \in Releases
  BY EntryType DEF TypeInv, TypeOK, Busy, Releases
<1>1. CASE stage' = "idle"
  BY <1>1 DEF StackInv
<1>2. CASE StartExperiment
  <2>1. stage' = "monitoring" /\ todo' = MonitoringCalls
    BY <1>2 DEF StartExperiment
  <2>2. Stands("monitoring")'
    BY <2>1, MonitoringReinstalls DEF Stands
  <2> QED
    BY <2>1, <2>2 DEF StackInv
<1>3. CASE \/ CallReturns \/ CallRefused \/ CallCancelled \/ CallFails \/ ListFails
           \/ StripFails \/ SignalInDeletion
  <2>1. AtCall /\ stage' = stage /\ Entry' = Entry
    BY <1>3 DEF CallReturns, CallRefused, CallCancelled, CallFails, ListFails, StripFails,
       SignalInDeletion, InDeletion, GiveUp, loopVars, Entry
  <2>2. stage \notin {"save", "saved"} /\ stage # "idle"
    BY <2>1 DEF StackInv, AtCall
  <2>3. Stands("monitoring")'
    BY <1>0, <1>3, <2>1, <2>2, StandsCall DEF StackInv
  <2>4. stage # "monitoring" => Stands(Entry.instrument)'
    BY <1>0, <1>3, <2>1, <2>2, StandsCall DEF StackInv
  <2> QED
    BY <2>1, <2>2, <2>3, <2>4 DEF StackInv
<1>4. CASE Deploy
  <2>1. /\ stage = "monitoring" /\ stage' = "deploy" /\ Entry' = Entry
        /\ todo' = DeployCalls(Entry.instrument)
    BY <1>4 DEF Deploy, NextStage, loopVars, Entry
  <2>2. Stands("monitoring")'
    BY <1>0, <1>4, <2>1, StandsNext, DeployReinstalls DEF StackInv, Deploy
  <2>3. Stands(Entry.instrument)'
    BY <1>0, <2>1, DeployReinstalls DEF Stands
  <2> QED
    BY <2>1, <2>2, <2>3 DEF StackInv
<1>5. CASE Run \/ Collect \/ StartSave
  <2>1. /\ stage \notin {"idle", "monitoring"} /\ stage' \notin {"idle", "monitoring"}
        /\ Entry' = Entry
        /\ stage' \in {"save", "saved"} => todo' = << >>
    BY <1>5 DEF Run, Collect, StartSave, NextStage, loopVars, Entry
  <2>2. ASSUME NEW r \in Releases, Stands(r) PROVE Stands(r)'
    <3>1. NoTouch(<< Call("collect", "monitoring") >>, r)
      BY DEF NoTouch, Touches, Call
    <3>2. CASE Run
      BY <1>0, <2>1, <2>2, <3>2, StandsNext, WorkloadTouchesNothing DEF Run
    <3>3. CASE Collect
      BY <2>2, <3>1, <3>3, StandsNext DEF Collect
    <3>4. CASE StartSave
      BY <2>2, <3>4, StandsNext, NothingLeft DEF StartSave
    <3> QED
      BY <1>5, <3>2, <3>3, <3>4
  <2>3. Stands("monitoring") /\ Stands(Entry.instrument)
    BY <2>1 DEF StackInv
  <2>4. Stands("monitoring")' /\ Stands(Entry.instrument)'
    BY <1>0, <2>1, <2>2, <2>3
  <2> QED
    BY <2>1, <2>4 DEF StackInv
<1>6. CASE SaveFails
  BY <1>6, NothingLeft DEF SaveFails, StackInv, Stands
<1>7. CASE Save \/ Signal \/ Environment \/ UNCHANGED vars
  <2>1. /\ UNCHANGED << attempt, next, todo, err >> /\ Entry' = Entry
        /\ ClusterStep \/ UNCHANGED clusterVars
        /\ stage' = stage \/ (stage = "save" /\ stage' = "saved")
    BY <1>7 DEF Save, Signal, Environment, vars, loopVars, runVars, Entry
  <2>2. ASSUME NEW r \in Releases, Stands(r) PROVE Stands(r)'
    BY <2>1, <2>2, StandsElse
  <2>3. stage # "idle" => Stands("monitoring")'
    BY <1>0, <2>2 DEF StackInv
  <2>4. stage \notin {"idle", "monitoring"} => Stands(Entry.instrument)'
    BY <1>0, <2>1, <2>2 DEF StackInv
  <2> QED
    BY <2>1, <2>3, <2>4 DEF StackInv
<1>8. ASSUME SkipInvalid \/ ExperimentFails \/ ExperimentSucceeds \/ Exit \/ Crash
             \/ Restart
      PROVE  stage' = "idle"
  BY <1>8 DEF SkipInvalid, ExperimentFails, ExperimentSucceeds, Exit, Crash, Restart,
     Idle, runVars, TypeInv, Busy
<1> QED
  BY <1>1, <1>2, <1>3, <1>4, <1>5, <1>6, <1>7, <1>8 DEF Next, BenchStep, Terminating

\* A row is appended by Save and by nothing else.
LEMMA OnlySaves ==
  ASSUME [Next]_vars, ~Save
  PROVE  rows' = rows
  BY DEF Next, BenchStep, SkipInvalid, StartExperiment, ExperimentFails,
     ExperimentSucceeds, Exit, CallReturns, CallRefused, CallCancelled, CallFails,
     ListFails, StripFails, SignalInDeletion, GiveUp, Deploy, Run, Collect, StartSave,
     NextStage, SaveFails, Signal, Crash, Restart, Environment, Terminating, runVars, vars

\* Every step keeps the rows faithful: only Save adds one.
LEMMA RowStep ==
  ASSUME TypeInv, StackInv, RowFaithful, [Next]_vars
  PROVE  RowFaithful'
<1>1. CASE Save
  <2>1. Stands("monitoring") /\ Stands(Entry.instrument) /\ todo = << >> /\ ~err
    BY <1>1 DEF Save, StackInv
  <2>2. Up("monitoring") /\ Up(Entry.instrument) /\ Entry.instrument \in Instruments
    BY <1>1, <2>1, NothingLeft, EntryType DEF Stands, TypeInv, TypeOK, Busy, Save
  <2>3. /\ Row.stack.status = "deployed" /\ Row.stack.by = Row.attempt
        /\ Row.central.status = "deployed" /\ Row.central.by = Row.attempt
        /\ Row.entry.instrument # "opensearch" => Row.stack.retention = Row.entry.retention
    BY <2>2 DEF Row, Up
  <2>4. Row \in RowRecord
    BY <1>1, EntryType DEF Save, Row, RowRecord, ClusterTypeOK, RunTypeOK, Busy, Releases,
       TypeInv, TypeOK
  <2>5. /\ Len(rows) \in Nat /\ Len(rows') = Len(rows) + 1
        /\ \A k \in 1..Len(rows) : rows'[k] = rows[k]
        /\ rows'[Len(rows) + 1] = Row
    BY <1>1, <2>4, AppendProperties, LenProperties DEF Save, TypeInv, TypeOK, RunTypeOK
  <2>6. \A k \in 1..Len(rows') : k \in 1..Len(rows) \/ k = Len(rows) + 1
    BY <2>5
  <2> QED
    BY <2>3, <2>5, <2>6 DEF RowFaithful
<1>2. CASE ~Save
  BY <1>2, OnlySaves DEF RowFaithful
<1> QED
  BY <1>1, <1>2

\* Every row was measured on the stack and the central Prometheus its own
\* experiment installed, whatever the batch, the failures, the signals, the deaths
\* of the process and the state of the cluster it started in (usecase.go:54-83).
THEOREM RowsAreFaithful == Spec => []RowFaithful
<1>1. Init => RowInv
  BY DEF Init, ProcessInit, RowInv, StackInv, RowFaithful
<1>2. TypeInv /\ RowInv /\ [Next]_vars => RowInv'
  BY StackStep, RowStep DEF RowInv
<1>3. RowInv => RowFaithful
  BY DEF RowInv
<1> QED
  BY <1>1, <1>2, <1>3, TypeInvariant, PTL DEF Spec

-----------------------------------------------------------------------------
(* The counters, the exit code and the table.                               *)

\* The rows this process has saved since it started.
Recorded == IF stage = "saved" THEN succeeded + 1 ELSE succeeded

\* The last n rows are those of the first n entries.
LastRows(n) ==
  Len(rows) >= n /\ \A k \in 1..n : rows[Len(rows) - n + k].entry = Batch[k]

AccountInv ==
  /\ succeeded + failed = next - 1
  /\ proc = "exited" /\ exitCode = 0 => failed = 0 /\ next = Len(Batch) + 1
  /\ proc # "dead" /\ failed = 0 => LastRows(Recorded)
  /\ stage = "saved" => ~err

\* Every step keeps the account of rows and counters.
LEMMA AccountStep ==
  ASSUME TypeInv, StackInv, AccountInv, [Next]_vars
  PROVE  AccountInv'
<1>0. /\ succeeded \in Nat /\ failed \in Nat /\ next \in Nat /\ Len(Batch) \in Nat
      /\ next <= Len(Batch) + 1 /\ rows \in Seq(RowRecord) /\ Len(rows) \in Nat
  BY BatchLength, LenProperties DEF TypeInv, TypeOK, RunTypeOK
<1>1. CASE SkipInvalid \/ ExperimentFails
  <2>1. /\ next' = next + 1 /\ failed' = failed + 1 /\ succeeded' = succeeded
        /\ proc' = proc /\ proc = "running" /\ stage' = "idle"
    BY <1>1 DEF SkipInvalid, ExperimentFails, Idle, runVars
  <2> QED
    BY <1>0, <2>1 DEF AccountInv
<1>2. CASE ExperimentSucceeds
  <2>1. /\ next' = next + 1 /\ failed' = failed /\ succeeded' = succeeded + 1
        /\ proc' = proc /\ proc = "running" /\ stage = "saved" /\ stage' = "idle"
        /\ rows' = rows
    BY <1>2 DEF ExperimentSucceeds
  <2>2. Recorded' = Recorded
    BY <2>1 DEF Recorded
  <2> QED
    BY <1>0, <2>1, <2>2 DEF AccountInv, LastRows
<1>3. CASE Save
  <2>1. /\ UNCHANGED << next, failed, succeeded, proc, exitCode, err, todo >>
        /\ stage = "save" /\ stage' = "saved" /\ ~err /\ rows' = Append(rows, Row)
        /\ proc = "running"
    BY <1>3 DEF Save, loopVars
  <2>2. /\ next <= Len(Batch) /\ Row.entry = Batch[next] /\ Row \in RowRecord
    BY <2>1, EntryType DEF Row, Entry, RowRecord, ClusterTypeOK, RunTypeOK, Busy, Releases,
       TypeInv, TypeOK
  <2>3. /\ Len(rows') = Len(rows) + 1
        /\ \A k \in 1..Len(rows) : rows'[k] = rows[k]
        /\ rows'[Len(rows) + 1] = Row
    BY <1>0, <2>1, <2>2, AppendProperties
  <2>4. Recorded = succeeded /\ Recorded' = succeeded + 1
    BY <2>1 DEF Recorded
  <2>5. failed = 0 => LastRows(Recorded)'
    <3>1. SUFFICES ASSUME failed = 0 PROVE LastRows(Recorded)'
      OBVIOUS
    <3>2. next = succeeded + 1 /\ LastRows(succeeded)
      BY <1>0, <2>1, <2>4, <3>1 DEF AccountInv
    <3>3. Len(rows') >= succeeded + 1
      BY <1>0, <2>3, <3>2 DEF LastRows
    <3>4. ASSUME NEW k \in 1..(succeeded + 1)
          PROVE  rows'[Len(rows') - (succeeded + 1) + k].entry = Batch[k]
      <4>1. Len(rows') - (succeeded + 1) + k = Len(rows) - succeeded + k
        BY <1>0, <2>3
      <4>2. CASE k = succeeded + 1
        BY <1>0, <2>2, <2>3, <3>2, <4>1, <4>2
      <4>3. CASE k \in 1..succeeded
        <5>1. Len(rows) - succeeded + k \in 1..Len(rows)
          BY <1>0, <3>2, <4>3 DEF LastRows
        <5> QED
          BY <2>3, <3>2, <4>1, <4>3, <5>1 DEF LastRows
      <4> QED
        BY <1>0, <4>2, <4>3
    <3> QED
      BY <2>4, <3>3, <3>4 DEF LastRows
  <2> QED
    BY <2>1, <2>5 DEF AccountInv
<1>4. CASE Exit
  <2>1. /\ UNCHANGED << next, failed, succeeded, stage, err, rows >> /\ next > Len(Batch)
        /\ proc = "running" /\ stage = "idle"
        /\ exitCode' = 0 => failed = 0
    BY <1>0, <1>4 DEF Exit, Idle, runVars
  <2>2. Recorded' = Recorded
    BY <2>1 DEF Recorded
  <2> QED
    BY <1>0, <2>1, <2>2 DEF AccountInv, LastRows
<1>5. CASE Restart
  <2>1. /\ next' = 1 /\ succeeded' = 0 /\ failed' = 0 /\ proc' = "running"
        /\ stage' = stage /\ rows' = rows /\ stage = "idle"
    BY <1>5 DEF Restart, runVars, TypeInv, Busy
  <2> QED
    BY <1>0, <2>1 DEF AccountInv, Recorded, LastRows
<1>6. CASE Crash
  BY <1>6 DEF Crash, AccountInv
<1>7. CASE StartExperiment \/ CallReturns \/ CallRefused \/ CallCancelled \/ CallFails
           \/ ListFails \/ StripFails \/ SignalInDeletion
           \/ Deploy \/ Run \/ Collect \/ StartSave \/ SaveFails
  <2>1. /\ UNCHANGED << next, failed, succeeded, proc, exitCode, rows >>
        /\ stage # "saved" /\ stage' # "saved"
    BY <1>7 DEF StartExperiment, CallReturns, CallRefused, CallCancelled, CallFails,
       ListFails, StripFails, SignalInDeletion, InDeletion, GiveUp, AtCall, Idle, Deploy, Run, Collect, StartSave, NextStage,
       SaveFails, loopVars, StackInv
  <2> QED
    BY <2>1 DEF AccountInv, Recorded, LastRows
<1>8. CASE Signal \/ Environment \/ UNCHANGED vars
  <2>1. UNCHANGED << next, failed, succeeded, proc, exitCode, rows, stage, err >>
    BY <1>8 DEF Signal, Environment, loopVars, runVars, vars
  <2> QED
    BY <2>1 DEF AccountInv, Recorded, LastRows
<1> QED
  BY <1>1, <1>2, <1>3, <1>4, <1>5, <1>6, <1>7, <1>8 DEF Next, BenchStep, Terminating

\* The account of rows and counters holds in every state.
LEMMA AccountInvariant == Spec => [](TypeInv /\ StackInv /\ AccountInv)
<1>1. Init => StackInv /\ AccountInv
  BY EmptySeq DEF Init, ProcessInit, StackInv, AccountInv, Recorded, LastRows
<1>2. TypeInv /\ StackInv /\ AccountInv /\ [Next]_vars => StackInv' /\ AccountInv'
  BY StackStep, AccountStep
<1> QED
  BY <1>1, <1>2, TypeInvariant, PTL DEF Spec

\* The counters partition the entries gone through, and exit code 0 means that the
\* last rows of the table are those of the batch, in its order (command.go:67-95).
THEOREM ExitCodeTellsRows == Spec => []ExitTellsRows
<1>1. TypeInv /\ AccountInv => ExitTellsRows
  <2>1. SUFFICES ASSUME TypeInv, AccountInv PROVE ExitTellsRows
    OBVIOUS
  <2>2. /\ succeeded \in Nat /\ failed \in Nat /\ next \in Nat /\ Len(Batch) \in Nat
    BY <2>1, BatchLength DEF TypeInv, TypeOK, RunTypeOK
  <2>3. ASSUME proc = "exited", exitCode = 0
        PROVE  succeeded = Len(Batch) /\ LastRows(succeeded)
    BY <2>1, <2>2, <2>3 DEF AccountInv, Recorded, TypeInv, Busy
  <2> QED
    BY <2>1, <2>3 DEF ExitTellsRows, AccountInv, LastRows
<1> QED
  BY <1>1, AccountInvariant, PTL

-----------------------------------------------------------------------------
(* The process implements the ledger: every step of module Experiment is a *)
(* step of module Ledger or leaves it as it is.                            *)

\* The table of the ledger: one entry for each row.
LEMMA ClaimsType ==
  ASSUME NEW R \in Seq(RowRecord)
  PROVE  /\ [k \in 1..Len(R) |-> R[k].entry] \in Seq(Range(Batch))
         /\ Len([k \in 1..Len(R) |-> R[k].entry]) = Len(R)
<1>1. Len(R) \in Nat
  BY LenProperties
<1>2. ASSUME NEW k \in 1..Len(R) PROVE R[k].entry \in Range(Batch)
  <2>1. R[k] \in RowRecord
    BY ElementOfSeq
  <2> QED
    BY <2>1 DEF RowRecord
<1> QED
  BY <1>1, <1>2, IsASeq

\* What Save appends to the table, the ledger records.
LEMMA SaveRecords ==
  ASSUME TypeInv, Save
  PROVE  Claims' = Append(Claims, Batch[next]) /\ next <= Len(Batch) /\ Valid(Batch[next])
<1>1. /\ rows \in Seq(RowRecord) /\ RunTypeOK /\ next <= Len(Batch) /\ Valid(Entry)
      /\ Entry \in Range(Batch) /\ rows' = Append(rows, Row)
  BY EntryType DEF TypeInv, TypeOK, RunTypeOK, Busy, Save
<1>2. Row \in RowRecord /\ Row.entry = Entry
  BY EntryType DEF Save, Row, RowRecord, ClusterTypeOK, RunTypeOK, Busy, Releases, TypeInv,
     TypeOK
<1>3. /\ rows' \in Seq(RowRecord) /\ Len(rows') = Len(rows) + 1 /\ Len(rows) \in Nat
      /\ \A k \in 1..Len(rows) : rows'[k] = rows[k]
      /\ rows'[Len(rows) + 1] = Row
  BY <1>1, <1>2, AppendProperties, LenProperties
<1>4. /\ Claims \in Seq(Range(Batch)) /\ Len(Claims) = Len(rows)
      /\ \A k \in 1..Len(rows) : Claims[k] = rows[k].entry
  BY <1>1, ClaimsType DEF Claims
<1>6. /\ Claims' \in Seq(Range(Batch)) /\ Len(Claims') = Len(rows) + 1
      /\ \A k \in 1..(Len(rows) + 1) : Claims'[k] = rows'[k].entry
  BY <1>3, ClaimsType DEF Claims
<1>7. /\ Append(Claims, Entry) \in Seq(Range(Batch))
      /\ Len(Append(Claims, Entry)) = Len(rows) + 1
      /\ \A k \in 1..Len(rows) : Append(Claims, Entry)[k] = Claims[k]
      /\ Append(Claims, Entry)[Len(rows) + 1] = Entry
  BY <1>1, <1>4, AppendProperties
<1>8. \A k \in 1..(Len(rows) + 1) : Claims'[k] = Append(Claims, Entry)[k]
  <2>1. ASSUME NEW k \in 1..(Len(rows) + 1) PROVE Claims'[k] = Append(Claims, Entry)[k]
    <3>1. CASE k = Len(rows) + 1
      BY <1>2, <1>3, <1>6, <1>7, <3>1
    <3>2. CASE k \in 1..Len(rows)
      <4>1. Claims'[k] = rows'[k].entry
        BY <1>6
      <4>2. rows'[k].entry = rows[k].entry
        BY <1>3, <3>2
      <4>3. rows[k].entry = Claims[k]
        BY <1>4, <3>2
      <4>4. Claims[k] = Append(Claims, Entry)[k]
        BY <1>7, <3>2
      <4> QED
        BY <4>1, <4>2, <4>3, <4>4, Zenon
    <3>3. k = Len(rows) + 1 \/ k \in 1..Len(rows)
      BY <1>3
    <3> QED
      BY <3>1, <3>2, <3>3, Zenon
  <2> QED
    BY <2>1
<1>9. Claims' = Append(Claims, Entry)
  BY <1>6, <1>7, <1>8, SeqEqual
<1> QED
  BY <1>1, <1>9 DEF Entry

\* The table of the ledger changes with the rows only.
LEMMA SameClaims == ASSUME rows' = rows PROVE Claims' = Claims
  BY DEF Claims

\* The process starts where the ledger starts.
LEMMA InitLedger == Init => L!Init
<1> SUFFICES ASSUME Init PROVE L!Init
  OBVIOUS
<1>1. rows = << >> /\ proc = "running" /\ exitCode = 0 /\ next = 1 /\ succeeded = 0
      /\ failed = 0 /\ stage = "idle" /\ ctx = "live"
  BY DEF Init, ProcessInit
<1>2. Claims = << >>
  <2>1. Len(Claims) = 0 /\ Claims \in Seq(Range(Batch))
    BY <1>1, ClaimsType, EmptySeq DEF Claims
  <2> QED
    BY <2>1, EmptySeq
<1> QED
  BY <1>1, <1>2 DEF L!Init, L!Start

\* Every step of the process is a step of the ledger or changes nothing in it.
LEMMA StepLedger ==
  ASSUME TypeInv, StackInv, AccountInv, [Next]_vars
  PROVE  [L!Next]_(L!ledgerVars)
<1> USE DEF L!ledgerVars
<1>0. stage # "idle" => proc = "running" /\ next <= Len(Batch)
  BY DEF TypeInv, Busy
<1>1. CASE SkipInvalid \/ ExperimentFails
  <2>1. /\ proc = "running" /\ stage # "saved" /\ stage' # "saved" /\ next <= Len(Batch)
        /\ failed' = failed + 1 /\ next' = next + 1
        /\ UNCHANGED << rows, succeeded, ctx, proc, exitCode >>
    BY <1>0, <1>1 DEF SkipInvalid, ExperimentFails, Idle, runVars, AccountInv
  <2>2. L!CountFailure
    BY <2>1, SameClaims DEF L!CountFailure
  <2> QED
    BY <2>2 DEF L!Next
<1>2. CASE ExperimentSucceeds
  <2>1. L!CountSuccess
    BY <1>2, SameClaims DEF ExperimentSucceeds, L!CountSuccess
  <2> QED
    BY <2>1 DEF L!Next
<1>3. CASE Save
  <2>1. L!Record
    BY <1>3, SaveRecords DEF Save, loopVars, L!Record
  <2> QED
    BY <2>1 DEF L!Next
<1>4. CASE Exit
  <2>1. failed \in Nat
    BY DEF TypeInv, TypeOK, RunTypeOK
  <2>2. /\ exitCode' \in {0, 1}
        /\ exitCode' = 0 => failed = 0 /\ Batch # << >>
        /\ exitCode' = 1 => failed > 0 \/ Batch = << >> \/ ctx # "live"
    BY <1>4, <2>1 DEF Exit
  <2>3. L!Exit
    BY <1>4, <2>2, SameClaims DEF Exit, Idle, runVars, L!Exit
  <2> QED
    BY <2>3 DEF L!Next
<1>5. CASE Signal \/ SignalInDeletion
  <2>1. L!Signal
    BY <1>5, SameClaims DEF Signal, SignalInDeletion, InDeletion, AtCall, runVars, L!Signal
  <2> QED
    BY <2>1 DEF L!Next
<1>6. CASE Crash
  <2>1. L!Die
    BY <1>6, SameClaims DEF Crash, L!Die
  <2> QED
    BY <2>1 DEF L!Next
<1>7. CASE Restart
  <2>1. L!Again
    BY <1>0, <1>7, SameClaims DEF Restart, runVars, L!Again
  <2> QED
    BY <2>1 DEF L!Next
<1>8. CASE \/ StartExperiment \/ CallReturns \/ CallRefused \/ CallCancelled \/ CallFails
           \/ ListFails \/ StripFails \/ Deploy \/ Run \/ Collect \/ StartSave \/ SaveFails
           \/ Environment \/ UNCHANGED vars
  <2>1. /\ UNCHANGED << rows, next, succeeded, failed, ctx, proc, exitCode >>
        /\ stage' = stage \/ (stage # "saved" /\ stage' # "saved")
    BY <1>8 DEF StartExperiment, CallReturns, CallRefused, CallCancelled, CallFails,
       ListFails, StripFails, GiveUp, Idle, Deploy, Run, Collect, StartSave, NextStage, SaveFails,
       Environment, loopVars, runVars, vars
  <2> QED
    BY <2>1, SameClaims
<1> QED
  BY <1>1, <1>2, <1>3, <1>4, <1>5, <1>6, <1>7, <1>8 DEF Next, BenchStep, Terminating

\* The process keeps the promise of module Ledger: entries in order, one row for
\* each success and none for a failure, none after a signal, and a table that no
\* death of the process takes anything from (command.go:67-95, usecase.go:81-83).
THEOREM Implements == Spec => LedgerSpec
<1>1. TypeInv /\ StackInv /\ AccountInv /\ [Next]_vars => [L!Next]_(L!ledgerVars)
  BY StepLedger
<1> QED
  BY <1>1, InitLedger, AccountInvariant, PTL DEF Spec, LedgerSpec, L!Spec
=============================================================================
