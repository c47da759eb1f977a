------------------------------ MODULE Cluster -------------------------------
(***************************************************************************)
(* The Kubernetes cluster as obs-bench sees it through its Helm and        *)
(* Kubernetes providers: the releases, the namespaces, the objects the     *)
(* providers create, and the load that reaches the stacks meanwhile.       *)
(* Every call of the providers has here its effect when it succeeds, what  *)
(* may remain of it when it fails, and the cluster state it cannot succeed *)
(* in (AlreadyExists, a name in use, a namespace that is Terminating).     *)
(***************************************************************************)
EXTENDS Stacks

VARIABLES
  release,   \* of each release: its status, and the experiment that installed it
  ns,        \* of each namespace: absent, active or terminating
  objects,   \* of each namespace: the objects created in it beside the release
  scoped,    \* of each release: its cluster-scoped objects that exist
  exporter,  \* SERIES of the deployment metrics-exporter, 0 if there is none
  producer,  \* of the deployment log-producer: its backend and LOGS_PER_SEC
  ingested   \* of each instrument: the loads its data volume has samples of

clusterVars == << release, ns, objects, scoped, exporter, producer, ingested >>

NoRelease == [status |-> "none", by |-> 0, retention |-> 0, exposed |-> 0]
NoProducer == [to |-> "-", load |-> 0]

\* Webhook configurations and cluster roles live outside the namespaces.
ChartScoped(r) == CASE r = "monitoring" -> {"webhook"}
                    [] r = "victoria_metrics" -> {"webhook", "roles"}
                    [] OTHER -> {}

ChartObjects(r) == IF r = "victoria_metrics" THEN {"operated"} ELSE {}

\* Custom resources with the finalizer of the VM operator: they survive the
\* namespace when its deletion is forced.
Finalized == {"scrape", "operated"}

ReleaseRecord == [status : {"none", "failed", "deployed"}, by : Nat,
                  retention : Nat, exposed : Nat]

ClusterTypeOK ==
  /\ release \in [Releases -> ReleaseRecord]
  /\ ns \in [Namespaces -> {"absent", "active", "terminating"}]
  /\ objects \in [Namespaces -> SUBSET Objects]
  /\ scoped \in [Releases -> SUBSET {"webhook", "roles"}]
  /\ exporter \in Nat
  /\ producer \in [to : Instruments \cup {"-"}, load : Nat]
  /\ ingested \in [Instruments -> SUBSET Nat]

ClusterInit ==
  /\ release = [r \in Releases |-> NoRelease]
  /\ ns = [n \in Namespaces |-> "absent"]
  /\ objects = [n \in Namespaces |-> {}]
  /\ scoped = [r \in Releases |-> {}]
  /\ exporter = 0
  /\ producer = NoProducer
  /\ ingested = [i \in Instruments |-> {}]

-----------------------------------------------------------------------------
(* The load. *)

\* The load that instrument i is being sent: Prometheus has a static target, the
\* VictoriaMetrics agent follows the VMServiceScrape, logs are pushed.
Served(i) ==
  CASE i = "prometheus" ->
         IF "exporter-service" \in objects["metrics-provider"] THEN exporter ELSE 0
    [] i = "victoria_metrics" ->
         IF /\ "exporter-service" \in objects["metrics-provider"]
            /\ "scrape" \in objects[i]
           THEN exporter ELSE 0
    [] OTHER -> IF producer.to = i THEN producer.load ELSE 0

\* A scrape or a push lands in a stack that is up.
Ingest(i) ==
  /\ release[i].status # "none"
  /\ ns[i] = "active"
  /\ Served(i) # 0
  /\ ingested' = [ingested EXCEPT ![i] = @ \cup {Served(i)}]
  /\ UNCHANGED << release, ns, objects, scoped, exporter, producer >>

-----------------------------------------------------------------------------
(* Effects of the calls that succeed. *)

\* TryUninstall. Hooks are disabled: the chart's cluster-scoped objects and the
\* resources of the VM operator may outlive the release.
Uninstalled(r) ==
  /\ release' = [release EXCEPT ![r] = NoRelease]
  /\ \E left \in SUBSET scoped[r] : scoped' = [scoped EXCEPT ![r] = left]
  /\ \E gone \in SUBSET (objects[r] \cap ChartObjects(r)) :
       objects' = [objects EXCEPT ![r] = @ \ gone]
  /\ UNCHANGED << ns, exporter, producer, ingested >>

\* A plausible slip: the data volume is bound again by the next namespace.
NamespaceGoneVolumeStays(n) ==
  /\ ns' = [ns EXCEPT ![n] = "absent"]
  /\ objects' = [objects EXCEPT ![n] = @ \cap Finalized]
  /\ release' = [r \in Releases |-> IF r = n THEN NoRelease ELSE release[r]]
  /\ exporter' = IF n = "metrics-provider" THEN 0 ELSE exporter
  /\ producer' = IF n = "log-producer" THEN NoProducer ELSE producer
  /\ UNCHANGED << scoped, ingested >>

\* The namespace is gone with everything in it, the release record and the data
\* volume included; finalized custom resources remain, and what else was kept.
Vanished(n, kept) ==
  /\ ns' = [ns EXCEPT ![n] = "absent"]
  /\ objects' = [objects EXCEPT ![n] = (@ \cap Finalized) \cup kept]
  /\ release' = [r \in Releases |-> IF r = n THEN NoRelease ELSE release[r]]
  /\ ingested' = [i \in Instruments |-> IF i = n THEN {} ELSE ingested[i]]
  /\ exporter' = IF n = "metrics-provider" THEN 0 ELSE exporter
  /\ producer' = IF n = "log-producer" THEN NoProducer ELSE producer
  /\ UNCHANGED scoped

NamespaceGone(n) == Vanished(n, {})

\* The finalizers of the claims were not stripped, the namespace was finalized all the
\* same. No pod can mount a claim that is in deletion, so its volume is lost to all.
NamespaceUnstripped(n) == Vanished(n, {"claim"})

\* A wait cut short by a signal: the namespace is finalized before its content is
\* deleted, and what was in it may outlive it (module NamespaceDeletion).
NamespaceForced(n) ==
  /\ ns' = [ns EXCEPT ![n] = "absent"]
  /\ release' = [r \in Releases |-> IF r = n THEN NoRelease ELSE release[r]]
  /\ \E left \in SUBSET objects[n] :
       /\ objects' = [objects EXCEPT ![n] = left]
       /\ exporter' = IF n = "metrics-provider" /\ "exporter" \notin left
                        THEN 0 ELSE exporter
       /\ producer' = IF n = "log-producer" /\ "producer" \notin left
                        THEN NoProducer ELSE producer
  /\ UNCHANGED << scoped, ingested >>

\* What install.RunWithContext leaves: status "failed" when it gave up midway.
Installed(r, by, retention, status) ==
  /\ release' = [release EXCEPT ![r] =
       [status |-> status, by |-> by, retention |-> retention,
        exposed |-> CASE r \in MetricInstruments -> exporter
                      [] r \in LogInstruments -> Served(r)
                      [] OTHER -> 0]]
  /\ ns' = [ns EXCEPT ![r] = "active"]
  /\ scoped' = [scoped EXCEPT ![r] = ChartScoped(r)]
  /\ objects' = [objects EXCEPT ![r] = @ \cup ChartObjects(r)]
  /\ UNCHANGED << exporter, producer, ingested >>

DeleteScoped(r, kind) ==
  /\ scoped' = [scoped EXCEPT ![r] = @ \ {kind}]
  /\ UNCHANGED << release, ns, objects, exporter, producer, ingested >>

DeleteVMServiceScrape ==
  /\ objects' = [objects EXCEPT !["victoria_metrics"] = @ \ Finalized]
  /\ UNCHANGED << release, ns, scoped, exporter, producer, ingested >>

CreateNamespace(n) ==
  /\ ns' = [ns EXCEPT ![n] = "active"]
  /\ UNCHANGED << release, objects, scoped, exporter, producer, ingested >>

\* Any Create...: the two load deployments carry the load of the experiment.
Created(n, what, instrument, load) ==
  /\ objects' = [objects EXCEPT ![n] = @ \cup {what}]
  /\ exporter' = IF what = "exporter" THEN load ELSE exporter
  /\ producer' = IF what = "producer" THEN [to |-> instrument, load |-> load]
                                      ELSE producer
  /\ UNCHANGED << release, ns, scoped, ingested >>

DeleteLogProducerDeployment ==
  /\ objects' = [objects EXCEPT !["log-producer"] = @ \ {"producer"}]
  /\ producer' = NoProducer
  /\ UNCHANGED << release, ns, scoped, exporter, ingested >>

-----------------------------------------------------------------------------
(* What stands in the way of a call, whatever its context and its retries.  *)
(* "exposed" of a release is the load that was already there at its install.*)

Blocked(c) ==
  \/ /\ c.op = "uninstall"
     /\ release[c.on].status # "none"
     /\ c.on = "victoria_metrics" /\ "webhook" \in scoped[c.on]
  \/ /\ c.op = "createNs"
     /\ ns[c.on] # "absent"
  \/ /\ c.op = "up"
     /\ \/ release[c.on].status # "none"
        \/ ns[c.on] = "terminating"
        \/ scoped[c.on] # {}
        \/ objects[c.on] \cap ChartObjects(c.on) # {}
        \/ "claim" \in objects[c.on]
  \/ /\ c.op = "create"
     /\ \/ ns[c.on] # "active"
        \/ c.what \in objects[c.on]
        \/ c.what = "scrape" /\ "webhook" \in scoped[c.on]
  \/ /\ c.op \in {"waitPVC", "query", "collect"}
     /\ release[c.on].status # "deployed"

\* The effect of call c when it succeeds, made for entry e by experiment a.
Effect(c, e, a, retention) ==
  CASE c.op = "uninstall" -> Uninstalled(c.on)
    [] c.op = "webhooks" -> DeleteScoped(c.on, "webhook")
    [] c.op = "roles" -> DeleteScoped(c.on, "roles")
    [] c.op = "scrapes" -> DeleteVMServiceScrape
    [] c.op = "deleteNs" /\ ns[c.on] # "absent" -> NamespaceGone(c.on)
    [] c.op = "createNs" -> CreateNamespace(c.on)
    [] c.op = "up" -> Installed(c.on, a, retention, "deployed")
    [] c.op = "create" -> Created(c.on, c.what, e.instrument, e.load)
    [] c.op = "stopProducer" -> DeleteLogProducerDeployment
    [] OTHER -> UNCHANGED clusterVars

\* What a call that reports an error may have changed all the same. An installation
\* that its context abandons is recorded as failed, and goes on in a goroutine of
\* Helm that may still complete it.
Remains(c, e, a, retention) ==
  \/ UNCHANGED clusterVars
  \/ /\ c.op = "up" /\ ~Blocked(c)
     /\ \E status \in {"failed", "deployed"} : Installed(c.on, a, retention, status)
  \/ /\ c.op = "deleteNs" /\ ns[c.on] = "active"
     /\ ns' = [ns EXCEPT ![c.on] = "terminating"]
     /\ UNCHANGED << release, objects, scoped, exporter, producer, ingested >>
  \/ c.op \in {"create", "createNs"} /\ ~Blocked(c) /\ Effect(c, e, a, retention)

ClaimGone(n) ==
  /\ "claim" \in objects[n]
  /\ objects' = [objects EXCEPT ![n] = @ \ {"claim"}]
  /\ UNCHANGED << release, ns, scoped, exporter, producer, ingested >>

\* A namespace left Terminating goes away by itself, and so may a claim.
ClusterStep ==
  \/ \E i \in Instruments : Ingest(i)
  \/ \E n \in Namespaces : ns[n] = "terminating" /\ NamespaceGone(n)
  \/ \E n \in Namespaces : ClaimGone(n)
=============================================================================
