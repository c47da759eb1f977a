------------------------------- MODULE Stacks -------------------------------
(***************************************************************************)
(* What an experiment asks of the cluster: the instruments, the namespaces *)
(* of the topology, and for every part of an experiment the sequence of    *)
(* provider calls the service of that part makes, in the order it makes    *)
(* them. Every service returns at the first call that fails, so a service  *)
(* is its sequence of calls.                                               *)
(*                                                                         *)
(* Constant-level: the calls are executed by module Experiment, against    *)
(* the cluster of module Cluster.                                          *)
(***************************************************************************)
EXTENDS Integers, Sequences

MetricInstruments == {"prometheus", "victoria_metrics"}
LogInstruments == {"loki", "opensearch"}
Instruments == MetricInstruments \cup LogInstruments

IsLogBackend(i) == i \in LogInstruments

\* The central kube-prometheus-stack and the four instruments are each one Helm
\* release in a namespace of its own; a release is named here by its namespace.
Releases == {"monitoring"} \cup Instruments

Namespaces == Releases \cup {"metrics-provider", "log-producer"}

\* What the services create besides the release itself. "scrape" is the
\* VMServiceScrape; "operated" are the custom resources of the VM operator; "claim"
\* is a volume claim that its finalizer has kept over the end of its namespace.
Objects == {"disk-exporter", "disk-service", "disk-monitor", "self-monitor",
            "scrape", "operated", "claim", "exporter", "exporter-service", "producer"}

-----------------------------------------------------------------------------
(* Calls. Every call may fail; what it changes when it succeeds is in Cluster. *)

Ops == {"image", "uninstall", "webhooks", "roles", "scrapes", "deleteNs",
        "createNs", "up", "create", "waitPVC", "query", "stopProducer", "collect"}

Calls == [op : Ops \ {"create"}, on : Namespaces, what : {"-"}]
         \cup [op : {"create"}, on : Namespaces, what : Objects]

Call(op, on) == [op |-> op, on |-> on, what |-> "-"]

Create(on, what) == [op |-> "create", on |-> on, what |-> what]

\* Tag, RecreateImageWithNewTag and PushImage: nothing of them reaches the cluster.
Image(on) == Call("image", on)

DiskObjects(i) == << Create(i, "disk-exporter"),
                     Create(i, "disk-service"),
                     Create(i, "disk-monitor") >>

\* RecreateNamespace: the deletion, then the creation.
RecreateNs(n) == << Call("deleteNs", n), Call("createNs", n) >>

-----------------------------------------------------------------------------
(* UpMonitoring and the Deploy of the four stacks. *)

\* A plausible slip: the admission webhooks are left to the uninstallation.
MonitoringCallsNoWebhooks ==
  << Call("uninstall", "monitoring"), Call("deleteNs", "monitoring"),
     Call("up", "monitoring") >>

MonitoringCalls ==
  << Call("uninstall", "monitoring"), Call("webhooks", "monitoring"),
     Call("deleteNs", "monitoring"), Call("up", "monitoring") >>

PrometheusCalls ==
  << Image("prometheus"), Call("uninstall", "prometheus"),
     Call("deleteNs", "prometheus"), Call("up", "prometheus") >>
  \o DiskObjects("prometheus")
  \o << Create("prometheus", "self-monitor") >>

\* A plausible slip: the finalized custom resources are left to the namespace.
VictoriaMetricsCallsKeepScrapes ==
  << Image("victoria_metrics"), Call("webhooks", "victoria_metrics"),
     Call("uninstall", "victoria_metrics"), Call("roles", "victoria_metrics"),
     Call("deleteNs", "victoria_metrics"), Call("up", "victoria_metrics"),
     Call("webhooks", "victoria_metrics"), Create("victoria_metrics", "scrape") >>
  \o DiskObjects("victoria_metrics")
  \o << Create("victoria_metrics", "self-monitor") >>

VictoriaMetricsCalls ==
  << Image("victoria_metrics"), Call("webhooks", "victoria_metrics"),
     Call("uninstall", "victoria_metrics"), Call("roles", "victoria_metrics"),
     Call("scrapes", "victoria_metrics"), Call("deleteNs", "victoria_metrics"),
     Call("up", "victoria_metrics"), Call("webhooks", "victoria_metrics"),
     Create("victoria_metrics", "scrape") >>
  \o DiskObjects("victoria_metrics")
  \o << Create("victoria_metrics", "self-monitor") >>

LokiCalls ==
  << Call("uninstall", "loki"), Call("deleteNs", "loki"), Call("up", "loki"),
     Create("loki", "self-monitor"), Image("loki"), Call("waitPVC", "loki") >>
  \o DiskObjects("loki")

OpenSearchCalls ==
  << Call("uninstall", "opensearch"), Call("deleteNs", "opensearch"),
     Call("up", "opensearch"), Image("opensearch") >>
  \o DiskObjects("opensearch")

DeployCalls(i) == CASE i = "prometheus" -> PrometheusCalls
                    [] i = "victoria_metrics" -> VictoriaMetricsCalls
                    [] i = "loki" -> LokiCalls
                    [] i = "opensearch" -> OpenSearchCalls

-----------------------------------------------------------------------------
(* The workload: UpMetricsProvider or UpLogProvider, then the read load.    *)
(* For a log backend runLogExperiment defers the deletion of the producer   *)
(* once UpLogProvider has succeeded, so it comes after runQueryLoad however *)
(* that ends.                                                               *)

UpMetricsProvider ==
  << Image("metrics-provider") >> \o RecreateNs("metrics-provider")
  \o << Create("metrics-provider", "exporter"),
        Create("metrics-provider", "exporter-service") >>

UpLogProvider ==
  << Image("log-producer") >> \o RecreateNs("log-producer")
  \o << Create("log-producer", "producer") >>

\* A plausible slip: the deferred deletion is forgotten.
WorkloadCallsNoStop(i) ==
  IF IsLogBackend(i) THEN UpLogProvider \o << Call("query", i) >>
                     ELSE UpMetricsProvider \o << Call("query", i) >>

WorkloadCalls(i) ==
  IF IsLogBackend(i)
    THEN UpLogProvider \o << Call("query", i), Call("stopProducer", "log-producer") >>
    ELSE UpMetricsProvider \o << Call("query", i) >>
=============================================================================
