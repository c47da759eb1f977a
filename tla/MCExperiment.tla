---------------------------- MODULE MCExperiment ----------------------------
(* Batches of module Experiment for TLC. *)
EXTENDS Experiment

E(instrument, load, retention) ==
  [instrument |-> instrument, load |-> load, retention |-> retention, duration |-> 180]

\* Both metric stacks, the one with the longest clean-up twice; an entry that
\* validation refuses.
MetricsBatch == << E("victoria_metrics", 1, 30), E("prometheus", 2, 7),
                   E("opensearch", 2, 7), E("prometheus", 0, 7),
                   E("victoria_metrics", 3, 1) >>

\* A log backend twice: what is left of its first load would reach it again.
LogsBatch == << E("loki", 1, 7), E("loki", 2, 30) >>

\* One experiment, started again and again.
RerunBatch == << E("victoria_metrics", 1, 7) >>

\* A metric stack twice, with different loads.
ReloadBatch == << E("prometheus", 1, 7), E("prometheus", 2, 7) >>
=============================================================================
