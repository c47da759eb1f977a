----------------------------- MODULE MCStorage -----------------------------
(* Two processes on a new database or an old one, for TLC. *)
EXTENDS Storage

CONSTANTS p1, p2

TwoProcesses == {p1, p2}

\* An old database without rows, and one with a row of either kind.
OldDatabases == { << >>, << [instrument |-> "loki", load |-> 1],
                            [instrument |-> "prometheus", load |-> 2] >> }

\* Neither a retention of 7 nor one the migration would give.
NewExperiments == { [instrument |-> "opensearch", load |-> 3, retention |-> 30],
                    [instrument |-> "victoria_metrics", load |-> 3, retention |-> 1] }
=============================================================================
