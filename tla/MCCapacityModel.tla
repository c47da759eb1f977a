--------------------------- MODULE MCCapacityModel ---------------------------
(***************************************************************************)
(* Ten rows: three loads with two short runs and one of a day each, whose  *)
(* growth is 4/5, 8/5 (above the bounds) and 0 (below them), figures that  *)
(* are zero, and a row of another stack.                                   *)
(***************************************************************************)
EXTENDS CapacityModel

Run(load, period, cpu, disk) ==
  [instrument |-> "vm", load |-> load, period |-> period, cpu |-> cpu, disk |-> disk]

MCRows ==
  { Run(1, -1, 2, 2), Run(1, -1, 6, 2), Run(1, 0, 9, 32),
    Run(2, -1, 6, 4), Run(2, -1, 0, 4), Run(2, 0, 1, 1024),
    Run(4, -1, 2, 16), Run(4, -1, 6, 0), Run(4, 0, 2, 16),
    [Run(1, -1, 60, 2) EXCEPT !.instrument = "loki"] }

MCHorizons == {-1, 0}
=============================================================================
