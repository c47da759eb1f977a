------------------------------- MODULE Ledger -------------------------------
(***************************************************************************)
(* What run-batch promises of the table and of its counters, whatever      *)
(* happens in the cluster: the entries are gone through in order; each is  *)
(* either recorded once and then counted as a success, or counted as a     *)
(* failure and not recorded; nothing is recorded after a signal; the table *)
(* only grows; a process that dies takes its counters with it and not one  *)
(* row.                                                                    *)
(***************************************************************************)
EXTENDS Integers, Sequences

CONSTANTS
  Batch,     \* the entries
  Valid(_)   \* those that may be recorded

VARIABLES
  table,     \* the entries of the rows
  pos,       \* the entry the process is at
  recorded,  \* its row is in the table
  ok, bad,   \* successes and failures of this process
  live,      \* no signal has come
  up, code   \* the process runs; the exit code of the last one that ended

ledgerVars == << table, pos, recorded, ok, bad, live, up, code >>

Start == up = TRUE /\ code = 0 /\ pos = 1 /\ recorded = FALSE /\ ok = 0 /\ bad = 0
         /\ live = TRUE

Init == table = << >> /\ Start

Record ==
  /\ up /\ live /\ ~recorded
  /\ pos <= Len(Batch) /\ Valid(Batch[pos])
  /\ table' = Append(table, Batch[pos])
  /\ recorded' = TRUE
  /\ UNCHANGED << pos, ok, bad, live, up, code >>

CountSuccess ==
  /\ up /\ recorded
  /\ ok' = ok + 1 /\ pos' = pos + 1 /\ recorded' = FALSE
  /\ UNCHANGED << table, bad, live, up, code >>

CountFailure ==
  /\ up /\ ~recorded /\ pos <= Len(Batch)
  /\ bad' = bad + 1 /\ pos' = pos + 1
  /\ UNCHANGED << table, recorded, ok, live, up, code >>

Exit ==
  /\ up /\ ~recorded /\ pos > Len(Batch)
  /\ up' = FALSE
  /\ code' \in {0, 1}
  /\ code' = 0 => bad = 0 /\ Batch # << >>
  /\ code' = 1 => bad > 0 \/ Batch = << >> \/ ~live
  /\ UNCHANGED << table, pos, recorded, ok, bad, live >>

Signal ==
  /\ up /\ live
  /\ live' = FALSE
  /\ UNCHANGED << table, pos, recorded, ok, bad, up, code >>

Die ==
  /\ up
  /\ up' = FALSE /\ recorded' = FALSE
  /\ UNCHANGED << table, pos, ok, bad, live, code >>

Again ==
  /\ ~up
  /\ up' = TRUE /\ code' = 0 /\ pos' = 1 /\ ok' = 0 /\ bad' = 0 /\ live' = TRUE
  /\ UNCHANGED << table, recorded >>

Next == Record \/ CountSuccess \/ CountFailure \/ Exit \/ Signal \/ Die \/ Again

Spec == Init /\ [][Next]_ledgerVars
=============================================================================
