------------------------------ MODULE Storage ------------------------------
(***************************************************************************)
(* The table resource_usage_info in its SQLite file, and the processes of  *)
(* obs-bench that open it: each creates the table if there is none, lists  *)
(* its columns, and replaces a table of the old layout inside one          *)
(* transaction; then it saves its rows. Nothing keeps two processes from   *)
(* doing so at once, and a process may die between any two statements.     *)
(*                                                                         *)
(* Of SQLite: a transaction is deferred. Its first read takes the shared   *)
(* lock, its first write the reserved lock, and it commits when nobody     *)
(* else holds the shared lock. Whoever finds a lock taken may wait for it  *)
(* or give up.                                                             *)
(***************************************************************************)
EXTENDS Stacks, FiniteSets

CONSTANTS
  Process,     \* processes of obs-bench on the same file
  None,        \* no process
  OldRows,     \* what a database from before the migration may hold
  Entries,     \* the experiments whose rows are saved
  MaxFaults,   \* bound: statements that fail of their own, and deaths
  MaxStarts,   \* bound: processes started
  MaxRows      \* bound: rows in the table

OldRow == [instrument : Instruments, load : Nat]

ASSUME NoneAssumption == None \notin Process

ASSUME OldRowsAssumption == OldRows \subseteq Seq(OldRow)

ASSUME EntriesAssumption ==
  Entries \subseteq [instrument : Instruments, load : Nat, retention : Nat]

ASSUME StorageBoundsAssumption ==
  MaxFaults \in Nat /\ MaxStarts \in Nat /\ MaxRows \in Nat

VARIABLES
  db,         \* what is committed: main is the table resource_usage_info, copy
              \* the table resource_usage_info_new
  draft,      \* what the holder of the reserved lock has changed
  reserved,   \* who holds the reserved lock
  shared,     \* who holds the shared lock
  pc,         \* where NewResourcesUsageInfoStorageProvider is in each process
  excused,    \* history: this start had a reason to fail
  faults, starts

vars == << db, draft, reserved, shared, pc, excused, faults, starts >>

lockVars == << draft, reserved, shared >>
boundVars == << faults, starts >>

InTransaction == {"dropNew", "createNew", "copy", "dropOld", "rename", "commit"}
Starting == {"create", "list"} \cup InTransaction
Places == Starting \cup {"ready", "down", "failed"}

NoTable == [layout |-> "none", rows |-> << >>]

\* A row of the old layout has a series, here load, and neither a kind of workload
\* nor a retention.
Row == [instrument : Instruments, load : Nat, retention : Nat,
        workload : {"logs", "metrics"}]

\* A plausible slip: SELECT * into the new table.
MigratedRowAsIs(r) == r

\* INSERT INTO resource_usage_info_new ... SELECT
MigratedRow(r) ==
  [instrument |-> r.instrument, load |-> r.load, retention |-> 7,
   workload |-> IF r.instrument \in {"loki", "opensearch"} THEN "logs" ELSE "metrics"]

MigratedRows(rows) == [k \in 1..Len(rows) |-> MigratedRow(rows[k])]

\* RunExperiment fills in the row.
RowOf(e) ==
  [instrument |-> e.instrument, load |-> e.load, retention |-> e.retention,
   workload |-> IF IsLogBackend(e.instrument) THEN "logs" ELSE "metrics"]

Empty == [main |-> NoTable, copy |-> NoTable]

OldTable(old) == [layout |-> "old", rows |-> old]

NewTable(rows) == [layout |-> "new", rows |-> rows]

Init ==
  /\ db \in {Empty} \cup { [main |-> OldTable(old), copy |-> NoTable] : old \in OldRows }
  /\ draft = Empty /\ reserved = None /\ shared = {}
  /\ pc = [p \in Process |-> "down"]
  /\ excused = [p \in Process |-> FALSE]
  /\ faults = 0 /\ starts = 0

-----------------------------------------------------------------------------
(* One start, statement by statement. *)

Goes(p, to) == pc' = [pc EXCEPT ![p] = to]

\* What p reads within its transaction.
View(p) == IF reserved = p THEN draft ELSE db

CanWrite(p) == reserved \in {None, p}

\* A statement of p's transaction that changes the database.
Write(p, new) ==
  /\ CanWrite(p)
  /\ draft' = new
  /\ reserved' = p /\ shared' = shared \cup {p}
  /\ UNCHANGED db

Begin(p) ==
  /\ pc[p] \in {"down", "failed"} /\ starts < MaxStarts
  /\ starts' = starts + 1
  /\ Goes(p, "create")
  /\ excused' = [q \in Process |->
       IF q = p THEN \E o \in Process \ {p} : pc[o] \in Starting
                ELSE excused[q] \/ pc[q] \in Starting]
  /\ UNCHANGED << db, lockVars, faults >>

\* CREATE TABLE IF NOT EXISTS resource_usage_info, a transaction of its own.
CreateTable(p) ==
  /\ pc[p] = "create"
  /\ \/ db.main.layout # "none" /\ UNCHANGED db
     \/ /\ db.main.layout = "none"
        /\ reserved = None /\ shared = {}
        /\ db' = [db EXCEPT !.main = NewTable(<< >>)]
  /\ Goes(p, "list")
  /\ UNCHANGED << lockVars, excused, boundVars >>

\* A plausible slip: the names of the columns are compared in another case.
IsMigratedNever(layout) == layout = "NEW"

\* cols.has of workload_type, load_value and retention_days
IsMigrated(layout) == layout = "new"

\* PRAGMA table_info reads before the transaction begins: what it finds may have
\* changed by then. BeginTx takes no lock.
ListColumns(p) ==
  /\ pc[p] = "list"
  /\ Goes(p, IF IsMigrated(db.main.layout) THEN "ready" ELSE "dropNew")
  /\ UNCHANGED << db, lockVars, excused, boundVars >>

\* DROP TABLE IF EXISTS resource_usage_info_new: where there is none it only reads.
DropNew(p) ==
  /\ pc[p] = "dropNew"
  /\ IF View(p).copy.layout = "none"
       THEN shared' = shared \cup {p} /\ UNCHANGED << db, draft, reserved >>
       ELSE Write(p, [View(p) EXCEPT !.copy = NoTable])
  /\ Goes(p, "createNew")
  /\ UNCHANGED << excused, boundVars >>

\* The error of that statement, and of no other, is ignored.
DropNewFails(p) ==
  /\ pc[p] = "dropNew" /\ faults < MaxFaults
  /\ faults' = faults + 1
  /\ excused' = [excused EXCEPT ![p] = TRUE]
  /\ Goes(p, "createNew")
  /\ UNCHANGED << db, lockVars, starts >>

\* A statement of the migration, whose error is not ignored.
Statement(p, from, to, new) ==
  /\ pc[p] = from
  /\ Write(p, new)
  /\ Goes(p, to)
  /\ UNCHANGED << excused, boundVars >>

CreateNew(p) ==
  /\ View(p).copy.layout = "none"
  /\ Statement(p, "createNew", "copy", [View(p) EXCEPT !.copy = NewTable(<< >>)])

\* A plausible slip: the copy takes the load from whichever column there is.
CopyEither(p) ==
  Statement(p, "copy", "dropOld",
            [View(p) EXCEPT !.copy = NewTable(MigratedRows(View(p).main.rows))])

\* A table of the new layout has no column series to copy.
Copy(p) ==
  /\ View(p).main.layout = "old"
  /\ Statement(p, "copy", "dropOld",
               [View(p) EXCEPT !.copy = NewTable(MigratedRows(View(p).main.rows))])

DropOld(p) == Statement(p, "dropOld", "rename", [View(p) EXCEPT !.main = NoTable])

Rename(p) ==
  Statement(p, "rename", "commit", [main |-> View(p).copy, copy |-> NoTable])

\* p's locks, and what it had not committed, are gone.
Released(p) ==
  /\ reserved' = IF reserved = p THEN None ELSE reserved
  /\ draft' = IF reserved = p THEN Empty ELSE draft
  /\ shared' = shared \ {p}

\* A plausible slip: the result of Commit is dropped.
CommitUnchecked(p) ==
  /\ pc[p] = "commit"
  /\ db' = IF shared \subseteq {p} THEN View(p) ELSE db
  /\ Released(p)
  /\ Goes(p, "ready")
  /\ UNCHANGED << excused, boundVars >>

Commit(p) ==
  /\ pc[p] = "commit"
  /\ shared \subseteq {p}
  /\ db' = View(p)
  /\ Released(p)
  /\ Goes(p, "ready")
  /\ UNCHANGED << excused, boundVars >>

\* The statement p is at finds a lock taken.
Busy(p) ==
  \/ pc[p] = "create" /\ db.main.layout = "none" /\ (reserved # None \/ shared # {})
  \/ pc[p] \in InTransaction \ {"dropNew"} /\ ~CanWrite(p)
  \/ pc[p] = "commit" /\ ~(shared \subseteq {p})

\* The statement p is at does not fit the tables there are.
Refused(p) ==
  \/ pc[p] = "createNew" /\ View(p).copy.layout # "none"
  \/ pc[p] = "copy" /\ View(p).main.layout # "old"

\* The constructor returns the error: the deferred Rollback, then db.Close.
StartFails(p) ==
  /\ pc[p] \in Starting
  /\ \/ (Busy(p) \/ Refused(p)) /\ UNCHANGED << excused, faults >>
     \/ /\ faults < MaxFaults /\ faults' = faults + 1
        /\ excused' = [excused EXCEPT ![p] = TRUE]
  /\ Released(p)
  /\ Goes(p, "failed")
  /\ UNCHANGED << db, starts >>

-----------------------------------------------------------------------------
(* Afterwards. *)

\* An INSERT is a transaction of its own; where it fails nothing has changed.
Save(p) ==
  /\ pc[p] = "ready" /\ Len(db.main.rows) < MaxRows
  /\ reserved = None /\ shared = {}
  /\ db.main.layout = "new"
  /\ \E e \in Entries : db' = [db EXCEPT !.main.rows = Append(@, RowOf(e))]
  /\ UNCHANGED << lockVars, pc, excused, boundVars >>

Close(p) ==
  /\ pc[p] = "ready"
  /\ Goes(p, "down")
  /\ UNCHANGED << db, lockVars, excused, boundVars >>

\* The process dies: its journal is rolled back by whoever opens the file next.
Crash(p) ==
  /\ pc[p] \in Starting \cup {"ready"} /\ faults < MaxFaults
  /\ faults' = faults + 1
  /\ Released(p)
  /\ Goes(p, "down")
  /\ UNCHANGED << db, excused, starts >>

Step(p) ==
  \/ Begin(p) \/ CreateTable(p) \/ ListColumns(p)
  \/ DropNew(p) \/ DropNewFails(p) \/ CreateNew(p) \/ Copy(p) \/ DropOld(p)
  \/ Rename(p) \/ Commit(p) \/ StartFails(p)
  \/ Save(p) \/ Close(p) \/ Crash(p)

\* No process is starting, and no other will be.
Terminating == (\A p \in Process : pc[p] \notin Starting) /\ UNCHANGED vars

Next == (\E p \in Process : Step(p)) \/ Terminating

Spec == Init /\ [][Next]_vars

-----------------------------------------------------------------------------
(* Properties. *)

Tables ==
  {NoTable} \cup [layout : {"old"}, rows : Seq(OldRow)]
            \cup [layout : {"new"}, rows : Seq(Row)]

TypeOK ==
  /\ db \in [main : Tables, copy : Tables] /\ draft \in [main : Tables, copy : Tables]
  /\ reserved \in Process \cup {None} /\ shared \subseteq Process
  /\ pc \in [Process -> Places]
  /\ excused \in [Process -> BOOLEAN]
  /\ faults \in Nat /\ starts \in Nat

\* A process whose provider has been constructed finds the table it will insert
\* into in the layout it writes, whatever other processes have done to it since.
ReadyIsMigrated == \A p \in Process : pc[p] = "ready" => db.main.layout = "new"

\* A start fails only of a statement that failed of its own or because another
\* process was starting: whatever processes that failed or died half-way through
\* the migration have left, the next one to come alone opens the database.
CleanStart == \A p \in Process : pc[p] = "failed" => excused[p]

\* What somebody who reads the committed table finds in it, the rows of an old
\* database taken for what the migration makes of them.
ResultOf(r) ==
  [instrument |-> r.instrument, load |-> r.load, retention |-> 7,
   workload |-> IF IsLogBackend(r.instrument) THEN "logs" ELSE "metrics"]

Visible ==
  IF db.main.layout = "old" THEN [k \in 1..Len(db.main.rows) |-> ResultOf(db.main.rows[k])]
                       ELSE db.main.rows

Table == INSTANCE ResultTable WITH Results <- Row, results <- Visible

\* No row is lost, duplicated or rewritten by a migration that fails, dies, is
\* overtaken by another process or acts on columns listed before that; the row a
\* process saves is the only thing that ever changes what can be read.
TableSpec == Table!Spec
=============================================================================
