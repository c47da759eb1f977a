---------------------------- MODULE StorageProofs ---------------------------
(***************************************************************************)
(* Theorems about module Storage, for every set of processes, every old    *)
(* database and every set of experiments.                                  *)
(***************************************************************************)
EXTENDS Storage, SequenceTheorems, TLAPS

-----------------------------------------------------------------------------
(* Rows and tables. *)

\* What is saved is a row, and what the migration makes of an old row is the row
\* a reader takes it for: the SQL and the enumeration agree on the log backends.
LEMMA RowTypes ==
  /\ \A e \in Entries : RowOf(e) \in Row
  /\ \A r \in OldRow : MigratedRow(r) \in Row /\ MigratedRow(r) = ResultOf(r)
BY EntriesAssumption
   DEF RowOf, Row, OldRow, MigratedRow, ResultOf, IsLogBackend, LogInstruments

\* The copy of the rows of an old table.
LEMMA MigratedType ==
  ASSUME NEW rows \in Seq(OldRow)
  PROVE  /\ MigratedRows(rows) \in Seq(Row)
         /\ MigratedRows(rows) = [k \in 1..Len(rows) |-> ResultOf(rows[k])]
<1>1. Len(rows) \in Nat /\ \A k \in 1..Len(rows) : rows[k] \in OldRow
  BY ElementOfSeq, LenProperties
<1>2. \A k \in 1..Len(rows) : MigratedRow(rows[k]) \in Row
                              /\ MigratedRow(rows[k]) = ResultOf(rows[k])
  BY <1>1, RowTypes
<1>3. MigratedRows(rows) \in [1..Len(rows) -> Row]
  BY <1>2 DEF MigratedRows
<1> QED
  BY <1>1, <1>2, <1>3, SeqDef DEF MigratedRows

\* What there is to know of a table.
LEMMA TableTypes ==
  /\ NoTable \in Tables /\ NoTable.layout = "none" /\ NoTable.rows = << >>
  /\ \A rows \in Seq(OldRow) : OldTable(rows) \in Tables
  /\ \A rows \in Seq(Row) : /\ NewTable(rows) \in Tables
                            /\ NewTable(rows).layout = "new" /\ NewTable(rows).rows = rows
  /\ NewTable(<< >>) \in Tables
  /\ \A t \in Tables : /\ t.layout \in {"none", "old", "new"}
                       /\ t.layout = "none" => t = NoTable
                       /\ t.layout = "old" => t.rows \in Seq(OldRow)
                       /\ t.layout = "new" => t.rows \in Seq(Row)
<1>1. << >> \in Seq(Row)
  BY EmptySeq
<1> QED
  BY <1>1 DEF Tables, NoTable, OldTable, NewTable

-----------------------------------------------------------------------------
(* Types. *)

\* What p reads is a database.
LEMMA ViewType ==
  ASSUME TypeOK, NEW p \in Process
  PROVE  View(p) \in [main : Tables, copy : Tables]
  BY DEF TypeOK, View

\* A statement that writes keeps the types.
LEMMA WriteType ==
  ASSUME TypeOK, NEW p \in Process, NEW new \in [main : Tables, copy : Tables],
         Write(p, new)
  PROVE  /\ db' \in [main : Tables, copy : Tables]
         /\ draft' \in [main : Tables, copy : Tables]
         /\ reserved' \in Process \cup {None} /\ shared' \subseteq Process
  BY DEF TypeOK, Write

\* So does giving up the locks.
LEMMA ReleasedType ==
  ASSUME TypeOK, NEW p \in Process, Released(p)
  PROVE  /\ draft' \in [main : Tables, copy : Tables]
         /\ reserved' \in Process \cup {None} /\ shared' \subseteq Process
  BY TableTypes DEF TypeOK, Released, Empty

\* The types hold at first.
LEMMA InitType == Init => TypeOK
  BY TableTypes, OldRowsAssumption DEF Init, TypeOK, Empty, Places

\* Every step of a process keeps them.
LEMMA StepType ==
  ASSUME TypeOK, NEW p \in Process, Step(p)
  PROVE  TypeOK'
<1> DEFINE Database == [main : Tables, copy : Tables]
<1>1. View(p) \in Database
  BY ViewType
<1>2. \A to \in Places : Goes(p, to) => pc' \in [Process -> Places]
  BY DEF Goes, TypeOK
<1>3. CASE Begin(p)
  <2>1. excused' \in [Process -> BOOLEAN]
    <3>1. excused' = [q \in Process |->
            IF q = p THEN \E o \in Process \ {p} : pc[o] \in Starting
                     ELSE excused[q] \/ pc[q] \in Starting]
      BY <1>3 DEF Begin
    <3> QED
      BY <3>1, Zenon
  <2>2. starts' \in Nat /\ pc' \in [Process -> Places]
    BY <1>2, <1>3 DEF Begin, TypeOK, Places, Starting
  <2> QED
    BY <1>3, <2>1, <2>2 DEF Begin, TypeOK, lockVars
<1>4. CASE CreateTable(p)
  BY <1>2, <1>4, TableTypes
     DEF CreateTable, TypeOK, Places, Starting, lockVars, boundVars
<1>5. CASE ListColumns(p)
  BY <1>2, <1>5
     DEF ListColumns, TypeOK, Places, Starting, InTransaction, lockVars, boundVars
<1>6. CASE DropNew(p)
  <2>1. [View(p) EXCEPT !.copy = NoTable] \in Database
    BY <1>1, TableTypes
  <2> QED
    BY <1>2, <1>6, <2>1, WriteType
       DEF DropNew, TypeOK, Places, Starting, InTransaction, boundVars
<1>7. CASE DropNewFails(p)
  BY <1>2, <1>7 DEF DropNewFails, TypeOK, Places, Starting, InTransaction, lockVars
<1>8. CASE CreateNew(p)
  <2>1. [View(p) EXCEPT !.copy = NewTable(<< >>)] \in Database
    BY <1>1, TableTypes
  <2> QED
    BY <1>2, <1>8, <2>1, WriteType
       DEF CreateNew, Statement, TypeOK, Places, Starting, InTransaction, boundVars
<1>9. CASE Copy(p)
  <2>1. NewTable(MigratedRows(View(p).main.rows)) \in Tables
    BY <1>1, <1>9, TableTypes, MigratedType DEF Copy, Statement
  <2>2. [View(p) EXCEPT !.copy = NewTable(MigratedRows(View(p).main.rows))] \in Database
    BY <1>1, <2>1
  <2> QED
    BY <1>2, <1>9, <2>2, WriteType
       DEF Copy, Statement, TypeOK, Places, Starting, InTransaction, boundVars
<1>10. CASE DropOld(p)
  <2>1. [View(p) EXCEPT !.main = NoTable] \in Database
    BY <1>1, TableTypes
  <2> QED
    BY <1>2, <1>10, <2>1, WriteType
       DEF DropOld, Statement, TypeOK, Places, Starting, InTransaction, boundVars
<1>11. CASE Rename(p)
  <2>1. [main |-> View(p).copy, copy |-> NoTable] \in Database
    BY <1>1, TableTypes
  <2> QED
    BY <1>2, <1>11, <2>1, WriteType
       DEF Rename, Statement, TypeOK, Places, Starting, InTransaction, boundVars
<1>12. CASE Commit(p)
  BY <1>1, <1>2, <1>12, ReleasedType DEF Commit, TypeOK, Places, boundVars
<1>13. CASE StartFails(p)
  <2>1. excused' \in [Process -> BOOLEAN] /\ faults' \in Nat
    <3>1. [excused EXCEPT ![p] = TRUE] \in [Process -> BOOLEAN]
      BY DEF TypeOK
    <3>2. \/ excused' = excused /\ faults' = faults
          \/ excused' = [excused EXCEPT ![p] = TRUE] /\ faults' = faults + 1
      BY <1>13 DEF StartFails
    <3>3. faults' \in Nat
      BY <3>2 DEF TypeOK
    <3>4. excused \in [Process -> BOOLEAN]
      BY DEF TypeOK
    <3>5. excused' \in [Process -> BOOLEAN]
      BY <3>1, <3>2, <3>4, Zenon
    <3> QED
      BY <3>3, <3>5
  <2>2. pc' \in [Process -> Places] /\ db' = db /\ starts' = starts
    BY <1>2, <1>13 DEF StartFails, Places
  <2>3. Released(p)
    BY <1>13 DEF StartFails
  <2> QED
    BY <2>1, <2>2, <2>3, ReleasedType DEF TypeOK
<1>14. CASE Save(p)
  <2>1. PICK e \in Entries : db' = [db EXCEPT !.main.rows = Append(@, RowOf(e))]
    BY <1>14 DEF Save
  <2>2. Append(db.main.rows, RowOf(e)) \in Seq(Row)
    BY <1>14, RowTypes, TableTypes, AppendProperties DEF Save, TypeOK
  <2>3. [db.main EXCEPT !.rows = Append(@, RowOf(e))] \in Tables
    BY <1>14, <2>2 DEF Save, TypeOK, Tables, NoTable
  <2>4. db' \in Database
    BY <2>1, <2>3 DEF TypeOK
  <2> QED
    BY <1>14, <2>4 DEF Save, TypeOK, lockVars, boundVars
<1>15. CASE Close(p)
  BY <1>2, <1>15 DEF Close, TypeOK, Places, lockVars, boundVars
<1>16. CASE Crash(p)
  BY <1>2, <1>16, ReleasedType DEF Crash, TypeOK, Places
<1> QED
  BY <1>3, <1>4, <1>5, <1>6, <1>7, <1>8, <1>9, <1>10, <1>11, <1>12, <1>13, <1>14,
     <1>15, <1>16 DEF Step

\* The variables keep their types, for every set of processes and old databases.
THEOREM TypeCorrect == Spec => []TypeOK
<1>1. TypeOK /\ [Next]_vars => TypeOK'
  BY StepType DEF Next, Terminating, TypeOK, vars
<1> QED
  BY <1>1, InitType, PTL DEF Spec

-----------------------------------------------------------------------------
(* Who holds the locks, and what a migration has in hand at each statement. *)

Writing == {"copy", "dropOld", "rename", "commit"}

LockInv ==
  /\ \A p \in shared : pc[p] \in InTransaction \ {"dropNew"}
  /\ \A p \in Process : pc[p] \in Writing <=> reserved = p
  /\ reserved # None => reserved \in shared

\* The table to migrate is an old one and its rows are in the copy.
Copied(table) == /\ db.main.layout = "old"
                 /\ table = NewTable(MigratedRows(db.main.rows))

DraftInv(p) ==
  /\ pc[p] = "copy" => draft.main = db.main
  /\ pc[p] \in {"dropOld", "rename"} => Copied(draft.copy)
  /\ pc[p] = "commit" => Copied(draft.main) /\ draft.copy = NoTable

MigrationInv ==
  /\ db.copy = NoTable
  /\ \A p \in Process : /\ DraftInv(p)
                        /\ pc[p] = "ready" => db.main.layout = "new"
                        /\ pc[p] \in Starting \ {"create"} => db.main.layout # "none"

\* A start without an excuse is the only one under way, on a table that is old
\* as long as it migrates it.
CleanInv ==
  \A p \in Process : ~excused[p] =>
    /\ pc[p] \in Starting => \A q \in Process \ {p} : pc[q] \notin Starting
    /\ pc[p] \in InTransaction => db.main.layout = "old"
    /\ pc[p] # "failed"

StorageInv == TypeOK /\ LockInv /\ MigrationInv /\ CleanInv

\* p's locks go when p is done with its transaction.
LEMMA ReleasedLock ==
  ASSUME TypeOK, LockInv, NEW p \in Process, NEW to \in Places \ InTransaction,
         Released(p), Goes(p, to)
  PROVE  LockInv'
  BY NoneAssumption
     DEF TypeOK, LockInv, Released, Goes, Places, Starting, InTransaction, Writing

\* A statement of the migration takes the locks it needs and keeps them.
LEMMA WriteLock ==
  ASSUME TypeOK, LockInv, NEW p \in Process, NEW to \in Writing, NEW new,
         pc[p] \in InTransaction, Write(p, new), Goes(p, to)
  PROVE  LockInv'
  BY NoneAssumption
     DEF TypeOK, LockInv, Write, CanWrite, Goes, InTransaction, Writing

\* Steps outside a transaction leave the locks alone.
LEMMA OutsideLock ==
  ASSUME TypeOK, LockInv, NEW p \in Process, NEW to \in Places \ Writing,
         pc[p] \notin Writing, pc[p] \in InTransaction => to = "createNew",
         UNCHANGED lockVars, Goes(p, to)
  PROVE  LockInv'
  BY NoneAssumption
     DEF TypeOK, LockInv, lockVars, Goes, Places, Starting, InTransaction, Writing

\* Every step keeps LockInv.
LEMMA StepLock ==
  ASSUME TypeOK, LockInv, db.copy = NoTable, NEW p \in Process, Step(p)
  PROVE  LockInv'
<1>1. CASE Begin(p)
  BY <1>1, OutsideLock DEF Begin, Places, Starting, InTransaction, Writing
<1>2. CASE CreateTable(p)
  BY <1>2, OutsideLock DEF CreateTable, Places, Starting, InTransaction, Writing
<1>3. CASE ListColumns(p)
  BY <1>3, OutsideLock DEF ListColumns, Places, Starting, InTransaction, Writing
<1>4. CASE DropNew(p)
  <2>1. View(p) = db
    BY <1>4 DEF DropNew, LockInv, View, Writing
  <2> QED
    BY <1>4, <2>1, NoneAssumption, TableTypes
       DEF DropNew, Goes, TypeOK, LockInv, InTransaction, Writing
<1>5. CASE DropNewFails(p)
  BY <1>5, OutsideLock DEF DropNewFails, Places, Starting, InTransaction, Writing
<1>6. CASE CreateNew(p) \/ Copy(p) \/ DropOld(p) \/ Rename(p)
  BY <1>6, WriteLock DEF CreateNew, Copy, DropOld, Rename, Statement, InTransaction, Writing
<1>7. CASE Commit(p) \/ StartFails(p) \/ Crash(p)
  BY <1>7, ReleasedLock
     DEF Commit, StartFails, Crash, Places, Starting, InTransaction
<1>8. CASE Save(p)
  BY <1>8 DEF Save, LockInv, lockVars
<1>9. CASE Close(p)
  BY <1>9, OutsideLock DEF Close, Places, Starting, InTransaction, Writing
<1> QED
  BY <1>1, <1>2, <1>3, <1>4, <1>5, <1>6, <1>7, <1>8, <1>9 DEF Step

-----------------------------------------------------------------------------
(* The migration. *)

\* A step of one process leaves the others where they are.
LEMMA OthersStay ==
  ASSUME TypeOK, NEW p \in Process, NEW q \in Process \ {p}, Step(p)
  PROVE  pc'[q] = pc[q]
  BY DEF Step, Begin, CreateTable, ListColumns, DropNew, DropNewFails, CreateNew, Copy,
         DropOld, Rename, Statement, Commit, StartFails, Save, Close, Crash, Goes, TypeOK

\* While one process writes, or only reads within its transaction, no step of
\* another changes what is committed.
LEMMA OthersWait ==
  ASSUME TypeOK, LockInv, NEW p \in Process, NEW q \in Process \ {p}, Step(p),
         pc[q] \in Writing
  PROVE  UNCHANGED << db, draft >> /\ pc'[q] = pc[q]
<1>1. reserved = q /\ q \in shared /\ reserved # p /\ reserved # None
  BY NoneAssumption DEF LockInv
<1>2. pc'[q] = pc[q]
  BY OthersStay
<1>3. ~(shared \subseteq {p}) /\ ~CanWrite(p) /\ shared # {}
  BY <1>1 DEF CanWrite
<1>4. UNCHANGED << db, draft >>
  BY <1>1, <1>3
     DEF Step, Begin, CreateTable, ListColumns, DropNew, DropNewFails, CreateNew, Copy,
         DropOld, Rename, Statement, Commit, StartFails, Save, Close, Crash, Write, Released,
         lockVars
<1> QED
  BY <1>2, <1>4

\* A commit replaces an old table by its migrated rows.
LEMMA CommitMigrates ==
  ASSUME TypeOK, LockInv, MigrationInv, NEW p \in Process, Commit(p)
  PROVE  /\ Copied(db'.main) /\ db'.copy = NoTable
         /\ db'.main.layout = "new" /\ db.main.layout = "old"
<1>1. reserved = p /\ DraftInv(p) /\ pc[p] = "commit" /\ db' = draft
  BY DEF Commit, LockInv, MigrationInv, Writing, View
<1>2. Copied(draft.main) /\ draft.copy = NoTable /\ db.main.layout = "old"
  BY <1>1 DEF DraftInv, Copied
<1> QED
  BY <1>1, <1>2 DEF Copied, NewTable

\* The layout of the table changes in two ways only, and no other table is left.
LEMMA LayoutMoves ==
  ASSUME TypeOK, LockInv, MigrationInv, NEW p \in Process, Step(p)
  PROVE  /\ db'.copy = NoTable
         /\ \/ db'.main.layout = db.main.layout
            \/ db.main.layout = "none" /\ db'.main.layout = "new"
            \/ db.main.layout = "old" /\ db'.main.layout = "new" /\ pc[p] = "commit"
<1>1. CASE CreateTable(p)
  BY <1>1 DEF CreateTable, TypeOK, MigrationInv, NewTable
<1>2. CASE Commit(p)
  BY <1>2, CommitMigrates DEF Commit
<1>3. CASE Save(p)
  <2>1. PICK e \in Entries : db' = [db EXCEPT !.main.rows = Append(@, RowOf(e))]
    BY <1>3 DEF Save
  <2>2. db.main.layout = "new" /\ db'.main.layout = db.main.layout /\ db'.copy = db.copy
    BY <1>3, <2>1 DEF Save, TypeOK, Tables, NoTable
  <2> QED
    BY <2>2 DEF MigrationInv
<1>4. CASE ~(CreateTable(p) \/ Commit(p) \/ Save(p))
  <2>1. db' = db
    BY <1>4 DEF Step, Begin, ListColumns, DropNew, DropNewFails, CreateNew, Copy, DropOld,
                Rename, Statement, StartFails, Close, Crash, Write
  <2> QED
    BY <2>1 DEF MigrationInv
<1> QED
  BY <1>1, <1>2, <1>3, <1>4

\* What a process has in hand after a step of its own.
LEMMA OwnDraft ==
  ASSUME TypeOK, LockInv, MigrationInv, NEW p \in Process, Step(p)
  PROVE  DraftInv(p)'
<1> USE DEF DraftInv
<1>1. CASE CreateNew(p)
  <2>1. View(p) = db
    BY <1>1 DEF CreateNew, Statement, LockInv, View, Writing
  <2>2. draft'.main = db.main /\ db' = db /\ pc'[p] = "copy"
    BY <1>1, <2>1 DEF CreateNew, Statement, Write, Goes, TypeOK
  <2> QED
    BY <2>2
<1>2. CASE Copy(p)
  <2>1. View(p) = draft /\ draft.main = db.main
    BY <1>2 DEF Copy, Statement, LockInv, MigrationInv, View, Writing
  <2>2. draft'.copy = NewTable(MigratedRows(db.main.rows)) /\ db' = db /\ pc'[p] = "dropOld"
    BY <1>2, <2>1 DEF Copy, Statement, Write, Goes, TypeOK
  <2>3. db.main.layout = "old"
    BY <1>2, <2>1 DEF Copy, Statement
  <2> QED
    BY <2>2, <2>3 DEF Copied
<1>3. CASE DropOld(p)
  <2>1. View(p) = draft /\ Copied(draft.copy)
    BY <1>3 DEF DropOld, Statement, LockInv, MigrationInv, View, Writing
  <2>2. draft'.copy = draft.copy /\ db' = db /\ pc'[p] = "rename"
    BY <1>3, <2>1 DEF DropOld, Statement, Write, Goes, TypeOK
  <2> QED
    BY <2>1, <2>2 DEF Copied
<1>4. CASE Rename(p)
  <2>1. View(p) = draft /\ Copied(draft.copy)
    BY <1>4 DEF Rename, Statement, LockInv, MigrationInv, View, Writing
  <2>2. draft'.main = draft.copy /\ draft'.copy = NoTable /\ db' = db /\ pc'[p] = "commit"
    BY <1>4, <2>1 DEF Rename, Statement, Write, Goes, TypeOK
  <2> QED
    BY <2>1, <2>2 DEF Copied
<1>5. CASE ~(CreateNew(p) \/ Copy(p) \/ DropOld(p) \/ Rename(p))
  <2>1. pc'[p] \notin Writing
    BY <1>5 DEF Step, Begin, CreateTable, ListColumns, DropNew, DropNewFails, Commit,
                StartFails, Save, Close, Crash, Goes, TypeOK, Writing, Places, Starting,
                InTransaction
  <2> QED
    BY <2>1 DEF Writing
<1> QED
  BY <1>1, <1>2, <1>3, <1>4, <1>5

\* Every step keeps MigrationInv.
LEMMA StepMigration ==
  ASSUME TypeOK, LockInv, MigrationInv, NEW p \in Process, Step(p)
  PROVE  MigrationInv'
<1>1. db'.copy = NoTable
  BY LayoutMoves
<1>2. ASSUME NEW q \in Process PROVE DraftInv(q)'
  <2>1. CASE q = p
    BY <2>1, OwnDraft
  <2>2. CASE q # p /\ pc[q] \in Writing
    BY <2>2, OthersWait DEF MigrationInv, DraftInv, Copied
  <2>3. CASE q # p /\ pc[q] \notin Writing
    <3>1. pc'[q] = pc[q]
      BY <2>3, OthersStay
    <3> QED
      BY <2>3, <3>1 DEF DraftInv, Writing
  <2> QED
    BY <2>1, <2>2, <2>3
<1>3. ASSUME NEW q \in Process
      PROVE  /\ pc'[q] = "ready" => db'.main.layout = "new"
             /\ pc'[q] \in Starting \ {"create"} => db'.main.layout # "none"
  <2>1. CASE pc'[q] = pc[q]
    BY <2>1, LayoutMoves DEF MigrationInv
  <2>2. CASE pc'[q] # pc[q]
    <3>1. q = p
      BY <2>2, OthersStay
    <3>2. CASE CreateTable(p)
      BY <3>1, <3>2 DEF CreateTable, Goes, TypeOK, NewTable
    <3>3. CASE ListColumns(p)
      BY <3>1, <3>3
         DEF ListColumns, IsMigrated, Goes, TypeOK, MigrationInv, Starting, InTransaction
    <3>4. CASE Commit(p)
      BY <3>1, <3>4, CommitMigrates
    <3>5. CASE Begin(p) \/ StartFails(p) \/ Save(p) \/ Close(p) \/ Crash(p)
      BY <2>2, <3>1, <3>5
         DEF Begin, StartFails, Save, Close, Crash, Goes, TypeOK, Starting, InTransaction
    <3>6. CASE DropNew(p) \/ DropNewFails(p) \/ CreateNew(p) \/ Copy(p) \/ DropOld(p)
               \/ Rename(p)
      <4>1. pc[p] \in Starting \ {"create"} /\ pc'[p] # "ready"
        BY <3>6 DEF DropNew, DropNewFails, CreateNew, Copy, DropOld, Rename, Statement, Goes,
                    TypeOK,
                    Starting, InTransaction
      <4> QED
        BY <3>1, <4>1, LayoutMoves DEF MigrationInv
    <3> QED
      BY <3>2, <3>3, <3>4, <3>5, <3>6 DEF Step
  <2> QED
    BY <2>1, <2>2
<1> QED
  BY <1>1, <1>2, <1>3 DEF MigrationInv

-----------------------------------------------------------------------------
(* Clean starts. *)

\* Only Begin takes an excuse away, or makes a process one that is starting.
LEMMA ExcuseMoves ==
  ASSUME TypeOK, NEW p \in Process, Step(p), ~Begin(p), NEW q \in Process
  PROVE  /\ excused[q] => excused'[q]
         /\ pc'[q] \in Starting => pc[q] \in Starting
<1>1. pc'[q] \in Starting => pc[q] \in Starting
  BY DEF Step, CreateTable, ListColumns, DropNew, DropNewFails, CreateNew, Copy, DropOld,
         Rename, Statement, Commit, StartFails, Save, Close, Crash, Goes, TypeOK, Starting,
         InTransaction
<1>2. excused' = excused \/ excused' = [excused EXCEPT ![p] = TRUE]
  BY DEF Step, CreateTable, ListColumns, DropNew, DropNewFails, CreateNew, Copy, DropOld,
         Rename, Statement, Commit, StartFails, Save, Close, Crash
<1>3. excused \in [Process -> BOOLEAN]
  BY DEF TypeOK
<1>4. excused[q] => excused'[q]
  BY <1>2, <1>3, Zenon
<1> QED
  BY <1>1, <1>4

\* A start that is the only one under way finds no lock taken and no table amiss.
LEMMA NotRefused ==
  ASSUME TypeOK, LockInv, MigrationInv, CleanInv, NEW p \in Process,
         pc[p] \in Starting, ~excused[p]
  PROVE  ~Busy(p) /\ ~Refused(p)
<1>1. shared \subseteq {p} /\ (reserved = None \/ reserved = p)
  BY DEF TypeOK, LockInv, CleanInv, Starting
<1>2. ~Busy(p)
  BY <1>1 DEF Busy, CanWrite, LockInv, Writing, InTransaction
<1>3. pc[p] = "createNew" => View(p) = db
  BY DEF View, LockInv, Writing
<1>4. pc[p] = "copy" => View(p).main = db.main /\ db.main.layout = "old"
  BY DEF View, LockInv, MigrationInv, DraftInv, CleanInv, Writing, InTransaction
<1> QED
  BY <1>2, <1>3, <1>4, TableTypes DEF Refused, MigrationInv

\* Every step keeps CleanInv.
LEMMA StepClean ==
  ASSUME TypeOK, LockInv, MigrationInv, CleanInv, NEW p \in Process, Step(p)
  PROVE  CleanInv'
<1> SUFFICES ASSUME NEW q \in Process, ~excused'[q]
             PROVE  /\ pc'[q] \in Starting => \A r \in Process \ {q} : pc'[r] \notin Starting
                    /\ pc'[q] \in InTransaction => db'.main.layout = "old"
                    /\ pc'[q] # "failed"
  BY DEF CleanInv
<1>1. CASE Begin(p)
  <2>1. excused' = [o \in Process |->
          IF o = p THEN \E r \in Process \ {p} : pc[r] \in Starting
                   ELSE excused[o] \/ pc[o] \in Starting]
    BY <1>1 DEF Begin
  <2>2. q = p => \A r \in Process \ {p} : pc[r] \notin Starting
    BY <2>1, Zenon
  <2>3. q # p => ~excused[q] /\ pc[q] \notin Starting
    BY <2>1, Zenon
  <2>4. pc'[p] = "create" /\ \A r \in Process \ {p} : pc'[r] = pc[r]
    BY <1>1 DEF Begin, Goes, TypeOK
  <2>5. CASE q = p
    BY <2>2, <2>4, <2>5 DEF InTransaction
  <2>6. CASE q # p
    BY <2>3, <2>4, <2>6 DEF CleanInv, Starting
  <2> QED
    BY <2>5, <2>6
<1>2. CASE ~Begin(p)
  <2>1. ~excused[q]
    BY <1>2, ExcuseMoves
  <2>2. \A r \in Process : pc'[r] \in Starting => pc[r] \in Starting
    BY <1>2, ExcuseMoves
  <2>3. pc'[q] \in Starting => \A r \in Process \ {q} : pc'[r] \notin Starting
    BY <2>1, <2>2 DEF CleanInv
  <2>4. pc'[q] \in InTransaction => db'.main.layout = "old"
    <3>1. CASE q = p /\ ListColumns(p)
      BY <3>1, TableTypes
         DEF ListColumns, IsMigrated, Goes, TypeOK, MigrationInv, Starting, InTransaction
    <3>2. CASE q = p /\ ~ListColumns(p)
      <4>1. pc'[p] \in InTransaction => pc[p] \in InTransaction /\ pc[p] # "commit"
        BY <1>2, <3>2
           DEF Step, CreateTable, DropNew, DropNewFails, CreateNew, Copy, DropOld,
               Rename, Statement, Commit, StartFails, Save, Close, Crash, Goes, TypeOK, InTransaction
      <4> QED
        BY <2>1, <3>2, <4>1, LayoutMoves DEF CleanInv
    <3>3. CASE q # p
      <4>1. pc'[q] = pc[q]
        BY <3>3, OthersStay
      <4>2. pc[q] \in InTransaction => pc[p] # "commit" /\ db.main.layout = "old"
        BY <2>1, <3>3 DEF CleanInv, Starting, InTransaction
      <4> QED
        BY <4>1, <4>2, LayoutMoves
    <3> QED
      BY <3>1, <3>2, <3>3
  <2>5. pc'[q] # "failed"
    <3>1. CASE q = p /\ StartFails(p)
      <4>1. ~Busy(p) /\ ~Refused(p)
        BY <2>1, <3>1, NotRefused DEF StartFails
      <4>2. excused' = [excused EXCEPT ![p] = TRUE]
        BY <3>1, <4>1 DEF StartFails
      <4>3. excused \in [Process -> BOOLEAN]
        BY DEF TypeOK
      <4>4. excused'[p]
        BY <4>2, <4>3, Zenon
      <4> QED
        BY <3>1, <4>4
    <3>2. CASE ~(q = p /\ StartFails(p))
      <4>1. pc'[q] = "failed" => pc[q] = "failed"
        BY <1>2, <3>2
           DEF Step, CreateTable, ListColumns, DropNew, DropNewFails, CreateNew, Copy,
               DropOld, Rename, Statement, Commit, StartFails, Save, Close, Crash, Goes, TypeOK
      <4> QED
        BY <2>1, <4>1 DEF CleanInv
    <3> QED
      BY <3>1, <3>2
  <2> QED
    BY <2>3, <2>4, <2>5
<1> QED
  BY <1>1, <1>2

-----------------------------------------------------------------------------
(* Theorems. *)

\* The invariant holds at first.
LEMMA InitInv == Init => StorageInv
<1> SUFFICES ASSUME Init PROVE StorageInv
  OBVIOUS
<1>1. db.copy = NoTable /\ shared = {} /\ reserved = None
  BY DEF Init, Empty
<1>2. \A p \in Process : pc[p] = "down"
  BY DEF Init
<1> QED
  BY <1>1, <1>2, InitType, NoneAssumption
     DEF StorageInv, LockInv, MigrationInv, DraftInv, CleanInv, Starting, InTransaction,
         Writing

\* And every step keeps it.
LEMMA NextInv == StorageInv /\ [Next]_vars => StorageInv'
<1> SUFFICES ASSUME StorageInv, [Next]_vars PROVE StorageInv'
  OBVIOUS
<1>1. ASSUME NEW p \in Process, Step(p) PROVE StorageInv'
  BY <1>1, StepType, StepLock, StepMigration, StepClean DEF StorageInv, MigrationInv
<1>2. CASE UNCHANGED vars
  BY <1>2 DEF vars, StorageInv, TypeOK, LockInv, MigrationInv, DraftInv, Copied, CleanInv
<1> QED
  BY <1>1, <1>2 DEF Next, Terminating

\* The invariant holds throughout.
LEMMA Invariance == Spec => []StorageInv
  BY InitInv, NextInv, PTL DEF Spec

\* Whoever has constructed its provider can insert: the table is the new one.
THEOREM ReadyFindsNewTable == Spec => []ReadyIsMigrated
<1>1. StorageInv => ReadyIsMigrated
  BY DEF StorageInv, MigrationInv, ReadyIsMigrated
<1> QED
  BY <1>1, Invariance, PTL

\* Whatever earlier starts have left, one that comes alone does not fail of it.
THEOREM StartsAreClean == Spec => []CleanStart
<1>1. StorageInv => CleanStart
  BY DEF StorageInv, CleanInv, CleanStart
<1> QED
  BY <1>1, Invariance, PTL

\* What can be read is a sequence of rows.
LEMMA VisibleType == TypeOK => Visible \in Seq(Row)
<1> SUFFICES ASSUME TypeOK PROVE Visible \in Seq(Row)
  OBVIOUS
<1>1. db.main \in Tables
  BY DEF TypeOK
<1>2. CASE db.main.layout = "old"
  BY <1>1, <1>2, TableTypes, MigratedType DEF Visible
<1>3. CASE db.main.layout # "old"
  <2>1. << >> \in Seq(Row)
    BY EmptySeq
  <2> QED
    BY <1>1, <1>3, <2>1, TableTypes DEF Visible
<1> QED
  BY <1>2, <1>3

\* A row is appended to what can be read, or nothing of it changes.
LEMMA StepTable ==
  ASSUME StorageInv, NEW p \in Process, Step(p)
  PROVE  Table!Add \/ Visible' = Visible
<1> USE DEF StorageInv
<1>1. CASE CreateTable(p)
  <2>1. CASE db' = db
    BY <2>1 DEF Visible
  <2>2. CASE db.main.layout = "none" /\ db' = [db EXCEPT !.main = NewTable(<< >>)]
    <3>1. db.main.rows = << >> /\ db.main.layout # "old"
      BY <2>2, TableTypes DEF TypeOK
    <3>2. db'.main.rows = << >> /\ db'.main.layout # "old"
      BY <2>2 DEF TypeOK, NewTable
    <3> QED
      BY <3>1, <3>2 DEF Visible
  <2> QED
    BY <1>1, <2>1, <2>2 DEF CreateTable
<1>2. CASE Commit(p)
  <2>1. db'.main.layout = "new" /\ db.main.layout = "old" /\ Copied(db'.main)
    BY <1>2, CommitMigrates
  <2>2. db.main.rows \in Seq(OldRow)
    BY <2>1, TableTypes DEF TypeOK
  <2>3. db'.main.rows = MigratedRows(db.main.rows)
    BY <2>1 DEF Copied, NewTable
  <2> QED
    BY <2>1, <2>2, <2>3, MigratedType DEF Visible
<1>3. CASE Save(p)
  <2>1. PICK e \in Entries : db' = [db EXCEPT !.main.rows = Append(@, RowOf(e))]
    BY <1>3 DEF Save
  <2>2. /\ db.main.layout = "new" /\ db'.main.layout = "new"
        /\ db'.main.rows = Append(db.main.rows, RowOf(e))
    BY <1>3, <2>1 DEF Save, TypeOK, Tables, NoTable
  <2>3. Visible = db.main.rows /\ Visible' = Append(Visible, RowOf(e))
    BY <2>2 DEF Visible
  <2>4. Visible \in Seq(Row) /\ RowOf(e) \in Row
    BY VisibleType, RowTypes
  <2>5. /\ Visible' \in Seq(Row) /\ Len(Visible') = Len(Visible) + 1
        /\ \A k \in 1..Len(Visible) : Visible'[k] = Visible[k]
    BY <2>3, <2>4, AppendProperties
  <2>6. Len(Visible) \in Nat
    BY <2>4, LenProperties
  <2>7. Visible = SubSeq(Visible', 1, Len(Visible))
    <3>1. \A k \in 1..Len(Visible) : Visible'[k] \in Row
      BY <2>4, <2>5, ElementOfSeq
    <3>2. /\ SubSeq(Visible', 1, Len(Visible)) \in Seq(Row)
          /\ Len(SubSeq(Visible', 1, Len(Visible))) = Len(Visible)
          /\ \A k \in 1..Len(Visible) : SubSeq(Visible', 1, Len(Visible))[k] = Visible'[k]
      BY <2>6, <3>1, SubSeqProperties
    <3> QED
      BY <2>4, <2>5, <3>2, SeqEqual
  <2> QED
    BY <2>5, <2>7 DEF Table!Add
<1>4. CASE ~(CreateTable(p) \/ Commit(p) \/ Save(p))
  <2>1. db' = db
    BY <1>4 DEF Step, Begin, ListColumns, DropNew, DropNewFails, CreateNew, Copy, DropOld,
                Rename, Statement, StartFails, Close, Crash, Write
  <2> QED
    BY <2>1 DEF Visible
<1> QED
  BY <1>1, <1>2, <1>3, <1>4

\* To whoever reads it the table only grows, a whole row at a time: migrations are
\* not seen, whether they succeed, fail, die or come late.
THEOREM ImplementsTable == Spec => TableSpec
<1>1. Init => Table!Init
  BY InitType, VisibleType DEF Table!Init
<1>2. StorageInv /\ [Next]_vars => [Table!Add]_Visible
  <2> SUFFICES ASSUME StorageInv, [Next]_vars PROVE Table!Add \/ Visible' = Visible
    OBVIOUS
  <2>1. CASE UNCHANGED vars
    BY <2>1 DEF vars, Visible
  <2>2. CASE \E p \in Process : Step(p)
    BY <2>2, StepTable
  <2> QED
    BY <2>1, <2>2 DEF Next, Terminating
<1> QED
  BY <1>1, <1>2, Invariance, PTL DEF Spec, TableSpec, Table!Spec
=============================================================================
