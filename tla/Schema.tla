-------------------------------- MODULE Schema --------------------------------
(***************************************************************************)
(* Migration of the database: Mysql.Migrate, sync and TableRegister        *)
(* (g2db/mysql.go), CompoundIndex.execCreate and initializeTables          *)
(* (g2db/functions.go).  Any process may migrate at any time.              *)
(*                                                                         *)
(* External: MySQL and xorm.  Sync2 creates the tables that are missing    *)
(* and may drop the indexes it does not know, the compound ones.           *)
(* A DDL statement commits, so the transaction that sync opens ends with   *)
(* its first ALTER TABLE and each later INSERT commits by itself.          *)
(***************************************************************************)
EXTENDS Integers, Sequences, SequencesExt

CONSTANTS Registered,   \* the arguments of the calls of TableRegister
          Beans,        \* rows of initial data per table
          Migrators,    \* the processes that may migrate
          MaxDbFaults   \* bound of the failing statements (model checking only)

ASSUME SchemaAssumption ==
  Beans \in Nat \ {0} /\ MaxDbFaults \in Nat /\ Registered \in Seq(Seq(STRING))

(* TableRegister: at the first table that is known it returns.             *)
TableRegister(tables, args) ==
  LET Known(n) == \E i \in 1..Len(tables) + n - 1 : (tables \o args)[i] = args[n]
      new == {n \in 0..Len(args) : \A m \in 1..n : ~Known(m)}
  IN tables \o SubSeq(args, 1, CHOOSE n \in new : n + 1 \notin new)

(* registered[k]: Mysql.tables after k calls.                              *)
registered[k \in 0..Len(Registered)] ==
  IF k = 0 THEN <<>> ELSE TableRegister(registered[k - 1], Registered[k])

tables == registered[Len(Registered)]

(* execCreate goes through a map: the columns come in any order, and the   *)
(* order is part of the index's name.                                      *)
Orders == {"a_b", "b_a"}

VARIABLES db,         \* the database exists
          exists,     \* the tables that exist
          indexes,    \* indexes[t]: the compound indexes of table t
          rows,       \* rows[t]: the number of its rows
          sync,       \* sync[p]: [at, table, order, left]
          contended,  \* contended[p]: another process migrated meanwhile
          dbFaults

schemaVars == <<db, exists, indexes, rows, sync, contended, dbFaults>>

SyncSteps == {"drop", "create", "dial", "sync2", "convert", "show", "add",
              "count", "truncate", "insert", "after"}

(* How a migration ends: all is done; a statement was refused; or it was   *)
(* cut off, as the connection failed or a hook of the application did.     *)
Ends == {"done", "failed", "cut"}

Migrations ==
  [at : SyncSteps \cup Ends \cup {"none"}, table : {1} \cup 1..Len(tables),
   order : Orders, left : 0..Beans]

SchemaTypeOK ==
  /\ db \in BOOLEAN
  /\ exists \subseteq ToSet(tables)
  /\ indexes \in [ToSet(tables) -> SUBSET Orders]
  /\ rows \in [ToSet(tables) -> Nat]
  /\ sync \in [Migrators -> Migrations]
  /\ contended \in [Migrators -> BOOLEAN]
  /\ dbFaults \in 0..MaxDbFaults

(* A migration at step s with its table i.                                 *)
Sync(s, i) == [at |-> s, table |-> i, order |-> "a_b", left |-> 0]
NoSync == Sync("none", 1)

SchemaInit ==
  /\ db = FALSE /\ exists = {}
  /\ indexes = [t \in ToSet(tables) |-> {}] /\ rows = [t \in ToSet(tables) |-> 0]
  /\ sync = [p \in Migrators |-> NoSync]
  /\ contended = [p \in Migrators |-> FALSE] /\ dbFaults = 0

-----------------------------------------------------------------------------
Migrating == {p \in Migrators : sync[p].at \in SyncSteps}

SyncTo(p, s) == sync' = [sync EXCEPT ![p].at = s]
TableOf(p) == tables[sync[p].table]

(* The statement is an error of MySQL if its table or database is gone.    *)
Fails(p) == SyncTo(p, "failed") /\ UNCHANGED <<db, exists, indexes, rows>>

BeginMigrate(p, drop) ==
  /\ sync' = [sync EXCEPT ![p] = Sync(IF drop THEN "drop" ELSE "create", 1)]
  /\ contended' = [q \in Migrators |->
       IF q = p THEN Migrating # {}
       ELSE contended[q] \/ q \in Migrating]
  /\ UNCHANGED <<db, exists, indexes, rows, dbFaults>>

DropDatabase(p) ==
  /\ sync[p].at = "drop"
  /\ db' = FALSE /\ exists' = {}
  /\ indexes' = [t \in ToSet(tables) |-> {}]
  /\ rows' = [t \in ToSet(tables) |-> 0]
  /\ SyncTo(p, "create")

CreateDB(p) ==
  /\ sync[p].at = "create"
  /\ db' = TRUE
  /\ SyncTo(p, "dial")
  /\ UNCHANGED <<exists, indexes, rows>>

DialDB(p) ==
  /\ sync[p].at = "dial"
  /\ IF db THEN SyncTo(p, IF tables = <<>> THEN "done" ELSE "sync2") ELSE SyncTo(p, "failed")
  /\ UNCHANGED <<db, exists, indexes, rows>>

Sync2(p) ==
  /\ sync[p].at = "sync2"
  /\ \/ /\ db
        /\ exists' = ToSet(tables)
        /\ indexes' \in {indexes, [t \in ToSet(tables) |-> {}]}
        /\ SyncTo(p, "convert")
        /\ UNCHANGED <<db, rows>>
     \/ ~db /\ Fails(p)

Convert(p) ==
  /\ sync[p].at = "convert"
  /\ IF TableOf(p) \in exists THEN SyncTo(p, "show") ELSE SyncTo(p, "failed")
  /\ UNCHANGED <<db, exists, indexes, rows>>

(* Mutant: the index is added whether it is there or not.                  *)
ShowIndex_Skipped(p) ==
  /\ sync[p].at = "show"
  /\ \E o \in Orders :
       sync' = [sync EXCEPT ![p].at = "add", ![p].order = o]
  /\ UNCHANGED <<db, exists, indexes, rows>>

ShowIndex(p) ==
  /\ sync[p].at = "show"
  /\ IF TableOf(p) \in exists
     THEN \E o \in Orders :
            sync' = [sync EXCEPT
              ![p].at = IF o \in indexes[TableOf(p)] THEN "count" ELSE "add",
              ![p].order = o]
     ELSE SyncTo(p, "failed")
  /\ UNCHANGED <<db, exists, indexes, rows>>

AddIndex(p) ==
  LET t == TableOf(p) IN
  /\ sync[p].at = "add"
  /\ IF t \in exists /\ sync[p].order \notin indexes[t]
     THEN /\ indexes' = [indexes EXCEPT ![t] = @ \cup {sync[p].order}]
          /\ SyncTo(p, "count")
     ELSE SyncTo(p, "failed") /\ UNCHANGED indexes
  /\ UNCHANGED <<db, exists, rows>>

(* Mutant: one table too many.                                             *)
NextTable_Past(p) ==
  sync' = [sync EXCEPT ![p] =
    IF @.table <= Len(tables) THEN Sync("convert", @.table + 1) ELSE Sync("done", 1)]

(* The next table, or the end.                                             *)
NextTable(p) ==
  sync' = [sync EXCEPT ![p] =
    IF @.table < Len(tables) THEN Sync("convert", @.table + 1) ELSE Sync("done", 1)]

(* Mutant: initial data is inserted into a table that has rows.            *)
CountRows_Ignored(p) ==
  /\ sync[p].at = "count"
  /\ sync' = [sync EXCEPT ![p].at = "insert", ![p].left = Beans]
  /\ UNCHANGED <<db, exists, indexes, rows>>

(* initializeTables.                                                       *)
CountRows(p) ==
  /\ sync[p].at = "count"
  /\ IF TableOf(p) \in exists
     THEN SyncTo(p, IF rows[TableOf(p)] > 0 THEN "after" ELSE "truncate")
     ELSE SyncTo(p, "failed")
  /\ UNCHANGED <<db, exists, indexes, rows>>

(* TRUNCATE, whose error is not looked at.                                 *)
Truncate(p) ==
  /\ sync[p].at = "truncate"
  /\ rows' = [rows EXCEPT ![TableOf(p)] = 0]
  /\ sync' = [sync EXCEPT ![p].at = "insert", ![p].left = Beans]
  /\ UNCHANGED <<db, exists, indexes>>

InsertBean(p) ==
  LET t == TableOf(p) IN
  /\ sync[p].at = "insert"
  /\ IF t \notin exists THEN SyncTo(p, "failed") /\ UNCHANGED rows
     ELSE /\ rows' = [rows EXCEPT ![t] = @ + 1]
          /\ IF sync[p].left > 1
             THEN sync' = [sync EXCEPT ![p].left = @ - 1]
             ELSE SyncTo(p, "after")
  /\ UNCHANGED <<db, exists, indexes>>

(* The table's hook AfterSync returned nil, or it has none.  What it does  *)
(* with the session is the application's.                                  *)
AfterSync(p) ==
  /\ sync[p].at = "after"
  /\ NextTable(p)
  /\ UNCHANGED <<db, exists, indexes, rows>>

Statement(p) ==
  \/ DropDatabase(p) \/ CreateDB(p) \/ DialDB(p) \/ Sync2(p) \/ Convert(p)
  \/ ShowIndex(p) \/ AddIndex(p) \/ CountRows(p) \/ Truncate(p) \/ InsertBean(p)
  \/ AfterSync(p)

(* The connection fails, or AfterSync has an error.  Sync2 may have        *)
(* created some of the tables.                                             *)
StatementFails(p) ==
  /\ dbFaults < MaxDbFaults /\ p \in Migrating
  /\ dbFaults' = dbFaults + 1
  /\ \E new \in SUBSET (IF sync[p].at = "sync2" /\ db THEN ToSet(tables) ELSE {}) :
       exists' = exists \cup new
  /\ SyncTo(p, "cut")
  /\ UNCHANGED <<db, indexes, rows, contended>>

SchemaStep(p) ==
  \/ Statement(p) /\ UNCHANGED <<contended, dbFaults>>
  \/ StatementFails(p)

-----------------------------------------------------------------------------
(* A migration that succeeds, with no other one at the same time, leaves   *)
(* every registered table with its index and with rows, though an earlier  *)
(* one may have stopped anywhere (mysql.go:501-540).  If no two ever ran   *)
(* at once the rows are the initial data and not twice as many, and all of *)
(* it if no statement failed.                                              *)
MigratedIsComplete ==
  [][\A p \in Migrators :
       sync[p].at # "done" /\ sync'[p].at = "done" /\ ~contended[p] =>
         /\ db'
         /\ \A t \in ToSet(tables) :
              /\ t \in exists' /\ indexes'[t] # {} /\ rows'[t] > 0
              /\ (\A q \in Migrators : ~contended[q]) =>
                   rows'[t] <= Beans /\ (dbFaults' = 0 => rows'[t] = Beans)]_schemaVars

(* A migration can be repeated: MySQL refuses a statement of it only if    *)
(* it met another migration, whatever is left of the earlier ones, which   *)
(* may have been cut off anywhere or have met others (mysql.go:501-540;    *)
(* execCreate looks for the index first, mysql.go:96-104).                 *)
MigratesAgain ==
  \A p \in Migrators : sync[p].at = "failed" => contended[p]
=============================================================================
