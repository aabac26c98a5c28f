------------------------------ MODULE RowCache ------------------------------
(***************************************************************************)
(* Rows of MySQL and their cache: g2db/mysql.go (CacheGet, CacheRestore,   *)
(* TXCallback) and g2db/session.go (Insert, Update, Delete) over cacheMem  *)
(* and redisObj (NodeCache).                                               *)
(*                                                                         *)
(* One table whose rows have an id and a unique name.  A row is cached     *)
(* under each condition that finds it, "id=..." and "name=...".  Writers   *)
(* read the row through the cache, write it in a transaction of their own  *)
(* with the version they read (optimistic locking) and publish the         *)
(* conditions of what they wrote before they commit.                       *)
(*                                                                         *)
(* External, modelled from how it is used: MySQL (a read outside a         *)
(* transaction sees what is committed; a write waits for the rows another  *)
(* transaction has written; unique columns), xorm's version column, the    *)
(* connection pool of database/sql.                                        *)
(***************************************************************************)
EXTENDS NodeCache

CONSTANTS MaxId,        \* bound of the auto-increment (model checking only)
          Names,        \* values of the unique column
          Null,         \* cacheNULL: no such row
          MaxConns,     \* mysql.max_open_connections
          NameFirst,    \* the name's condition may sort before the id's
          PromptCommit, \* transactions end before the second deletion (2 s)
          RowOps,       \* the kinds of request
          WriteKeys,    \* the conditions writers find their row by
          Lossy,        \* messages of Redis may be lost
          AnyKey        \* the key of a request that carries none

Ids == 1..MaxId
AllOps == {"get", "insert", "update", "rename", "delete", "restore", "clear"}
TxOps == {"insert", "update", "rename", "delete"}

(* What a row holds besides its key: the version, and whose edits are in   *)
(* it, which stands for all other columns.                                 *)
Row == [id : Ids, name : Names, version : Nat, edits : SUBSET Procs]

(* A transaction writes one row: its id, and the new row or Null.          *)
Write == [id : Ids, row : Row \cup {Null}]

ASSUME RowAssumption ==
  /\ MaxId \in Nat /\ MaxConns \in Nat /\ RowOps \subseteq AllOps
  /\ NameFirst \in BOOLEAN /\ PromptCommit \in BOOLEAN
  /\ Lossy \in BOOLEAN
  /\ WriteKeys \subseteq Keys /\ AnyKey \in Keys
  /\ Names # {} /\ Ids \cap Names = {} /\ Keys = Ids \cup Names
  /\ Miss \notin Row \cup {Null} /\ Null \notin Row /\ None \notin Row \cup Write

VARIABLES db,       \* db[i]: the committed row with id i, or Null
          lastId,   \* AUTO_INCREMENT: no id is used twice
          pending,  \* pending[p]: what p's transaction has written, or None
          pc,       \* pc[p]: the next command of p, or how it ended
          req,      \* req[p]: what was asked
          data      \* data[p]: the row p read or the bean it writes, or Null

rowVars == <<db, lastId, pending>>
procVars == <<pc, req, data>>
vars == <<cacheVars, busVars, rowVars, procVars>>

AnyName == CHOOSE x \in Names : TRUE

(* The key is the condition the caller's bean carries; the name is that of *)
(* an inserted row, or the new name.                                       *)
Request == [op : RowOps, node : Nodes, key : Keys, name : Names]
Asked == {q \in Request :
            /\ q.op \in TxOps => q.key \in WriteKeys \cup {AnyKey}
            /\ q.op \in {"insert", "clear"} => q.key = AnyKey
            /\ q.op \notin {"insert", "rename"} =>
                 q.name = AnyName}

Restoring == {"restore", "restoreid", "restorename"}
Running == {"begun", "load", "store", "write", "publish", "finish"} \cup Restoring
Ended == {"done"}           \* returned, with or without an error

Key(p) == req[p].key
Node(p) == req[p].node
Op(p) == req[p].op
At(p, l) == pc[p] = l
Goto(p, l) == pc' = [pc EXCEPT ![p] = l]
Loading(p) == pc[p] \in {"load", "store"}
Returns(p) == Goto(p, "done") /\ data' = [data EXCEPT ![p] = Null]

RowTypeOK ==
  /\ BusTypeOK(Row \cup {Null})
  /\ db \in [Ids -> Row \cup {Null}]
  /\ \A i \in Ids : db[i] # Null => db[i].id = i
  /\ lastId \in 0..MaxId
  /\ pending \in [Procs -> Write \cup {None}]
  /\ pc \in [Procs -> {"new"} \cup Running \cup Ended]
  /\ req \in [Procs -> Request]
  /\ data \in [Procs -> Row \cup {Null}]

(* The table is empty or has its first row.                                *)
Init ==
  /\ BusInit
  /\ lastId \in {0, 1} \cap 0..MaxId
  /\ db = [i \in Ids |->
       IF i <= lastId
       THEN [id |-> i, name |-> AnyName, version |-> 1, edits |-> {}]
       ELSE Null]
  /\ pending = [p \in Procs |-> None]
  /\ pc = [p \in Procs |-> "new"]
  /\ req \in [Procs -> Asked]
  /\ data = [p \in Procs |-> Null]

-----------------------------------------------------------------------------
(* Conditions.                                                             *)

(* cacheBind.Values: a condition per primary key and unique column.        *)
Conditions(r) == {r.id, r.name}

(* Values(bean)[0], by which rows are read and written: conditions are     *)
(* sorted by length only, and those of equal length come in the order of a *)
(* Go map.                                                                 *)
FirstConditions(r) == IF NameFirst THEN Conditions(r) ELSE {r.id}

Found(d, k) == {i \in Ids : d[i] # Null /\ k \in Conditions(d[i])}

(* SELECT ... WHERE k                                                      *)
Lookup(d, k) == IF Found(d, k) = {} THEN Null
                ELSE d[CHOOSE i \in Found(d, k) : TRUE]

(* The conditions of the rows p has written and not committed.             *)
Locked(p) ==
  IF pending[p] = None THEN {}
  ELSE UNION {Conditions(r) : r \in {db[pending[p].id], pending[p].row} \ {Null}}

(* InnoDB: a write waits for the transactions that wrote what it looks at. *)
Waits(p, K) == \E q \in Procs \ {p} : Locked(q) \cap K # {}

Taken(x, i) == Found(db, x) \ {i} # {}

-----------------------------------------------------------------------------
(* Connections: a transaction keeps one from Begin to Close.               *)

InTx(p) == Op(p) \in TxOps /\ pc[p] \in Running
FreeConn == Cardinality({p \in Procs : InTx(p)}) < MaxConns

(* TXCallback: NewSession, Begin.                                          *)
Begin(p) ==
  /\ At(p, "new") /\ Op(p) \in TxOps
  /\ FreeConn
  /\ Goto(p, IF Op(p) = "insert" THEN "write" ELSE "begun")
  /\ UNCHANGED <<cacheVars, busVars, rowVars, req, data>>

-----------------------------------------------------------------------------
(* CacheGet, of a reader or inside a transaction.                          *)

Gets(p) == \/ At(p, "new") /\ Op(p) \in {"get", "restore"}
           \/ At(p, "begun")

(* A reader is given row r; a writer goes on with it, unless it is         *)
(* ErrorMysqlNotFound.                                                     *)
GetReturns(p, r) ==
  IF Op(p) = "get" \/ r = Null
  THEN Returns(p)
  ELSE /\ Goto(p, IF Op(p) = "restore" THEN "restore" ELSE "write")
       /\ data' = [data EXCEPT ![p] = r]

GetHit(p) ==
  /\ Gets(p)
  /\ CacheHit(Node(p), Key(p))
  /\ GetReturns(p, cache[Node(p)][Key(p)])
  /\ UNCHANGED <<busVars, rowVars, req>>

GetMiss(p) ==
  /\ Gets(p)
  /\ CacheMiss(p, Node(p), Key(p))
  /\ Goto(p, "load")
  /\ UNCHANGED <<busVars, rowVars, req, data>>

(* The loader takes another connection than the transaction it serves, and *)
(* reads what is committed.                                                *)
GetLoad(p) ==
  /\ At(p, "load")
  /\ FreeConn
  /\ data' = [data EXCEPT ![p] = Lookup(db, Key(p))]
  /\ Goto(p, "store")
  /\ UNCHANGED <<cacheVars, busVars, rowVars, req>>

GetStore(p) ==
  /\ At(p, "store")
  /\ CacheStore(Node(p), Key(p), data[p])
  /\ GetReturns(p, data[p])
  /\ UNCHANGED <<busVars, rowVars, req>>

-----------------------------------------------------------------------------
(* Session.Insert, Update and Delete: the SQL statement.  It waits for the *)
(* transactions that wrote the rows it looks at, then sees what is         *)
(* committed; when it fails the transaction is rolled back.                *)

RowsAt(K) == K \cup UNION {Conditions(db[i]) : i \in UNION {Found(db, k) : k \in K}}

(* p's transaction writes w, and invalidates the conditions of bean r.     *)
Writes(p, w, r) ==
  /\ pending' = [pending EXCEPT ![p] = w]
  /\ data' = [data EXCEPT ![p] = r]
  /\ Goto(p, "publish")

Refused(p) == Returns(p) /\ UNCHANGED pending

(* Mutant: one id too many.                                                *)
NoIdLeft_Late == lastId > MaxId
NoIdLeft == lastId = MaxId

(* InsertOne: refused when the name is taken (or no id is left).           *)
InsertRow(p) ==
  /\ At(p, "write") /\ Op(p) = "insert"
  /\ ~Waits(p, {req[p].name})
  /\ IF Taken(req[p].name, 0) \/ NoIdLeft
     THEN Refused(p) /\ UNCHANGED lastId
     ELSE LET r == [id |-> lastId + 1, name |-> req[p].name,
                    version |-> 1, edits |-> {p}] IN
          /\ Writes(p, [id |-> r.id, row |-> r], r)
          /\ lastId' = lastId + 1
  /\ UNCHANGED <<cacheVars, busVars, db, req>>

(* CopyBean, MergeBeans: the row that was read, with the caller's columns. *)
Merged(p) == [data[p] EXCEPT
  !.edits = @ \cup {p},
  !.name = IF Op(p) = "rename" THEN req[p].name ELSE @]

(* Mutant: UPDATE does not compare the version.                            *)
Matching_AnyVersion(k, v) == Found(db, k)

(* The rows an UPDATE ... WHERE k AND version = v finds.                   *)
Matching(k, v) == {i \in Found(db, k) : db[i].version = v}

(* Mutant: the version column is not incremented.                          *)
NextVersion_Same(r) == r

NextVersion(r) == [r EXCEPT !.version = @ + 1]

(* Update writes all columns (AllCols) but the id.  No row found is the    *)
(* error "no data updated".                                                *)
UpdateRow(p) ==
  /\ At(p, "write") /\ Op(p) \in {"update", "rename"}
  /\ LET bean == Merged(p) IN
     \E k \in FirstConditions(bean) :
       /\ ~Waits(p, RowsAt({k, bean.name}))
       /\ \/ /\ \A i \in Matching(k, bean.version) : Taken(bean.name, i)
             /\ Refused(p)
          \/ \E i \in Matching(k, bean.version) :
               /\ ~Taken(bean.name, i)
               /\ Writes(p, [id |-> i, row |-> NextVersion([bean EXCEPT !.id = i])],
                         NextVersion(bean))
  /\ UNCHANGED <<cacheVars, busVars, db, lastId, req>>

(* Delete deletes by the condition alone: not by version, and no row is    *)
(* no error.  The row invalidated is the one that was read.                *)
DeleteRow(p) ==
  /\ At(p, "write") /\ Op(p) = "delete"
  /\ ~Waits(p, RowsAt({Key(p)}))
  /\ IF Found(db, Key(p)) = {}
     THEN Goto(p, "publish") /\ UNCHANGED <<pending, data>>
     ELSE \E i \in Found(db, Key(p)) :
            Writes(p, [id |-> i, row |-> Null], data[p])
  /\ UNCHANGED <<cacheVars, busVars, db, lastId, req>>

-----------------------------------------------------------------------------
(* The end of the transaction.                                             *)

(* Mutant: nothing is published.                                           *)
PublishDelete_Skipped(p) ==
  /\ At(p, "publish")
  /\ Goto(p, "finish")
  /\ UNCHANGED <<cacheVars, busVars, rowVars, req, data>>

(* DelCache, before the commit.                                            *)
PublishDelete(p) ==
  /\ At(p, "publish")
  /\ Publish(DelCacheMessage(p, Conditions(data[p])))
  /\ Goto(p, "finish")
  /\ UNCHANGED <<cacheVars, rowVars, req, data>>

(* Commit, whether or not its reply is lost and TXCallback returns an      *)
(* error.                                                                  *)
Commit(p) ==
  /\ At(p, "finish")
  /\ db' = IF pending[p] = None THEN db
           ELSE [db EXCEPT ![pending[p].id] = pending[p].row]
  /\ pending' = [pending EXCEPT ![p] = None]
  /\ Returns(p)
  /\ UNCHANGED <<cacheVars, busVars, lastId, req>>

(* A hook, the statement, PUBLISH or the commit fails: Rollback and Close. *)
Rollback(p) ==
  /\ pc[p] \in {"begun", "write", "publish", "finish"}
  /\ pending' = [pending EXCEPT ![p] = None]
  /\ Returns(p)
  /\ UNCHANGED <<cacheVars, busVars, db, lastId, req>>

(* The SELECT or Set of a loader fails: GetOrStore returns the error.      *)
LoadFails(p) ==
  /\ Loading(p)
  /\ CacheGiveUp(Node(p), Key(p))
  /\ Returns(p)
  /\ UNCHANGED <<busVars, rowVars, req>>

-----------------------------------------------------------------------------
(* CacheRestore and PubDelMemAll.                                          *)

(* Atomic(k, Set(k, val)).                                                 *)
Restore(p, k) ==
  /\ LockFree(Node(p), k)
  /\ cache' = [cache EXCEPT ![Node(p)][k] = data[p]]

(* The row p read is stored under each of its conditions, the first first; *)
(* an error of Set ends it.                                                *)
Storing(k) == IF k \in Ids THEN "restoreid" ELSE "restorename"

RestoreKey(p) ==
  /\ \/ /\ At(p, "restore")
        /\ \E k \in FirstConditions(data[p]) :
             /\ Restore(p, k)
             /\ \E l \in Conditions(data[p]) \ {k} : Goto(p, Storing(l))
        /\ UNCHANGED data
     \/ /\ pc[p] \in {"restoreid", "restorename"}
        /\ \E k \in Conditions(data[p]) :
             At(p, Storing(k)) /\ Restore(p, k) /\ Returns(p)
     \/ pc[p] \in Restoring /\ Returns(p) /\ UNCHANGED cache
  /\ UNCHANGED <<lock, busVars, rowVars, req>>

ClearAll(p) ==
  /\ At(p, "new") /\ Op(p) = "clear"
  /\ Publish(DelAllMessage(p))
  /\ Goto(p, "done")
  /\ UNCHANGED <<cacheVars, rowVars, req, data>>

MessageLost(n) == LoseMessage(n) /\ UNCHANGED <<rowVars, procVars>>

-----------------------------------------------------------------------------
ProcStep(p) ==
  \/ Begin(p) \/ GetHit(p) \/ GetMiss(p) \/ GetLoad(p) \/ GetStore(p)
  \/ InsertRow(p) \/ UpdateRow(p) \/ DeleteRow(p)
  \/ PublishDelete(p) \/ Commit(p) \/ RestoreKey(p) \/ ClearAll(p)

ProcFails(p) == Rollback(p) \/ LoadFails(p)

HandlerStep(n) ==
  /\ Receive(n) \/ HandlerDelete(n) \/ HandlerLockedDelete(n) \/ HandlerArm(n)
  /\ UNCHANGED <<rowVars, procVars>>

(* The second deletion of a message falls after the end of the transaction *)
(* that published it, if transactions are prompt.                          *)
TimerStep(n) ==
  /\ \E j \in timers[n] :
       /\ PromptCommit => ~InTx(j.from)
       /\ TimerDelete(n, j) \/ TimerLockedDelete(n, j)
  /\ UNCHANGED <<rowVars, procVars>>

Next ==
  \/ \E p \in Procs : ProcStep(p) \/ ProcFails(p)
  \/ \E n \in Nodes : HandlerStep(n) \/ TimerStep(n) \/ (Lossy /\ MessageLost(n))

Spec == Init /\ [][Next]_vars

(* Goroutines that can run do run; so do transactions that MySQL makes     *)
(* wait, once the one they wait for has ended.  Failures need not happen.  *)
Fairness ==
  /\ \A p \in Procs : WF_vars(ProcStep(p))
  /\ \A n \in Nodes : WF_vars(HandlerStep(n)) /\ WF_vars(TimerStep(n))

FairSpec == Spec /\ Fairness

-----------------------------------------------------------------------------
(* Safety.                                                                 *)

Stale(n, k) == cache[n][k] \notin {Miss, Lookup(db, k)}

(* Node n still has a deletion of k to do, the first or the second one, or *)
(* lost the message.                                                       *)
ToForget(n, k) ==
  \/ Announced(n, k)
  \/ handler[n] # None /\ k \in handler[n].keys
  \/ \E j \in timers[n] : k \in j.todo
  \/ <<n, k>> \in missed

(* The invalidation is published before the commit (session.go:127), so a  *)
(* node may reload the old row after it; then the second deletion two      *)
(* seconds later (cache.go:171) is still to come.  The same holds of the   *)
(* row that a loader has read and is about to store.                       *)
RowsCoherent ==
  /\ \A n \in Nodes, k \in Keys : Stale(n, k) => ToForget(n, k)
  /\ \A p \in Procs : At(p, "store") =>
       data[p] = Lookup(db, Key(p)) \/ ToForget(Node(p), Key(p))

(* A version is given to one content of a row only: a copy of any age, in  *)
(* a cache or in the hands of a writer, that has the row's version is the  *)
(* row (MyBase.Version, mysql.go:132).                                     *)
IsCurrent(r) == db[r.id] # Null /\ db[r.id].version = r.version
VersionIdentifies ==
  /\ \A n \in Nodes, k \in Keys :
       LET r == cache[n][k] IN
       r \notin {Miss, Null} /\ IsCurrent(r) => r = db[r.id]
  /\ \A p \in Procs :
       LET r == data[p] IN
       pending[p] = None /\ pc[p] \in Running /\ r # Null /\ IsCurrent(r)
         => r = db[r.id]

(* Optimistic locking (mysql.go:132): however stale the row an update      *)
(* started from, it never undoes what another committed transaction wrote  *)
(* to the same row.                                                        *)
NoLostUpdate ==
  [][\A i \in Ids :
       db[i] # Null /\ db'[i] # Null => db[i].edits \subseteq db'[i].edits]_vars

-----------------------------------------------------------------------------
(* Liveness.                                                               *)

(* "Whether there is an error or not, always close" (mysql.go:325): every  *)
(* transaction that begins gives its connection back.                      *)
SessionsClose == \A p \in Procs : InTx(p) ~> ~InTx(p)

(* A stale row does not stay in a cache.                                   *)
StaleRowIsPurged ==
  \A n \in Nodes, k \in Keys : Stale(n, k) ~> ~Stale(n, k)
=============================================================================
