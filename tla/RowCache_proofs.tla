---------------------------- MODULE RowCache_proofs ----------------------------
(***************************************************************************)
(* Proofs about RowCache, for any nodes, names, ids and requests.          *)
(* Versions: whatever the caches hold, a version names one content of a    *)
(* row, and no committed update is lost.  Coherence: no stale row stays in *)
(* a cache unnoticed, of writers that find their row by its id, do not     *)
(* change its name, and end before the second deletion of what they        *)
(* published.                                                              *)
(***************************************************************************)
EXTENDS RowCache, NodeCache_proofs

USE RowAssumption

(* What a request has in hand at its place.                                *)
InHand(p) ==
  /\ At(p, "write") /\ Op(p) # "insert" => data[p] # Null
  /\ pc[p] \in {"publish"} \cup Restoring => data[p] # Null
  /\ pending[p] # None =>
       /\ pc[p] \in {"publish", "finish"}
       /\ pending[p].row # Null => pending[p].row.id = pending[p].id

TypeInv == RowTypeOK /\ \A p \in Procs : InHand(p)

(* The copies of rows: in caches, and in the hands of requests that have   *)
(* not written yet.                                                        *)
Copies ==
  ({cache[n][k] : n \in Nodes, k \in Keys} \cup
   {data[p] : p \in {q \in Procs : pending[q] = None}}) \ {Miss, Null}

(* A copy is the row as it was committed once: it has a smaller version    *)
(* than the row, or is the row, or the row is gone.                        *)
Old(r) ==
  /\ r.id <= lastId
  /\ db[r.id] # Null => \/ r.version < db[r.id].version
                        \/ r = db[r.id]

(* A transaction has deleted a row, inserted one that nobody has seen, or  *)
(* written the next version of the committed one.                          *)
WrittenOnce(p) ==
  LET w == pending[p] IN
  w # None =>
    /\ w.id <= lastId
    /\ w.row = Null => db[w.id] # Null
    /\ w.row # Null /\ db[w.id] = Null => \A r \in Copies : r.id # w.id
    /\ w.row # Null /\ db[w.id] # Null =>
         /\ w.row.version = db[w.id].version + 1
         /\ db[w.id].edits \subseteq w.row.edits

VersionInv ==
  /\ \A i \in Ids : db[i] # Null => i <= lastId
  /\ \A r \in Copies : Old(r)
  /\ \A p \in Procs : WrittenOnce(p)
  /\ \A p, q \in Procs :
       p # q /\ pending[p] # None /\ pending[q] # None => pending[p].id # pending[q].id

IInv == TypeInv /\ VersionInv

-----------------------------------------------------------------------------
(* Conditions and rows.                                                    *)

LEMMA ConditionKeys ==
  ASSUME NEW r \in Row
  PROVE  Conditions(r) \subseteq Keys /\ r.id \in Ids /\ r.name \in Names
BY DEF Conditions, Row

LEMMA LookupRow ==
  ASSUME RowTypeOK, NEW k
  PROVE  /\ Lookup(db, k) \in Row \cup {Null}
         /\ Lookup(db, k) # Null => \E i \in Ids : Lookup(db, k) = db[i]
<1>1. CASE Found(db, k) = {} BY <1>1 DEF Lookup
<1>2. CASE Found(db, k) # {}
  <2> DEFINE i == CHOOSE j \in Found(db, k) : TRUE
  <2>1. i \in Found(db, k) BY <1>2
  <2>2. i \in Ids BY <2>1 DEF Found
  <2>3. Lookup(db, k) = db[i] BY <1>2 DEF Lookup
  <2>. HIDE DEF i
  <2>4. QED BY <2>2, <2>3 DEF RowTypeOK
<1>3. QED BY <1>1, <1>2

LEMMA FoundById ==
  ASSUME RowTypeOK, NEW k \in Ids, NEW i \in Found(db, k)
  PROVE  i = k /\ i \in Ids /\ db[i] \in Row
<1>1. i \in Ids /\ db[i] # Null /\ k \in Conditions(db[i]) BY DEF Found
<1>2. db[i] \in Row /\ db[i].id = i BY <1>1 DEF RowTypeOK
<1>3. db[i].name \in Names BY <1>2 DEF Row
<1>4. QED BY <1>1, <1>2, <1>3 DEF Conditions

LEMMA MessageTypes ==
  ASSUME NEW p \in Procs, NEW K \in SUBSET Keys
  PROVE  DelCacheMessage(p, K) \in Message /\ DelAllMessage(p) \in Message
BY DEF Message, DelCacheMessage, DelAllMessage

LEMMA MergedRow ==
  ASSUME NEW p \in Procs, data[p] \in Row, req[p] \in Request
  PROVE  /\ Merged(p) \in Row /\ Merged(p).id = data[p].id
         /\ Merged(p).version = data[p].version
         /\ data[p].edits \subseteq Merged(p).edits
BY DEF Merged, Row, Request

LEMMA NextVersionRow ==
  ASSUME NEW r \in Row
  PROVE  /\ NextVersion(r) \in Row /\ NextVersion(r).id = r.id
         /\ NextVersion(r).version = r.version + 1
         /\ NextVersion(r).edits = r.edits
         /\ \A i \in Ids : [r EXCEPT !.id = i] \in Row /\ [r EXCEPT !.id = i].id = i
BY DEF NextVersion, Row

-----------------------------------------------------------------------------
(* Types.                                                                  *)

LEMMA InitType == Init => TypeInv
<1> SUFFICES ASSUME Init PROVE TypeInv
  OBVIOUS
<1> USE DEF Init, BusInit
<1>1. BusTypeOK(Row \cup {Null})
  BY DEF BusTypeOK
<1>2. db \in [Ids -> Row \cup {Null}] /\ \A i \in Ids : db[i] # Null => db[i].id = i
  <2>1. AnyName \in Names BY DEF AnyName
  <2>2. QED BY <2>1 DEF Row
<1>3. req \in [Procs -> Request] BY DEF Asked
<1>4. RowTypeOK
  BY <1>1, <1>2, <1>3 DEF RowTypeOK
<1>5. ASSUME NEW p \in Procs PROVE InHand(p)
  BY <1>5 DEF InHand, At, Restoring
<1>6. QED BY <1>4, <1>5 DEF TypeInv

(* What the SQL statement of a transaction does: it is refused, deletes    *)
(* nothing, or writes a row.                                               *)
LEMMA StatementWrites ==
  ASSUME TypeInv, NEW p \in Procs, InsertRow(p) \/ UpdateRow(p) \/ DeleteRow(p)
  PROVE  /\ UNCHANGED <<cacheVars, busVars, db, req>> /\ At(p, "write") /\ pending[p] = None
         /\ lastId' \in 0..MaxId
         /\ \/ Refused(p)
            \/ UNCHANGED <<pending, data>> /\ Goto(p, "publish") /\ data[p] # Null
            \/ \E w \in Write, r \in Row :
                 /\ Writes(p, w, r)
                 /\ w.row # Null => w.row.id = w.id
<1> USE DEF TypeInv, RowTypeOK
<1>1. /\ UNCHANGED <<cacheVars, busVars, db, req>> /\ At(p, "write") /\ pending[p] = None
      /\ req[p].name \in Names
  BY DEF InsertRow, UpdateRow, DeleteRow, InHand, At, Request
<1>2. CASE InsertRow(p) /\ ~Refused(p)
  <2>1. ~(Taken(req[p].name, 0) \/ NoIdLeft) BY <1>2 DEF InsertRow
  <2> DEFINE r == [id |-> lastId + 1, name |-> req[p].name, version |-> 1, edits |-> {p}]
  <2>2. lastId + 1 \in Ids BY <2>1 DEF NoIdLeft, Ids
  <2>3. r \in Row /\ r.id = lastId + 1 BY <1>1, <2>2 DEF Row
  <2>4. Writes(p, [id |-> r.id, row |-> r], r) /\ lastId' = lastId + 1
    BY <1>2, <2>1 DEF InsertRow
  <2>. HIDE DEF r
  <2> DEFINE w == [id |-> r.id, row |-> r]
  <2>5. w \in Write /\ w.row.id = w.id BY <2>2, <2>3 DEF Write
  <2>6. lastId' \in 0..MaxId BY <2>2, <2>4 DEF Ids
  <2>. HIDE DEF w
  <2>7. Writes(p, w, r) BY <2>4 DEF w
  <2>8. QED BY <1>1, <2>3, <2>5, <2>6, <2>7
<1>3. CASE UpdateRow(p) /\ ~Refused(p)
  <2>1. data[p] \in Row BY <1>3 DEF UpdateRow, InHand, At
  <2>2. PICK i \in Ids :
          Writes(p, [id |-> i, row |-> NextVersion([Merged(p) EXCEPT !.id = i])],
                 NextVersion(Merged(p)))
    BY <1>3 DEF UpdateRow, Matching, Found
  <2> DEFINE r == NextVersion([Merged(p) EXCEPT !.id = i])
  <2>3. /\ NextVersion(Merged(p)) \in Row
        /\ [Merged(p) EXCEPT !.id = i] \in Row /\ [Merged(p) EXCEPT !.id = i].id = i
    BY <1>1, <2>1, MergedRow, NextVersionRow
  <2>4. r \in Row /\ r.id = i BY <2>3, NextVersionRow
  <2>. HIDE DEF r
  <2> DEFINE w == [id |-> i, row |-> r]
  <2>5. w \in Write /\ w.row.id = w.id BY <2>4 DEF Write
  <2>6. Writes(p, w, NextVersion(Merged(p))) BY <2>2 DEF r
  <2>7. lastId' \in 0..MaxId BY <1>3 DEF UpdateRow
  <2>. HIDE DEF w
  <2>8. QED BY <1>1, <2>3, <2>5, <2>6, <2>7
<1>4. CASE DeleteRow(p)
  <2>1. data[p] \in Row /\ lastId' = lastId BY <1>4 DEF DeleteRow, InHand, At
  <2>2. CASE Found(db, Key(p)) = {}
    BY <1>1, <1>4, <2>1, <2>2 DEF DeleteRow
  <2>3. CASE Found(db, Key(p)) # {}
    <3>1. PICK i \in Ids : Writes(p, [id |-> i, row |-> Null], data[p])
      BY <1>4, <2>3 DEF DeleteRow, Found
    <3> DEFINE w == [id |-> i, row |-> Null]
    <3>2. w \in Write /\ w.row = Null BY DEF Write
    <3>3. Writes(p, w, data[p]) BY <3>1
    <3>. HIDE DEF w
    <3>4. QED BY <1>1, <2>1, <3>2, <3>3
  <2>4. QED BY <2>2, <2>3
<1>5. CASE Refused(p)
  <2>1. lastId' = lastId \/ (lastId' = lastId + 1 /\ lastId # MaxId)
    BY DEF InsertRow, UpdateRow, DeleteRow, NoIdLeft
  <2>2. QED BY <1>1, <1>5, <2>1
<1>6. QED BY <1>2, <1>3, <1>4, <1>5

LEMMA StepType == TypeInv /\ [Next]_vars => TypeInv'
<1> SUFFICES ASSUME TypeInv, [Next]_vars PROVE TypeInv'
  OBVIOUS
<1> USE DEF TypeInv, RowTypeOK, InHand, At, Goto, Op, Node, Key, Running, Ended, Restoring,
            rowVars, procVars
<1>a. ASSUME UNCHANGED <<cacheVars, busVars>> PROVE BusTypeOK(Row \cup {Null})'
  BY <1>a DEF BusTypeOK, cacheVars, busVars
<1>b. \A p \in Procs : req[p].node \in Nodes /\ req[p].key \in Keys /\ req[p].name \in Names
  BY DEF Request
<1>1. ASSUME NEW p \in Procs, Begin(p) PROVE TypeInv'
  BY <1>1, <1>a DEF Begin
<1>2. ASSUME NEW p \in Procs, GetHit(p) PROVE TypeInv'
  <2>1. BusTypeOK(Row \cup {Null})' BY <1>2, <1>a DEF GetHit, CacheHit
  <2>2. cache[req[p].node][req[p].key] \in Row \cup {Null}
    BY <1>2, <1>b DEF GetHit, CacheHit, BusTypeOK
  <2>3. QED BY <1>2, <2>1, <2>2 DEF GetHit, GetReturns, Gets, Returns
<1>3. ASSUME NEW p \in Procs, GetMiss(p) PROVE TypeInv'
  <2>1. BusTypeOK(Row \cup {Null})'
    BY <1>3, <1>b DEF GetMiss, CacheMiss, BusTypeOK, busVars
  <2>2. QED BY <1>3, <2>1 DEF GetMiss, Gets
<1>4. ASSUME NEW p \in Procs, GetLoad(p) PROVE TypeInv'
  BY <1>4, <1>a, LookupRow DEF GetLoad
<1>5. ASSUME NEW p \in Procs, GetStore(p) PROVE TypeInv'
  <2>1. BusTypeOK(Row \cup {Null})'
    BY <1>5, <1>b DEF GetStore, CacheStore, BusTypeOK, busVars
  <2>2. QED BY <1>5, <2>1 DEF GetStore, GetReturns, Returns
<1>6. ASSUME NEW p \in Procs, InsertRow(p) \/ UpdateRow(p) \/ DeleteRow(p) PROVE TypeInv'
  <2>1. UNCHANGED <<cacheVars, busVars, db, req>> /\ At(p, "write") /\ lastId' \in 0..MaxId
    BY <1>6, StatementWrites
  <2>2. CASE Refused(p)
    BY <1>a, <2>1, <2>2 DEF Refused, Returns
  <2>3. CASE UNCHANGED <<pending, data>> /\ Goto(p, "publish") /\ data[p] # Null
    BY <1>a, <2>1, <2>3
  <2>4. ASSUME NEW w \in Write, NEW r \in Row, Writes(p, w, r),
               w.row # Null => w.row.id = w.id
        PROVE  TypeInv'
    BY <1>a, <2>1, <2>4 DEF Writes
  <2>5. QED BY <1>6, <2>2, <2>3, <2>4, StatementWrites
<1>9. ASSUME NEW p \in Procs, PublishDelete(p) PROVE TypeInv'
  <2>1. DelCacheMessage(p, Conditions(data[p])) \in Message
    BY <1>9, ConditionKeys, MessageTypes DEF PublishDelete
  <2>2. BusTypeOK(Row \cup {Null})'
    BY <1>9, <2>1, PublishTypes DEF PublishDelete
  <2>3. QED BY <1>9, <2>2 DEF PublishDelete
<1>10. ASSUME NEW p \in Procs, Commit(p) PROVE TypeInv'
  <2>1. db' \in [Ids -> Row \cup {Null}] BY <1>10 DEF Commit, Write
  <2>2. QED BY <1>10, <1>a, <2>1 DEF Commit, Returns
<1>11. ASSUME NEW p \in Procs, RestoreKey(p) PROVE TypeInv'
  <2>1. data[p] \in Row BY <1>11 DEF RestoreKey
  <2>2. cache' \in [Nodes -> [Keys -> Row \cup {Null} \cup {Miss}]]
    <3>1. CASE UNCHANGED cache BY <3>1 DEF BusTypeOK
    <3>2. ASSUME NEW k \in Conditions(data[p]), Restore(p, k)
          PROVE  cache' \in [Nodes -> [Keys -> Row \cup {Null} \cup {Miss}]]
      BY <3>2, <1>b, <2>1, ConditionKeys DEF Restore, BusTypeOK
    <3>3. QED BY <1>11, <2>1, <3>1, <3>2, ConditionKeys DEF RestoreKey, FirstConditions, Conditions
  <2>3. BusTypeOK(Row \cup {Null})'
    BY <1>11, <2>2 DEF RestoreKey, BusTypeOK, busVars
  <2>4. pc' \in [Procs -> {"new"} \cup Running \cup Ended]
    BY <1>11 DEF RestoreKey, Storing, Returns
  <2>5. QED BY <1>11, <2>3, <2>4 DEF RestoreKey, Storing, Returns
<1>12. ASSUME NEW p \in Procs, ClearAll(p) PROVE TypeInv'
  <2>1. DelAllMessage(p) \in Message BY MessageTypes
  <2>2. BusTypeOK(Row \cup {Null})'
    BY <1>12, <2>1, PublishTypes DEF ClearAll
  <2>3. QED BY <1>12, <2>2 DEF ClearAll
<1>13. ASSUME NEW p \in Procs, Rollback(p) PROVE TypeInv'
  BY <1>13, <1>a DEF Rollback, Returns
<1>14. ASSUME NEW p \in Procs, LoadFails(p) PROVE TypeInv'
  <2>1. BusTypeOK(Row \cup {Null})'
    BY <1>14, <1>b DEF LoadFails, CacheGiveUp, BusTypeOK, busVars
  <2>2. QED BY <1>14, <2>1 DEF LoadFails, Loading, Returns
<1>15. ASSUME NEW n \in Nodes, NodeStep(n), UNCHANGED <<rowVars, procVars>> PROVE TypeInv'
  BY <1>15, NodeStepTypes
<1>16. CASE UNCHANGED vars
  BY <1>16, <1>a DEF vars
<1>17. QED
  BY <1>1, <1>2, <1>3, <1>4, <1>5, <1>6, <1>9, <1>10, <1>11, <1>12, <1>13,
     <1>14, <1>15, <1>16
  DEF Next, ProcStep, ProcFails, HandlerStep, TimerStep, MessageLost, NodeStep

LEMMA TypeHolds == Spec => []TypeInv
BY InitType, StepType, PTL DEF Spec

(* Every state is well typed: rows under their ids, messages, jobs and     *)
(* caches (RowCache, NodeCache).                                           *)
THEOREM RowsTyped == Spec => []RowTypeOK
<1>1. TypeInv => RowTypeOK BY DEF TypeInv
<1>2. QED BY <1>1, TypeHolds, PTL

-----------------------------------------------------------------------------
(* Versions.                                                               *)

(* What a step that writes no row may put into a cache or into the hands   *)
(* of a request: copies there are, and committed rows.                     *)
Seen == Copies \cup {db[i] : i \in Ids} \cup {Miss, Null}

LEMMA SeenNow ==
  /\ \A n \in Nodes, k \in Keys : cache[n][k] \in Seen
  /\ \A p \in Procs : pending[p] = None => data[p] \in Seen
  /\ \A i \in Ids : db[i] \in Seen
BY DEF Seen, Copies

LEMMA HeldCopy ==
  ASSUME TypeInv, NEW p \in Procs, pending[p] = None, data[p] # Null
  PROVE  data[p] \in Copies
BY DEF Copies, TypeInv, RowTypeOK

LEMMA CopyRow ==
  ASSUME TypeInv, NEW r \in Copies
  PROVE  r \in Row
BY DEF Copies, TypeInv, RowTypeOK, BusTypeOK

LEMMA NewCopies ==
  ASSUME \A n \in Nodes, k \in Keys : cache'[n][k] \in Seen,
         \A q \in Procs : pending'[q] = None => data'[q] \in Seen
  PROVE  Copies' \subseteq Seen \ {Miss, Null}
BY DEF Copies

(* Reading, storing, deleting entries and giving up keep VersionInv.       *)
LEMMA ReadsKeep ==
  ASSUME TypeInv, VersionInv, UNCHANGED <<db, lastId>>,
         \A q \in Procs : pending'[q] \in {pending[q], None},
         \A n \in Nodes, k \in Keys : cache'[n][k] \in Seen,
         \A q \in Procs : pending'[q] = None => data'[q] \in Seen
  PROVE  VersionInv'
<1>1. ASSUME NEW r \in Copies' PROVE r \in Copies \/ \E i \in Ids : r = db[i] /\ r # Null
  BY <1>1, NewCopies DEF Seen
<1>2. \A i \in Ids : db[i] # Null => db[i].id = i /\ db[i] \in Row /\ i <= lastId
  BY DEF TypeInv, RowTypeOK, VersionInv
<1>3. ASSUME NEW r \in Copies' PROVE Old(r)'
  BY <1>1, <1>2, <1>3 DEF VersionInv, Old
<1>4. ASSUME NEW q \in Procs PROVE WrittenOnce(q)'
  <2>1. CASE pending'[q] = None BY <2>1 DEF WrittenOnce
  <2>2. CASE pending'[q] = pending[q] /\ pending[q] # None
    <3>1. WrittenOnce(q) BY DEF VersionInv
    <3>2. ASSUME db[pending[q].id] = Null, NEW r \in Copies',
                 \A t \in Copies : t.id # pending[q].id
          PROVE  r.id # pending[q].id
      BY <1>1, <1>2, <3>2
    <3>3. QED BY <2>2, <3>1, <3>2 DEF WrittenOnce
  <2>3. QED BY <2>1, <2>2
<1>5. QED BY <1>2, <1>3, <1>4 DEF VersionInv

(* So does a write of p that is allowed.                                   *)
LEMMA WriteKeeps ==
  ASSUME TypeInv, VersionInv, NEW p \in Procs, NEW w \in Write,
         pending' = [pending EXCEPT ![p] = w], UNCHANGED <<db, cache>>,
         lastId' \in Nat, lastId <= lastId',
         \A q \in Procs : q # p => data'[q] = data[q],
         WrittenOnce(p)',
         \A q \in Procs : q # p /\ pending[q] # None => pending[q].id # w.id
  PROVE  VersionInv'
<1>0. w # None
  BY DEF Write
<1>1. Copies' \subseteq Copies
  BY <1>0 DEF Copies, TypeInv, RowTypeOK
<1>2. \A r \in Copies : r.id \in Ids /\ r.id <= lastId'
  BY CopyRow DEF VersionInv, Old, Row, Ids, TypeInv, RowTypeOK
<1>3. ASSUME NEW r \in Copies' PROVE Old(r)'
  BY <1>1, <1>2, <1>3 DEF VersionInv, Old
<1>4. ASSUME NEW q \in Procs, q # p PROVE WrittenOnce(q)'
  <2>1. pending'[q] = pending[q] BY <1>4 DEF TypeInv, RowTypeOK
  <2>2. pending[q] # None => pending[q].id \in Ids BY DEF TypeInv, RowTypeOK, Write
  <2>3. WrittenOnce(q) BY DEF VersionInv
  <2>4. pending[q] # None => pending[q].id <= lastId'
    BY <2>2, <2>3 DEF WrittenOnce, Ids, TypeInv, RowTypeOK
  <2>5. QED BY <1>1, <2>1, <2>3, <2>4 DEF WrittenOnce
<1>5. \A i \in Ids : db'[i] # Null => i <= lastId'
  BY DEF VersionInv, Ids, TypeInv, RowTypeOK
<1>6. \A q, t \in Procs :
        q # t /\ pending'[q] # None /\ pending'[t] # None => pending'[q].id # pending'[t].id
  BY DEF VersionInv, TypeInv, RowTypeOK
<1>7. QED BY <1>3, <1>4, <1>5, <1>6 DEF VersionInv

(* A statement that does not wait meets no row of another transaction.     *)
LEMMA WaitsForWriters ==
  ASSUME TypeInv, VersionInv, NEW p \in Procs, NEW K, ~Waits(p, K), NEW i \in K,
         NEW q \in Procs, q # p, pending[q] # None
  PROVE  pending[q].id # i
<1> DEFINE w == pending[q]
<1>1. w.id \in Ids /\ WrittenOnce(q) /\ InHand(q)
  BY DEF TypeInv, RowTypeOK, VersionInv, Write
<1>2. \E r \in {db[w.id], w.row} \ {Null} : w.id = r.id
  BY <1>1 DEF WrittenOnce, InHand, TypeInv, RowTypeOK
<1>3. w.id \in Locked(q)
  BY <1>2 DEF Locked, Conditions
<1>4. QED BY <1>3 DEF Waits

LEMMA InsertKeeps ==
  ASSUME IInv, NEW p \in Procs, InsertRow(p)
  PROVE  VersionInv'
<1> USE DEF IInv
<1>1. pending[p] = None BY DEF InsertRow, TypeInv, InHand, At
<1>2. CASE Refused(p) /\ UNCHANGED lastId
  <2>1. /\ UNCHANGED <<db, lastId, cache, pending>>
        /\ \A q \in Procs : data'[q] \in {data[q], Null}
    BY <1>2 DEF InsertRow, Refused, Returns, cacheVars, TypeInv, RowTypeOK
  <2>2. Null \in Seen BY DEF Seen
  <2>3. QED BY <2>1, <2>2, SeenNow, ReadsKeep
<1>3. CASE ~(Taken(req[p].name, 0) \/ NoIdLeft)
  <2> DEFINE r == [id |-> lastId + 1, name |-> req[p].name, version |-> 1, edits |-> {p}]
             w == [id |-> r.id, row |-> r]
  <2>1. lastId + 1 \in Ids /\ req[p].name \in Names /\ lastId \in Nat
    BY <1>3 DEF NoIdLeft, Ids, TypeInv, RowTypeOK, Request
  <2>2. r \in Row /\ r.id = lastId + 1 BY <2>1 DEF Row
  <2>3. Writes(p, w, r) /\ lastId' = lastId + 1 /\ UNCHANGED <<db, cache>>
    BY <1>3 DEF InsertRow, cacheVars
  <2>. HIDE DEF r
  <2>4. w \in Write /\ w.id = lastId + 1 /\ w.row = r /\ w.row # Null
    BY <2>1, <2>2 DEF Write
  <2>. HIDE DEF w
  <2>5. /\ pending' = [pending EXCEPT ![p] = w] /\ pending'[p] = w
        /\ \A q \in Procs : q # p => data'[q] = data[q]
    BY <2>3 DEF Writes, TypeInv, RowTypeOK
  <2>6. db[w.id] = Null BY <2>1, <2>4 DEF VersionInv
  <2>7. \A t \in Copies' : t.id # w.id
    <3>1. w # None BY <2>4
    <3>2. Copies' \subseteq Copies
      BY <2>3, <2>5, <3>1 DEF Copies
    <3>3. \A t \in Copies : t.id \in Ids /\ t.id <= lastId
      BY CopyRow DEF VersionInv, Old, Row
    <3>4. QED BY <2>1, <2>4, <3>2, <3>3 DEF Ids
  <2>8. WrittenOnce(p)'
    BY <2>1, <2>3, <2>4, <2>5, <2>6, <2>7 DEF WrittenOnce
  <2>9. \A q \in Procs : q # p /\ pending[q] # None => pending[q].id # w.id
    <3>1. ASSUME NEW q \in Procs, pending[q] # None PROVE pending[q].id # w.id
      <4>1. pending[q].id \in Ids /\ pending[q].id <= lastId
        BY <3>1 DEF VersionInv, WrittenOnce, TypeInv, RowTypeOK, Write
      <4>2. QED BY <2>1, <2>4, <4>1 DEF Ids
    <3>2. QED BY <3>1
  <2>10. lastId' \in Nat /\ lastId <= lastId' BY <2>1, <2>3
  <2>11. QED BY <2>3, <2>4, <2>5, <2>8, <2>9, <2>10, WriteKeeps
<1>4. QED BY <1>2, <1>3 DEF InsertRow

(* By its id, an update finds the row of which it holds a copy; if it has  *)
(* the copy's version it is the copy.                                      *)
LEMMA UpdateFinds ==
  ASSUME ~NameFirst, IInv, NEW p \in Procs, UpdateRow(p), ~Refused(p)
  PROVE  /\ data[p] \in Row /\ db[data[p].id] = data[p] /\ data[p].id <= lastId
         /\ ~Waits(p, RowsAt({data[p].id, Merged(p).name}))
         /\ Writes(p, [id |-> data[p].id, row |-> NextVersion(Merged(p))],
                   NextVersion(Merged(p)))
<1> USE DEF IInv
<1> DEFINE bean == Merged(p)
<1>1. /\ pending[p] = None /\ data[p] # Null /\ data[p] \in Row /\ req[p] \in Request
  BY DEF UpdateRow, TypeInv, RowTypeOK, InHand, At, Op
<1>2. Old(data[p])
  BY <1>1, HeldCopy DEF VersionInv
<1>3. bean \in Row /\ bean.id = data[p].id /\ bean.version = data[p].version
  BY <1>1, MergedRow
<1>4. FirstConditions(bean) = {bean.id} BY DEF FirstConditions
<1>5. ~Waits(p, RowsAt({bean.id, bean.name}))
  BY <1>4 DEF UpdateRow
<1>6. PICK i \in Matching(bean.id, bean.version) :
        Writes(p, [id |-> i, row |-> NextVersion([bean EXCEPT !.id = i])], NextVersion(bean))
  BY <1>4 DEF UpdateRow
<1>. HIDE DEF bean
<1>7. i \in Ids /\ i = bean.id /\ db[i] \in Row /\ db[i].version = bean.version
  <2>1. bean.id \in Ids BY <1>3 DEF Row
  <2>2. i \in Found(db, bean.id) /\ db[i].version = bean.version BY <1>6 DEF Matching
  <2>3. QED BY <2>1, <2>2, FoundById DEF TypeInv
<1>8. db[i] = data[p] /\ i <= lastId
  <2>1. db[data[p].id] = db[i] /\ data[p].version \in Nat
    BY <1>1, <1>3, <1>7 DEF Row
  <2>2. QED BY <1>2, <1>3, <1>7, <2>1 DEF Old
<1>9. [bean EXCEPT !.id = i] = bean BY <1>3, <1>7 DEF Row
<1>10. Writes(p, [id |-> data[p].id, row |-> NextVersion(bean)], NextVersion(bean))
  BY <1>3, <1>6, <1>7, <1>9
<1>11. QED BY <1>1, <1>3, <1>5, <1>7, <1>8, <1>10 DEF bean

LEMMA UpdateKeeps ==
  ASSUME ~NameFirst, IInv, NEW p \in Procs, UpdateRow(p)
  PROVE  VersionInv'
<1> USE DEF IInv
<1>1. pending[p] = None /\ req[p] \in Request /\ UNCHANGED <<db, lastId, cache>>
  BY DEF UpdateRow, TypeInv, RowTypeOK, InHand, At, cacheVars
<1>2. CASE Refused(p)
  <2>1. /\ UNCHANGED pending
        /\ \A q \in Procs : data'[q] \in {data[q], Null}
    BY <1>2 DEF Refused, Returns, TypeInv, RowTypeOK
  <2>2. Null \in Seen BY DEF Seen
  <2>3. QED BY <1>1, <2>1, <2>2, SeenNow, ReadsKeep
<1>3. CASE ~Refused(p)
  <2> DEFINE i == data[p].id
             r == NextVersion(Merged(p))
             w == [id |-> i, row |-> r]
  <2>1. /\ data[p] \in Row /\ db[i] = data[p] /\ i <= lastId
        /\ ~Waits(p, RowsAt({i, Merged(p).name}))
        /\ Writes(p, w, r)
    BY <1>3, UpdateFinds
  <2>2. i \in Ids /\ db[i] # Null BY <2>1 DEF Row
  <2>3. r \in Row /\ r.version = db[i].version + 1 /\ db[i].edits \subseteq r.edits
    <3>1. /\ Merged(p) \in Row /\ Merged(p).version = data[p].version
          /\ data[p].edits \subseteq Merged(p).edits
      BY <1>1, <2>1, MergedRow
    <3>2. QED BY <2>1, <3>1, NextVersionRow
  <2>. HIDE DEF r, i
  <2>4. w \in Write /\ w.id = i /\ w.row = r /\ w.row # Null
    BY <2>2, <2>3 DEF Write
  <2>. HIDE DEF w
  <2>5. /\ pending' = [pending EXCEPT ![p] = w] /\ pending'[p] = w
        /\ \A q \in Procs : q # p => data'[q] = data[q]
    BY <2>1 DEF Writes, TypeInv, RowTypeOK
  <2>6. WrittenOnce(p)'
    BY <1>1, <2>1, <2>2, <2>3, <2>4, <2>5 DEF WrittenOnce
  <2>7. ASSUME NEW q \in Procs, q # p, pending[q] # None PROVE pending[q].id # w.id
    <3>1. i \in RowsAt({i, Merged(p).name}) BY DEF RowsAt
    <3>2. QED BY <2>1, <2>4, <2>7, <3>1, WaitsForWriters
  <2>8. lastId' \in Nat /\ lastId <= lastId' BY <1>1 DEF TypeInv, RowTypeOK
  <2>9. QED BY <1>1, <2>4, <2>5, <2>6, <2>7, <2>8, WriteKeeps
<1>4. QED BY <1>2, <1>3

LEMMA DeleteKeeps ==
  ASSUME IInv, NEW p \in Procs, DeleteRow(p)
  PROVE  VersionInv'
<1> USE DEF IInv
<1>1. pending[p] = None /\ UNCHANGED <<db, lastId, cache>>
  BY DEF DeleteRow, TypeInv, InHand, At, cacheVars
<1>2. CASE UNCHANGED <<pending, data>>
  BY <1>1, <1>2, SeenNow, ReadsKeep
<1>3. ASSUME ~Waits(p, RowsAt({Key(p)})), NEW i \in Found(db, Key(p)),
             Writes(p, [id |-> i, row |-> Null], data[p])
      PROVE  VersionInv'
  <2> DEFINE w == [id |-> i, row |-> Null]
  <2>1. i \in Ids /\ db[i] # Null /\ db[i].id = i /\ i <= lastId
    BY DEF Found, TypeInv, RowTypeOK, VersionInv
  <2>2. w \in Write /\ w.id = i /\ w.row = Null BY <2>1 DEF Write
  <2>3. Writes(p, w, data[p]) BY <1>3
  <2>. HIDE DEF w
  <2>4. /\ pending' = [pending EXCEPT ![p] = w] /\ pending'[p] = w
        /\ \A q \in Procs : q # p => data'[q] = data[q]
    BY <2>3 DEF Writes, TypeInv, RowTypeOK
  <2>5. WrittenOnce(p)'
    BY <1>1, <2>1, <2>2, <2>4 DEF WrittenOnce
  <2>6. ASSUME NEW q \in Procs, q # p, pending[q] # None PROVE pending[q].id # w.id
    <3>1. i \in RowsAt({Key(p)}) BY <1>3, <2>1 DEF RowsAt, Conditions
    <3>2. QED BY <1>3, <2>2, <2>6, <3>1, WaitsForWriters
  <2>7. lastId' \in Nat /\ lastId <= lastId' BY <1>1 DEF TypeInv, RowTypeOK
  <2>8. QED BY <1>1, <2>2, <2>4, <2>5, <2>6, <2>7, WriteKeeps
<1>4. QED BY <1>2, <1>3 DEF DeleteRow

LEMMA CommitKeeps ==
  ASSUME IInv, NEW p \in Procs, Commit(p)
  PROVE  VersionInv'
<1> USE DEF IInv
<1>1. /\ UNCHANGED <<lastId, cache>> /\ pending' = [pending EXCEPT ![p] = None]
      /\ data' = [data EXCEPT ![p] = Null]
  BY DEF Commit, Returns, cacheVars
<1>2. /\ \A q \in Procs : pending'[q] = IF q = p THEN None ELSE pending[q]
      /\ \A q \in Procs : data'[q] = IF q = p THEN Null ELSE data[q]
  BY <1>1 DEF TypeInv, RowTypeOK
<1>3. Copies' \subseteq Copies BY <1>1, <1>2 DEF Copies
<1>4. CASE pending[p] = None
  <2>1. db' = db BY <1>4 DEF Commit
  <2>2. Null \in Seen BY DEF Seen
  <2>3. QED BY <1>1, <1>2, <2>1, <2>2, SeenNow, ReadsKeep
<1>5. CASE pending[p] # None
  <2> DEFINE w == pending[p]
  <2>1. /\ w \in Write /\ w.id \in Ids /\ w.row \in Row \cup {Null} /\ WrittenOnce(p)
        /\ db' = [db EXCEPT ![w.id] = w.row]
        /\ w.row # Null => w.row.id = w.id
    BY <1>5 DEF Commit, TypeInv, RowTypeOK, VersionInv, Write, InHand
  <2>2. \A i \in Ids : db'[i] = IF i = w.id THEN w.row ELSE db[i]
    BY <2>1 DEF TypeInv, RowTypeOK
  <2>3. \A i \in Ids : db'[i] # Null => i <= lastId'
    BY <1>1, <1>5, <2>1, <2>2 DEF VersionInv, WrittenOnce
  <2>4. ASSUME NEW r \in Copies' PROVE Old(r)'
    <3>1. r \in Copies /\ r \in Row /\ r.id \in Ids /\ r.version \in Nat /\ Old(r)
      BY <1>3, <2>4, CopyRow DEF VersionInv, Row
    <3>2. CASE r.id # w.id BY <1>1, <2>2, <3>1, <3>2 DEF Old
    <3>3. CASE r.id = w.id /\ w.row = Null BY <1>1, <2>2, <3>1, <3>3 DEF Old
    <3>4. CASE r.id = w.id /\ w.row # Null
      <4>1. db[w.id] # Null BY <1>5, <2>1, <3>1, <3>4 DEF WrittenOnce
      <4>2. w.row.version = db[w.id].version + 1 /\ db[w.id].version \in Nat
        BY <1>5, <2>1, <3>4, <4>1 DEF WrittenOnce, TypeInv, RowTypeOK, Row
      <4>3. r.version <= db[w.id].version BY <3>1, <3>4, <4>1, <4>2 DEF Old
      <4>4. r.version < db'[r.id].version BY <2>2, <3>1, <3>4, <4>2, <4>3
      <4>5. QED BY <1>1, <3>1, <4>4 DEF Old
    <3>5. QED BY <3>2, <3>3, <3>4
  <2>5. ASSUME NEW q \in Procs PROVE WrittenOnce(q)'
    <3>1. CASE pending'[q] = None BY <3>1 DEF WrittenOnce
    <3>2. CASE pending'[q] # None
      <4>1. q # p /\ pending'[q] = pending[q] /\ pending[q] # None BY <1>2, <3>2
      <4>2. pending[q].id \in Ids /\ pending[q].id # w.id /\ WrittenOnce(q)
        BY <1>5, <4>1 DEF VersionInv, TypeInv, RowTypeOK, Write
      <4>3. db'[pending[q].id] = db[pending[q].id] BY <2>2, <4>2
      <4>4. QED BY <1>1, <1>3, <4>1, <4>2, <4>3 DEF WrittenOnce
    <3>3. QED BY <3>1, <3>2
  <2>6. QED BY <1>2, <2>3, <2>4, <2>5 DEF VersionInv
<1>6. QED BY <1>4, <1>5

(* The steps of a request that write no row.                               *)
WritesNoRow(p) ==
  \/ Begin(p) \/ GetHit(p) \/ GetMiss(p) \/ GetLoad(p) \/ GetStore(p)
  \/ PublishDelete(p) \/ RestoreKey(p) \/ ClearAll(p) \/ Rollback(p) \/ LoadFails(p)

LEMMA OtherStepsSee ==
  ASSUME IInv, NEW p \in Procs, WritesNoRow(p)
  PROVE  /\ UNCHANGED <<db, lastId>>
         /\ \A q \in Procs : pending'[q] \in {pending[q], None}
         /\ \A q \in Procs : q # p => data'[q] = data[q] /\ pending'[q] = pending[q]
         /\ \A n \in Nodes, k \in Keys : cache'[n][k] \in Seen
         /\ \A q \in Procs : pending'[q] = None => data'[q] \in Seen
<1> USE DEF IInv, WritesNoRow
<1>0. /\ pc \in [Procs -> {"new"} \cup Running \cup Ended]
      /\ data \in [Procs -> Row \cup {Null}] /\ pending \in [Procs -> Write \cup {None}]
      /\ req[p].node \in Nodes /\ req[p].key \in Keys
      /\ cache \in [Nodes -> [Keys -> Row \cup {Null} \cup {Miss}]]
      /\ Null \in Seen
  BY DEF TypeInv, RowTypeOK, BusTypeOK, Request, Seen
<1>1. /\ UNCHANGED <<db, lastId>> /\ \A q \in Procs : pending'[q] \in {pending[q], None}
      /\ \A q \in Procs : q # p => data'[q] = data[q] /\ pending'[q] = pending[q]
  BY <1>0 DEF Begin, GetHit, GetMiss, GetLoad, GetStore, GetReturns, Returns, PublishDelete,
     RestoreKey, ClearAll, Rollback, LoadFails, rowVars
<1>2. \A n \in Nodes, k \in Keys : cache'[n][k] \in Seen
  <2>1. CASE UNCHANGED cache BY <2>1, SeenNow
  <2>2. CASE GetStore(p)
    <3>1. pending[p] = None BY <2>2 DEF GetStore, At, TypeInv, InHand
    <3>2. cache' = [cache EXCEPT ![req[p].node][req[p].key] = data[p]]
      BY <2>2 DEF GetStore, CacheStore, Node, Key
    <3>3. QED BY <1>0, <3>1, <3>2, SeenNow
  <2>3. CASE RestoreKey(p) /\ ~UNCHANGED cache
    <3>1. pending[p] = None BY <2>3 DEF RestoreKey, Restoring, At, Storing, TypeInv, InHand
    <3>2. \E k \in Keys : cache' = [cache EXCEPT ![req[p].node][k] = data[p]]
      <4>1. data[p] \in Row
        BY <1>0, <2>3 DEF RestoreKey, At, Restoring, TypeInv, InHand
      <4>2. QED
        BY <2>3, <4>1, ConditionKeys
        DEF RestoreKey, Restore, Node, FirstConditions, Conditions
    <3>3. QED BY <1>0, <3>1, <3>2, SeenNow
  <2>4. QED
    BY <2>1, <2>2, <2>3 DEF Begin, GetHit, CacheHit, GetMiss, CacheMiss, GetLoad,
       PublishDelete, ClearAll, Rollback, LoadFails, CacheGiveUp, cacheVars
<1>3. pending'[p] = None => data'[p] \in Seen
  <2>1. CASE UNCHANGED <<data, pending>> BY <2>1, SeenNow
  <2>2. CASE GetHit(p)
    <3>1. data'[p] \in {data[p], Null, cache[req[p].node][req[p].key]} /\ UNCHANGED pending
      BY <1>0, <2>2 DEF GetHit, GetReturns, Returns, Node, Key, rowVars
    <3>2. QED BY <1>0, <3>1, SeenNow
  <2>3. CASE GetLoad(p)
    <3>1. data'[p] = Lookup(db, Key(p)) BY <1>0, <2>3 DEF GetLoad
    <3>2. QED BY <1>0, <3>1, LookupRow, SeenNow DEF TypeInv
  <2>4. CASE data'[p] \in {data[p], Null} /\ UNCHANGED pending
    BY <1>0, <2>4, SeenNow
  <2>5. CASE Rollback(p)
    BY <1>0, <2>5 DEF Rollback, Returns
  <2>6. CASE GetStore(p) \/ RestoreKey(p) \/ LoadFails(p)
    <3>1. data'[p] \in {data[p], Null} /\ UNCHANGED pending
      BY <1>0, <2>6 DEF GetStore, GetReturns, RestoreKey, LoadFails, Returns, rowVars
    <3>2. QED BY <3>1, <2>4
  <2>7. QED
    BY <2>1, <2>2, <2>3, <2>5, <2>6 DEF Begin, GetMiss, PublishDelete, ClearAll, rowVars
<1>4. \A q \in Procs : pending'[q] = None => data'[q] \in Seen
  BY <1>1, <1>3, SeenNow
<1>5. QED BY <1>1, <1>2, <1>4

LEMMA OtherStepsKeep ==
  ASSUME IInv, NEW p \in Procs, WritesNoRow(p)
  PROVE  VersionInv'
BY OtherStepsSee, ReadsKeep DEF IInv

LEMMA NodeStepsKeep ==
  ASSUME IInv, NEW n \in Nodes, NodeStep(n), UNCHANGED <<rowVars, procVars>>
  PROVE  VersionInv'
<1>1. Fewer BY NodeStepTypes DEF IInv, TypeInv, RowTypeOK
<1>2. Miss \in Seen BY DEF Seen
<1>3. \A m \in Nodes, k \in Keys : cache'[m][k] \in Seen
  BY <1>1, <1>2, SeenNow DEF Fewer
<1>4. QED BY <1>3, SeenNow, ReadsKeep DEF IInv, rowVars, procVars

LEMMA InitVersion == Init => VersionInv
<1> SUFFICES ASSUME Init PROVE VersionInv
  OBVIOUS
<1>1. Copies = {} BY DEF Init, BusInit, Copies
<1>2. QED BY <1>1 DEF Init, VersionInv, WrittenOnce, Ids

LEMMA StepVersion == ~NameFirst /\ IInv /\ [Next]_vars => VersionInv'
<1> SUFFICES ASSUME ~NameFirst, IInv, [Next]_vars PROVE VersionInv'
  OBVIOUS
<1>1. ASSUME NEW p \in Procs, ProcStep(p) \/ ProcFails(p) PROVE VersionInv'
  BY <1>1, InsertKeeps, UpdateKeeps, DeleteKeeps, CommitKeeps, OtherStepsKeep
  DEF ProcStep, ProcFails, WritesNoRow
<1>2. ASSUME NEW n \in Nodes, NodeStep(n), UNCHANGED <<rowVars, procVars>> PROVE VersionInv'
  BY <1>2, NodeStepsKeep
<1>3. CASE UNCHANGED vars
  BY <1>3, SeenNow, ReadsKeep DEF IInv, vars, cacheVars, rowVars, procVars
<1>4. QED
  BY <1>1, <1>2, <1>3
  DEF Next, HandlerStep, TimerStep, MessageLost, NodeStep

LEMMA IInvHolds == ASSUME ~NameFirst PROVE Spec => []IInv
<1>1. Init => IInv BY InitType, InitVersion DEF IInv
<1>2. IInv /\ [Next]_vars => IInv' BY StepType, StepVersion DEF IInv
<1>3. QED BY <1>1, <1>2, PTL DEF Spec

(* A copy of a row, in a cache or in the hands of a request, that has the  *)
(* row's version is the row (MyBase.Version, mysql.go:132), if rows are    *)
(* written by their id.                                                    *)
THEOREM VersionsIdentify == ASSUME ~NameFirst PROVE Spec => []VersionIdentifies
<1>1. IInv => VersionIdentifies
  <2> SUFFICES ASSUME IInv PROVE VersionIdentifies
    OBVIOUS
  <2>1. \A r \in Copies : IsCurrent(r) => r = db[r.id]
    <3>1. ASSUME NEW r \in Copies, IsCurrent(r) PROVE r = db[r.id]
      <4>1. Old(r) /\ r.version \in Nat
        BY CopyRow DEF IInv, VersionInv, Row
      <4>2. QED BY <3>1, <4>1 DEF Old, IsCurrent
    <3>2. QED BY <3>1
  <2>2. ASSUME NEW n \in Nodes, NEW k \in Keys, cache[n][k] \notin {Miss, Null}
        PROVE  cache[n][k] \in Copies
    BY <2>2 DEF Copies
  <2>3. ASSUME NEW p \in Procs, pending[p] = None, data[p] # Null PROVE data[p] \in Copies
    BY <2>3, HeldCopy DEF IInv
  <2>4. QED BY <2>1, <2>2, <2>3 DEF VersionIdentifies
<1>2. QED BY <1>1, IInvHolds, PTL

(* However stale the copies are that updates start from, no committed      *)
(* update is lost (mysql.go:132), if rows are written by their id.         *)
THEOREM UpdatesStay == ASSUME ~NameFirst PROVE Spec => NoLostUpdate
<1>1. IInv /\ [Next]_vars =>
        \A i \in Ids : db[i] # Null /\ db'[i] # Null => db[i].edits \subseteq db'[i].edits
  <2> SUFFICES ASSUME IInv, [Next]_vars, NEW i \in Ids, db[i] # Null, db'[i] # Null
               PROVE  db[i].edits \subseteq db'[i].edits
    OBVIOUS
  <2>1. CASE UNCHANGED db BY <2>1
  <2>2. ASSUME NEW p \in Procs, Commit(p) PROVE db[i].edits \subseteq db'[i].edits
    <3>1. CASE pending[p] = None BY <2>2, <3>1 DEF Commit
    <3>2. CASE pending[p] # None
      <4>1. /\ pending[p].id \in Ids /\ WrittenOnce(p)
            /\ db'[i] = IF i = pending[p].id THEN pending[p].row ELSE db[i]
        BY <2>2, <3>2 DEF Commit, IInv, TypeInv, RowTypeOK, VersionInv, Write
      <4>2. QED BY <3>2, <4>1 DEF WrittenOnce
    <3>3. QED BY <3>1, <3>2
  <2>3. QED
    BY <2>1, <2>2
    DEF Next, ProcStep, ProcFails, Begin, GetHit, GetMiss, GetLoad, GetStore, InsertRow,
        UpdateRow, DeleteRow, PublishDelete, RestoreKey, ClearAll, Rollback, LoadFails,
        HandlerStep, TimerStep, MessageLost, rowVars, vars
<1>2. QED BY <1>1, IInvHolds, PTL DEF Spec, NoLostUpdate

-----------------------------------------------------------------------------
(* Coherence.                                                              *)

USE BusAssumption, RowAssumption

(* What the writers of the program must keep to.                           *)
CoherentWriters ==
  /\ ~NameFirst /\ PromptCommit
  /\ RowOps \cap {"rename", "restore"} = {}
  /\ WriteKeys \cup {AnyKey} \subseteq Ids

(* Node n still has the second deletion of k to do that p published.       *)
SecondToCome(n, p, k) ==
  \/ \E i \in DOMAIN channel[n] : channel[n][i].from = p /\ k \in channel[n][i].keys
  \/ handler[n] # None /\ handler[n].from = p /\ k \in handler[n].keys
  \/ \E j \in timers[n] : j.from = p /\ k \in j.todo

Covered(n, p, k) == SecondToCome(n, p, k) \/ <<n, k>> \in missed

(* All nodes are subscribed, DelMemAll names no keys, and what a handler   *)
(* has left to do is among the keys of its message.                        *)
BusInv ==
  /\ \A n \in Nodes : up[n]
  /\ \A n \in Nodes : \A i \in DOMAIN channel[n] :
       channel[n][i].all => channel[n][i].keys = {}
  /\ \A n \in Nodes : handler[n] # None => handler[n].todo \subseteq handler[n].keys

LoaderLocks == \A p \in Procs : Loading(p) => lock[Node(p)][Key(p)] = p

(* Where a request can be.                                                 *)
Places ==
  \A p \in Procs :
    /\ req[p] \in Asked /\ pc[p] \notin Restoring
    /\ pc[p] \in {"begun", "write", "publish", "finish"} => Op(p) \in TxOps
    /\ Loading(p) => Op(p) \in TxOps \cup {"get"}

(* Rows found under an id have that id.                                    *)
IdsMatch ==
  /\ \A n \in Nodes, k \in Ids :
       cache[n][k] \notin {Miss, Null} => cache[n][k].id = k
  /\ \A p \in Procs :
       /\ At(p, "store") \/ (At(p, "write") /\ Op(p) # "insert")
       /\ data[p] # Null /\ Key(p) \in Ids
       => data[p].id = Key(p)

(* Copies of a row have its name.                                          *)
NamesMatch == \A r \in Copies : db[r.id] # Null => r.name = db[r.id].name

(* What a transaction has written it invalidates: the conditions of the    *)
(* row before and after are those of its bean, and once they are published *)
(* the second deletion is to come until it ends.                           *)
InvalidatesAll(p) ==
  /\ pc[p] \in {"publish", "finish"} => Locked(p) \subseteq Conditions(data[p])
  /\ pc[p] = "finish" => \A n \in Nodes : \A k \in Locked(p) : Covered(n, p, k)
  /\ pending[p] # None /\ pending[p].row # Null /\ db[pending[p].id] # Null
       => pending[p].row.name = db[pending[p].id].name

Invalidates == \A p \in Procs : InvalidatesAll(p)

(* Everything but coherence itself, and with it.                           *)
WritersInv ==
  IInv /\ BusInv /\ LoaderLocks /\ Places /\ IdsMatch /\ NamesMatch /\ Invalidates
CInv == WritersInv /\ RowsCoherent

-----------------------------------------------------------------------------
(* The bus.                                                                *)

LEMMA ToForgetMeans ==
  ASSUME NEW CONSTANT V, BusTypeOK(V), BusInv, NEW n \in Nodes, NEW k \in Keys
  PROVE  ToForget(n, k) <=> <<n, k>> \in missed \/ \E p \in Procs : SecondToCome(n, p, k)
<1>1. channel[n] \in Seq(Message) /\ handler[n] \in Job \cup {None} /\ timers[n] \subseteq Job
  BY DEF BusTypeOK
<1>2. \A i \in DOMAIN channel[n] : channel[n][i].from \in Procs
  <2>1. \A i \in DOMAIN channel[n] : channel[n][i] \in Message BY <1>1
  <2>2. \A m \in Message : m.from \in Procs BY DEF Message
  <2>. QED BY <2>1, <2>2
<1>3. \A j \in Job : j.from \in Procs BY DEF Job
<1>4. handler[n] # None => handler[n].todo \subseteq handler[n].keys BY DEF BusInv
<1>5. ASSUME ToForget(n, k)
      PROVE  <<n, k>> \in missed \/ \E p \in Procs : SecondToCome(n, p, k)
  <2>1. CASE \E i \in DOMAIN channel[n] : k \in channel[n][i].keys
    BY <1>2, <2>1 DEF SecondToCome
  <2>2. CASE handler[n] # None /\ k \in handler[n].keys
    BY <1>1, <1>3, <2>2 DEF SecondToCome
  <2>3. CASE \E j \in timers[n] : k \in j.todo
    BY <1>1, <1>3, <2>3 DEF SecondToCome
  <2>. QED BY <1>4, <1>5, <2>1, <2>2, <2>3 DEF ToForget, Announced
<1>6. ASSUME NEW p \in Procs, SecondToCome(n, p, k) PROVE ToForget(n, k)
  BY <1>6 DEF SecondToCome, ToForget, Announced
<1>. QED BY <1>5, <1>6 DEF ToForget

(* To publish adds a second deletion at every node and takes none away.    *)
LEMMA PublishCovers ==
  ASSUME NEW CONSTANT V, BusTypeOK(V), BusInv, NEW m \in Message,
         m.all => m.keys = {}, Publish(m)
  PROVE  /\ BusInv' /\ missed \subseteq missed'
         /\ \A n \in Nodes, p \in Procs, k \in Keys : Covered(n, p, k) => Covered(n, p, k)'
         /\ \A n \in Nodes : \A k \in m.keys : Covered(n, m.from, k)'
<1>1. \A n \in Nodes : channel[n] \in Seq(Message) /\ up[n] BY DEF BusTypeOK, BusInv
<1>2. \A n \in Nodes : channel'[n] = Append(channel[n], m)
  BY <1>1 DEF Publish
<1>3. ASSUME NEW n \in Nodes
      PROVE  /\ \A i \in DOMAIN channel[n] :
                  i \in DOMAIN channel'[n] /\ channel'[n][i] = channel[n][i]
             /\ \A i \in DOMAIN channel'[n] : i \in DOMAIN channel[n] \/ channel'[n][i] = m
             /\ \A i \in DOMAIN channel[n] : channel'[n][i] = channel[n][i]
             /\ \E i \in DOMAIN channel'[n] : channel'[n][i] = m
  <2>1. channel[n] \in Seq(Message) /\ channel'[n] = Append(channel[n], m) BY <1>1, <1>2
  <2>2. /\ Len(channel[n]) + 1 \in DOMAIN channel'[n]
        /\ channel'[n][Len(channel[n]) + 1] = m
    BY <2>1
  <2>3. \A i \in DOMAIN channel[n] : i \in DOMAIN channel'[n] /\ channel'[n][i] = channel[n][i]
    BY <2>1
  <2>4. \A i \in DOMAIN channel'[n] : i \in DOMAIN channel[n] \/ channel'[n][i] = m
    BY <2>1
  <2>. QED BY <2>2, <2>3, <2>4
<1>4. UNCHANGED <<up, handler, timers>> /\ missed \subseteq missed' BY DEF Publish
<1>5. BusInv' BY <1>3, <1>4 DEF BusInv
<1>6. ASSUME NEW n \in Nodes, NEW p \in Procs, NEW k \in Keys, Covered(n, p, k)
      PROVE  Covered(n, p, k)'
  BY <1>3, <1>4, <1>6 DEF Covered, SecondToCome
<1>7. ASSUME NEW n \in Nodes, NEW k \in m.keys PROVE Covered(n, m.from, k)'
  BY <1>3 DEF Covered, SecondToCome
<1>. QED BY <1>4, <1>5, <1>6, <1>7

HandlerPart(n) ==
  Receive(n) \/ HandlerDelete(n) \/ HandlerLockedDelete(n) \/ HandlerArm(n) \/ LoseMessage(n)

(* A node takes a second deletion away by the locked deletion only.        *)
LEMMA NodeStepCovers ==
  ASSUME NEW CONSTANT V, BusTypeOK(V), BusInv, NEW n \in Nodes, NodeStep(n)
  PROVE  /\ BusInv' /\ UNCHANGED lock
         /\ missed \subseteq missed'
         /\ HandlerPart(n) \/ (\E j \in timers[n] : TimerDelete(n, j)) =>
              \A m \in Nodes, p \in Procs, k \in Keys :
                SecondToCome(m, p, k) => Covered(m, p, k)'
         /\ \A j \in timers[n] : TimerLockedDelete(n, j) =>
              \A m \in Nodes, p \in Procs, k \in Keys :
                SecondToCome(m, p, k) =>
                  Covered(m, p, k)' \/ (m = n /\ j.from = p /\ j.cur = k)
<1> USE DEF SecondToCome
<1>0. /\ channel \in [Nodes -> Seq(Message)] /\ handler \in [Nodes -> Job \cup {None}]
      /\ timers \in [Nodes -> SUBSET Job]
  BY DEF BusTypeOK
<1>1. ASSUME Receive(n) \/ LoseMessage(n)
      PROVE  /\ channel[n] \in Seq(Message) /\ channel[n] # <<>> /\ Head(channel[n]) \in Message
             /\ channel' = [channel EXCEPT ![n] = Tail(channel[n])]
             /\ \A i \in DOMAIN channel[n] : channel[n][i] = Head(channel[n]) \/
                  \E j \in DOMAIN channel'[n] : channel'[n][j] = channel[n][i]
             /\ \A j \in DOMAIN channel'[n] : \E i \in DOMAIN channel[n] : channel'[n][j] = channel[n][i]
             /\ Head(channel[n]).all => Head(channel[n]).keys = {}
             /\ \A q \in Nodes : \A i \in DOMAIN channel'[q] :
                  channel'[q][i].all => channel'[q][i].keys = {}
  <2>1. /\ channel[n] \in Seq(Message) /\ channel[n] # <<>>
        /\ channel' = [channel EXCEPT ![n] = Tail(channel[n])]
    BY <1>0, <1>1 DEF Receive, LoseMessage
  <2>2. Head(channel[n]) \in Message /\ Head(channel[n]) = channel[n][1] /\ 1 \in DOMAIN channel[n]
    BY <2>1
  <2>3. channel'[n] = Tail(channel[n]) BY <1>0, <2>1
  <2>4. Head(channel[n]).all => Head(channel[n]).keys = {} BY <2>2 DEF BusInv
  <2>5. /\ \A i \in DOMAIN channel[n] : channel[n][i] = Head(channel[n]) \/
             \E j \in DOMAIN channel'[n] : channel'[n][j] = channel[n][i]
        /\ \A j \in DOMAIN channel'[n] : \E i \in DOMAIN channel[n] : channel'[n][j] = channel[n][i]
    BY <2>1, <2>3, TailElements
  <2>6. ASSUME NEW q \in Nodes, NEW i \in DOMAIN channel'[q], channel'[q][i].all
        PROVE  channel'[q][i].keys = {}
    <3>1. CASE q # n
      <4>1. channel'[q] = channel[q] BY <1>0, <2>1, <3>1
      <4>. QED BY <2>6, <4>1 DEF BusInv
    <3>2. CASE q = n
      <4>1. PICK l \in DOMAIN channel[n] : channel'[n][i] = channel[n][l] BY <2>5, <2>6, <3>2
      <4>. QED BY <2>6, <3>2, <4>1 DEF BusInv
    <3>. QED BY <3>1, <3>2
  <2>. QED BY <2>1, <2>2, <2>4, <2>5, <2>6
<1> DEFINE Keeps == /\ BusInv' /\ UNCHANGED lock /\ missed \subseteq missed'
                    /\ \A q \in Nodes, p \in Procs, k \in Keys :
                         SecondToCome(q, p, k) => SecondToCome(q, p, k)' \/ <<q, k>> \in missed'
<1>2. ASSUME Receive(n) PROVE Keeps
  <2> DEFINE m == Head(channel[n])
  <2>1. UNCHANGED <<up, timers, missed, lock>> /\ handler[n] = None BY <1>2 DEF Receive
  <2>2. CASE m.all
    <3>1. UNCHANGED handler BY <1>2, <2>2 DEF Receive
    <3>2. BusInv' BY <1>1, <1>2, <2>1, <3>1 DEF BusInv
    <3>3. m.keys = {} BY <1>1, <1>2, <2>2
    <3>. HIDE DEF m
    <3>4. \A q \in Nodes, p \in Procs, k \in Keys : SecondToCome(q, p, k) => SecondToCome(q, p, k)'
      <4>1. \A i \in DOMAIN channel[n] : channel[n][i] = m \/
                  \E j \in DOMAIN channel'[n] : channel'[n][j] = channel[n][i]
        BY <1>1, <1>2 DEF m
      <4>2. \A q \in Nodes : q # n => channel'[q] = channel[q] BY <1>0, <1>1, <1>2
      <4>. QED BY <2>1, <3>1, <3>3, <4>1, <4>2
    <3>. QED BY <2>1, <3>2, <3>4
  <2>3. CASE ~m.all
    <3> DEFINE j == [from |-> m.from, keys |-> m.keys, todo |-> m.keys, cur |-> None]
    <3>1. /\ j \in Job /\ j.from = m.from /\ j.keys = m.keys /\ j.todo = m.keys
      BY <1>1, <1>2, JobOfMessage
    <3>2. handler' = [handler EXCEPT ![n] = j] BY <1>2, <2>3 DEF Receive
    <3>. HIDE DEF j
    <3>3. handler'[n] = j /\ \A q \in Nodes : q # n => handler'[q] = handler[q] /\ channel'[q] = channel[q]
      BY <1>0, <1>1, <1>2, <3>2
    <3>4. BusInv' BY <1>1, <1>2, <2>1, <3>1, <3>3 DEF BusInv
    <3>5. ASSUME NEW q \in Nodes, NEW p \in Procs, NEW k \in Keys, SecondToCome(q, p, k)
          PROVE  SecondToCome(q, p, k)'
      <4>1. CASE q # n BY <2>1, <3>3, <3>5, <4>1
      <4>2. CASE q = n /\ \E i \in DOMAIN channel[n] : channel[n][i].from = p /\ k \in channel[n][i].keys
        <5>1. PICK i \in DOMAIN channel[n] : channel[n][i].from = p /\ k \in channel[n][i].keys
          BY <4>2
        <5>2. CASE channel[n][i] = m BY <3>1, <3>3, <4>2, <5>1, <5>2
        <5>3. CASE \E l \in DOMAIN channel'[n] : channel'[n][l] = channel[n][i]
          BY <4>2, <5>1, <5>3
        <5>. QED BY <1>1, <1>2, <5>2, <5>3
      <4>3. CASE q = n /\ \E l \in timers[n] : l.from = p /\ k \in l.todo
        BY <2>1, <4>3
      <4>. QED BY <2>1, <3>5, <4>1, <4>2, <4>3
    <3>. QED BY <2>1, <3>4, <3>5
  <2>. QED BY <2>2, <2>3
<1>3. ASSUME LoseMessage(n) PROVE Keeps
  <2>1. /\ UNCHANGED <<up, timers, handler, lock>>
        /\ missed' = missed \cup ({n} \X Head(channel[n]).keys)
    BY <1>3 DEF LoseMessage
  <2>2. BusInv' BY <1>1, <1>3, <2>1 DEF BusInv
  <2>3. ASSUME NEW q \in Nodes, NEW p \in Procs, NEW k \in Keys, SecondToCome(q, p, k)
        PROVE  SecondToCome(q, p, k)' \/ <<q, k>> \in missed'
    <3>1. CASE q # n \/ ~\E i \in DOMAIN channel[n] : channel[n][i].from = p /\ k \in channel[n][i].keys
      BY <1>0, <1>1, <1>3, <2>1, <2>3, <3>1
    <3>2. CASE q = n /\ \E i \in DOMAIN channel[n] : channel[n][i].from = p /\ k \in channel[n][i].keys
      <4>1. PICK i \in DOMAIN channel[n] : channel[n][i].from = p /\ k \in channel[n][i].keys
        BY <3>2
      <4>2. CASE channel[n][i] = Head(channel[n]) BY <2>1, <3>2, <4>1, <4>2
      <4>3. CASE \E l \in DOMAIN channel'[n] : channel'[n][l] = channel[n][i]
        BY <3>2, <4>1, <4>3
      <4>. QED BY <1>1, <1>3, <4>2, <4>3
    <3>. QED BY <3>1, <3>2
  <2>. QED BY <2>1, <2>2, <2>3
<1>4. ASSUME HandlerDelete(n) PROVE Keeps
  <2>1. PICK c \in handler[n].todo : handler' = [handler EXCEPT ![n] = BeginKey(handler[n], c)]
    BY <1>4 DEF HandlerDelete
  <2>2. handler[n] \in Job /\ handler[n] # None /\ UNCHANGED <<up, channel, timers, missed, lock>>
    BY <1>0, <1>4 DEF HandlerDelete
  <2>3. BeginKey(handler[n], c) \in Job
    BY <2>2, JobTypes
  <2>4. /\ handler'[n] = BeginKey(handler[n], c) /\ handler'[n] # None
        /\ \A q \in Nodes : q # n => handler'[q] = handler[q]
    BY <1>0, <2>1, <2>3
  <2>5. /\ handler'[n].keys = handler[n].keys /\ handler'[n].todo = handler[n].todo
        /\ handler'[n].from = handler[n].from
    BY <2>2, <2>4 DEF BeginKey, Job
  <2>6. BusInv' BY <2>2, <2>4, <2>5 DEF BusInv
  <2>7. \A q \in Nodes, p \in Procs, k \in Keys : SecondToCome(q, p, k) => SecondToCome(q, p, k)'
    BY <2>2, <2>4, <2>5
  <2>. QED BY <2>2, <2>6, <2>7
<1>5. ASSUME HandlerLockedDelete(n) PROVE Keeps
  <2>1. handler' = [handler EXCEPT ![n] = EndKey(handler[n])]
    BY <1>5 DEF HandlerLockedDelete
  <2>2. handler[n] \in Job /\ handler[n] # None /\ UNCHANGED <<up, channel, timers, missed, lock>>
    BY <1>0, <1>5 DEF HandlerLockedDelete
  <2>3. EndKey(handler[n]) \in Job
    BY <2>2, JobTypes
  <2>4. /\ handler'[n] = EndKey(handler[n]) /\ handler'[n] # None
        /\ \A q \in Nodes : q # n => handler'[q] = handler[q]
    BY <1>0, <2>1, <2>3
  <2>5. /\ handler'[n].keys = handler[n].keys /\ handler'[n].todo \subseteq handler[n].todo
        /\ handler'[n].from = handler[n].from
    BY <2>2, <2>4 DEF EndKey, Job
  <2>6. BusInv' BY <2>2, <2>4, <2>5 DEF BusInv
  <2>7. \A q \in Nodes, p \in Procs, k \in Keys : SecondToCome(q, p, k) => SecondToCome(q, p, k)'
    BY <2>2, <2>4, <2>5
  <2>. QED BY <2>2, <2>6, <2>7
<1>6. ASSUME HandlerArm(n) PROVE Keeps
  <2> DEFINE j == [handler[n] EXCEPT !.todo = handler[n].keys]
  <2>1. /\ handler' = [handler EXCEPT ![n] = None]
        /\ timers' = [timers EXCEPT ![n] = timers[n] \cup {j}]
        /\ handler[n] \in Job /\ UNCHANGED <<up, channel, missed, lock>>
    BY <1>0, <1>6 DEF HandlerArm
  <2>2. j.from = handler[n].from /\ j.todo = handler[n].keys
    BY <2>1 DEF Job
  <2>. HIDE DEF j
  <2>3. /\ handler'[n] = None /\ timers'[n] = timers[n] \cup {j}
        /\ \A q \in Nodes : q # n => handler'[q] = handler[q] /\ timers'[q] = timers[q]
    BY <1>0, <2>1
  <2>4. BusInv' BY <2>1, <2>3 DEF BusInv
  <2>5. \A q \in Nodes, p \in Procs, k \in Keys : SecondToCome(q, p, k) => SecondToCome(q, p, k)'
    BY <2>1, <2>2, <2>3
  <2>. QED BY <2>1, <2>4, <2>5
<1>7. ASSUME NEW j \in timers[n], TimerDelete(n, j)
      PROVE  /\ BusInv' /\ UNCHANGED <<lock, missed>>
             /\ \A q \in Nodes, p \in Procs, k \in Keys : SecondToCome(q, p, k) => SecondToCome(q, p, k)'
  <2>1. PICK c \in j.todo : timers' = [timers EXCEPT ![n] = (timers[n] \ {j}) \cup {BeginKey(j, c)}]
    BY <1>7 DEF TimerDelete
  <2>2. j \in Job /\ UNCHANGED <<up, channel, handler, missed, lock>> BY <1>0, <1>7 DEF TimerDelete
  <2>3. BeginKey(j, c).from = j.from /\ BeginKey(j, c).todo = j.todo BY <2>2 DEF BeginKey, Job
  <2>4. /\ timers'[n] = (timers[n] \ {j}) \cup {BeginKey(j, c)}
        /\ \A q \in Nodes : q # n => timers'[q] = timers[q]
    BY <1>0, <2>1
  <2>5. BusInv' BY <2>2 DEF BusInv
  <2>6. \A q \in Nodes, p \in Procs, k \in Keys : SecondToCome(q, p, k) => SecondToCome(q, p, k)'
    BY <2>2, <2>3, <2>4
  <2>. QED BY <2>2, <2>5, <2>6
<1>8. ASSUME NEW j \in timers[n], TimerLockedDelete(n, j)
      PROVE  /\ BusInv' /\ UNCHANGED <<lock, missed>>
             /\ \A q \in Nodes, p \in Procs, k \in Keys :
                  SecondToCome(q, p, k) => SecondToCome(q, p, k)' \/ (q = n /\ j.from = p /\ j.cur = k)
  <2>1. timers' = [timers EXCEPT ![n] = (timers[n] \ {j}) \cup {i \in {EndKey(j)} : i.todo # {}}]
    BY <1>8 DEF TimerLockedDelete
  <2>2. j \in Job /\ UNCHANGED <<up, channel, handler, missed, lock>> BY <1>0, <1>8 DEF TimerLockedDelete
  <2>3. EndKey(j).from = j.from /\ EndKey(j).todo = j.todo \ {j.cur} BY <2>2 DEF EndKey, Job
  <2>4. /\ timers'[n] = (timers[n] \ {j}) \cup {i \in {EndKey(j)} : i.todo # {}}
        /\ \A q \in Nodes : q # n => timers'[q] = timers[q]
    BY <1>0, <2>1
  <2>5. BusInv' BY <2>2 DEF BusInv
  <2>6. ASSUME NEW q \in Nodes, NEW p \in Procs, NEW k \in Keys, SecondToCome(q, p, k)
        PROVE  SecondToCome(q, p, k)' \/ (q = n /\ j.from = p /\ j.cur = k)
    <3>1. CASE \/ \E i \in DOMAIN channel[q] : channel[q][i].from = p /\ k \in channel[q][i].keys
               \/ handler[q] # None /\ handler[q].from = p /\ k \in handler[q].keys
      BY <2>2, <3>1
    <3>2. ASSUME NEW l \in timers[q], l.from = p, k \in l.todo
          PROVE  SecondToCome(q, p, k)' \/ (q = n /\ j.from = p /\ j.cur = k)
      <4>1. CASE q # n \/ l # j
        <5>1. l \in timers'[q] BY <2>4, <4>1
        <5>. QED BY <3>2, <5>1
      <4>2. CASE q = n /\ l = j /\ j.cur # k
        <5>1. EndKey(j) \in timers'[n] /\ k \in EndKey(j).todo BY <2>3, <2>4, <3>2, <4>2
        <5>. QED BY <2>3, <3>2, <4>2, <5>1
      <4>. QED BY <3>2, <4>1, <4>2
    <3>. QED BY <2>6, <3>1, <3>2
  <2>. QED BY <2>2, <2>5, <2>6
<1>9. BusInv' /\ UNCHANGED lock /\ missed \subseteq missed'
  BY <1>2, <1>3, <1>4, <1>5, <1>6, <1>7, <1>8 DEF NodeStep
<1>10. ASSUME HandlerPart(n) \/ \E j \in timers[n] : TimerDelete(n, j)
       PROVE  \A m \in Nodes, p \in Procs, k \in Keys : SecondToCome(m, p, k) => Covered(m, p, k)'
  <2>. HIDE DEF SecondToCome
  <2>. QED BY <1>2, <1>3, <1>4, <1>5, <1>6, <1>7, <1>10 DEF HandlerPart, Covered
<1>11. ASSUME NEW j \in timers[n], TimerLockedDelete(n, j)
       PROVE  \A m \in Nodes, p \in Procs, k \in Keys :
                SecondToCome(m, p, k) =>
                  Covered(m, p, k)' \/ (m = n /\ j.from = p /\ j.cur = k)
  <2>. HIDE DEF SecondToCome
  <2>. QED BY <1>8, <1>11 DEF Covered
<1>. HIDE DEF SecondToCome
<1>. QED BY <1>9, <1>10, <1>11

LEMMA ToForgetKept ==
  ASSUME NEW CONSTANT V, BusTypeOK(V), BusInv, missed \subseteq missed',
         NEW n \in Nodes, NEW k \in Keys,
         \A p \in Procs : SecondToCome(n, p, k) => Covered(n, p, k)'
  PROVE  ToForget(n, k) => ToForget(n, k)'
<1>1. SUFFICES ASSUME ToForget(n, k) PROVE ToForget(n, k)'
  OBVIOUS
<1>2. CASE <<n, k>> \in missed BY <1>2 DEF ToForget
<1>3. ASSUME NEW p \in Procs, SecondToCome(n, p, k) PROVE ToForget(n, k)'
  BY <1>3 DEF Covered, SecondToCome, ToForget, Announced
<1>. QED BY <1>1, <1>2, <1>3, ToForgetMeans

-----------------------------------------------------------------------------
(* Requests and the bus, their mutexes and places.                         *)

LEMMA RequestTypes ==
  ASSUME TypeInv, NEW p \in Procs
  PROVE  /\ req[p] \in Request /\ Node(p) \in Nodes /\ Key(p) \in Keys
         /\ data[p] \in Row \cup {Null}
BY DEF TypeInv, RowTypeOK, Request, Node, Key

(* Requests take no deletion away, and PublishDelete adds some.            *)
LEMMA ProcBus ==
  ASSUME TypeInv, BusInv, NEW p \in Procs, ProcStep(p) \/ ProcFails(p)
  PROVE  /\ BusInv' /\ missed \subseteq missed'
         /\ \A n \in Nodes, q \in Procs, k \in Keys : Covered(n, q, k) => Covered(n, q, k)'
         /\ PublishDelete(p) =>
              \A n \in Nodes : \A k \in Conditions(data[p]) : Covered(n, p, k)'
<1>1. CASE ~PublishDelete(p) /\ ~ClearAll(p)
  <2>1. UNCHANGED busVars
    BY <1>1
    DEF ProcStep, ProcFails, Begin, GetHit, GetMiss, GetLoad, GetStore, InsertRow, UpdateRow,
        DeleteRow, Commit, RestoreKey, Rollback, LoadFails
  <2>. QED BY <1>1, <2>1 DEF BusInv, Covered, SecondToCome, busVars
<1>2. CASE PublishDelete(p)
  <2> DEFINE m == DelCacheMessage(p, Conditions(data[p]))
  <2>1. data[p] \in Row
    BY <1>2 DEF PublishDelete, At, TypeInv, RowTypeOK, InHand
  <2>2. m \in Message /\ ~m.all /\ m.from = p /\ m.keys = Conditions(data[p])
    BY <2>1, ConditionKeys, MessageTypes DEF DelCacheMessage
  <2>3. Publish(m) BY <1>2 DEF PublishDelete
  <2>4. BusTypeOK(Row \cup {Null}) BY DEF TypeInv, RowTypeOK
  <2>. HIDE DEF m
  <2>. QED BY <2>2, <2>3, <2>4, PublishCovers
<1>3. CASE ClearAll(p)
  <2> DEFINE m == DelAllMessage(p)
  <2>1. m \in Message /\ m.keys = {}
    BY MessageTypes DEF DelAllMessage
  <2>2. Publish(m) BY <1>3 DEF ClearAll
  <2>3. BusTypeOK(Row \cup {Null}) BY DEF TypeInv, RowTypeOK
  <2>4. ~PublishDelete(p) BY <1>3 DEF ClearAll, PublishDelete, At
  <2>. HIDE DEF m
  <2>. QED BY <2>1, <2>2, <2>3, <2>4, PublishCovers
<1>. QED BY <1>1, <1>2, <1>3

(* Where a step takes a request.                                           *)
LEMMA ProcMoves ==
  ASSUME CoherentWriters, TypeInv, Places, NEW p \in Procs, ProcStep(p) \/ ProcFails(p)
  PROVE  \E l : /\ pc' = [pc EXCEPT ![p] = l] /\ l \notin Restoring
                /\ l = "load" => GetMiss(p)
                /\ l = "store" => At(p, "load")
                /\ l \in {"begun", "write", "publish", "finish"} => Op(p) \in TxOps
                /\ l \in {"load", "store"} => Op(p) \in TxOps \cup {"get"}
                /\ l = "finish" => PublishDelete(p)
                /\ l = "publish" => At(p, "write")
<1> USE DEF At, Op, Goto, Loading, TxOps, Restoring
<1>0. Op(p) \in AllOps \ {"rename", "restore"}
  BY RequestTypes DEF CoherentWriters, RowAssumption, Request
<1>1. /\ pc[p] \notin Restoring
      /\ pc[p] \in {"begun", "write", "publish", "finish"} => Op(p) \in TxOps
      /\ Loading(p) => Op(p) \in TxOps \cup {"get"}
  BY DEF Places
<1> DEFINE Goes(l) ==
             /\ pc' = [pc EXCEPT ![p] = l] /\ l \notin Restoring
             /\ l = "load" => GetMiss(p)
             /\ l = "store" => At(p, "load")
             /\ l \in {"begun", "write", "publish", "finish"} => Op(p) \in TxOps
             /\ l \in {"load", "store"} => Op(p) \in TxOps \cup {"get"}
             /\ l = "finish" => PublishDelete(p)
             /\ l = "publish" => At(p, "write")
<1>2. CASE Begin(p)
  <2>1. Goes("write") \/ Goes("begun") BY <1>2 DEF Begin
  <2>. QED BY <2>1
<1>3. CASE GetMiss(p)
  <2>1. Goes("load") BY <1>0, <1>1, <1>3 DEF GetMiss, Gets
  <2>. QED BY <2>1
<1>4. CASE GetLoad(p)
  <2>1. Goes("store") BY <1>1, <1>4 DEF GetLoad
  <2>. QED BY <2>1
<1>5. CASE GetHit(p) \/ GetStore(p)
  <2>1. CASE Op(p) = "get"
    <3>1. Goes("done") BY <1>5, <2>1 DEF GetHit, GetStore, GetReturns, Returns
    <3>. QED BY <3>1
  <2>2. CASE Op(p) # "get"
    <3>1. Op(p) \in TxOps
      BY <1>0, <1>1, <1>5, <2>2 DEF GetHit, GetStore, Gets
    <3>2. Goes("done") \/ Goes("write")
      BY <1>0, <1>5, <3>1 DEF GetHit, GetStore, GetReturns, Returns
    <3>. QED BY <3>2
  <2>. QED BY <2>1, <2>2
<1>6. CASE InsertRow(p) \/ UpdateRow(p) \/ DeleteRow(p)
  <2>1. Goes("done") \/ Goes("publish")
    BY <1>1, <1>6 DEF InsertRow, UpdateRow, DeleteRow, Refused, Writes, Returns
  <2>. QED BY <2>1
<1>7. CASE PublishDelete(p)
  <2>1. Goes("finish") BY <1>1, <1>7 DEF PublishDelete
  <2>. QED BY <2>1
<1>8. CASE Commit(p) \/ ClearAll(p) \/ Rollback(p) \/ LoadFails(p)
  <2>1. Goes("done") BY <1>8 DEF Commit, ClearAll, Rollback, LoadFails, Returns
  <2>. QED BY <2>1
<1>9. ~RestoreKey(p) BY <1>1 DEF RestoreKey
<1>. QED
  BY <1>2, <1>3, <1>4, <1>5, <1>6, <1>7, <1>8, <1>9 DEF ProcStep, ProcFails

(* Only the loader of a key holds its mutex, and gives it back.            *)
LEMMA StepLocks ==
  ASSUME CoherentWriters, TypeInv, Places, LoaderLocks, [Next]_vars
  PROVE  LoaderLocks'
<1>1. /\ pc \in [Procs -> {"new"} \cup Running \cup Ended]
      /\ lock \in [Nodes -> [Keys -> Procs \cup {None}]]
      /\ \A p \in Procs : Node(p) \in Nodes /\ Key(p) \in Keys
  BY RequestTypes DEF TypeInv, RowTypeOK, BusTypeOK
<1>2. ASSUME UNCHANGED <<lock, req>>, \A p \in Procs : Loading(p)' => Loading(p)
      PROVE  LoaderLocks'
  BY <1>2 DEF LoaderLocks, Node, Key
<1>3. ASSUME NEW p \in Procs,
             \/ Begin(p) \/ GetHit(p) \/ GetLoad(p) \/ InsertRow(p) \/ UpdateRow(p)
             \/ DeleteRow(p) \/ PublishDelete(p) \/ Commit(p) \/ RestoreKey(p)
             \/ ClearAll(p) \/ Rollback(p),
             ~GetMiss(p)
      PROVE  LoaderLocks'
  <2>1. UNCHANGED <<lock, req>>
    BY <1>3 DEF Begin, GetHit, CacheHit, GetLoad, InsertRow, UpdateRow, DeleteRow, PublishDelete,
       Commit, RestoreKey, ClearAll, Rollback, cacheVars
  <2>2. \A q \in Procs : Loading(q)' => Loading(q)
    <3>1. PICK l : /\ pc' = [pc EXCEPT ![p] = l]
                   /\ l = "load" => GetMiss(p)
                   /\ l = "store" => At(p, "load")
      BY <1>3, ProcMoves DEF ProcStep, ProcFails
    <3>. QED BY <1>1, <1>3, <3>1 DEF Loading, At
  <2>. QED BY <1>2, <2>1, <2>2
<1>4. ASSUME NEW p \in Procs, GetMiss(p) PROVE LoaderLocks'
  <2>1. /\ lock[Node(p)][Key(p)] = None /\ UNCHANGED req
        /\ lock' = [lock EXCEPT ![Node(p)][Key(p)] = p]
        /\ pc' = [pc EXCEPT ![p] = "load"]
    BY <1>4 DEF GetMiss, CacheMiss, LockFree, Goto
  <2>2. ASSUME NEW q \in Procs, Loading(q)' PROVE lock'[Node(q)'][Key(q)'] = q
    <3>1. Node(q)' = Node(q) /\ Key(q)' = Key(q) BY <2>1 DEF Node, Key
    <3>2. CASE q = p BY <1>1, <2>1, <3>1, <3>2
    <3>3. CASE q # p
      <4>1. Loading(q) BY <1>1, <2>1, <2>2, <3>3 DEF Loading
      <4>2. lock[Node(q)][Key(q)] = q BY <4>1 DEF LoaderLocks
      <4>3. Node(q) # Node(p) \/ Key(q) # Key(p) BY <2>1, <4>2
      <4>. QED BY <1>1, <2>1, <3>1, <4>2, <4>3
    <3>. QED BY <3>2, <3>3
  <2>. QED BY <2>2 DEF LoaderLocks
<1>5. ASSUME NEW p \in Procs, GetStore(p) \/ LoadFails(p) PROVE LoaderLocks'
  <2>1. /\ Loading(p) /\ UNCHANGED req
        /\ lock' = [lock EXCEPT ![Node(p)][Key(p)] = None]
        /\ \E l : pc' = [pc EXCEPT ![p] = l] /\ l \notin {"load", "store"}
    BY <1>5 DEF GetStore, GetReturns, LoadFails, CacheStore, CacheGiveUp, Returns, Goto, At, Loading
  <2>2. ASSUME NEW q \in Procs, Loading(q)' PROVE lock'[Node(q)'][Key(q)'] = q
    <3>1. Node(q)' = Node(q) /\ Key(q)' = Key(q) BY <2>1 DEF Node, Key
    <3>2. q # p /\ Loading(q) BY <1>1, <2>1, <2>2 DEF Loading
    <3>3. lock[Node(q)][Key(q)] = q /\ lock[Node(p)][Key(p)] = p
      BY <2>1, <3>2 DEF LoaderLocks
    <3>4. Node(q) # Node(p) \/ Key(q) # Key(p) BY <3>2, <3>3
    <3>. QED BY <1>1, <2>1, <3>1, <3>3, <3>4
  <2>. QED BY <2>2 DEF LoaderLocks
<1>6. ASSUME NEW n \in Nodes, NodeStep(n), UNCHANGED <<rowVars, procVars>> PROVE LoaderLocks'
  <2>1. UNCHANGED lock
    BY <1>6 DEF NodeStep, Receive, HandlerDelete, HandlerLockedDelete, HandlerArm, TimerDelete,
       TimerLockedDelete, LoseMessage
  <2>. QED BY <1>2, <1>6, <2>1 DEF procVars, Loading
<1>7. CASE UNCHANGED vars
  BY <1>2, <1>7 DEF vars, cacheVars, procVars, Loading
<1>. QED
  BY <1>3, <1>4, <1>5, <1>6, <1>7
  DEF Next, ProcStep, ProcFails, HandlerStep, TimerStep, MessageLost, NodeStep

LEMMA StepPlaces ==
  ASSUME CoherentWriters, TypeInv, Places, [Next]_vars
  PROVE  Places'
<1>1. pc \in [Procs -> {"new"} \cup Running \cup Ended] BY DEF TypeInv, RowTypeOK
<1>2. ASSUME NEW p \in Procs, ProcStep(p) \/ ProcFails(p) PROVE Places'
  <2>1. UNCHANGED req
    BY <1>2 DEF ProcStep, ProcFails, Begin, GetHit, GetMiss, GetLoad, GetStore, InsertRow,
       UpdateRow, DeleteRow, PublishDelete, Commit, RestoreKey, ClearAll, Rollback, LoadFails
  <2>2. PICK l : /\ pc' = [pc EXCEPT ![p] = l] /\ l \notin Restoring
                 /\ l \in {"begun", "write", "publish", "finish"} => Op(p) \in TxOps
                 /\ l \in {"load", "store"} => Op(p) \in TxOps \cup {"get"}
    BY <1>2, ProcMoves
  <2>. QED BY <1>1, <2>1, <2>2 DEF Places, Loading, Op
<1>3. CASE UNCHANGED procVars BY <1>3 DEF Places, procVars, Loading, Op
<1>. QED
  BY <1>2, <1>3 DEF Next, HandlerStep, TimerStep, MessageLost, vars

(* What is covered stays covered while its publisher has not ended.        *)
LEMMA StepCovered ==
  ASSUME CoherentWriters, TypeInv, BusInv, Places, [Next]_vars,
         NEW p \in Procs, At(p, "finish"), NEW n \in Nodes, NEW k \in Keys, Covered(n, p, k)
  PROVE  Covered(n, p, k)'
<1>0. BusTypeOK(Row \cup {Null}) /\ InTx(p) BY DEF TypeInv, RowTypeOK, Places, InTx, At, Running
<1>1. ASSUME NEW q \in Procs, ProcStep(q) \/ ProcFails(q) PROVE Covered(n, p, k)'
  BY <1>1, ProcBus
<1>2. ASSUME NEW m \in Nodes, HandlerStep(m) \/ MessageLost(m) PROVE Covered(n, p, k)'
  <2>1. HandlerPart(m) /\ NodeStep(m)
    BY <1>2 DEF HandlerStep, MessageLost, HandlerPart, NodeStep
  <2>. QED BY <1>0, <2>1, NodeStepCovers DEF Covered
<1>3. ASSUME NEW m \in Nodes, TimerStep(m) PROVE Covered(n, p, k)'
  <2>1. PICK j \in timers[m] : j.from # p /\ (TimerDelete(m, j) \/ TimerLockedDelete(m, j))
    BY <1>0, <1>3 DEF TimerStep, CoherentWriters
  <2>2. NodeStep(m) BY <2>1 DEF NodeStep
  <2>. QED BY <1>0, <2>1, <2>2, NodeStepCovers DEF Covered
<1>4. CASE UNCHANGED vars BY <1>4 DEF vars, busVars, Covered, SecondToCome
<1>. QED BY <1>1, <1>2, <1>3, <1>4 DEF Next

-----------------------------------------------------------------------------
(* Copies and names.                                                       *)

LEMMA OthersKeep ==
  ASSUME TypeInv, NEW q \in Procs, ProcStep(q) \/ ProcFails(q), NEW p \in Procs, p # q
  PROVE  /\ pc'[p] = pc[p] /\ data'[p] = data[p] /\ pending'[p] = pending[p]
         /\ UNCHANGED req
<1> USE DEF Goto, Returns
<1>0. /\ pc \in [Procs -> {"new"} \cup Running \cup Ended]
      /\ data \in [Procs -> Row \cup {Null}] /\ pending \in [Procs -> Write \cup {None}]
  BY DEF TypeInv, RowTypeOK
<1>1. UNCHANGED req
  BY DEF ProcStep, ProcFails, Begin, GetHit, GetMiss, GetLoad, GetStore, InsertRow,
     UpdateRow, DeleteRow, PublishDelete, Commit, RestoreKey, ClearAll, Rollback, LoadFails
<1>2. CASE WritesNoRow(q) \/ Commit(q)
  BY <1>0, <1>1, <1>2
  DEF WritesNoRow, Begin, GetHit, GetMiss, GetLoad, GetStore, GetReturns, PublishDelete,
      RestoreKey, Storing, ClearAll, Rollback, LoadFails, Commit, rowVars
<1>3. CASE InsertRow(q) \/ UpdateRow(q) \/ DeleteRow(q)
  BY <1>0, <1>1, <1>3 DEF InsertRow, UpdateRow, DeleteRow, Refused, Writes
<1>. QED BY <1>2, <1>3 DEF ProcStep, ProcFails, WritesNoRow

Committed == {db[i] : i \in Ids} \ {Null}

(* Only a commit changes a row; any other step copies committed rows.      *)
LEMMA StepCopies ==
  ASSUME CoherentWriters, IInv, [Next]_vars
  PROVE  \/ UNCHANGED db /\ Copies' \subseteq Copies \cup Committed
         \/ \E p \in Procs : /\ Commit(p) /\ pending[p] # None
                             /\ Copies' \subseteq Copies
<1> USE DEF IInv
<1>0. /\ data \in [Procs -> Row \cup {Null}] /\ pending \in [Procs -> Write \cup {None}]
      /\ None \notin Write
  BY DEF TypeInv, RowTypeOK
<1>1. ASSUME \A n \in Nodes, k \in Keys : cache'[n][k] \in Seen,
             \A q \in Procs : pending'[q] = None => data'[q] \in Seen
      PROVE  Copies' \subseteq Copies \cup Committed
  BY <1>1, NewCopies DEF Seen, Committed
<1>2. ASSUME NEW p \in Procs, WritesNoRow(p)
      PROVE  UNCHANGED db /\ Copies' \subseteq Copies \cup Committed
  BY <1>1, <1>2, OtherStepsSee
<1>3. ASSUME NEW p \in Procs, InsertRow(p) \/ UpdateRow(p) \/ DeleteRow(p)
      PROVE  UNCHANGED db /\ Copies' \subseteq Copies \cup Committed
  <2>1. UNCHANGED <<cache, db>> BY <1>3, StatementWrites DEF cacheVars
  <2>2. Null \in Seen BY DEF Seen
  <2>3. \A q \in Procs : pending'[q] = None => data'[q] \in Seen
    <3>1. CASE Refused(p) BY <1>0, <2>2, <3>1, SeenNow DEF Refused, Returns
    <3>2. CASE UNCHANGED <<pending, data>> BY <3>2, SeenNow
    <3>3. ASSUME NEW w \in Write, NEW r \in Row, Writes(p, w, r)
          PROVE  \A q \in Procs : pending'[q] = None => data'[q] \in Seen
      BY <1>0, <3>3, SeenNow DEF Writes
    <3>. QED BY <1>3, <3>1, <3>2, <3>3, StatementWrites
  <2>. QED BY <1>1, <2>1, <2>3, SeenNow
<1>4. ASSUME NEW p \in Procs, Commit(p)
      PROVE  /\ Copies' \subseteq Copies
             /\ UNCHANGED db \/ pending[p] # None
  <2>1. UNCHANGED cache /\ \A q \in Procs : pending'[q] = None =>
          data'[q] = Null \/ (pending[q] = None /\ data'[q] = data[q])
    BY <1>0, <1>4 DEF Commit, Returns, cacheVars
  <2>. QED BY <1>4, <2>1 DEF Copies, Commit
<1>5. ASSUME NEW n \in Nodes, NodeStep(n), UNCHANGED <<rowVars, procVars>>
      PROVE  UNCHANGED db /\ Copies' \subseteq Copies \cup Committed
  <2>1. Fewer BY <1>5, NodeStepTypes DEF TypeInv, RowTypeOK
  <2>2. \A m \in Nodes, k \in Keys : cache'[m][k] \in Seen
    BY <2>1, SeenNow DEF Fewer, Seen
  <2>. QED BY <1>1, <1>5, <2>2, SeenNow DEF rowVars, procVars
<1>6. CASE UNCHANGED vars
  BY <1>6 DEF vars, cacheVars, rowVars, procVars, Copies
<1>. QED
  BY <1>2, <1>3, <1>4, <1>5, <1>6
  DEF Next, ProcStep, ProcFails, WritesNoRow, HandlerStep, TimerStep, MessageLost, NodeStep

(* A commit keeps the name of its row.                                     *)
LEMMA CommitRow ==
  ASSUME IInv, Invalidates, NEW p \in Procs, Commit(p), pending[p] # None
  PROVE  LET w == pending[p] IN
         /\ w \in Write /\ WrittenOnce(p) /\ At(p, "finish")
         /\ \A i \in Ids : db'[i] = IF i = w.id THEN w.row ELSE db[i]
         /\ w.row # Null /\ db[w.id] # Null => w.row.name = db[w.id].name
BY DEF Commit, IInv, TypeInv, RowTypeOK, VersionInv, Invalidates, InvalidatesAll, Write

LEMMA StepNames ==
  ASSUME CoherentWriters, WritersInv, [Next]_vars
  PROVE  NamesMatch'
<1> USE DEF WritersInv
<1>1. CASE UNCHANGED db /\ Copies' \subseteq Copies \cup Committed
  <2>1. \A r \in Committed : r = db[r.id] BY DEF Committed, IInv, TypeInv, RowTypeOK
  <2>. QED BY <1>1, <2>1 DEF NamesMatch
<1>2. ASSUME NEW p \in Procs, Commit(p), pending[p] # None, Copies' \subseteq Copies
      PROVE  NamesMatch'
  <2> DEFINE w == pending[p]
  <2>1. /\ w \in Write /\ WrittenOnce(p)
        /\ \A i \in Ids : db'[i] = IF i = w.id THEN w.row ELSE db[i]
        /\ w.row # Null /\ db[w.id] # Null => w.row.name = db[w.id].name
    BY <1>2, CommitRow
  <2>2. ASSUME NEW r \in Copies', db'[r.id] # Null PROVE r.name = db'[r.id].name
    <3>1. r \in Copies /\ r.id \in Ids BY <1>2, CopyRow DEF IInv, Row
    <3>2. CASE r.id # w.id BY <2>1, <2>2, <3>1, <3>2 DEF NamesMatch
    <3>3. CASE r.id = w.id
      <4>1. w.row # Null BY <2>1, <2>2, <3>1, <3>3
      <4>2. db[w.id] # Null BY <1>2, <2>1, <3>1, <3>3, <4>1 DEF WrittenOnce
      <4>. QED BY <2>1, <3>1, <3>3, <4>1, <4>2 DEF NamesMatch
    <3>. QED BY <3>2, <3>3
  <2>. QED BY <2>2 DEF NamesMatch
<1>. QED BY <1>1, <1>2, StepCopies

LEMMA LookupId ==
  ASSUME RowTypeOK, NEW k \in Ids, Lookup(db, k) # Null
  PROVE  Lookup(db, k).id = k
<1>1. Found(db, k) # {} BY DEF Lookup
<1> DEFINE i == CHOOSE j \in Found(db, k) : TRUE
<1>2. i \in Found(db, k) BY <1>1
<1>3. Lookup(db, k) = db[i] BY <1>1 DEF Lookup
<1>. HIDE DEF i
<1>4. i = k /\ i \in Ids BY <1>2, FoundById
<1>. QED BY <1>3, <1>4 DEF RowTypeOK

LEMMA StepIds ==
  ASSUME CoherentWriters, WritersInv, [Next]_vars
  PROVE  IdsMatch'
<1> USE DEF WritersInv, IInv
<1>0. /\ pc \in [Procs -> {"new"} \cup Running \cup Ended]
      /\ data \in [Procs -> Row \cup {Null}]
      /\ cache \in [Nodes -> [Keys -> Row \cup {Null} \cup {Miss}]]
      /\ Ids \subseteq Keys
  BY DEF TypeInv, RowTypeOK, BusTypeOK
<1> DEFINE Held(q) == /\ At(q, "store") \/ (At(q, "write") /\ Op(q) # "insert")
                      /\ data[q] # Null /\ Key(q) \in Ids
                      => data[q].id = Key(q)
           Entry(n, k) == cache[n][k] \notin {Miss, Null} => cache[n][k].id = k
<1>1. /\ \A q \in Procs : Held(q)
      /\ \A n \in Nodes, k \in Ids : Entry(n, k)
  BY DEF IdsMatch
<1>2. ASSUME NEW p \in Procs, ProcStep(p) \/ ProcFails(p) PROVE IdsMatch'
  <2>0. Node(p) \in Nodes /\ Key(p) \in Keys BY RequestTypes
  <2>1. ASSUME NEW n \in Nodes, NEW k \in Ids PROVE Entry(n, k)'
    <3>1. CASE UNCHANGED cache BY <1>1, <3>1
    <3>2. CASE GetStore(p)
      <4>1. /\ cache' = [cache EXCEPT ![Node(p)][Key(p)] = data[p]] /\ At(p, "store")
        BY <3>2 DEF GetStore, CacheStore
      <4>. QED BY <1>0, <1>1, <2>0, <4>1
    <3>3. ~RestoreKey(p) BY DEF RestoreKey, Places, At, Restoring
    <3>. QED
      BY <1>2, <3>1, <3>2, <3>3
      DEF ProcStep, ProcFails, Begin, GetHit, CacheHit, GetMiss, CacheMiss, GetLoad, InsertRow,
          UpdateRow, DeleteRow, PublishDelete, Commit, ClearAll, Rollback, LoadFails, CacheGiveUp,
          cacheVars
  <2>2. ASSUME NEW q \in Procs, q # p PROVE Held(q)'
    BY <1>1, <1>2, <2>2, OthersKeep DEF At, Op, Key
  <2>3. Held(p)'
    <3>0. UNCHANGED req
      BY <1>2
      DEF ProcStep, ProcFails, Begin, GetHit, GetMiss, GetLoad, GetStore, InsertRow, UpdateRow,
          DeleteRow, PublishDelete, Commit, RestoreKey, ClearAll, Rollback, LoadFails
    <3>1. CASE pc'[p] \notin {"store", "write"} BY <3>1 DEF At
    <3>2. CASE Begin(p)
      <4>1. pc'[p] = "write" => Op(p)' = "insert"
        BY <1>0, <3>0, <3>2 DEF Begin, Goto, Op
      <4>2. pc'[p] # "store" BY <1>0, <3>2 DEF Begin, Goto
      <4>. QED BY <4>1, <4>2 DEF At
    <3>3. CASE GetLoad(p)
      <4>1. data'[p] = Lookup(db, Key(p)) BY <1>0, <3>3 DEF GetLoad
      <4>. QED BY <3>0, <4>1, LookupId DEF TypeInv, Key
    <3>4. CASE GetHit(p)
      <4>1. data'[p] \in {Null, cache[Node(p)][Key(p)], data[p]} /\ cache[Node(p)][Key(p)] # Miss
        BY <1>0, <3>4 DEF GetHit, CacheHit, GetReturns, Returns
      <4>2. data'[p] = cache[Node(p)][Key(p)] \/ data'[p] = Null
        BY <1>0, <3>4 DEF GetHit, GetReturns, Returns
      <4>. QED BY <1>1, <2>0, <3>0, <4>1, <4>2 DEF Key
    <3>5. CASE GetStore(p)
      <4>1. At(p, "store") /\ data'[p] \in {Null, data[p]}
        BY <1>0, <3>5 DEF GetStore, GetReturns, Returns
      <4>. QED BY <1>1, <3>0, <4>1 DEF Key
    <3>6. CASE \/ GetMiss(p) \/ InsertRow(p) \/ UpdateRow(p) \/ DeleteRow(p)
               \/ PublishDelete(p) \/ Commit(p) \/ ClearAll(p) \/ Rollback(p) \/ LoadFails(p)
      <4>1. pc'[p] \notin {"store", "write"}
        BY <1>0, <3>6
        DEF GetMiss, InsertRow, UpdateRow, DeleteRow, Refused, Writes, PublishDelete, Commit,
            ClearAll, Rollback, LoadFails, Returns, Goto
      <4>. QED BY <3>1, <4>1
    <3>7. ~RestoreKey(p) BY DEF RestoreKey, Places, At, Restoring
    <3>. QED BY <1>2, <3>2, <3>3, <3>4, <3>5, <3>6, <3>7 DEF ProcStep, ProcFails
  <2>. QED BY <2>1, <2>2, <2>3 DEF IdsMatch
<1>3. ASSUME NEW n \in Nodes, NodeStep(n), UNCHANGED <<rowVars, procVars>> PROVE IdsMatch'
  <2>1. Fewer BY <1>3, NodeStepTypes DEF TypeInv, RowTypeOK
  <2>2. \A q \in Procs : Held(q)' BY <1>1, <1>3 DEF procVars, At, Op, Key
  <2>3. ASSUME NEW m \in Nodes, NEW k \in Ids PROVE Entry(m, k)'
    <3>1. k \in Keys BY <1>0
    <3>2. cache'[m][k] = cache[m][k] \/ cache'[m][k] = Miss BY <2>1, <3>1 DEF Fewer
    <3>. QED BY <1>1, <3>2
  <2>. QED BY <2>2, <2>3 DEF IdsMatch
<1>4. CASE UNCHANGED vars
  BY <1>4 DEF vars, cacheVars, procVars, IdsMatch, At, Op, Key
<1>. QED
  BY <1>2, <1>3, <1>4 DEF Next, HandlerStep, TimerStep, MessageLost, NodeStep

-----------------------------------------------------------------------------
(* What is written is invalidated.                                         *)

LEMMA InsertInvalidates ==
  ASSUME WritersInv, NEW p \in Procs, InsertRow(p), pending'[p] # None
  PROVE  InvalidatesAll(p)'
<1> USE DEF WritersInv, IInv
<1>0. pending \in [Procs -> Write \cup {None}] /\ data \in [Procs -> Row \cup {Null}]
      /\ pc \in [Procs -> {"new"} \cup Running \cup Ended]
      /\ pending[p] = None /\ UNCHANGED db /\ lastId \in Nat
  BY DEF InsertRow, TypeInv, RowTypeOK, InHand, At
<1> DEFINE r == [id |-> lastId + 1, name |-> req[p].name, version |-> 1, edits |-> {p}]
<1>1. /\ ~(Taken(req[p].name, 0) \/ NoIdLeft) /\ Writes(p, [id |-> r.id, row |-> r], r)
      /\ r.id = lastId + 1
  BY <1>0 DEF InsertRow, Refused
<1>2. lastId + 1 \in Ids BY <1>0, <1>1 DEF NoIdLeft, Ids, TypeInv, RowTypeOK
<1>. HIDE DEF r
<1> DEFINE w == [id |-> r.id, row |-> r]
<1>3. pending'[p] = w /\ data'[p] = r /\ pc'[p] = "publish" /\ w.id = lastId + 1 /\ w.row = r
  BY <1>0, <1>1 DEF Writes, Goto
<1>. HIDE DEF w
<1>4. db[w.id] = Null BY <1>0, <1>2, <1>3 DEF VersionInv
<1>5. Locked(p)' \subseteq Conditions(r) BY <1>0, <1>3, <1>4 DEF Locked
<1>. QED BY <1>0, <1>3, <1>4, <1>5 DEF InvalidatesAll

LEMMA UpdateInvalidates ==
  ASSUME CoherentWriters, WritersInv, NEW p \in Procs, UpdateRow(p), pending'[p] # None
  PROVE  InvalidatesAll(p)'
<1> USE DEF WritersInv, IInv
<1>0. pending \in [Procs -> Write \cup {None}] /\ data \in [Procs -> Row \cup {Null}]
      /\ pc \in [Procs -> {"new"} \cup Running \cup Ended]
      /\ pending[p] = None /\ UNCHANGED db /\ req[p] \in Request
  BY DEF UpdateRow, TypeInv, RowTypeOK, InHand, At
<1>1. ~Refused(p) BY <1>0 DEF Refused
<1> DEFINE i == data[p].id
           r == NextVersion(Merged(p))
           w == [id |-> i, row |-> r]
<1>2. data[p] \in Row /\ db[i] = data[p] /\ Writes(p, w, r)
  BY <1>1, UpdateFinds DEF CoherentWriters
<1>3. Op(p) # "rename" BY <1>0 DEF CoherentWriters, Request, Op
<1>4. r.id = i /\ r.name = data[p].name
  BY <1>2, <1>3 DEF NextVersion, Merged, Row
<1>. HIDE DEF r, i
<1>5. pending'[p] = w /\ data'[p] = r /\ pc'[p] = "publish" /\ w.id = i /\ w.row = r
  BY <1>0, <1>2 DEF Writes, Goto
<1>. HIDE DEF w
<1>6. Conditions(data[p]) = Conditions(r) BY <1>4 DEF Conditions, i
<1>7. Locked(p)' \subseteq Conditions(r) BY <1>0, <1>2, <1>5, <1>6 DEF Locked
<1>. QED BY <1>0, <1>2, <1>4, <1>5, <1>7 DEF InvalidatesAll

LEMMA DeleteInvalidates ==
  ASSUME CoherentWriters, WritersInv, NEW p \in Procs, DeleteRow(p), pending'[p] # None
  PROVE  InvalidatesAll(p)'
<1> USE DEF WritersInv, IInv
<1>0. pending \in [Procs -> Write \cup {None}] /\ data \in [Procs -> Row \cup {Null}]
      /\ pc \in [Procs -> {"new"} \cup Running \cup Ended] /\ RowTypeOK
      /\ pending[p] = None /\ UNCHANGED db /\ Op(p) = "delete" /\ At(p, "write")
      /\ data[p] # Null
  BY DEF DeleteRow, TypeInv, RowTypeOK, InHand, At
<1>1. Key(p) \in Ids
  BY <1>0 DEF Places, Asked, CoherentWriters, TxOps, Op, Key
<1>2. PICK i \in Found(db, Key(p)) : Writes(p, [id |-> i, row |-> Null], data[p])
  BY <1>0 DEF DeleteRow
<1>3. i = Key(p) /\ i \in Ids /\ db[i] \in Row /\ db[i] # Null /\ db[i].id = i
  BY <1>0, <1>1, <1>2, FoundById DEF RowTypeOK
<1>4. data[p].id = i /\ data[p].name = db[i].name
  <2>1. data[p].id = i BY <1>0, <1>1, <1>3 DEF IdsMatch
  <2>. QED BY <1>0, <1>3, <2>1, HeldCopy DEF NamesMatch
<1> DEFINE w == [id |-> i, row |-> Null]
<1>5. pending'[p] = w /\ data'[p] = data[p] /\ pc'[p] = "publish" /\ w.id = i /\ w.row = Null
  BY <1>0, <1>2 DEF Writes, Goto
<1>. HIDE DEF w
<1>6. Conditions(db[i]) = Conditions(data[p]) BY <1>3, <1>4 DEF Conditions
<1>7. Locked(p)' \subseteq Conditions(data[p]) BY <1>0, <1>5, <1>6 DEF Locked
<1>. QED BY <1>0, <1>5, <1>7 DEF InvalidatesAll

(* The rows of the other transactions are not those of a commit.           *)
LEMMA OthersInvalidate ==
  ASSUME CoherentWriters, WritersInv, [Next]_vars,
         NEW p \in Procs, pc'[p] = pc[p], data'[p] = data[p], pending'[p] = pending[p]
  PROVE  InvalidatesAll(p)'
<1> USE DEF WritersInv, IInv
<1>1. InvalidatesAll(p) BY DEF Invalidates
<1>2. CASE pending[p] = None BY <1>2 DEF InvalidatesAll, Locked
<1>3. CASE pending[p] # None
  <2>1. pending[p].id \in Ids BY <1>3 DEF TypeInv, RowTypeOK, Write
  <2>2. db'[pending[p].id] = db[pending[p].id]
    <3>1. ASSUME NEW q \in Procs, Commit(q), pending[q] # None
          PROVE  db'[pending[p].id] = db[pending[p].id]
      <4>1. pending'[q] = None BY <3>1 DEF Commit, TypeInv, RowTypeOK
      <4>2. pending[q].id # pending[p].id BY <1>3, <3>1, <4>1 DEF VersionInv
      <4>. QED BY <2>1, <3>1, <4>2, CommitRow
    <3>. QED BY <3>1, StepCopies
  <2>3. Locked(p)' = Locked(p) BY <2>2 DEF Locked
  <2>4. Locked(p) \subseteq Keys
    BY <1>3, <2>1, ConditionKeys DEF Locked, TypeInv, RowTypeOK, Write
  <2>5. pc'[p] = "finish" => \A n \in Nodes : \A k \in Locked(p) : Covered(n, p, k)'
    BY <1>1, <2>4, StepCovered DEF InvalidatesAll, At
  <2>. QED BY <1>1, <2>2, <2>3, <2>5 DEF InvalidatesAll
<1>. QED BY <1>2, <1>3

LEMMA StepInvalidates ==
  ASSUME CoherentWriters, WritersInv, [Next]_vars
  PROVE  Invalidates'
<1> USE DEF WritersInv, IInv
<1>1. ASSUME NEW q \in Procs, ProcStep(q) \/ ProcFails(q), NEW p \in Procs
      PROVE  InvalidatesAll(p)'
  <2>1. CASE p # q BY <1>1, <2>1, OthersKeep, OthersInvalidate
  <2>2. CASE p = q /\ pending'[q] = None BY <2>2 DEF InvalidatesAll, Locked
  <2>3. CASE p = q /\ PublishDelete(q)
    <3>1. /\ pc[p] = "publish" /\ pc'[p] = "finish"
          /\ UNCHANGED <<db, pending, data>>
      BY <2>3 DEF PublishDelete, At, Goto, rowVars, TypeInv, RowTypeOK
    <3>2. Locked(p)' = Locked(p) BY <3>1 DEF Locked
    <3>3. InvalidatesAll(p) BY DEF Invalidates
    <3>4. \A n \in Nodes : \A k \in Conditions(data[p]) : Covered(n, p, k)'
      BY <1>1, <2>3, ProcBus
    <3>. QED BY <3>1, <3>2, <3>3, <3>4 DEF InvalidatesAll
  <2>4. CASE p = q /\ (InsertRow(q) \/ UpdateRow(q) \/ DeleteRow(q)) /\ pending'[q] # None
    BY <2>4, InsertInvalidates, UpdateInvalidates, DeleteInvalidates
  <2>5. CASE p = q /\ WritesNoRow(q) /\ ~PublishDelete(q) /\ pending'[q] # None
    <3>1. pending'[p] = pending[p] BY <2>5, OtherStepsSee
    <3>2. pc[p] \in {"publish", "finish"} BY <2>5, <3>1 DEF TypeInv, InHand
    <3>3. pc'[p] \in {"publish", "finish"} BY <2>5, StepType DEF TypeInv, InHand
    <3>4. PICK l : /\ pc' = [pc EXCEPT ![p] = l]
                   /\ l = "finish" => PublishDelete(p)
                   /\ l = "publish" => At(p, "write")
      BY <1>1, <2>5, ProcMoves
    <3>. QED BY <2>5, <3>2, <3>3, <3>4 DEF At, TypeInv, RowTypeOK
  <2>6. Commit(q) => pending'[q] = None
    BY DEF Commit, TypeInv, RowTypeOK
  <2>. QED
    BY <1>1, <2>1, <2>2, <2>3, <2>4, <2>5, <2>6 DEF ProcStep, ProcFails, WritesNoRow
<1>2. ASSUME UNCHANGED <<rowVars, procVars>>, NEW p \in Procs PROVE InvalidatesAll(p)'
  BY <1>2, OthersInvalidate DEF rowVars, procVars
<1>. QED
  BY <1>1, <1>2 DEF Invalidates, Next, HandlerStep, TimerStep, MessageLost, vars

-----------------------------------------------------------------------------
(* Coherence.                                                              *)

LEMMA LookupKept ==
  ASSUME WritersInv, NEW p \in Procs, Commit(p), pending[p] # None,
         NEW k \in Keys, k \notin Locked(p)
  PROVE  Lookup(db', k) = Lookup(db, k)
<1> USE DEF WritersInv, IInv
<1> DEFINE w == pending[p]
<1>1. w \in Write /\ \A i \in Ids : db'[i] = IF i = w.id THEN w.row ELSE db[i]
  BY CommitRow
<1>2. w.id \in Ids BY <1>1 DEF Write
<1>3. /\ db[w.id] # Null => k \notin Conditions(db[w.id])
      /\ w.row # Null => k \notin Conditions(w.row)
  BY DEF Locked
<1>4. \A i \in Ids : /\ i \in Found(db', k) <=> i \in Found(db, k)
                     /\ i \in Found(db, k) => db'[i] = db[i]
  BY <1>1, <1>2, <1>3 DEF Found
<1>5. Found(db', k) = Found(db, k) BY <1>4 DEF Found
<1>6. CASE Found(db, k) = {} BY <1>5, <1>6 DEF Lookup
<1>7. CASE Found(db, k) # {}
  <2> DEFINE i == CHOOSE j \in Found(db, k) : TRUE
  <2>1. i \in Found(db, k) BY <1>7
  <2>2. Lookup(db, k) = db[i] /\ Lookup(db', k) = db'[i] BY <1>5, <1>7 DEF Lookup
  <2>. HIDE DEF i
  <2>3. i \in Ids BY <2>1 DEF Found
  <2>. QED BY <1>4, <2>1, <2>2, <2>3
<1>. QED BY <1>6, <1>7

(* A commit makes stale only what its transaction has announced, and the   *)
(* second deletion is still to come.                                       *)
LEMMA CommitCoherent ==
  ASSUME CoherentWriters, CInv, NEW p \in Procs, Commit(p), pending[p] # None
  PROVE  RowsCoherent'
<1> USE DEF CInv, WritersInv, IInv
<1>1. /\ UNCHANGED <<cache, busVars, req>> /\ At(p, "finish")
      /\ pc' = [pc EXCEPT ![p] = "done"]
  BY DEF Commit, Returns, Goto, cacheVars
<1>2. \A q \in Procs : At(q, "store")' => At(q, "store") /\ data'[q] = data[q]
  BY <1>1, OthersKeep DEF At, ProcStep, TypeInv, RowTypeOK
<1>3. ASSUME NEW n \in Nodes, NEW k \in Keys PROVE ToForget(n, k) <=> ToForget(n, k)'
  BY <1>1 DEF ToForget, Announced, busVars
<1>4. ASSUME NEW n \in Nodes, NEW k \in Locked(p), k \in Keys PROVE ToForget(n, k)'
  <2>1. Covered(n, p, k) BY <1>1, <1>4 DEF Invalidates, InvalidatesAll, At
  <2>2. ToForget(n, k) BY <1>4, <2>1, ToForgetMeans DEF Covered, TypeInv, RowTypeOK
  <2>. QED BY <1>3, <1>4, <2>2
<1>5. ASSUME NEW n \in Nodes, NEW k \in Keys, Stale(n, k)' PROVE ToForget(n, k)'
  <2>1. CASE k \in Locked(p) BY <1>4, <2>1
  <2>2. CASE k \notin Locked(p)
    <3>1. Stale(n, k) BY <1>1, <1>5, <2>2, LookupKept DEF Stale
    <3>. QED BY <1>3, <3>1 DEF RowsCoherent
  <2>. QED BY <2>1, <2>2
<1>6. ASSUME NEW q \in Procs, At(q, "store")'
      PROVE  (data[q] = Lookup(db, Key(q)) \/ ToForget(Node(q), Key(q)))'
  <2>1. Node(q)' = Node(q) /\ Key(q)' = Key(q) BY <1>1 DEF Node, Key
  <2>2. Node(q) \in Nodes /\ Key(q) \in Keys BY RequestTypes
  <2>3. CASE Key(q) \in Locked(p) BY <1>4, <2>1, <2>2, <2>3
  <2>4. CASE Key(q) \notin Locked(p)
    <3>1. Lookup(db', Key(q)) = Lookup(db, Key(q)) BY <2>2, <2>4, LookupKept
    <3>2. data[q] = Lookup(db, Key(q)) \/ ToForget(Node(q), Key(q))
      BY <1>2, <1>6 DEF RowsCoherent
    <3>. QED BY <1>2, <1>3, <1>6, <2>1, <2>2, <3>1, <3>2
  <2>. QED BY <2>3, <2>4
<1>. QED BY <1>5, <1>6 DEF RowsCoherent

(* Any other step of a request copies what is coherent.                    *)
LEMMA ProcCoherent ==
  ASSUME CoherentWriters, CInv, NEW p \in Procs, ProcStep(p) \/ ProcFails(p), UNCHANGED db
  PROVE  RowsCoherent'
<1> USE DEF CInv, WritersInv, IInv
<1>0. /\ pc \in [Procs -> {"new"} \cup Running \cup Ended]
      /\ data \in [Procs -> Row \cup {Null}]
      /\ cache \in [Nodes -> [Keys -> Row \cup {Null} \cup {Miss}]]
      /\ BusTypeOK(Row \cup {Null}) /\ Node(p) \in Nodes /\ Key(p) \in Keys
  BY RequestTypes DEF TypeInv, RowTypeOK, BusTypeOK
<1>1. UNCHANGED req
  BY DEF ProcStep, ProcFails, Begin, GetHit, GetMiss, GetLoad, GetStore, InsertRow, UpdateRow,
     DeleteRow, PublishDelete, Commit, RestoreKey, ClearAll, Rollback, LoadFails
<1>2. \A q \in Procs : Key(q)' = Key(q) /\ Node(q)' = Node(q) BY <1>1 DEF Key, Node
<1>3. ASSUME NEW n \in Nodes, NEW k \in Keys, ToForget(n, k) PROVE ToForget(n, k)'
  BY <1>0, <1>3, ProcBus, ToForgetKept DEF Covered
<1>4. ASSUME NEW n \in Nodes, NEW k \in Keys, Stale(n, k)' PROVE ToForget(n, k)'
  <2>1. CASE UNCHANGED cache BY <1>3, <1>4, <2>1 DEF RowsCoherent, Stale
  <2>2. CASE GetStore(p)
    <3>1. At(p, "store") /\ cache' = [cache EXCEPT ![Node(p)][Key(p)] = data[p]]
      BY <2>2 DEF GetStore, CacheStore
    <3>2. CASE n = Node(p) /\ k = Key(p)
      <4>1. data[p] # Lookup(db, k) BY <1>0, <1>4, <3>1, <3>2 DEF Stale
      <4>. QED BY <1>3, <3>1, <3>2, <4>1 DEF RowsCoherent
    <3>3. CASE n # Node(p) \/ k # Key(p)
      <4>1. Stale(n, k) BY <1>0, <1>4, <3>1, <3>3 DEF Stale
      <4>. QED BY <1>3, <4>1 DEF RowsCoherent
    <3>. QED BY <3>2, <3>3
  <2>3. ~RestoreKey(p) BY DEF RestoreKey, Places, At, Restoring
  <2>. QED
    BY <2>1, <2>2, <2>3
    DEF ProcStep, ProcFails, Begin, GetHit, CacheHit, GetMiss, CacheMiss, GetLoad, InsertRow,
        UpdateRow, DeleteRow, PublishDelete, Commit, ClearAll, Rollback, LoadFails, CacheGiveUp,
        cacheVars
<1>5. ASSUME NEW q \in Procs, At(q, "store")'
      PROVE  (data[q] = Lookup(db, Key(q)) \/ ToForget(Node(q), Key(q)))'
  <2>1. CASE q # p
    <3>1. At(q, "store") /\ data'[q] = data[q] BY <1>5, <2>1, OthersKeep DEF At
    <3>. QED BY <1>3, <1>2, <3>1, RequestTypes DEF RowsCoherent
  <2>2. CASE q = p
    <3>1. At(p, "load")
      BY <1>0, <1>5, <2>2, ProcMoves DEF At
    <3>2. GetLoad(p)
      BY <1>0, <1>5, <2>2, <3>1
      DEF At, Loading, Goto, Returns, ProcStep, ProcFails, Begin, GetHit, Gets, GetMiss, GetLoad,
          GetStore, InsertRow, UpdateRow, DeleteRow, PublishDelete, Commit, RestoreKey, Restoring,
          ClearAll, Rollback, LoadFails
    <3>. QED BY <1>0, <1>2, <2>2, <3>2 DEF GetLoad
  <2>. QED BY <2>1, <2>2
<1>. QED BY <1>4, <1>5 DEF RowsCoherent

(* The locked deletion finds no loader that has read the old row.          *)
LEMMA NodeCoherent ==
  ASSUME CoherentWriters, CInv, NEW n \in Nodes, NodeStep(n), UNCHANGED <<rowVars, procVars>>
  PROVE  RowsCoherent'
<1> USE DEF CInv, WritersInv, IInv
<1>0. BusTypeOK(Row \cup {Null}) BY DEF TypeInv, RowTypeOK
<1>1. Fewer /\ missed \subseteq missed' BY <1>0, NodeStepTypes, NodeStepCovers
<1>2. \A q \in Procs : /\ At(q, "store")' = At(q, "store") /\ data'[q] = data[q]
                       /\ Key(q)' = Key(q) /\ Node(q)' = Node(q)
  BY DEF procVars, At, Key, Node
<1>3. UNCHANGED db BY DEF rowVars
<1> DEFINE Kept(m, k) == ToForget(m, k) => ToForget(m, k)'
<1>4. ASSUME NEW m \in Nodes, NEW k \in Keys, Kept(m, k), Stale(m, k)' PROVE ToForget(m, k)'
  <2>1. Stale(m, k) BY <1>1, <1>3, <1>4 DEF Stale, Fewer
  <2>. QED BY <1>4, <2>1 DEF RowsCoherent
<1>5. ASSUME NEW q \in Procs, Kept(Node(q), Key(q)), At(q, "store")
      PROVE  data[q] = Lookup(db, Key(q)) \/ ToForget(Node(q), Key(q))'
  BY <1>5 DEF RowsCoherent
<1>6. CASE HandlerPart(n) \/ \E j \in timers[n] : TimerDelete(n, j)
  <2>1. \A m \in Nodes, k \in Keys : Kept(m, k)
    BY <1>0, <1>1, <1>6, NodeStepCovers, ToForgetKept
  <2>. HIDE DEF Kept
  <2>2. \A m \in Nodes, k \in Keys : Stale(m, k)' => ToForget(m, k)' BY <1>4, <2>1
  <2>3. \A q \in Procs : At(q, "store") =>
          data[q] = Lookup(db, Key(q)) \/ ToForget(Node(q), Key(q))'
    BY <1>5, <2>1, RequestTypes
  <2>. QED BY <1>2, <1>3, <2>2, <2>3 DEF RowsCoherent
<1>7. ASSUME NEW j \in timers[n], TimerLockedDelete(n, j) PROVE RowsCoherent'
  <2>1. \A m \in Nodes, k \in Keys : m # n \/ k # j.cur => Kept(m, k)
    BY <1>0, <1>1, <1>7, NodeStepCovers, ToForgetKept
  <2>2. lock[n][j.cur] = None /\ cache' = Dropped(n, {j.cur})
    BY <1>7 DEF TimerLockedDelete, LockFree
  <2>3. j.cur \in Keys => cache'[n][j.cur] = Miss
    BY <1>0, <2>2 DEF Dropped, BusTypeOK
  <2>. HIDE DEF Kept
  <2>4. \A m \in Nodes, k \in Keys : Stale(m, k)' => ToForget(m, k)'
    BY <1>4, <2>1, <2>3 DEF Stale
  <2>5. ASSUME NEW q \in Procs, At(q, "store")
        PROVE  data[q] = Lookup(db, Key(q)) \/ ToForget(Node(q), Key(q))'
    <3>1. lock[Node(q)][Key(q)] = q BY <2>5 DEF LoaderLocks, Loading, At
    <3>2. Node(q) # n \/ Key(q) # j.cur BY <2>2, <3>1
    <3>. QED BY <1>5, <2>1, <2>5, <3>2, RequestTypes
  <2>. QED BY <1>2, <1>3, <2>4, <2>5 DEF RowsCoherent
<1>. QED BY <1>6, <1>7 DEF NodeStep, HandlerPart

LEMMA StepCoherent ==
  ASSUME CoherentWriters, CInv, [Next]_vars
  PROVE  RowsCoherent'
<1>1. ASSUME NEW p \in Procs, ProcStep(p) \/ ProcFails(p) PROVE RowsCoherent'
  <2>1. UNCHANGED db \/ (Commit(p) /\ pending[p] # None)
    BY <1>1
    DEF ProcStep, ProcFails, Begin, GetHit, GetMiss, GetLoad, GetStore, InsertRow, UpdateRow,
        DeleteRow, PublishDelete, Commit, RestoreKey, ClearAll, Rollback, LoadFails, rowVars
  <2>. QED BY <1>1, <2>1, CommitCoherent, ProcCoherent
<1>2. CASE UNCHANGED vars
  BY <1>2
  DEF vars, cacheVars, busVars, rowVars, procVars, CInv, RowsCoherent, Stale, ToForget, Announced,
      At, Key, Node
<1>. QED
  BY <1>1, <1>2, NodeCoherent DEF Next, HandlerStep, TimerStep, MessageLost, NodeStep

LEMMA StepBus ==
  ASSUME TypeInv, BusInv, [Next]_vars
  PROVE  BusInv'
<1>1. BusTypeOK(Row \cup {Null}) BY DEF TypeInv, RowTypeOK
<1>2. CASE UNCHANGED vars BY <1>2 DEF vars, busVars, BusInv
<1>. QED
  BY <1>1, <1>2, ProcBus, NodeStepCovers DEF Next, HandlerStep, TimerStep, MessageLost, NodeStep

LEMMA InitCoherent == Init => CInv
<1> SUFFICES ASSUME Init PROVE CInv
  OBVIOUS
<1> USE DEF Init, BusInit
<1>1. IInv BY InitType, InitVersion DEF IInv
<1>2. BusInv /\ LoaderLocks BY DEF BusInv, LoaderLocks, Loading
<1>3. Places BY DEF Places, Loading, Restoring
<1>4. Copies = {} BY DEF Copies
<1>5. IdsMatch /\ NamesMatch
  <2>1. \A n \in Nodes, k \in Ids : cache[n][k] = Miss OBVIOUS
  <2>. QED BY <1>4, <2>1 DEF IdsMatch, NamesMatch, At
<1>6. Invalidates BY DEF Invalidates, InvalidatesAll
<1>7. RowsCoherent BY DEF RowsCoherent, Stale, At
<1>. QED BY <1>1, <1>2, <1>3, <1>5, <1>6, <1>7 DEF CInv, WritersInv

(* The invalidation is published before the commit (session.go:127) and a  *)
(* second deletion follows (cache.go:171): every stale entry of a cache,   *)
(* and every row that a loader is about to store stale, is still to be     *)
(* deleted, unless the node has lost the message; for writers as above.    *)
THEOREM RowsStayCoherent == ASSUME CoherentWriters PROVE Spec => []RowsCoherent
<1>1. CInv /\ [Next]_vars => CInv'
  <2> SUFFICES ASSUME CInv, [Next]_vars PROVE CInv'
    OBVIOUS
  <2> USE DEF CInv, WritersInv
  <2>1. IInv' BY StepType, StepVersion DEF IInv, CoherentWriters
  <2>2. BusInv' /\ LoaderLocks' /\ Places' BY StepBus, StepLocks, StepPlaces DEF IInv
  <2>3. IdsMatch' /\ NamesMatch' BY StepIds, StepNames
  <2>4. Invalidates' /\ RowsCoherent' BY StepInvalidates, StepCoherent
  <2>. QED BY <2>1, <2>2, <2>3, <2>4
<1>2. CInv => RowsCoherent BY DEF CInv
<1>. QED BY <1>1, <1>2, InitCoherent, PTL DEF Spec
=============================================================================
