--------------------------- MODULE TokenAuth_proofs ---------------------------
(***************************************************************************)
(* Proofs about TokenAuth for any nodes, accounts, requests, faults, kind  *)
(* of store and token lifetimes.                                           *)
(***************************************************************************)
EXTENDS TokenAuth, NodeCache_proofs

USE BusAssumption, TokenAssumption

LEMMA RefreshedType ==
  ASSUME TypeOK, NEW e \in Entry
  PROVE  [e EXCEPT !.exp = ExpireTime] \in Entry
BY DEF Entry, Times, ExpireTime, TypeOK

LEMMA MessageTypes ==
  ASSUME NEW r \in Reqs, NEW k \in Keys
  PROVE  DelCacheMessage(r, {k}) \in Message /\ DelAllMessage(r) \in Message
BY DEF Message, DelCacheMessage, DelAllMessage, Reqs

LEMMA DroppedType ==
  ASSUME TypeOK, NEW n \in Nodes, NEW D
  PROVE  /\ Dropped(n, D) \in [Nodes -> [Keys -> (Entry \cup {Null}) \cup {Miss}]]
         /\ \A m \in Nodes, k \in Keys :
              Dropped(n, D)[m][k] = IF m = n /\ k \in D THEN Miss ELSE cache[m][k]
BY DEF Dropped, TypeOK, BusTypeOK

LEMMA InitTypeOK == Init => TypeOK
BY DEF Init, BusInit, TypeOK, BusTypeOK, Reqs, Message, Entry, Times

(* Publishing keeps the types of the bus.                                  *)
LEMMA PublishType ==
  ASSUME TypeOK, NEW m \in Message, Publish(m)
  PROVE  /\ channel' \in [Nodes -> Seq(Message)]
         /\ missed' \in SUBSET (Nodes \X Keys)
<1>1. m.keys \subseteq Keys BY DEF Message
<1>2. \A n \in Nodes : Append(channel[n], m) \in Seq(Message)
  BY DEF TypeOK, BusTypeOK
<1>3. QED BY <1>1, <1>2 DEF Publish, TypeOK, BusTypeOK

LEMMA StepTypeOK == TypeOK /\ [Next]_vars => TypeOK'
<1> SUFFICES ASSUME TypeOK, [Next]_vars PROVE TypeOK'
  OBVIOUS
<1> USE DEF TypeOK, BusTypeOK, Reqs, Request, Goto, Key, Node, cacheVars, busVars,
            reqVars, Running, Ended
<1>1. ASSUME NEW r \in Reqs, LoginReuse(r) PROVE TypeOK'
  BY <1>1 DEF LoginReuse, Entry, At, Starts
<1>2. ASSUME NEW r \in Reqs, LoginGenerate(r) PROVE TypeOK'
  BY <1>2 DEF LoginGenerate, Entry, Times, ExpireTime, At, Starts
<1>3. ASSUME NEW r \in Reqs, VerifyHit(r) PROVE TypeOK'
  BY <1>3 DEF VerifyHit, CacheHit, Issued, At, Starts
<1>4. ASSUME NEW r \in Reqs, VerifyMiss(r) PROVE TypeOK'
  BY <1>4 DEF VerifyMiss, CacheMiss, Issued, At, Starts
<1>5. ASSUME NEW r \in Reqs, VerifyLoad(r) PROVE TypeOK'
  BY <1>5 DEF VerifyLoad, At, Starts
<1>6. ASSUME NEW r \in Reqs, VerifyStore(r) PROVE TypeOK'
  BY <1>6 DEF VerifyStore, CacheStore, At, Starts
<1>7. ASSUME NEW r \in Reqs, VerifyCheck(r) PROVE TypeOK'
  <2>1. data' \in [Reqs -> Entry \cup {Null}]
    <3>1. CASE UNCHANGED data BY <3>1
    <3>2. CASE /\ Matches(r)
               /\ data' = [data EXCEPT ![r].exp = ExpireTime]
      <4>1. data[r] \in Entry BY <3>2 DEF Matches
      <4>2. [data[r] EXCEPT !.exp = ExpireTime] \in Entry
        BY <4>1, RefreshedType
      <4>3. QED BY <3>2, <4>2
    <3>3. QED BY <1>7, <3>1, <3>2 DEF VerifyCheck
  <2>2. QED BY <1>7, <2>1 DEF VerifyCheck
<1>8. ASSUME NEW r \in Reqs, HSet(r) PROVE TypeOK'
  BY <1>8 DEF HSet, At, Starts
<1>9. ASSUME NEW r \in Reqs, HDel(r) PROVE TypeOK'
  BY <1>9 DEF HDel, At, Starts
<1>10. ASSUME NEW r \in Reqs, PublishDelete(r) PROVE TypeOK'
  BY <1>10, MessageTypes, PublishType DEF PublishDelete, Publish, Answer
<1>11. ASSUME NEW r \in Reqs, ClearAll(r) PROVE TypeOK'
  BY <1>11, MessageTypes, PublishType DEF ClearAll, Publish, Answer
<1>12. ASSUME NEW r \in Reqs, LoadFails(r) PROVE TypeOK'
  BY <1>12 DEF LoadFails, CacheGiveUp, Loading, At, Starts
<1>13. ASSUME NEW r \in Reqs, WriteFails(r) PROVE TypeOK'
  BY <1>13 DEF WriteFails, PublishLost, At, Starts
<1>14. ASSUME NEW r \in Reqs, PublishFails(r) PROVE TypeOK'
  BY <1>14, MessageTypes, PublishType DEF PublishFails, PublishLost, Publish, Answer
<1>15. ASSUME NEW n \in Nodes, NodeStep(n), UNCHANGED <<redis, now, reqVars>> PROVE TypeOK'
  <2>. HIDE DEF BusTypeOK
  <2>. QED BY <1>15, NodeStepTypes
<1>21. ASSUME NEW n \in Nodes, NodeCrash(n) PROVE TypeOK'
  <2>1. cache' \in [Nodes -> [Keys -> (Entry \cup {Null}) \cup {Miss}]]
    BY <1>21, DroppedType DEF NodeCrash, Crash
  <2>2. missed' \in SUBSET (Nodes \X Keys)
    BY <1>21 DEF NodeCrash, Crash
  <2>3. QED BY <1>21, <2>1, <2>2 DEF NodeCrash, Crash
<1>22. ASSUME NEW n \in Nodes, NodeRestart(n) PROVE TypeOK'
  BY <1>22, DroppedType DEF NodeRestart, Restart
<1>24. ASSUME NEW n \in Nodes, EntryEvicted(n) PROVE TypeOK'
  <2>1. cache' \in [Nodes -> [Keys -> (Entry \cup {Null}) \cup {Miss}]]
    BY <1>24, DroppedType DEF EntryEvicted, Evict
  <2>2. QED BY <1>24, <2>1 DEF EntryEvicted, Evict
<1>25. CASE Tick BY <1>25 DEF Tick
<1>26. CASE UNCHANGED vars BY <1>26 DEF vars
<1>. QED
  BY <1>1, <1>2, <1>3, <1>4, <1>5, <1>6, <1>7, <1>8, <1>9, <1>10, <1>11, <1>12, <1>13, <1>14, <1>15, <1>21, <1>22, <1>24, <1>25, <1>26
  DEF Next, RequestStep, RequestFault, HandlerStep, TimerStep, NodeFault, MessageLost, NodeStep

(* Every state of a run is well typed (the types of the bus, of the hash   *)
(* and of the requests).                                                   *)
THEOREM TypeCorrect == Spec => []TypeOK
<1>1. QED BY InitTypeOK, StepTypeOK, PTL DEF Spec

-------------------------------------------------------------------------------
(* The inductive invariant.  Coherence of the entries is not inductive     *)
(* alone: a loader holds a value it has yet to store (LoadCoherent), which *)
(* is harmless only because the deletion of the key waits for the mutex    *)
(* (LockHeldByLoader); a message that carries no keys owes nothing         *)
(* (MessageInv); a node that is down has nothing queued, no running        *)
(* request, and, in a volatile store, no entry (DownInv).                  *)
MessageInv ==
  \A n \in Nodes : \A i \in DOMAIN channel[n] :
    channel[n][i].all => channel[n][i].keys = {}

DownInv ==
  /\ \A n \in Nodes : ~up[n] => channel[n] = <<>> /\ handler[n] = None
  /\ \A n \in Nodes, k \in Keys : ~up[n] /\ Volatile => cache[n][k] = Miss
  /\ \A r \in Reqs : pc[r] \in Running => up[Node(r)]

(* While a key is loaded nobody else stores it.                            *)
LoadingMiss == \A r \in Reqs : Loading(r) => cache[Node(r)][Key(r)] = Miss

IInv == /\ TypeOK /\ LockHeldByLoader /\ CacheCoherent /\ LoadCoherent
        /\ MessageInv /\ DownInv /\ LoadingMiss

LEMMA InitIInv == Init => IInv
<1> SUFFICES ASSUME Init PROVE IInv
  OBVIOUS
<1>1. TypeOK BY InitTypeOK
<1>2. LockHeldByLoader
  BY DEF Init, BusInit, LockHeldByLoader, Loading
<1>3. CacheCoherent /\ LoadCoherent
  BY DEF Init, BusInit, CacheCoherent, LoadCoherent, At
<1>4. MessageInv /\ DownInv
  BY DEF Init, BusInit, MessageInv, DownInv, Running
<1>5. LoadingMiss BY DEF Init, LoadingMiss, Loading
<1>. QED BY <1>1, <1>2, <1>3, <1>4, <1>5 DEF IInv

(* What is owed stays owed while the queues do not shrink and no writer    *)
(* passes its publication.                                                 *)
LEMMA OwedKept ==
  ASSUME TypeOK, UNCHANGED <<req, channel, handler>>, missed \subseteq missed',
         \A r \in Reqs : Publishing(r) => Publishing(r)'
  PROVE  \A n \in Nodes, k \in Keys : Owed(n, k) => Owed(n, k)'
BY DEF Owed, Unpublished, Announced, Key

(* A published message is announced to the nodes that are up, and what was *)
(* announced stays so.                                                     *)
LEMMA PublishAnnounces ==
  ASSUME TypeOK, NEW m \in Message, Publish(m)
  PROVE  \A n \in Nodes, k \in Keys :
           /\ Announced(n, k) => Announced(n, k)'
           /\ up[n] /\ k \in m.keys => Announced(n, k)'
           /\ ~up[n] /\ ~Volatile /\ k \in m.keys => <<n, k>> \in missed'
           /\ <<n, k>> \in missed => <<n, k>> \in missed'
<1> SUFFICES ASSUME NEW n \in Nodes, NEW k \in Keys
             PROVE  /\ Announced(n, k) => Announced(n, k)'
                    /\ up[n] /\ k \in m.keys => Announced(n, k)'
                    /\ ~up[n] /\ ~Volatile /\ k \in m.keys => <<n, k>> \in missed'
                    /\ <<n, k>> \in missed => <<n, k>> \in missed'
  OBVIOUS
<1>1. channel[n] \in Seq(Message) BY DEF TypeOK, BusTypeOK
<1>2. channel'[n] = IF up[n] THEN Append(channel[n], m) ELSE channel[n]
  BY DEF Publish
<1>3. \A i \in DOMAIN channel[n] :
        i \in DOMAIN channel'[n] /\ channel'[n][i] = channel[n][i]
  BY <1>1, <1>2
<1>4. up[n] => \E i \in DOMAIN channel'[n] : channel'[n][i] = m
  <2>1. ASSUME up[n] PROVE /\ Len(channel[n]) + 1 \in DOMAIN channel'[n]
                           /\ channel'[n][Len(channel[n]) + 1] = m
    BY <1>1, <1>2, <2>1
  <2>2. QED BY <2>1
<1>5. QED BY <1>3, <1>4 DEF Announced, Publish

(* What the steps of a node's own goroutines leave alone; an entry is at   *)
(* most deleted by them.                                                   *)
LEMMA NodeFrame ==
  ASSUME TypeOK, NEW n \in Nodes,
         HandlerStep(n) \/ TimerStep(n) \/ MessageLost(n) \/ EntryEvicted(n)
  PROVE  /\ UNCHANGED <<up, lock, redis, now, pc, req, tok, data>>
         /\ \A m \in Nodes, k \in Keys :
              /\ cache'[m][k] \in {cache[m][k], Miss}
              /\ m # n => cache'[m][k] = cache[m][k]
         /\ \A m \in Nodes : m # n => UNCHANGED <<channel[m], handler[m]>>
         /\ HandlerStep(n) => up[n] \/ handler[n] # None
         /\ TimerStep(n) \/ EntryEvicted(n) => UNCHANGED <<channel, handler, missed>>
         /\ MessageLost(n) => channel[n] # <<>> /\ UNCHANGED handler
<1>1. UNCHANGED cache \/ \E D : cache' = Dropped(n, D)
  <2>1. CASE HandlerStep(n)
    BY <2>1 DEF HandlerStep, Receive, HandlerDelete, HandlerLockedDelete, HandlerArm
  <2>2. CASE TimerStep(n)
    BY <2>2 DEF TimerStep, TimerDelete, TimerLockedDelete
  <2>3. CASE MessageLost(n) \/ EntryEvicted(n)
    BY <2>3 DEF MessageLost, LoseMessage, EntryEvicted, Evict
  <2>. QED BY <2>1, <2>2, <2>3
<1>2. \A m \in Nodes, k \in Keys :
        /\ cache'[m][k] \in {cache[m][k], Miss}
        /\ m # n => cache'[m][k] = cache[m][k]
  <2>1. CASE UNCHANGED cache BY <2>1
  <2>2. ASSUME NEW D, cache' = Dropped(n, D)
        PROVE  \A m \in Nodes, k \in Keys :
                 /\ cache'[m][k] \in {cache[m][k], Miss}
                 /\ m # n => cache'[m][k] = cache[m][k]
    BY <2>2, DroppedType
  <2>. QED BY <1>1, <2>1, <2>2
<1>3. \A m \in Nodes : m # n => UNCHANGED <<channel[m], handler[m]>>
  BY DEF TypeOK, BusTypeOK, HandlerStep, Receive, HandlerDelete, HandlerLockedDelete,
     HandlerArm, TimerStep, TimerDelete, TimerLockedDelete, MessageLost, LoseMessage,
     EntryEvicted, Evict, busVars
<1>4. UNCHANGED <<up, lock, redis, now, pc, req, tok, data>>
  BY DEF HandlerStep, Receive, HandlerDelete, HandlerLockedDelete,
     HandlerArm, TimerStep, TimerDelete, TimerLockedDelete, MessageLost, LoseMessage,
     EntryEvicted, Evict, busVars, reqVars
<1>5. HandlerStep(n) => up[n] \/ handler[n] # None
  BY DEF HandlerStep, Receive, HandlerDelete, HandlerLockedDelete, HandlerArm
<1>6. TimerStep(n) => UNCHANGED <<channel, handler, missed>>
  BY DEF TimerStep, TimerDelete, TimerLockedDelete
<1>7. EntryEvicted(n) => UNCHANGED <<channel, handler, missed>>
  BY DEF EntryEvicted, Evict, busVars
<1>8. MessageLost(n) => channel[n] # <<>> /\ UNCHANGED handler
  BY DEF MessageLost, LoseMessage
<1>. QED BY <1>2, <1>3, <1>4, <1>5, <1>6, <1>7, <1>8

(* A request that is not loading, goes on and does not begin to load leaves *)
(* loaders and mutexes as they are.                                        *)
LEMMA LocksKept ==
  ASSUME TypeOK, LockHeldByLoader, NEW r \in Reqs, ~Loading(r),
         UNCHANGED <<lock, req>>,
         NEW l, l \notin {"load", "store"}, pc' = [pc EXCEPT ![r] = l]
  PROVE  LockHeldByLoader'
<1>1. \A s \in Reqs : pc'[s] \in {"load", "store"} <=> pc[s] \in {"load", "store"}
  BY DEF TypeOK, Loading
<1>2. \A n \in Nodes, k \in Keys : lock[n][k] # None => lock[n][k] \in Reqs
  BY DEF TypeOK, BusTypeOK, Reqs
<1>3. \A s \in Reqs :
        pc'[s] \in {"load", "store"} => lock'[req'[s].node][req'[s].key] = s
  BY <1>1 DEF LockHeldByLoader, Loading, Node, Key
<1>4. ASSUME NEW n \in Nodes, NEW k \in Keys, NEW s \in Reqs, s # None, lock'[n][k] = s
      PROVE  /\ pc'[s] \in {"load", "store"}
             /\ req'[s].node = n /\ req'[s].key = k
  <2>1. lock[n][k] = s BY <1>4
  <2>2. pc[s] \in {"load", "store"} /\ req[s].node = n /\ req[s].key = k
    BY <1>4, <2>1 DEF LockHeldByLoader, Loading, Node, Key
  <2>. QED BY <1>1, <2>2
<1>. QED BY <1>2, <1>3, <1>4 DEF LockHeldByLoader, Loading, Node, Key

(* The steps of a request before and after its load.                       *)
LEMMA StepLockOthers ==
  ASSUME TypeOK, LockHeldByLoader, NEW r \in Reqs,
         \/ LoginReuse(r) \/ LoginGenerate(r) \/ VerifyHit(r) \/ ClearAll(r)
         \/ VerifyCheck(r) \/ HSet(r) \/ HDel(r) \/ PublishDelete(r)
         \/ WriteFails(r) \/ PublishFails(r)
  PROVE  LockHeldByLoader'
<1>1. CASE \/ LoginReuse(r) \/ LoginGenerate(r) \/ VerifyHit(r) \/ ClearAll(r)
           \/ VerifyCheck(r)
  <2>1. UNCHANGED <<lock, req>> /\ ~Loading(r)
    BY <1>1 DEF LoginReuse, LoginGenerate, VerifyHit, VerifyCheck, ClearAll,
                CacheHit, Starts, At, Goto, Loading, cacheVars, reqVars
  <2>2. PICK l \in {"done", "hset", "hdel", "check", "rejected", "accepted"} :
          pc' = [pc EXCEPT ![r] = l]
    BY <1>1 DEF LoginReuse, LoginGenerate, VerifyHit, VerifyCheck, ClearAll, Goto
  <2>3. l \notin {"load", "store"} OBVIOUS
  <2>. QED BY <2>1, <2>2, <2>3, LocksKept
<1>2. CASE HSet(r) \/ HDel(r) \/ PublishDelete(r) \/ WriteFails(r) \/ PublishFails(r)
  <2>1. UNCHANGED <<lock, req>> /\ ~Loading(r)
    BY <1>2 DEF HSet, HDel, PublishDelete, WriteFails, PublishFails, Publishing,
                Starts, At, Goto, Loading, cacheVars, reqVars
  <2>2. PICK l \in {"pubset", "pubdel", "done", "accepted", "rejected", "failed"} :
          pc' = [pc EXCEPT ![r] = l]
    BY <1>2 DEF HSet, HDel, PublishDelete, WriteFails, PublishFails, Answer, Goto
  <2>3. l \notin {"load", "store"} OBVIOUS
  <2>. QED BY <2>1, <2>2, <2>3, LocksKept
<1>. QED BY <1>1, <1>2

(* The mutex of a key and the loader of that key go together.              *)
LEMMA StepLock == IInv /\ [Next]_vars => LockHeldByLoader'
<1> SUFFICES ASSUME IInv, [Next]_vars PROVE LockHeldByLoader'
  OBVIOUS
<1>1. ASSUME NEW r \in Reqs,
             \/ LoginReuse(r) \/ LoginGenerate(r) \/ VerifyHit(r) \/ ClearAll(r)
             \/ VerifyCheck(r) \/ HSet(r) \/ HDel(r) \/ PublishDelete(r)
             \/ WriteFails(r) \/ PublishFails(r)
      PROVE  LockHeldByLoader'
  BY <1>1, StepLockOthers DEF IInv
<1> USE DEF IInv, TypeOK, BusTypeOK, LockHeldByLoader, Loading, Goto, Key, Node,
            cacheVars, busVars, reqVars, Reqs
<1>4. ASSUME NEW r \in Reqs, VerifyMiss(r) PROVE LockHeldByLoader'
  <2>1. lock[Node(r)][Key(r)] = None /\ ~Loading(r)
    BY <1>4 DEF VerifyMiss, CacheMiss, LockFree, Starts
  <2>2. lock' = [lock EXCEPT ![Node(r)][Key(r)] = r] /\ UNCHANGED req
        /\ pc' = [pc EXCEPT ![r] = "load"]
    BY <1>4 DEF VerifyMiss, CacheMiss
  <2>3. Node(r) \in Nodes /\ Key(r) \in Keys BY DEF Request
  <2>4. \A s \in Reqs : Loading(s) => s # r /\ (Node(s) # Node(r) \/ Key(s) # Key(r))
    BY <2>1
  <2>5. \A s \in Reqs : Loading(s)' => lock'[Node(s)'][Key(s)'] = s
    BY <2>2, <2>3, <2>4 DEF Request
  <2>6. \A n \in Nodes, k \in Keys :
          \/ n = Node(r) /\ k = Key(r) /\ lock'[n][k] = r
          \/ lock'[n][k] = lock[n][k] /\ lock[n][k] # r
    <3>1. \A n \in Nodes, k \in Keys : lock[n][k] # r
      BY <2>1
    <3>2. \A n \in Nodes, k \in Keys :
            lock'[n][k] = IF n = Node(r) /\ k = Key(r) THEN r ELSE lock[n][k]
      BY <2>2, <2>3
    <3>. QED BY <3>1, <3>2
  <2>7. Loading(r)' /\ \A s \in Reqs : Loading(s) => Loading(s)'
    BY <2>2
  <2>8. \A n \in Nodes, k \in Keys : lock[n][k] # None => lock[n][k] \in Reqs
    OBVIOUS
  <2>9. ASSUME NEW n \in Nodes, NEW k \in Keys, NEW s \in Reqs, lock'[n][k] = s, s # None
        PROVE  Loading(s)' /\ Node(s)' = n /\ Key(s)' = k
    <3>1. CASE s = r /\ n = Node(r) /\ k = Key(r) BY <2>2, <2>7, <3>1
    <3>2. CASE lock[n][k] = s
      <4>1. Loading(s) /\ Node(s) = n /\ Key(s) = k BY <2>9, <3>2
      <4>. HIDE DEF IInv, TypeOK, BusTypeOK, LockHeldByLoader
      <4>. QED BY <2>2, <2>7, <4>1
    <3>. HIDE DEF IInv, TypeOK, BusTypeOK, LockHeldByLoader
    <3>. QED BY <2>6, <2>9, <3>1, <3>2
  <2>10. \A n \in Nodes, k \in Keys : lock'[n][k] # None => lock'[n][k] \in Reqs
    <3>. HIDE DEF IInv, TypeOK, BusTypeOK, LockHeldByLoader
    <3>. QED BY <2>6, <2>8
  <2>. HIDE DEF IInv, TypeOK, BusTypeOK
  <2>. QED BY <2>5, <2>9, <2>10
<1>5. ASSUME NEW r \in Reqs, VerifyLoad(r) PROVE LockHeldByLoader'
  BY <1>5 DEF VerifyLoad, At
<1>6. ASSUME NEW r \in Reqs, VerifyStore(r) \/ LoadFails(r) PROVE LockHeldByLoader'
  <2>1. Loading(r) BY <1>6 DEF VerifyStore, LoadFails, At
  <2>2. lock' = [lock EXCEPT ![Node(r)][Key(r)] = None] /\ UNCHANGED req
    BY <1>6 DEF VerifyStore, LoadFails, CacheStore, CacheGiveUp
  <2>3. PICK l \in {"check", "failed"} : pc' = [pc EXCEPT ![r] = l]
    BY <1>6 DEF VerifyStore, LoadFails
  <2>4. Node(r) \in Nodes /\ Key(r) \in Keys BY DEF Request
  <2>5. \A s \in Reqs : Loading(s)' => Loading(s) /\ s # r BY <2>3
  <2>6. \A s \in Reqs : Loading(s)' => Node(s) # Node(r) \/ Key(s) # Key(r)
    <3>1. ASSUME NEW s \in Reqs, Loading(s), s # r
          PROVE  Node(s) # Node(r) \/ Key(s) # Key(r)
      <4>1. lock[Node(s)][Key(s)] = s /\ lock[Node(r)][Key(r)] = r BY <2>1, <3>1
      <4>. HIDE DEF IInv, TypeOK, LockHeldByLoader, Node, Key
      <4>. QED BY <3>1, <4>1
    <3>. QED BY <2>5, <3>1
  <2>7. \A s \in Reqs : Loading(s)' => lock'[Node(s)'][Key(s)'] = s
    BY <2>2, <2>4, <2>5, <2>6 DEF Request
  <2>8. \A n \in Nodes, k \in Keys : lock'[n][k] # None =>
          lock'[n][k] = lock[n][k] /\ lock[n][k] # r
    BY <2>1, <2>2, <2>4
  <2>9. \A s \in Reqs : Loading(s) /\ s # r => Loading(s)'
    BY <2>3
  <2>10. \A n \in Nodes, k \in Keys : lock[n][k] # None => lock[n][k] \in Reqs
    OBVIOUS
  <2>11. ASSUME NEW n \in Nodes, NEW k \in Keys, NEW s \in Reqs, lock'[n][k] = s, s # None
         PROVE  Loading(s)' /\ Node(s)' = n /\ Key(s)' = k
    <3>1. lock[n][k] = s /\ s # r BY <2>8, <2>11
    <3>2. Loading(s) /\ Node(s) = n /\ Key(s) = k BY <2>11, <3>1
    <3>. HIDE DEF IInv, TypeOK, BusTypeOK, LockHeldByLoader
    <3>. QED BY <2>2, <2>9, <3>1, <3>2
  <2>12. \A n \in Nodes, k \in Keys : lock'[n][k] # None => lock'[n][k] \in Reqs
    <3>. HIDE DEF IInv, TypeOK, BusTypeOK, LockHeldByLoader
    <3>. QED BY <2>8, <2>10
  <2>. HIDE DEF IInv, TypeOK, BusTypeOK
  <2>. QED BY <2>7, <2>11, <2>12
<1>7. ASSUME NEW n \in Nodes, NodeCrash(n) PROVE LockHeldByLoader'
  BY <1>7 DEF NodeCrash, Crash, Running
<1>8. ASSUME UNCHANGED <<lock, pc, req>> PROVE LockHeldByLoader'
  BY <1>8
<1>9. ASSUME NEW n \in Nodes,
             \/ HandlerStep(n) \/ TimerStep(n) \/ NodeRestart(n)
             \/ MessageLost(n) \/ EntryEvicted(n)
      PROVE  LockHeldByLoader'
  BY <1>8, <1>9 DEF HandlerStep, TimerStep, Receive, HandlerDelete, HandlerLockedDelete,
       HandlerArm, TimerDelete, TimerLockedDelete, NodeRestart, Restart, MessageLost,
       LoseMessage, EntryEvicted, Evict
<1>10. CASE Tick \/ UNCHANGED vars
  BY <1>8, <1>10 DEF Tick, vars
<1>. QED
  BY <1>1, <1>4, <1>5, <1>6, <1>7, <1>9, <1>10
  DEF Next, RequestStep, RequestFault, NodeFault

(* DelMemAll messages carry no keys.                                       *)
LEMMA StepMessages == IInv /\ [Next]_vars => MessageInv'
<1> SUFFICES ASSUME IInv, [Next]_vars PROVE MessageInv'
  OBVIOUS
<1>1. ASSUME NEW m \in Message, Publish(m), m.all => m.keys = {} PROVE MessageInv'
  <2>1. ASSUME NEW n \in Nodes, NEW i \in DOMAIN channel'[n]
        PROVE  channel'[n][i] = m \/ \E j \in DOMAIN channel[n] : channel'[n][i] = channel[n][j]
    <3>1. channel[n] \in Seq(Message) BY DEF IInv, TypeOK, BusTypeOK
    <3>2. channel'[n] = IF up[n] THEN Append(channel[n], m) ELSE channel[n]
      BY <1>1 DEF Publish
    <3>3. QED BY <2>1, <3>1, <3>2
  <2>2. QED BY <1>1, <2>1 DEF IInv, MessageInv
<1>2. ASSUME NEW r \in Reqs, PublishDelete(r) \/ PublishFails(r) \/ ClearAll(r)
      PROVE  MessageInv'
  <2>1. Key(r) \in Keys BY DEF IInv, TypeOK, Key, Request
  <2>2. CASE Publish(DelCacheMessage(r, {Key(r)}))
    BY <1>1, <2>1, <2>2, MessageTypes DEF DelCacheMessage
  <2>3. CASE Publish(DelAllMessage(r))
    BY <1>1, <2>1, <2>3, MessageTypes DEF DelAllMessage
  <2>4. CASE UNCHANGED channel BY <2>4 DEF IInv, MessageInv
  <2>5. QED BY <1>2, <2>2, <2>3, <2>4
        DEF PublishDelete, PublishFails, PublishLost, ClearAll
<1>3. ASSUME NEW n \in Nodes, channel[n] # <<>>,
             channel' = [channel EXCEPT ![n] = Tail(@)]
      PROVE  MessageInv'
  <2>1. channel[n] \in Seq(Message) /\ channel \in [Nodes -> Seq(Message)]
    BY DEF IInv, TypeOK, BusTypeOK
  <2>2. \A j \in DOMAIN Tail(channel[n]) :
          \E i \in DOMAIN channel[n] : Tail(channel[n])[j] = channel[n][i]
    BY <1>3, <2>1, TailElements
  <2>3. QED BY <1>3, <2>1, <2>2 DEF IInv, MessageInv
<1>4. ASSUME NEW n \in Nodes, Receive(n) \/ MessageLost(n) PROVE MessageInv'
  BY <1>3, <1>4 DEF Receive, MessageLost, LoseMessage
<1>5. ASSUME NEW n \in Nodes, NodeCrash(n) PROVE MessageInv'
  BY <1>5 DEF NodeCrash, Crash, IInv, MessageInv, TypeOK, BusTypeOK
<1>6. ASSUME UNCHANGED channel PROVE MessageInv'
  BY <1>6 DEF IInv, MessageInv
<1>7. ASSUME NEW r \in Reqs, RequestStep(r) \/ RequestFault(r) PROVE MessageInv'
  BY <1>2, <1>6, <1>7 DEF RequestStep, RequestFault, LoginReuse, LoginGenerate, VerifyHit,
       VerifyMiss, VerifyLoad, VerifyStore, VerifyCheck, HSet, HDel, LoadFails, WriteFails,
       PublishLost, busVars
<1>8. ASSUME NEW n \in Nodes, HandlerStep(n) \/ TimerStep(n) \/ NodeFault(n)
      PROVE  MessageInv'
  BY <1>4, <1>5, <1>6, <1>8 DEF HandlerStep, HandlerDelete, HandlerLockedDelete, HandlerArm,
       TimerStep, TimerDelete, TimerLockedDelete, NodeFault, NodeRestart, Restart,
       EntryEvicted, Evict, busVars
<1>9. CASE Tick \/ UNCHANGED vars BY <1>6, <1>9 DEF Tick, vars, busVars
<1>. QED BY <1>7, <1>8, <1>9 DEF Next

(* A node that is down has nothing of what dies with the process.          *)
LEMMA StepDown == IInv /\ [Next]_vars => DownInv'
<1> SUFFICES ASSUME IInv, [Next]_vars PROVE DownInv'
  OBVIOUS
<1> USE DEF IInv, TypeOK, BusTypeOK, DownInv, Goto, Key, Node, cacheVars, busVars,
            reqVars, Reqs, Running
<1>1. ASSUME NEW r \in Reqs, UNCHANGED <<up, channel, handler, req>>,
             \A n \in Nodes, k \in Keys : ~up[n] => cache'[n][k] = cache[n][k],
             up[Node(r)], NEW l, pc' = [pc EXCEPT ![r] = l]
      PROVE  DownInv'
  <2>1. \A s \in Reqs : pc[s]' \in Running => up[Node(s)] BY <1>1
  <2>. QED BY <1>1, <2>1
<1>2. ASSUME NEW r \in Reqs,
             \/ LoginReuse(r) \/ LoginGenerate(r) \/ VerifyHit(r) \/ VerifyMiss(r)
             \/ VerifyLoad(r) \/ VerifyCheck(r) \/ LoadFails(r) \/ HSet(r) \/ HDel(r)
             \/ WriteFails(r)
      PROVE  DownInv'
  <2>1. up[Node(r)] /\ UNCHANGED <<up, channel, handler, req, cache>>
    BY <1>2 DEF LoginReuse, LoginGenerate, VerifyHit, VerifyMiss, VerifyLoad, VerifyCheck,
         LoadFails, HSet, HDel, WriteFails, CacheHit, CacheMiss, CacheGiveUp, PublishLost,
         Loading, At, Starts
  <2>2. \E l : pc' = [pc EXCEPT ![r] = l]
    BY <1>2 DEF LoginReuse, LoginGenerate, VerifyHit, VerifyMiss, VerifyLoad, VerifyCheck,
         LoadFails, HSet, HDel, WriteFails
  <2>. QED BY <1>1, <2>1, <2>2
<1>3. ASSUME NEW r \in Reqs, VerifyStore(r) PROVE DownInv'
  <2>1. up[Node(r)] /\ UNCHANGED <<up, channel, handler, req>>
    BY <1>3 DEF VerifyStore, At
  <2>2. \A n \in Nodes, k \in Keys : ~up[n] => cache'[n][k] = cache[n][k]
    BY <1>3, <2>1 DEF VerifyStore, CacheStore
  <2>. QED BY <1>1, <1>3, <2>1, <2>2 DEF VerifyStore
<1>4. ASSUME NEW r \in Reqs, PublishDelete(r) \/ PublishFails(r) \/ ClearAll(r)
      PROVE  DownInv'
  <2>1. /\ UNCHANGED <<up, handler, req, cache>>
        /\ \A n \in Nodes : ~up[n] => channel'[n] = channel[n]
    BY <1>4 DEF PublishDelete, PublishFails, ClearAll, Publish, PublishLost
  <2>2. PICK l \in Ended : pc' = [pc EXCEPT ![r] = l]
    BY <1>4 DEF PublishDelete, PublishFails, ClearAll, Answer, Ended
  <2>3. l \notin Running BY <2>2 DEF Ended
  <2>. QED BY <2>1, <2>2, <2>3
<1>5. ASSUME NEW n \in Nodes, HandlerStep(n) PROVE DownInv'
  <2>. HIDE DEF TypeOK, BusTypeOK
  <2>1. up[n] BY <1>5, NodeFrame
  <2>. QED BY <1>5, <2>1, NodeFrame
<1>6. ASSUME NEW n \in Nodes, TimerStep(n) \/ MessageLost(n) \/ EntryEvicted(n)
      PROVE  DownInv'
  <2>. HIDE DEF TypeOK, BusTypeOK
  <2>1. UNCHANGED handler /\ (~up[n] => channel'[n] = channel[n])
    BY <1>6, NodeFrame
  <2>. QED BY <1>6, <2>1, NodeFrame
<1>7. ASSUME NEW n \in Nodes, NodeCrash(n) PROVE DownInv'
  <2>1. \A k \in Keys : Volatile => cache'[n][k] = Miss
    BY <1>7, DroppedType DEF NodeCrash, Crash
  <2>2. \A m \in Nodes : m # n => UNCHANGED <<channel[m], handler[m], cache[m], up[m]>>
    BY <1>7 DEF NodeCrash, Crash, Dropped
  <2>3. channel'[n] = <<>> /\ handler'[n] = None BY <1>7 DEF NodeCrash, Crash
  <2>4. \A r \in Reqs : pc'[r] \in Running => Node(r) # n /\ pc[r] \in Running
    BY <1>7 DEF NodeCrash
  <2>5. UNCHANGED req BY <1>7 DEF NodeCrash
  <2>6. \A r \in Reqs : Node(r) \in Nodes BY DEF Request
  <2>7. up' = [up EXCEPT ![n] = FALSE] BY <1>7 DEF NodeCrash, Crash
  <2>8. \A m \in Nodes : ~up'[m] => channel'[m] = <<>> /\ handler'[m] = None
    BY <2>2, <2>3, <2>7
  <2>9. \A m \in Nodes, k \in Keys : ~up'[m] /\ Volatile => cache'[m][k] = Miss
    BY <2>1, <2>2, <2>7
  <2>10. \A r \in Reqs : pc'[r] \in Running => up'[Node(r)']
    BY <2>4, <2>5, <2>6, <2>7
  <2>. QED BY <2>8, <2>9, <2>10
<1>8. ASSUME NEW n \in Nodes, NodeRestart(n) PROVE DownInv'
  BY <1>8 DEF NodeRestart, Restart
<1>9. CASE Tick \/ UNCHANGED vars
  BY <1>9 DEF Tick, vars
<1>. QED
  BY <1>2, <1>3, <1>4, <1>5, <1>6, <1>7, <1>8, <1>9
  DEF Next, RequestStep, RequestFault, NodeFault

(* A step that keeps the hash and the values about to be stored, and at    *)
(* most deletes entries; a pair may cease to be owed if the node has       *)
(* neither an entry nor a value about to be stored.  Coherence survives it.*)
OnlyForgets ==
  /\ UNCHANGED <<redis, req>>
  /\ \A n \in Nodes, k \in Keys :
       /\ cache'[n][k] \in {cache[n][k], Miss}
       /\ Owed(n, k) =>
            \/ Owed(n, k)'
            \/ /\ cache'[n][k] = Miss
               /\ ~\E r \in Reqs : At(r, "store")' /\ Node(r) = n /\ Key(r) = k
  /\ \A r \in Reqs : At(r, "store")' => At(r, "store") /\ data'[r] = data[r]

LEMMA CoherenceKept ==
  ASSUME IInv, OnlyForgets
  PROVE  CacheCoherent' /\ LoadCoherent'
<1> USE DEF OnlyForgets
<1>1. CacheCoherent'
  BY DEF IInv, CacheCoherent
<1>2. ASSUME NEW r \in Reqs, At(r, "store")'
      PROVE  data'[r] = redis'[Key(r)'] \/ Owed(Node(r), Key(r))'
  <2>1. Node(r) \in Nodes /\ Key(r) \in Keys
    BY DEF IInv, TypeOK, Node, Key, Request
  <2>2. data[r] = redis[Key(r)] \/ Owed(Node(r), Key(r))
    BY <1>2 DEF IInv, LoadCoherent
  <2>3. Key(r)' = Key(r) /\ Node(r)' = Node(r) BY DEF Key, Node
  <2>. QED BY <1>2, <2>1, <2>2, <2>3
<1>. QED BY <1>1, <1>2 DEF LoadCoherent, Node, Key

(* A request between two commands, none of them a write of the hash.       *)
LEMMA ForgetsQuiet ==
  ASSUME IInv, NEW r \in Reqs,
         \/ LoginReuse(r) \/ LoginGenerate(r) \/ VerifyHit(r) \/ VerifyMiss(r)
         \/ VerifyCheck(r) \/ LoadFails(r)
  PROVE  OnlyForgets
<1> USE DEF Goto, At, cacheVars, busVars
<1>1. UNCHANGED <<redis, req, cache, channel, handler, missed>>
  BY DEF LoginReuse, LoginGenerate, VerifyHit, VerifyMiss, VerifyCheck, LoadFails,
     CacheHit, CacheMiss, CacheGiveUp
<1>2. pc[r] \notin {"pubset", "pubdel"}
  BY DEF LoginReuse, LoginGenerate, VerifyHit, VerifyMiss, VerifyCheck, LoadFails,
     Loading, Starts
<1>3. PICK l \in {"done", "hset", "hdel", "load", "check", "rejected", "accepted", "failed"} :
        pc' = [pc EXCEPT ![r] = l]
  BY DEF LoginReuse, LoginGenerate, VerifyHit, VerifyMiss, VerifyCheck, LoadFails
<1>4. \A s \in Reqs : s # r => data'[s] = data[s]
  BY DEF LoginReuse, LoginGenerate, VerifyHit, VerifyMiss, VerifyCheck, LoadFails, IInv, TypeOK
<1>5. \A s \in Reqs : s # r => pc'[s] = pc[s]
  BY <1>3 DEF IInv, TypeOK
<1>6. pc'[r] = l BY <1>3 DEF IInv, TypeOK
<1>7. \A n \in Nodes, k \in Keys : Owed(n, k) => Owed(n, k)'
  BY <1>1, <1>2, <1>5, OwedKept DEF IInv, Publishing
<1>8. \A s \in Reqs : At(s, "store")' => At(s, "store") /\ data'[s] = data[s]
  BY <1>3, <1>4, <1>5, <1>6
<1>. QED BY <1>1, <1>7, <1>8 DEF OnlyForgets

(* The loader reads the hash, and stores what it read.                     *)
LEMMA StepCoherentLoad ==
  ASSUME IInv, NEW r \in Reqs, VerifyLoad(r) \/ VerifyStore(r)
  PROVE  CacheCoherent' /\ LoadCoherent'
<1> USE DEF Goto, At, cacheVars, busVars
<1>1. UNCHANGED <<redis, req, channel, handler, missed>> BY DEF VerifyLoad, VerifyStore
<1>2. pc[r] \in {"load", "store"} BY DEF VerifyLoad, VerifyStore
<1>3. \A s \in Reqs : s # r => pc'[s] = pc[s] /\ data'[s] = data[s]
  BY DEF VerifyLoad, VerifyStore, IInv, TypeOK
<1>4. \A n \in Nodes, k \in Keys : Owed(n, k) => Owed(n, k)'
  BY <1>1, <1>2, <1>3, OwedKept DEF IInv, Publishing
<1>5. Node(r) \in Nodes /\ Key(r) \in Keys
  BY DEF IInv, TypeOK, Node, Key, Request
<1>6. CASE VerifyLoad(r)
  <2>1. UNCHANGED cache /\ data'[r] = redis[Key(r)]
    BY <1>6 DEF VerifyLoad, IInv, TypeOK
  <2>2. CacheCoherent' BY <1>1, <1>4, <2>1 DEF IInv, CacheCoherent
  <2>3. \A s \in Reqs : Node(s) \in Nodes /\ Key(s) \in Keys
    BY DEF IInv, TypeOK, Node, Key, Request
  <2>4. LoadCoherent'
    BY <1>1, <1>3, <1>4, <2>1, <2>3 DEF IInv, LoadCoherent, Node, Key
  <2>. QED BY <2>2, <2>4
<1>7. CASE VerifyStore(r)
  <2>1. pc'[r] = "check" /\ UNCHANGED data BY <1>7 DEF VerifyStore, IInv, TypeOK
  <2>2. \A n \in Nodes, k \in Keys :
          cache'[n][k] = IF n = Node(r) /\ k = Key(r) THEN data[r] ELSE cache[n][k]
    BY <1>5, <1>7 DEF VerifyStore, CacheStore, IInv, TypeOK, BusTypeOK
  <2>3. data[r] = redis[Key(r)] \/ Owed(Node(r), Key(r))
    BY <1>7 DEF VerifyStore, IInv, LoadCoherent
  <2>4. CacheCoherent'
    BY <1>1, <1>4, <1>5, <2>2, <2>3 DEF IInv, CacheCoherent
  <2>5. \A s \in Reqs : Node(s) \in Nodes /\ Key(s) \in Keys
    BY DEF IInv, TypeOK, Node, Key, Request
  <2>6. LoadCoherent'
    BY <1>1, <1>3, <1>4, <2>1, <2>5 DEF IInv, LoadCoherent, Node, Key
  <2>. QED BY <2>4, <2>6
<1>. QED BY <1>6, <1>7

(* The hash changes: the account is owed to every node from then on.       *)
LEMMA StepCoherentWrite ==
  ASSUME IInv, NEW r \in Reqs, HSet(r) \/ HDel(r) \/ WriteFails(r)
  PROVE  CacheCoherent' /\ LoadCoherent'
<1> USE DEF Goto, At, cacheVars, busVars
<1>1. UNCHANGED <<req, cache, channel, handler, data>> /\ missed \subseteq missed'
  BY DEF HSet, HDel, WriteFails, PublishLost
<1>2. pc[r] \in {"hset", "hdel", "new"} BY DEF HSet, HDel, WriteFails, Starts
<1>3. \A s \in Reqs : s # r => pc'[s] = pc[s]
  BY DEF HSet, HDel, WriteFails, IInv, TypeOK
<1>4. pc'[r] \in {"pubset", "pubdel", "failed"}
  BY DEF HSet, HDel, WriteFails, IInv, TypeOK
<1>5. \A n \in Nodes, k \in Keys : Owed(n, k) => Owed(n, k)'
  BY <1>1, <1>2, <1>3, OwedKept DEF IInv, Publishing
<1>6. \A s \in Reqs : Node(s) \in Nodes /\ Key(s) \in Keys
  BY DEF IInv, TypeOK, Node, Key, Request
<1>7. UNCHANGED redis \/ \A n \in Nodes, k \in Keys : k = Key(r) => Owed(n, k)'
  <2>1. CASE HSet(r) \/ HDel(r)
    <3>1. Publishing(r)' BY <2>1 DEF HSet, HDel, Publishing, IInv, TypeOK
    <3>. QED BY <1>1, <3>1 DEF Owed, Unpublished, Key
  <2>2. ASSUME PublishLost({Key(r)})
        PROVE  \A n \in Nodes, k \in Keys : k = Key(r) => Owed(n, k)'
    <3>1. \A n \in Nodes, k \in Keys : k = Key(r) => <<n, k>> \in missed'
      BY <2>2 DEF PublishLost
    <3>. QED BY <3>1 DEF Owed
  <2>3. CASE WriteFails(r)
    BY <2>2, <2>3 DEF WriteFails
  <2>. QED BY <2>1, <2>3
<1>8. \A k \in Keys : k # Key(r) => redis'[k] = redis[k]
  BY DEF HSet, HDel, WriteFails, IInv, TypeOK
<1>9. CacheCoherent'
  <2>1. ASSUME NEW n \in Nodes, NEW k \in Keys
        PROVE  cache'[n][k] \in {Miss, redis'[k]} \/ Owed(n, k)'
    <3>1. cache[n][k] \in {Miss, redis[k]} \/ Owed(n, k) BY DEF IInv, CacheCoherent
    <3>. QED BY <1>1, <1>5, <1>7, <1>8, <3>1
  <2>. QED BY <2>1 DEF CacheCoherent
<1>10. LoadCoherent'
  <2>1. ASSUME NEW s \in Reqs, At(s, "store")'
        PROVE  (data[s] = redis[Key(s)] \/ Owed(Node(s), Key(s)))'
    <3>1. At(s, "store") /\ s # r BY <2>1, <1>3, <1>4
    <3>2. data[s] = redis[Key(s)] \/ Owed(Node(s), Key(s))
      BY <3>1 DEF IInv, LoadCoherent
    <3>3. Key(s)' = Key(s) /\ Node(s)' = Node(s) BY <1>1 DEF Key, Node
    <3>4. ASSUME NEW n \in Nodes, NEW k \in Keys, n = Node(s), k = Key(s)
          PROVE  data'[s] = redis'[k] \/ Owed(n, k)'
      BY <1>1, <1>5, <1>7, <1>8, <3>2, <3>4
    <3>. QED BY <1>6, <3>3, <3>4
  <2>. QED BY <2>1 DEF LoadCoherent
<1>. QED BY <1>9, <1>10

(* Publishing hands what the writer owes to the queues of the nodes that   *)
(* are up; the others have nothing (a volatile store) or have missed it.   *)
LEMMA ForgetsPublish ==
  ASSUME IInv, NEW r \in Reqs, PublishDelete(r) \/ PublishFails(r) \/ ClearAll(r)
  PROVE  OnlyForgets
<1> USE DEF Goto, At, cacheVars
<1>1. UNCHANGED <<redis, req, cache, handler, data, up>>
  BY DEF PublishDelete, PublishFails, ClearAll, Publish, PublishLost
<1>2. \A s \in Reqs : s # r => pc'[s] = pc[s]
  BY DEF PublishDelete, PublishFails, ClearAll, IInv, TypeOK
<1>3. pc'[r] # "store"
  BY DEF PublishDelete, PublishFails, ClearAll, Answer, IInv, TypeOK
<1>4. Node(r) \in Nodes /\ Key(r) \in Keys
  BY DEF IInv, TypeOK, Node, Key, Request
<1>5. \A k \in Keys : Unpublished(k) => Unpublished(k)' \/ (Publishing(r) /\ k = Key(r))
  BY <1>1, <1>2 DEF Unpublished, Publishing, Key
<1>6. ASSUME NEW n \in Nodes, NEW k \in Keys, Owed(n, k)
      PROVE  \/ Owed(n, k)'
             \/ cache'[n][k] = Miss /\ ~up[n]
  <2>1. CASE PublishLost({Key(r)}) /\ Publishing(r)
    <3>1. missed' = missed \cup (Nodes \X {Key(r)}) /\ UNCHANGED channel
      BY <2>1 DEF PublishLost
    <3>2. Announced(n, k) => Announced(n, k)' BY <1>1, <3>1 DEF Announced
    <3>. QED BY <1>5, <1>6, <3>1, <3>2 DEF Owed
  <2>2. ASSUME NEW m \in Message, Publish(m), Publishing(r) => Key(r) \in m.keys
        PROVE  Owed(n, k)' \/ (cache'[n][k] = Miss /\ ~up[n])
    <3>1. /\ Announced(n, k) => Announced(n, k)'
          /\ up[n] /\ k \in m.keys => Announced(n, k)'
          /\ ~up[n] /\ ~Volatile /\ k \in m.keys => <<n, k>> \in missed'
          /\ <<n, k>> \in missed => <<n, k>> \in missed'
      BY <2>2, PublishAnnounces DEF IInv
    <3>2. ~up[n] /\ Volatile => cache[n][k] = Miss BY DEF IInv, DownInv
    <3>. QED BY <1>1, <1>5, <1>6, <2>2, <3>1, <3>2 DEF Owed
  <2>3. CASE Publish(DelCacheMessage(r, {Key(r)}))
    BY <1>4, <2>2, <2>3, MessageTypes DEF DelCacheMessage
  <2>4. CASE ClearAll(r)
    BY <2>2, <2>4, MessageTypes DEF ClearAll, Starts, Publishing
  <2>. QED BY <2>1, <2>3, <2>4 DEF PublishDelete, PublishFails
<1>7. \A s \in Reqs : At(s, "store")' => At(s, "store") /\ up[Node(s)]
  BY <1>2, <1>3 DEF IInv, DownInv, Running
<1>8. \A s \in Reqs : At(s, "store")' => At(s, "store") /\ data'[s] = data[s]
  BY <1>1, <1>7
<1>. QED BY <1>1, <1>6, <1>7, <1>8 DEF OnlyForgets

(* The subscriber: a message moves from the queue to the handler, and what *)
(* the handler owes for a key ends with the deletion under the mutex, when *)
(* the node has no entry for it and no goroutine is loading one.           *)
LEMMA ForgetsHandler ==
  ASSUME IInv, NEW n \in Nodes, HandlerStep(n)
  PROVE  OnlyForgets
<1>1. /\ UNCHANGED <<lock, redis, pc, req, data>>
      /\ \A m \in Nodes, k \in Keys : cache'[m][k] \in {cache[m][k], Miss}
      /\ \A m \in Nodes : m # n => UNCHANGED <<channel[m], handler[m]>>
  BY NodeFrame DEF IInv
<1>2. \A k \in Keys : Unpublished(k) => Unpublished(k)'
  BY <1>1 DEF Unpublished, Publishing, Key
<1>3. UNCHANGED missed
  BY DEF HandlerStep, Receive, HandlerDelete, HandlerLockedDelete, HandlerArm
<1>4. ASSUME NEW k \in Keys, Announced(n, k)
      PROVE  \/ Announced(n, k)'
             \/ cache'[n][k] = Miss /\ lock[n][k] = None
  <2>1. CASE Receive(n)
    <3> DEFINE m == Head(channel[n])
    <3>1. /\ channel \in [Nodes -> Seq(Message)] /\ handler \in [Nodes -> Job \cup {None}]
          /\ channel[n] \in Seq(Message) /\ channel[n] # <<>> /\ handler[n] = None
          /\ channel' = [channel EXCEPT ![n] = Tail(@)]
      BY <2>1 DEF Receive, IInv, TypeOK, BusTypeOK
    <3>2. \A i \in DOMAIN channel[n] : channel[n][i] = m \/
            \E j \in DOMAIN Tail(channel[n]) : Tail(channel[n])[j] = channel[n][i]
      BY <3>1, TailElements
    <3>3. channel'[n] = Tail(channel[n]) BY <3>1
    <3>4. PICK i \in DOMAIN channel[n] : k \in channel[n][i].keys
      BY <1>4, <3>1 DEF Announced
    <3>5. CASE channel[n][i] # m BY <3>2, <3>3, <3>4, <3>5 DEF Announced
    <3>6. CASE channel[n][i] = m
      <4>1. ~m.all BY <3>4, <3>6 DEF IInv, MessageInv
      <4>2. handler' = [handler EXCEPT ![n] =
              [from |-> m.from, keys |-> m.keys, todo |-> m.keys, cur |-> None]]
        BY <2>1, <4>1 DEF Receive
      <4>3. handler'[n] = [from |-> m.from, keys |-> m.keys, todo |-> m.keys, cur |-> None]
        BY <3>1, <4>2
      <4>4. m \in Message BY <3>1
      <4>5. handler'[n] # None BY <4>3, <4>4, JobOfMessage
      <4>. QED BY <3>4, <3>6, <4>3, <4>5 DEF Announced
    <3>. QED BY <3>5, <3>6
  <2>2. CASE HandlerDelete(n)
    <3>1. PICK c \in handler[n].todo : handler' = [handler EXCEPT ![n] = BeginKey(handler[n], c)]
      BY <2>2 DEF HandlerDelete
    <3>2. handler[n] \in Job /\ handler \in [Nodes -> Job \cup {None}]
      BY <2>2 DEF HandlerDelete, IInv, TypeOK, BusTypeOK
    <3>3. c \in Keys BY <3>1, <3>2, JobTypes
    <3>4. handler'[n] = BeginKey(handler[n], c) BY <3>1, <3>2
    <3>5. handler'[n] # None
      <4>1. BeginKey(handler[n], c) \in Job BY <3>2, <3>3, JobTypes
      <4>. QED BY <3>4, <4>1
    <3>6. handler'[n].todo = handler[n].todo BY <3>2, <3>4 DEF BeginKey, Job
    <3>7. UNCHANGED channel BY <2>2 DEF HandlerDelete
    <3>8. CASE \E i \in DOMAIN channel[n] : k \in channel[n][i].keys
      BY <3>7, <3>8 DEF Announced
    <3>9. CASE handler[n] # None /\ k \in handler[n].todo
      BY <3>5, <3>6, <3>9 DEF Announced
    <3>. QED BY <1>4, <3>8, <3>9 DEF Announced
  <2>3. CASE HandlerLockedDelete(n)
    <3>1. handler[n] \in Job /\ handler \in [Nodes -> Job \cup {None}]
      BY <2>3 DEF HandlerLockedDelete, IInv, TypeOK, BusTypeOK
    <3>2. handler' = [handler EXCEPT ![n] = EndKey(handler[n])] /\ UNCHANGED channel
      BY <2>3 DEF HandlerLockedDelete
    <3>3. handler'[n] = EndKey(handler[n]) /\ handler'[n] # None
      BY <3>1, <3>2, JobTypes
    <3>4. handler'[n].todo = handler[n].todo \ {handler[n].cur}
      BY <3>1, <3>3 DEF EndKey, Job
    <3>5. CASE k = handler[n].cur
      BY <2>3, <3>5, DroppedType DEF HandlerLockedDelete, LockFree, IInv
    <3>6. CASE k # handler[n].cur
      BY <1>4, <3>2, <3>3, <3>4, <3>6 DEF Announced
    <3>. QED BY <3>5, <3>6
  <2>4. CASE HandlerArm(n)
    BY <1>4, <2>4 DEF HandlerArm, Announced
  <2>. QED BY <2>1, <2>2, <2>3, <2>4 DEF HandlerStep
<1>5. ASSUME NEW m \in Nodes, NEW k \in Keys, lock[m][k] = None
      PROVE  ~\E r \in Reqs : At(r, "store")' /\ Node(r) = m /\ Key(r) = k
  BY <1>1, <1>5 DEF IInv, LockHeldByLoader, Loading, At, Reqs
<1>6. ASSUME NEW m \in Nodes, NEW k \in Keys, Owed(m, k)
      PROVE  \/ Owed(m, k)'
             \/ /\ cache'[m][k] = Miss
                /\ ~\E r \in Reqs : At(r, "store")' /\ Node(r) = m /\ Key(r) = k
  <2>1. CASE m = n BY <1>2, <1>3, <1>4, <1>5, <1>6, <2>1 DEF Owed
  <2>2. CASE m # n BY <1>1, <1>2, <1>3, <1>6, <2>2 DEF Owed, Announced
  <2>. QED BY <2>1, <2>2
<1>. QED BY <1>1, <1>6 DEF At, OnlyForgets

(* A lost message is recorded as missed for the keys it carried.           *)
LEMMA ForgetsLost ==
  ASSUME IInv, NEW n \in Nodes, MessageLost(n)
  PROVE  OnlyForgets
<1>1. UNCHANGED <<redis, pc, req, data, cache, handler>>
  BY NodeFrame DEF IInv, MessageLost, LoseMessage
<1>2. /\ channel[n] \in Seq(Message) /\ channel[n] # <<>> /\ channel \in [Nodes -> Seq(Message)]
      /\ channel' = [channel EXCEPT ![n] = Tail(@)]
      /\ missed' = missed \cup ({n} \X Head(channel[n]).keys)
  BY DEF MessageLost, LoseMessage, IInv, TypeOK, BusTypeOK
<1>3. \A i \in DOMAIN channel[n] : channel[n][i] = Head(channel[n]) \/
        \E j \in DOMAIN Tail(channel[n]) : Tail(channel[n])[j] = channel[n][i]
  BY <1>2, TailElements
<1>4. ASSUME NEW m \in Nodes, NEW k \in Keys, Owed(m, k) PROVE Owed(m, k)'
  <2>1. Unpublished(k) => Unpublished(k)' BY <1>1 DEF Unpublished, Publishing, Key
  <2>2. Announced(m, k) => Announced(m, k)' \/ <<m, k>> \in missed'
    <3>1. CASE m # n BY <1>1, <1>2, <3>1 DEF Announced
    <3>2. CASE m = n
      <4>1. channel'[n] = Tail(channel[n]) BY <1>2
      <4>2. \A i \in DOMAIN channel[n] : k \in channel[n][i].keys =>
              <<n, k>> \in missed' \/ \E j \in DOMAIN channel'[n] : k \in channel'[n][j].keys
        BY <1>2, <1>3, <4>1
      <4>. QED BY <1>1, <3>2, <4>2 DEF Announced
    <3>. QED BY <3>1, <3>2
  <2>. QED BY <1>2, <1>4, <2>1, <2>2 DEF Owed
<1>. QED BY <1>1, <1>4 DEF At, OnlyForgets

(* A crash: what the node's writers owed everybody, and what a store that  *)
(* outlives the process was owed, is recorded as missed.                   *)
LEMMA ForgetsCrash ==
  ASSUME IInv, NEW n \in Nodes, NodeCrash(n)
  PROVE  OnlyForgets
<1> DEFINE unsent == {Key(r) : r \in {s \in Reqs : Node(s) = n /\ Publishing(s)}}
<1>1. /\ UNCHANGED <<redis, req, data>>
      /\ cache' = IF Volatile THEN Dropped(n, Keys) ELSE cache
      /\ missed' = missed \cup (Nodes \X unsent)
                    \cup (IF Volatile THEN {} ELSE {n} \X {k \in Keys : Announced(n, k)})
  BY DEF NodeCrash, Crash
<1>2. \A r \in Reqs : pc'[r] = IF Node(r) = n /\ pc[r] \in Running THEN "dead" ELSE pc[r]
  BY DEF NodeCrash
<1>3. \A m \in Nodes, k \in Keys : /\ cache'[m][k] \in {cache[m][k], Miss}
                                   /\ m = n /\ Volatile => cache'[m][k] = Miss
  BY <1>1, DroppedType DEF IInv
<1>4. \A m \in Nodes : m # n => UNCHANGED <<channel[m], handler[m]>>
  BY DEF NodeCrash, Crash, IInv, TypeOK, BusTypeOK
<1>5. \A m \in Nodes, k \in Keys :
        /\ <<m, k>> \in missed => <<m, k>> \in missed'
        /\ k \in unsent => <<m, k>> \in missed'
        /\ m = n /\ ~Volatile /\ Announced(m, k) => <<m, k>> \in missed'
  BY <1>1
<1>6. \A r \in Reqs : At(r, "store")' => At(r, "store") /\ Node(r) # n
  BY <1>2 DEF At, Running
<1>7. \A k \in Keys : Unpublished(k) => Unpublished(k)' \/ k \in unsent
  <2>1. ASSUME NEW k \in Keys, NEW r \in Reqs, Publishing(r), Key(r) = k
        PROVE  Unpublished(k)' \/ k \in unsent
    <3>1. CASE Node(r) = n BY <2>1, <3>1
    <3>2. CASE Node(r) # n
      BY <1>1, <1>2, <2>1, <3>2 DEF Unpublished, Publishing, Key
    <3>. QED BY <3>1, <3>2
  <2>. QED BY <2>1 DEF Unpublished
<1>8. ASSUME NEW m \in Nodes, NEW k \in Keys, Owed(m, k)
      PROVE  Owed(m, k)' \/ (m = n /\ cache'[m][k] = Miss)
  <2>. HIDE DEF unsent
  <2>1. m # n => (Announced(m, k) => Announced(m, k)') BY <1>4 DEF Announced
  <2>. QED BY <1>3, <1>5, <1>7, <1>8, <2>1 DEF Owed
<1>9. ASSUME NEW m \in Nodes, NEW k \in Keys, Owed(m, k)
      PROVE  \/ Owed(m, k)'
             \/ /\ cache'[m][k] = Miss
                /\ ~\E r \in Reqs : At(r, "store")' /\ Node(r) = m /\ Key(r) = k
  BY <1>6, <1>8, <1>9
<1>. QED BY <1>1, <1>3, <1>6, <1>9 DEF OnlyForgets

(* The rest only deletes entries.                                          *)
LEMMA ForgetsOther ==
  ASSUME IInv, \/ \E n \in Nodes : TimerStep(n) \/ EntryEvicted(n) \/ NodeRestart(n)
               \/ Tick \/ UNCHANGED vars
  PROVE  OnlyForgets
<1>1. ASSUME UNCHANGED <<redis, pc, req, data, channel, handler, missed>>,
             \A n \in Nodes, k \in Keys : cache'[n][k] \in {cache[n][k], Miss}
      PROVE  OnlyForgets
  <2>1. \A n \in Nodes, k \in Keys : Owed(n, k) => Owed(n, k)'
    BY <1>1, OwedKept DEF IInv, Publishing
  <2>. QED BY <1>1, <2>1 DEF At, OnlyForgets
<1>2. ASSUME NEW n \in Nodes, TimerStep(n) \/ EntryEvicted(n)
      PROVE  OnlyForgets
  <2>1. /\ UNCHANGED <<redis, pc, req, data>>
        /\ \A m \in Nodes, k \in Keys : cache'[m][k] \in {cache[m][k], Miss}
    BY <1>2, NodeFrame DEF IInv
  <2>2. UNCHANGED <<channel, handler, missed>> BY <1>2, NodeFrame DEF IInv
  <2>. QED BY <1>1, <2>1, <2>2
<1>3. ASSUME NEW n \in Nodes, NodeRestart(n) PROVE OnlyForgets
  BY <1>1, <1>3 DEF NodeRestart, Restart, cacheVars, reqVars
<1>4. ASSUME Tick \/ UNCHANGED vars PROVE OnlyForgets
  BY <1>1, <1>4 DEF Tick, vars, cacheVars, busVars, reqVars
<1>. QED BY <1>2, <1>3, <1>4

LEMMA StepCoherent == IInv /\ [Next]_vars => CacheCoherent' /\ LoadCoherent'
BY CoherenceKept, ForgetsQuiet, ForgetsPublish, ForgetsHandler, ForgetsLost, ForgetsCrash,
   ForgetsOther, StepCoherentLoad, StepCoherentWrite
DEF Next, RequestStep, RequestFault, NodeFault

LEMMA StepLoadingMiss == IInv /\ [Next]_vars => LoadingMiss'
<1> SUFFICES ASSUME IInv, [Next]_vars, NEW r \in Reqs, Loading(r)'
             PROVE  (cache[Node(r)][Key(r)] = Miss)'
  BY DEF LoadingMiss
<1>1. Node(r) \in Nodes /\ Key(r) \in Keys
  BY DEF IInv, TypeOK, Node, Key, Request
<1>2. ASSUME Loading(r), UNCHANGED req,
             cache'[Node(r)][Key(r)] \in {cache[Node(r)][Key(r)], Miss}
      PROVE  (cache[Node(r)][Key(r)] = Miss)'
  BY <1>2 DEF IInv, LoadingMiss, Node, Key
<1>3. ASSUME OnlyForgets, Loading(r) PROVE (cache[Node(r)][Key(r)] = Miss)'
  BY <1>1, <1>2, <1>3 DEF OnlyForgets
<1>4. ASSUME NEW s \in Reqs, RequestStep(s) \/ RequestFault(s), ~VerifyStore(s)
      PROVE  (cache[Node(r)][Key(r)] = Miss)'
  <2>1. UNCHANGED <<cache, req>>
    BY <1>4 DEF RequestStep, RequestFault, LoginReuse, LoginGenerate, VerifyHit, VerifyMiss,
         VerifyLoad, VerifyCheck, HSet, HDel, PublishDelete, ClearAll, LoadFails, WriteFails,
         PublishFails, CacheHit, CacheMiss, CacheGiveUp, cacheVars
  <2>3. CASE s # r
    <3>1. \E l : pc' = [pc EXCEPT ![s] = l]
      BY <1>4 DEF RequestStep, RequestFault, LoginReuse, LoginGenerate, VerifyHit, VerifyMiss,
           VerifyLoad, VerifyCheck, HSet, HDel, PublishDelete, ClearAll, LoadFails, WriteFails,
           PublishFails, Goto
    <3>2. Loading(r) BY <2>3, <3>1 DEF IInv, TypeOK, Loading
    <3>. QED BY <1>2, <2>1, <3>2
  <2>4. CASE s = r
    <3>1. CASE VerifyMiss(r)
      BY <2>1, <3>1 DEF VerifyMiss, CacheMiss, Node, Key
    <3>2. CASE VerifyLoad(r)
      BY <1>2, <2>1, <3>2 DEF VerifyLoad, At, Loading
    <3>3. CASE ~VerifyMiss(r) /\ ~VerifyLoad(r)
      <4>1. PICK l \in Running \cup Ended : l \notin {"load", "store"} /\ pc' = [pc EXCEPT ![r] = l]
        BY <1>4, <2>4, <3>3 DEF RequestStep, RequestFault, LoginReuse, LoginGenerate, VerifyHit,
             VerifyCheck, HSet, HDel, PublishDelete, ClearAll, LoadFails, WriteFails,
             PublishFails, Answer, Goto, Running, Ended
      <4>2. ~Loading(r)' BY <4>1 DEF IInv, TypeOK, Loading
      <4>. QED BY <4>2
    <3>. QED BY <3>1, <3>2, <3>3
  <2>. QED BY <2>3, <2>4
<1>5. ASSUME NEW s \in Reqs, VerifyStore(s) PROVE (cache[Node(r)][Key(r)] = Miss)'
  <2>1. Loading(r) /\ Loading(s) /\ r # s
    BY <1>5 DEF VerifyStore, Goto, At, Loading, IInv, TypeOK
  <2>2. Node(r) # Node(s) \/ Key(r) # Key(s)
    BY <2>1 DEF IInv, LockHeldByLoader
  <2>3. Node(s) \in Nodes /\ Key(s) \in Keys
    BY DEF IInv, TypeOK, Node, Key, Request
  <2>4. cache'[Node(r)][Key(r)] = cache[Node(r)][Key(r)] /\ UNCHANGED req
    BY <1>1, <1>5, <2>2, <2>3 DEF VerifyStore, CacheStore, IInv, TypeOK, BusTypeOK
  <2>. QED BY <1>2, <2>1, <2>4
<1>6. ASSUME NEW n \in Nodes, HandlerStep(n) \/ MessageLost(n) \/ TimerStep(n) \/ EntryEvicted(n)
      PROVE  (cache[Node(r)][Key(r)] = Miss)'
  <2>1. UNCHANGED <<pc, req>> /\ cache'[Node(r)][Key(r)] \in {cache[Node(r)][Key(r)], Miss}
    BY <1>1, <1>6, NodeFrame DEF IInv
  <2>. QED BY <1>2, <2>1 DEF Loading
<1>7. ASSUME NEW n \in Nodes, NodeCrash(n) PROVE (cache[Node(r)][Key(r)] = Miss)'
  <2>1. Loading(r) BY <1>7 DEF NodeCrash, Loading
  <2>. QED BY <1>3, <1>7, <2>1, ForgetsCrash
<1>8. ASSUME \/ \E n \in Nodes : NodeRestart(n)
             \/ Tick \/ UNCHANGED vars
      PROVE  (cache[Node(r)][Key(r)] = Miss)'
  <2>1. UNCHANGED <<pc, req, cache>>
    BY <1>8 DEF NodeRestart, Restart, Tick, vars, cacheVars, reqVars
  <2>. QED BY <1>2, <2>1 DEF Loading
<1>. QED BY <1>4, <1>5, <1>6, <1>7, <1>8 DEF Next, NodeFault

LEMMA StepIInv == IInv /\ [Next]_vars => IInv'
BY StepTypeOK, StepLock, StepMessages, StepDown, StepCoherent, StepLoadingMiss DEF IInv

LEMMA Inductive == Spec => []IInv
BY InitIInv, StepIInv, PTL DEF Spec

(* A node's cached token is the one in Redis, or its invalidation is on    *)
(* the way, or a fault (lost message, failed command, crash) kept it away; *)
(* for any number of nodes, accounts and requests, with and without a      *)
(* store that survives restarts (write2redis, removeTokenData, GetOrStore, *)
(* RedisSubDelCache).                                                      *)
THEOREM Coherence == Spec => []CacheCoherent
BY Inductive, PTL DEF IInv

(* The same of the values loaders are about to store.                      *)
THEOREM LoadsCoherent == Spec => []LoadCoherent
BY Inductive, PTL DEF IInv

(* The mutex of a key is held exactly while a request loads that key: no   *)
(* way out of GetOrStore, and no crash, leaks it.                          *)
THEOREM LockDiscipline == Spec => []LockHeldByLoader
BY Inductive, PTL DEF IInv

(* At most one goroutine of a node loads a key at a time (Atomic).         *)
THEOREM OneLoader == Spec => []SingleFlight
<1>1. IInv => SingleFlight
  BY DEF IInv, LockHeldByLoader, SingleFlight
<1>. QED BY <1>1, Inductive, PTL

-------------------------------------------------------------------------------
(* The nodes' caches implement CoherentStore.                              *)

LEMMA RefineInit == Init => Abstract!StoreInit
<1> SUFFICES ASSUME Init PROVE Abstract!StoreInit
  OBVIOUS
<1>1. redis \in [Keys -> Entry \cup {Null}] BY InitTypeOK DEF TypeOK
<1>2. cache = [n \in Nodes |-> [k \in Keys |-> Miss]] BY DEF Init, BusInit
<1>3. OwedPairs = {}
  BY DEF Init, BusInit, OwedPairs, Owed, Unpublished, Publishing, Announced
<1>. QED BY <1>1, <1>2, <1>3 DEF Abstract!StoreInit

(* Only a write of the hash, or a message lost with what it announced,     *)
(* makes a node owed something; the latter was owed before.                *)
LEMMA OwedOnlyByWrite ==
  ASSUME IInv, [Next]_vars,
         ~\E r \in Reqs : HSet(r) \/ HDel(r) \/ WriteFails(r)
  PROVE  \A n \in Nodes, k \in Keys : Owed(n, k)' => Owed(n, k)
<1> USE DEF Goto, At, cacheVars, busVars, reqVars
<1>1. ASSUME UNCHANGED <<req, channel, handler, missed>>,
             \A r \in Reqs : Publishing(r)' => Publishing(r)
      PROVE  \A n \in Nodes, k \in Keys : Owed(n, k)' => Owed(n, k)
  BY <1>1 DEF Owed, Unpublished, Announced, Key
<1>2. ASSUME NEW r \in Reqs,
             \/ LoginReuse(r) \/ LoginGenerate(r) \/ VerifyHit(r) \/ VerifyMiss(r)
             \/ VerifyLoad(r) \/ VerifyStore(r) \/ VerifyCheck(r) \/ LoadFails(r)
      PROVE  \A n \in Nodes, k \in Keys : Owed(n, k)' => Owed(n, k)
  <2>1. UNCHANGED <<req, channel, handler, missed>>
    BY <1>2 DEF LoginReuse, LoginGenerate, VerifyHit, VerifyMiss, VerifyLoad, VerifyStore,
         VerifyCheck, LoadFails
  <2>2. PICK l \in {"done", "hset", "hdel", "load", "store", "check", "rejected", "accepted",
                    "failed"} : pc' = [pc EXCEPT ![r] = l]
    BY <1>2 DEF LoginReuse, LoginGenerate, VerifyHit, VerifyMiss, VerifyLoad, VerifyStore,
         VerifyCheck, LoadFails
  <2>3. \A q \in Reqs : Publishing(q)' => Publishing(q)
    BY <2>2 DEF Publishing, IInv, TypeOK
  <2>. QED BY <1>1, <2>1, <2>3
<1>3. ASSUME NEW r \in Reqs, PublishDelete(r) \/ PublishFails(r) \/ ClearAll(r)
      PROVE  \A n \in Nodes, k \in Keys : Owed(n, k)' => Owed(n, k)
  <2>1. UNCHANGED <<req, handler>> BY <1>3 DEF PublishDelete, PublishFails, ClearAll, Publish, PublishLost
  <2>2. PICK l \in Ended : pc' = [pc EXCEPT ![r] = l]
    BY <1>3 DEF PublishDelete, PublishFails, ClearAll, Answer, Ended
  <2>3. \A k \in Keys : Unpublished(k)' => Unpublished(k)
    BY <2>1, <2>2 DEF Unpublished, Publishing, Key, Ended, IInv, TypeOK
  <2>4. ASSUME PublishLost({Key(r)}), Publishing(r)
        PROVE  \A n \in Nodes, k \in Keys : Owed(n, k)' => Owed(n, k)
    <3>1. /\ UNCHANGED channel
          /\ \A n \in Nodes, k \in Keys : <<n, k>> \in missed' => <<n, k>> \in missed \/ k = Key(r)
      BY <2>4 DEF PublishLost
    <3>2. \A k \in Keys : k = Key(r) => Unpublished(k) BY <2>4 DEF Unpublished
    <3>3. \A n \in Nodes, k \in Keys : Announced(n, k)' => Announced(n, k)
      BY <2>1, <3>1 DEF Announced
    <3>. QED BY <2>3, <3>1, <3>2, <3>3 DEF Owed
  <2>5. ASSUME NEW m \in Message, Publish(m), \A k \in m.keys : Publishing(r) /\ k = Key(r)
        PROVE  \A n \in Nodes, k \in Keys : Owed(n, k)' => Owed(n, k)
    <3>1. \A n \in Nodes, k \in Keys : <<n, k>> \in missed' => <<n, k>> \in missed \/ k \in m.keys
      BY <2>5 DEF Publish
    <3>2. ASSUME NEW n \in Nodes, NEW k \in Keys, Announced(n, k)'
          PROVE  Announced(n, k) \/ k \in m.keys
      <4>1. channel[n] \in Seq(Message) BY DEF IInv, TypeOK, BusTypeOK
      <4>2. channel'[n] = IF up[n] THEN Append(channel[n], m) ELSE channel[n]
        BY <2>5 DEF Publish
      <4>3. \A i \in DOMAIN channel'[n] :
              channel'[n][i] = m \/ (i \in DOMAIN channel[n] /\ channel'[n][i] = channel[n][i])
        BY <4>1, <4>2
      <4>. QED BY <2>1, <3>2, <4>3 DEF Announced
    <3>3. \A k \in m.keys : Unpublished(k) BY <2>5 DEF Unpublished
    <3>. QED BY <2>3, <3>1, <3>2, <3>3 DEF Owed
  <2>6. Key(r) \in Keys BY DEF IInv, TypeOK, Key, Request
  <2>7. CASE Publish(DelCacheMessage(r, {Key(r)})) /\ Publishing(r)
    BY <2>5, <2>6, <2>7, MessageTypes DEF DelCacheMessage
  <2>8. CASE ClearAll(r)
    BY <2>5, <2>8, MessageTypes DEF ClearAll, DelAllMessage
  <2>. QED BY <1>3, <2>4, <2>7, <2>8 DEF PublishDelete, PublishFails
<1>4. ASSUME NEW n \in Nodes, HandlerStep(n)
      PROVE  \A m \in Nodes, k \in Keys : Owed(m, k)' => Owed(m, k)
  <2>1. /\ UNCHANGED <<pc, req>>
        /\ \A m \in Nodes : m # n => UNCHANGED <<channel[m], handler[m]>>
    BY <1>4, NodeFrame DEF IInv
  <2>2. UNCHANGED missed
    BY <1>4 DEF HandlerStep, Receive, HandlerDelete, HandlerLockedDelete, HandlerArm
  <2>3. \A k \in Keys : Unpublished(k)' => Unpublished(k)
    BY <2>1 DEF Unpublished, Publishing, Key
  <2>4. ASSUME NEW k \in Keys, Announced(n, k)' PROVE Announced(n, k)
    <3>1. /\ channel \in [Nodes -> Seq(Message)] /\ handler \in [Nodes -> Job \cup {None}]
          /\ channel[n] \in Seq(Message)
      BY DEF IInv, TypeOK, BusTypeOK
    <3>2. CASE Receive(n)
      <4> DEFINE m == Head(channel[n])
      <4>1. channel[n] # <<>> /\ channel'[n] = Tail(channel[n]) /\ handler[n] = None
        BY <3>1, <3>2 DEF Receive
      <4>2. \A j \in DOMAIN Tail(channel[n]) :
              \E i \in DOMAIN channel[n] : Tail(channel[n])[j] = channel[n][i]
        BY <3>1, <4>1, TailElements
      <4>3. 1 \in DOMAIN channel[n] /\ channel[n][1] = m BY <3>1, <4>1
      <4>4. handler'[n] # None => handler'[n].todo = m.keys
        BY <3>1, <3>2, <4>1 DEF Receive
      <4>. QED BY <2>4, <4>1, <4>2, <4>3, <4>4 DEF Announced
    <3>3. CASE HandlerDelete(n)
      <4>1. PICK c \in handler[n].todo : handler' = [handler EXCEPT ![n] = BeginKey(handler[n], c)]
        BY <3>3 DEF HandlerDelete
      <4>2. handler[n] \in Job /\ handler[n] # None /\ UNCHANGED channel
        BY <3>1, <3>3 DEF HandlerDelete
      <4>3. handler'[n].todo = handler[n].todo BY <3>1, <4>1, <4>2 DEF BeginKey, Job
      <4>. QED BY <2>4, <4>2, <4>3 DEF Announced
    <3>4. CASE HandlerLockedDelete(n)
      <4>1. handler' = [handler EXCEPT ![n] = EndKey(handler[n])]
        BY <3>4 DEF HandlerLockedDelete
      <4>2. handler[n] \in Job /\ handler[n] # None /\ UNCHANGED channel
        BY <3>1, <3>4 DEF HandlerLockedDelete
      <4>3. handler'[n].todo \subseteq handler[n].todo BY <3>1, <4>1, <4>2 DEF EndKey, Job
      <4>. QED BY <2>4, <4>2, <4>3 DEF Announced
    <3>5. CASE HandlerArm(n)
      <4>1. handler'[n] = None /\ UNCHANGED channel BY <3>1, <3>5 DEF HandlerArm
      <4>. QED BY <2>4, <4>1 DEF Announced
    <3>. QED BY <1>4, <3>2, <3>3, <3>4, <3>5 DEF HandlerStep
  <2>5. ASSUME NEW m \in Nodes, NEW k \in Keys, Announced(m, k)' PROVE Announced(m, k)
    BY <2>1, <2>4, <2>5 DEF Announced
  <2>. QED BY <2>2, <2>3, <2>5 DEF Owed
<1>5. ASSUME NEW n \in Nodes, MessageLost(n)
      PROVE  \A m \in Nodes, k \in Keys : Owed(m, k)' => Owed(m, k)
  <2>1. /\ channel \in [Nodes -> Seq(Message)] /\ channel[n] \in Seq(Message) /\ channel[n] # <<>>
        /\ channel' = [channel EXCEPT ![n] = Tail(@)] /\ UNCHANGED <<handler, pc, req>>
        /\ missed' = missed \cup ({n} \X Head(channel[n]).keys)
    BY <1>5 DEF MessageLost, LoseMessage, IInv, TypeOK, BusTypeOK
  <2>2. \A j \in DOMAIN Tail(channel[n]) :
          \E i \in DOMAIN channel[n] : Tail(channel[n])[j] = channel[n][i]
    BY <2>1, TailElements
  <2>3. 1 \in DOMAIN channel[n] /\ channel[n][1] = Head(channel[n]) BY <2>1
  <2>4. ASSUME NEW m \in Nodes, NEW k \in Keys, Announced(m, k)' PROVE Announced(m, k)
    <3>1. CASE m # n BY <2>1, <2>4, <3>1 DEF Announced
    <3>2. CASE m = n
      <4>1. channel'[n] = Tail(channel[n]) BY <2>1
      <4>. QED BY <2>1, <2>2, <2>4, <3>2, <4>1 DEF Announced
    <3>. QED BY <3>1, <3>2
  <2>5. ASSUME NEW m \in Nodes, NEW k \in Keys, <<m, k>> \in missed'
        PROVE  <<m, k>> \in missed \/ Announced(m, k)
    BY <2>1, <2>3, <2>5 DEF Announced
  <2>6. \A k \in Keys : Unpublished(k)' => Unpublished(k)
    BY <2>1 DEF Unpublished, Publishing, Key
  <2>. QED BY <2>4, <2>5, <2>6 DEF Owed
<1>6. ASSUME NEW n \in Nodes, NodeCrash(n)
      PROVE  \A m \in Nodes, k \in Keys : Owed(m, k)' => Owed(m, k)
  <2>1. \A r \in Reqs : Publishing(r)' => Publishing(r)
    BY <1>6 DEF NodeCrash, Publishing
  <2>2. \A k \in Keys : Unpublished(k)' => Unpublished(k)
    BY <1>6, <2>1 DEF NodeCrash, Unpublished, Key
  <2>3. channel'[n] = <<>> /\ handler'[n] = None
    BY <1>6 DEF NodeCrash, Crash, IInv, TypeOK, BusTypeOK
  <2>4. \A m \in Nodes : m # n => UNCHANGED <<channel[m], handler[m]>>
    BY <1>6 DEF NodeCrash, Crash, IInv, TypeOK, BusTypeOK
  <2>5. \A m \in Nodes, k \in Keys : Announced(m, k)' => Announced(m, k)
    BY <2>3, <2>4 DEF Announced
  <2>6. ASSUME NEW m \in Nodes, NEW k \in Keys, <<m, k>> \in missed'
        PROVE  <<m, k>> \in missed \/ Unpublished(k) \/ Announced(m, k)
    BY <1>6, <2>6 DEF NodeCrash, Crash, Unpublished
  <2>. QED BY <2>2, <2>5, <2>6 DEF Owed
<1>7. ASSUME \/ \E n \in Nodes : TimerStep(n) \/ EntryEvicted(n) \/ NodeRestart(n)
             \/ Tick \/ UNCHANGED vars
      PROVE  \A n \in Nodes, k \in Keys : Owed(n, k)' => Owed(n, k)
  <2>1. UNCHANGED <<pc, req, channel, handler, missed>>
    BY <1>7 DEF TimerStep, TimerDelete, TimerLockedDelete, EntryEvicted, Evict, NodeRestart,
         Restart, Tick, vars
  <2>. QED BY <1>1, <2>1 DEF Publishing
<1>. QED BY <1>2, <1>3, <1>4, <1>5, <1>6, <1>7
         DEF Next, RequestStep, RequestFault, NodeFault

(* A step that only deletes entries, and only settles what it has deleted, *)
(* is a Forget.                                                            *)
LEMMA RefineForget ==
  ASSUME TypeOK, TypeOK', UNCHANGED redis,
         \A n \in Nodes, k \in Keys :
           /\ cache'[n][k] \in {cache[n][k], Miss}
           /\ Owed(n, k) => Owed(n, k)' \/ cache'[n][k] = Miss
           /\ Owed(n, k)' => Owed(n, k)
  PROVE  Abstract!StoreNext
<1> DEFINE D == {p \in Nodes \X Keys : cache'[p[1]][p[2]] = Miss}
<1>1. cache' = [n \in Nodes |-> [k \in Keys |-> IF <<n, k>> \in D THEN Miss ELSE cache[n][k]]]
  <2>1. cache' \in [Nodes -> [Keys -> (Entry \cup {Null}) \cup {Miss}]]
    BY DEF TypeOK, BusTypeOK
  <2>2. \A n \in Nodes, k \in Keys :
          cache'[n][k] = IF <<n, k>> \in D THEN Miss ELSE cache[n][k]
    OBVIOUS
  <2>. HIDE DEF D
  <2>. QED BY <2>1, <2>2
<1>2. OwedPairs' \subseteq OwedPairs BY DEF OwedPairs
<1>3. \A n \in Nodes, k \in Keys : <<n, k>> \in OwedPairs \ OwedPairs' => cache'[n][k] = Miss
  BY DEF OwedPairs
<1>4. D \in SUBSET (Nodes \X Keys) OBVIOUS
<1>5. Abstract!Forget(D)
  <2>. HIDE DEF D
  <2>. QED BY <1>1, <1>2, <1>3 DEF Abstract!Forget
<1>. QED BY <1>4, <1>5 DEF Abstract!StoreNext

(* A write of the hash is a Write: every node is owed the account.         *)
LEMMA RefineWrite ==
  ASSUME IInv, NEW r \in Reqs, HSet(r) \/ HDel(r) \/ WriteFails(r), ~UNCHANGED <<redis, busVars>>
         \/ HSet(r) \/ HDel(r)
  PROVE  Abstract!StoreNext
<1> USE DEF Goto, At, cacheVars, busVars
<1>1. UNCHANGED <<req, cache, channel, handler>>
  BY DEF HSet, HDel, WriteFails, PublishLost
<1>2. pc[r] \in {"hset", "hdel", "new"} BY DEF HSet, HDel, WriteFails, Starts
<1>3. Key(r) \in Keys BY DEF IInv, TypeOK, Key, Request
<1>4. PICK v \in Entry \cup {Null} : redis' = [redis EXCEPT ![Key(r)] = v]
  BY DEF HSet, HDel, WriteFails, IInv, TypeOK
<1>5. \A n \in Nodes, k \in Keys : Announced(n, k)' <=> Announced(n, k)
  BY <1>1 DEF Announced
<1>6. \A n \in Nodes, k \in Keys : Owed(n, k)' <=> Owed(n, k) \/ k = Key(r)
  <2>1. CASE HSet(r) \/ HDel(r)
    <3>1. UNCHANGED missed BY <2>1 DEF HSet, HDel
    <3>2. \A s \in Reqs : Publishing(s)' <=> Publishing(s) \/ s = r
      BY <2>1 DEF HSet, HDel, Publishing, IInv, TypeOK
    <3>3. \A k \in Keys : Unpublished(k)' <=> Unpublished(k) \/ k = Key(r)
      BY <1>1, <3>2 DEF Unpublished, Key
    <3>. QED BY <1>5, <3>1, <3>3 DEF Owed
  <2>2. CASE PublishLost({Key(r)}) /\ pc' = [pc EXCEPT ![r] = "failed"]
    <3>1. \A n \in Nodes, k \in Keys : <<n, k>> \in missed' <=> <<n, k>> \in missed \/ k = Key(r)
      BY <2>2 DEF PublishLost
    <3>2. \A s \in Reqs : Publishing(s)' <=> Publishing(s)
      BY <1>2, <2>2 DEF Publishing, IInv, TypeOK
    <3>3. \A k \in Keys : Unpublished(k)' <=> Unpublished(k)
      BY <1>1, <3>2 DEF Unpublished, Key
    <3>. QED BY <1>5, <3>1, <3>3 DEF Owed
  <2>. QED BY <2>1, <2>2 DEF WriteFails
<1>7. OwedPairs' = OwedPairs \cup (Nodes \X {Key(r)})
  BY <1>3, <1>6 DEF OwedPairs
<1>8. Abstract!Write(Key(r), v)
  BY <1>1, <1>4, <1>7 DEF Abstract!Write
<1>. QED BY <1>3, <1>8 DEF Abstract!StoreNext

(* A loader stores what it read: the hash's value, or one that the node is *)
(* about to be told to forget.                                             *)
LEMMA RefineFill ==
  ASSUME IInv, NEW r \in Reqs, VerifyStore(r)
  PROVE  Abstract!StoreNext
<1> USE DEF Goto, At, cacheVars, busVars
<1>1. Node(r) \in Nodes /\ Key(r) \in Keys
  BY DEF IInv, TypeOK, Node, Key, Request
<1>2. UNCHANGED <<redis, req, channel, handler, missed>> BY DEF VerifyStore
<1>3. \A s \in Reqs : Publishing(s)' <=> Publishing(s)
  BY DEF VerifyStore, Publishing, IInv, TypeOK
<1>4. \A n \in Nodes, k \in Keys : Owed(n, k)' <=> Owed(n, k)
  BY <1>2, <1>3 DEF Owed, Unpublished, Announced, Key
<1>5. UNCHANGED OwedPairs BY <1>4 DEF OwedPairs
<1>6. data[r] \in Entry \cup {Null} BY DEF IInv, TypeOK
<1>7. cache[Node(r)][Key(r)] = Miss BY DEF VerifyStore, IInv, LoadingMiss, Loading
<1>8. data[r] = redis[Key(r)] \/ <<Node(r), Key(r)>> \in OwedPairs
  BY <1>1 DEF VerifyStore, IInv, LoadCoherent, OwedPairs
<1>9. cache' = [cache EXCEPT ![Node(r)][Key(r)] = data[r]]
  BY DEF VerifyStore, CacheStore
<1>10. Abstract!Fill(Node(r), Key(r), data[r])
  BY <1>2, <1>5, <1>7, <1>8, <1>9 DEF Abstract!Fill
<1>. QED BY <1>1, <1>6, <1>10 DEF Abstract!StoreNext

LEMMA RefineStep == IInv /\ [Next]_vars => [Abstract!StoreNext]_(Abstract!storeVars)
<1> SUFFICES ASSUME IInv, [Next]_vars PROVE [Abstract!StoreNext]_(Abstract!storeVars)
  OBVIOUS
<1>1. TypeOK /\ TypeOK' BY StepTypeOK DEF IInv
<1>2. ASSUME NEW r \in Reqs, HSet(r) \/ HDel(r) \/ WriteFails(r)
      PROVE  Abstract!StoreNext
  <2>1. CASE ~UNCHANGED <<redis, busVars>> \/ HSet(r) \/ HDel(r)
    BY <1>2, <2>1, RefineWrite
  <2>2. CASE WriteFails(r) /\ UNCHANGED <<redis, busVars>>
    <3>1. UNCHANGED <<req, cache, channel, handler, missed, redis>>
      BY <2>2 DEF WriteFails, cacheVars, busVars
    <3>2. \A s \in Reqs : Publishing(s)' <=> Publishing(s)
      BY <2>2 DEF WriteFails, Publishing, At, Starts, Goto, IInv, TypeOK
    <3>3. \A n \in Nodes, k \in Keys : Owed(n, k)' <=> Owed(n, k)
      BY <3>1, <3>2 DEF Owed, Unpublished, Announced, Key
    <3>. QED BY <1>1, <3>1, <3>3, RefineForget
  <2>. QED BY <1>2, <2>1, <2>2
<1>3. CASE ~\E r \in Reqs : HSet(r) \/ HDel(r) \/ WriteFails(r)
  <2>1. \A n \in Nodes, k \in Keys : Owed(n, k)' => Owed(n, k)
    BY <1>3, OwedOnlyByWrite
  <2>2. ASSUME OnlyForgets PROVE Abstract!StoreNext
    BY <1>1, <2>1, <2>2, RefineForget DEF OnlyForgets
  <2>3. ASSUME NEW r \in Reqs, VerifyStore(r) PROVE Abstract!StoreNext
    BY <2>3, RefineFill
  <2>4. ASSUME NEW r \in Reqs, VerifyLoad(r) PROVE Abstract!StoreNext
    <3>1. UNCHANGED <<req, cache, channel, handler, missed, redis>>
      BY <2>4 DEF VerifyLoad, cacheVars, busVars
    <3>2. \A s \in Reqs : Publishing(s) => Publishing(s)'
      BY <2>4 DEF VerifyLoad, Publishing, At, Goto, IInv, TypeOK
    <3>3. \A n \in Nodes, k \in Keys : Owed(n, k) => Owed(n, k)'
      BY <1>1, <3>1, <3>2, OwedKept
    <3>. QED BY <1>1, <2>1, <3>1, <3>3, RefineForget
  <2>. QED
    BY <1>3, <2>2, <2>3, <2>4, ForgetsQuiet, ForgetsPublish, ForgetsHandler, ForgetsLost,
       ForgetsCrash, ForgetsOther
    DEF Next, RequestStep, RequestFault, NodeFault
<1>. QED BY <1>2, <1>3

(* Every behaviour of the nodes, whatever messages are lost and whichever  *)
(* nodes crash, is one of the coherent store: a wrong entry is owed an     *)
(* invalidation and is only ever forgotten, never replaced by another      *)
(* wrong one that is owed nothing (all of token.go over cacheMem).         *)
THEOREM Refinement == Spec => ImplementsStore
BY Inductive, RefineInit, RefineStep, PTL DEF Spec, ImplementsStore, Abstract!StoreSpec

(* The store that the nodes implement: whatever steps it takes, a node     *)
(* that is owed nothing sees what everyone should see, or nothing.  With   *)
(* Refinement this is the promise of the caches, without any of token.go.  *)
THEOREM StoreIsCoherent == Abstract!StoreSpec => []Abstract!Coherent
<1> DEFINE Inv == Abstract!StoreTypeOK /\ Abstract!Coherent
<1>1. Abstract!StoreInit => Inv
  BY DEF Abstract!StoreInit, Abstract!StoreTypeOK, Abstract!Coherent
<1>2. Inv /\ [Abstract!StoreNext]_(Abstract!storeVars) => Inv'
  <2> SUFFICES ASSUME Inv, [Abstract!StoreNext]_(Abstract!storeVars) PROVE Inv'
    OBVIOUS
  <2> USE DEF Abstract!StoreTypeOK, Abstract!Coherent
  <2>1. ASSUME NEW k \in Keys, NEW v \in Entry \cup {Null}, Abstract!Write(k, v) PROVE Inv'
    BY <2>1 DEF Abstract!Write
  <2>2. ASSUME NEW n \in Nodes, NEW k \in Keys, NEW v \in Entry \cup {Null}, Abstract!Fill(n, k, v)
        PROVE  Inv'
    BY <2>2 DEF Abstract!Fill
  <2>3. ASSUME NEW D \in SUBSET (Nodes \X Keys), Abstract!Forget(D) PROVE Inv'
    BY <2>3 DEF Abstract!Forget
  <2>4. CASE UNCHANGED Abstract!storeVars
    BY <2>4 DEF Abstract!storeVars
  <2> QED
    BY <2>1, <2>2, <2>3, <2>4 DEF Abstract!StoreNext
<1>3. Inv => Abstract!Coherent
  OBVIOUS
<1> QED
  BY <1>1, <1>2, <1>3, PTL DEF Abstract!StoreSpec
===============================================================================
