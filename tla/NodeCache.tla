------------------------------ MODULE NodeCache ------------------------------
(***************************************************************************)
(* The cache of single values that every node (one process of the program) *)
(* keeps next to a shared store, and the Redis channel over which nodes    *)
(* tell each other what to forget: g2db/cache.go (cacheMem), g2db/atomic.go*)
(* (one mutex per key) and the publish/subscribe half of g2db/redis.go.    *)
(*                                                                         *)
(* The module has no next-state relation of its own: a key is read, stored *)
(* and invalidated by the callers of cacheMem, and TokenAuth and RowCache  *)
(* extend this module with theirs.  The goroutines that belong to the      *)
(* cache itself (subscriber, delayed second deletion, loss of messages,    *)
(* crash and restart of a node) are complete actions here.                 *)
(***************************************************************************)
EXTENDS Naturals, Sequences, FiniteSets

CONSTANTS Nodes,      \* processes of the program that share one Redis
          Keys,       \* cache keys
          Procs,      \* goroutines that load values and publish invalidations
          Miss,       \* the store's answer ErrNotFound
          None,       \* no holder, no message being handled, no key
          Volatile    \* the store dies with the process (go-cache, bigcache);
                      \* FALSE for the default store, ledis, which is on disk

VARIABLES cache,      \* cache[n][k]: the entry of node n for key k, or Miss
          lock,       \* lock[n][k]: who holds the mutex of k on n, or None
          up,         \* up[n]: node n runs and is subscribed
          channel,    \* channel[n]: published messages n has not received yet
          handler,    \* handler[n]: the message subAction is handling, or None
          timers,     \* timers[n]: second deletions armed with time.AfterFunc
          missed      \* history: <<n, k>> when a fault kept the invalidation
                      \* of k from n

busVars == <<up, channel, handler, timers, missed>>
cacheVars == <<cache, lock>>

(* A message names what to delete: some keys, or everything (DelMemAll). A *)
(* publisher publishes one message at most, so "from" tells them apart.    *)
Message == [all : BOOLEAN, from : Procs, keys : SUBSET Keys]

(* A run of _fnDel over the keys of a message: those left to delete, and   *)
(* the one whose first, unlocked deletion is done and whose second is not. *)
Job == [from : Procs, keys : SUBSET Keys, todo : SUBSET Keys,
        cur : Keys \cup {None}]

ASSUME BusAssumption ==
  /\ None \notin Keys /\ None \notin Procs /\ None \notin Job
  /\ Volatile \in BOOLEAN

BusTypeOK(Values) ==
  /\ cache \in [Nodes -> [Keys -> Values \cup {Miss}]]
  /\ lock \in [Nodes -> [Keys -> Procs \cup {None}]]
  /\ up \in [Nodes -> BOOLEAN]
  /\ channel \in [Nodes -> Seq(Message)]
  /\ handler \in [Nodes -> Job \cup {None}]
  /\ timers \in [Nodes -> SUBSET Job]
  /\ missed \in SUBSET (Nodes \X Keys)

BusInit ==
  /\ cache = [n \in Nodes |-> [k \in Keys |-> Miss]]
  /\ lock = [n \in Nodes |-> [k \in Keys |-> None]]
  /\ up = [n \in Nodes |-> TRUE]
  /\ channel = [n \in Nodes |-> <<>>]
  /\ handler = [n \in Nodes |-> None]
  /\ timers = [n \in Nodes |-> {}]
  /\ missed = {}

-----------------------------------------------------------------------------
(* cacheMem: GetOrStore and Atomic.                                        *)

(* Node n's entries without those of the keys D.                           *)
Dropped(n, D) ==
  [cache EXCEPT ![n] = [k \in Keys |-> IF k \in D THEN Miss ELSE @[k]]]

LockFree(n, k) == lock[n][k] = None

(* GetOrStore finds an entry: it is returned and the mutex released; no    *)
(* other goroutine can tell this from one step.                            *)
CacheHit(n, k) ==
  /\ LockFree(n, k)
  /\ cache[n][k] # Miss
  /\ UNCHANGED cacheVars

(* Mutant: the entry is looked up without taking the mutex first.          *)
CacheMiss_Unlocked(p, n, k) ==
  /\ cache[n][k] = Miss
  /\ lock' = [lock EXCEPT ![n][k] = p]
  /\ UNCHANGED cache

(* GetOrStore finds none: p holds the mutex of the key while it loads.     *)
CacheMiss(p, n, k) ==
  /\ LockFree(n, k)
  /\ cache[n][k] = Miss
  /\ lock' = [lock EXCEPT ![n][k] = p]
  /\ UNCHANGED cache

(* Mutant: mu.Unlock() is forgotten after a load.                          *)
CacheStore_KeepsLock(n, k, v) ==
  /\ cache' = [cache EXCEPT ![n][k] = v]
  /\ UNCHANGED lock

(* The loader returned v: Set it, release the mutex.                       *)
CacheStore(n, k, v) ==
  /\ cache' = [cache EXCEPT ![n][k] = v]
  /\ lock' = [lock EXCEPT ![n][k] = None]

(* Mutant: the mutex is not released when the loader fails.                *)
CacheGiveUp_KeepsLock(n, k) == UNCHANGED <<lock, cache>>

(* The loader (or Set) failed: nothing is stored, the mutex is released.   *)
CacheGiveUp(n, k) ==
  /\ lock' = [lock EXCEPT ![n][k] = None]
  /\ UNCHANGED cache

-----------------------------------------------------------------------------
(* redisObj: Pub and the subscriber goroutine.                             *)

(* PUBLISH reaches every node that is subscribed now, in the same order.   *)
(* A node that is down never gets it: if its store outlives the process it *)
(* comes back with what it had.                                            *)
Publish(m) ==
  /\ channel' = [n \in Nodes |-> IF up[n] THEN Append(channel[n], m)
                                          ELSE channel[n]]
  /\ missed' = IF Volatile THEN missed
               ELSE missed \cup ({n \in Nodes : ~up[n]} \X m.keys)
  /\ UNCHANGED <<up, handler, timers>>

DelCacheMessage(p, K) == [all |-> FALSE, from |-> p, keys |-> K]
DelAllMessage(p) == [all |-> TRUE, from |-> p, keys |-> {}]

(* PUBLISH failed, or was never reached, after the store had changed.      *)
PublishLost(K) ==
  /\ missed' = missed \cup (Nodes \X K)
  /\ UNCHANGED <<up, channel, handler, timers>>

(* subAction takes the next message.  DelMemAll resets the store at once,  *)
(* without any lock and without a second round.                            *)
Receive(n) ==
  /\ up[n] /\ handler[n] = None /\ channel[n] # <<>>
  /\ channel' = [channel EXCEPT ![n] = Tail(@)]
  /\ LET m == Head(channel[n]) IN
       IF m.all
       THEN /\ cache' = Dropped(n, Keys)
            /\ UNCHANGED handler
       ELSE /\ handler' = [handler EXCEPT ![n] =
                 [from |-> m.from, keys |-> m.keys, todo |-> m.keys, cur |-> None]]
            /\ UNCHANGED cache
  /\ UNCHANGED <<lock, up, timers, missed>>

(* Mutant: _fnDel deletes a key once, without the mutex.                   *)
BeginKey_Only(j, k) == [j EXCEPT !.todo = @ \ {k}]

(* _fnDel, per key: c.Cache.Delete(key) without the mutex ...              *)
BeginKey(j, k) == [j EXCEPT !.cur = k]
(* ... then c.Delete(key) under it.                                        *)
EndKey(j) == [j EXCEPT !.cur = None, !.todo = @ \ {j.cur}]

HandlerDelete(n) ==
  /\ handler[n] # None /\ handler[n].cur = None
  /\ \E k \in handler[n].todo :
       /\ cache' = Dropped(n, {k})
       /\ handler' = [handler EXCEPT ![n] = BeginKey(@, k)]
  /\ UNCHANGED <<lock, up, channel, timers, missed>>

(* Mutant: the second deletion does not take the mutex either.             *)
HandlerLockedDelete_Unlocked(n) ==
  /\ handler[n] # None /\ handler[n].cur # None
  /\ cache' = Dropped(n, {handler[n].cur})
  /\ handler' = [handler EXCEPT ![n] = EndKey(@)]
  /\ UNCHANGED <<lock, up, channel, timers, missed>>

HandlerLockedDelete(n) ==
  /\ handler[n] # None /\ handler[n].cur # None
  /\ LockFree(n, handler[n].cur)
  /\ cache' = Dropped(n, {handler[n].cur})
  /\ handler' = [handler EXCEPT ![n] = EndKey(@)]
  /\ UNCHANGED <<lock, up, channel, timers, missed>>

(* Mutant: there is no second deletion.                                    *)
HandlerArm_Never(n) ==
  /\ handler[n] # None /\ handler[n].cur = None /\ handler[n].todo = {}
  /\ handler' = [handler EXCEPT ![n] = None]
  /\ UNCHANGED <<cache, lock, up, channel, timers, missed>>

(* All keys are deleted: time.AfterFunc arms the same deletion again.      *)
HandlerArm(n) ==
  /\ handler[n] # None /\ handler[n].cur = None /\ handler[n].todo = {}
  /\ timers' = [timers EXCEPT ![n] =
                  @ \cup {[handler[n] EXCEPT !.todo = handler[n].keys]}]
  /\ handler' = [handler EXCEPT ![n] = None]
  /\ UNCHANGED <<cache, lock, up, channel, missed>>

(* The second deletion, in a goroutine of its own: the delay of two        *)
(* seconds is any time.                                                    *)
TimerDelete(n, j) ==
  /\ j \in timers[n] /\ j.cur = None
  /\ \E k \in j.todo :
       /\ cache' = Dropped(n, {k})
       /\ timers' = [timers EXCEPT ![n] = (@ \ {j}) \cup {BeginKey(j, k)}]
  /\ UNCHANGED <<lock, up, channel, handler, missed>>

TimerLockedDelete(n, j) ==
  /\ j \in timers[n] /\ j.cur # None
  /\ LockFree(n, j.cur)
  /\ cache' = Dropped(n, {j.cur})
  /\ timers' = [timers EXCEPT ![n] =
                  (@ \ {j}) \cup {i \in {EndKey(j)} : i.todo # {}}]
  /\ UNCHANGED <<lock, up, channel, handler, missed>>

-----------------------------------------------------------------------------
(* Faults.                                                                 *)

(* Node n will delete k when it gets to it.                                *)
Announced(n, k) ==
  \/ \E i \in DOMAIN channel[n] : k \in channel[n][i].keys
  \/ handler[n] # None /\ k \in handler[n].todo

(* The connection of the subscriber breaks, or its buffer overflows while  *)
(* the handler waits for a mutex: Redis does not send a message twice.     *)
LoseMessage(n) ==
  /\ channel[n] # <<>>
  /\ channel' = [channel EXCEPT ![n] = Tail(@)]
  /\ missed' = missed \cup ({n} \X Head(channel[n]).keys)
  /\ UNCHANGED <<cache, lock, up, handler, timers>>

(* bigcache expires entries, ristretto evicts them.                        *)
Evict(n, k) ==
  /\ cache[n][k] # Miss
  /\ cache' = Dropped(n, {k})
  /\ UNCHANGED <<lock, busVars>>

(* Node n stops at any point; "unsent" are the keys its goroutines had     *)
(* changed in the store without having published it.                       *)
Crash(n, unsent) ==
  /\ up[n]
  /\ up' = [up EXCEPT ![n] = FALSE]
  /\ lock' = [lock EXCEPT ![n] = [k \in Keys |-> None]]
  /\ channel' = [channel EXCEPT ![n] = <<>>]
  /\ handler' = [handler EXCEPT ![n] = None]
  /\ timers' = [timers EXCEPT ![n] = {}]
  /\ cache' = IF Volatile THEN Dropped(n, Keys) ELSE cache
  /\ missed' = missed \cup (Nodes \X unsent)
                      \cup (IF Volatile THEN {}
                            ELSE {n} \X {k \in Keys : Announced(n, k)})

(* Dial subscribes before the node serves anything.                        *)
Restart(n) ==
  /\ ~up[n]
  /\ up' = [up EXCEPT ![n] = TRUE]
  /\ UNCHANGED <<cacheVars, channel, handler, timers, missed>>
=============================================================================
