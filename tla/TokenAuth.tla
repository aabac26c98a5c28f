------------------------------ MODULE TokenAuth ------------------------------
(***************************************************************************)
(* User tokens: g2db/token.go over cacheMem and redisObj (NodeCache).      *)
(*                                                                         *)
(* The token of an account is one field of a Redis hash.  Every node keeps *)
(* a copy in its own cache, filled on demand; each change of the field is  *)
(* followed by a published invalidation, as a separate command.  Requests  *)
(* of clients (login, logout, verification) run concurrently on the nodes, *)
(* one goroutine each, and are preempted between any two of their commands.*)
(*                                                                         *)
(* An account is its cache key (memCacheKey is injective in the id).  The  *)
(* token a login generates is named after the login: generateTd encrypts   *)
(* with a fresh random IV, so no two logins return the same text.          *)
(***************************************************************************)
EXTENDS NodeCache

CONSTANTS Null,        \* cacheNULL: the account has no token
          Multi,       \* accounts for which TokenOption.MultiLogin is true
          Timeout,     \* TokenOption.Timeout
          MaxRefresh,  \* TokenOption.MaxRefresh
          MaxTime,     \* bound of the clock (model checking only)
          Ops,         \* the kinds of request clients send
          Faults       \* which of FaultKinds may happen

FaultKinds == {"redis", "lose", "crash", "evict"}
OpKinds == {"login", "logout", "verify", "clear"}
Reqs == Procs

(* TokenData; its ID is the account under which it is stored.              *)
Times == 0..MaxTime + Timeout
Entry == [tok : Reqs, exp : Times]

ASSUME TokenAssumption ==
  /\ Timeout \in Nat /\ MaxRefresh \in Nat /\ MaxTime \in Nat
  /\ Multi \subseteq Keys /\ Faults \subseteq FaultKinds /\ Ops \subseteq OpKinds
  /\ Miss \notin Entry \cup {Null} /\ Null \notin Entry

VARIABLES redis,   \* redis[k]: the field of account k in the hash, or Null
          now,     \* the clock all nodes read
          pc,      \* pc[r]: the next command of request r, or how it ended
          req,     \* req[r]: what was asked of which node for which account
          tok,     \* tok[r]: the token presented (verify) or returned (login)
          data     \* data[r]: the TokenData request r works on, or Null

reqVars == <<pc, req, tok, data>>
vars == <<cacheVars, busVars, redis, now, reqVars>>

Request == [op : Ops, node : Nodes, key : Keys]

(* A request waits for the hash while it holds the mutex of the account    *)
(* ("load", "store"), writes it ("hset", "hdel") and publishes what it     *)
(* wrote ("pubset", "pubdel").                                             *)
Running == {"load", "store", "check", "hset", "hdel", "pubset", "pubdel"}
Ended == {"done", "accepted", "rejected", "failed", "dead"}

Key(r) == req[r].key
Node(r) == req[r].node
Loading(r) == pc[r] \in {"load", "store"}

TypeOK ==
  /\ BusTypeOK(Entry \cup {Null})
  /\ redis \in [Keys -> Entry \cup {Null}]
  /\ now \in 0..MaxTime
  /\ pc \in [Reqs -> {"new"} \cup Running \cup Ended]
  /\ req \in [Reqs -> Request]
  /\ tok \in [Reqs -> Reqs]
  /\ data \in [Reqs -> Entry \cup {Null}]

Init ==
  /\ BusInit
  /\ redis = [k \in Keys |-> Null]
  /\ now = 0
  /\ pc = [r \in Reqs |-> "new"]
  /\ req \in [Reqs -> Request]
  /\ tok = [r \in Reqs |-> r]
  /\ data = [r \in Reqs |-> Null]

-----------------------------------------------------------------------------
(* Steps of a request.                                                     *)

Goto(r, l) == pc' = [pc EXCEPT ![r] = l]
At(r, l) == pc[r] = l
Starts(r, op) == pc[r] = "new" /\ req[r].op = op /\ up[Node(r)]

(* Mutant: the timeout is added twice.                                     *)
ExpireTime_Twice == now + Timeout + Timeout

(* expireTimeAddr *)
ExpireTime == now + Timeout

(* Tokens the clients of account k have been given.                        *)
Issued(k) == {tok[l] : l \in {r \in Reqs : /\ req[r].op = "login"
                                           /\ Key(r) = k /\ pc[r] = "done"}}

(* AfterLogin, the lookup of an account with several logins: HGET, and a   *)
(* token that is there is handed out again, whatever its expiry.           *)
LoginReuse(r) ==
  /\ Starts(r, "login") /\ Key(r) \in Multi
  /\ redis[Key(r)] # Null
  /\ tok' = [tok EXCEPT ![r] = redis[Key(r)].tok]
  /\ Goto(r, "done")
  /\ UNCHANGED <<cacheVars, busVars, redis, now, req, data>>

(* AfterLogin, generateTd: no lookup for a single-login account; for the   *)
(* others the lookup found nothing or failed.                              *)
LoginGenerate(r) ==
  /\ Starts(r, "login")
  /\ Key(r) \in Multi /\ "redis" \notin Faults => redis[Key(r)] = Null
  /\ data' = [data EXCEPT ![r] = [tok |-> r, exp |-> ExpireTime]]
  /\ Goto(r, "hset")
  /\ UNCHANGED <<cacheVars, busVars, redis, now, req, tok>>

(* Verify, cacheVerify: GetOrStore with a token some client was given.     *)
VerifyHit(r) ==
  /\ Starts(r, "verify")
  /\ \E t \in Issued(Key(r)) : tok' = [tok EXCEPT ![r] = t]
  /\ CacheHit(Node(r), Key(r))
  /\ data' = [data EXCEPT ![r] = cache[Node(r)][Key(r)]]
  /\ Goto(r, "check")
  /\ UNCHANGED <<busVars, redis, now, req>>

VerifyMiss(r) ==
  /\ Starts(r, "verify")
  /\ \E t \in Issued(Key(r)) : tok' = [tok EXCEPT ![r] = t]
  /\ CacheMiss(r, Node(r), Key(r))
  /\ Goto(r, "load")
  /\ UNCHANGED <<busVars, redis, now, req, data>>

(* The loader: HGET, redis.Nil becomes cacheNULL.                          *)
VerifyLoad(r) ==
  /\ At(r, "load")
  /\ data' = [data EXCEPT ![r] = redis[Key(r)]]
  /\ Goto(r, "store")
  /\ UNCHANGED <<cacheVars, busVars, redis, now, req, tok>>

VerifyStore(r) ==
  /\ At(r, "store")
  /\ CacheStore(Node(r), Key(r), data[r])
  /\ Goto(r, "check")
  /\ UNCHANGED <<busVars, redis, now, req, tok, data>>

(* The rest of cacheVerify, on the entry returned and without the mutex.   *)
Expired(e) == now > e.exp
NearExpiry(e) == e.exp < now + MaxRefresh

Matches(r) == data[r] # Null /\ data[r].tok = tok[r]

VerifyCheck(r) ==
  /\ At(r, "check")
  /\ \/ /\ ~Matches(r)
        /\ Goto(r, "rejected")
        /\ UNCHANGED data
     \/ /\ Matches(r) /\ Expired(data[r])
        /\ Goto(r, "hdel")
        /\ UNCHANGED data
     \/ /\ Matches(r) /\ ~Expired(data[r]) /\ NearExpiry(data[r])
        /\ data' = [data EXCEPT ![r].exp = ExpireTime]
        /\ Goto(r, "hset")
     \/ /\ Matches(r) /\ ~Expired(data[r]) /\ ~NearExpiry(data[r])
        /\ Goto(r, "accepted")
        /\ UNCHANGED data
  /\ UNCHANGED <<cacheVars, busVars, redis, now, req, tok>>

(* TokenData.write2redis: HSET of the whole TokenData ...                  *)
HSet(r) ==
  /\ At(r, "hset")
  /\ redis' = [redis EXCEPT ![Key(r)] = data[r]]
  /\ Goto(r, "pubset")
  /\ UNCHANGED <<cacheVars, busVars, now, req, tok, data>>

(* Mutant: removeTokenData does not publish.                               *)
HDel_Silent(r) ==
  /\ At(r, "hdel") \/ Starts(r, "logout")
  /\ redis' = [redis EXCEPT ![Key(r)] = Null]
  /\ Goto(r, IF req[r].op = "verify" THEN "rejected" ELSE "done")
  /\ UNCHANGED <<cacheVars, busVars, now, req, tok, data>>

(* removeTokenData, of a logout or of an expired token: HDEL of the        *)
(* account's field, whatever token it holds ...                            *)
HDel(r) ==
  /\ At(r, "hdel") \/ Starts(r, "logout")
  /\ redis' = [redis EXCEPT ![Key(r)] = Null]
  /\ Goto(r, "pubdel")
  /\ UNCHANGED <<cacheVars, busVars, now, req, tok, data>>

(* ... then, as a second command, PubDelCache; and the caller is answered. *)
Publishing(r) == pc[r] \in {"pubset", "pubdel"}

Answer(r) == IF req[r].op # "verify" THEN "done"
             ELSE IF At(r, "pubset") THEN "accepted" ELSE "rejected"

PublishDelete(r) ==
  /\ Publishing(r)
  /\ Publish(DelCacheMessage(r, {Key(r)}))
  /\ Goto(r, Answer(r))
  /\ UNCHANGED <<cacheVars, redis, now, req, tok, data>>

(* PubDelMemAll, from the command line.                                    *)
ClearAll(r) ==
  /\ Starts(r, "clear")
  /\ Publish(DelAllMessage(r))
  /\ Goto(r, "done")
  /\ UNCHANGED <<cacheVars, redis, now, req, tok, data>>

Tick ==
  /\ now < MaxTime
  /\ now' = now + 1
  /\ UNCHANGED <<cacheVars, busVars, redis, reqVars>>

-----------------------------------------------------------------------------
(* Faults: a command on Redis fails (a broken connection, a cancelled      *)
(* request context), a message is lost, a node crashes.                    *)

(* The loader, or Set, returns an error.                                   *)
LoadFails(r) ==
  /\ "redis" \in Faults /\ Loading(r)
  /\ CacheGiveUp(Node(r), Key(r))
  /\ Goto(r, "failed")
  /\ UNCHANGED <<busVars, redis, now, req, tok, data>>

(* HSET or HDEL returns an error: it was executed or it was not, and       *)
(* nothing is published.                                                   *)
WriteFails(r) ==
  /\ "redis" \in Faults
  /\ \/ /\ At(r, "hset")
        /\ redis' = [redis EXCEPT ![Key(r)] = data[r]]
        /\ PublishLost({Key(r)})
     \/ /\ At(r, "hdel") \/ Starts(r, "logout")
        /\ redis' = [redis EXCEPT ![Key(r)] = Null]
        /\ PublishLost({Key(r)})
     \/ /\ pc[r] \in {"hset", "hdel"} \/ Starts(r, "logout")
        /\ UNCHANGED <<redis, busVars>>
  /\ Goto(r, "failed")
  /\ UNCHANGED <<cacheVars, now, req, tok, data>>

(* PUBLISH returns an error: delivered or not, the caller sees the error.  *)
PublishFails(r) ==
  /\ "redis" \in Faults /\ Publishing(r)
  /\ \/ PublishLost({Key(r)})
     \/ Publish(DelCacheMessage(r, {Key(r)}))
  /\ Goto(r, "failed")
  /\ UNCHANGED <<cacheVars, redis, now, req, tok, data>>

(* The requests of the node die with it.                                   *)
NodeCrash(n) ==
  /\ "crash" \in Faults
  /\ Crash(n, {Key(r) : r \in {s \in Reqs : Node(s) = n /\ Publishing(s)}})
  /\ pc' = [r \in Reqs |->
               IF Node(r) = n /\ pc[r] \in Running THEN "dead" ELSE pc[r]]
  /\ UNCHANGED <<redis, now, req, tok, data>>

NodeRestart(n) == Restart(n) /\ UNCHANGED <<redis, now, reqVars>>

MessageLost(n) ==
  /\ "lose" \in Faults
  /\ LoseMessage(n)
  /\ UNCHANGED <<redis, now, reqVars>>

EntryEvicted(n) ==
  /\ "evict" \in Faults
  /\ \E k \in Keys : Evict(n, k)
  /\ UNCHANGED <<redis, now, reqVars>>

-----------------------------------------------------------------------------
RequestStep(r) ==
  \/ LoginReuse(r) \/ LoginGenerate(r)
  \/ VerifyHit(r) \/ VerifyMiss(r) \/ VerifyLoad(r) \/ VerifyStore(r)
  \/ VerifyCheck(r)
  \/ HSet(r) \/ HDel(r) \/ PublishDelete(r) \/ ClearAll(r)

RequestFault(r) == LoadFails(r) \/ WriteFails(r) \/ PublishFails(r)

HandlerStep(n) ==
  /\ Receive(n) \/ HandlerDelete(n) \/ HandlerLockedDelete(n) \/ HandlerArm(n)
  /\ UNCHANGED <<redis, now, reqVars>>

TimerStep(n) ==
  /\ \E j \in timers[n] : TimerDelete(n, j) \/ TimerLockedDelete(n, j)
  /\ UNCHANGED <<redis, now, reqVars>>

NodeFault(n) ==
  NodeCrash(n) \/ NodeRestart(n) \/ MessageLost(n) \/ EntryEvicted(n)

Next ==
  \/ \E r \in Reqs : RequestStep(r) \/ RequestFault(r)
  \/ \E n \in Nodes : HandlerStep(n) \/ TimerStep(n) \/ NodeFault(n)
  \/ Tick

Spec == Init /\ [][Next]_vars

(* The scheduler runs every goroutine that can run: requests, the          *)
(* subscriber, the timers.  A mutex is waited for by polling here; as      *)
(* requests are finitely many it is in the end free for good, so weak      *)
(* fairness is enough.  Faults and the clock are under no obligation.      *)
Fairness ==
  /\ \A r \in Reqs : WF_vars(RequestStep(r))
  /\ \A n \in Nodes : WF_vars(HandlerStep(n)) /\ WF_vars(TimerStep(n))

FairSpec == Spec /\ Fairness

-----------------------------------------------------------------------------
(* Safety.                                                                 *)

(* Some request has changed the hash and not published it yet.             *)
Unpublished(k) == \E r \in Reqs : Publishing(r) /\ Key(r) = k

(* Node n is still to be told to forget k, or a fault kept it from n.      *)
Owed(n, k) == Unpublished(k) \/ Announced(n, k) \/ <<n, k>> \in missed

(* A node's entry differs from Redis only while its invalidation is on the *)
(* way (the writer is about to publish, the message is queued, the handler *)
(* has not made its locked deletion of the key) or was lost to a fault:    *)
(* write first and publish second (token.go, write2redis and               *)
(* removeTokenData), and delete under the mutex that loaders hold.         *)
CacheCoherent ==
  \A n \in Nodes, k \in Keys :
    cache[n][k] \in {Miss, redis[k]} \/ Owed(n, k)

(* The value a loader is about to store is as good as a stored one: it     *)
(* read the hash before a change whose deletion will wait for its mutex.   *)
LoadCoherent ==
  \A r \in Reqs : At(r, "store") =>
    data[r] = redis[Key(r)] \/ Owed(Node(r), Key(r))

(* cacheMem.Atomic: one goroutine at a time loads a key on a node.         *)
SingleFlight ==
  \A r, s \in Reqs :
    Loading(r) /\ Loading(s) /\ Node(r) = Node(s) /\ Key(r) = Key(s) => r = s

(* The mutex of a key is held exactly by the request that loads it: none   *)
(* of the ways out of GetOrStore (hit, stored, error, crash) leaks it.     *)
LockHeldByLoader ==
  /\ \A r \in Reqs : Loading(r) => lock[Node(r)][Key(r)] = r
  /\ \A n \in Nodes, k \in Keys : lock[n][k] # None =>
       LET r == lock[n][k] IN Loading(r) /\ Node(r) = n /\ Key(r) = k

(* The cache of the nodes is a coherent store of the hash's fields.        *)
OwedPairs == {p \in Nodes \X Keys : Owed(p[1], p[2])}
Abstract == INSTANCE CoherentStore
              WITH Values <- Entry \cup {Null}, store <- redis,
                   view <- cache, owed <- OwedPairs
ImplementsStore == Abstract!StoreSpec

-----------------------------------------------------------------------------
(* Properties of steps.                                                    *)

(* "Refresh when this much is left until expiry" (token.go:246) prolongs   *)
(* the token that is there: writing the refreshed TokenData changes the    *)
(* expiry of the account's token, never which token that is.  The code     *)
(* writes back the copy it read from the cache, over any login or logout   *)
(* made since.                                                             *)
RefreshKeepsToken ==
  [][\A r \in Reqs :
       req[r].op = "verify" /\ At(r, "hset") /\ Publishing(r)' =>
         redis[Key(r)] # Null /\ redis[Key(r)].tok = data[r].tok]_vars

-----------------------------------------------------------------------------
(* Liveness.                                                               *)

(* Without faults a wrong entry does not stay: logout and login reach      *)
(* every node (write2redis and removeTokenData publish, subAction deletes).*)
StaleIsPurged ==
  \A n \in Nodes, k \in Keys :
    cache[n][k] \notin {Miss, redis[k]} ~> cache[n][k] \in {Miss, redis[k]}

(* No request waits forever for a mutex of the cache.                      *)
RequestsEnd ==
  \A r \in Reqs :
    (req[r].op = "verify" => Issued(Key(r)) # {}) ~> pc[r] \in Ended
=============================================================================
