--------------------------- MODULE NodeCache_proofs ---------------------------
(***************************************************************************)
(* Lemmas about the bus and the caches of NodeCache: the types of a step   *)
(* of a node's own goroutines, and that such a step at most deletes        *)
(* entries.                                                                *)
(***************************************************************************)
EXTENDS NodeCache, TLAPS

USE BusAssumption

LEMMA JobTypes ==
  ASSUME NEW j \in Job
  PROVE  /\ \A k \in Keys : BeginKey(j, k) \in Job
         /\ EndKey(j) \in Job
         /\ [j EXCEPT !.todo = j.keys] \in Job
         /\ j.todo \subseteq Keys
BY DEF Job, BeginKey, EndKey

LEMMA JobOfMessage ==
  ASSUME NEW m \in Message
  PROVE  [from |-> m.from, keys |-> m.keys, todo |-> m.keys, cur |-> None] \in Job
BY DEF Job, Message

LEMMA TailElements ==
  ASSUME NEW S, NEW s \in Seq(S), s # <<>>
  PROVE  /\ \A i \in DOMAIN s : s[i] = Head(s) \/ \E j \in DOMAIN Tail(s) : Tail(s)[j] = s[i]
         /\ \A j \in DOMAIN Tail(s) : \E i \in DOMAIN s : Tail(s)[j] = s[i]
<1>1. ASSUME NEW i \in DOMAIN s
      PROVE  s[i] = Head(s) \/ \E j \in DOMAIN Tail(s) : Tail(s)[j] = s[i]
  <2>1. CASE i = 1 BY <2>1
  <2>2. CASE i # 1
    <3>1. i - 1 \in DOMAIN Tail(s) /\ Tail(s)[i - 1] = s[i] BY <2>2
    <3>2. QED BY <3>1
  <2>3. QED BY <2>1, <2>2
<1>2. ASSUME NEW j \in DOMAIN Tail(s)
      PROVE  \E i \in DOMAIN s : Tail(s)[j] = s[i]
  <2>1. j + 1 \in DOMAIN s /\ Tail(s)[j] = s[j + 1] OBVIOUS
  <2>2. QED BY <2>1
<1>3. QED BY <1>1, <1>2

Fewer == \A m \in Nodes, k \in Keys : cache'[m][k] \in {cache[m][k], Miss}

LEMMA DroppedEntries ==
  ASSUME NEW CONSTANT V, BusTypeOK(V), NEW n \in Nodes, \E D : cache' = Dropped(n, D)
  PROVE  cache' \in [Nodes -> [Keys -> V \cup {Miss}]] /\ Fewer
<1> PICK D : cache' = Dropped(n, D)
  OBVIOUS
<1>1. QED BY DEF Dropped, BusTypeOK, Fewer

LEMMA PublishTypes ==
  ASSUME NEW CONSTANT V, BusTypeOK(V), NEW m \in Message, Publish(m), UNCHANGED cacheVars
  PROVE  BusTypeOK(V)'
<1>1. m.keys \subseteq Keys BY DEF Message
<1>2. \A n \in Nodes : Append(channel[n], m) \in Seq(Message)
  BY DEF BusTypeOK
<1>3. QED BY <1>1, <1>2 DEF Publish, BusTypeOK, cacheVars

(* A step of the subscriber of node n, of a second deletion, or a lost     *)
(* message.                                                                *)
NodeStep(n) ==
  \/ Receive(n) \/ HandlerDelete(n) \/ HandlerLockedDelete(n) \/ HandlerArm(n)
  \/ \E j \in timers[n] : TimerDelete(n, j) \/ TimerLockedDelete(n, j)
  \/ LoseMessage(n)

LEMMA NodeStepTypes ==
  ASSUME NEW CONSTANT V, BusTypeOK(V), NEW n \in Nodes, NodeStep(n)
  PROVE  BusTypeOK(V)' /\ Fewer
<1> USE DEF BusTypeOK
<1>1. CASE Receive(n)
  <2>1. Head(channel[n]) \in Message /\ Tail(channel[n]) \in Seq(Message)
    BY <1>1 DEF Receive
  <2>2. /\ cache' \in [Nodes -> [Keys -> V \cup {Miss}]]
        /\ Fewer
    <3>1. CASE cache' = Dropped(n, Keys) BY <3>1, DroppedEntries
    <3>2. CASE UNCHANGED cache BY <3>2 DEF Fewer
    <3>3. QED BY <1>1, <3>1, <3>2 DEF Receive
  <2>3. handler' \in [Nodes -> Job \cup {None}]
    <3> DEFINE m == Head(channel[n])
    <3>1. CASE m.all BY <1>1, <3>1 DEF Receive
    <3>2. CASE ~m.all
      <4> DEFINE j == [from |-> m.from, keys |-> m.keys, todo |-> m.keys, cur |-> None]
      <4>1. j \in Job BY <2>1, JobOfMessage
      <4>2. handler' = [handler EXCEPT ![n] = j] BY <1>1, <3>2 DEF Receive
      <4>. HIDE DEF j
      <4>3. QED BY <4>1, <4>2
    <3>3. QED BY <3>1, <3>2
  <2>4. QED BY <1>1, <2>1, <2>2, <2>3 DEF Receive
<1>2. CASE HandlerDelete(n)
  <2>1. /\ cache' \in [Nodes -> [Keys -> V \cup {Miss}]]
        /\ Fewer
    <3>1. \E D : cache' = Dropped(n, D) BY <1>2 DEF HandlerDelete
    <3>2. QED BY <3>1, DroppedEntries
  <2>2. PICK k \in Keys : handler' = [handler EXCEPT ![n] = BeginKey(handler[n], k)]
    BY <1>2, JobTypes DEF HandlerDelete
  <2>3. handler' \in [Nodes -> Job \cup {None}]
    BY <1>2, <2>2, JobTypes DEF HandlerDelete
  <2>4. QED BY <1>2, <2>1, <2>3 DEF HandlerDelete
<1>3. CASE HandlerLockedDelete(n)
  <2>1. /\ cache' \in [Nodes -> [Keys -> V \cup {Miss}]]
        /\ Fewer
    <3>1. \E D : cache' = Dropped(n, D) BY <1>3 DEF HandlerLockedDelete
    <3>2. QED BY <3>1, DroppedEntries
  <2>2. handler[n] \in Job /\ EndKey(handler[n]) \in Job
    BY <1>3, JobTypes DEF HandlerLockedDelete
  <2>3. QED BY <1>3, <2>1, <2>2 DEF HandlerLockedDelete
<1>4. CASE HandlerArm(n)
  <2>1. [handler[n] EXCEPT !.todo = handler[n].keys] \in Job
    BY <1>4, JobTypes DEF HandlerArm
  <2>2. QED BY <1>4, <2>1 DEF HandlerArm, Fewer
<1>5. ASSUME NEW j \in timers[n], TimerDelete(n, j) PROVE BusTypeOK(V)' /\ Fewer
  <2>1. /\ cache' \in [Nodes -> [Keys -> V \cup {Miss}]]
        /\ Fewer
    <3>1. \E D : cache' = Dropped(n, D) BY <1>5 DEF TimerDelete
    <3>2. QED BY <3>1, DroppedEntries
  <2>2. PICK k \in Keys : timers' = [timers EXCEPT ![n] = (@ \ {j}) \cup {BeginKey(j, k)}]
    BY <1>5, JobTypes DEF TimerDelete
  <2>3. BeginKey(j, k) \in Job BY JobTypes
  <2>4. QED BY <1>5, <2>1, <2>2, <2>3 DEF TimerDelete
<1>6. ASSUME NEW j \in timers[n], TimerLockedDelete(n, j) PROVE BusTypeOK(V)' /\ Fewer
  <2>1. /\ cache' \in [Nodes -> [Keys -> V \cup {Miss}]]
        /\ Fewer
    <3>1. \E D : cache' = Dropped(n, D) BY <1>6 DEF TimerLockedDelete
    <3>2. QED BY <3>1, DroppedEntries
  <2>2. EndKey(j) \in Job BY JobTypes
  <2>3. QED BY <1>6, <2>1, <2>2 DEF TimerLockedDelete
<1>7. CASE LoseMessage(n)
  <2>1. Head(channel[n]) \in Message /\ Tail(channel[n]) \in Seq(Message)
    BY <1>7 DEF LoseMessage
  <2>2. missed' \in SUBSET (Nodes \X Keys)
    BY <1>7, <2>1 DEF LoseMessage, Message
  <2>3. QED BY <1>7, <2>1, <2>2 DEF LoseMessage, Fewer
<1>8. QED BY <1>1, <1>2, <1>3, <1>4, <1>5, <1>6, <1>7 DEF NodeStep
=============================================================================
