---------------------------- MODULE Service_proofs ----------------------------
(***************************************************************************)
(* Theorems about the requests of Service, for any requests, middlewares   *)
(* and sizes of the pool and of the queue.                                 *)
(***************************************************************************)
EXTENDS Service, TLAPS, FiniteSetTheorems

USE RpcAssumption

(* What holds of request q at each stage.                                  *)
Held(q) ==
  /\ stage[q] \in {"new", "handler", "mids", "args", "call"} =>
       outcome[q] = Nothing /\ ~called[q]
  /\ stage[q] \in {"new", "handler"} => header[q] = 0
  /\ stage[q] # "ended" => answer[q] = NoAnswer
  /\ stage[q] \in {"args", "call"} => Guarded \subseteq passed[q]
  /\ called[q] => Guarded \subseteq passed[q]
  /\ outcome[q].error # "none" => outcome[q].result = "none"
  /\ outcome[q].result = "value" => called[q]
  /\ header[q] <= 1
  /\ stage[q] = "ended" /\ header[q] = 0 => run = 0 /\ ~called[q]

(* What holds of an answer, once it is there.                              *)
FitsRequest(q) ==
  answer[q] # NoAnswer =>
    /\ input[q].extra = "none" => answer[q].error = "none" \/ answer[q].result = "none"
    /\ answer[q].error \in Codes <=> outcome[q].error # "none"
    /\ answer[q].result = "value" => called[q]
    /\ input[q].body = "ok" /\ input[q].id # "none" => answer[q].id = input[q].id

ReqInv(q) == Held(q) /\ FitsRequest(q)
IInv == RpcTypeOK /\ \A q \in Requests : ReqInv(q)

(* The state of request q is the same after the step.                      *)
Same(q) ==
  /\ stage'[q] = stage[q] /\ input'[q] = input[q] /\ passed'[q] = passed[q]
  /\ called'[q] = called[q] /\ header'[q] = header[q]
  /\ outcome'[q] = outcome[q] /\ answer'[q] = answer[q]

LEMMA SameKeeps ==
  ASSUME NEW q \in Requests, ReqInv(q), Same(q), run = 0 => run' = 0
  PROVE  ReqInv(q)'
BY DEF ReqInv, Held, FitsRequest, Same

LEMMA InputFields ==
  ASSUME NEW i \in Inputs
  PROVE  /\ i.id \in {"given", "none", "object"}
         /\ i.extra \in {"none", "result", "error"}
         /\ i.body \in {"ok", "broken"}
         /\ i = [http |-> i.http, body |-> i.body, id |-> i.id, method |-> i.method,
                 params |-> i.params, extra |-> i.extra]
BY DEF Inputs, Good

(* What Response makes of an input and of what handle returned.            *)
LEMMA ResponseFields ==
  ASSUME NEW i, i.id \in {"given", "none", "object"},
         i.extra \in {"none", "result", "error"},
         NEW o \in [error : Codes \cup {"none"}, result : Results],
         o.error # "none" => o.result = "none"
  PROVE  /\ Response(i, o) \in [id : {"none", "one", "given", "object"},
                                error : Codes \cup {"none", "client"},
                                result : Results \cup {"client"}]
         /\ i.extra = "none" =>
              Response(i, o).error = "none" \/ Response(i, o).result = "none"
         /\ Response(i, o).error \in Codes <=> o.error # "none"
         /\ Response(i, o).result = "value" => o.result = "value"
         /\ i.id # "none" => Response(i, o).id = i.id
BY DEF Response, Results, Codes

LEMMA InitIInv == Init => IInv
<1> SUFFICES ASSUME Init PROVE IInv
  OBVIOUS
<1>1. RpcTypeOK
  BY DEF Init, RpcInit, RpcTypeOK, Inputs, Stages, Nothing, NoAnswer, Results, Codes
<1>2. ASSUME NEW q \in Requests PROVE ReqInv(q)
  BY DEF Init, RpcInit, ReqInv, Held, FitsRequest, Nothing, NoAnswer
<1>3. QED BY <1>1, <1>2 DEF IInv

-----------------------------------------------------------------------------
(* Each step of a request keeps the types and what holds of the request.   *)

LEMMA ArriveKeeps ==
  ASSUME IInv, NEW q \in Requests, Arrive(q)
  PROVE  RpcTypeOK' /\ ReqInv(q)'
<1> PICK i \in Inputs :
      /\ input' = [input EXCEPT ![q] = i]
      /\ IF i.http = "answered" THEN WritesHeader(q) ELSE UNCHANGED header
      /\ Goes(q, IF run = 0 \/ i.http = "answered" THEN "ended" ELSE "handler")
  BY DEF Arrive, Inputs
<1>1. RpcTypeOK'
  BY DEF IInv, Arrive, RpcTypeOK, WritesHeader, Goes, Stages
<1>2. ReqInv(q)'
  BY DEF IInv, Arrive, RpcTypeOK, WritesHeader, Goes, ReqInv, Held, FitsRequest
<1>3. QED BY <1>1, <1>2

LEMMA RefuseKeeps ==
  ASSUME IInv, NEW q \in Requests, Refuse(q)
  PROVE  RpcTypeOK' /\ ReqInv(q)'
BY DEF IInv, Refuse, RpcTypeOK, WritesHeader, Goes, Stages, ReqInv, Held, FitsRequest

LEMMA HandleKeeps ==
  ASSUME IInv, NEW q \in Requests, Handle(q)
  PROVE  RpcTypeOK' /\ ReqInv(q)'
<1> DEFINE e == HandleError(input[q])
<1>1. e \in Codes \cup {"none"}
  BY DEF HandleError, Codes
<1>. HIDE DEF e
<1>2. CASE e # "none" /\ FailsWith(q, e)
  BY <1>1, <1>2 DEF IInv, Handle, RpcTypeOK, FailsWith, Goes, Stages, Results,
                    Nothing, ReqInv, Held, FitsRequest
<1>3. CASE Goes(q, "mids") /\ UNCHANGED outcome
  BY <1>3 DEF IInv, Handle, RpcTypeOK, Goes, Stages, ReqInv, Held, FitsRequest
<1>4. QED BY <1>2, <1>3 DEF Handle, e

LEMMA MiddlewareKeeps ==
  ASSUME IInv, NEW q \in Requests, Middleware(q)
  PROVE  RpcTypeOK' /\ ReqInv(q)'
<1> USE DEF IInv, RpcTypeOK, Middleware, Goes, Stages, MayWriteHeader, Written,
            WritesHeader, ReqInv, Held, FitsRequest, Nothing
<1> PICK m \in Remaining(q) :
      \/ /\ passed' = [passed EXCEPT ![q] = @ \cup {m}]
         /\ MayWriteHeader(q)
         /\ UNCHANGED <<stage, outcome>>
      \/ FailsWith(q, "app") /\ MayWriteHeader(q) /\ UNCHANGED passed
      \/ Goes(q, "recovered") /\ UNCHANGED <<passed, header, outcome>>
  OBVIOUS
<1>1. m \in Mids BY DEF Remaining
<1>2. CASE /\ passed' = [passed EXCEPT ![q] = @ \cup {m}]
           /\ MayWriteHeader(q)
           /\ UNCHANGED <<stage, outcome>>
  BY <1>1, <1>2
<1>3. CASE FailsWith(q, "app") /\ MayWriteHeader(q) /\ UNCHANGED passed
  <2>1. outcome' \in [Requests -> [error : Codes \cup {"none"}, result : Results]]
    BY <1>3 DEF FailsWith, Codes, Results
  <2>2. header' \in [Requests -> Nat] /\ header'[q] <= 1
    BY <1>3
  <2>3. RpcTypeOK' BY <1>3, <2>1, <2>2 DEF FailsWith
  <2>4. outcome'[q].result = "none" /\ ~called'[q]
    BY <1>3 DEF FailsWith
  <2>5. ReqInv(q)' BY <1>3, <2>2, <2>4 DEF FailsWith
  <2>6. QED BY <2>3, <2>5
<1>4. CASE Goes(q, "recovered") /\ UNCHANGED <<passed, header, outcome>>
  BY <1>4
<1>5. QED BY <1>2, <1>3, <1>4

LEMMA MiddlewaresDoneKeeps ==
  ASSUME IInv, NEW q \in Requests, MiddlewaresDone(q)
  PROVE  RpcTypeOK' /\ ReqInv(q)'
BY DEF IInv, MiddlewaresDone, Remaining, RpcTypeOK, Goes, Stages, ReqInv, Held, FitsRequest

LEMMA ParseArgumentsKeeps ==
  ASSUME IInv, NEW q \in Requests, ParseArguments(q)
  PROVE  RpcTypeOK' /\ ReqInv(q)'
<1>1. CASE FailsWith(q, "params")
  BY <1>1 DEF IInv, ParseArguments, RpcTypeOK, FailsWith, Goes, Stages, Codes, Results,
              Nothing, ReqInv, Held, FitsRequest
<1>2. CASE Goes(q, "call") /\ UNCHANGED outcome
  BY <1>2 DEF IInv, ParseArguments, RpcTypeOK, Goes, Stages, ReqInv, Held, FitsRequest
<1>3. QED BY <1>1, <1>2 DEF ParseArguments

LEMMA CallMethodKeeps ==
  ASSUME IInv, NEW q \in Requests, CallMethod(q)
  PROVE  RpcTypeOK' /\ ReqInv(q)'
<1> PICK o \in MethodOutcomes : outcome' = [outcome EXCEPT ![q] = o]
  BY DEF CallMethod
<1>1. /\ o \in [error : Codes \cup {"none"}, result : Results]
      /\ o.error # "none" => o.result = "none"
  BY DEF MethodOutcomes, Codes, Results
<1>2. QED
  BY <1>1 DEF IInv, CallMethod, RpcTypeOK, Goes, Stages, ReqInv, Held, FitsRequest

LEMMA RespondKeeps ==
  ASSUME IInv, NEW q \in Requests, Respond(q)
  PROVE  RpcTypeOK' /\ ReqInv(q)'
<1> DEFINE o == outcome[q]
<1>1. /\ o \in [error : Codes \cup {"none"}, result : Results]
      /\ o.error # "none" => o.result = "none"
      /\ o.result = "value" => called[q]
  BY DEF IInv, RpcTypeOK, ReqInv, Held
<1>2. CASE Written(q) /\ UNCHANGED <<header, answer>>
  BY <1>2 DEF IInv, Respond, Written, RpcTypeOK, Goes, Stages, ReqInv, Held, FitsRequest
<1>3. CASE ~Written(q)
  <2> PICK i \in {input[q]} \cup
               {[input[q] EXCEPT !.id = "none"] : b \in {"broken"} \cap {input[q].body}} :
        answer' = [answer EXCEPT ![q] = Response(i, o)]
    BY <1>3 DEF Respond
  <2>1. input[q] \in Inputs BY DEF IInv, RpcTypeOK
  <2>2. /\ i.id \in {"given", "none", "object"}
        /\ i.extra \in {"none", "result", "error"}
        /\ i.extra = input[q].extra
        /\ input[q].body = "ok" => i.id = input[q].id
    BY <2>1, InputFields
  <2> DEFINE a == Response(i, o)
  <2>3. /\ a \in [id : {"none", "one", "given", "object"},
                  error : Codes \cup {"none", "client"},
                  result : Results \cup {"client"}]
        /\ i.extra = "none" => a.error = "none" \/ a.result = "none"
        /\ a.error \in Codes <=> o.error # "none"
        /\ a.result = "value" => o.result = "value"
        /\ i.id # "none" => a.id = i.id
    BY <1>1, <2>2, ResponseFields
  <2> HIDE DEF a
  <2>4. answer' = [answer EXCEPT ![q] = a] BY DEF a
  <2>5. RpcTypeOK'
    BY <1>3, <2>3, <2>4 DEF IInv, Respond, WritesHeader, RpcTypeOK, Goes, Stages
  <2>6. Held(q)'
    BY <1>3, <2>4 DEF IInv, Respond, Written, WritesHeader, RpcTypeOK, Goes, ReqInv, Held
  <2>7. FitsRequest(q)'
    BY <1>1, <1>3, <2>2, <2>3, <2>4 DEF IInv, Respond, RpcTypeOK, FitsRequest
  <2>8. QED BY <2>5, <2>6, <2>7 DEF ReqInv
<1>4. QED BY <1>2, <1>3 DEF Respond

-----------------------------------------------------------------------------
(* A step of one request leaves the others alone.                          *)
LEMMA StepOthers ==
  ASSUME IInv, NEW q \in Requests, RequestStep(q), NEW p \in Requests, p # q
  PROVE  Same(p) /\ run' = run
<1> USE DEF IInv, RpcTypeOK, Same, Goes, WritesHeader
<1>1. CASE Arrive(q) BY <1>1 DEF Arrive
<1>2. CASE Refuse(q) BY <1>2 DEF Refuse
<1>3. CASE Handle(q) BY <1>3 DEF Handle, FailsWith
<1>4. CASE Middleware(q) BY <1>4 DEF Middleware, FailsWith, MayWriteHeader
<1>5. CASE MiddlewaresDone(q) BY <1>5 DEF MiddlewaresDone
<1>6. CASE ParseArguments(q) BY <1>6 DEF ParseArguments, FailsWith
<1>7. CASE CallMethod(q) BY <1>7 DEF CallMethod
<1>8. CASE Respond(q) BY <1>8 DEF Respond
<1>9. QED
  BY <1>1, <1>2, <1>3, <1>4, <1>5, <1>6, <1>7, <1>8 DEF RequestStep

LEMMA RequestKeeps ==
  ASSUME IInv, NEW q \in Requests, RequestStep(q)
  PROVE  IInv'
<1>1. RpcTypeOK' /\ ReqInv(q)'
  BY ArriveKeeps, RefuseKeeps, HandleKeeps, MiddlewareKeeps, MiddlewaresDoneKeeps,
     ParseArgumentsKeeps, CallMethodKeeps, RespondKeeps DEF RequestStep
<1>2. ASSUME NEW p \in Requests, p # q PROVE ReqInv(p)'
  BY <1>2, StepOthers, SameKeeps DEF IInv
<1>3. QED BY <1>1, <1>2 DEF IInv

LEMMA UnchangedKeeps ==
  ASSUME IInv, UNCHANGED rpcVars
  PROVE  IInv'
<1>1. RpcTypeOK' BY DEF IInv, RpcTypeOK, rpcVars
<1>2. ASSUME NEW p \in Requests PROVE ReqInv(p)'
  BY SameKeeps DEF IInv, Same, rpcVars
<1>3. QED BY <1>1, <1>2 DEF IInv

LEMMA StepIInv == IInv /\ [Next]_vars => IInv'
<1> SUFFICES ASSUME IInv, [Next]_vars PROVE IInv'
  OBVIOUS
<1>1. ASSUME NEW q \in Requests, ServeStep(q) PROVE IInv'
  BY <1>1, RequestKeeps DEF ServeStep, MethodReturns, RequestStep
<1>2. ASSUME NEW q \in Requests, MethodGoes(q) \/ TaskMoves(q) PROVE IInv'
  BY <1>2, UnchangedKeeps DEF MethodGoes, TaskMoves
<1>3. CASE Stop
  <2>1. RpcTypeOK' BY <1>3 DEF Stop, IInv, RpcTypeOK
  <2>2. ASSUME NEW p \in Requests PROVE ReqInv(p)'
    BY <1>3, SameKeeps DEF Stop, IInv, Same
  <2>3. QED BY <2>1, <2>2 DEF IInv
<1>4. CASE (Dial \/ Release) /\ UNCHANGED rpcVars
  BY <1>4, UnchangedKeeps
<1>5. CASE MessageMoves \/ BrokerAnswers
  BY <1>5, UnchangedKeeps DEF MessageMoves, BrokerAnswers
<1>6. CASE UNCHANGED vars
  BY <1>6, UnchangedKeeps DEF vars
<1>7. QED
  BY <1>1, <1>2, <1>3, <1>4, <1>5, <1>6 DEF Next, Control

LEMMA InvariantHolds == Spec => []IInv
BY InitIInv, StepIInv, PTL DEF Spec

-----------------------------------------------------------------------------
(* The pool and the queue.  A worker's message and its report follow from  *)
(* where the message is: in the queue, or with the client, or given up.    *)

Once(s) == \A i, j \in DOMAIN s : s[i] = s[j] => i = j

(* GoPool.size counts the tasks that were counted and have not returned.   *)
Counted == {t \in Tasks : task[t] \notin {"new", "done"}}

MessagesPlaced ==
  /\ Once(broker) /\ Once(pubC) /\ ToSet(broker) \cap ToSet(pubC) = {}
  /\ \A t \in Tasks : t \in ToSet(broker) \cup ToSet(pubC)
                      <=> task[t] = "done" /\ ~ (t \in reported /\ t \notin ToSet(broker))
  /\ \A t \in reported : task[t] = "done" /\ t \notin ToSet(pubC)
  /\ \A t \in Tasks : worker = <<t>> => t \in ToSet(broker)

WInv == WorkTypeOK /\ size = Cardinality(Counted) /\ MessagesPlaced

LEMMA AppendOnce ==
  ASSUME NEW S, NEW s \in Seq(S), NEW x \in S, Once(s), x \notin ToSet(s)
  PROVE  /\ Append(s, x) \in Seq(S) /\ Len(Append(s, x)) = Len(s) + 1
         /\ ToSet(Append(s, x)) = ToSet(s) \cup {x} /\ Once(Append(s, x))
<1> DEFINE a == Append(s, x)
<1>1. /\ \A i \in DOMAIN s : i \in DOMAIN a /\ a[i] = s[i]
      /\ Len(s) + 1 \in DOMAIN a /\ a[Len(s) + 1] = x
      /\ \A i \in DOMAIN a : i \in DOMAIN s \/ i = Len(s) + 1
      /\ a \in Seq(S) /\ Len(a) = Len(s) + 1
  OBVIOUS
<1>2. \A i \in DOMAIN s : s[i] # x BY DEF ToSet
<1>. HIDE DEF a
<1>3. ToSet(a) = ToSet(s) \cup {x} BY <1>1 DEF ToSet
<1>4. Once(a) BY <1>1, <1>2 DEF Once
<1>. QED BY <1>1, <1>3, <1>4 DEF a

LEMMA TailOnce ==
  ASSUME NEW S, NEW s \in Seq(S), s # <<>>, Once(s)
  PROVE  /\ Tail(s) \in Seq(S) /\ Len(Tail(s)) <= Len(s) /\ Once(Tail(s))
         /\ Head(s) \in S /\ Head(s) \in ToSet(s) /\ ToSet(Tail(s)) = ToSet(s) \ {Head(s)}
<1> DEFINE t == Tail(s)
<1>1. /\ \A i \in DOMAIN t : i + 1 \in DOMAIN s /\ t[i] = s[i + 1] /\ i + 1 # 1
      /\ \A i \in DOMAIN s : i # 1 => i - 1 \in DOMAIN t /\ t[i - 1] = s[i]
      /\ 1 \in DOMAIN s /\ Head(s) = s[1]
      /\ t \in Seq(S) /\ Len(t) <= Len(s)
  OBVIOUS
<1>2. DOMAIN t \subseteq Nat BY <1>1
<1>. HIDE DEF t
<1>3. ToSet(t) = ToSet(s) \ {Head(s)}
  <2>1. ASSUME NEW i \in DOMAIN t PROVE t[i] \in ToSet(s) \ {Head(s)}
    BY <1>1 DEF ToSet, Once
  <2>2. ASSUME NEW i \in DOMAIN s, s[i] # Head(s) PROVE s[i] \in ToSet(t)
    BY <1>1, <2>2 DEF ToSet
  <2>. QED BY <2>1, <2>2 DEF ToSet
<1>4. Once(t)
  <2> SUFFICES ASSUME NEW i \in DOMAIN t, NEW j \in DOMAIN t, t[i] = t[j] PROVE i = j
    BY DEF Once
  <2>1. i + 1 = j + 1 BY <1>1 DEF Once
  <2>. QED BY <1>2, <2>1
<1>5. Head(s) \in S /\ Head(s) \in ToSet(s) BY <1>1 DEF ToSet
<1>. QED BY <1>1, <1>3, <1>4, <1>5 DEF t

LEMMA PlacedOnce ==
  ASSUME NEW S, NEW s \in Seq(S), Once(s), NEW t
  PROVE  Cardinality({i \in DOMAIN s : s[i] = t}) = IF t \in ToSet(s) THEN 1 ELSE 0
<1>1. CASE t \in ToSet(s)
  <2>1. PICK i \in DOMAIN s : s[i] = t BY <1>1 DEF ToSet
  <2>2. {j \in DOMAIN s : s[j] = t} = {i} BY <2>1 DEF Once
  <2>. QED BY <1>1, <2>2, FS_Singleton
<1>2. CASE t \notin ToSet(s)
  <2>1. {j \in DOMAIN s : s[j] = t} = {} BY <1>2 DEF ToSet
  <2>. QED BY <1>2, <2>1, FS_EmptySet
<1>. QED BY <1>1, <1>2

LEMMA CountedChanges ==
  ASSUME WorkTypeOK, NEW t \in Tasks, NEW s \in TaskStates, Becomes(t, s)
  PROVE  /\ task' \in [Tasks -> TaskStates] /\ task'[t] = s
         /\ \A u \in Tasks : u # t => task'[u] = task[u]
         /\ IsFiniteSet(Counted)
         /\ s \notin {"new", "done"} => Counted' = Counted \cup {t}
         /\ s = "done" => Counted' = Counted \ {t}
         /\ IsFiniteSet(Counted') /\ Cardinality(Counted') \in 0..Cardinality(Tasks)
<1>1. /\ task' \in [Tasks -> TaskStates] /\ task'[t] = s
      /\ \A u \in Tasks : u # t => task'[u] = task[u]
  BY DEF WorkTypeOK, Becomes
<1>2. Counted \subseteq Tasks /\ Counted' \subseteq Tasks BY DEF Counted
<1>3. /\ IsFiniteSet(Counted) /\ IsFiniteSet(Counted')
      /\ Cardinality(Counted') <= Cardinality(Tasks) /\ Cardinality(Counted') \in Nat
      /\ Cardinality(Tasks) \in Nat
  BY <1>2, WorkersAssumption, FS_Subset, FS_CardinalityType
<1>. QED BY <1>1, <1>3 DEF Counted

(* A step that only moves task t, to a state that is not "done".           *)
LEMMA MovesKeep ==
  ASSUME WInv, NEW t \in Tasks, task[t] # "done", NEW s \in TaskStates \ {"new", "done"},
         Becomes(t, s), size' = IF task[t] = "new" THEN size + 1 ELSE size,
         UNCHANGED <<pool, dialed, pubC, worker, broker, reported>>
  PROVE  WInv'
<1> USE DEF WInv
<1>1. /\ task' \in [Tasks -> TaskStates] /\ task'[t] = s /\ Counted' = Counted \cup {t}
      /\ \A u \in Tasks : u # t => task'[u] = task[u]
      /\ IsFiniteSet(Counted) /\ Cardinality(Counted') \in 0..Cardinality(Tasks)
  BY CountedChanges
<1>2. size' = Cardinality(Counted')
  <2>1. t \in Counted <=> task[t] # "new" BY DEF Counted
  <2>. QED BY <1>1, <2>1, FS_AddElement
<1>3. \A u \in Tasks : task'[u] = "done" <=> task[u] = "done" BY <1>1
<1>4. MessagesPlaced' BY <1>3 DEF MessagesPlaced, WorkTypeOK
<1>5. WorkTypeOK' BY <1>1, <1>2 DEF WorkTypeOK
<1>. QED BY <1>2, <1>4, <1>5

(* The end of task t, with its message in the queue or given up.           *)
LEMMA EndsKeep ==
  ASSUME WInv, NEW t \in Tasks, Enqueue(t) \/ EnqueueTimesOut(t)
  PROVE  WInv'
<1> USE DEF WInv
<1>1. /\ task[t] = "publishing" /\ Becomes(t, "done") /\ size' = size - 1
      /\ UNCHANGED <<pool, dialed, worker, broker>>
  BY DEF Enqueue, EnqueueTimesOut, Ends
<1>2. /\ task' \in [Tasks -> TaskStates] /\ task'[t] = "done" /\ Counted' = Counted \ {t}
      /\ \A u \in Tasks : u # t => task'[u] = task[u]
      /\ IsFiniteSet(Counted) /\ Cardinality(Counted') \in 0..Cardinality(Tasks)
  BY <1>1, CountedChanges DEF TaskStates
<1>3. size' = Cardinality(Counted')
  <2>1. t \in Counted BY <1>1 DEF Counted
  <2>. QED BY <1>1, <1>2, <2>1, FS_RemoveElement
<1>4. t \notin ToSet(broker) /\ t \notin ToSet(pubC) /\ t \notin reported
  BY <1>1 DEF MessagesPlaced
<1>5. CASE Enqueue(t)
  <2>1. /\ pubC \in Seq(Tasks) /\ pubC' = Append(pubC, t) /\ reported' = reported
        /\ Len(pubC) < QueueSize /\ Once(pubC)
    BY <1>5 DEF Enqueue, WorkTypeOK, MessagesPlaced
  <2>2. /\ pubC' \in Seq(Tasks) /\ Len(pubC') = Len(pubC) + 1
        /\ ToSet(pubC') = ToSet(pubC) \cup {t} /\ Once(pubC')
    BY <1>4, <2>1, AppendOnce
  <2>. HIDE DEF WInv
  <2>3. MessagesPlaced'
    <3>1. ASSUME NEW u \in Tasks
          PROVE  u \in ToSet(broker) \cup ToSet(pubC')
                 <=> task'[u] = "done" /\ ~ (u \in reported /\ u \notin ToSet(broker))
      BY <1>1, <1>2, <1>4, <2>2 DEF WInv, MessagesPlaced
    <3>2. \A u \in reported : task'[u] = "done" /\ u \notin ToSet(pubC')
      BY <1>2, <1>4, <2>2 DEF WInv, MessagesPlaced, WorkTypeOK
    <3>3. ToSet(broker) \cap ToSet(pubC') = {}
      BY <1>4, <2>2 DEF WInv, MessagesPlaced
    <3>. QED BY <1>1, <2>1, <2>2, <3>1, <3>2, <3>3 DEF WInv, MessagesPlaced
  <2>4. WorkTypeOK' BY <1>1, <1>2, <1>3, <2>1, <2>2, WorkersAssumption DEF WInv, WorkTypeOK
  <2>. QED BY <1>3, <2>3, <2>4 DEF WInv
<1>6. CASE EnqueueTimesOut(t)
  <2>1. pubC' = pubC /\ reported' = reported \cup {t} BY <1>6 DEF EnqueueTimesOut
  <2>2. MessagesPlaced'
    <3>1. ASSUME NEW u \in Tasks
          PROVE  u \in ToSet(broker) \cup ToSet(pubC)
                 <=> task'[u] = "done" /\ ~ (u \in reported' /\ u \notin ToSet(broker))
      <4>1. CASE u = t BY <1>2, <1>4, <2>1, <4>1
      <4>2. CASE u # t BY <1>2, <2>1, <4>2 DEF MessagesPlaced
      <4>. QED BY <4>1, <4>2
    <3>2. \A u \in reported' : task'[u] = "done" /\ u \notin ToSet(pubC)
      BY <1>2, <1>4, <2>1 DEF MessagesPlaced, WorkTypeOK
    <3>. QED BY <1>1, <2>1, <3>1, <3>2 DEF MessagesPlaced
  <2>3. WorkTypeOK' BY <1>1, <1>2, <1>3, <2>1 DEF WorkTypeOK
  <2>. QED BY <1>3, <2>2, <2>3
<1>. QED BY <1>5, <1>6

LEMMA TakeKeeps == ASSUME WInv, Take PROVE WInv'
<1> USE DEF WInv
<1> DEFINE h == Head(pubC)
<1>1. /\ pubC \in Seq(Tasks) /\ broker \in Seq(Tasks) /\ pubC # <<>>
      /\ Once(pubC) /\ Once(broker) /\ ToSet(broker) \cap ToSet(pubC) = {}
      /\ worker' = <<h>> /\ pubC' = Tail(pubC) /\ broker' = Append(broker, h)
      /\ UNCHANGED <<size, task, pool, dialed, reported>>
  BY DEF Take, WorkTypeOK, MessagesPlaced
<1>2. /\ pubC' \in Seq(Tasks) /\ Len(pubC') <= Len(pubC) /\ Once(pubC')
      /\ h \in Tasks /\ h \in ToSet(pubC) /\ ToSet(pubC') = ToSet(pubC) \ {h}
  BY <1>1, TailOnce
<1>. HIDE DEF h
<1>3. broker' \in Seq(Tasks) /\ ToSet(broker') = ToSet(broker) \cup {h} /\ Once(broker')
  BY <1>1, <1>2, AppendOnce
<1>4. MessagesPlaced'
  BY <1>1, <1>2, <1>3 DEF MessagesPlaced
<1>5. WorkTypeOK'
  <2>1. Len(pubC) \in Nat /\ Len(pubC') \in Nat /\ Len(pubC) <= QueueSize /\ QueueSize \in Nat
    BY <1>1, <1>2, WorkersAssumption DEF WorkTypeOK
  <2>. QED BY <1>1, <1>2, <1>3, <2>1 DEF WorkTypeOK
<1>6. Counted' = Counted BY <1>1 DEF Counted
<1>. QED BY <1>1, <1>4, <1>5, <1>6

LEMMA WNext == WInv /\ [Next]_vars => WInv'
<1> SUFFICES ASSUME WInv, [Next]_vars PROVE WInv'
  OBVIOUS
<1> USE DEF WInv
<1>1. ASSUME NEW t \in Tasks, Go(t) \/ Submit(t) \/ TaskBegins(t) \/ TaskPanics(t)
      PROVE  WInv'
  <2>1. PICK s \in TaskStates \ {"new", "done"} : Becomes(t, s)
    BY <1>1 DEF Go, Submit, TaskBegins, TaskPanics, TaskStates
  <2>. QED BY <1>1, <2>1, MovesKeep DEF Go, Submit, TaskBegins, TaskPanics
<1>2. ASSUME NEW t \in Tasks, Enqueue(t) \/ EnqueueTimesOut(t) PROVE WInv'
  BY <1>2, EndsKeep
<1>3. CASE Take BY <1>3, TakeKeeps
<1>4. CASE Release \/ Dial \/ Answered \/ UNCHANGED workVars
  <2>1. /\ UNCHANGED <<size, task, pubC, broker, reported>>
        /\ pool' \in BOOLEAN /\ dialed' \in BOOLEAN /\ worker' \in {<<>>, worker}
    BY <1>4 DEF Release, Dial, Answered, workVars, WorkTypeOK
  <2>2. Counted' = Counted BY <2>1 DEF Counted
  <2>3. WorkTypeOK' BY <2>1 DEF WorkTypeOK
  <2>4. MessagesPlaced' BY <2>1 DEF MessagesPlaced
  <2>. QED BY <2>1, <2>2, <2>3, <2>4
<1>5. CASE WaitTimesOut
  <2>1. PICK t \in Tasks : worker = <<t>> BY <1>5 DEF WaitTimesOut, WorkTypeOK
  <2>2. /\ UNCHANGED <<size, task, pool, dialed, pubC, broker>>
        /\ reported' = reported \cup {t} /\ worker' = <<>>
    BY <1>5, <2>1 DEF WaitTimesOut
  <2>3. t \in ToSet(broker) /\ t \notin ToSet(pubC) /\ task[t] = "done"
    BY <2>1 DEF MessagesPlaced
  <2>4. Counted' = Counted BY <2>2 DEF Counted
  <2>5. WorkTypeOK' BY <2>2 DEF WorkTypeOK
  <2>6. MessagesPlaced' BY <2>2, <2>3 DEF MessagesPlaced
  <2>. QED BY <2>2, <2>4, <2>5, <2>6
<1>6. ASSUME NEW q \in Requests, ServeStep(q) PROVE UNCHANGED workVars
  BY <1>6 DEF ServeStep, MethodReturns
<1>. QED
  BY <1>1, <1>2, <1>3, <1>4, <1>5, <1>6, ServiceAssumption
     DEF Next, vars, MethodGoes, TaskMoves, TaskStep, Control, MessageMoves, WorkerStep,
         BrokerAnswers

LEMMA WInit == Init => WInv
<1> SUFFICES ASSUME Init PROVE WInv
  OBVIOUS
<1>1. Counted = {} /\ ToSet(broker) = {} /\ ToSet(pubC) = {}
  BY DEF Init, WorkInit, Counted, ToSet
<1>2. Cardinality({}) = 0 /\ Cardinality(Tasks) \in Nat
  BY WorkersAssumption, FS_EmptySet, FS_CardinalityType
<1>3. WorkTypeOK
  <2>1. task \in [Tasks -> TaskStates] BY DEF Init, WorkInit, TaskStates
  <2>2. size \in 0..Cardinality(Tasks) BY <1>2 DEF Init, WorkInit
  <2>3. pubC \in Seq(Tasks) /\ broker \in Seq(Tasks) /\ Len(pubC) <= QueueSize
    BY WorkersAssumption DEF Init, WorkInit
  <2>. QED BY <2>1, <2>2, <2>3 DEF Init, WorkInit, WorkTypeOK
<1>4. MessagesPlaced
  BY <1>1 DEF Init, WorkInit, MessagesPlaced, Once
<1>. QED BY <1>1, <1>2, <1>3, <1>4 DEF WInv, Init, WorkInit

LEMMA WInvHolds == Spec => []WInv
BY WInit, WNext, PTL DEF Spec

-----------------------------------------------------------------------------
(* The fields of the server's requests keep their types: a stage of        *)
(* Handler, a code of error.go, a result (j2rpc.go, error.go).             *)
THEOREM RequestsTyped == Spec => []RpcTypeOK
<1>1. IInv => RpcTypeOK BY DEF IInv
<1>2. QED BY <1>1, InvariantHolds, PTL

(* No method runs for a request that a matching middleware has not let     *)
(* through, however many there are and whatever the others do (option.go). *)
THEOREM MiddlewaresGuard == Spec => []CalledIfAllowed
<1>1. IInv => CalledIfAllowed BY DEF IInv, ReqInv, Held, CalledIfAllowed
<1>2. QED BY <1>1, InvariantHolds, PTL

(* One header and one JSON-RPC answer for each request, or none from a     *)
(* stopped server (j2rpc.go, Handler and writeResponse).                   *)
THEOREM OneAnswer == Spec => []AnsweredOnce
<1>1. IInv => AnsweredOnce
  BY DEF IInv, ReqInv, Held, FitsRequest, AnsweredOnce
<1>2. QED BY <1>1, InvariantHolds, PTL

(* Requests and work together; GoPool.size stays between zero and the      *)
(* number of tasks, panics included, and the queue below its capacity.     *)
THEOREM ServiceTyped == Spec => []TypeOK
<1>1. WInv => WorkTypeOK BY DEF WInv
<1>2. QED BY <1>1, RequestsTyped, WInvHolds, PTL DEF TypeOK

(* No message is lost without a report, and none is sent twice, whatever   *)
(* times out (Emq.PublishC and Start, emq.go:88-108).                      *)
THEOREM MessagesOnce == Spec => []MessagesAccounted
<1>1. WInv => MessagesAccounted
  <2> SUFFICES ASSUME WInv, NEW t \in Tasks
               PROVE  Cardinality({i \in DOMAIN broker : broker[i] = t})
                      + Cardinality({i \in DOMAIN pubC : pubC[i] = t})
                      = IF task[t] = "done" /\ ~ (t \in reported /\ ~Contains(broker, t))
                        THEN 1 ELSE 0
    BY DEF MessagesAccounted
  <2>1. Contains(broker, t) <=> t \in ToSet(broker)
    BY DEF Contains, ToSet, WInv, WorkTypeOK
  <2>2. /\ Cardinality({i \in DOMAIN broker : broker[i] = t})
           = IF t \in ToSet(broker) THEN 1 ELSE 0
        /\ Cardinality({i \in DOMAIN pubC : pubC[i] = t}) = IF t \in ToSet(pubC) THEN 1 ELSE 0
    BY PlacedOnce DEF WInv, WorkTypeOK, MessagesPlaced
  <2>. QED BY <2>1, <2>2 DEF WInv, MessagesPlaced
<1>2. QED BY <1>1, WInvHolds, PTL
=============================================================================
