------------------------------- MODULE Service -------------------------------
(***************************************************************************)
(* Requests of the JSON-RPC server (RpcServer) whose methods hand work to  *)
(* the goroutine pool and to MQTT (Workers).  The task of a request has    *)
(* the request's name; a method waits in GoPool.Go for a free worker.      *)
(***************************************************************************)
EXTENDS RpcServer, Workers

ASSUME ServiceAssumption == Tasks = Requests

vars == <<rpcVars, workVars>>

Init == RpcInit /\ WorkInit

TypeOK == RpcTypeOK /\ WorkTypeOK

MethodGoes(q) ==
  /\ stage[q] = "call" /\ Go(q)
  /\ UNCHANGED rpcVars

(* The method returns, with or without having submitted its task.          *)
MethodReturns(q) ==
  /\ task[q] # "counted"
  /\ CallMethod(q)
  /\ UNCHANGED workVars

ServeStep(q) ==
  \/ /\ \/ Arrive(q) \/ Refuse(q) \/ Handle(q) \/ Middleware(q)
        \/ MiddlewaresDone(q) \/ ParseArguments(q) \/ Respond(q)
     /\ UNCHANGED workVars
  \/ MethodReturns(q)

(* The process stops serving, starts the MQTT client, or shuts down.       *)
Control == \/ Stop /\ UNCHANGED workVars
           \/ (Dial \/ Release) /\ UNCHANGED rpcVars

TaskMoves(t) == TaskStep(t) /\ UNCHANGED rpcVars
MessageMoves == WorkerStep /\ UNCHANGED rpcVars
BrokerAnswers == Answered /\ UNCHANGED rpcVars

Next ==
  \/ \E q \in Requests : ServeStep(q) \/ MethodGoes(q) \/ TaskMoves(q)
  \/ Control \/ MessageMoves \/ BrokerAnswers

(* Goroutines run, and time-outs fire; the broker owes nothing, and nobody *)
(* has to call.  A goroutine that waits for a worker gets one when workers *)
(* become free again and again.                                            *)
Fairness ==
  /\ \A q \in Requests : WF_vars(stage[q] # "new" /\ ServeStep(q))
  /\ \A t \in Tasks : SF_vars(TaskMoves(t))
  /\ WF_vars(MessageMoves)

Spec == Init /\ [][Next]_vars /\ Fairness

-----------------------------------------------------------------------------
(* A request that has arrived is answered or refused in the end: neither a *)
(* full pool nor a full queue nor a silent broker, nor all of them, keeps  *)
(* it (PublishC's time-out is what frees the workers, emq.go:95).          *)
RequestsEnd ==
  \A q \in Requests : stage[q] = "handler" ~> stage[q] \in {"ended", "recovered"}
=============================================================================
