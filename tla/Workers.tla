------------------------------- MODULE Workers -------------------------------
(***************************************************************************)
(* Work that requests hand over: the goroutine pool (g2util/goroutine.go,  *)
(* GoPool) and the queue of messages for the MQTT broker (g2emq/emq.go,    *)
(* Emq).  A task is submitted to the pool and may publish one message by   *)
(* PublishC; one worker takes the messages from the queue.                 *)
(*                                                                         *)
(* External: ants (Submit waits for a free worker, and fails once the pool *)
(* is released), the MQTT client and its broker, which may not answer.     *)
(***************************************************************************)
EXTENDS Naturals, Sequences, FiniteSets, SequencesExt

CONSTANTS Tasks,
          PoolSize,    \* goPoolSize
          QueueSize    \* the capacity of pubC

ASSUME WorkersAssumption ==
  PoolSize \in Nat \ {0} /\ QueueSize \in Nat \ {0} /\ IsFiniteSet(Tasks)

VARIABLES size,      \* GoPool.size
          task,      \* task[t]: how far task t is
          pool,      \* ants' pool is open
          dialed,    \* Emq.Dial has started the worker
          pubC,      \* the queue
          worker,    \* the message the worker is publishing, or <<>>
          broker,    \* the messages handed to the MQTT client, in order
          reported   \* the messages PublishC or Publish logged an error for

workVars == <<size, task, pool, dialed, pubC, worker, broker, reported>>

TaskStates == {"new", "counted", "running", "publishing", "done", "panicked", "refused"}

WorkTypeOK ==
  /\ size \in 0..Cardinality(Tasks)
  /\ task \in [Tasks -> TaskStates]
  /\ pool \in BOOLEAN /\ dialed \in BOOLEAN
  /\ pubC \in Seq(Tasks) /\ Len(pubC) <= QueueSize
  /\ worker \in {<<>>} \cup {<<t>> : t \in Tasks}
  /\ broker \in Seq(Tasks) /\ reported \subseteq Tasks

WorkInit ==
  /\ size = 0 /\ task = [t \in Tasks |-> "new"]
  /\ pool = TRUE /\ dialed = FALSE
  /\ pubC = <<>> /\ worker = <<>> /\ broker = <<>> /\ reported = {}

Becomes(t, s) == task' = [task EXCEPT ![t] = s]

-----------------------------------------------------------------------------
(* GoPool.                                                                 *)

Working == {t \in Tasks : task[t] \in {"running", "publishing"}}

(* Go: the counter first ...                                               *)
Go(t) ==
  /\ task[t] = "new"
  /\ size' = size + 1
  /\ Becomes(t, "counted")
  /\ UNCHANGED <<pool, dialed, pubC, worker, broker, reported>>

(* Mutant: a task whose pool was released waits for a worker.              *)
Submit_Waits(t) ==
  /\ task[t] = "counted"
  /\ pool /\ Cardinality(Working) < PoolSize /\ Becomes(t, "running")
  /\ UNCHANGED <<size, pool, dialed, pubC, worker, broker, reported>>

(* ... then Submit, which waits for a worker; its error is not looked at.  *)
Submit(t) ==
  /\ task[t] = "counted"
  /\ \/ ~pool /\ Becomes(t, "refused")
     \/ pool /\ Cardinality(Working) < PoolSize /\ Becomes(t, "running")
  /\ UNCHANGED <<size, pool, dialed, pubC, worker, broker, reported>>

TaskBegins(t) ==
  /\ task[t] = "running"
  /\ Becomes(t, "publishing")
  /\ UNCHANGED <<size, pool, dialed, pubC, worker, broker, reported>>

(* goFuncDo returned, and size.Add(-1).                                    *)
Ends(t) == Becomes(t, "done") /\ size' = size - 1

(* The function panics: PanicHandler logs, size.Add(-1) is not reached.    *)
TaskPanics(t) ==
  /\ task[t] = "running"
  /\ Becomes(t, "panicked")
  /\ UNCHANGED <<size, pool, dialed, pubC, worker, broker, reported>>

(* AfterShutdown: the wait group is empty, Release.                        *)
Release ==
  /\ pool
  /\ pool' = FALSE
  /\ UNCHANGED <<size, task, dialed, pubC, worker, broker, reported>>

-----------------------------------------------------------------------------
(* Emq.                                                                    *)

Dial ==
  /\ ~dialed
  /\ dialed' = TRUE
  /\ UNCHANGED <<size, task, pool, pubC, worker, broker, reported>>

(* Mutant: the queue takes one more.                                       *)
Enqueue_OneMore(t) ==
  /\ task[t] = "publishing" /\ Len(pubC) <= QueueSize
  /\ pubC' = Append(pubC, t)
  /\ Ends(t)
  /\ UNCHANGED <<pool, dialed, worker, broker, reported>>

Enqueue(t) ==
  /\ task[t] = "publishing" /\ Len(pubC) < QueueSize
  /\ pubC' = Append(pubC, t)
  /\ Ends(t)
  /\ UNCHANGED <<pool, dialed, worker, broker, reported>>

(* Mutant: no time-out on a full queue.                                    *)
EnqueueTimesOut_Never(t) == task[t] = "publishing" /\ FALSE /\ UNCHANGED workVars

(* The queue was full for 100 ms: the message is given up.                 *)
EnqueueTimesOut(t) ==
  /\ task[t] = "publishing" /\ Len(pubC) = QueueSize
  /\ reported' = reported \cup {t}
  /\ Ends(t)
  /\ UNCHANGED <<pool, dialed, pubC, worker, broker>>

(* Start: the worker hands a message to the client ...                     *)
Take ==
  /\ dialed /\ worker = <<>> /\ pubC # <<>>
  /\ worker' = <<Head(pubC)>>
  /\ pubC' = Tail(pubC)
  /\ broker' = Append(broker, Head(pubC))
  /\ UNCHANGED <<size, task, pool, dialed, reported>>

(* ... and waits for the broker's answer, at most e.wait; either way it    *)
(* goes on with the next.                                                  *)
Answered ==
  /\ worker # <<>>
  /\ worker' = <<>>
  /\ UNCHANGED <<size, task, pool, dialed, pubC, broker, reported>>

(* Mutant: a message that timed out is queued again.                       *)
WaitTimesOut_Retries ==
  /\ worker # <<>> /\ Len(pubC) < QueueSize
  /\ pubC' = Append(pubC, worker[1])
  /\ worker' = <<>>
  /\ UNCHANGED <<size, task, pool, dialed, broker, reported>>

(* Mutant: the token is waited for without a time-out.                     *)
WaitTimesOut_Never == worker # <<>> /\ FALSE /\ UNCHANGED workVars

WaitTimesOut ==
  /\ worker # <<>>
  /\ reported' = reported \cup {worker[1]}
  /\ worker' = <<>>
  /\ UNCHANGED <<size, task, pool, dialed, pubC, broker>>

TaskStep(t) ==
  \/ Submit(t) \/ TaskBegins(t) \/ TaskPanics(t)
  \/ Enqueue(t) \/ EnqueueTimesOut(t)

WorkerStep == Take \/ WaitTimesOut

-----------------------------------------------------------------------------
(* A message whose PublishC was called is in the queue or was handed to    *)
(* the client, once, or it was given up and reported: time-outs neither    *)
(* lose nor repeat one (emq.go:88-108).                                    *)
MessagesAccounted ==
  LET Place(s, t) == Cardinality({i \in DOMAIN s : s[i] = t}) IN
  \A t \in Tasks :
    Place(broker, t) + Place(pubC, t) =
      IF task[t] = "done" /\ ~(t \in reported /\ ~Contains(broker, t)) THEN 1 ELSE 0

(* Every function that was given to Go comes to an end, and the queue is   *)
(* emptied, whatever the broker does: PublishC gives up on a full queue    *)
(* and the worker on a silent broker (emq.go:81, 95).                      *)
WorkEnds ==
  \A t \in Tasks :
    /\ task[t] = "counted" ~> task[t] \in {"done", "panicked", "refused"}
    /\ dialed /\ Contains(pubC, t) ~> ~Contains(pubC, t)
=============================================================================
