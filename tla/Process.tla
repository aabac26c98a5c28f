------------------------------- MODULE Process -------------------------------
(***************************************************************************)
(* The life of a server process: gof.go (Application), g2util/graceful.go  *)
(* (Graceful) and g2util/functions.go (TimeoutExecFunc), with its log      *)
(* files (LogFile), its HTTP server and what AfterShutdown closes.         *)
(*                                                                         *)
(* External: the kernel and os/signal (a signal the process has not asked  *)
(* for has its default action; one that nobody waits for on the unbuffered *)
(* channel is dropped), net/http's Shutdown.                               *)
(***************************************************************************)
EXTENDS LogFile

CONSTANTS Requests,     \* requests of clients
          Signals,      \* the signals that are sent
          MaxSignals,   \* how many, at most (model checking only)
          MaxWrites,    \* records per file (model checking only)
          Slow,         \* what may need longer than its time-out to close
          Again         \* files that application code opens a second time

Services == {"gopool", "mysql", "redis"}
Closers == Services \cup Files

ASSUME ProcessAssumption ==
  /\ Signals \subseteq {"term", "usr1", "urg"} /\ MaxSignals \in Nat
  /\ MaxWrites \in Nat /\ Slow \subseteq Closers \cup {"http"}
  /\ "http" \notin Closers /\ Services \cap Files = {} /\ Again \subseteq Files

VARIABLES main,     \* the main goroutine
          sent,     \* how many signals were sent
          list,     \* Graceful.processList, after srvList
          stage,    \* stage[i]: the call for list[i]
          left,     \* the entries that shutdownAction has still to go through
          late,     \* the entries that timed out
          isOpen,   \* isOpen[s]: service s is open
          rq,       \* rq[q]: request q
          target    \* target[q]: the file q logs to

mainVars == <<main, sent, list, stage, left, late>>
reqVars == <<rq, target>>
vars == <<logVars, mainVars, isOpen, reqVars>>

CallStages == {"idle", "running", "checked", "written", "closing", "done"}

TypeOK ==
  /\ LogTypeOK
  /\ main \in {"boot", "wait", "busy", "shutdown", "exited", "killed", "panicked"}
  /\ sent \in 0..MaxSignals
  /\ list \in Seq(Closers \cup {"http"})
  /\ stage \in [DOMAIN list -> CallStages]
  /\ left \subseteq DOMAIN list /\ late \subseteq DOMAIN list \ left
  /\ main = "shutdown" =>
       \A i \in DOMAIN list \ left : stage[i] = "done" \/ i \in late
  /\ isOpen \in [Services -> BOOLEAN]
  /\ rq \in [Requests -> {"new", "running", "checked", "ended"}]
  /\ target \in [Requests -> Files]

Init ==
  /\ LogInit
  /\ main = "boot" /\ sent = 0
  /\ list = <<>> /\ stage = <<>> /\ left = {} /\ late = {}
  /\ isOpen = [s \in Services |-> TRUE]
  /\ rq = [q \in Requests |-> "new"] /\ target \in [Requests -> Files]

Alive == main \notin {"exited", "killed", "panicked"}

-----------------------------------------------------------------------------
(* Populate, LoadLogger, Dial and Gin.Run: what is registered, in order.   *)

BootSeq == <<"gopool", "sys", "redislog", "sql", "mysql", "redis", "web", "http">>

Register(x) ==
  /\ IF x \in Files THEN Open(x) ELSE UNCHANGED logVars
  /\ list' = Append(list, x) /\ stage' = Append(stage, "idle")

ToRegister == {k \in DOMAIN BootSeq : BootSeq[k] \in Closers \cup {"http"}
                                      /\ BootSeq[k] \notin ToSet(list)}

Boot ==
  /\ main = "boot"
  /\ \/ \E k \in ToRegister : /\ \A j \in ToRegister : k <= j
                              /\ Register(BootSeq[k])
        /\ UNCHANGED main
     \/ ToRegister = {} /\ main' = "wait" /\ UNCHANGED <<list, stage, logVars>>
  /\ UNCHANGED <<sent, left, late, isOpen, reqVars>>

(* MustNewIO of a file that is open already: it is registered again, once  *)
(* here.                                                                   *)
OpenAgain(f) ==
  /\ main \in {"wait", "busy"}            \* shutdownAction keeps the mutex
  /\ f \in Again /\ \E i \in DOMAIN list : \A j \in DOMAIN list : list[j] = f <=> j = i
  /\ Register(f)
  /\ UNCHANGED <<main, sent, left, late, isOpen, reqVars>>

-----------------------------------------------------------------------------
(* StartSignal.                                                            *)

(* Mutant: files are not put last.                                         *)
Rank_AsRegistered(x) == IF x = "http" THEN 1 ELSE 2

(* shutdownAction: the servers, the processors that are not writers, then  *)
(* those that are.                                                         *)
Rank(x) == CASE x = "http" -> 1 [] x \in Services -> 2 [] x \in Files -> 3

Before(i, j) ==
  \/ Rank(list[i]) < Rank(list[j])
  \/ Rank(list[i]) = Rank(list[j]) /\ i < j

Send ==
  /\ Alive /\ sent < MaxSignals
  /\ sent' = sent + 1

(* Before Notify, and after signal.Stop, a signal has its default action.  *)
SignalKills ==
  /\ Send /\ main = "boot" /\ Signals \cap {"term", "usr1"} # {}
  /\ main' = "killed"
  /\ UNCHANGED <<logVars, list, stage, left, late, isOpen, reqVars>>

Terminate ==
  /\ Send /\ main = "wait" /\ "term" \in Signals
  /\ main' = "shutdown"
  /\ left' = DOMAIN list
  /\ UNCHANGED <<logVars, list, stage, late, isOpen, reqVars>>

(* SIGUSR1 only ends the loop; SIGURG, SIGPIPE, SIGCHLD only go round it.  *)
OtherSignal ==
  /\ Send /\ main = "wait"
  /\ \/ "usr1" \in Signals /\ main' = "exited"
     \/ "urg" \in Signals /\ main' = "busy"
  /\ UNCHANGED <<logVars, list, stage, left, late, isOpen, reqVars>>

SignalDropped ==
  /\ Send /\ main \in {"busy", "shutdown"}
  /\ UNCHANGED <<logVars, main, list, stage, left, late, isOpen, reqVars>>

LoopAgain ==
  /\ main = "busy"
  /\ main' = "wait"
  /\ UNCHANGED <<logVars, sent, list, stage, left, late, isOpen, reqVars>>

-----------------------------------------------------------------------------
(* shutdownAction: main starts a goroutine for each entry (the server's    *)
(* Shutdown is main's own call) and waits for it or for the time-out.      *)

Turn(i) ==
  /\ main = "shutdown" /\ i \in left
  /\ \A j \in left : i = j \/ Before(i, j)

SetStage(i, s) == stage' = [stage EXCEPT ![i] = s]

Launch(i) ==
  /\ Turn(i) /\ stage[i] = "idle"
  /\ SetStage(i, "running")
  /\ UNCHANGED <<logVars, main, sent, list, left, late, isOpen, reqVars>>

(* Mutant: a call that returned takes the next one with it.                *)
CallReturned_Skips(i) ==
  /\ Turn(i) /\ stage[i] = "done"
  /\ left' = left \ {i, i + 1}
  /\ UNCHANGED <<logVars, main, sent, list, stage, late, isOpen, reqVars>>

CallReturned(i) ==
  /\ Turn(i) /\ stage[i] = "done"
  /\ left' = left \ {i}
  /\ UNCHANGED <<logVars, main, sent, list, stage, late, isOpen, reqVars>>

(* Mutant: there is no time-out.                                           *)
TimesOut_Never(i) ==
  /\ Turn(i) /\ stage[i] # "idle" /\ FALSE
  /\ UNCHANGED vars

TimesOut(i) ==
  /\ Turn(i) /\ stage[i] \notin {"idle", "done"} /\ list[i] \in Slow
  /\ left' = left \ {i}
  /\ late' = late \cup {i}
  /\ UNCHANGED <<logVars, main, sent, list, stage, isOpen, reqVars>>

Exit ==
  /\ main = "shutdown" /\ left = {}
  /\ main' = "exited"
  /\ UNCHANGED <<logVars, sent, list, stage, left, late, isOpen, reqVars>>

(* http.Server.Shutdown returns when no request is left; GoPool's wait     *)
(* group is never added to, so Release follows at once.                    *)
InFlight == {q \in Requests : rq[q] \in {"running", "checked"}}

ServiceCall(i) ==
  /\ stage[i] = "running" /\ list[i] \notin Files
  /\ list[i] = "http" => InFlight = {}
  /\ isOpen' = [s \in Services |-> isOpen[s] /\ s # list[i]]
  /\ SetStage(i, "done")
  /\ UNCHANGED <<logVars, main, sent, list, left, late, reqVars>>

(* Mutant: Close does not look whether the file is closed.                 *)
CloseCheck_Missing(i) ==
  /\ stage[i] = "written"
  /\ SetStage(i, "closing")
  /\ UNCHANGED logVars

CloseCheck(i) ==
  /\ stage[i] = "written"
  /\ SetStage(i, IF closed[list[i]] THEN "done" ELSE "closing")
  /\ UNCHANGED logVars

(* innerIO.AfterShutdown: Write, then Close.  To close a closed channel is *)
(* a panic that nobody recovers.                                           *)
FileCall(i) ==
  /\ list[i] \in Files
  /\ \/ /\ stage[i] = "running"
        /\ SetStage(i, IF Accepts(list[i]) THEN "checked" ELSE "written")
        /\ UNCHANGED <<logVars, main>>
     \/ /\ stage[i] = "checked"
        /\ WriteBuffer(list[i])
        /\ SetStage(i, "written")
        /\ UNCHANGED main
     \/ CloseCheck(i) /\ UNCHANGED main
     \/ /\ stage[i] = "closing"
        /\ IF closed[list[i]]
           THEN main' = "panicked" /\ UNCHANGED <<logVars, stage>>
           ELSE CloseChannel(list[i]) /\ SetStage(i, "done") /\ UNCHANGED main
  /\ UNCHANGED <<sent, list, left, late, isOpen, reqVars>>

Call(i) == ServiceCall(i) \/ FileCall(i)

-----------------------------------------------------------------------------
(* Requests: they log, and use the services.                               *)

Listening ==
  /\ "http" \in ToSet(list)
  /\ \A i \in DOMAIN list : list[i] = "http" => stage[i] = "idle"

RequestBegins(q) ==
  /\ Alive /\ Listening /\ rq[q] = "new"
  /\ rq' = [rq EXCEPT ![q] = "running"]
  /\ UNCHANGED <<logVars, mainVars, isOpen, target>>

RequestLogs(q) ==
  /\ Alive
  /\ \/ /\ rq[q] = "running" /\ Accepts(target[q])
        /\ Len(log[target[q]]) < MaxWrites
        /\ rq' = [rq EXCEPT ![q] = "checked"]
        /\ UNCHANGED logVars
     \/ /\ rq[q] = "checked"
        /\ WriteBuffer(target[q])
        /\ rq' = [rq EXCEPT ![q] = "running"]
  /\ UNCHANGED <<mainVars, isOpen, target>>

RequestEnds(q) ==
  /\ Alive /\ rq[q] = "running"
  /\ rq' = [rq EXCEPT ![q] = "ended"]
  /\ UNCHANGED <<logVars, mainVars, isOpen, target>>

-----------------------------------------------------------------------------
MainStep ==
  \/ Boot \/ LoopAgain \/ Exit
  \/ \E i \in DOMAIN list : Launch(i) \/ CallReturned(i) \/ TimesOut(i)

SignalStep == SignalKills \/ Terminate \/ OtherSignal \/ SignalDropped

FileFlush(f) == Alive /\ FlushTick(f) /\ UNCHANGED <<mainVars, isOpen, reqVars>>
FileDel(f) == Alive /\ DelTick(f) /\ UNCHANGED <<mainVars, isOpen, reqVars>>
FileEnds(f) == Alive /\ RunEnds(f) /\ UNCHANGED <<mainVars, isOpen, reqVars>>

NextDay == Alive /\ Midnight /\ UNCHANGED <<mainVars, isOpen, reqVars>>

CallStep(i) == Alive /\ i \in DOMAIN list /\ Call(i)

(* As many as list can have.                                              *)
Entries == 1..Len(BootSeq) + Cardinality(Again)

Next ==
  \/ MainStep \/ SignalStep \/ NextDay
  \/ \E f \in Files : FileFlush(f) \/ FileDel(f) \/ FileEnds(f) \/ OpenAgain(f)
  \/ \E i \in Entries : CallStep(i)
  \/ \E q \in Requests : RequestBegins(q) \/ RequestLogs(q) \/ RequestEnds(q)

Spec == Init /\ [][Next]_vars

(* The main goroutine runs, and a call that is not in Slow ends in time.   *)
(* Nothing makes a request or a slow call end.                             *)
Fairness ==
  /\ WF_vars(MainStep)
  /\ \A i \in Entries : WF_vars(CallStep(i) /\ list[i] \notin Slow)

FairSpec == Spec /\ Fairness

-----------------------------------------------------------------------------
(* Users are closed before what they use (shutdownAction, graceful.go:105: *)
(* servers, then processors, then writers).  Until the server's Shutdown   *)
(* timed out a request that is being handled finds every service and every *)
(* log file open; and until the AfterShutdown of a service has returned or *)
(* timed out it does.                                                      *)
UsersCloseFirst ==
  Alive =>
    /\ InFlight # {} /\ (\A i \in late : list[i] # "http") =>
         (\A s \in Services : isOpen[s]) /\ (\A f \in Files : ~closed[f])
    /\ \A i \in DOMAIN list :
         list[i] \notin Files /\ i \notin late /\ stage[i] # "done" =>
           \A f \in Files : ~closed[f]

(* However often a file was opened and registered (auto_back_file.go:55),  *)
(* its channel is closed once, as long as no AfterShutdown of a file times *)
(* out (graceful.go:124).  When one does, the next one for the file runs   *)
(* beside it, and both may find it open.                                   *)
ClosedOnce == main = "panicked" => \E i \in late : list[i] \in Files

(* shutdownAction ends whatever its calls do (TimeoutExecFunc).            *)
ShutdownEnds == main = "shutdown" ~> ~Alive

(* "grace shutdown, flush data" (auto_back_file.go:124): a process that    *)
(* ends by shutdownAction, nothing having timed out, leaves nothing in the *)
(* buffers.                                                                *)
FlushedAtExit ==
  main = "exited" /\ (\A i \in DOMAIN list : stage[i] = "done") =>
    \A f \in Files : buf[f] = <<>>
=============================================================================
