------------------------------- MODULE Commands -------------------------------
(***************************************************************************)
(* The command line (g2cmd): start -d, stop, restart and migrate, each a   *)
(* process of its own that loads the configuration (Settings) before it    *)
(* does its work, and the daemons that start -d leaves running.  migrate   *)
(* works on the database (Schema).                                         *)
(*                                                                         *)
(* External: the process table, which ps shows whole at one moment, kill   *)
(* and the shell.  How a daemon ends is in module Process; here it has the *)
(* phases that decide what SIGTERM does to it.                             *)
(***************************************************************************)
EXTENDS Settings, Schema

CONSTANTS Shells,       \* the commands that are given
          Kinds,        \* what they may be
          KindsUp       \* the same, if a daemon runs from the beginning
                        \* (a bound of model checking only)

(* The daemon that the command of shell c starts, and one that may run     *)
(* from the beginning.                                                     *)
Daemon(c) == <<c>>
Old == <<>>
Daemons == {Daemon(c) : c \in Shells} \cup {Old}

ASSUME CommandsAssumption ==
  /\ KindsUp \subseteq Kinds
  /\ Kinds \subseteq {"start", "stop", "restart", "migrate", "drop"}
  /\ Procs = Shells \cup Daemons /\ Migrators = Shells
  /\ Shells \cap Daemons = {}

VARIABLES jobs,       \* jobs[c]: what command c has still to do
          at,         \* at[c]: where it is with Head(jobs[c])
          pids,       \* pids[c]: the processes it has still to kill
          signalled,  \* signalled[c]: those it has killed, with kill
          before,     \* before[c]: the commands that had ended when c began
          phase,      \* phase[d]: daemon d
          ignored,    \* the daemons that lost a SIGTERM
          since       \* since[c]: the daemons started since c looked for pids

cmdVars == <<jobs, at, pids, signalled, before, phase, ignored, since>>
vars == <<setVars, schemaVars, cmdVars>>

Places == {"new", "load", "run", "spawn", "find", "kill", "poll", "migrate", "ended"}
Phases == {"none", "boot", "serving", "busy", "stopping", "gone"}

TypeOK ==
  /\ SetTypeOK /\ SchemaTypeOK
  /\ jobs \in [Shells -> {<<>>} \cup {<<k>> : k \in Kinds \cup {"stop", "start"}}
                          \cup {<<"stop", "start">>}]
  /\ at \in [Shells -> Places]
  /\ pids \in [Shells -> SUBSET Daemons] /\ signalled \in [Shells -> SUBSET Daemons]
  /\ before \in [Shells -> SUBSET Shells]
  /\ phase \in [Daemons -> Phases]
  /\ ignored \subseteq Daemons /\ since \in [Shells -> SUBSET Daemons]

Init ==
  /\ SchemaInit
  /\ jobs = [c \in Shells |-> <<>>] /\ at = [c \in Shells |-> "new"]
  /\ pids = [c \in Shells |-> {}] /\ signalled = [c \in Shells |-> {}]
  /\ before = [c \in Shells |-> {}]
  /\ \/ SetInitWith({}) /\ phase = [d \in Daemons |-> "none"]
     \/ /\ phase = [d \in Daemons |-> IF d = Old THEN "serving" ELSE "none"]
        /\ SetInitWith({Old})
  /\ ignored = {} /\ since = [c \in Shells |-> {}]

At(c, s) == at' = [at EXCEPT ![c] = s]

(* FindPidSliceByProcessName, ProcessIsRunning.                            *)
Running == {d \in Daemons : phase[d] \notin {"none", "gone"}}

-----------------------------------------------------------------------------
(* A command: the configuration first, by Default, then Execute.           *)

GiveCommand(c) ==
  /\ at[c] = "new"
  /\ \E k \in IF phase[Old] = "none" THEN Kinds ELSE KindsUp :
       jobs' = [jobs EXCEPT ![c] = <<k>>]
  /\ before' = [before EXCEPT ![c] = {b \in Shells : at[b] = "ended"}]
  /\ At(c, "load")
  /\ BeginLoad(c)
  /\ UNCHANGED <<schemaVars, pids, signalled, phase, ignored, since>>

CommandLoads(c) ==
  /\ at[c] = "load"
  /\ LoadStep(c)
  /\ UNCHANGED <<schemaVars, cmdVars>>

(* The job has ended; restart goes on with the next, whatever came of it.  *)
NextJob(c) ==
  /\ jobs' = [jobs EXCEPT ![c] = Tail(@)]
  /\ IF Len(jobs[c]) > 1 THEN At(c, "load") /\ BeginLoad(c)
     ELSE At(c, "ended") /\ UNCHANGED setVars

Job(c) == Head(jobs[c])

(* log.Fatalln                                                             *)
LoadFailed(c) ==
  /\ at[c] = "load" /\ step[c] = "failed"
  /\ NextJob(c)
  /\ UNCHANGED <<schemaVars, pids, signalled, before, phase, ignored, since>>

Loaded(c, k) == at[c] = "load" /\ step[c] = "loaded" /\ Job(c) = k

(* restart runs the program twice and waits for each.                      *)
Restart(c) ==
  /\ Loaded(c, "restart")
  /\ jobs' = [jobs EXCEPT ![c] = <<"stop", "start">>]
  /\ BeginLoad(c)
  /\ UNCHANGED <<schemaVars, at, pids, signalled, before, phase, ignored, since>>

-----------------------------------------------------------------------------
(* start -d                                                                *)

(* Mutant: it does not look whether the program runs.                      *)
StartLooks_Not(c) ==
  /\ Loaded(c, "start")
  /\ At(c, "spawn")
  /\ UNCHANGED <<setVars, schemaVars, jobs, pids, signalled, before, phase, ignored, since>>

StartLooks(c) ==
  /\ Loaded(c, "start")
  /\ IF Running = {} THEN At(c, "spawn") /\ UNCHANGED <<setVars, jobs>> ELSE NextJob(c)
  /\ UNCHANGED <<schemaVars, pids, signalled, before, phase, ignored, since>>

(* The daemon, a child that outlives the command, loads for itself.        *)
Spawn(c) ==
  /\ at[c] = "spawn"
  /\ phase' = [phase EXCEPT ![Daemon(c)] = "boot"]
  /\ since' = [b \in Shells |-> since[b] \cup {Daemon(c)}]
  /\ jobs' = [jobs EXCEPT ![c] = <<>>] /\ At(c, "ended")
  /\ BeginLoad(Daemon(c))
  /\ UNCHANGED <<schemaVars, pids, signalled, before, ignored>>

-----------------------------------------------------------------------------
(* stop: KillProcess looks, looks again for the pids, and kills one by one *)

StopLooks(c) ==
  /\ Loaded(c, "stop")
  /\ IF Running = {} THEN NextJob(c) ELSE At(c, "find") /\ UNCHANGED <<setVars, jobs>>
  /\ UNCHANGED <<schemaVars, pids, signalled, before, phase, ignored, since>>

FindPids(c) ==
  /\ at[c] = "find"
  /\ pids' = [pids EXCEPT ![c] = Running]
  /\ since' = [since EXCEPT ![c] = {}]
  /\ At(c, "kill")
  /\ UNCHANGED <<setVars, schemaVars, jobs, signalled, before, phase, ignored>>

(* Mutant: a daemon that is still starting does not take the signal.       *)
Kill_NotAtBoot(c, d) ==
  /\ at[c] = "kill" /\ d \in pids[c]
  /\ pids' = [pids EXCEPT ![c] = @ \ {d}]
  /\ signalled' = [signalled EXCEPT ![c] = @ \cup {d}]
  /\ phase' = [phase EXCEPT ![d] = IF @ = "serving" THEN "stopping" ELSE @]
  /\ ignored' = ignored \cup ({d} \cap {e \in Daemons : phase[e] = "busy"})
  /\ UNCHANGED <<setVars, schemaVars, jobs, at, before, since>>

(* SIGTERM: deadly before Notify, dropped while nobody receives.           *)
Kill(c, d) ==
  /\ at[c] = "kill" /\ d \in pids[c]
  /\ pids' = [pids EXCEPT ![c] = @ \ {d}]
  /\ signalled' = [signalled EXCEPT ![c] = @ \cup {d}]
  /\ phase' = [phase EXCEPT ![d] =
       CASE @ = "boot" -> "gone" [] @ = "serving" -> "stopping" [] OTHER -> @]
  /\ IF phase[d] = "boot" THEN Dies(d) ELSE UNCHANGED <<conf, temp, step, viper, latest, raced, torn>>
  /\ ignored' = ignored \cup ({d} \cap {e \in Daemons : phase[e] = "busy"})
  /\ UNCHANGED <<crashes, schemaVars, jobs, at, before, since>>

Killed(c) ==
  /\ at[c] = "kill" /\ pids[c] = {}
  /\ At(c, "poll")
  /\ UNCHANGED <<setVars, schemaVars, jobs, pids, signalled, before, phase, ignored, since>>

(* Mutant: it does not wait for the processes to end.                      *)
Poll_Not(c) ==
  /\ at[c] = "poll"
  /\ NextJob(c)
  /\ UNCHANGED <<schemaVars, pids, signalled, before, phase, ignored, since>>

(* "Server Stopped OK!"                                                    *)
Poll(c) ==
  /\ at[c] = "poll" /\ Running = {}
  /\ NextJob(c)
  /\ UNCHANGED <<schemaVars, pids, signalled, before, phase, ignored, since>>

-----------------------------------------------------------------------------
(* migrate, and migrate -d                                                 *)

Migrate(c) ==
  /\ at[c] = "load" /\ step[c] = "loaded" /\ Job(c) \in {"migrate", "drop"}
  /\ BeginMigrate(c, Job(c) = "drop")
  /\ At(c, "migrate")
  /\ UNCHANGED <<setVars, jobs, pids, signalled, before, phase, ignored, since>>

MigrateStep(c) ==
  /\ at[c] = "migrate"
  /\ SchemaStep(c)
  /\ UNCHANGED <<setVars, cmdVars>>

Migrated(c) ==
  /\ at[c] = "migrate" /\ sync[c].at \in Ends
  /\ NextJob(c)
  /\ UNCHANGED <<schemaVars, pids, signalled, before, phase, ignored, since>>

-----------------------------------------------------------------------------
(* Daemons.                                                                *)

Phase(d, s) == phase' = [phase EXCEPT ![d] = s]

DaemonBoots(d) ==
  /\ phase[d] = "boot"
  /\ \/ LoadStep(d) /\ UNCHANGED phase
     \/ step[d] = "loaded" /\ Phase(d, "serving") /\ UNCHANGED setVars
     \/ step[d] = "failed" /\ Phase(d, "gone") /\ UNCHANGED setVars
  /\ UNCHANGED <<schemaVars, jobs, at, pids, signalled, before, ignored, since>>

(* Another signal: for a moment nobody receives.                           *)
DaemonBusy(d) ==
  /\ phase[d] = "serving" /\ Phase(d, "busy")
  /\ UNCHANGED <<setVars, schemaVars, jobs, at, pids, signalled, before, ignored, since>>

DaemonBack(d) ==
  /\ phase[d] = "busy" /\ Phase(d, "serving")
  /\ UNCHANGED <<setVars, schemaVars, jobs, at, pids, signalled, before, ignored, since>>

(* shutdownAction has ended, and cuts a WriteToTemp that still runs.       *)
DaemonStops(d) ==
  /\ phase[d] = "stopping" /\ Phase(d, "gone")
  /\ Dies(d)
  /\ UNCHANGED <<crashes, schemaVars, jobs, at, pids, signalled, before, ignored, since>>

DaemonSaves(d) ==
  /\ phase[d] \in {"serving", "busy", "stopping"}
  /\ WriteToTemp(d) \/ Saved(d)
  /\ UNCHANGED <<schemaVars, cmdVars>>

DaemonDies(d) ==
  /\ phase[d] \notin {"none", "gone"}
  /\ Crash(d)
  /\ Phase(d, "gone")
  /\ UNCHANGED <<schemaVars, jobs, at, pids, signalled, before, ignored, since>>

(* A command is interrupted while it loads.                                *)
CommandDies(c) ==
  /\ at[c] = "load" /\ Crash(c)
  /\ UNCHANGED <<schemaVars, cmdVars>>

-----------------------------------------------------------------------------
CommandStep(c) ==
  \/ CommandLoads(c) \/ LoadFailed(c) \/ Restart(c)
  \/ StartLooks(c) \/ Spawn(c)
  \/ StopLooks(c) \/ FindPids(c) \/ (\E d \in Daemons : Kill(c, d)) \/ Killed(c) \/ Poll(c)
  \/ Migrate(c) \/ MigrateStep(c) \/ Migrated(c)

DaemonRuns(d) == DaemonBoots(d) \/ DaemonBack(d) \/ DaemonStops(d)

Next ==
  \/ \E c \in Shells : GiveCommand(c) \/ CommandStep(c) \/ CommandDies(c)
  \/ \E d \in Daemons :
       DaemonRuns(d) \/ DaemonBusy(d) \/ DaemonSaves(d) \/ DaemonDies(d)

(* Commands and daemons that run go on; a shutdown ends (Process).         *)
Fairness ==
  /\ \A c \in Shells : WF_vars(CommandStep(c))
  /\ \A d \in Daemons : WF_vars(DaemonRuns(d)) /\ WF_vars(DaemonSaves(d) /\ step[d] = "saving")

Spec == Init /\ [][Next]_vars /\ Fairness

-----------------------------------------------------------------------------
(* Two daemons run at once only if the commands that started them          *)
(* overlapped: start looks before it starts (cmd_start.go:38), and nothing *)
(* keeps two of them apart.                                                *)
StartedOnce ==
  \A c \in Shells : Daemon(c) \in Running =>
    Running \cap ({Old} \cup {Daemon(b) : b \in before[c]}) = {}

(* When stop has said that the server stopped, and when restart starts the *)
(* next, what stop killed is gone, not just told to go (cmd_stop.go:38).   *)
StoppedAreGone ==
  \A c \in Shells :
    at[c] \notin {"find", "kill", "poll"} =>
      \A d \in signalled[c] : phase[d] = "gone"

(* stop ends: it polls the name of the program, so what can keep it is a   *)
(* daemon that lost its signal or one that was started in the meantime.    *)
StopEnds ==
  \A c \in Shells :
    at[c] = "poll" ~>
      \/ at[c] # "poll"
      \/ Running \cap (ignored \cup since[c]) # {}
=============================================================================
