---------------------------- MODULE Commands_proofs ----------------------------
(***************************************************************************)
(* Commands for any number of commands, settings, crashes, tables, initial *)
(* rows and failing statements: settings survive and are loaded, one       *)
(* daemon runs unless commands overlapped, what stop killed is gone, and   *)
(* migrations are complete and can be repeated.                            *)
(***************************************************************************)
EXTENDS Commands, Recursion

USE SettingsAssumption

-----------------------------------------------------------------------------
(* The configuration files.                                                *)

Loading == {p \in Procs : step[p] \in LoadSteps}
Saving == {p \in Procs : step[p] = "saving"}

(* A change is written when no process loads.                              *)
SavingAlone ==
  \A p \in Saving : \A q \in Procs : q # p => q \notin Loading \cup Saving

(* Without conf_temp.yml the configuration file has the last change, and   *)
(* loads only read.                                                        *)
InConf ==
  /\ conf = latest
  /\ \A p \in Loading :
       step[p] \in {"read", "stat"} /\ (step[p] = "stat" => viper[p] = latest)

(* Otherwise conf_temp.yml has it, and one load at most moves it.          *)
InTemp ==
  /\ temp = latest
  /\ \A p, q \in Loading : p = q
  /\ \A p \in Loading :
       /\ step[p] \in {"truncate", "fill", "remove"} => viper[p] = latest
       /\ step[p] = "remove" => conf = latest

FilesInv ==
  /\ \A p \in Saving : viper[p] \in Versions
  /\ ~raced /\ ~torn =>
       /\ SavingAlone
       /\ Saving = {} => IF temp = Absent THEN InConf ELSE InTemp

SetInv == SetTypeOK /\ FilesInv

(* What commands and daemons do to the files.                              *)
SetMove ==
  \/ \E p \in Procs :
       \/ BeginLoad(p) /\ step[p] # "saving"
       \/ LoadStep(p)
       \/ WriteToTemp(p)
       \/ Saved(p)
       \/ Dies(p) /\ crashes' \in 0..MaxCrashes
  \/ UNCHANGED setVars

LEMMA Contents ==
  /\ Absent \notin Versions /\ Broken \notin Versions /\ Empty \notin Versions
  /\ Absent # Broken /\ Absent # Empty /\ Broken # Empty /\ 1 \in Versions
BY DEF Absent, Broken, Empty, Versions

(* A setting that survives is what FilesInv says while nobody writes.      *)
LEMMA FilesKeep == FilesInv => SettingsSurvive
BY DEF FilesInv, SettingsSurvive, Saving, InConf, InTemp

LEMMA SetInitInv == ASSUME NEW up \in SUBSET Procs, SetInitWith(up) PROVE SetInv
<1> USE Contents DEF SetInitWith
<1>1. SetTypeOK
  <2>1. 0 \in 0..MaxCrashes
    OBVIOUS
  <2> QED
    BY <2>1 DEF SetTypeOK, LoadSteps
<1>2. Saving = {} /\ Loading = {}
  BY DEF Saving, Loading, LoadSteps
<1> QED
  BY <1>1, <1>2 DEF SetInv, FilesInv, SavingAlone, InConf

LEMMA SetTypes == ASSUME SetInv, SetMove PROVE SetTypeOK'
<1> USE Contents DEF SetTypeOK, LoadSteps, StepTo, Fetch
<1> SUFFICES ASSUME SetTypeOK, \A p \in Saving : viper[p] \in Versions PROVE SetTypeOK'
  BY DEF SetInv, FilesInv
<1>1. ASSUME NEW p \in Procs, BeginLoad(p) PROVE SetTypeOK'
  BY <1>1 DEF BeginLoad
<1>2. ASSUME NEW p \in Procs, LoadStep(p) PROVE SetTypeOK'
  <2>1. CASE ReadConf(p) BY <2>1 DEF ReadConf
  <2>2. CASE StatTemp(p) BY <2>2 DEF StatTemp
  <2>3. CASE ReadTemp(p) BY <2>3 DEF ReadTemp
  <2>4. CASE TruncateConf(p) BY <2>4 DEF TruncateConf
  <2>5. CASE FillConf(p) BY <2>5 DEF FillConf
  <2>6. CASE RemoveTemp(p) BY <2>6 DEF RemoveTemp
  <2> QED BY <1>2, <2>1, <2>2, <2>3, <2>4, <2>5, <2>6 DEF LoadStep
<1>3. ASSUME NEW p \in Procs, WriteToTemp(p) PROVE SetTypeOK'
  <2>1. latest + 1 \in Versions
    BY <1>3 DEF WriteToTemp, Versions
  <2> QED
    BY <1>3, <2>1 DEF WriteToTemp
<1>4. ASSUME NEW p \in Procs, Saved(p) PROVE SetTypeOK'
  <2>1. viper[p] \in Versions
    BY <1>4 DEF Saved, Saving
  <2> QED
    BY <1>4, <2>1 DEF Saved
<1>5. ASSUME NEW p \in Procs, Dies(p), crashes' \in 0..MaxCrashes PROVE SetTypeOK'
  BY <1>5 DEF Dies
<1>6. CASE UNCHANGED setVars
  BY <1>6 DEF setVars
<1> QED
  BY <1>1, <1>2, <1>3, <1>4, <1>5, <1>6 DEF SetMove

LEMMA SetMoveInv == ASSUME SetInv, SetMove PROVE SetInv'
<1> USE Contents DEF StepTo, Fetch, Others
<1> SUFFICES FilesInv'
  BY SetTypes DEF SetInv
<1>0. SetTypeOK /\ FilesInv
  BY DEF SetInv
<1> USE <1>0
<1>1. ASSUME NEW p \in Procs, BeginLoad(p), step[p] # "saving" PROVE FilesInv'
  <2>1. Saving' = Saving /\ Loading' = Loading \cup {p}
    BY <1>1 DEF BeginLoad, SetTypeOK, Loading, Saving, LoadSteps
  <2>2. ~raced' => ~raced /\ Saving = {} /\ (temp # Absent => Loading \subseteq {p})
    BY <1>1 DEF BeginLoad, SetTypeOK, Loading, Saving
  <2>3. /\ \A q \in Procs : q # p => step'[q] = step[q]
        /\ step'[p] = "read" /\ UNCHANGED <<conf, temp, viper, latest, torn>>
    BY <1>1 DEF BeginLoad, SetTypeOK
  <2>4. \A q \in Saving' : viper'[q] \in Versions
    BY <2>1, <2>3 DEF FilesInv
  <2>5. ASSUME ~raced', ~torn' PROVE SavingAlone' /\ (IF temp' = Absent THEN InConf' ELSE InTemp')
    <3>1. SavingAlone'
      BY <2>1, <2>2, <2>5 DEF SavingAlone
    <3>2. IF temp = Absent THEN InConf ELSE InTemp
      BY <2>2, <2>3, <2>5 DEF FilesInv
    <3>3. Loading \subseteq Procs
      BY DEF Loading
    <3>4. ASSUME temp = Absent PROVE InConf'
      <4>1. InConf
        BY <3>2, <3>4
      <4>2. \A q \in Loading' : q # p => q \in Loading /\ step'[q] = step[q]
        BY <2>1, <2>3, <3>3
      <4> QED
        BY <2>3, <4>1, <4>2 DEF InConf
    <3>5. ASSUME temp # Absent PROVE InTemp'
      <4>1. InTemp /\ Loading' = {p}
        BY <2>1, <2>2, <2>5, <3>2, <3>5
      <4> QED
        BY <2>3, <4>1 DEF InTemp
    <3> QED
      BY <2>3, <3>1, <3>4, <3>5
  <2> QED
    BY <2>4, <2>5 DEF FilesInv
<1>2. ASSUME NEW p \in Procs, LoadStep(p) PROVE FilesInv'
  <2> USE DEF FilesInv, SetTypeOK, SavingAlone, InConf, InTemp, Loading, Saving, LoadSteps
  <2>1. CASE ReadConf(p) BY <2>1 DEF ReadConf
  <2>2. CASE StatTemp(p) BY <2>2 DEF StatTemp
  <2>3. CASE ReadTemp(p) BY <2>3 DEF ReadTemp
  <2>4. CASE TruncateConf(p) BY <2>4 DEF TruncateConf
  <2>5. CASE FillConf(p) BY <2>5 DEF FillConf
  <2>6. CASE RemoveTemp(p) BY <2>6 DEF RemoveTemp
  <2> QED BY <1>2, <2>1, <2>2, <2>3, <2>4, <2>5, <2>6 DEF LoadStep
<1>3. ASSUME NEW p \in Procs, WriteToTemp(p) PROVE FilesInv'
  <2>1. latest + 1 \in Versions
    BY <1>3 DEF WriteToTemp, Versions, SetTypeOK
  <2> QED
    BY <1>3, <2>1 DEF WriteToTemp, FilesInv, SetTypeOK, SavingAlone, Loading, Saving, LoadSteps
<1>4. ASSUME NEW p \in Procs, Saved(p) PROVE FilesInv'
  BY <1>4 DEF Saved, FilesInv, SetTypeOK, SavingAlone, InTemp, Loading, Saving, LoadSteps
<1>5. ASSUME NEW p \in Procs, Dies(p) PROVE FilesInv'
  <2>1. Saving' = Saving \ {p} /\ Loading' = Loading \ {p}
    BY <1>5 DEF Dies, SetTypeOK, Loading, Saving, LoadSteps
  <2>2. /\ \A q \in Procs : q # p => step'[q] = step[q]
        /\ UNCHANGED <<viper, latest, raced>>
    BY <1>5 DEF Dies, SetTypeOK
  <2>3. ~torn' => ~torn /\ p \notin Saving /\ temp' = temp
    BY <1>5 DEF Dies, Saving
  <2>4. p \notin Loading => conf' = conf
    BY <1>5 DEF Dies, Loading, LoadSteps
  <2>5. step[p] \in {"read", "stat"} => conf' = conf
    BY <1>5 DEF Dies
  <2>6. ASSUME ~raced', ~torn' PROVE SavingAlone'
    BY <2>1, <2>2, <2>3, <2>6 DEF FilesInv, SavingAlone
  <2>7. ASSUME ~raced', ~torn', Saving' = {}
        PROVE  IF temp' = Absent THEN InConf' ELSE InTemp'
    <3>1. IF temp = Absent THEN InConf ELSE InTemp
      BY <2>1, <2>2, <2>3, <2>7 DEF FilesInv
    <3>2. ASSUME temp = Absent PROVE InConf'
      <4>1. InConf
        BY <3>1, <3>2
      <4>2. conf' = conf
        BY <2>4, <2>5, <4>1 DEF InConf
      <4> QED
        BY <2>1, <2>2, <4>1, <4>2 DEF InConf, Loading
    <3>3. ASSUME temp # Absent PROVE InTemp'
      <4>1. InTemp
        BY <3>1, <3>3
      <4>2. \A q \in Loading' : q \in Loading /\ step'[q] = step[q] /\ conf' = conf
        BY <2>1, <2>2, <2>4, <4>1 DEF InTemp, Loading
      <4> QED
        BY <2>2, <2>3, <2>7, <4>1, <4>2 DEF InTemp
    <3> QED
      BY <2>3, <2>7, <3>2, <3>3
  <2> QED
    BY <2>1, <2>2, <2>6, <2>7 DEF FilesInv
<1>6. CASE UNCHANGED setVars
  BY <1>6 DEF setVars, FilesInv, SavingAlone, InConf, InTemp, Loading, Saving
<1> QED
  BY <1>1, <1>2, <1>3, <1>4, <1>5, <1>6 DEF SetMove

(* The action of LoadSeesLatest.                                           *)
SeesLatest ==
  \A p \in Procs :
    step[p] \in LoadSteps /\ step'[p] = "loaded" /\ ~raced /\ ~torn =>
      viper'[p] = latest

LEMMA SetMoveSees == ASSUME SetInv, SetMove PROVE SeesLatest
<1> SUFFICES ASSUME NEW p \in Procs, step[p] \in LoadSteps, step'[p] = "loaded", ~raced, ~torn
             PROVE  viper'[p] = latest
  BY DEF SeesLatest
<1>0. SetTypeOK /\ FilesInv
  BY DEF SetInv
<1> USE <1>0 DEF StepTo, Fetch, Others
<1>1. StatTemp(p) \/ RemoveTemp(p)
  <2>1. PICK q \in Procs : \/ BeginLoad(q) \/ LoadStep(q) \/ WriteToTemp(q) \/ Saved(q) \/ Dies(q)
    BY DEF SetMove, setVars, LoadSteps
  <2>2. step' = [step EXCEPT ![q] = step'[q]]
    BY <2>1 DEF BeginLoad, LoadStep, WriteToTemp, Saved, Dies, SetTypeOK,
                ReadConf, StatTemp, ReadTemp, TruncateConf, FillConf, RemoveTemp
  <2>3. q = p
    BY <2>2 DEF SetTypeOK, LoadSteps
  <2> QED
    BY <2>1, <2>3 DEF BeginLoad, LoadStep, WriteToTemp, Saved, Dies, SetTypeOK, LoadSteps,
                ReadConf, ReadTemp, TruncateConf, FillConf
<1>2. p \in Loading /\ Saving = {}
  BY DEF Loading, Saving, FilesInv, SavingAlone, LoadSteps
<1> QED
  <2>1. IF temp = Absent THEN InConf ELSE InTemp
    BY <1>2 DEF FilesInv
  <2>2. viper' = viper
    BY <1>1 DEF StatTemp, RemoveTemp
  <2>3. CASE StatTemp(p)
    <3>1. step[p] = "stat" /\ temp = Absent
      BY <2>3 DEF StatTemp, SetTypeOK
    <3> QED
      BY <1>2, <2>1, <2>2, <3>1 DEF InConf
  <2>4. CASE RemoveTemp(p)
    <3>1. step[p] = "remove"
      BY <2>4 DEF RemoveTemp
    <3> QED
      BY <1>2, <2>1, <2>2, <3>1 DEF InConf, InTemp
  <2> QED
    BY <1>1, <2>3, <2>4

-----------------------------------------------------------------------------
(* The process table.                                                      *)

CmdTypeOK ==
  /\ jobs \in [Shells -> {<<>>} \cup {<<k>> : k \in Kinds \cup {"stop", "start"}}
                          \cup {<<"stop", "start">>}]
  /\ at \in [Shells -> Places]
  /\ pids \in [Shells -> SUBSET Daemons] /\ signalled \in [Shells -> SUBSET Daemons]
  /\ before \in [Shells -> SUBSET Shells]
  /\ phase \in [Daemons -> Phases]
  /\ ignored \subseteq Daemons /\ since \in [Shells -> SUBSET Daemons]

(* A command has a job until it ends, and one that migrates no other.      *)
JobsFit ==
  /\ \A c \in Shells : at[c] \notin {"new", "ended"} => jobs[c] # <<>>
  /\ \A c \in Shells : at[c] = "migrate" => Len(jobs[c]) = 1
  /\ \A c \in Shells : at[c] \notin {"migrate", "ended"} => sync[c].at = "none"
  /\ DOMAIN sync = Shells

(* A command ends with the daemon it starts.                               *)
SpawnsLast == \A c \in Shells : at[c] # "ended" => phase[Daemon(c)] = "none"

Older(c) == {Old} \cup {Daemon(b) : b \in before[c]}

(* A command that saw no daemon run starts one: those from before do not   *)
(* come back.                                                              *)
OldAreGone ==
  /\ \A c \in Shells : \A b \in before[c] : at[b] = "ended"
  /\ \A c \in Shells :
       at[c] = "spawn" \/ phase[Daemon(c)] # "none" => Running \cap Older(c) = {}

(* What is killed was started.                                             *)
KillsStarted == \A c \in Shells : \A d \in pids[c] \cup signalled[c] : phase[d] # "none"

(* Daemons that serve write settings, commands do not.                     *)
DaemonsSave ==
  \A p \in Procs : step[p] = "saving" =>
    p \in Daemons /\ phase[p] \in {"serving", "busy", "stopping"}

TableInv ==
  /\ CmdTypeOK /\ JobsFit /\ SpawnsLast /\ OldAreGone /\ KillsStarted /\ StoppedAreGone
  /\ DaemonsSave

LEMMA DaemonsDiffer ==
  /\ \A c \in Shells : Daemon(c) \in Daemons /\ Daemon(c) # Old
  /\ \A b, c \in Shells : Daemon(b) = Daemon(c) => b = c
  /\ Old \in Daemons /\ Daemons \subseteq Procs /\ Shells \subseteq Procs
BY CommandsAssumption DEF Daemon, Daemons, Old

(* StartedOnce is OldAreGone for the daemons that run.                     *)
LEMMA OldDoNotRun == TableInv => StartedOnce
BY DaemonsDiffer DEF TableInv, OldAreGone, StartedOnce, Older, Running, CmdTypeOK

(* Only Spawn makes a daemon, and none comes back.                         *)
PhasesOn ==
  /\ phase' \in [Daemons -> Phases]
  /\ \A d \in Daemons : /\ phase[d] = "none" <=> phase'[d] = "none"
                        /\ phase[d] = "gone" => phase'[d] = "gone"

(* What neither a command's place nor its targets change.                  *)
LEMMA DaemonsRun ==
  ASSUME TableInv, PhasesOn, DaemonsSave', ignored' \subseteq Daemons, sync' = sync,
         UNCHANGED <<jobs, at, pids, signalled, before, since>>
  PROVE  TableInv'
<1>1. CmdTypeOK'
  BY DEF TableInv, CmdTypeOK, PhasesOn
<1>2. JobsFit'
  BY DEF TableInv, JobsFit
<1>3. SpawnsLast'
  BY DaemonsDiffer DEF TableInv, SpawnsLast, PhasesOn
<1>4. Running' \subseteq Running
  BY DEF Running, PhasesOn, TableInv, CmdTypeOK
<1>5. OldAreGone'
  <2>1. \A c \in Shells : phase'[Daemon(c)] # "none" => phase[Daemon(c)] # "none"
    BY DaemonsDiffer DEF PhasesOn
  <2> QED
    BY <1>4, <2>1 DEF TableInv, OldAreGone, Older
<1>6. KillsStarted'
  BY DEF TableInv, CmdTypeOK, KillsStarted, PhasesOn
<1>7. StoppedAreGone'
  BY DEF TableInv, CmdTypeOK, StoppedAreGone, PhasesOn
<1> QED
  BY <1>1, <1>2, <1>3, <1>5, <1>6, <1>7 DEF TableInv

(* A command goes from a place to the next, and leaves the daemons alone.  *)
LEMMA CommandMoves ==
  ASSUME TableInv, NEW c \in Shells, NEW s \in Places, at[c] # "ended", At(c, s),
         \/ before' = before
         \/ at[c] = "new" /\ before' = [before EXCEPT ![c] = {b \in Shells : at[b] = "ended"}],
         s = "spawn" => Running = {},
         at[c] \in {"find", "kill", "poll"} => s \in {"find", "kill", "poll"} \/ Running = {},
         pids' = pids \/ pids' = [pids EXCEPT ![c] = Running],
         signalled' = signalled, phase' = phase,
         CmdTypeOK', JobsFit', DaemonsSave'
  PROVE  TableInv'
<1>1. \A b \in Shells : at'[b] = IF b = c THEN s ELSE at[b]
  BY DEF At, TableInv, CmdTypeOK
<1>2. SpawnsLast'
  BY <1>1 DEF TableInv, SpawnsLast
<1>3. OldAreGone'
  <2>1. \A b \in Shells : \A e \in before'[b] : at[e] = "ended"
    BY DEF TableInv, OldAreGone, CmdTypeOK
  <2>2. ASSUME NEW b \in Shells, at'[b] = "spawn" \/ phase'[Daemon(b)] # "none"
        PROVE  (Running \cap Older(b))' = {}
    <3>1. Running' = Running
      BY DEF Running
    <3>2. CASE b = c
      BY <1>1, <2>2, <3>1, <3>2 DEF TableInv, SpawnsLast
    <3>3. CASE b # c
      BY <1>1, <2>2, <3>1, <3>3 DEF TableInv, OldAreGone, Older, CmdTypeOK
    <3> QED
      BY <3>2, <3>3
  <2>3. \A b \in Shells : \A e \in before'[b] : at'[e] = "ended"
    BY <1>1, <2>1 DEF CmdTypeOK
  <2> QED
    BY <2>2, <2>3 DEF OldAreGone
<1>4. KillsStarted'
  BY DEF TableInv, KillsStarted, CmdTypeOK, Running
<1>5. StoppedAreGone'
  <2> SUFFICES ASSUME NEW b \in Shells, at'[b] \notin {"find", "kill", "poll"}, NEW d \in signalled[b]
               PROVE  phase[d] = "gone"
    BY DEF StoppedAreGone
  <2>1. CASE b = c /\ Running = {}
    BY <2>1 DEF TableInv, CmdTypeOK, KillsStarted, Running
  <2>2. CASE ~(b = c /\ Running = {})
    BY <1>1, <2>2 DEF TableInv, StoppedAreGone
  <2> QED
    BY <2>1, <2>2
<1> QED
  BY <1>2, <1>3, <1>4, <1>5 DEF TableInv

LEMMA LoadsDoNotSave ==
  ASSUME SetTypeOK, DaemonsSave, NEW p \in Procs, BeginLoad(p) \/ LoadStep(p), phase' = phase
  PROVE  DaemonsSave'
BY DEF DaemonsSave, BeginLoad, LoadStep, ReadConf, StatTemp, ReadTemp, TruncateConf, FillConf,
       RemoveTemp, StepTo, SetTypeOK

LEMMA JobsAre ==
  ASSUME CmdTypeOK, NEW c \in Shells, jobs[c] # <<>>
  PROVE  \/ Len(jobs[c]) = 1 /\ Tail(jobs[c]) = <<>>
         \/ jobs[c] = <<"stop", "start">> /\ Tail(jobs[c]) = <<"start">> /\ Len(jobs[c]) = 2
<1>1. jobs[c] \in {<<k>> : k \in Kinds \cup {"stop", "start"}} \cup {<<"stop", "start">>}
  BY DEF CmdTypeOK
<1>2. CASE jobs[c] = <<"stop", "start">>
  BY <1>2
<1>3. ASSUME NEW k, jobs[c] = <<k>> PROVE Len(jobs[c]) = 1 /\ Tail(jobs[c]) = <<>>
  BY <1>3
<1> QED
  BY <1>1, <1>2, <1>3

LEMMA NextJobMoves ==
  ASSUME TableInv, SetTypeOK, NEW c \in Shells, at[c] \in {"load", "poll", "migrate"},
         NextJob(c), at[c] = "poll" => Running = {}, sync' = sync,
         UNCHANGED <<pids, signalled, before, phase, ignored, since>>
  PROVE  TableInv'
<1>0. CmdTypeOK /\ JobsFit /\ DaemonsSave /\ jobs[c] # <<>> /\ c \in Procs
  BY DaemonsDiffer DEF TableInv, JobsFit
<1>1. PICK s \in {"load", "ended"} :
        At(c, s) /\ (s = "load" <=> Len(jobs[c]) > 1) /\ (BeginLoad(c) \/ UNCHANGED setVars)
  BY DEF NextJob
<1>2. jobs' = [jobs EXCEPT ![c] = Tail(jobs[c])]
  BY DEF NextJob
<1>3. CmdTypeOK'
  <2>1. Tail(jobs[c]) \in {<<>>} \cup {<<k>> : k \in Kinds \cup {"stop", "start"}}
    BY <1>0, JobsAre
  <2> QED
    BY <1>0, <1>1, <1>2, <2>1 DEF CmdTypeOK, At, Places
<1>4. JobsFit'
  <2>1. s = "load" => Tail(jobs[c]) # <<>> /\ at[c] # "migrate"
    <3>0. ~(1 > 1)
      OBVIOUS
    <3>1. s = "load" => Len(jobs[c]) # 1
      BY <1>1, <3>0, Zenon
    <3>2. s = "load" => Tail(jobs[c]) = <<"start">>
      BY <1>0, <3>1, JobsAre
    <3>3. <<"start">> # <<>>
      OBVIOUS
    <3> QED
      BY <1>0, <3>1, <3>2, <3>3 DEF JobsFit
  <2> QED
    BY <1>0, <1>1, <1>2, <2>1 DEF JobsFit, At, CmdTypeOK
<1>5. DaemonsSave'
  BY <1>0, <1>1, LoadsDoNotSave DEF DaemonsSave, setVars
<1> QED
  BY <1>1, <1>3, <1>4, <1>5, CommandMoves DEF Places

LEMMA KillMoves ==
  ASSUME TableInv, SetTypeOK, NEW c \in Shells, NEW d \in Daemons, Kill(c, d)
  PROVE  TableInv'
<1>0. CmdTypeOK /\ at' = at /\ jobs' = jobs /\ before' = before /\ sync' = sync
  BY DEF Kill, TableInv, schemaVars
<1>1. PhasesOn
  BY <1>0 DEF Kill, PhasesOn, CmdTypeOK, Phases
<1>2. CmdTypeOK'
  BY <1>0, <1>1 DEF Kill, CmdTypeOK, PhasesOn
<1>3. JobsFit' /\ SpawnsLast'
  BY <1>0, <1>1, DaemonsDiffer DEF TableInv, JobsFit, SpawnsLast, PhasesOn
<1>4. OldAreGone'
  <2>1. Running' \subseteq Running
    BY <1>0, <1>1 DEF Running, PhasesOn, CmdTypeOK
  <2>2. \A b \in Shells : phase'[Daemon(b)] # "none" => phase[Daemon(b)] # "none"
    BY <1>1, DaemonsDiffer DEF PhasesOn
  <2> QED
    BY <1>0, <2>1, <2>2 DEF TableInv, OldAreGone, Older
<1>5. KillsStarted'
  BY <1>0, <1>1 DEF Kill, TableInv, KillsStarted, CmdTypeOK, PhasesOn
<1>6. StoppedAreGone'
  BY <1>0, <1>1 DEF Kill, TableInv, StoppedAreGone, CmdTypeOK, PhasesOn
<1>7. DaemonsSave'
  <2>1. \A p \in Procs : step'[p] = "saving" => step[p] = "saving" /\ (p = d => phase[d] # "boot")
    BY DaemonsDiffer DEF Kill, Dies, StepTo, SetTypeOK
  <2> QED
    BY <1>0, <2>1 DEF Kill, TableInv, DaemonsSave, CmdTypeOK
<1> QED
  BY <1>2, <1>3, <1>4, <1>5, <1>6, <1>7 DEF TableInv

LEMMA SpawnMoves ==
  ASSUME TableInv, SetTypeOK, NEW c \in Shells, Spawn(c)
  PROVE  TableInv'
<1>0. /\ CmdTypeOK /\ at[c] = "spawn" /\ at' = [at EXCEPT ![c] = "ended"]
      /\ phase[Daemon(c)] = "none" /\ phase' = [phase EXCEPT ![Daemon(c)] = "boot"]
      /\ Daemon(c) \in Daemons /\ sync' = sync /\ jobs' = [jobs EXCEPT ![c] = <<>>]
      /\ UNCHANGED <<pids, signalled, before>>
  BY DaemonsDiffer DEF Spawn, At, TableInv, SpawnsLast, schemaVars
<1>1. CmdTypeOK'
  BY <1>0 DEF Spawn, CmdTypeOK, Places, Phases
<1>2. JobsFit' /\ SpawnsLast'
  BY <1>0, DaemonsDiffer DEF TableInv, CmdTypeOK, JobsFit, SpawnsLast
<1>3. OldAreGone'
  <2>1. Running' = Running \cup {Daemon(c)}
    BY <1>0 DEF Running, CmdTypeOK
  <2>2. \A b \in Shells : Daemon(c) \notin Older(b)
    BY <1>0, DaemonsDiffer DEF TableInv, CmdTypeOK, OldAreGone, Older
  <2>3. \A b \in Shells : at'[b] = "spawn" \/ phase'[Daemon(b)] # "none"
                            => at[b] = "spawn" \/ phase[Daemon(b)] # "none"
    BY <1>0, DaemonsDiffer DEF CmdTypeOK
  <2>4. \A b \in Shells : \A e \in before'[b] : at'[e] = "ended"
    BY <1>0 DEF TableInv, CmdTypeOK, OldAreGone
  <2>5. \A b \in Shells : Older(b)' = Older(b)
    BY <1>0 DEF Older
  <2> QED
    BY <2>1, <2>2, <2>3, <2>4, <2>5 DEF TableInv, OldAreGone
<1>4. KillsStarted'
  BY <1>0 DEF TableInv, KillsStarted, CmdTypeOK
<1>5. StoppedAreGone'
  BY <1>0 DEF TableInv, StoppedAreGone, CmdTypeOK
<1>6. DaemonsSave'
  <2>1. step' = [step EXCEPT ![Daemon(c)] = "read"]
    BY DEF Spawn, BeginLoad, StepTo
  <2> QED
    BY <1>0, <2>1, DaemonsDiffer DEF TableInv, DaemonsSave, CmdTypeOK, SetTypeOK
<1> QED
  BY <1>1, <1>2, <1>3, <1>4, <1>5, <1>6 DEF TableInv

(* A migration is the work of one process.                                 *)
LEMMA OneMigrates ==
  ASSUME DOMAIN sync = Shells, NEW c \in Shells,
         SchemaStep(c) \/ (\E drop : BeginMigrate(c, drop))
  PROVE  DOMAIN sync' = Shells /\ \A b \in Shells \ {c} : sync'[b] = sync[b]
BY DEF SchemaStep, Statement, StatementFails, BeginMigrate, DropDatabase, CreateDB, DialDB, Sync2,
       Convert, ShowIndex, AddIndex, CountRows, Truncate, InsertBean, AfterSync, NextTable, SyncTo,
       Fails

LEMMA CommandsMove ==
  ASSUME TableInv, SetTypeOK, NEW c \in Shells,
         GiveCommand(c) \/ CommandStep(c) \/ CommandDies(c)
  PROVE  TableInv'
<1>0. /\ CmdTypeOK /\ JobsFit /\ DaemonsSave /\ c \in Procs
      /\ Places # {} /\ {"load", "spawn", "find", "kill", "poll", "migrate"} \subseteq Places
  BY DaemonsDiffer DEF TableInv, Places
<1> USE DEF At, cmdVars, schemaVars
<1>1. CASE GiveCommand(c)
  <2>1. PICK k \in Kinds : jobs' = [jobs EXCEPT ![c] = <<k>>]
    BY <1>1, CommandsAssumption DEF GiveCommand
  <2>2. CmdTypeOK'
    BY <1>0, <1>1, <2>1 DEF GiveCommand, CmdTypeOK
  <2>3. JobsFit'
    <3>1. <<k>> # <<>>
      OBVIOUS
    <3> QED
      BY <1>0, <1>1, <2>1, <3>1 DEF GiveCommand, JobsFit, CmdTypeOK
  <2>4. DaemonsSave'
    BY <1>0, <1>1, LoadsDoNotSave DEF GiveCommand
  <2> QED
    BY <1>0, <1>1, <2>2, <2>3, <2>4, CommandMoves DEF GiveCommand
<1>2. CASE CommandLoads(c)
  <2>1. DaemonsSave'
    BY <1>0, <1>2, LoadsDoNotSave DEF CommandLoads
  <2> QED
    BY <1>0, <1>2, <2>1, DaemonsRun DEF CommandLoads, PhasesOn, CmdTypeOK
<1>3. CASE CommandDies(c)
  <2>1. DaemonsSave'
    BY <1>0, <1>3 DEF CommandDies, Crash, Dies, StepTo, DaemonsSave, SetTypeOK
  <2> QED
    BY <1>0, <1>3, <2>1, DaemonsRun DEF CommandDies, PhasesOn, CmdTypeOK
<1>4. CASE LoadFailed(c)
  BY <1>4, NextJobMoves DEF LoadFailed
<1>5. CASE Restart(c)
  <2>1. CmdTypeOK'
    BY <1>0, <1>5 DEF Restart, CmdTypeOK
  <2>2. JobsFit'
    <3>1. <<"stop", "start">> # <<>>
      OBVIOUS
    <3> QED
      BY <1>0, <1>5, <3>1 DEF Restart, JobsFit, CmdTypeOK, Loaded
  <2>3. DaemonsSave'
    BY <1>0, <1>5, LoadsDoNotSave DEF Restart
  <2>4. at' = [at EXCEPT ![c] = "load"] /\ at[c] = "load"
    BY <1>0, <1>5 DEF Restart, Loaded, CmdTypeOK
  <2> QED
    BY <1>0, <1>5, <2>1, <2>2, <2>3, <2>4, CommandMoves DEF Restart
<1>6. CASE StartLooks(c)
  <2>1. CASE Running = {}
    <3>1. at[c] = "load" /\ at' = [at EXCEPT ![c] = "spawn"] /\ UNCHANGED setVars
      BY <1>6, <2>1 DEF StartLooks, Loaded
    <3>2. CmdTypeOK' /\ JobsFit' /\ DaemonsSave'
      BY <1>0, <1>6, <2>1, <3>1 DEF StartLooks, CmdTypeOK, JobsFit, DaemonsSave, setVars
    <3> QED
      BY <1>0, <1>6, <2>1, <3>1, <3>2, CommandMoves DEF StartLooks
  <2>2. CASE Running # {}
    BY <1>6, <2>2, NextJobMoves DEF StartLooks, Loaded
  <2> QED
    BY <2>1, <2>2
<1>7. CASE Spawn(c)
  BY <1>0, <1>7, SpawnMoves DEF TableInv
<1>8. CASE StopLooks(c)
  <2>1. CASE Running # {}
    <3>1. at[c] = "load" /\ at' = [at EXCEPT ![c] = "find"] /\ UNCHANGED setVars
      BY <1>8, <2>1 DEF StopLooks, Loaded
    <3>2. CmdTypeOK' /\ JobsFit' /\ DaemonsSave'
      BY <1>0, <1>8, <2>1, <3>1 DEF StopLooks, CmdTypeOK, JobsFit, DaemonsSave, setVars
    <3> QED
      BY <1>0, <1>8, <3>1, <3>2, CommandMoves DEF StopLooks
  <2>2. CASE Running = {}
    BY <1>8, <2>2, NextJobMoves DEF StopLooks, Loaded
  <2> QED
    BY <2>1, <2>2
<1>9. CASE FindPids(c)
  <2>1. CmdTypeOK' /\ JobsFit' /\ DaemonsSave'
    BY <1>0, <1>9 DEF FindPids, CmdTypeOK, JobsFit, DaemonsSave, setVars, Running
  <2> QED
    BY <1>0, <1>9, <2>1, CommandMoves DEF FindPids
<1>10. ASSUME NEW d \in Daemons, Kill(c, d) PROVE TableInv'
  BY <1>10, KillMoves
<1>11. CASE Killed(c)
  <2>1. CmdTypeOK' /\ JobsFit' /\ DaemonsSave'
    BY <1>0, <1>11 DEF Killed, CmdTypeOK, JobsFit, DaemonsSave, setVars
  <2> QED
    BY <1>0, <1>11, <2>1, CommandMoves DEF Killed
<1>12. CASE Poll(c)
  BY <1>12, NextJobMoves DEF Poll
<1>13. CASE Migrate(c)
  <2>1. CmdTypeOK' /\ DaemonsSave'
    BY <1>0, <1>13 DEF Migrate, CmdTypeOK, DaemonsSave, setVars
  <2>2. JobsFit'
    <3>1. Len(jobs[c]) = 1
      <4>1. jobs[c] # <<"stop", "start">>
        BY <1>13 DEF Migrate, Job
      <4> QED
        BY <1>0, <1>13, <4>1, JobsAre DEF Migrate, JobsFit
    <3>2. DOMAIN sync' = Shells /\ \A b \in Shells \ {c} : sync'[b] = sync[b]
      BY <1>0, <1>13, OneMigrates DEF Migrate, JobsFit
    <3> QED
      BY <1>0, <1>13, <3>1, <3>2 DEF Migrate, CmdTypeOK, JobsFit
  <2> QED
    BY <1>0, <1>13, <2>1, <2>2, CommandMoves DEF Migrate
<1>14. CASE MigrateStep(c)
  <2>1. DOMAIN sync' = Shells /\ \A b \in Shells \ {c} : sync'[b] = sync[b]
    BY <1>0, <1>14, OneMigrates DEF MigrateStep, JobsFit
  <2>2. CmdTypeOK' /\ JobsFit' /\ DaemonsSave'
    BY <1>0, <1>14, <2>1 DEF MigrateStep, CmdTypeOK, JobsFit, DaemonsSave, setVars
  <2>3. at' = [at EXCEPT ![c] = "migrate"] /\ at[c] = "migrate"
    BY <1>0, <1>14 DEF MigrateStep, CmdTypeOK
  <2> QED
    BY <1>0, <1>14, <2>2, <2>3, CommandMoves DEF MigrateStep
<1>15. CASE Migrated(c)
  BY <1>15, NextJobMoves DEF Migrated
<1> QED
  BY <1>1, <1>2, <1>3, <1>4, <1>5, <1>6, <1>7, <1>8, <1>9, <1>10, <1>11, <1>12, <1>13, <1>14,
     <1>15 DEF CommandStep

LEMMA DaemonsMove ==
  ASSUME TableInv, SetTypeOK, NEW d \in Daemons,
         DaemonRuns(d) \/ DaemonBusy(d) \/ DaemonSaves(d) \/ DaemonDies(d)
  PROVE  TableInv'
<1>0. CmdTypeOK /\ DaemonsSave /\ d \in Procs
  BY DaemonsDiffer DEF TableInv
<1>1. UNCHANGED <<jobs, at, pids, signalled, before, since, ignored, sync>>
  BY DEF DaemonRuns, DaemonBoots, DaemonBack, DaemonStops, DaemonBusy, DaemonSaves, DaemonDies,
         cmdVars, schemaVars
<1>2. PhasesOn
  BY <1>0 DEF DaemonRuns, DaemonBoots, DaemonBack, DaemonStops, DaemonBusy, DaemonSaves, DaemonDies,
              cmdVars, Phase, PhasesOn, CmdTypeOK, Phases
<1>3. DaemonsSave'
  <2> USE <1>0 DEF DaemonsSave, CmdTypeOK, SetTypeOK
  <2>1. ASSUME LoadStep(d), phase' = phase PROVE DaemonsSave'
    BY <2>1, LoadsDoNotSave
  <2>2. ASSUME Dies(d), phase' = [phase EXCEPT ![d] = "gone"] PROVE DaemonsSave'
    BY <2>2 DEF Dies, StepTo
  <2>3. CASE DaemonBoots(d)
    BY <2>1, <2>3 DEF DaemonBoots, Phase, setVars
  <2>4. CASE DaemonBusy(d) \/ DaemonBack(d)
    BY <2>4 DEF DaemonBusy, DaemonBack, Phase, setVars
  <2>5. CASE DaemonStops(d) \/ DaemonDies(d)
    BY <2>2, <2>5 DEF DaemonStops, DaemonDies, Crash, Phase
  <2>6. CASE DaemonSaves(d)
    BY <2>6, DaemonsDiffer DEF DaemonSaves, WriteToTemp, Saved, StepTo, cmdVars
  <2> QED
    BY <2>3, <2>4, <2>5, <2>6 DEF DaemonRuns
<1> QED
  BY <1>0, <1>1, <1>2, <1>3, DaemonsRun DEF CmdTypeOK

LEMMA TableInitInv == ASSUME Init PROVE TableInv
<1>1. CmdTypeOK
  BY DEF Init, CmdTypeOK, Places, Phases
<1>2. JobsFit
  BY CommandsAssumption DEF Init, SchemaInit, NoSync, Sync, JobsFit
<1>3. SpawnsLast /\ OldAreGone /\ KillsStarted /\ StoppedAreGone
  BY DaemonsDiffer DEF Init, SpawnsLast, OldAreGone, KillsStarted, StoppedAreGone
<1>4. DaemonsSave
  BY DEF Init, SetInitWith, DaemonsSave
<1> QED
  BY <1>1, <1>2, <1>3, <1>4 DEF TableInv

LEMMA SetInitHolds == ASSUME Init PROVE SetInv
BY DaemonsDiffer, SetInitInv DEF Init

(* A process that begins to load is not writing.                           *)
LEMMA NextMovesFiles == ASSUME TableInv, SetInv, [Next]_vars PROVE SetMove
<1>0. CmdTypeOK /\ DaemonsSave /\ SpawnsLast /\ SetTypeOK
  BY DEF TableInv, SetInv
<1>1. ASSUME NEW c \in Shells PROVE c \in Procs /\ step[c] # "saving"
  BY <1>0, CommandsAssumption DEF DaemonsSave
<1>2. ASSUME NEW c \in Shells, GiveCommand(c) \/ CommandStep(c) \/ CommandDies(c) PROVE SetMove
  <2>1. ASSUME NextJob(c) PROVE SetMove
    BY <1>1, <2>1 DEF NextJob, SetMove
  <2>2. CASE Spawn(c)
    <3>1. step[Daemon(c)] # "saving" /\ Daemon(c) \in Procs
      BY <1>0, <2>2, DaemonsDiffer DEF Spawn, DaemonsSave, SpawnsLast
    <3> QED
      BY <2>2, <3>1 DEF Spawn, SetMove
  <2>3. ASSUME NEW d \in Daemons, Kill(c, d) PROVE SetMove
    BY <1>0, <2>3, DaemonsDiffer DEF Kill, SetMove, setVars, SetTypeOK
  <2>4. CASE CommandDies(c)
    <3>1. Dies(c) /\ crashes' \in 0..MaxCrashes
      BY <1>0, <2>4 DEF CommandDies, Crash, SetTypeOK
    <3> QED
      BY <1>1, <3>1 DEF SetMove
  <2>5. CASE GiveCommand(c) \/ CommandLoads(c) \/ Restart(c)
    BY <1>1, <2>5 DEF GiveCommand, CommandLoads, Restart, SetMove
  <2>6. CASE LoadFailed(c) \/ Poll(c) \/ Migrated(c) \/ StartLooks(c) \/ StopLooks(c)
    BY <2>1, <2>6 DEF LoadFailed, Poll, Migrated, StartLooks, StopLooks, SetMove, setVars
  <2>7. CASE FindPids(c) \/ Killed(c) \/ Migrate(c) \/ MigrateStep(c)
    BY <2>7 DEF FindPids, Killed, Migrate, MigrateStep, SetMove
  <2> QED
    BY <1>2, <2>2, <2>3, <2>4, <2>5, <2>6, <2>7 DEF CommandStep
<1>3. ASSUME NEW d \in Daemons,
             DaemonRuns(d) \/ DaemonBusy(d) \/ DaemonSaves(d) \/ DaemonDies(d)
      PROVE  SetMove
  <2>1. d \in Procs
    BY DaemonsDiffer
  <2>2. CASE DaemonBoots(d) \/ DaemonBack(d) \/ DaemonBusy(d) \/ DaemonSaves(d)
    BY <2>1, <2>2 DEF DaemonBoots, DaemonBack, DaemonBusy, DaemonSaves, SetMove
  <2>3. CASE DaemonStops(d) \/ DaemonDies(d)
    <3>1. Dies(d) /\ crashes' \in 0..MaxCrashes
      BY <1>0, <2>3 DEF DaemonStops, DaemonDies, Crash, SetTypeOK
    <3> QED
      BY <2>1, <3>1 DEF SetMove
  <2> QED
    BY <1>3, <2>2, <2>3 DEF DaemonRuns
<1>4. CASE UNCHANGED vars
  BY <1>4 DEF vars, SetMove, setVars
<1> QED
  BY <1>2, <1>3, <1>4 DEF Next

LEMMA TableNext == ASSUME TableInv, SetInv, [Next]_vars PROVE TableInv'
<1>1. SetTypeOK
  BY DEF SetInv
<1>2. CASE UNCHANGED vars
  <2>1. UNCHANGED <<jobs, at, pids, signalled, before, since, ignored, sync, phase, step>>
    BY <1>2 DEF vars, cmdVars, schemaVars, setVars
  <2> QED
    BY <2>1, DaemonsRun DEF TableInv, CmdTypeOK, PhasesOn, DaemonsSave
<1> QED
  BY <1>1, <1>2, CommandsMove, DaemonsMove DEF Next

(* What holds of files and processes holds throughout.                     *)
LEMMA FilesAndProcesses == Spec => [](TableInv /\ SetInv)
<1>1. Init => TableInv /\ SetInv
  BY TableInitInv, SetInitHolds
<1>2. TableInv /\ SetInv /\ [Next]_vars => (TableInv /\ SetInv)'
  BY TableNext, NextMovesFiles, SetMoveInv
<1> QED
  BY <1>1, <1>2, PTL DEF Spec

-----------------------------------------------------------------------------
(* A change whose WriteToTemp has returned is in one of the two files,     *)
(* wherever a load died, if loads and writes did not overlap and no write  *)
(* was cut (config.go:38-58).                                              *)
THEOREM ChangesSurvive == Spec => []SettingsSurvive
<1>1. SetInv => SettingsSurvive
  BY FilesKeep DEF SetInv
<1> QED
  BY <1>1, FilesAndProcesses, PTL

(* A load that ends has the last change (config.go:147-155).               *)
THEOREM LoadsSeeChanges == Spec => LoadSeesLatest
<1>1. TableInv /\ SetInv /\ [Next]_vars => [SeesLatest]_setVars
  BY NextMovesFiles, SetMoveSees
<1>2. [SeesLatest]_setVars =>
        [\A p \in Procs :
           step[p] \in LoadSteps /\ step'[p] = "loaded" /\ ~raced /\ ~torn =>
             viper'[p] = latest]_setVars
  BY DEF SeesLatest
<1> QED
  BY <1>1, <1>2, FilesAndProcesses, PTL DEF Spec, LoadSeesLatest

(* Daemons run side by side only if the commands that started them         *)
(* overlapped (cmd_start.go:38).                                           *)
THEOREM OneDaemonRuns == Spec => []StartedOnce
<1>1. TableInv => StartedOnce
  BY OldDoNotRun
<1> QED
  BY <1>1, FilesAndProcesses, PTL

(* When stop has ended, or restart goes on to start, what stop killed is   *)
(* gone (cmd_stop.go:24-47).                                               *)
THEOREM StopWaits == Spec => []StoppedAreGone
<1>1. TableInv => StoppedAreGone
  BY DEF TableInv
<1> QED
  BY <1>1, FilesAndProcesses, PTL

-----------------------------------------------------------------------------
(* The database.                                                           *)

(* TableRegister makes a sequence of names longer.                         *)
LEMMA RegisterAdds ==
  ASSUME NEW known \in Seq(STRING), NEW args \in Seq(STRING)
  PROVE  TableRegister(known, args) \in Seq(STRING)
<1> DEFINE Known(n) == \E i \in 1..Len(known) + n - 1 : (known \o args)[i] = args[n]
           new == {n \in 0..Len(args) : \A m \in 1..n : ~Known(m)}
           last == CHOOSE n \in new : n + 1 \notin new
<1>1. last \in new
  <2>1. new \subseteq 0..Len(args) /\ 0 \in new
    OBVIOUS
  <2> HIDE DEF new
  <2>2. Len(args) + 1 \in Nat \ new
    BY <2>1
  <2>3. PICK m \in Nat \ new : \A k \in Nat \ new : m <= k
    BY <2>2, LeastOf
  <2>4. m - 1 \in new /\ (m - 1) + 1 \notin new
    BY <2>1, <2>3
  <2> QED
    BY <2>4
<1>2. last \in 0..Len(args)
  BY <1>1
<1>3. TableRegister(known, args) = known \o SubSeq(args, 1, last)
  BY DEF TableRegister
<1> HIDE DEF last
<1> QED
  BY <1>2, <1>3

(* Whatever is registered, in however many calls (induction over them).    *)
LEMMA TablesAreNames == tables \in Seq(STRING)
<1> DEFINE n == Len(Registered)
           S == Seq(STRING)
           calls == [k \in 1..n |-> [t \in S |-> TableRegister(t, Registered[k])]]
           Ok(f) == f = [k \in 0..n |-> IF k = 0 THEN <<>> ELSE TableRegister(f[k - 1], Registered[k])]
<1>1. n \in Nat /\ \A k \in 1..n : Registered[k] \in S
  BY SchemaAssumption
<1>2. <<>> \in S /\ \A t, args \in S : TableRegister(t, args) \in S
  BY RegisterAdds
<1> HIDE DEF n, S
<1>3. calls \in [1..n -> [S -> S]]
  BY <1>1, <1>2
<1>4. \A k \in 1..n : \A t \in S : calls[k][t] = TableRegister(t, Registered[k])
  OBVIOUS
<1> HIDE DEF calls
<1>5. PICK f : RecursiveTo(f, n, S, <<>>, calls)
  BY <1>1, <1>2, <1>3, RecursionTo
<1>6. f \in [0..n -> S] /\ f[0] = <<>> /\ \A k \in 1..n : f[k] = calls[k][f[k - 1]]
  BY <1>5 DEF RecursiveTo, Goes
<1>7. \A k \in 1..n : f[k] = TableRegister(f[k - 1], Registered[k])
  BY <1>1, <1>4, <1>6
<1>8. Ok(f)
  BY <1>1, <1>6, <1>7
<1>9. Ok(registered)
  <2>1. registered = CHOOSE g : Ok(g)
    BY DEF registered, n
  <2> HIDE DEF Ok
  <2> QED
    BY <1>8, <2>1
<1> DEFINE T == {k \in 0..n : registered[k] \in S}
<1>10. 0 \in T
  BY <1>1, <1>2, <1>9
<1>11. ASSUME NEW k \in 0..n - 1, k \in T PROVE k + 1 \in T
  <2>1. registered[k + 1] = TableRegister(registered[k], Registered[k + 1])
    BY <1>1, <1>9
  <2> QED
    BY <1>1, <1>2, <1>11, <2>1
<1>12. 0..n \subseteq T
  <2> HIDE DEF T
  <2> QED
    BY <1>1, <1>10, <1>11, InductionTo
<1> QED
  BY <1>1, <1>12 DEF tables, n, S

USE TablesAreNames DEF Ends

Created == SyncSteps \ {"drop", "create"}
Synced == Created \ {"dial", "sync2"}
Indexed == {"count", "truncate", "insert", "after"}

Quiet == \A q \in Migrators : ~contended[q]

(* Of two migrations that run both know of it.                             *)
ContendersKnow ==
  /\ \A p, q \in Migrating : p # q => contended[p]
  /\ \A p \in Migrators : sync[p].at = "none" => ~contended[p]

(* What a migration that runs alone has done so far.                       *)
Progress(p) ==
  LET s == sync[p] IN
  /\ s.at \in Created => db
  /\ s.at \notin Synced => s.table = 1
  /\ s.at \in Synced =>
       /\ exists = ToSet(tables)
       /\ \A i \in 1..Len(tables) :
            i < s.table => indexes[tables[i]] # {} /\ rows[tables[i]] > 0
  /\ s.at \in Indexed => indexes[TableOf(p)] # {}
  /\ s.at = "add" => s.order \notin indexes[TableOf(p)]
  /\ s.at = "truncate" => rows[TableOf(p)] = 0
  /\ s.at = "insert" => s.left > 0
  /\ s.at = "after" => rows[TableOf(p)] > 0

(* While no two ran at once there are no rows too many, and too few only   *)
(* in a table that is being filled or after a failed statement.            *)
RowsFit ==
  /\ \A t \in ToSet(tables) : rows[t] <= Beans
  /\ \A p \in Migrators : sync[p].at = "insert" => rows[TableOf(p)] + sync[p].left = Beans
  /\ dbFaults = 0 =>
       \A t \in ToSet(tables) :
         \/ rows[t] \in {0, Beans}
         \/ \E p \in Migrators : sync[p].at = "insert" /\ TableOf(p) = t

SchemaInv ==
  /\ SchemaTypeOK
  /\ \A p \in Migrators : sync[p].at \in Synced \cup {"sync2"} => tables # <<>>
  /\ ContendersKnow /\ MigratesAgain
  /\ \A p \in Migrating : ~contended[p] => Progress(p)
  /\ Quiet => RowsFit

SchemaMove ==
  \/ \E p \in Migrators : \/ sync[p].at = "none" /\ \E drop \in BOOLEAN : BeginMigrate(p, drop)
                          \/ SchemaStep(p)
  \/ UNCHANGED schemaVars

LEMMA Tables ==
  /\ Len(tables) \in Nat
  /\ \A i \in 1..Len(tables) : tables[i] \in ToSet(tables)
  /\ \A t \in ToSet(tables) : \E i \in 1..Len(tables) : t = tables[i]
  /\ tables # <<>> <=> 1 \in 1..Len(tables)
BY DEF ToSet

(* The records of sync and what is made of them.                           *)
LEMMA RecordsFit ==
  ASSUME NEW r \in Migrations
  PROVE  /\ r.at \in SyncSteps \cup Ends \cup {"none"}
         /\ r.table \in {1} \cup 1..Len(tables) /\ r.order \in Orders /\ r.left \in 0..Beans
BY DEF Migrations

LEMMA NewRecordsFit ==
  ASSUME NEW s \in SyncSteps \cup Ends \cup {"none"}, NEW i \in {1} \cup 1..Len(tables)
  PROVE  Sync(s, i) \in Migrations /\ Sync(s, i).at = s /\ Sync(s, i).table = i
<1>1. "a_b" \in Orders /\ 0 \in 0..Beans
  BY SchemaAssumption DEF Orders
<1> QED
  BY <1>1 DEF Migrations, Sync

LEMMA RecordsMove ==
  ASSUME NEW r \in Migrations, NEW s \in SyncSteps \cup Ends \cup {"none"}
  PROVE  [r EXCEPT !.at = s] \in Migrations
BY DEF Migrations

LEMMA RecordsOrder ==
  ASSUME NEW r \in Migrations, NEW s \in SyncSteps, NEW o \in Orders
  PROVE  [r EXCEPT !.at = s, !.order = o] \in Migrations
BY DEF Migrations

LEMMA RecordsLeft ==
  ASSUME NEW r \in Migrations, NEW s \in SyncSteps, NEW n \in 0..Beans
  PROVE  [r EXCEPT !.at = s, !.left = n] \in Migrations
BY DEF Migrations

LEMMA RecordsCount ==
  ASSUME NEW r \in Migrations, NEW n \in 0..Beans
  PROVE  [r EXCEPT !.left = n] \in Migrations
BY DEF Migrations

LEMMA SchemaInitInv == ASSUME SchemaInit PROVE SchemaInv
<1> USE SchemaAssumption DEF SchemaInit
<1>0. NoSync \in Migrations /\ NoSync.at = "none"
  BY NewRecordsFit DEF NoSync
<1>1. SchemaTypeOK
  <2>1. 0 \in Nat /\ 0 \in 0..MaxDbFaults
    OBVIOUS
  <2>2. sync \in [Migrators -> Migrations] /\ contended \in [Migrators -> BOOLEAN]
    BY <1>0
  <2>3. indexes \in [ToSet(tables) -> SUBSET Orders] /\ rows \in [ToSet(tables) -> Nat]
    OBVIOUS
  <2> QED
    BY <2>1, <2>2, <2>3 DEF SchemaTypeOK
<1>2. \A p \in Migrators : sync[p].at = "none" /\ ~contended[p]
  BY <1>0
<1>3. Migrating = {}
  BY <1>2 DEF Migrating, SyncSteps
<1>4. RowsFit
  BY <1>2 DEF RowsFit
<1>5. ContendersKnow /\ MigratesAgain
  BY <1>2, <1>3 DEF ContendersKnow, MigratesAgain
<1> QED
  BY <1>1, <1>2, <1>3, <1>4, <1>5 DEF SchemaInv, Synced, Created, SyncSteps

(* The steps that only move on.                                            *)
LEMMA MovesOn ==
  ASSUME SchemaTypeOK, NEW p \in Migrators, NEW s \in SyncSteps \cup Ends, SyncTo(p, s)
  PROVE  /\ sync' \in [Migrators -> Migrations]
         /\ \A q \in Migrators : q # p => sync'[q] = sync[q]
         /\ sync'[p] = [sync[p] EXCEPT !.at = s]
         /\ sync'[p].at = s /\ sync'[p].table = sync[p].table
         /\ sync'[p].order = sync[p].order /\ sync'[p].left = sync[p].left
<1>1. sync \in [Migrators -> Migrations]
  BY DEF SchemaTypeOK
<1>2. [sync[p] EXCEPT !.at = s] \in Migrations
  BY <1>1, RecordsMove
<1>3. sync' = [sync EXCEPT ![p] = [sync[p] EXCEPT !.at = s]]
  BY DEF SyncTo
<1>4. sync'[p] = [sync[p] EXCEPT !.at = s]
  BY <1>1, <1>3
<1>5. sync' \in [Migrators -> Migrations] /\ \A q \in Migrators : q # p => sync'[q] = sync[q]
  BY <1>1, <1>2, <1>3
<1>6. /\ sync'[p].at = s /\ sync'[p].table = sync[p].table
      /\ sync'[p].order = sync[p].order /\ sync'[p].left = sync[p].left
  BY <1>1, <1>4 DEF Migrations
<1> QED
  BY <1>4, <1>5, <1>6

LEMMA NextTableMoves ==
  ASSUME SchemaTypeOK, NEW p \in Migrators, NextTable(p)
  PROVE  /\ sync' \in [Migrators -> Migrations]
         /\ \A q \in Migrators : q # p => sync'[q] = sync[q]
         /\ \/ /\ sync[p].table < Len(tables)
               /\ sync'[p].at = "convert" /\ sync'[p].table = sync[p].table + 1
            \/ ~(sync[p].table < Len(tables)) /\ sync'[p].at = "done"
<1>1. sync \in [Migrators -> Migrations] /\ sync[p] \in Migrations
  BY DEF SchemaTypeOK
<1>2. sync[p].table \in {1} \cup 1..Len(tables) /\ Len(tables) \in Nat
  BY <1>1, RecordsFit, Tables
<1>3. CASE sync[p].table < Len(tables)
  <2>1. "convert" \in SyncSteps /\ sync[p].table + 1 \in {1} \cup 1..Len(tables)
    BY <1>2, <1>3 DEF SyncSteps
  <2>2. sync' = [sync EXCEPT ![p] = Sync("convert", sync[p].table + 1)]
    BY <1>3 DEF NextTable
  <2> QED
    BY <1>1, <1>3, <2>1, <2>2, NewRecordsFit
<1>4. CASE ~(sync[p].table < Len(tables))
  <2>1. sync' = [sync EXCEPT ![p] = Sync("done", 1)]
    BY <1>4 DEF NextTable
  <2> QED
    BY <1>1, <1>4, <2>1, NewRecordsFit
<1> QED
  BY <1>3, <1>4

LEMMA BeginMoves ==
  ASSUME SchemaTypeOK, NEW p \in Migrators, NEW drop \in BOOLEAN, BeginMigrate(p, drop)
  PROVE  /\ sync' \in [Migrators -> Migrations]
         /\ \A q \in Migrators : q # p => sync'[q] = sync[q]
         /\ sync'[p].at \in {"drop", "create"} /\ sync'[p].table = 1
         /\ UNCHANGED <<db, exists, indexes, rows, dbFaults>>
<1>1. PICK s \in {"drop", "create"} : sync' = [sync EXCEPT ![p] = Sync(s, 1)]
  BY DEF BeginMigrate
<1>2. Sync(s, 1) \in Migrations /\ Sync(s, 1).at = s /\ Sync(s, 1).table = 1
  BY NewRecordsFit DEF SyncSteps
<1> QED
  BY <1>1, <1>2 DEF SchemaTypeOK, BeginMigrate

(* What a statement may do to sync.                                        *)
LEMMA StatementMoves ==
  ASSUME SchemaTypeOK, NEW p \in Migrators, SchemaStep(p)
  PROVE  /\ sync' \in [Migrators -> Migrations]
         /\ \A q \in Migrators : q # p => sync'[q] = sync[q]
         /\ sync[p].at \in SyncSteps /\ contended' = contended
<1>0. sync \in [Migrators -> Migrations] /\ sync[p] \in Migrations
  BY DEF SchemaTypeOK
<1>1. sync[p].at \in SyncSteps /\ contended' = contended
  BY DEF SchemaStep, Statement, StatementFails, DropDatabase, CreateDB, DialDB, Sync2, Convert,
         ShowIndex, AddIndex, CountRows, Truncate, InsertBean, AfterSync, SyncSteps, Migrating
<1> DEFINE Goal == sync' \in [Migrators -> Migrations] /\ \A q \in Migrators : q # p => sync'[q] = sync[q]
<1>2. ASSUME NEW s \in SyncSteps \cup Ends, SyncTo(p, s) PROVE Goal
  BY <1>2, MovesOn
<1>3. ASSUME NextTable(p) PROVE Goal
  BY <1>3, NextTableMoves
<1>4. ASSUME NEW r \in Migrations, sync' = [sync EXCEPT ![p] = r] PROVE Goal
  BY <1>0, <1>4
<1> SUFFICES Goal
  BY <1>1
<1> HIDE DEF Goal
<1> USE DEF Fails
<1>5. CASE DropDatabase(p) \/ CreateDB(p) \/ DialDB(p) \/ Sync2(p) \/ Convert(p) \/ AddIndex(p)
  BY <1>2, <1>5 DEF DropDatabase, CreateDB, DialDB, Sync2, Convert, AddIndex, SyncSteps
<1>6. CASE ShowIndex(p)
  <2>1. CASE TableOf(p) \in exists
    <3>1. PICK o \in Orders :
            sync' = [sync EXCEPT ![p] =
              [sync[p] EXCEPT !.at = IF o \in indexes[TableOf(p)] THEN "count" ELSE "add",
                              !.order = o]]
      BY <1>6, <2>1 DEF ShowIndex
    <3>2. PICK s \in {"count", "add"} :
            sync' = [sync EXCEPT ![p] = [sync[p] EXCEPT !.at = s, !.order = o]]
      BY <3>1
    <3> QED
      BY <1>0, <1>4, <3>2, RecordsOrder DEF SyncSteps
  <2>2. CASE TableOf(p) \notin exists
    BY <1>2, <1>6, <2>2 DEF ShowIndex
  <2> QED
    BY <2>1, <2>2
<1>7. CASE CountRows(p) \/ AfterSync(p)
  BY <1>2, <1>3, <1>7 DEF CountRows, AfterSync, SyncSteps
<1>8. CASE Truncate(p)
  <2>1. Beans \in 0..Beans
    BY SchemaAssumption
  <2>2. sync' = [sync EXCEPT ![p] = [sync[p] EXCEPT !.at = "insert", !.left = Beans]]
    BY <1>8 DEF Truncate
  <2> QED
    BY <1>0, <1>4, <2>1, <2>2, RecordsLeft DEF SyncSteps
<1>9. CASE InsertBean(p)
  <2>1. CASE TableOf(p) \in exists /\ sync[p].left > 1
    <3>1. sync[p].left - 1 \in 0..Beans
      BY <1>0, <2>1, RecordsFit, SchemaAssumption
    <3>2. sync' = [sync EXCEPT ![p] = [sync[p] EXCEPT !.left = sync[p].left - 1]]
      BY <1>9, <2>1 DEF InsertBean
    <3> QED
      BY <1>0, <1>4, <3>1, <3>2, RecordsCount
  <2>2. CASE ~(TableOf(p) \in exists /\ sync[p].left > 1)
    BY <1>2, <1>9, <2>2 DEF InsertBean, SyncSteps
  <2> QED
    BY <2>1, <2>2
<1>10. CASE StatementFails(p)
  BY <1>2, <1>10 DEF StatementFails
<1> QED
  BY <1>5, <1>6, <1>7, <1>8, <1>9, <1>10 DEF SchemaStep, Statement

LEMMA SchemaTypes ==
  ASSUME SchemaTypeOK, SchemaMove
  PROVE  SchemaTypeOK'
<1> USE SchemaAssumption DEF SchemaTypeOK
<1>1. ASSUME NEW p \in Migrators, NEW drop \in BOOLEAN, BeginMigrate(p, drop) PROVE SchemaTypeOK'
  BY <1>1, BeginMoves DEF BeginMigrate
<1>2. ASSUME NEW p \in Migrators, SchemaStep(p) PROVE SchemaTypeOK'
  <2>1. sync' \in [Migrators -> Migrations] /\ contended' \in [Migrators -> BOOLEAN]
    BY <1>2, StatementMoves
  <2>2. dbFaults' \in 0..MaxDbFaults
    BY <1>2 DEF SchemaStep, StatementFails
  <2>3. db' \in BOOLEAN /\ exists' \subseteq ToSet(tables)
    BY <1>2 DEF SchemaStep, Statement, StatementFails, DropDatabase, CreateDB, DialDB, Sync2, Convert,
                ShowIndex, AddIndex, CountRows, Truncate, InsertBean, AfterSync, Fails
  <2>4. indexes' \in [ToSet(tables) -> SUBSET Orders]
    <3>1. sync[p].order \in Orders
      BY RecordsFit
    <3>2. CASE AddIndex(p)
      <4>1. \A t \in ToSet(tables) : indexes[t] \cup {sync[p].order} \in SUBSET Orders
        BY <3>1
      <4> QED
        BY <3>2, <4>1 DEF AddIndex
    <3>3. CASE indexes' = indexes \/ indexes' = [t \in ToSet(tables) |-> {}]
      BY <3>3
    <3> QED
      BY <1>2, <3>2, <3>3 DEF SchemaStep, Statement, StatementFails, DropDatabase, CreateDB, DialDB, Sync2,
                  Convert, ShowIndex, CountRows, Truncate, InsertBean, AfterSync, Fails
  <2>5. rows' \in [ToSet(tables) -> Nat]
    BY <1>2 DEF SchemaStep, Statement, StatementFails, DropDatabase, CreateDB, DialDB, Sync2, Convert,
                ShowIndex, AddIndex, CountRows, Truncate, InsertBean, AfterSync, Fails
  <2> QED
    BY <2>1, <2>2, <2>3, <2>4, <2>5
<1>3. CASE UNCHANGED schemaVars
  BY <1>3 DEF schemaVars
<1> QED
  BY <1>1, <1>2, <1>3 DEF SchemaMove

LEMMA TableIsThere ==
  ASSUME SchemaInv, NEW p \in Migrators, sync[p].at \in Synced
  PROVE  TableOf(p) \in ToSet(tables) /\ sync[p].table \in 1..Len(tables)
<1>1. sync[p] \in Migrations /\ tables # <<>>
  BY DEF SchemaInv, SchemaTypeOK
<1>2. sync[p].table \in 1..Len(tables)
  BY <1>1, RecordsFit, Tables
<1> QED
  BY <1>2, Tables DEF TableOf

(* What a migration has to show at its end.                                *)
Complete == db /\ \A t \in ToSet(tables) : t \in exists /\ indexes[t] # {} /\ rows[t] > 0

(* One that runs alone goes on, is done or is cut off, but is not refused. *)
LEMMA AloneGoesOn ==
  ASSUME SchemaInv, NEW p \in Migrators, SchemaStep(p), ~contended[p]
  PROVE  /\ sync'[p].at \in SyncSteps => Progress(p)'
         /\ sync'[p].at # "failed"
         /\ sync'[p].at = "done" => Complete'
<1>0. /\ SchemaTypeOK /\ sync[p].at \in SyncSteps /\ Progress(p)
      /\ sync[p] \in Migrations
  BY StatementMoves DEF SchemaInv, Migrating, SchemaTypeOK
<1>T. sync[p].at \in Synced => TableOf(p) \in ToSet(tables) /\ sync[p].table \in 1..Len(tables)
  BY TableIsThere
<1> DEFINE Goal == /\ sync'[p].at \in SyncSteps => Progress(p)'
                   /\ sync'[p].at # "failed"
                   /\ sync'[p].at = "done" => Complete'
<1> SUFFICES Goal
  OBVIOUS
<1> USE DEF Synced, Created, Indexed, SyncSteps
<1>1. CASE DropDatabase(p)
  <2>1. sync'[p].at = "create" /\ sync'[p].table = sync[p].table
    BY <1>0, <1>1, MovesOn DEF DropDatabase
  <2> QED
    BY <1>0, <1>1, <2>1 DEF Progress, DropDatabase
<1>2. CASE CreateDB(p)
  <2>1. sync'[p].at = "dial" /\ db' = TRUE /\ sync'[p].table = sync[p].table
    BY <1>0, <1>2, MovesOn DEF CreateDB
  <2> QED
    BY <1>0, <1>2, <2>1 DEF Progress, CreateDB
<1>3. CASE DialDB(p)
  <2>1. db /\ db' = db
    BY <1>0, <1>3 DEF DialDB, Progress
  <2>2. CASE tables = <<>>
    <3>1. sync'[p].at = "done"
      BY <1>0, <1>3, <2>1, <2>2, MovesOn DEF DialDB
    <3>2. ToSet(tables) = {}
      BY <2>2, Tables
    <3> QED
      BY <2>1, <3>1, <3>2 DEF Complete
  <2>3. CASE tables # <<>>
    <3>1. sync'[p].at = "sync2" /\ sync'[p].table = sync[p].table
      BY <1>0, <1>3, <2>1, <2>3, MovesOn DEF DialDB
    <3> QED
      BY <1>0, <1>3, <2>1, <3>1 DEF Progress, DialDB
  <2> QED
    BY <2>2, <2>3
<1>4. CASE Sync2(p)
  <2>1. /\ db /\ db' = db /\ exists' = ToSet(tables) /\ sync'[p].at = "convert"
        /\ sync'[p].table = 1
    BY <1>0, <1>4, MovesOn DEF Sync2, Progress
  <2>2. \A i \in 1..Len(tables) : ~(i < 1)
    BY Tables
  <2> QED
    BY <2>1, <2>2 DEF Progress
<1>5. CASE Convert(p)
  <2>1. sync'[p].at = "show" /\ sync'[p].table = sync[p].table
    BY <1>0, <1>T, <1>5, MovesOn DEF Convert, Progress
  <2> QED
    BY <1>0, <1>5, <2>1 DEF Progress, Convert
<1>6. CASE ShowIndex(p)
  <2>0. TableOf(p) \in exists /\ sync[p].at = "show"
    BY <1>0, <1>T, <1>6 DEF ShowIndex, Progress
  <2>1. PICK o \in Orders :
          sync' = [sync EXCEPT ![p] =
            [sync[p] EXCEPT !.at = IF o \in indexes[TableOf(p)] THEN "count" ELSE "add",
                            !.order = o]]
    BY <1>6, <2>0 DEF ShowIndex
  <2>2. /\ sync'[p].at = IF o \in indexes[TableOf(p)] THEN "count" ELSE "add"
        /\ sync'[p].order = o /\ sync'[p].table = sync[p].table
    BY <1>0, <2>1 DEF SchemaTypeOK, Migrations
  <2>3. TableOf(p)' = TableOf(p) /\ UNCHANGED <<db, exists, indexes, rows>>
    BY <1>6, <2>2 DEF ShowIndex, TableOf
  <2> QED
    BY <1>0, <1>6, <2>2, <2>3 DEF Progress, ShowIndex
<1>7. CASE AddIndex(p)
  <2>1. sync[p].at = "add" /\ TableOf(p) \in exists /\ sync[p].order \notin indexes[TableOf(p)]
    BY <1>0, <1>T, <1>7 DEF AddIndex, Progress
  <2>2. sync'[p].at = "count" /\ sync'[p].table = sync[p].table
    BY <1>0, <1>7, <2>1, MovesOn DEF AddIndex
  <2>3. /\ TableOf(p)' = TableOf(p) /\ UNCHANGED <<db, exists, rows>>
        /\ indexes' = [indexes EXCEPT ![TableOf(p)] = @ \cup {sync[p].order}]
    BY <1>7, <2>1, <2>2 DEF AddIndex, TableOf
  <2>4. \A t \in ToSet(tables) : indexes[t] # {} \/ t = TableOf(p) => indexes'[t] # {}
    BY <1>0, <2>3 DEF SchemaTypeOK
  <2> QED
    BY <1>0, <1>T, <2>1, <2>2, <2>3, <2>4, Tables DEF Progress
<1>8. CASE AfterSync(p)
  <2>0. /\ NextTable(p) /\ sync[p].at = "after" /\ db /\ exists = ToSet(tables)
        /\ UNCHANGED <<db, exists, indexes, rows>>
    BY <1>0, <1>8 DEF AfterSync, Progress
  <2>1. /\ \A i \in 1..Len(tables) : i <= sync[p].table => indexes[tables[i]] # {} /\ rows'[tables[i]] > 0
        /\ sync[p].table \in 1..Len(tables) /\ Len(tables) \in Nat
    <3>1. ASSUME NEW i \in 1..Len(tables), i <= sync[p].table
          PROVE  indexes[tables[i]] # {} /\ rows'[tables[i]] > 0
      <4>1. CASE i = sync[p].table
        BY <1>0, <2>0, <4>1 DEF Progress, TableOf
      <4>2. CASE i < sync[p].table
        BY <1>0, <2>0, <3>1, <4>2, Tables DEF Progress
      <4> QED
        BY <1>T, <2>0, <3>1, <4>1, <4>2, Tables
    <3> QED
      BY <1>T, <2>0, <3>1, Tables
  <2>2. CASE sync[p].table < Len(tables)
    <3>1. sync'[p].at = "convert" /\ sync'[p].table = sync[p].table + 1
      BY <1>0, <2>0, <2>1, <2>2, NextTableMoves
    <3>2. \A i \in 1..Len(tables) : i < sync[p].table + 1 => i <= sync[p].table
      BY <2>1
    <3> QED
      BY <2>0, <2>1, <3>1, <3>2 DEF Progress
  <2>3. CASE ~(sync[p].table < Len(tables))
    <3>1. sync'[p].at = "done"
      BY <1>0, <2>0, <2>1, <2>3, NextTableMoves
    <3>2. \A i \in 1..Len(tables) : i <= sync[p].table
      BY <2>1, <2>3
    <3> QED
      BY <2>0, <2>1, <3>1, <3>2, Tables DEF Complete
  <2> QED
    BY <2>2, <2>3
<1>9. CASE CountRows(p)
  <2>1. sync[p].at = "count" /\ db /\ exists = ToSet(tables) /\ TableOf(p) \in exists
    BY <1>0, <1>T, <1>9 DEF CountRows, Progress
  <2>2. CASE rows[TableOf(p)] > 0
    <3>1. sync'[p].at = "after" /\ sync'[p].table = sync[p].table
      BY <1>0, <1>9, <2>1, <2>2, MovesOn DEF CountRows
    <3>2. TableOf(p)' = TableOf(p) /\ UNCHANGED <<db, exists, indexes, rows>>
      BY <1>9, <3>1 DEF CountRows, TableOf
    <3> QED
      BY <1>0, <2>1, <2>2, <3>1, <3>2 DEF Progress
  <2>3. CASE ~(rows[TableOf(p)] > 0)
    <3>1. sync'[p].at = "truncate" /\ sync'[p].table = sync[p].table
      BY <1>0, <1>9, <2>1, <2>3, MovesOn DEF CountRows
    <3>2. rows[TableOf(p)] = 0
      BY <1>0, <2>1, <2>3 DEF SchemaTypeOK
    <3>3. TableOf(p)' = TableOf(p) /\ UNCHANGED <<db, exists, indexes, rows>>
      BY <1>9, <3>1 DEF CountRows, TableOf
    <3> QED
      BY <1>0, <2>1, <3>1, <3>2, <3>3 DEF Progress
  <2> QED
    BY <2>2, <2>3
<1>10. CASE Truncate(p)
  <2>1. sync' = [sync EXCEPT ![p] = [sync[p] EXCEPT !.at = "insert", !.left = Beans]]
    BY <1>10 DEF Truncate
  <2>2. sync'[p].at = "insert" /\ sync'[p].left = Beans /\ sync'[p].table = sync[p].table
    BY <1>0, <2>1 DEF SchemaTypeOK, Migrations
  <2>3. TableOf(p)' = TableOf(p) /\ UNCHANGED <<db, exists, indexes>> /\ Beans > 0
    BY <1>10, <2>2, SchemaAssumption DEF Truncate, TableOf
  <2>4. \A t \in ToSet(tables) : rows[t] > 0 => rows'[t] > 0
    BY <1>0, <1>10 DEF Truncate, SchemaTypeOK, Progress
  <2>5. db /\ exists = ToSet(tables) /\ indexes[TableOf(p)] # {}
    BY <1>0, <1>10 DEF Progress, Truncate
  <2>6. \A i \in 1..Len(tables) :
          i < sync[p].table => indexes[tables[i]] # {} /\ rows'[tables[i]] > 0
    BY <1>0, <1>10, <2>4, Tables DEF Progress, Truncate
  <2> QED
    BY <2>2, <2>3, <2>5, <2>6 DEF Progress
<1>11. CASE InsertBean(p)
  <2>1. sync[p].at = "insert" /\ db /\ exists = ToSet(tables) /\ TableOf(p) \in exists /\ sync[p].left > 0
    BY <1>0, <1>T, <1>11 DEF InsertBean, Progress
  <2>2. /\ rows' = [rows EXCEPT ![TableOf(p)] = @ + 1]
        /\ UNCHANGED <<db, exists, indexes>>
    BY <1>11, <2>1 DEF InsertBean
  <2>3. (\A t \in ToSet(tables) : rows[t] > 0 => rows'[t] > 0) /\ rows'[TableOf(p)] > 0
    BY <1>0, <2>1, <2>2 DEF SchemaTypeOK
  <2>4. CASE sync[p].left > 1
    <3>1. sync' = [sync EXCEPT ![p] = [sync[p] EXCEPT !.left = sync[p].left - 1]]
      BY <1>11, <2>1, <2>4 DEF InsertBean
    <3>2. /\ sync'[p].at = "insert" /\ sync'[p].left = sync[p].left - 1
          /\ sync'[p].table = sync[p].table
      BY <1>0, <2>1, <3>1 DEF SchemaTypeOK, Migrations
    <3>3. sync'[p].left > 0
      BY <1>0, <2>4, <3>2, RecordsFit, SchemaAssumption
    <3>4. TableOf(p)' = TableOf(p)
      BY <3>2 DEF TableOf
    <3> QED
      BY <1>0, <2>1, <2>2, <2>3, <3>2, <3>3, <3>4, Tables DEF Progress
  <2>5. CASE ~(sync[p].left > 1)
    <3>1. sync'[p].at = "after" /\ sync'[p].table = sync[p].table
      BY <1>0, <1>11, <2>1, <2>5, MovesOn DEF InsertBean
    <3>2. TableOf(p)' = TableOf(p)
      BY <3>1 DEF TableOf
    <3> QED
      BY <1>0, <2>1, <2>2, <2>3, <3>1, <3>2, Tables DEF Progress
  <2> QED
    BY <2>4, <2>5
<1>12. CASE StatementFails(p)
  <2>1. sync'[p].at = "cut"
    BY <1>0, <1>12, MovesOn DEF StatementFails
  <2> QED
    BY <2>1
<1> QED
  BY <1>1, <1>2, <1>3, <1>4, <1>5, <1>6, <1>7, <1>8, <1>9, <1>10, <1>11, <1>12 DEF SchemaStep, Statement

LEMMA RowsStayFit ==
  ASSUME SchemaInv, NEW p \in Migrators, SchemaStep(p), Quiet
  PROVE  RowsFit'
<1>0. /\ SchemaTypeOK /\ sync[p].at \in SyncSteps /\ Progress(p) /\ RowsFit
      /\ sync[p] \in Migrations /\ \A q \in Migrators : q # p => sync'[q] = sync[q]
  BY StatementMoves DEF SchemaInv, Migrating, SchemaTypeOK, Quiet
<1>T. sync[p].at \in Synced => TableOf(p) \in ToSet(tables)
  BY TableIsThere
<1>1. \A q \in Migrators : q # p => sync[q].at # "insert" /\ sync'[q].at # "insert"
  <2>1. p \in Migrating
    BY <1>0 DEF Migrating
  <2>2. \A q \in Migrators : q # p => q \notin Migrating
    BY <2>1 DEF Quiet, SchemaInv, ContendersKnow
  <2> QED
    BY <1>0, <2>2 DEF Migrating, SyncSteps
<1> DEFINE Fit ==
  /\ \A t \in ToSet(tables) : rows'[t] <= Beans
  /\ sync'[p].at = "insert" => rows'[TableOf(p)'] + sync'[p].left = Beans
  /\ dbFaults' = 0 =>
       \A t \in ToSet(tables) : \/ rows'[t] \in {0, Beans}
                                \/ sync'[p].at = "insert" /\ TableOf(p)' = t
<1>2. SUFFICES Fit
  BY <1>1 DEF RowsFit, TableOf
<1>3. ASSUME rows' = rows, sync[p].at # "insert", sync'[p].at # "insert", dbFaults' = dbFaults
      PROVE  Fit
  BY <1>0, <1>1, <1>3 DEF RowsFit
<1>4. CASE DropDatabase(p)
  <2>1. sync'[p].at = "create" /\ \A t \in ToSet(tables) : rows'[t] = 0
    BY <1>0, <1>4, MovesOn DEF DropDatabase, SyncSteps
  <2> QED
    BY <2>1, SchemaAssumption
<1>5. CASE Truncate(p)
  <2>1. sync' = [sync EXCEPT ![p] = [sync[p] EXCEPT !.at = "insert", !.left = Beans]]
    BY <1>5 DEF Truncate
  <2>2. sync'[p].left = Beans /\ sync'[p].table = sync[p].table
    BY <1>0, <2>1 DEF SchemaTypeOK, Migrations
  <2>3. sync[p].at = "truncate" /\ rows' = [rows EXCEPT ![TableOf(p)] = 0]
    BY <1>5 DEF Truncate
  <2>4. TableOf(p)' = TableOf(p) /\ TableOf(p) \in ToSet(tables)
    BY <1>T, <2>2, <2>3 DEF TableOf, Synced, Created, SyncSteps
  <2>5. dbFaults' = 0 => \A t \in ToSet(tables) : rows[t] \in {0, Beans}
    BY <1>0, <1>1, <1>5, <2>3 DEF RowsFit, SchemaStep, StatementFails, SchemaTypeOK
  <2>6. \A t \in ToSet(tables) : rows'[t] = IF t = TableOf(p) THEN 0 ELSE rows[t]
    BY <1>0, <2>3 DEF SchemaTypeOK
  <2> QED
    BY <1>0, <2>2, <2>4, <2>5, <2>6, SchemaAssumption DEF RowsFit
<1>6. CASE InsertBean(p)
  <2>1. /\ sync[p].at = "insert" /\ TableOf(p) \in exists /\ TableOf(p) \in ToSet(tables)
        /\ rows[TableOf(p)] + sync[p].left = Beans
    BY <1>0, <1>T, <1>6 DEF InsertBean, Progress, RowsFit, Synced, Created, SyncSteps
  <2>2. sync[p].left \in 1..Beans
    <3>1. sync[p].left > 0 /\ sync[p].left \in 0..Beans
      BY <1>0, <2>1, RecordsFit DEF Progress
    <3> QED
      BY <3>1, SchemaAssumption
  <2>3. \A t \in ToSet(tables) : /\ rows'[t] = IF t = TableOf(p) THEN rows[t] + 1 ELSE rows[t]
                                 /\ rows[t] \in Nat
    BY <1>0, <1>6, <2>1 DEF InsertBean, SchemaTypeOK
  <2>4. dbFaults' = 0 => \A t \in ToSet(tables) \ {TableOf(p)} : rows[t] \in {0, Beans}
    BY <1>0, <1>1, <1>6 DEF RowsFit, InsertBean, SchemaStep, StatementFails, SchemaTypeOK
  <2>5. CASE sync[p].left > 1
    <3>1. sync' = [sync EXCEPT ![p] = [sync[p] EXCEPT !.left = sync[p].left - 1]]
      BY <1>6, <2>1, <2>5 DEF InsertBean
    <3>2. /\ sync'[p].at = "insert" /\ sync'[p].left = sync[p].left - 1
          /\ sync'[p].table = sync[p].table
      BY <1>0, <2>1, <3>1 DEF SchemaTypeOK, Migrations
    <3>3. TableOf(p)' = TableOf(p)
      BY <3>2 DEF TableOf
    <3>4. \A t \in ToSet(tables) : rows'[t] <= Beans
      BY <1>0, <2>1, <2>2, <2>3, SchemaAssumption DEF RowsFit
    <3>5. rows'[TableOf(p)] + sync'[p].left = Beans
      <4>1. rows'[TableOf(p)] = rows[TableOf(p)] + 1 /\ rows[TableOf(p)] \in Nat
        BY <2>1, <2>3
      <4>2. ASSUME NEW m \in Nat, NEW n \in Int PROVE (m + 1) + (n - 1) = m + n
        OBVIOUS
      <4>3. sync[p].left \in Int
        BY <2>2
      <4>4. (rows[TableOf(p)] + 1) + (sync[p].left - 1) = rows[TableOf(p)] + sync[p].left
        BY <4>1, <4>2, <4>3
      <4> QED
        BY <2>1, <3>2, <4>1, <4>4, Zenon
    <3>6. dbFaults' = 0 => \A t \in ToSet(tables) : rows'[t] \in {0, Beans} \/ TableOf(p) = t
      BY <2>3, <2>4
    <3> QED
      BY <3>2, <3>3, <3>4, <3>5, <3>6
  <2>6. CASE ~(sync[p].left > 1)
    <3>1. sync[p].left = 1
      BY <2>2, <2>6, SchemaAssumption
    <3>2. SyncTo(p, "after")
      BY <1>6, <2>1, <2>6 DEF InsertBean
    <3>5. sync'[p].at # "insert"
      <4>1. SchemaTypeOK /\ "after" \in SyncSteps \cup Ends
        BY <1>0 DEF SyncSteps
      <4>2. sync'[p].at = "after"
        BY <3>2, <4>1, MovesOn
      <4> QED
        BY <4>2
    <3>3. rows[TableOf(p)] + 1 = Beans
      BY <2>1, <3>1
    <3>4. \A t \in ToSet(tables) : rows'[t] <= Beans
      BY <1>0, <2>3, <3>3, SchemaAssumption DEF RowsFit
    <3>6. dbFaults' = 0 => \A t \in ToSet(tables) : rows'[t] \in {0, Beans}
      BY <2>3, <2>4, <3>3
    <3> QED
      BY <3>4, <3>5, <3>6
  <2> QED
    BY <2>5, <2>6
<1>7. CASE StatementFails(p)
  <2>1. sync'[p].at = "cut" /\ rows' = rows
    BY <1>0, <1>7, MovesOn DEF StatementFails
  <2>2. dbFaults' # 0
    BY <1>0, <1>7, SchemaAssumption DEF StatementFails, SchemaTypeOK
  <2> QED
    BY <1>0, <2>1, <2>2 DEF RowsFit
<1>8. ASSUME NEW a \in SyncSteps \cup Ends, SyncTo(p, a), a # "insert",
             sync[p].at # "insert", rows' = rows, dbFaults' = dbFaults
      PROVE  Fit
  BY <1>0, <1>3, <1>8, MovesOn
<1>9. CASE (CreateDB(p) \/ DialDB(p) \/ Sync2(p) \/ Convert(p) \/ AddIndex(p)) /\ dbFaults' = dbFaults
  BY <1>8, <1>9 DEF CreateDB, DialDB, Sync2, Convert, AddIndex, Fails, SyncSteps
<1>10. CASE ShowIndex(p) /\ dbFaults' = dbFaults
  <2>1. CASE TableOf(p) \in exists
    <3>1. PICK o \in Orders :
            sync' = [sync EXCEPT ![p] =
              [sync[p] EXCEPT !.at = IF o \in indexes[TableOf(p)] THEN "count" ELSE "add",
                              !.order = o]]
      BY <1>10, <2>1 DEF ShowIndex
    <3>2. sync'[p].at # "insert"
      BY <1>0, <3>1 DEF SchemaTypeOK, Migrations
    <3> QED
      BY <1>3, <1>10, <3>2 DEF ShowIndex
  <2>2. CASE TableOf(p) \notin exists
    BY <1>8, <1>10, <2>2 DEF ShowIndex
  <2> QED
    BY <2>1, <2>2
<1>11. CASE CountRows(p) /\ dbFaults' = dbFaults
  <2>1. sync[p].at # "insert" /\ rows' = rows
    BY <1>11 DEF CountRows
  <2> QED
    BY <1>8, <1>11, <2>1 DEF CountRows, SyncSteps
<1>12. CASE AfterSync(p) /\ dbFaults' = dbFaults
  <2>1. sync[p].at # "insert" /\ rows' = rows /\ NextTable(p)
    BY <1>12 DEF AfterSync
  <2>2. sync'[p].at # "insert"
    BY <1>0, <2>1, NextTableMoves
  <2> QED
    BY <1>3, <1>12, <2>1, <2>2
<1> QED
  BY <1>4, <1>5, <1>6, <1>7, <1>9, <1>10, <1>11, <1>12 DEF SchemaStep, Statement

LEMMA StatementLeads ==
  ASSUME SchemaInv, NEW p \in Migrators, SchemaStep(p)
  PROVE  /\ sync'[p].at # "none"
         /\ sync'[p].at \in Synced \cup {"sync2"} => tables # <<>>
<1>0. /\ SchemaTypeOK /\ sync[p] \in Migrations /\ sync \in [Migrators -> Migrations]
      /\ sync[p].at \in Synced \cup {"sync2"} => tables # <<>>
  BY DEF SchemaInv, SchemaTypeOK
<1> DEFINE Leads == /\ sync'[p].at # "none"
                    /\ sync'[p].at \in Synced \cup {"sync2"} => tables # <<>>
<1> USE DEF Synced, Created, SyncSteps
<1>1. ASSUME NEW s \in SyncSteps \cup Ends, SyncTo(p, s),
             s \in Synced \cup {"sync2"} => tables # <<>>
      PROVE  Leads
  BY <1>0, <1>1, MovesOn
<1>2. ASSUME NextTable(p), tables # <<>> PROVE Leads
  BY <1>0, <1>2, NextTableMoves
<1>3. ASSUME sync'[p].at \in Synced, tables # <<>> PROVE Leads
  BY <1>3
<1> SUFFICES Leads
  OBVIOUS
<1>4. Leads
  <2> HIDE DEF Leads
  <2>1. CASE DropDatabase(p) \/ CreateDB(p) \/ DialDB(p) \/ Sync2(p) \/ Convert(p) \/ AddIndex(p)
    BY <1>0, <1>1, <2>1 DEF DropDatabase, CreateDB, DialDB, Sync2, Convert, AddIndex, Fails
  <2>2. CASE ShowIndex(p)
    <3>1. CASE TableOf(p) \in exists
      <4>1. PICK o \in Orders :
              sync' = [sync EXCEPT ![p] =
                [sync[p] EXCEPT !.at = IF o \in indexes[TableOf(p)] THEN "count" ELSE "add",
                                !.order = o]]
        BY <2>2, <3>1 DEF ShowIndex
      <4>2. sync'[p].at \in {"count", "add"}
        BY <1>0, <4>1 DEF Migrations
      <4> QED
        BY <1>0, <1>3, <2>2, <4>2 DEF ShowIndex
    <3>2. CASE TableOf(p) \notin exists
      BY <1>1, <2>2, <3>2 DEF ShowIndex
    <3> QED
      BY <3>1, <3>2
  <2>3. CASE CountRows(p) \/ AfterSync(p)
    BY <1>0, <1>1, <1>2, <2>3 DEF CountRows, AfterSync
  <2>4. CASE Truncate(p)
    <3>1. sync' = [sync EXCEPT ![p] = [sync[p] EXCEPT !.at = "insert", !.left = Beans]]
      BY <2>4 DEF Truncate
    <3>2. sync'[p].at = "insert"
      BY <1>0, <3>1 DEF Migrations
    <3> QED
      BY <1>0, <1>3, <2>4, <3>2 DEF Truncate
  <2>5. CASE InsertBean(p)
    <3>1. CASE TableOf(p) \in exists /\ sync[p].left > 1
      <4>1. sync' = [sync EXCEPT ![p] = [sync[p] EXCEPT !.left = sync[p].left - 1]]
        BY <2>5, <3>1 DEF InsertBean
      <4>2. sync'[p].at = "insert"
        BY <1>0, <2>5, <4>1 DEF Migrations, InsertBean
      <4> QED
        BY <1>0, <1>3, <2>5, <4>2 DEF InsertBean
    <3>2. CASE ~(TableOf(p) \in exists /\ sync[p].left > 1)
      BY <1>0, <1>1, <2>5, <3>2 DEF InsertBean
    <3> QED
      BY <3>1, <3>2
  <2>6. CASE StatementFails(p)
    BY <1>1, <2>6 DEF StatementFails
  <2> QED
    BY <2>1, <2>2, <2>3, <2>4, <2>5, <2>6 DEF SchemaStep, Statement
<1> QED
  BY <1>4

LEMMA SchemaMoveInv ==
  ASSUME SchemaInv, SchemaMove
  PROVE  SchemaInv'
<1>0. SchemaTypeOK /\ ContendersKnow /\ MigratesAgain
  BY DEF SchemaInv
<1>T. SchemaTypeOK'
  BY <1>0, SchemaTypes
<1>1. ASSUME NEW p \in Migrators, sync[p].at = "none", NEW drop \in BOOLEAN, BeginMigrate(p, drop)
      PROVE  SchemaInv'
  <2>1. /\ \A q \in Migrators : q # p => sync'[q] = sync[q]
        /\ sync'[p].at \in {"drop", "create"} /\ sync'[p].table = 1
        /\ UNCHANGED <<db, exists, indexes, rows, dbFaults>>
    BY <1>0, <1>1, BeginMoves
  <2>2. /\ Migrating' = Migrating \cup {p} /\ p \notin Migrating
        /\ Migrating \subseteq Migrators
    BY <1>1, <2>1 DEF Migrating, SyncSteps
  <2>3. \A q \in Migrators : contended'[q] <=> IF q = p THEN Migrating # {}
                                               ELSE contended[q] \/ q \in Migrating
    BY <1>1 DEF BeginMigrate
  <2>4. ~contended[p]
    BY <1>0, <1>1 DEF ContendersKnow
  <2>5. ContendersKnow'
    BY <1>0, <2>1, <2>2, <2>3 DEF ContendersKnow, Migrating, SyncSteps
  <2>6. MigratesAgain'
    BY <1>0, <2>1, <2>3, <2>4 DEF MigratesAgain
  <2>7. ASSUME NEW q \in Migrating', ~contended'[q] PROVE Progress(q)'
    <3>1. q = p
      BY <2>2, <2>3, <2>7
    <3> QED
      BY <2>1, <3>1 DEF Progress, Synced, Created, Indexed
  <2>8. ASSUME Quiet' PROVE RowsFit'
    <3>1. Quiet /\ Migrating = {}
      BY <1>1, <2>2, <2>3, <2>4, <2>8 DEF Quiet
    <3>2. RowsFit /\ \A q \in Migrators : sync[q].at # "insert" /\ sync'[q].at # "insert"
      BY <2>1, <3>1 DEF SchemaInv, Migrating, SyncSteps
    <3> QED
      BY <2>1, <3>2 DEF RowsFit
  <2>9. \A q \in Migrators : sync'[q].at \in Synced \cup {"sync2"} => tables # <<>>
    BY <2>1 DEF SchemaInv, Synced, Created
  <2> QED
    BY <1>T, <2>5, <2>6, <2>7, <2>8, <2>9 DEF SchemaInv
<1>2. ASSUME NEW p \in Migrators, SchemaStep(p) PROVE SchemaInv'
  <2>1. /\ \A q \in Migrators : q # p => sync'[q] = sync[q]
        /\ p \in Migrating /\ contended' = contended
    BY <1>0, <1>2, StatementMoves DEF Migrating
  <2>2. /\ sync'[p].at # "none"
        /\ sync'[p].at \in Synced \cup {"sync2"} => tables # <<>>
    BY <1>2, StatementLeads
  <2>3. Migrating' \subseteq Migrating
    BY <2>1 DEF Migrating
  <2>4. ContendersKnow'
    BY <1>0, <2>1, <2>2, <2>3 DEF ContendersKnow
  <2>5. MigratesAgain'
    <3>1. sync'[p].at = "failed" => contended[p]
      BY <1>2, AloneGoesOn
    <3> QED
      BY <1>0, <2>1, <3>1 DEF MigratesAgain
  <2>6. ASSUME NEW q \in Migrating', ~contended'[q] PROVE Progress(q)'
    <3>1. q = p
      BY <1>0, <2>1, <2>3, <2>6 DEF ContendersKnow
    <3>2. sync'[p].at \in SyncSteps
      BY <3>1 DEF Migrating
    <3> QED
      BY <1>2, <2>1, <2>6, <3>1, <3>2, AloneGoesOn
  <2>7. Quiet' => RowsFit'
    BY <1>2, <2>1, RowsStayFit DEF Quiet
  <2>8. \A q \in Migrators : sync'[q].at \in Synced \cup {"sync2"} => tables # <<>>
    BY <2>1, <2>2 DEF SchemaInv
  <2> QED
    BY <1>T, <2>4, <2>5, <2>6, <2>7, <2>8 DEF SchemaInv
<1>3. CASE UNCHANGED schemaVars
  BY <1>3 DEF schemaVars, SchemaInv, SchemaTypeOK, ContendersKnow, MigratesAgain, Migrating, Quiet,
              Progress, RowsFit, TableOf
<1> QED
  BY <1>1, <1>2, <1>3 DEF SchemaMove

(* The action of MigratedIsComplete.                                       *)
EndsComplete ==
  \A p \in Migrators :
    sync[p].at # "done" /\ sync'[p].at = "done" /\ ~contended[p] =>
      /\ db'
      /\ \A t \in ToSet(tables) :
           /\ t \in exists' /\ indexes'[t] # {} /\ rows'[t] > 0
           /\ (\A q \in Migrators : ~contended[q]) =>
                rows'[t] <= Beans /\ (dbFaults' = 0 => rows'[t] = Beans)

LEMMA SchemaMoveEnds ==
  ASSUME SchemaInv, SchemaMove
  PROVE  EndsComplete
<1> SUFFICES ASSUME NEW p \in Migrators, sync[p].at # "done", sync'[p].at = "done", ~contended[p]
             PROVE  /\ Complete'
                    /\ Quiet => \A t \in ToSet(tables) :
                         rows'[t] <= Beans /\ (dbFaults' = 0 => rows'[t] = Beans)
  BY DEF EndsComplete, Complete, Quiet
<1>0. SchemaTypeOK /\ ContendersKnow
  BY DEF SchemaInv
<1>1. SchemaStep(p)
  <2>1. ASSUME NEW q \in Migrators, NEW drop \in BOOLEAN, BeginMigrate(q, drop) PROVE FALSE
    BY <1>0, <2>1, BeginMoves
  <2>2. ASSUME NEW q \in Migrators, SchemaStep(q) PROVE q = p
    BY <1>0, <2>2, StatementMoves
  <2>3. ~UNCHANGED schemaVars
    BY DEF schemaVars
  <2> QED
    BY <2>1, <2>2, <2>3 DEF SchemaMove
<1>2. Complete'
  BY <1>1, AloneGoesOn
<1>3. ASSUME Quiet, NEW t \in ToSet(tables)
      PROVE  rows'[t] <= Beans /\ (dbFaults' = 0 => rows'[t] = Beans)
  <2>1. RowsFit'
    BY <1>1, <1>3, RowsStayFit
  <2>2. \A q \in Migrators : sync'[q].at # "insert"
    <3>1. p \in Migrating /\ \A q \in Migrators : q # p => sync'[q] = sync[q]
      BY <1>0, <1>1, StatementMoves DEF Migrating
    <3>2. \A q \in Migrators : q # p => q \notin Migrating
      BY <1>0, <3>1 DEF ContendersKnow
    <3> QED
      BY <3>1, <3>2 DEF Migrating, SyncSteps
  <2>3. rows'[t] > 0
    BY <1>2 DEF Complete
  <2> QED
    BY <2>1, <2>2, <2>3 DEF RowsFit
<1> QED
  BY <1>2, <1>3

LEMMA NextMovesSchema == ASSUME TableInv, [Next]_vars PROVE SchemaMove
<1>0. /\ Migrators = Shells
      /\ \A c \in Shells : at[c] = "load" => sync[c].at = "none"
  BY CommandsAssumption DEF TableInv, JobsFit
<1>1. ASSUME NEW c \in Shells, Migrate(c) PROVE SchemaMove
  BY <1>0, <1>1 DEF Migrate, SchemaMove
<1>2. ASSUME NEW c \in Shells, MigrateStep(c) PROVE SchemaMove
  BY <1>0, <1>2 DEF MigrateStep, SchemaMove
<1>3. ASSUME NEW c \in Shells, GiveCommand(c) \/ CommandStep(c) \/ CommandDies(c) PROVE SchemaMove
  BY <1>1, <1>2, <1>3
     DEF CommandStep, GiveCommand, CommandDies, CommandLoads, LoadFailed, Restart, StartLooks, Spawn,
         StopLooks, FindPids, Kill, Killed, Poll, Migrated, SchemaMove
<1>4. ASSUME NEW d \in Daemons,
             DaemonRuns(d) \/ DaemonBusy(d) \/ DaemonSaves(d) \/ DaemonDies(d)
      PROVE  SchemaMove
  BY <1>4 DEF DaemonRuns, DaemonBoots, DaemonBack, DaemonStops, DaemonBusy, DaemonSaves, DaemonDies,
              SchemaMove
<1>5. CASE UNCHANGED vars
  BY <1>5 DEF vars, SchemaMove
<1> QED
  BY <1>3, <1>4, <1>5 DEF Next

LEMMA SchemaHolds == Spec => []SchemaInv
<1>1. Init => SchemaInv
  BY SchemaInitInv DEF Init
<1>2. TableInv /\ SchemaInv /\ [Next]_vars => SchemaInv'
  BY NextMovesSchema, SchemaMoveInv
<1> QED
  BY <1>1, <1>2, FilesAndProcesses, PTL DEF Spec

(* Files, database and process table keep their types.                     *)
THEOREM CommandsTyped == Spec => []TypeOK
<1>1. TableInv /\ SetInv /\ SchemaInv => TypeOK
  BY DEF TableInv, SetInv, SchemaInv, CmdTypeOK, TypeOK
<1> QED
  BY <1>1, FilesAndProcesses, SchemaHolds, PTL

(* MySQL refuses no statement of a migration that no other one meets,      *)
(* whatever earlier migrations, cut off anywhere or contended, have left   *)
(* (mysql.go:501-540, 96-104).                                             *)
THEOREM MigrationsRepeat == Spec => []MigratesAgain
<1>1. SchemaInv => MigratesAgain
  BY DEF SchemaInv
<1> QED
  BY <1>1, SchemaHolds, PTL

(* One that succeeds leaves every table with its index and its data        *)
(* (mysql.go:501-540).                                                     *)
THEOREM MigrationsComplete == Spec => MigratedIsComplete
<1>1. TableInv /\ SchemaInv /\ [Next]_vars => [EndsComplete]_schemaVars
  BY NextMovesSchema, SchemaMoveEnds
<1>2. [EndsComplete]_schemaVars =>
        [\A p \in Migrators :
           sync[p].at # "done" /\ sync'[p].at = "done" /\ ~contended[p] =>
             /\ db'
             /\ \A t \in ToSet(tables) :
                  /\ t \in exists' /\ indexes'[t] # {} /\ rows'[t] > 0
                  /\ (\A q \in Migrators : ~contended[q]) =>
                       rows'[t] <= Beans /\ (dbFaults' = 0 => rows'[t] = Beans)]_schemaVars
  BY DEF EndsComplete
<1> QED
  BY <1>1, <1>2, FilesAndProcesses, SchemaHolds, PTL DEF Spec, MigratedIsComplete
=============================================================================
