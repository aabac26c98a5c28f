------------------------------- MODULE Settings -------------------------------
(***************************************************************************)
(* The configuration file and the changes a program makes to it            *)
(* (g2util/config.go, Config).  A running program writes its settings to   *)
(* data/conf_temp.yml (WriteToTemp); every process that loads the          *)
(* configuration afterwards merges that file into the configuration file   *)
(* and removes it (LoadFromTemp).                                          *)
(*                                                                         *)
(* A file's content is the number of the change it holds.  To write a file *)
(* is to truncate it and then to fill it (viper, external), and a process  *)
(* may die in between; the empty file is a valid, empty YAML file.         *)
(***************************************************************************)
EXTENDS Integers, FiniteSets

CONSTANTS Procs,        \* processes
          MaxVersion,   \* bound of the changes (model checking only)
          MaxCrashes    \* bound of the crashes (model checking only)

ASSUME SettingsAssumption ==
  MaxVersion \in Nat \ {0} /\ MaxCrashes \in Nat /\ IsFiniteSet(Procs)

VARIABLES conf,     \* the configuration file
          temp,     \* conf_temp.yml
          step,     \* step[p]: how far load or WriteToTemp of process p is
          viper,    \* viper[p]: the settings p has in memory
          latest,   \* the last change whose WriteToTemp returned
          raced,    \* a load overlapped a WriteToTemp, or a load that merges
          torn,     \* a process died while it wrote conf_temp.yml
          crashes

setVars == <<conf, temp, step, viper, latest, raced, torn, crashes>>

Absent == -2
Broken == -1        \* cut in the middle, no YAML
Empty == 0
Versions == 1..MaxVersion

LoadSteps == {"read", "stat", "merge", "truncate", "fill", "remove"}

SetTypeOK ==
  /\ conf \in Versions \cup {Broken, Empty}
  /\ temp \in Versions \cup {Absent, Broken, Empty}
  /\ step \in [Procs -> LoadSteps \cup {"none", "loaded", "saving", "failed"}]
  /\ viper \in [Procs -> Versions \cup {Empty}]
  /\ latest \in Versions /\ raced \in BOOLEAN /\ torn \in BOOLEAN
  /\ crashes \in 0..MaxCrashes

(* The processes in up have loaded the configuration before.               *)
SetInitWith(up) ==
  /\ conf = 1 /\ temp = Absent /\ latest = 1
  /\ step = [p \in Procs |-> IF p \in up THEN "loaded" ELSE "none"]
  /\ viper = [p \in Procs |-> IF p \in up THEN 1 ELSE Empty]
  /\ raced = FALSE /\ torn = FALSE /\ crashes = 0

StepTo(p, s) == step' = [step EXCEPT ![p] = s]
Fetch(p, v) == viper' = [viper EXCEPT ![p] = v]

Others(p, s) == {q \in Procs \ {p} : step[q] \in s}

-----------------------------------------------------------------------------
(* load: ReadInConfig, then LoadFromTemp, one file operation a step.       *)

BeginLoad(p) ==
  /\ StepTo(p, "read")
  /\ raced' = (raced \/ Others(p, {"saving"}) # {}
                     \/ (temp # Absent /\ Others(p, LoadSteps) # {}))
  /\ UNCHANGED <<conf, temp, viper, latest, torn, crashes>>

ReadConf(p) ==
  /\ step[p] = "read"
  /\ IF conf = Broken THEN StepTo(p, "failed") /\ UNCHANGED viper
     ELSE Fetch(p, conf) /\ StepTo(p, "stat")
  /\ UNCHANGED <<conf, temp, latest, raced, torn, crashes>>

StatTemp(p) ==
  /\ step[p] = "stat"
  /\ StepTo(p, IF temp = Absent THEN "loaded" ELSE "merge")
  /\ UNCHANGED <<conf, temp, viper, latest, raced, torn, crashes>>

(* Mutant: what conf_temp.yml says does not win.                           *)
ReadTemp_KeepsOld(p) ==
  /\ step[p] = "merge"
  /\ StepTo(p, IF temp \in {Absent, Broken} THEN "failed" ELSE "truncate")
  /\ UNCHANGED <<conf, temp, viper, latest, raced, torn, crashes>>

(* MergeConfigMap: WriteToTemp wrote all settings, so they replace all.    *)
ReadTemp(p) ==
  /\ step[p] = "merge"
  /\ IF temp \in {Absent, Broken} THEN StepTo(p, "failed") /\ UNCHANGED viper
     ELSE /\ Fetch(p, IF temp = Empty THEN viper[p] ELSE temp)
          /\ StepTo(p, "truncate")
  /\ UNCHANGED <<conf, temp, latest, raced, torn, crashes>>

(* Mutant: the temporary file is removed before its content is saved.      *)
TruncateConf_Removes(p) ==
  /\ step[p] = "truncate"
  /\ conf' = Empty /\ temp' = Absent
  /\ StepTo(p, "fill")
  /\ UNCHANGED <<viper, latest, raced, torn, crashes>>

TruncateConf(p) ==
  /\ step[p] = "truncate"
  /\ conf' = Empty
  /\ StepTo(p, "fill")
  /\ UNCHANGED <<temp, viper, latest, raced, torn, crashes>>

FillConf(p) ==
  /\ step[p] = "fill"
  /\ conf' = viper[p]
  /\ StepTo(p, "remove")
  /\ UNCHANGED <<temp, viper, latest, raced, torn, crashes>>

RemoveTemp(p) ==
  /\ step[p] = "remove"
  /\ temp' = Absent
  /\ StepTo(p, "loaded")
  /\ UNCHANGED <<conf, viper, latest, raced, torn, crashes>>

LoadStep(p) ==
  \/ ReadConf(p) \/ StatTemp(p) \/ ReadTemp(p)
  \/ TruncateConf(p) \/ FillConf(p) \/ RemoveTemp(p)

-----------------------------------------------------------------------------
(* WriteToTemp: the new setting in memory, then the file.                  *)

WriteToTemp(p) ==
  /\ step[p] = "loaded" /\ latest < MaxVersion
  /\ Others(p, {"saving"}) = {}       \* changes are numbered one by one
  /\ Fetch(p, latest + 1)
  /\ temp' = Empty
  /\ StepTo(p, "saving")
  /\ raced' = (raced \/ Others(p, LoadSteps) # {})
  /\ UNCHANGED <<conf, latest, torn, crashes>>

Saved(p) ==
  /\ step[p] = "saving"
  /\ temp' = viper[p]
  /\ latest' = viper[p]
  /\ StepTo(p, "loaded")
  /\ UNCHANGED <<conf, viper, raced, torn, crashes>>

(* The process ends; a file it was filling is empty or cut.                *)
Dies(p) ==
  /\ conf' \in IF step[p] = "fill" THEN {Empty, Broken} ELSE {conf}
  /\ temp' \in IF step[p] = "saving" THEN {Empty, Broken} ELSE {temp}
  /\ torn' = (torn \/ step[p] = "saving")
  /\ StepTo(p, "failed")
  /\ UNCHANGED <<viper, latest, raced>>

Crash(p) ==
  /\ crashes < MaxCrashes /\ crashes' = crashes + 1
  /\ step[p] \in LoadSteps \cup {"loaded", "saving"}
  /\ Dies(p)

-----------------------------------------------------------------------------
(* A change that WriteToTemp has returned for is in one of the two files,  *)
(* wherever a load died (LoadFromTemp, config.go:54-57: the file is saved  *)
(* before the other is removed).  Not so if a write was cut, or overlapped *)
(* a load: the load then removes what it has not read.                     *)
SettingsSurvive ==
  ~raced /\ ~torn /\ (\A p \in Procs : step[p] # "saving") =>
    latest \in {conf, temp}

(* A load that ends has the last change, also when an earlier one died.    *)
LoadSeesLatest ==
  [][\A p \in Procs :
       step[p] \in LoadSteps /\ step'[p] = "loaded" /\ ~raced /\ ~torn =>
         viper'[p] = latest]_setVars
=============================================================================
