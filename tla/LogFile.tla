------------------------------- MODULE LogFile -------------------------------
(***************************************************************************)
(* Log files: g2util/auto_back_file.go (AbFile and its innerIO).           *)
(*                                                                         *)
(* A writer appends to a buffer in memory; the buffer is written to the    *)
(* file when it is full and by a goroutine every two seconds.  A file that *)
(* has grown to FileMaxSize is copied into a directory of the day and      *)
(* emptied; the goroutine removes the directories that are too old.        *)
(*                                                                         *)
(* A record is the number of the Write that brought it, and all have size  *)
(* one.  The disk is external.                                             *)
(***************************************************************************)
EXTENDS Naturals, Sequences, SequencesExt, FiniteSets

CONSTANTS Files,        \* paths
          BufferSize, FileMaxSize, SaveDays,  \* ABFileOption
          Alike,        \* <<f, g>>: the name of g is that of f and digits
          LastDay,      \* bound of the calendar (model checking only)
          MaxFaults     \* bound of the disk's failures (model checking only)

Days == 1..LastDay

ASSUME LogAssumption ==
  /\ BufferSize \in Nat \ {0} /\ FileMaxSize \in Nat \ {0}
  /\ SaveDays \in Nat \ {0} /\ LastDay \in Nat \ {0} /\ MaxFaults \in Nat
  /\ Alike \subseteq Files \X Files
  /\ \A f \in Files : <<f, f>> \notin Alike

VARIABLES today, faults,
          log,      \* log[f][r]: the day of the r-th Write that f accepted
          buf,      \* buf[f]: innerIO.buf
          file,     \* file[f]: the file itself
          backups,  \* backups[f][d]: f's directory of day d, copies by number
          closed,   \* closed[f]: innerIO.closed, and the close channel
          fd,       \* fd[f]: the file is open
          runner    \* runner[f]: innerIO.run, "none" until f is opened

diskVars == <<buf, file, backups, faults>>
logVars == <<today, log, diskVars, closed, fd, runner>>

(* The records in the backups of f, and in all its files.                  *)
InBackups(f) == UNION {ToSet(c) : c \in UNION {Range(backups[f][d]) : d \in Days}}
OnDisk(f) == InBackups(f) \cup ToSet(file[f])
Kept(f) == OnDisk(f) \cup ToSet(buf[f])

NoCopies == [n \in {} |-> <<>>]

IsDirectory(copies) ==
  /\ copies \in [DOMAIN copies -> Seq(Nat)]
  /\ DOMAIN copies \subseteq Nat /\ IsFiniteSet(DOMAIN copies)

LogTypeOK ==
  /\ today \in Days /\ faults \in 0..MaxFaults
  /\ log \in [Files -> Seq(Days)]
  /\ buf \in [Files -> Seq(Nat)] /\ file \in [Files -> Seq(Nat)]
  /\ backups = [f \in Files |-> [d \in Days |-> backups[f][d]]]
  /\ \A f \in Files, d \in Days : IsDirectory(backups[f][d])
  /\ \A f \in Files : Kept(f) \subseteq DOMAIN log[f]
  /\ closed \in [Files -> BOOLEAN] /\ fd \in [Files -> BOOLEAN]
  /\ runner \in [Files -> {"none", "running", "ended"}]

LogInit ==
  /\ today = 1 /\ faults = 0
  /\ log = [f \in Files |-> <<>>]
  /\ buf = [f \in Files |-> <<>>] /\ file = [f \in Files |-> <<>>]
  /\ backups = [f \in Files |-> [d \in Days |-> NoCopies]]
  /\ closed = [f \in Files |-> FALSE] /\ fd = [f \in Files |-> FALSE]
  /\ runner = [f \in Files |-> "none"]

(* newIO: a path that was opened before, even closed, is the same object.  *)
Open(f) ==
  /\ \/ /\ runner[f] = "none"
        /\ runner' = [runner EXCEPT ![f] = "running"]
        /\ fd' = [fd EXCEPT ![f] = TRUE]
     \/ runner[f] # "none" /\ UNCHANGED <<runner, fd>>
  /\ UNCHANGED <<today, log, diskVars, closed>>

-----------------------------------------------------------------------------
(* flush, of buffer b.                                                     *)

Parts(s) == {SubSeq(s, 1, n) : n \in 0..Len(s) - 1}

Fails == faults < MaxFaults /\ faults' = faults + 1

(* Mutant: the number of the last copy.                                    *)
CountFile_Last(copies) ==
  IF DOMAIN copies = {} THEN 0 ELSE Cardinality(DOMAIN copies) - 1

(* countFile: how many copies the directory has.                           *)
CountFile(copies) == Cardinality(DOMAIN copies)

(* Create and Copy: a copy that has the number already is overwritten.     *)
WithCopy(copies, c) ==
  LET k == CountFile(copies)
  IN [n \in DOMAIN copies \cup {k} |-> IF n = k THEN c ELSE copies[n]]

(* fileCopyWithIndex fails before the copy, or stops in the middle of it.  *)
CopyFails(f, c) ==
  /\ Fails
  /\ \/ UNCHANGED backups
     \/ \E part \in Parts(c) :
          backups' = [backups EXCEPT ![f][today] = WithCopy(@, part)]
  /\ file' = [file EXCEPT ![f] = c]

(* Truncate's error is not looked at.                                      *)
Copies(f, c) ==
  /\ backups' = [backups EXCEPT ![f][today] = WithCopy(@, c)]
  /\ \/ file' = [file EXCEPT ![f] = <<>>] /\ UNCHANGED faults
     \/ file' = [file EXCEPT ![f] = c] /\ Fails

(* Mutant: the buffer is kept after it was written.                        *)
Flushes_Keeps(f, b) ==
  LET c == file[f] \o b IN
  /\ b # <<>> => fd[f]
  /\ buf' = [buf EXCEPT ![f] = b]
  /\ \/ /\ b = <<>> \/ Len(c) < FileMaxSize
        /\ file' = [file EXCEPT ![f] = c]
        /\ UNCHANGED <<backups, faults>>
     \/ b # <<>> /\ Len(c) >= FileMaxSize /\ Copies(f, c)

Flushes(f, b) ==
  LET c == file[f] \o b IN
  /\ b # <<>> => fd[f]
  /\ buf' = [buf EXCEPT ![f] = <<>>]
  /\ \/ /\ b = <<>> \/ Len(c) < FileMaxSize
        /\ file' = [file EXCEPT ![f] = c]
        /\ UNCHANGED <<backups, faults>>
     \/ b # <<>> /\ Len(c) >= FileMaxSize /\ Copies(f, c)

(* It returns an error: the file is closed, the write is short and the     *)
(* whole buffer stays, or the copy fails after the buffer was reset.       *)
FlushFails(f, b) ==
  /\ b # <<>>
  /\ \/ /\ ~fd[f]
        /\ buf' = [buf EXCEPT ![f] = b]
        /\ UNCHANGED <<file, backups, faults>>
     \/ /\ fd[f] /\ Fails
        /\ \E part \in Parts(b) :
             file' = [file EXCEPT ![f] = @ \o part]
        /\ buf' = [buf EXCEPT ![f] = b]
        /\ UNCHANGED backups
     \/ /\ fd[f] /\ Len(file[f] \o b) >= FileMaxSize
        /\ CopyFails(f, file[f] \o b)
        /\ buf' = [buf EXCEPT ![f] = <<>>]

Flush(f, b) == Flushes(f, b) \/ FlushFails(f, b)

-----------------------------------------------------------------------------
(* Write looks at closed first, and then takes the mutex.                  *)

Accepts(f) == runner[f] # "none" /\ ~closed[f]

WriteBuffer(f) ==
  /\ log' = [log EXCEPT ![f] = Append(@, today)]
  /\ LET b == Append(buf[f], Len(log'[f])) IN
     \/ /\ Len(b) < BufferSize
        /\ buf' = [buf EXCEPT ![f] = b]
        /\ UNCHANGED <<file, backups, faults>>
     \/ Len(b) >= BufferSize /\ Flush(f, b)
  /\ UNCHANGED <<today, closed, fd, runner>>

(* Close, after it has looked at Closed().                                 *)
CloseChannel(f) ==
  /\ closed' = [closed EXCEPT ![f] = TRUE]
  /\ UNCHANGED <<today, log, diskVars, fd, runner>>

-----------------------------------------------------------------------------
(* run: select takes any case that is ready.                               *)

FlushTick(f) ==
  /\ runner[f] = "running"
  /\ Flush(f, buf[f])
  /\ UNCHANGED <<today, log, closed, fd, runner>>

LatestDays == {d \in Days : d <= today /\ today < d + SaveDays}

(* autoDelDir: the directories named like f and digits, f's latest ones    *)
(* excepted.                                                               *)
Doomed(f, g, d) == (g = f /\ d \notin LatestDays) \/ <<f, g>> \in Alike

(* RemoveAll's error is not looked at: some copies may stay.               *)
RemoveAllBut(f, names) ==
  backups' = [g \in Files |-> [d \in Days |->
    IF Doomed(f, g, d) THEN Restrict(backups[g][d], DOMAIN backups[g][d] \cap names)
                       ELSE backups[g][d]]]

DelTick(f) ==
  /\ runner[f] = "running"
  /\ \/ RemoveAllBut(f, {}) /\ UNCHANGED faults
     \/ /\ Fails
        /\ \E names \in SUBSET UNION {DOMAIN backups[g][d] : g \in Files, d \in Days} :
             RemoveAllBut(f, names)
  /\ UNCHANGED <<today, log, buf, file, closed, fd, runner>>

(* flushAndCloseFile; a flush that fails leaves the file open.             *)
RunEnds(f) ==
  /\ runner[f] = "running" /\ closed[f]
  /\ \/ Flushes(f, buf[f]) /\ fd' = [fd EXCEPT ![f] = FALSE]
     \/ FlushFails(f, buf[f]) /\ UNCHANGED fd
  /\ runner' = [runner EXCEPT ![f] = "ended"]
  /\ UNCHANGED <<today, log, closed>>

Midnight ==
  /\ today < LastDay
  /\ today' = today + 1
  /\ UNCHANGED <<log, diskVars, closed, fd, runner>>

-----------------------------------------------------------------------------
(* The files are logs that keep what is younger than SaveDays days         *)
(* ("automatically delete the files of n days ago", auto_back_file.go:20), *)
(* whatever fails.                                                         *)
Store == INSTANCE LogStore
           WITH memory <- [f \in Files |-> ToSet(buf[f])],
                disk <- [f \in Files |-> OnDisk(f)]
ImplementsLog == Store!LogSpec

Increases(s) == \A i, j \in DOMAIN s : i < j => s[i] < s[j]
Below(s, t) == \A i \in DOMAIN s, j \in DOMAIN t : s[i] < t[j]

(* The copies in days by day and number, and then last.                    *)
InOrder(days, last) ==
  /\ Increases(last)
  /\ \A d \in Days : \A i \in DOMAIN days[d] :
       /\ Increases(days[d][i]) /\ Below(days[d][i], last)
       /\ \A e \in Days : \A j \in DOMAIN days[e] :
            d < e \/ (d = e /\ i < j) => Below(days[d][i], days[e][j])

(* Unless the disk failed, the backups, the file and the buffer hold the   *)
(* latest records, each of them once and in their order                    *)
(* (fileCopyWithIndex numbers the copies and empties the file, flush       *)
(* resets the buffer).                                                     *)
LogInOrder ==
  faults = 0 => \A f \in Files :
    /\ InOrder(backups[f], file[f] \o buf[f])
    /\ \A r \in Kept(f) : r..Len(log[f]) \subseteq Kept(f)
=============================================================================
