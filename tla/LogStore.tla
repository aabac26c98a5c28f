------------------------------ MODULE LogStore ------------------------------
(***************************************************************************)
(* What log files promise (g2util/auto_back_file.go): what is written to a *)
(* file is kept, in memory and then on disk, until it is SaveDays old.     *)
(* Nothing is said of order or of copies.                                  *)
(***************************************************************************)
EXTENDS Naturals, Sequences

CONSTANTS Files, SaveDays

VARIABLES today,
          log,      \* log[f][r]: the day on which record r was written
          memory,   \* memory[f]: the records in the buffer
          disk      \* disk[f]: the records in the file or its backups

vars == <<today, log, memory, disk>>

Old(f) == {r \in DOMAIN log[f] : log[f][r] + SaveDays <= today}

LogInit ==
  /\ today \in Nat
  /\ log = [f \in Files |-> <<>>]
  /\ memory = [f \in Files |-> {}] /\ disk = [f \in Files |-> {}]

(* A record leaves the memory for the disk, and the disk when it is old.   *)
Moves(f, written) ==
  /\ disk[f] \ disk'[f] \subseteq Old(f)
  /\ memory[f] \cup written \subseteq memory'[f] \cup disk'[f]
  /\ memory'[f] \subseteq memory[f] \cup written
  /\ disk'[f] \subseteq disk[f] \cup memory[f] \cup written

Accept(f) == log'[f] = Append(log[f], today) /\ Moves(f, {Len(log'[f])})

Keep(f) == log'[f] = log[f] /\ Moves(f, {})

Step == UNCHANGED today /\ \A f \in Files : Accept(f) \/ Keep(f)

Midnight == today' = today + 1 /\ UNCHANGED <<log, memory, disk>>

LogSpec == LogInit /\ [][Step \/ Midnight]_vars
=============================================================================
