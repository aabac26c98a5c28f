------------------------------ MODULE MCProcess ------------------------------
(* Process on small instances.                                             *)
EXTENDS Process, TLC

ServiceIsLate == \E i \in late : list[i] \notin Files
FileIsLate == \E i \in late : list[i] \in Files

(* Midnight and a failing disk are combined with one signal only, and with *)
(* time-outs of services or of files, not of both.                         *)
Few == today > 1 \/ faults > 0 => sent < 2 /\ ~(ServiceIsLate /\ FileIsLate)

FewSpec == Init /\ [][Next /\ Few']_vars /\ Fairness
=============================================================================
