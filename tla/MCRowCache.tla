------------------------------ MODULE MCRowCache ------------------------------
(* RowCache on small instances.                                            *)
EXTENDS RowCache, TLC

(* Processes are interchangeable: no property names one.                   *)
Symmetry == Permutations(Procs)
=============================================================================
