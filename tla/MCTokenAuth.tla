----------------------------- MODULE MCTokenAuth -----------------------------
(* TokenAuth on small instances.                                           *)
EXTENDS TokenAuth, TLC

(* Nodes are interchangeable, and so are requests: no property names one.  *)
Symmetry == Permutations(Nodes) \cup Permutations(Reqs)
=============================================================================
