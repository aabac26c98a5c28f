------------------------------ MODULE MCService ------------------------------
(* Service on small instances, and beside it the samples of Values: a      *)
(* behaviour is one of Service, or a sample that stays.                    *)
EXTENDS Service, Values

MCInit == Init /\ (Sampled \/ sample = NoSample)
MCNext == sample = NoSample /\ Next /\ UNCHANGED sample
MCSpec == MCInit /\ [][MCNext]_<<vars, sample>> /\ Fairness
=============================================================================
