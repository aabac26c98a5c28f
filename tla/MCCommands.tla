------------------------------ MODULE MCCommands ------------------------------
(* Commands on small instances: the second call of TableRegister names a   *)
(* table that is known and one that is not.                                *)
EXTENDS Commands, TLC

CONSTANTS c1, c2

MCShells == {c1, c2}
MCProcs == MCShells \cup {<<c>> : c \in MCShells} \cup {<<>>}
MCRegistered == <<<<"user">>, <<"user", "log">>>>
=============================================================================
