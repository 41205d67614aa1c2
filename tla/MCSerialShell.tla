--------------------------- MODULE MCSerialShell ---------------------------
(***************************************************************************)
(* SerialShell with two letters, a short buffer, and two commands: one     *)
(* that answers at once and one that sleeps, like "time".                  *)
(***************************************************************************)
EXTENDS SerialShell

MCWithTime == <<[name |-> <<"f", "r">>, ticks |-> 0], [name |-> <<"r">>, ticks |-> 1]>>
=============================================================================
