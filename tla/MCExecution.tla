---------------------------- MODULE MCExecution ----------------------------
(* Instances of Execution for TLC.                                          *)
EXTENDS Execution, TLC

Order(kind, qty) == [kind |-> kind, qty |-> qty]

\* Entries of both sides that add up, an exit that covers one of them only.
AllCommands ==
  { Order("entry", 1), Order("entry", -1), Order("exit", -1), Order("bracket", -1) }

\* No property below tells callers or runs apart.
Symmetry == Permutations(Callers) \cup Permutations(Runs)
=============================================================================
