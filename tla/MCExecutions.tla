---------------------------- MODULE MCExecutions ----------------------------
(* Definitions that instantiate Executions for TLC.                         *)
EXTENDS Executions, TLC

CONSTANTS a, b, c, d

Single     == {}
Diamond    == {<<a, b>>, <<a, c>>, <<b, d>>, <<c, d>>}

NoRetry    == [n \in Nodes |-> 0]
RetryB     == [n \in Nodes |-> IF n = b THEN 2 ELSE 0]

ExecSymmetry == Permutations(Execs)
=============================================================================
