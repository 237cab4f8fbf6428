---------------------------- MODULE MCWorkflows ----------------------------
(* Definitions that instantiate Workflows for TLC.                          *)
EXTENDS Workflows, TLC

WorkflowsSymmetry == Permutations(Callers) \union Permutations(Secrets)
=============================================================================
