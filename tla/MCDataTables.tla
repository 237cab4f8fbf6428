--------------------------- MODULE MCDataTables ---------------------------
(* Definitions that instantiate DataTables for TLC.                         *)
EXTENDS DataTables, TLC

DataTablesSymmetry ==
    Permutations(Callers) \union Permutations(Workspaces)
        \union Permutations(Tables) \union Permutations(Values)
=============================================================================
