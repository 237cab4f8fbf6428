--------------------------- MODULE MCMigrations ---------------------------
(* Definitions that instantiate Migrations for TLC.                         *)
EXTENDS Migrations, TLC

MigrationsSymmetry == Permutations(Runners)
=============================================================================
