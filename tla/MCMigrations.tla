--------------------------- MODULE MCMigrations ----------------------------
(* A small instance of Migrations: enough runners for a version of the     *)
(* lock to come back.                                                      *)
EXTENDS Migrations, TLC

CONSTANTS r1, r2, r3, r4, m1, s1

OneMigration == <<m1>>
SameChecksums == [r \in Runner |-> s1]
Alike == Permutations(Runner)
=============================================================================
