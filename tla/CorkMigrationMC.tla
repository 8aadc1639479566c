--------------------------- MODULE CorkMigrationMC ---------------------------
(* The instance of module CorkMC for the migration. *)
EXTENDS CorkMigration, CorkMC
=============================================================================
