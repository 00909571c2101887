---------------------------- MODULE MCMigrationRun ----------------------------
(* The constants of the runs of MigrationRun.                               *)
EXTENDS MigrationRun

MCKinds  == {"object", "salesforce"}
MCSizes  == {0, 3, 5, 6}
MCObject == {"object"}
=============================================================================
