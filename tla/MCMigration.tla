---------------------------- MODULE MCMigration ----------------------------
EXTENDS MigrationProps
=============================================================================
