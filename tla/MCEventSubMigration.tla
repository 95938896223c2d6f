------------------------ MODULE MCEventSubMigration ------------------------
(***************************************************************************)
(* An operator who changes his mind.                                       *)
(***************************************************************************)
EXTENDS EventSubMigration
BothWays == {"forward", "rollback"}
=============================================================================
