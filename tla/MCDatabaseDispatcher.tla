------------------------- MODULE MCDatabaseDispatcher -------------------------
(***************************************************************************)
(* Instances of DatabaseDispatcher for TLC.                                *)
(***************************************************************************)
EXTENDS DatabaseDispatcher

CONSTANTS f1, f2
=============================================================================
