--------------------------- MODULE MCProjectSync ---------------------------
(***************************************************************************)
(* An instance of ProjectSync.                                             *)
(***************************************************************************)
EXTENDS ProjectSync
=============================================================================
