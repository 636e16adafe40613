---------------------------- MODULE MCIngestion -----------------------------
(***************************************************************************)
(* Instances of Ingestion for TLC.                                         *)
(***************************************************************************)
EXTENDS Ingestion

CONSTANTS j1, j2, i1, guide, scheme

MCManifest == <<scheme, guide>>
=============================================================================
