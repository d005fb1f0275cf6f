----------------------------- MODULE MCResource -----------------------------
(***************************************************************************)
(* Instance of Resource for TLC.  The first table has two entries and each  *)
(* expansion adds one, so that three threads expand it several times.       *)
(* Liveness is checked with safety, so threads are not declared symmetric.  *)
(***************************************************************************)
EXTENDS Resource
=============================================================================
