--------------------------- MODULE MCPushLockSpin ---------------------------
(***************************************************************************)
(* Instance of PushLock for TLC, for liveness: without symmetry, and with   *)
(* the routines that take and release the lock only.                        *)
(***************************************************************************)
EXTENDS PushLock
=============================================================================
