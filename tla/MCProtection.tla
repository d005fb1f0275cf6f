---------------------------- MODULE MCProtection ----------------------------
(***************************************************************************)
(* Instance for TLC of the protocols that keep an object until its last    *)
(* user is gone: rundown protection and remove locks, which implement      *)
(* RundownSpec, and the notify routines, which rely on it.  They share     *)
(* nothing: a behaviour is one of one of them, named by the variable       *)
(* protocol, while the others rest in an initial state.  Liveness is       *)
(* checked with safety, so nothing is declared symmetric.                  *)
(***************************************************************************)
EXTENDS Rundown, NotifyRoutines, FiniteThreads

CONSTANT Tags

VARIABLES removed, ioCount, event, debug, blocks, lowMemory, pc, tag,
          protocol

lockVars == <<removed, ioCount, event, debug, blocks, lowMemory, pc, tag>>

R == INSTANCE RemoveLock

MCInit == /\ protocol \in {"rundown", "remove lock", "notify"}
          /\ Init
          /\ NotifyInit
          /\ R!Init
          /\ protocol # "remove lock" =>
                ~debug /\ tag = [t \in Threads |-> CHOOSE x \in Tags : TRUE]

MCNext == /\ UNCHANGED protocol
          /\ \/ /\ protocol = "rundown"
                /\ Next
                /\ UNCHANGED <<lockVars, tableVars>>
             \/ /\ protocol = "remove lock"
                /\ R!Next
                /\ UNCHANGED <<vars, tableVars>>
             \/ /\ protocol = "notify"
                /\ NotifyNext
                /\ UNCHANGED <<vars, lockVars>>

MCSpec == /\ MCInit
          /\ [][MCNext]_<<vars, lockVars, tableVars, protocol>>
          /\ Fairness
          /\ R!Fairness
          /\ NotifyFairness

-----------------------------------------------------------------------------
\* What a driver of io/iomgr/remlock.c relies on: see RemoveLock.
RemovalSafe == R!RemovalSafe

\* IoReleaseRemoveLockAndWaitEx gets out of its wait: see RemoveLock.
RemovalEnds == R!RemovalEnds

\* A remove lock implements rundown protection: see RemoveLock.
ImplementsProtection == R!ImplementsProtection
=============================================================================
