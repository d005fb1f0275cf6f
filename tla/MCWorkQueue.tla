----------------------------- MODULE MCWorkQueue -----------------------------
(* One worker made at start-up, one dynamic thread at a time, an item that  *)
(* waits for another one.                                                   *)
EXTENDS WorkQueue, TLC

CONSTANTS s1, d1, d2, c1, i1, i2

MCSpawns == i1 :> i2 @@ i2 :> NULL
=============================================================================
