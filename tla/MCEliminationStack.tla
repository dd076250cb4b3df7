------------------------- MODULE MCEliminationStack -----------------------------
(* EliminationStack with three threads: two calls each, so that two of them can lose
   the race for the top at the same time. *)
EXTENDS EliminationStack, TLC

CONSTANTS t1, t2, t3, v1, v2

MCThread == {t1, t2, t3}
MCOperationAmount == 2
MCNumbers == <<{v1}, {v2}>>
MCCapacity == 2
MCSymmetry == Permutations(MCThread)
=================================================================================
