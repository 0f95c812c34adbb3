--------------------------- MODULE MCExecutorPool ---------------------------
(***************************************************************************)
(* An instance of ExecutorPool for TLC.  Three tasks on a pool of two with *)
(* a queue of two: the queue fills, every policy is met, workers leave and *)
(* come back.                                                              *)
(***************************************************************************)
EXTENDS ExecutorPoolContract, TLC

CONSTANTS t1, t2, t3, w1, w2

MCTask == {t1, t2, t3}
MCWorker == {w1, w2}
=============================================================================
