------------------------ MODULE ExecutorPoolContract ------------------------
(***************************************************************************)
(* The executor pool as its callers see it: each task is in a phase, and   *)
(* phases change as BoundedExecutor says.                                  *)
(***************************************************************************)
EXTENDS ExecutorPool

Phase(t) ==
    IF t \in rejected THEN "rejected"
    ELSE IF t \notin futures THEN "new"
    ELSE IF sent[t] # <<>> THEN "resolved"
    ELSE IF t \in callers THEN "caller"
    ELSE IF Running(t) THEN "running"
    ELSE "waiting"

Contract == INSTANCE BoundedExecutor
    WITH Limit <- max_concurrent, phase <- [t \in Task |-> Phase(t)]

\* Through queue, workers, cancels, policies and shutdownNow, the pool does
\* only what BoundedExecutor allows: an outcome is final, and a task starts
\* only while fewer than max_concurrent run.
KeepsContract == Contract!Spec
=============================================================================
