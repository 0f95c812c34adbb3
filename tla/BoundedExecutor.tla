--------------------------- MODULE BoundedExecutor ---------------------------
(***************************************************************************)
(* What an executor promises whoever submits tasks to it, with no queue,   *)
(* no worker threads and no channels: a task is accepted, refused or run   *)
(* by its submitter; an accepted task waits, may run, and is resolved once *)
(* for good; never more than Limit tasks run on the pool's own threads.    *)
(***************************************************************************)
EXTENDS Integers, FiniteSets

CONSTANTS Task, Limit

VARIABLE phase

RunningSet == {t \in Task : phase[t] = "running"}

Init == phase = [t \in Task |-> "new"]

\* A new task is taken on; a waiting one may be dropped to make room for it.
Accept(t) ==
    /\ phase[t] = "new"
    /\ \/ phase' = [phase EXCEPT ![t] = "waiting"]
       \/ \E old \in Task :
            /\ phase[old] = "waiting"
            /\ phase' = [phase EXCEPT ![old] = "resolved", ![t] = "waiting"]

\* A new task is refused, with an exception or with a future already resolved.
Refuse(t) ==
    /\ phase[t] = "new"
    /\ \E p \in {"rejected", "resolved"} : phase' = [phase EXCEPT ![t] = p]

CallerRuns(t) ==
    /\ phase[t] = "new"
    /\ phase' = [phase EXCEPT ![t] = "caller"]

Start(t) ==
    /\ phase[t] = "waiting"
    /\ Cardinality(RunningSet) < Limit
    /\ phase' = [phase EXCEPT ![t] = "running"]

Resolve(t) ==
    /\ phase[t] \in {"waiting", "running", "caller"}
    /\ phase' = [phase EXCEPT ![t] = "resolved"]

\* shutdownNow drops waiting tasks together.
DropWaiting ==
    \E S \in SUBSET {t \in Task : phase[t] = "waiting"} :
        phase' = [t \in Task |-> IF t \in S THEN "resolved" ELSE phase[t]]

Next ==
    \/ \E t \in Task : Accept(t) \/ Refuse(t) \/ CallerRuns(t) \/ Start(t) \/ Resolve(t)
    \/ DropWaiting

Spec == Init /\ [][Next]_phase
=============================================================================
