---------------------------- MODULE ExecutorPool ----------------------------
(***************************************************************************)
(* The bounded executor pool behind the java.util.concurrent shims         *)
(* (cfml-vm/src/async_kernel.rs, ExecutorPoolNative): a FIFO queue of      *)
(* bounded capacity, at most max_concurrent worker threads that each run   *)
(* one task at a time and leave when the queue is empty, and a rejection   *)
(* policy for a submission that finds the queue full.                      *)
(*                                                                         *)
(* A step is one critical section of the pool mutex, or one thing a worker *)
(* does between two of them.  A task is named by its ThreadSeed; its mpsc  *)
(* channel is sent[t], the sequence of results sent so far.                *)
(***************************************************************************)
EXTENDS Integers, Sequences, FiniteSets

CONSTANTS
    Task,             \* the tasks submitted over the life of the pool
    Worker,           \* worker threads that can be alive
    NoTask,           \* "this worker holds no task"
    CorePoolSize,     \* the requested pool size, before new_value's .max(1)
    WorkQueueSize     \* the requested queue capacity, before its .max(1)

AtLeastOne(n) == IF n < 1 THEN 1 ELSE n

max_concurrent == AtLeastOne(CorePoolSize)
queue_capacity == AtLeastOne(WorkQueueSize)

ASSUME PoolAssumption ==
    /\ NoTask \notin Task
    /\ CorePoolSize \in Nat
    /\ WorkQueueSize \in Nat
    /\ IsFiniteSet(Worker)
    /\ Cardinality(Worker) >= max_concurrent

RejectPolicy == {"Discard", "DiscardOldest", "Abort", "CallerRuns"}

\* "value": whatever the body produced, normal or an error of its own.
\* "terminated": no result, or no spawner.  "discarded": never run.
ThreadResult == {"value", "terminated", "discarded"}

VARIABLES
    policy,        \* PoolShared.policy, fixed when the pool is made
    spawn_fn,      \* is PoolShared.spawn_fn Some?
    spawn_may_fail,\* may std::thread::Builder::spawn return an error?
    queue,         \* PoolShared.queue
    live_workers,  \* PoolShared.live_workers
    wpc,           \* where each worker thread is in worker_loop
    wtask,         \* the task a worker has popped
    callers,       \* tasks a submitting thread runs itself (CallerRuns)
    futures,       \* tasks whose submit has a ThreadHandle to return
    rejected,      \* tasks whose submit threw RejectedExecutionException
    cancel,        \* each task's cancel flag
    sent           \* each task's result channel

vars == <<policy, spawn_fn, spawn_may_fail, queue, live_workers, wpc, wtask,
          callers, futures, rejected, cancel, sent>>

config == <<policy, spawn_fn, spawn_may_fail>>

Occurs(t, q) == \E i \in 1..Len(q) : q[i] = t
Distinct(q) == \A i, j \in 1..Len(q) : q[i] = q[j] => i = j

InQueue(t) == Occurs(t, queue)
Held(t) == \E w \in Worker : wtask[w] = t
Submitted(t) == t \in futures \/ t \in rejected

Init ==
    /\ policy \in RejectPolicy
    /\ spawn_fn \in BOOLEAN
    /\ spawn_may_fail \in BOOLEAN
    /\ queue = <<>>
    /\ live_workers = 0
    /\ wpc = [w \in Worker |-> "none"]
    /\ wtask = [w \in Worker |-> NoTask]
    /\ callers = {}
    /\ futures = {}
    /\ rejected = {}
    /\ cancel = [t \in Task |-> FALSE]
    /\ sent = [t \in Task |-> <<>>]

-----------------------------------------------------------------------------
(* submit *)

Send(t, r) == [sent EXCEPT ![t] = Append(@, r)]

\* Mutant: a worker is started only when there is none.
StartWorkerOnlyFirst ==
    \/ /\ live_workers > 0
       /\ UNCHANGED <<live_workers, wpc>>
    \/ /\ live_workers = 0
       /\ \E w \in Worker : wpc' = [wpc EXCEPT ![w] = "loop"]
       /\ live_workers' = 1

\* A worker is started only under the concurrency limit; a failed spawn takes
\* the increment of live_workers back.
StartWorker ==
    \/ /\ live_workers >= max_concurrent
       /\ UNCHANGED <<live_workers, wpc>>
    \/ /\ live_workers < max_concurrent
       /\ \E w \in Worker :
            /\ wpc[w] = "none"
            /\ wpc' = [wpc EXCEPT ![w] = "loop"]
       /\ live_workers' = live_workers + 1
    \/ /\ live_workers < max_concurrent
       /\ spawn_may_fail
       /\ UNCHANGED <<live_workers, wpc>>

\* Mutant: off by one.
FullLate == Len(queue) > queue_capacity

Full == Len(queue) >= queue_capacity

SubmitEnqueue(t) ==
    /\ ~Submitted(t)
    /\ ~Full
    /\ queue' = Append(queue, t)
    /\ futures' = futures \cup {t}
    /\ StartWorker
    /\ UNCHANGED <<config, wtask, callers, rejected, cancel, sent>>

SubmitDiscard(t) ==
    /\ ~Submitted(t)
    /\ Full
    /\ policy = "Discard"
    /\ sent' = Send(t, "discarded")
    /\ futures' = futures \cup {t}
    /\ UNCHANGED <<config, queue, live_workers, wpc, wtask, callers, rejected, cancel>>

SubmitDiscardOldest(t) ==
    /\ ~Submitted(t)
    /\ Full
    /\ policy = "DiscardOldest"
    /\ sent' = Send(Head(queue), "discarded")
    /\ queue' = Append(Tail(queue), t)
    /\ futures' = futures \cup {t}
    /\ StartWorker
    /\ UNCHANGED <<config, wtask, callers, rejected, cancel>>

SubmitAbort(t) ==
    /\ ~Submitted(t)
    /\ Full
    /\ policy = "Abort"
    /\ rejected' = rejected \cup {t}
    /\ UNCHANGED <<config, queue, live_workers, wpc, wtask, callers, futures, cancel, sent>>

\* The body runs on the submitting thread, after the pool lock is released.
SubmitCallerRuns(t) ==
    /\ ~Submitted(t)
    /\ Full
    /\ policy = "CallerRuns"
    /\ callers' = callers \cup {t}
    /\ futures' = futures \cup {t}
    /\ UNCHANGED <<config, queue, live_workers, wpc, wtask, rejected, cancel, sent>>

\* What a run ends with: the body's result, or "terminated" when the body's
\* thread ended without one or the pool has no spawner.
RunOutcome == IF spawn_fn THEN {"value", "terminated"} ELSE {"terminated"}

CallerFinish(t) ==
    /\ t \in callers
    /\ \E r \in RunOutcome : sent' = Send(t, r)
    /\ callers' = callers \ {t}
    /\ UNCHANGED <<config, queue, live_workers, wpc, wtask, futures, rejected, cancel>>

-----------------------------------------------------------------------------
(* worker_loop *)

\* Mutant: the newest task is taken first.
WorkerPopBack(w) ==
    /\ wpc[w] = "loop"
    /\ queue # <<>>
    /\ wtask' = [wtask EXCEPT ![w] = queue[Len(queue)]]
    /\ queue' = SubSeq(queue, 1, Len(queue) - 1)
    /\ wpc' = [wpc EXCEPT ![w] = "popped"]
    /\ UNCHANGED <<config, live_workers, callers, futures, rejected, cancel, sent>>

WorkerPop(w) ==
    /\ wpc[w] = "loop"
    /\ queue # <<>>
    /\ wtask' = [wtask EXCEPT ![w] = Head(queue)]
    /\ queue' = Tail(queue)
    /\ wpc' = [wpc EXCEPT ![w] = "popped"]
    /\ UNCHANGED <<config, live_workers, callers, futures, rejected, cancel, sent>>

\* Mutant: the decrement is forgotten.
WorkerExitUncounted(w) ==
    /\ wpc[w] = "loop"
    /\ queue = <<>>
    /\ wpc' = [wpc EXCEPT ![w] = "none"]
    /\ UNCHANGED <<config, queue, live_workers, wtask, callers, futures, rejected, cancel, sent>>

\* Mutant: the worker leaves on what it saw of the queue earlier.
WorkerExitUnchecked(w) ==
    /\ wpc[w] = "loop"
    /\ live_workers' = live_workers - 1
    /\ wpc' = [wpc EXCEPT ![w] = "none"]
    /\ UNCHANGED <<config, queue, wtask, callers, futures, rejected, cancel, sent>>

\* Check-and-exit is atomic with the decrement.
WorkerExit(w) ==
    /\ wpc[w] = "loop"
    /\ queue = <<>>
    /\ live_workers' = live_workers - 1
    /\ wpc' = [wpc EXCEPT ![w] = "none"]
    /\ UNCHANGED <<config, queue, wtask, callers, futures, rejected, cancel, sent>>

\* Mutant: a cancelled task is skipped without resolving its future.
WorkerSkipSilently(w) ==
    /\ wpc[w] = "popped"
    /\ cancel[wtask[w]]
    /\ wtask' = [wtask EXCEPT ![w] = NoTask]
    /\ wpc' = [wpc EXCEPT ![w] = "loop"]
    /\ UNCHANGED <<config, queue, live_workers, callers, futures, rejected, cancel, sent>>

\* The cancel flag is read once, between the pop and the spawn.
WorkerSkipCancelled(w) ==
    /\ wpc[w] = "popped"
    /\ cancel[wtask[w]]
    /\ sent' = Send(wtask[w], "discarded")
    /\ wtask' = [wtask EXCEPT ![w] = NoTask]
    /\ wpc' = [wpc EXCEPT ![w] = "loop"]
    /\ UNCHANGED <<config, queue, live_workers, callers, futures, rejected, cancel>>

\* Mutant: the cancel flag is not read.
WorkerRunUnchecked(w) ==
    /\ wpc[w] = "popped"
    /\ wpc' = [wpc EXCEPT ![w] = "running"]
    /\ UNCHANGED <<config, queue, live_workers, wtask, callers, futures, rejected, cancel, sent>>

WorkerRun(w) ==
    /\ wpc[w] = "popped"
    /\ ~cancel[wtask[w]]
    /\ wpc' = [wpc EXCEPT ![w] = "running"]
    /\ UNCHANGED <<config, queue, live_workers, wtask, callers, futures, rejected, cancel, sent>>

\* Mutant: a body without a result goes back to the queue.
WorkerFinishRetry(w) ==
    /\ wpc[w] = "running"
    /\ queue' = Append(queue, wtask[w])
    /\ wtask' = [wtask EXCEPT ![w] = NoTask]
    /\ wpc' = [wpc EXCEPT ![w] = "loop"]
    /\ UNCHANGED <<config, live_workers, callers, futures, rejected, cancel, sent>>

WorkerFinish(w) ==
    /\ wpc[w] = "running"
    /\ \E r \in RunOutcome : sent' = Send(wtask[w], r)
    /\ wtask' = [wtask EXCEPT ![w] = NoTask]
    /\ wpc' = [wpc EXCEPT ![w] = "loop"]
    /\ UNCHANGED <<config, queue, live_workers, callers, futures, rejected, cancel>>

-----------------------------------------------------------------------------
(* Future.cancel and shutdownNow *)

\* A caller holds the future once submit has returned; cancel() is refused
\* only by a future that has already cached its result, which a channel with a
\* result in it need not have happened to yet.
Cancel(t) ==
    /\ t \in futures \ callers
    /\ cancel' = [cancel EXCEPT ![t] = TRUE]
    /\ UNCHANGED <<config, queue, live_workers, wpc, wtask, callers, futures, rejected, sent>>

ShutdownNow ==
    /\ queue' = <<>>
    /\ cancel' = [t \in Task |-> cancel[t] \/ InQueue(t)]
    /\ sent' = [t \in Task |-> IF InQueue(t) THEN Append(sent[t], "discarded") ELSE sent[t]]
    /\ UNCHANGED <<config, live_workers, wpc, wtask, callers, futures, rejected>>

Submit(t) ==
    \/ SubmitEnqueue(t)
    \/ SubmitDiscard(t)
    \/ SubmitDiscardOldest(t)
    \/ SubmitAbort(t)
    \/ SubmitCallerRuns(t)

WorkerStep(w) ==
    \/ WorkerPop(w)
    \/ WorkerExit(w)
    \/ WorkerSkipCancelled(w)
    \/ WorkerRun(w)
    \/ WorkerFinish(w)

Next ==
    \/ \E t \in Task : Submit(t) \/ CallerFinish(t) \/ Cancel(t)
    \/ \E w \in Worker : WorkerStep(w)
    \/ ShutdownNow

Spec == Init /\ [][Next]_vars

-----------------------------------------------------------------------------
(* Scheduling: the operating system runs every worker thread, and task bodies *)
(* end.  Nothing forces submissions, cancels or shutdownNow.                  *)

Fairness ==
    /\ \A w \in Worker : WF_vars(WorkerStep(w))
    /\ \A t \in Task : WF_vars(CallerFinish(t))

LiveSpec == Spec /\ Fairness

-----------------------------------------------------------------------------
(* Properties *)

Pc == {"none", "loop", "popped", "running"}

\* The variables keep the types of PoolShared's fields and of the worker
\* threads' local state.
TypeOK ==
    /\ policy \in RejectPolicy
    /\ spawn_fn \in BOOLEAN
    /\ spawn_may_fail \in BOOLEAN
    /\ queue \in Seq(Task)
    /\ live_workers \in Nat
    /\ wpc \in [Worker -> Pc]
    /\ wtask \in [Worker -> Task \cup {NoTask}]
    /\ callers \in SUBSET Task
    /\ futures \in SUBSET Task
    /\ rejected \in SUBSET Task
    /\ cancel \in [Task -> BOOLEAN]
    /\ sent \in [Task -> Seq(ThreadResult)]

Live == {w \in Worker : wpc[w] # "none"}
Busy == {w \in Worker : wpc[w] \in {"popped", "running"}}
Running(t) == \E w \in Worker : wpc[w] = "running" /\ wtask[w] = t

\* live_workers counts the threads inside worker_loop and never passes
\* max_concurrent, so no more than max_concurrent pooled bodies run at once
\* (the comment on PoolShared.live_workers).
WorkerBound ==
    /\ live_workers = Cardinality(Live)
    /\ live_workers <= max_concurrent

\* The queue stays within its capacity whatever mix of submissions, pops and
\* DiscardOldest replacements happens.
QueueBound == Len(queue) <= queue_capacity

WorkersDistinct ==
    \A v, w \in Worker : wtask[v] = wtask[w] /\ wtask[v] # NoTask => v = w

BusyHolds == \A w \in Worker : w \in Busy <=> wtask[w] # NoTask

OwnersDisjoint ==
    \A t \in Task :
        /\ ~(InQueue(t) /\ Held(t))
        /\ t \in callers => ~InQueue(t) /\ ~Held(t)

OwnedUntilResolved ==
    \A t \in Task :
        /\ Len(sent[t]) \in {0, 1}
        /\ (t \in futures /\ sent[t] = <<>>) <=> (InQueue(t) \/ Held(t) \/ t \in callers)
        /\ t \notin futures => sent[t] = <<>>
        /\ t \in rejected => t \notin futures

\* A submitted task is owned by exactly one of: one slot of the queue, one
\* worker between its pop and its result, one submitting thread; and that is
\* so exactly while its channel is empty.  A task submit refused is nowhere.
\* So no future is resolved twice, and none is left with nobody to resolve it.
OneOwner ==
    /\ Distinct(queue)
    /\ WorkersDistinct
    /\ BusyHolds
    /\ OwnersDisjoint
    /\ OwnedUntilResolved

\* The pool's bookkeeping is sound: types, the counted and bounded workers, the
\* bounded queue and one owner for each task, none of which holds without the
\* others (submit, worker_loop, shutdown_all).
IInv == TypeOK /\ WorkerBound /\ QueueBound /\ OneOwner

\* No lost start: while the pool is below its limit there is a worker for
\* every task queued or running, so a submit that meets a worker on its way
\* out (worker_loop's check-and-exit) never leaves its task waiting for an
\* unrelated body.  Only a thread that could not be created breaks this.
WorkConserving ==
    ~spawn_may_fail =>
        \/ live_workers = max_concurrent
        \/ live_workers >= Len(queue) + Cardinality(Busy)

\* Queued tasks leave the queue in the order they were submitted: when one is
\* gone, so is everything that was ahead of it, whichever of worker_loop,
\* DiscardOldest and shutdownNow took it.
LeavesInOrder ==
    \A i, j \in 1..Len(queue) :
        i < j /\ ~Occurs(queue[j], queue') => ~Occurs(queue[i], queue')

FifoOrder == [][LeavesInOrder]_vars

\* A task cancelled while it waits in the queue never runs, by any
\* interleaving of the cancel with the workers (worker_loop reads the flag
\* after the pop).
CancelledInQueueNeverRuns ==
    \A t \in Task : [](InQueue(t) /\ cancel[t] => []~Running(t))

\* Every future submit hands out is resolved in the end: run, discarded by the
\* policy, skipped as cancelled, or dropped by shutdownNow.  A pool whose
\* threads cannot be created promises less: a task whose submit started no
\* worker waits for the next submit.
EveryFutureResolves ==
    \A t \in Task : t \in futures /\ ~spawn_may_fail ~> sent[t] # <<>>

=============================================================================
