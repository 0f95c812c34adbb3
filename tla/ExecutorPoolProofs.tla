------------------------- MODULE ExecutorPoolProofs -------------------------
(***************************************************************************)
(* Proofs about ExecutorPool, for any number of tasks and workers, any     *)
(* pool size, any queue capacity and either answer to spawn_may_fail:      *)
(* what holds of every state, what a cancelled task may never do, and that *)
(* the pool implements BoundedExecutor.                                    *)
(***************************************************************************)
EXTENDS ExecutorPoolContract, FiniteSetTheorems, FunctionTheorems, TLAPS

USE DEF config

-----------------------------------------------------------------------------
(* The queue as a sequence without repetition *)

\* Appending a task that is not queued keeps the queue free of repetition and
\* adds just that task (submit's push_back).
LEMMA AppendQueue ==
    ASSUME NEW q \in Seq(Task), NEW t \in Task, Distinct(q), ~Occurs(t, q)
    PROVE  /\ Append(q, t) \in Seq(Task)
           /\ Len(Append(q, t)) = Len(q) + 1
           /\ Distinct(Append(q, t))
           /\ \A x \in Task : Occurs(x, Append(q, t)) <=> Occurs(x, q) \/ x = t
  BY DEF Distinct, Occurs

\* Removing the head of a queue without repetition removes just that task
\* (pop_front in worker_loop and in DiscardOldest).
LEMMA TailQueue ==
    ASSUME NEW q \in Seq(Task), q # <<>>, Distinct(q)
    PROVE  /\ Tail(q) \in Seq(Task)
           /\ Head(q) \in Task
           /\ Len(Tail(q)) = Len(q) - 1
           /\ Distinct(Tail(q))
           /\ Occurs(Head(q), q)
           /\ \A x \in Task : Occurs(x, Tail(q)) <=> Occurs(x, q) /\ x # Head(q)
  <1>1. /\ Tail(q) \in Seq(Task)
        /\ Head(q) \in Task
        /\ Len(Tail(q)) = Len(q) - 1
        /\ Head(q) = q[1]
        /\ Len(q) \in Nat \ {0}
        /\ \A i \in 1..Len(Tail(q)) : Tail(q)[i] = q[i + 1]
    OBVIOUS
  <1>2. Distinct(Tail(q))
    BY <1>1 DEF Distinct
  <1>3. Occurs(Head(q), q)
    BY <1>1 DEF Occurs
  <1>4. ASSUME NEW x \in Task, Occurs(x, Tail(q)) PROVE Occurs(x, q) /\ x # Head(q)
    BY <1>1, <1>4 DEF Occurs, Distinct
  <1>5. ASSUME NEW x \in Task, Occurs(x, q), x # Head(q) PROVE Occurs(x, Tail(q))
    <2>1. PICK i \in 1..Len(q) : q[i] = x
      BY <1>5 DEF Occurs
    <2>2. i - 1 \in 1..Len(Tail(q)) /\ Tail(q)[i - 1] = x
      BY <1>1, <1>5, <2>1
    <2> QED
      BY <2>2 DEF Occurs
  <1> QED
    BY <1>1, <1>2, <1>3, <1>4, <1>5

\* A full queue is not empty: its capacity is at least one.
LEMMA FullNotEmpty ==
    ASSUME TypeOK, Full
    PROVE  queue # <<>>
  BY PoolAssumption DEF TypeOK, Full, queue_capacity, AtLeastOne

-----------------------------------------------------------------------------
(* The inductive invariant IInv *)

\* The pool's limits are positive naturals (new_value's .max(1)).
LEMMA Limits ==
    max_concurrent \in Nat \ {0} /\ queue_capacity \in Nat \ {0}
  BY PoolAssumption DEF max_concurrent, queue_capacity, AtLeastOne

\* Live is a finite set, so live_workers counts it.
LEMMA LiveFinite ==
    /\ IsFiniteSet(Live) /\ Cardinality(Live) \in Nat
    /\ IsFiniteSet(Busy) /\ Cardinality(Busy) \in Nat
  BY PoolAssumption, FS_Subset, FS_CardinalityType DEF Live, Busy

\* While a worker is in its loop the count is positive, so the decrement on
\* the way out cannot go below zero.
LEMMA LoopIsCounted ==
    ASSUME IInv, NEW w \in Worker, wpc[w] # "none"
    PROVE  live_workers > 0
  <1>1. w \in Live
    BY DEF Live
  <1>2. Cardinality(Live) # 0
    BY <1>1, LiveFinite, FS_EmptySet
  <1> QED
    BY <1>2, LiveFinite DEF IInv, WorkerBound

\* submit starts at most one worker, and only under the limit.
LEMMA StartWorkerEffect ==
    ASSUME TypeOK, StartWorker
    PROVE  \/ UNCHANGED <<live_workers, wpc>>
           \/ /\ live_workers < max_concurrent
              /\ live_workers' = live_workers + 1
              /\ \E w \in Worker : wpc[w] = "none" /\ wpc' = [wpc EXCEPT ![w] = "loop"]
  BY DEF StartWorker

\* The types of what submit's worker start changes.
LEMMA StartWorkerType ==
    ASSUME TypeOK, StartWorker
    PROVE  live_workers' \in Nat /\ wpc' \in [Worker -> Pc]
  <1>1. CASE UNCHANGED <<live_workers, wpc>>
    BY <1>1 DEF TypeOK
  <1>2. ASSUME NEW w \in Worker, live_workers' = live_workers + 1,
               wpc' = [wpc EXCEPT ![w] = "loop"]
        PROVE  live_workers' \in Nat /\ wpc' \in [Worker -> Pc]
    BY <1>2 DEF TypeOK, Pc
  <1> QED
    BY <1>1, <1>2, StartWorkerEffect

\* Sending a result keeps every channel a sequence of results.
LEMMA SendType ==
    ASSUME TypeOK, NEW t \in Task, NEW r \in ThreadResult
    PROVE  Send(t, r) \in [Task -> Seq(ThreadResult)]
  BY DEF TypeOK, Send

\* What a run may end with is a result.
LEMMA OutcomeType == RunOutcome \subseteq ThreadResult /\ "discarded" \in ThreadResult
  BY DEF RunOutcome, ThreadResult

\* Every step of the pool keeps the types.
LEMMA TypeStep ==
    ASSUME IInv, [Next]_vars
    PROVE  TypeOK'
  <1> USE DEF IInv
  <1>1. ASSUME NEW t \in Task, SubmitEnqueue(t) PROVE TypeOK'
    BY <1>1, StartWorkerType DEF TypeOK, SubmitEnqueue
  <1>2. ASSUME NEW t \in Task, SubmitDiscard(t) PROVE TypeOK'
    BY <1>2, SendType, OutcomeType DEF TypeOK, SubmitDiscard
  <1>3. ASSUME NEW t \in Task, SubmitDiscardOldest(t) PROVE TypeOK'
    <2>1. Head(queue) \in Task /\ Tail(queue) \in Seq(Task)
      BY <1>3, FullNotEmpty, TailQueue DEF SubmitDiscardOldest, OneOwner, TypeOK
    <2>2. sent' \in [Task -> Seq(ThreadResult)]
      BY <1>3, <2>1, SendType, OutcomeType DEF SubmitDiscardOldest
    <2>3. queue' \in Seq(Task)
      BY <1>3, <2>1 DEF SubmitDiscardOldest
    <2>4. live_workers' \in Nat /\ wpc' \in [Worker -> Pc]
      BY <1>3, StartWorkerType DEF SubmitDiscardOldest
    <2> QED
      BY <1>3, <2>2, <2>3, <2>4 DEF TypeOK, SubmitDiscardOldest
  <1>4. ASSUME NEW t \in Task, SubmitAbort(t) \/ SubmitCallerRuns(t) PROVE TypeOK'
    BY <1>4 DEF TypeOK, SubmitAbort, SubmitCallerRuns
  <1>5. ASSUME NEW t \in Task, CallerFinish(t) PROVE TypeOK'
    BY <1>5, SendType, OutcomeType, ZenonT(30) DEF TypeOK, CallerFinish
  <1>6. ASSUME NEW t \in Task, Cancel(t) PROVE TypeOK'
    BY <1>6 DEF TypeOK, Cancel
  <1>7. ASSUME NEW w \in Worker, WorkerPop(w) PROVE TypeOK'
    BY <1>7, TailQueue DEF TypeOK, WorkerPop, Pc, OneOwner
  <1>8. ASSUME NEW w \in Worker, WorkerExit(w) PROVE TypeOK'
    BY <1>8, LoopIsCounted DEF TypeOK, WorkerExit, Pc
  <1>9. ASSUME NEW w \in Worker, wpc[w] \in {"popped", "running"} PROVE wtask[w] \in Task
    BY <1>9 DEF TypeOK, OneOwner, BusyHolds, Busy
  <1>10. ASSUME NEW w \in Worker, WorkerSkipCancelled(w) PROVE TypeOK'
    BY <1>9, <1>10, SendType, OutcomeType DEF TypeOK, WorkerSkipCancelled, Pc
  <1>11. ASSUME NEW w \in Worker, WorkerRun(w) PROVE TypeOK'
    BY <1>11 DEF TypeOK, WorkerRun, Pc
  <1>12. ASSUME NEW w \in Worker, WorkerFinish(w) PROVE TypeOK'
    BY <1>9, <1>12, SendType, OutcomeType DEF TypeOK, WorkerFinish, Pc
  <1>13. ASSUME ShutdownNow PROVE TypeOK'
    BY <1>13, OutcomeType DEF TypeOK, ShutdownNow
  <1>14. ASSUME UNCHANGED vars PROVE TypeOK'
    BY <1>14 DEF TypeOK, vars
  <1> QED
    BY <1>1, <1>2, <1>3, <1>4, <1>5, <1>6, <1>7, <1>8, <1>10, <1>11, <1>12, <1>13, <1>14
    DEF Next, Submit, WorkerStep

-----------------------------------------------------------------------------
(* The queue stays within its capacity *)

\* submit pushes only below the capacity, or after popping the oldest task.
LEMMA QueueBoundStep ==
    ASSUME IInv, [Next]_vars
    PROVE  QueueBound'
  <1> USE DEF IInv, QueueBound
  <1>1. ASSUME NEW t \in Task, SubmitEnqueue(t) PROVE QueueBound'
    BY <1>1, Limits DEF SubmitEnqueue, Full, TypeOK
  <1>2. ASSUME NEW t \in Task, SubmitDiscardOldest(t) PROVE QueueBound'
    BY <1>2, Limits, FullNotEmpty DEF SubmitDiscardOldest, TypeOK
  <1>3. ASSUME NEW w \in Worker, WorkerPop(w) PROVE QueueBound'
    BY <1>3, Limits DEF WorkerPop, TypeOK
  <1>4. ASSUME ShutdownNow PROVE QueueBound'
    BY <1>4, Limits DEF ShutdownNow
  <1>5. ASSUME queue' = queue PROVE QueueBound'
    BY <1>5
  <1> QED
    BY <1>1, <1>2, <1>3, <1>4, <1>5
    DEF Next, Submit, WorkerStep, SubmitDiscard, SubmitAbort, SubmitCallerRuns, CallerFinish,
        Cancel, WorkerExit, WorkerSkipCancelled, WorkerRun, WorkerFinish, vars

-----------------------------------------------------------------------------
(* live_workers counts the workers and respects the limit *)

\* Only submit adds a worker and only the exit of worker_loop removes one;
\* each moves live_workers in the same critical section.
LEMMA WorkerBoundStep ==
    ASSUME IInv, [Next]_vars
    PROVE  WorkerBound'
  <1> USE DEF IInv
  <1>1. ASSUME StartWorker PROVE WorkerBound'
    <2>1. CASE UNCHANGED <<live_workers, wpc>>
      BY <2>1 DEF WorkerBound, Live
    <2>2. ASSUME live_workers < max_concurrent,
                 live_workers' = live_workers + 1,
                 NEW w \in Worker, wpc[w] = "none",
                 wpc' = [wpc EXCEPT ![w] = "loop"]
          PROVE  WorkerBound'
      <3>1. Live' = Live \cup {w} /\ w \notin Live
        BY <2>2 DEF Live, TypeOK
      <3>2. Cardinality(Live') = Cardinality(Live) + 1
        BY <3>1, LiveFinite, FS_AddElement, Zenon
      <3> QED
        BY <2>2, <3>2, LiveFinite, Limits DEF WorkerBound, TypeOK
    <2> QED
      BY <1>1, <2>1, <2>2, StartWorkerEffect
  <1>2. ASSUME NEW w \in Worker, WorkerExit(w) PROVE WorkerBound'
    <2>1. Live' = Live \ {w} /\ w \in Live
      BY <1>2 DEF Live, TypeOK, WorkerExit
    <2>2. Cardinality(Live') = Cardinality(Live) - 1
      BY <2>1, LiveFinite, FS_RemoveElement, Zenon
    <2> QED
      BY <1>2, <2>2, LiveFinite, Limits DEF WorkerBound, TypeOK, WorkerExit
  <1>3. ASSUME live_workers' = live_workers, Live' = Live PROVE WorkerBound'
    BY <1>3 DEF WorkerBound
  <1>4. ASSUME NEW w \in Worker,
               WorkerPop(w) \/ WorkerSkipCancelled(w) \/ WorkerRun(w) \/ WorkerFinish(w)
        PROVE  live_workers' = live_workers /\ Live' = Live
    BY <1>4 DEF TypeOK, Live, WorkerPop, WorkerSkipCancelled, WorkerRun, WorkerFinish
  <1>5. ASSUME UNCHANGED <<live_workers, wpc>> PROVE WorkerBound'
    BY <1>3, <1>5 DEF Live
  <1> QED
    BY <1>1, <1>2, <1>3, <1>4, <1>5
    DEF Next, Submit, WorkerStep, SubmitEnqueue, SubmitDiscard, SubmitDiscardOldest, SubmitAbort,
        SubmitCallerRuns, CallerFinish, Cancel, ShutdownNow, vars

-----------------------------------------------------------------------------
(* Every task has one owner until it is resolved *)

\* A worker start touches no task: the new worker holds none.
LEMMA StartWorkerHolds ==
    ASSUME IInv, StartWorker, wtask' = wtask
    PROVE  WorkersDistinct' /\ BusyHolds' /\ \A t \in Task : Held(t)' <=> Held(t)
  <1> USE DEF IInv, TypeOK, OneOwner, WorkersDistinct, BusyHolds, Busy, Held
  <1>1. CASE UNCHANGED <<live_workers, wpc>>
    BY <1>1
  <1>2. ASSUME NEW w \in Worker, wpc[w] = "none", wpc' = [wpc EXCEPT ![w] = "loop"]
        PROVE  BusyHolds'
    BY <1>2
  <1> QED
    BY <1>1, <1>2, StartWorkerEffect

\* Sending to a task whose channel is empty leaves it with one result and
\* leaves every other channel alone.
LEMMA SendEffect ==
    ASSUME TypeOK, NEW t \in Task, NEW r \in ThreadResult, sent' = Send(t, r), sent[t] = <<>>
    PROVE  /\ Len(sent'[t]) = 1 /\ sent'[t] # <<>>
           /\ \A x \in Task : x # t => sent'[x] = sent[x]
  <1>1. sent'[t] = Append(sent[t], r) /\ \A x \in Task : x # t => sent'[x] = sent[x]
    BY DEF TypeOK, Send
  <1> QED
    BY <1>1

\* Each submission gives its task one owner, or none and a refusal or result.
LEMMA OwnerSubmit ==
    ASSUME IInv, NEW t \in Task, Submit(t)
    PROVE  OneOwner'
  <1> USE DEF IInv
  <1>1. t \notin futures /\ t \notin rejected /\ ~InQueue(t) /\ ~Held(t) /\ t \notin callers
        /\ sent[t] = <<>>
    BY DEF Submit, SubmitEnqueue, SubmitDiscard, SubmitDiscardOldest, SubmitAbort,
           SubmitCallerRuns, Submitted, OneOwner, OwnedUntilResolved
  <1>2. CASE SubmitEnqueue(t)
    <2>1. Distinct(queue') /\ \A x \in Task : InQueue(x)' <=> InQueue(x) \/ x = t
      BY <1>1, <1>2, AppendQueue DEF SubmitEnqueue, InQueue, OneOwner, TypeOK
    <2>2. WorkersDistinct' /\ BusyHolds' /\ \A x \in Task : Held(x)' <=> Held(x)
      BY <1>2, StartWorkerHolds DEF SubmitEnqueue
    <2> QED
      BY <1>1, <1>2, <2>1, <2>2 DEF SubmitEnqueue, OneOwner, OwnersDisjoint, OwnedUntilResolved
  <1>3. CASE SubmitDiscard(t)
    <2>1. /\ Len(sent'[t]) = 1 /\ sent'[t] # <<>>
          /\ \A x \in Task : x # t => sent'[x] = sent[x]
      BY <1>1, <1>3, SendEffect, OutcomeType DEF SubmitDiscard
    <2>2. futures' = futures \cup {t} /\ UNCHANGED <<queue, wpc, wtask, callers, rejected>>
      BY <1>3 DEF SubmitDiscard
    <2>3. WorkersDistinct' /\ BusyHolds' /\ Distinct(queue')
      BY <2>2 DEF OneOwner, WorkersDistinct, BusyHolds, Busy
    <2>4. \A x \in Task : (InQueue(x)' <=> InQueue(x)) /\ (Held(x)' <=> Held(x))
      BY <2>2 DEF InQueue, Held
    <2>5. OwnersDisjoint'
      BY <2>2, <2>4 DEF OneOwner, OwnersDisjoint
    <2>6. OwnedUntilResolved'
      BY <1>1, <2>1, <2>2, <2>4 DEF OneOwner, OwnedUntilResolved
    <2> QED
      BY <2>3, <2>5, <2>6 DEF OneOwner
  <1>4. CASE SubmitDiscardOldest(t)
    <2> DEFINE old == Head(queue)
    <2>1. /\ old \in Task /\ InQueue(old) /\ Tail(queue) \in Seq(Task) /\ Distinct(Tail(queue))
          /\ \A x \in Task : Occurs(x, Tail(queue)) <=> InQueue(x) /\ x # old
      BY <1>4, FullNotEmpty, TailQueue DEF SubmitDiscardOldest, OneOwner, TypeOK, InQueue
    <2>2. Distinct(queue') /\ \A x \in Task : InQueue(x)' <=> (InQueue(x) /\ x # old) \/ x = t
      BY <1>1, <1>4, <2>1, AppendQueue, Zenon DEF SubmitDiscardOldest, InQueue
    <2>3. WorkersDistinct' /\ BusyHolds' /\ \A x \in Task : Held(x)' <=> Held(x)
      BY <1>4, StartWorkerHolds DEF SubmitDiscardOldest
    <2>4. old # t /\ sent[old] = <<>> /\ old \in futures /\ ~Held(old) /\ old \notin callers
      BY <1>1, <2>1 DEF OneOwner, OwnersDisjoint, OwnedUntilResolved
    <2>5. /\ Len(sent'[old]) = 1 /\ sent'[old] # <<>>
          /\ \A x \in Task : x # old => sent'[x] = sent[x]
      BY <1>4, <2>1, <2>4, SendEffect, OutcomeType DEF SubmitDiscardOldest
    <2>6. futures' = futures \cup {t} /\ UNCHANGED <<callers, rejected>>
      BY <1>4 DEF SubmitDiscardOldest
    <2> HIDE DEF old
    <2>7. OwnersDisjoint'
      BY <1>1, <2>2, <2>3, <2>6 DEF OneOwner, OwnersDisjoint
    <2>8. OwnedUntilResolved'
      BY <1>1, <2>1, <2>2, <2>3, <2>4, <2>5, <2>6, ZenonT(30) DEF OneOwner, OwnedUntilResolved
    <2> QED
      BY <2>2, <2>3, <2>7, <2>8 DEF OneOwner
  <1>5. CASE SubmitAbort(t)
    BY <1>1, <1>5 DEF SubmitAbort, OneOwner, OwnersDisjoint, OwnedUntilResolved,
       WorkersDistinct, BusyHolds, Busy, InQueue, Held
  <1>6. CASE SubmitCallerRuns(t)
    BY <1>1, <1>6 DEF SubmitCallerRuns, OneOwner, OwnersDisjoint, OwnedUntilResolved,
       WorkersDistinct, BusyHolds, Busy, InQueue, Held
  <1> QED
    BY <1>2, <1>3, <1>4, <1>5, <1>6 DEF Submit

\* A pop moves its task from the queue to the worker.
LEMMA OwnerPop ==
    ASSUME IInv, NEW w \in Worker, WorkerPop(w)
    PROVE  OneOwner'
  <1> USE DEF IInv
  <1> DEFINE t == Head(queue)
  <1>1. /\ t \in Task /\ InQueue(t) /\ Distinct(queue')
        /\ \A x \in Task : InQueue(x)' <=> InQueue(x) /\ x # t
    BY TailQueue DEF WorkerPop, OneOwner, TypeOK, InQueue
  <1>2. wtask[w] = NoTask /\ t # NoTask
    BY <1>1, PoolAssumption DEF WorkerPop, OneOwner, BusyHolds, Busy
  <1>3. ~Held(t) /\ t \notin callers
    BY <1>1 DEF OneOwner, OwnersDisjoint
  <1>4. /\ wtask' = [wtask EXCEPT ![w] = t]
        /\ wpc' = [wpc EXCEPT ![w] = "popped"]
        /\ UNCHANGED <<callers, futures, rejected, sent>>
    BY DEF WorkerPop
  <1> HIDE DEF t
  <1>5. WorkersDistinct'
    BY <1>1, <1>3, <1>4 DEF WorkersDistinct, OneOwner, Held, TypeOK
  <1>6. BusyHolds'
    BY <1>2, <1>4 DEF BusyHolds, Busy, OneOwner, TypeOK
  <1>7. \A x \in Task : Held(x)' <=> Held(x) \/ x = t
    BY <1>1, <1>2, <1>4, PoolAssumption DEF Held, TypeOK
  <1> QED
    BY <1>1, <1>3, <1>4, <1>5, <1>6, <1>7 DEF OneOwner, OwnersDisjoint, OwnedUntilResolved

\* A worker that ends a task, run or skipped, gives up the task in the step
\* that resolves it.
LEMMA OwnerWorkerDone ==
    ASSUME IInv, NEW w \in Worker, NEW r \in ThreadResult,
           wpc[w] \in {"popped", "running"},
           sent' = Send(wtask[w], r),
           wtask' = [wtask EXCEPT ![w] = NoTask],
           wpc' = [wpc EXCEPT ![w] = "loop"],
           UNCHANGED <<queue, callers, futures, rejected>>
    PROVE  OneOwner'
  <1> USE DEF IInv
  <1> DEFINE t == wtask[w]
  <1>1. t \in Task /\ Held(t) /\ t # NoTask
    BY PoolAssumption DEF OneOwner, BusyHolds, Busy, TypeOK, Held
  <1>2. ~InQueue(t) /\ t \notin callers /\ t \in futures /\ sent[t] = <<>> /\ t \notin rejected
    BY <1>1 DEF OneOwner, OwnersDisjoint, OwnedUntilResolved
  <1>3. /\ Len(sent'[t]) = 1 /\ sent'[t] # <<>>
        /\ \A x \in Task : x # t => sent'[x] = sent[x]
    BY <1>1, <1>2, SendEffect
  <1>4. \A x \in Task : (Held(x)' <=> Held(x) /\ x # t) /\ (InQueue(x)' <=> InQueue(x))
    BY <1>1, PoolAssumption DEF Held, InQueue, OneOwner, WorkersDistinct, TypeOK
  <1>5. WorkersDistinct' /\ BusyHolds' /\ Distinct(queue')
    BY DEF WorkersDistinct, BusyHolds, Busy, OneOwner, TypeOK
  <1> HIDE DEF t
  <1>6. OwnersDisjoint'
    BY <1>4 DEF OwnersDisjoint, OneOwner
  <1>7. OwnedUntilResolved'
    BY <1>1, <1>2, <1>3, <1>4, ZenonT(30) DEF OwnedUntilResolved, OneOwner
  <1> QED
    BY <1>5, <1>6, <1>7 DEF OneOwner

\* A submitter that ran its own task (CallerRuns) resolves it and is done.
LEMMA OwnerCallerDone ==
    ASSUME IInv, NEW t \in Task, CallerFinish(t)
    PROVE  OneOwner'
  <1> USE DEF IInv
  <1>1. ~InQueue(t) /\ ~Held(t) /\ t \in futures /\ sent[t] = <<>>
    BY DEF CallerFinish, OneOwner, OwnersDisjoint, OwnedUntilResolved
  <1>2. /\ Len(sent'[t]) = 1 /\ sent'[t] # <<>>
        /\ \A x \in Task : x # t => sent'[x] = sent[x]
    BY <1>1, SendEffect, OutcomeType DEF CallerFinish
  <1>3. callers' = callers \ {t} /\ UNCHANGED <<queue, wpc, wtask, futures, rejected>>
    BY DEF CallerFinish
  <1>4. \A x \in Task : (Held(x)' <=> Held(x)) /\ (InQueue(x)' <=> InQueue(x))
    BY <1>3 DEF Held, InQueue
  <1>5. WorkersDistinct' /\ BusyHolds' /\ Distinct(queue')
    BY <1>3 DEF WorkersDistinct, BusyHolds, Busy, OneOwner
  <1>6. OwnersDisjoint'
    BY <1>3, <1>4 DEF OwnersDisjoint, OneOwner
  <1>7. OwnedUntilResolved'
    BY <1>1, <1>2, <1>3, <1>4 DEF OwnedUntilResolved, OneOwner
  <1> QED
    BY <1>5, <1>6, <1>7 DEF OneOwner

\* shutdownNow resolves every queued task and empties the queue in one step.
LEMMA OwnerShutdownNow ==
    ASSUME IInv, ShutdownNow
    PROVE  OneOwner'
  <1> USE DEF IInv
  <1>1. queue' = <<>> /\ UNCHANGED <<wpc, wtask, callers, futures, rejected>>
    BY DEF ShutdownNow
  <1>2. \A x \in Task : ~InQueue(x)' /\ (Held(x)' <=> Held(x))
    BY <1>1 DEF InQueue, Occurs, Held
  <1>3. ASSUME NEW x \in Task, InQueue(x)
        PROVE  sent[x] = <<>> /\ Len(sent'[x]) = 1 /\ sent'[x] # <<>>
    <2>1. sent[x] = <<>>
      BY <1>3 DEF OneOwner, OwnedUntilResolved
    <2>2. sent'[x] = Append(sent[x], "discarded")
      BY <1>3 DEF ShutdownNow
    <2> QED
      BY <2>1, <2>2
  <1>4. \A x \in Task : ~InQueue(x) => sent'[x] = sent[x]
    BY DEF ShutdownNow
  <1>5. WorkersDistinct' /\ BusyHolds' /\ Distinct(queue')
    BY <1>1 DEF WorkersDistinct, BusyHolds, Busy, OneOwner, Distinct
  <1>6. OwnersDisjoint'
    BY <1>1, <1>2 DEF OwnersDisjoint, OneOwner
  <1>7. OwnedUntilResolved'
    BY <1>1, <1>2, <1>3, <1>4 DEF OwnedUntilResolved, OwnersDisjoint, OneOwner
  <1> QED
    BY <1>5, <1>6, <1>7 DEF OneOwner

\* Steps that move no task between owners.
LEMMA OwnerUnchanged ==
    ASSUME IInv, Busy' = Busy, UNCHANGED <<queue, wtask, callers, futures, rejected, sent>>
    PROVE  OneOwner'
  BY DEF IInv, OneOwner, WorkersDistinct, BusyHolds, OwnersDisjoint, OwnedUntilResolved,
         InQueue, Held

\* Every step of the pool keeps each task with one owner until it is resolved.
LEMMA OneOwnerStep ==
    ASSUME IInv, [Next]_vars
    PROVE  OneOwner'
  <1> USE DEF IInv
  <1>1. ASSUME NEW t \in Task, Cancel(t) PROVE OneOwner'
    BY <1>1, OwnerUnchanged DEF Cancel, Busy
  <1>2. ASSUME NEW w \in Worker, WorkerExit(w) PROVE OneOwner'
    BY <1>2, OwnerUnchanged DEF WorkerExit, Busy, TypeOK
  <1>3. ASSUME NEW w \in Worker, WorkerSkipCancelled(w) PROVE OneOwner'
    BY <1>3, OwnerWorkerDone, OutcomeType, Zenon DEF WorkerSkipCancelled
  <1>4. ASSUME NEW w \in Worker, WorkerRun(w) PROVE OneOwner'
    BY <1>4, OwnerUnchanged DEF WorkerRun, Busy, TypeOK
  <1>5. ASSUME NEW w \in Worker, WorkerFinish(w) PROVE OneOwner'
    <2>1. PICK r \in RunOutcome : sent' = Send(wtask[w], r)
      BY <1>5 DEF WorkerFinish
    <2> QED
      BY <1>5, <2>1, OwnerWorkerDone, OutcomeType, Zenon DEF WorkerFinish
  <1>6. ASSUME UNCHANGED vars PROVE OneOwner'
    BY <1>6, OwnerUnchanged DEF vars, Busy
  <1> QED
    BY <1>1, <1>2, <1>3, <1>4, <1>5, <1>6, OwnerSubmit, OwnerPop, OwnerCallerDone,
       OwnerShutdownNow
    DEF Next, WorkerStep

-----------------------------------------------------------------------------
(* The safety theorems *)

\* A new pool satisfies the invariant.
LEMMA IInvInit == Init => IInv
  <1> SUFFICES ASSUME Init PROVE IInv
    OBVIOUS
  <1>1. TypeOK
    BY DEF Init, TypeOK, Pc
  <1>2. WorkerBound
    <2>1. Live = {}
      BY DEF Init, Live
    <2> QED
      BY <2>1, FS_EmptySet, Limits DEF Init, WorkerBound
  <1>3. QueueBound
    BY Limits DEF Init, QueueBound
  <1>4. OneOwner
    BY PoolAssumption DEF Init, OneOwner, Distinct, WorkersDistinct, BusyHolds, Busy, OwnersDisjoint,
       OwnedUntilResolved, InQueue, Occurs, Held
  <1> QED
    BY <1>1, <1>2, <1>3, <1>4 DEF IInv

\* The conjunction of the pool's invariants is inductive.
THEOREM PoolInvariant == Spec => []IInv
  <1>1. IInv /\ [Next]_vars => IInv'
    BY TypeStep, WorkerBoundStep, QueueBoundStep, OneOwnerStep DEF IInv
  <1> QED
    BY <1>1, IInvInit, PTL DEF Spec

\* The pool's variables keep their types.
THEOREM PoolTypeCorrect == Spec => []TypeOK
  BY PoolInvariant, PTL DEF IInv

\* No more than max_concurrent worker threads are ever alive, and live_workers
\* counts them exactly.
THEOREM PoolWorkerBound == Spec => []WorkerBound
  BY PoolInvariant, PTL DEF IInv

\* The queue never holds more than its capacity.
THEOREM PoolQueueBound == Spec => []QueueBound
  BY PoolInvariant, PTL DEF IInv

\* Every submitted task has exactly one owner until its future is resolved,
\* and its future is resolved at most once.
THEOREM PoolOneOwner == Spec => []OneOwner
  BY PoolInvariant, PTL DEF IInv

-----------------------------------------------------------------------------
(* No task waits while the pool could start another worker *)

\* When submit starts a worker, the new task is matched by the new worker; when
\* it does not, the pool is at its limit.
LEMMA ConservingStart ==
    ASSUME IInv, WorkConserving, ~spawn_may_fail, StartWorker, wtask' = wtask,
           NEW n \in Nat, n <= Len(queue), Len(queue') = n + 1
    PROVE  WorkConserving'
  <1> USE DEF IInv
  <1>1. CASE live_workers >= max_concurrent /\ UNCHANGED <<live_workers, wpc>>
    BY <1>1, Limits DEF WorkConserving, WorkerBound, TypeOK
  <1>2. ASSUME live_workers < max_concurrent, live_workers' = live_workers + 1,
               NEW w \in Worker, wpc[w] = "none", wpc' = [wpc EXCEPT ![w] = "loop"]
        PROVE  WorkConserving'
    <2>1. Busy' = Busy
      BY <1>2 DEF Busy, TypeOK
    <2>2. live_workers >= Len(queue) + Cardinality(Busy)
      BY <1>2, Limits DEF WorkConserving, TypeOK
    <2> QED
      BY <1>2, <2>1, <2>2, LiveFinite DEF WorkConserving, TypeOK
  <1> QED
    BY <1>1, <1>2 DEF StartWorker

\* Every step keeps a worker for every task until the limit is reached.
LEMMA ConservingStep ==
    ASSUME IInv, WorkConserving, [Next]_vars
    PROVE  WorkConserving'
  <1> USE DEF IInv
  <1>0. spawn_may_fail' = spawn_may_fail
    BY DEF Next, Submit, SubmitEnqueue, SubmitDiscard, SubmitDiscardOldest, SubmitAbort,
           SubmitCallerRuns, CallerFinish, Cancel, WorkerStep, WorkerPop, WorkerExit,
           WorkerSkipCancelled, WorkerRun, WorkerFinish, ShutdownNow, vars
  <1> SUFFICES ASSUME ~spawn_may_fail PROVE WorkConserving'
    BY <1>0 DEF WorkConserving
  <1>1. ASSUME NEW t \in Task, SubmitEnqueue(t) PROVE WorkConserving'
    BY <1>1, ConservingStart DEF SubmitEnqueue, TypeOK
  <1>2. ASSUME NEW t \in Task, SubmitDiscardOldest(t) PROVE WorkConserving'
    <2>1. /\ Len(Tail(queue)) \in Nat /\ Len(Tail(queue)) <= Len(queue)
          /\ Len(queue') = Len(Tail(queue)) + 1
      BY <1>2, FullNotEmpty DEF SubmitDiscardOldest, TypeOK
    <2> QED
      BY <1>2, <2>1, ConservingStart DEF SubmitDiscardOldest
  <1>3. ASSUME NEW w \in Worker, WorkerPop(w) PROVE WorkConserving'
    <2>1. Busy' = Busy \cup {w} /\ w \notin Busy
      BY <1>3 DEF Busy, WorkerPop, TypeOK
    <2>2. Cardinality(Busy') = Cardinality(Busy) + 1
      BY <2>1, LiveFinite, FS_AddElement, Zenon
    <2>3. Len(queue') = Len(queue) - 1 /\ live_workers' = live_workers
      BY <1>3 DEF WorkerPop, TypeOK
    <2> QED
      BY <2>2, <2>3, LiveFinite, Limits DEF WorkConserving, TypeOK
  <1>4. ASSUME NEW w \in Worker, WorkerExit(w) PROVE WorkConserving'
    <2>1. Busy' = Busy /\ w \in Live \ Busy /\ Busy \subseteq Live
      BY <1>4 DEF Busy, Live, WorkerExit, TypeOK
    <2>2. Cardinality(Live \ {w}) = Cardinality(Live) - 1 /\ IsFiniteSet(Live \ {w})
      BY <2>1, LiveFinite, FS_RemoveElement
    <2>3. Cardinality(Busy) <= Cardinality(Live \ {w})
      BY <2>1, <2>2, FS_Subset
    <2>4. Len(queue') = 0 /\ live_workers' = live_workers - 1
      BY <1>4 DEF WorkerExit
    <2> QED
      BY <2>1, <2>2, <2>3, <2>4, LiveFinite DEF WorkConserving, WorkerBound, TypeOK
  <1>5. ASSUME NEW w \in Worker, WorkerSkipCancelled(w) \/ WorkerFinish(w) PROVE WorkConserving'
    <2>1. Busy' = Busy \ {w} /\ w \in Busy
      BY <1>5 DEF Busy, WorkerSkipCancelled, WorkerFinish, TypeOK
    <2>2. Cardinality(Busy') = Cardinality(Busy) - 1
      BY <2>1, LiveFinite, FS_RemoveElement, Zenon
    <2>3. queue' = queue /\ live_workers' = live_workers
      BY <1>5 DEF WorkerSkipCancelled, WorkerFinish
    <2> QED
      BY <2>2, <2>3, LiveFinite, Limits DEF WorkConserving, TypeOK
  <1>6. ASSUME ShutdownNow PROVE WorkConserving'
    <2>1. Busy' = Busy /\ live_workers' = live_workers /\ Len(queue') = 0 /\ Len(queue) \in Nat
      BY <1>6 DEF Busy, ShutdownNow, TypeOK
    <2> QED
      BY <2>1, LiveFinite, Limits DEF WorkConserving, TypeOK
  <1>7. ASSUME Busy' = Busy, UNCHANGED <<queue, live_workers>> PROVE WorkConserving'
    BY <1>0, <1>7 DEF WorkConserving
  <1>8. ASSUME NEW w \in Worker, WorkerRun(w) PROVE WorkConserving'
    BY <1>7, <1>8 DEF WorkerRun, Busy, TypeOK
  <1>9. ASSUME UNCHANGED <<queue, live_workers, wpc>> PROVE WorkConserving'
    BY <1>7, <1>9 DEF Busy
  <1> QED
    BY <1>1, <1>2, <1>3, <1>4, <1>5, <1>6, <1>8, <1>9, ZenonT(30)
    DEF Next, Submit, WorkerStep, SubmitDiscard, SubmitAbort, SubmitCallerRuns, CallerFinish,
        Cancel, vars

\* While threads can be created, a pool below its limit has a worker for every
\* task it has accepted and not finished.
THEOREM PoolWorkConserving == Spec => []WorkConserving
  <1>1. Init => WorkConserving
    <2> SUFFICES ASSUME Init PROVE WorkConserving
      OBVIOUS
    <2>1. Busy = {}
      BY DEF Init, Busy
    <2> QED
      BY <2>1, FS_EmptySet DEF Init, WorkConserving
  <1>2. IInv /\ WorkConserving /\ [Next]_vars => WorkConserving'
    BY ConservingStep, ZenonT(30)
  <1> QED
    BY <1>1, <1>2, PoolInvariant, PTL DEF Spec

-----------------------------------------------------------------------------
(* Tasks leave the queue in submission order *)

\* Whatever a step does to the queue, it removes a prefix and appends.
LEMMA LeavesInOrderStep ==
    ASSUME IInv, [Next]_vars
    PROVE  LeavesInOrder
  <1> USE DEF IInv, LeavesInOrder
  <1>1. ASSUME \A i \in 1..Len(queue) : Occurs(queue[i], queue') PROVE LeavesInOrder
    BY <1>1
  <1>2. ASSUME \A i \in 1..Len(queue) : ~Occurs(queue[i], queue') PROVE LeavesInOrder
    BY <1>2
  <1>3. ASSUME \A i \in 2..Len(queue) : Occurs(queue[i], queue') PROVE LeavesInOrder
    BY <1>3 DEF TypeOK
  <1>4. ASSUME UNCHANGED queue PROVE LeavesInOrder
    BY <1>1, <1>4 DEF Occurs
  <1>5. ASSUME NEW t \in Task, SubmitEnqueue(t) PROVE LeavesInOrder
    BY <1>1, <1>5 DEF SubmitEnqueue, Occurs, TypeOK
  <1>6. ASSUME NEW t \in Task, SubmitDiscardOldest(t) PROVE LeavesInOrder
    <2>1. ASSUME NEW i \in 2..Len(queue) PROVE Occurs(queue[i], queue')
      <3>1. i - 1 \in 1..Len(queue') /\ queue'[i - 1] = queue[i]
        BY <1>6, <2>1, FullNotEmpty DEF SubmitDiscardOldest, TypeOK
      <3> QED
        BY <3>1 DEF Occurs
    <2> QED
      BY <1>3, <2>1
  <1>7. ASSUME NEW w \in Worker, WorkerPop(w) PROVE LeavesInOrder
    <2>1. ASSUME NEW i \in 2..Len(queue) PROVE Occurs(queue[i], queue')
      <3>1. i - 1 \in 1..Len(queue') /\ queue'[i - 1] = queue[i]
        BY <1>7, <2>1 DEF WorkerPop, TypeOK
      <3> QED
        BY <3>1 DEF Occurs
    <2> QED
      BY <1>3, <2>1
  <1>8. ASSUME ShutdownNow PROVE LeavesInOrder
    <2>1. queue' = <<>> /\ Len(queue') = 0
      BY <1>8 DEF ShutdownNow
    <2>2. \A i \in 1..Len(queue) : ~Occurs(queue[i], queue')
      BY <2>1 DEF Occurs
    <2> QED
      BY <1>2, <2>2
  <1> QED
    BY <1>4, <1>5, <1>6, <1>7, <1>8
    DEF Next, Submit, WorkerStep, SubmitDiscard, SubmitAbort, SubmitCallerRuns, CallerFinish,
        Cancel, WorkerExit, WorkerSkipCancelled, WorkerRun, WorkerFinish, vars

\* The pool's queue is first in, first out through every way of leaving it.
THEOREM PoolFifoOrder == Spec => FifoOrder
  <1>1. IInv /\ [Next]_vars => [LeavesInOrder]_vars
    BY LeavesInOrderStep, ZenonT(30)
  <1> QED
    BY <1>1, PoolInvariant, PTL DEF Spec, FifoOrder
-----------------------------------------------------------------------------
(* Cancelled tasks *)

\* A task that is cancelled and not running: what a cancel leaves of a queued
\* task, and what no later step undoes.
Doomed(t) == cancel[t] /\ ~Running(t)

\* No step gives a doomed task a body to run: the flag is never cleared, and a
\* worker reads it after its pop (worker_loop), whoever else moves in between.
LEMMA DoomedStep ==
    ASSUME IInv, [Next]_vars, NEW t \in Task, Doomed(t)
    PROVE  Doomed(t)'
  <1> USE DEF IInv, Doomed
  <1>1. ASSUME StartWorker, wtask' = wtask PROVE ~Running(t)'
    BY <1>1, StartWorkerEffect DEF Running, TypeOK
  <1>2. ASSUME NEW u \in Task, Submit(u) PROVE Doomed(t)'
    BY <1>1, <1>2
    DEF Submit, SubmitEnqueue, SubmitDiscard, SubmitDiscardOldest, SubmitAbort,
        SubmitCallerRuns, Running
  <1>3. ASSUME NEW u \in Task, CallerFinish(u) PROVE Doomed(t)'
    BY <1>3 DEF CallerFinish, Running
  <1>4. ASSUME NEW u \in Task, Cancel(u) PROVE Doomed(t)'
    BY <1>4 DEF Cancel, Running, TypeOK
  <1>5. ASSUME NEW w \in Worker, WorkerPop(w) \/ WorkerExit(w) PROVE Doomed(t)'
    BY <1>5 DEF WorkerPop, WorkerExit, Running, TypeOK
  <1>6. ASSUME NEW w \in Worker, WorkerSkipCancelled(w) \/ WorkerFinish(w) PROVE Doomed(t)'
    BY <1>6, ZenonT(30) DEF WorkerSkipCancelled, WorkerFinish, Running, TypeOK
  <1>7. ASSUME NEW w \in Worker, WorkerRun(w) PROVE Doomed(t)'
    BY <1>7 DEF WorkerRun, Running, TypeOK
  <1>8. ASSUME ShutdownNow PROVE Doomed(t)'
    BY <1>8, ZenonT(30) DEF ShutdownNow, Running
  <1>9. ASSUME UNCHANGED vars PROVE Doomed(t)'
    BY <1>9 DEF vars, Running
  <1> QED
    BY <1>2, <1>3, <1>4, <1>5, <1>6, <1>7, <1>8, <1>9 DEF Next, WorkerStep

\* A task cancelled while it is queued never runs, whatever the order of the
\* cancel, the pop and the worker's look at the flag.
THEOREM PoolCancelledNeverRuns == Spec => CancelledInQueueNeverRuns
  <1> SUFFICES ASSUME NEW t \in Task
               PROVE  Spec => [](InQueue(t) /\ cancel[t] => []~Running(t))
    BY DEF CancelledInQueueNeverRuns
  <1>1. IInv /\ InQueue(t) /\ cancel[t] => Doomed(t)
    <2> SUFFICES ASSUME IInv, InQueue(t), cancel[t] PROVE ~Running(t)
      BY DEF Doomed
    <2>1. ~Held(t)
      BY DEF IInv, OneOwner, OwnersDisjoint
    <2> QED
      BY <2>1 DEF Running, Held
  <1>2. IInv /\ Doomed(t) /\ [Next]_vars => Doomed(t)'
    BY DoomedStep
  <1>3. Doomed(t) => ~Running(t)
    BY DEF Doomed
  <1> QED
    BY <1>1, <1>2, <1>3, PoolInvariant, PTL DEF Spec

-----------------------------------------------------------------------------
(* The pool implements its contract *)

ph == [t \in Task |-> Phase(t)]

\* Under the invariant the phase of a task is told by where the task is.
LEMMA PhaseValue ==
    ASSUME IInv, NEW x \in Task
    PROVE  /\ Phase(x) = "new" <=> ~Submitted(x)
           /\ Phase(x) = "rejected" <=> x \in rejected
           /\ Phase(x) = "resolved" <=> x \in futures /\ sent[x] # <<>>
           /\ Phase(x) = "caller" <=> x \in callers
           /\ Phase(x) = "running" <=> Running(x)
           /\ Phase(x) = "waiting" <=> InQueue(x) \/ (Held(x) /\ ~Running(x))
           /\ Phase(x) \in {"new", "rejected", "resolved", "caller", "running", "waiting"}
  <1> USE DEF IInv
  <1>1. Running(x) => Held(x)
    BY ZenonT(30) DEF Running, Held
  <1>2. /\ x \in callers => x \in futures /\ sent[x] = <<>> /\ ~Held(x) /\ ~InQueue(x)
        /\ Held(x) => x \in futures /\ sent[x] = <<>> /\ ~InQueue(x)
        /\ InQueue(x) => x \in futures /\ sent[x] = <<>>
        /\ x \in futures /\ sent[x] = <<>> => InQueue(x) \/ Held(x) \/ x \in callers
        /\ x \in rejected => x \notin futures
    BY DEF OneOwner, OwnersDisjoint, OwnedUntilResolved
  <1> QED
    BY <1>1, <1>2 DEF Phase, Submitted

\* A step that gives every task an unchanged place is a stuttering step of the
\* contract.
LEMMA PhaseSame ==
    ASSUME UNCHANGED <<rejected, futures, callers, sent>>,
           \A x \in Task : Running(x)' <=> Running(x)
    PROVE  ph' = ph
  <1>1. ASSUME NEW x \in Task PROVE Phase(x)' = Phase(x)
    BY DEF Phase
  <1> QED
    BY <1>1 DEF ph

\* A step that moves one task changes one value of the phase function.
LEMMA PhaseExcept ==
    ASSUME NEW t \in Task, NEW p,
           Phase(t)' = p,
           \A x \in Task : x # t => Phase(x)' = Phase(x)
    PROVE  ph' = [ph EXCEPT ![t] = p]
  BY Zenon DEF ph

\* submit, whatever the policy does, is an Accept, a Refuse or a CallerRuns.
LEMMA RefineSubmit ==
    ASSUME IInv, IInv', NEW t \in Task, Submit(t)
    PROVE  Contract!Accept(t) \/ Contract!Refuse(t) \/ Contract!CallerRuns(t)
  <1>1. ph[t] = "new"
    BY PhaseValue, ZenonT(30) DEF Submit, SubmitEnqueue, SubmitDiscard, SubmitDiscardOldest, SubmitAbort,
           SubmitCallerRuns, ph
  <1>2. t \notin futures /\ t \notin rejected /\ ~InQueue(t) /\ ~Held(t) /\ t \notin callers
        /\ sent[t] = <<>> /\ ~Running(t)
    BY DEF Submit, SubmitEnqueue, SubmitDiscard, SubmitDiscardOldest, SubmitAbort,
           SubmitCallerRuns, Submitted, OneOwner, OwnedUntilResolved, IInv, Running, Held
  <1>3. ASSUME StartWorker, wtask' = wtask PROVE \A x \in Task : Running(x)' <=> Running(x)
    <2>1. CASE UNCHANGED <<live_workers, wpc>>
      BY <1>3, <2>1 DEF Running
    <2>2. ASSUME NEW w \in Worker, wpc[w] = "none", wpc' = [wpc EXCEPT ![w] = "loop"]
          PROVE  \A x \in Task : Running(x)' <=> Running(x)
      BY <1>3, <2>2 DEF Running, IInv, TypeOK
    <2> QED
      BY <1>3, <2>1, <2>2, StartWorkerEffect DEF IInv
  <1>4. CASE SubmitEnqueue(t)
    <2>1. \A x \in Task : Running(x)' <=> Running(x)
      BY <1>3, <1>4 DEF SubmitEnqueue
    <2>2. ph' = [ph EXCEPT ![t] = "waiting"]
      <3>1. Phase(t)' = "waiting"
        BY <1>2, <1>4, <2>1 DEF SubmitEnqueue, Phase
      <3>2. \A x \in Task : x # t => Phase(x)' = Phase(x)
        BY <1>4, <2>1 DEF SubmitEnqueue, Phase
      <3> QED
        BY <3>1, <3>2, PhaseExcept
    <2> QED
      BY <1>1, <2>2 DEF Contract!Accept, ph
  <1>5. CASE SubmitDiscard(t)
    <2>1. /\ sent'[t] # <<>>
          /\ \A x \in Task : x # t => sent'[x] = sent[x]
      BY <1>2, <1>5, SendEffect, OutcomeType DEF SubmitDiscard, IInv
    <2>2. \A x \in Task : Running(x)' <=> Running(x)
      BY <1>5 DEF SubmitDiscard, Running
    <2>3. Phase(t)' = "resolved"
      BY <1>2, <1>5, <2>1 DEF SubmitDiscard, Phase
    <2>4. \A x \in Task : x # t => Phase(x)' = Phase(x)
      BY <1>5, <2>1, <2>2 DEF SubmitDiscard, Phase
    <2>5. ph' = [ph EXCEPT ![t] = "resolved"]
      BY <2>3, <2>4, PhaseExcept
    <2> QED
      BY <1>1, <2>5 DEF Contract!Refuse, ph
  <1>6. CASE SubmitDiscardOldest(t)
    <2>1. PICK old \in Task : old = Head(queue) /\ InQueue(old)
      BY <1>6, FullNotEmpty, TailQueue, ZenonT(30) DEF SubmitDiscardOldest, OneOwner, TypeOK, InQueue, IInv
    <2>2. old # t /\ sent[old] = <<>> /\ old \in futures /\ old \notin rejected
      BY <1>2, <2>1, ZenonT(30) DEF OneOwner, OwnersDisjoint, OwnedUntilResolved, IInv
    <2>3. /\ sent'[old] # <<>>
          /\ \A x \in Task : x # old => sent'[x] = sent[x]
      BY <1>6, <2>1, <2>2, SendEffect, OutcomeType DEF SubmitDiscardOldest, IInv
    <2>4. \A x \in Task : Running(x)' <=> Running(x)
      BY <1>3, <1>6 DEF SubmitDiscardOldest
    <2>5. ph[old] = "waiting"
      BY <2>1, PhaseValue DEF ph
    <2>6. futures' = futures \cup {t} /\ UNCHANGED <<callers, rejected>>
      BY <1>6 DEF SubmitDiscardOldest
    <2>7. Phase(t)' = "waiting" /\ Phase(old)' = "resolved"
      BY <1>2, <2>1, <2>2, <2>3, <2>4, <2>6, ZenonT(30) DEF Phase
    <2>8. \A x \in Task : x # t /\ x # old => Phase(x)' = Phase(x)
      BY <2>3, <2>4, <2>6 DEF Phase
    <2>9. ph' = [ph EXCEPT ![old] = "resolved", ![t] = "waiting"]
      <3>1. ASSUME NEW x \in Task
            PROVE  ph'[x] = [ph EXCEPT ![old] = "resolved", ![t] = "waiting"][x]
        BY <2>1, <2>2, <2>7, <2>8, Zenon DEF ph
      <3> QED
        BY <3>1, Zenon DEF ph
    <2> QED
      BY <1>1, <2>1, <2>5, <2>9 DEF Contract!Accept, ph
  <1>7. CASE SubmitAbort(t)
    <2>1. \A x \in Task : Running(x)' <=> Running(x)
      BY <1>7 DEF SubmitAbort, Running
    <2>2. Phase(t)' = "rejected" /\ \A x \in Task : x # t => Phase(x)' = Phase(x)
      BY <1>2, <1>7, <2>1 DEF SubmitAbort, Phase
    <2>3. ph' = [ph EXCEPT ![t] = "rejected"]
      BY <2>2, PhaseExcept
    <2> QED
      BY <1>1, <2>3 DEF Contract!Refuse, ph
  <1>8. CASE SubmitCallerRuns(t)
    <2>1. \A x \in Task : Running(x)' <=> Running(x)
      BY <1>8 DEF SubmitCallerRuns, Running
    <2>2. Phase(t)' = "caller" /\ \A x \in Task : x # t => Phase(x)' = Phase(x)
      BY <1>2, <1>8, <2>1 DEF SubmitCallerRuns, Phase
    <2>3. ph' = [ph EXCEPT ![t] = "caller"]
      BY <2>2, PhaseExcept
    <2> QED
      BY <1>1, <2>3 DEF Contract!CallerRuns, ph
  <1> QED
    BY <1>4, <1>5, <1>6, <1>7, <1>8, ZenonT(30) DEF Submit

\* Ending a run, or skipping a cancelled task, resolves one task.
LEMMA RefineWorkerDone ==
    ASSUME IInv, NEW w \in Worker, NEW r \in ThreadResult,
           wpc[w] \in {"popped", "running"},
           sent' = Send(wtask[w], r),
           wtask' = [wtask EXCEPT ![w] = NoTask],
           wpc' = [wpc EXCEPT ![w] = "loop"],
           UNCHANGED <<queue, callers, futures, rejected>>
    PROVE  \E t \in Task : Contract!Resolve(t)
  <1> USE DEF IInv
  <1>1. PICK t \in Task : t = wtask[w] /\ Held(t)
    BY PoolAssumption DEF OneOwner, BusyHolds, Busy, TypeOK, Held
  <1>2. t \in futures /\ sent[t] = <<>> /\ t \notin rejected
    BY <1>1 DEF OneOwner, OwnedUntilResolved
  <1>3. sent'[t] # <<>> /\ \A x \in Task : x # t => sent'[x] = sent[x]
    BY <1>1, <1>2, SendEffect
  <1>4. \A x \in Task : x # t => (Running(x)' <=> Running(x))
    BY <1>1, PoolAssumption, ZenonT(30) DEF Running, TypeOK
  <1>5. ph[t] \in {"waiting", "running"}
    BY <1>1, PhaseValue, ZenonT(30) DEF ph
  <1>6. Phase(t)' = "resolved" /\ \A x \in Task : x # t => Phase(x)' = Phase(x)
    BY <1>2, <1>3, <1>4 DEF Phase
  <1>7. ph' = [ph EXCEPT ![t] = "resolved"]
    BY <1>6, PhaseExcept
  <1> QED
    BY <1>5, <1>7, Zenon DEF Contract!Resolve, ph

\* A submitter that has run its own task resolves it.
LEMMA RefineCallerDone ==
    ASSUME IInv, NEW t \in Task, CallerFinish(t)
    PROVE  Contract!Resolve(t)
  <1> USE DEF IInv
  <1>1. t \in futures /\ sent[t] = <<>> /\ t \notin rejected
    BY ZenonT(30) DEF CallerFinish, OneOwner, OwnedUntilResolved
  <1>2. sent'[t] # <<>> /\ \A x \in Task : x # t => sent'[x] = sent[x]
    BY <1>1, SendEffect, OutcomeType DEF CallerFinish
  <1>3. \A x \in Task : Running(x)' <=> Running(x)
    BY DEF CallerFinish, Running
  <1>4. ph[t] = "caller"
    BY PhaseValue, ZenonT(30) DEF ph, CallerFinish
  <1>5. Phase(t)' = "resolved" /\ \A x \in Task : x # t => Phase(x)' = Phase(x)
    BY <1>1, <1>2, <1>3 DEF Phase, CallerFinish
  <1>6. ph' = [ph EXCEPT ![t] = "resolved"]
    BY <1>5, PhaseExcept
  <1> QED
    BY <1>4, <1>6, ZenonT(30) DEF Contract!Resolve, ph

\* A worker that has popped a task and not started it is not running one, so
\* fewer tasks run than there are workers.
LEMMA RunningBelowLimit ==
    ASSUME IInv, NEW w \in Worker, wpc[w] = "popped"
    PROVE  Cardinality({t \in Task : ph[t] = "running"}) < max_concurrent
  <1> USE DEF IInv
  <1> DEFINE R == {t \in Task : ph[t] = "running"}
             V == Live \ {w}
             f == [t \in R |-> CHOOSE v \in Worker : wpc[v] = "running" /\ wtask[v] = t]
  <1>1. ASSUME NEW t \in R
        PROVE  f[t] \in V /\ wtask[f[t]] = t
    <2>1. Running(t)
      BY <1>1, PhaseValue DEF ph
    <2>2. \E v \in Worker : wpc[v] = "running" /\ wtask[v] = t
      BY <2>1 DEF Running
    <2>3. f[t] \in Worker /\ wpc[f[t]] = "running" /\ wtask[f[t]] = t
      BY <2>2
    <2> QED
      BY <2>3 DEF Live
  <1>2. f \in Injection(R, V)
    <2>1. f \in [R -> V]
      BY <1>1, Zenon
    <2>2. \A s, t \in R : f[s] = f[t] => s = t
      BY <1>1
    <2> QED
      BY <2>1, <2>2, Fun_IsInj, ZenonT(30)
  <1>3. IsFiniteSet(V) /\ Cardinality(V) = Cardinality(Live) - 1
    BY LiveFinite, FS_RemoveElement, Zenon DEF Live
  <1> HIDE DEF R, V, f
  <1>4. IsFiniteSet(R) /\ Cardinality(R) <= Cardinality(V)
    BY <1>2, <1>3, FS_Injection
  <1>5. Cardinality(R) \in Nat
    BY <1>4, FS_CardinalityType
  <1>6. Cardinality(R) < max_concurrent
    BY <1>3, <1>4, <1>5, LiveFinite, Limits DEF WorkerBound
  <1> QED
    BY <1>6 DEF R

\* A worker that starts a body does so under the contract's limit.
LEMMA RefineRun ==
    ASSUME IInv, NEW w \in Worker, WorkerRun(w)
    PROVE  \E t \in Task : Contract!Start(t)
  <1> USE DEF IInv
  <1>1. PICK t \in Task : t = wtask[w] /\ Held(t)
    BY PoolAssumption DEF OneOwner, BusyHolds, Busy, TypeOK, Held, WorkerRun
  <1>2. t \in futures /\ sent[t] = <<>> /\ t \notin rejected /\ t \notin callers
    BY <1>1 DEF OneOwner, OwnersDisjoint, OwnedUntilResolved
  <1>3. ~Running(t)
    BY <1>1, PoolAssumption DEF Running, OneOwner, WorkersDistinct, WorkerRun
  <1>4. Running(t)' /\ \A x \in Task : x # t => (Running(x)' <=> Running(x))
    <2>1. wpc' = [wpc EXCEPT ![w] = "running"] /\ wtask' = wtask
      BY DEF WorkerRun
    <2>2. Running(t)'
      BY <1>1, <2>1 DEF Running, TypeOK
    <2>3. ASSUME NEW x \in Task, x # t PROVE Running(x)' <=> Running(x)
      BY <1>1, <2>1, <2>3, ZenonT(30) DEF Running, TypeOK
    <2> QED
      BY <2>2, <2>3
  <1>5. ph[t] = "waiting"
    BY <1>1, <1>3, PhaseValue, ZenonT(30) DEF ph
  <1>6. Phase(t)' = "running" /\ \A x \in Task : x # t => Phase(x)' = Phase(x)
    BY <1>2, <1>4 DEF Phase, WorkerRun
  <1>7. ph' = [ph EXCEPT ![t] = "running"]
    BY <1>6, PhaseExcept
  <1>8. Cardinality({x \in Task : ph[x] = "running"}) < max_concurrent
    BY RunningBelowLimit DEF WorkerRun
  <1>9. Contract!Cardinality({x \in Task : ph[x] = "running"}) < max_concurrent
    BY <1>8, Zenon DEF Contract!Cardinality, Cardinality
  <1> QED
    BY <1>5, <1>7, <1>9, Zenon DEF Contract!Start, Contract!RunningSet, ph

\* shutdownNow drops exactly the queued tasks, all of them waiting.
LEMMA RefineShutdownNow ==
    ASSUME IInv, ShutdownNow
    PROVE  Contract!DropWaiting
  <1> USE DEF IInv
  <1> DEFINE S == {t \in Task : InQueue(t)}
  <1>1. ASSUME NEW t \in S
        PROVE  ph[t] = "waiting" /\ t \in futures /\ t \notin rejected /\ sent'[t] # <<>>
    <2>1. ph[t] = "waiting"
      BY <1>1, PhaseValue DEF ph
    <2>2. t \in futures /\ t \notin rejected /\ sent[t] = <<>>
      BY <1>1 DEF OneOwner, OwnedUntilResolved
    <2>3. sent'[t] = Append(sent[t], "discarded")
      BY <1>1 DEF ShutdownNow
    <2> QED
      BY <2>1, <2>2, <2>3
  <1>2. \A x \in Task : x \notin S => sent'[x] = sent[x]
    BY DEF ShutdownNow
  <1>3. \A x \in Task : Running(x)' <=> Running(x)
    BY DEF ShutdownNow, Running
  <1>4. ASSUME NEW x \in Task
        PROVE  Phase(x)' = IF x \in S THEN "resolved" ELSE ph[x]
    <2>1. CASE x \in S
      BY <1>1, <2>1, ZenonT(30) DEF Phase, ShutdownNow
    <2>2. CASE x \notin S
      BY <1>2, <1>3, <2>2 DEF Phase, ShutdownNow, ph
    <2> QED
      BY <2>1, <2>2
  <1>5. S \in SUBSET {t \in Task : ph[t] = "waiting"}
    BY <1>1
  <1>6. ph' = [x \in Task |-> IF x \in S THEN "resolved" ELSE ph[x]]
    BY <1>4 DEF ph
  <1> HIDE DEF S
  <1> QED
    BY <1>5, <1>6 DEF Contract!DropWaiting, ph

\* Every step of the pool is a step of BoundedExecutor or leaves it unmoved.
LEMMA RefineStep ==
    ASSUME IInv, IInv', [Next]_vars
    PROVE  [Contract!Next]_ph
  <1> USE DEF IInv
  <1>1. ASSUME NEW t \in Task, Submit(t) PROVE Contract!Next
    BY <1>1, RefineSubmit DEF Contract!Next
  <1>2. ASSUME NEW t \in Task, CallerFinish(t) PROVE Contract!Next
    BY <1>2, RefineCallerDone DEF Contract!Next
  <1>3. ASSUME NEW t \in Task, Cancel(t) PROVE ph' = ph
    BY <1>3, PhaseSame DEF Cancel, Running
  <1>4. ASSUME NEW w \in Worker, WorkerPop(w) PROVE ph' = ph
    <2>1. wtask[w] = NoTask /\ Head(queue) \in Task
      BY <1>4, TailQueue, ZenonT(30) DEF WorkerPop, OneOwner, BusyHolds, Busy, TypeOK
    <2>2. \A x \in Task : Running(x)' <=> Running(x)
      BY <1>4, <2>1 DEF WorkerPop, Running, TypeOK
    <2> QED
      BY <1>4, <2>2, PhaseSame, ZenonT(30) DEF WorkerPop
  <1>5. ASSUME NEW w \in Worker, WorkerExit(w) PROVE ph' = ph
    <2>1. \A x \in Task : Running(x)' <=> Running(x)
      BY <1>5 DEF WorkerExit, Running, TypeOK
    <2> QED
      BY <1>5, <2>1, PhaseSame, ZenonT(30) DEF WorkerExit
  <1>6. ASSUME NEW w \in Worker, WorkerSkipCancelled(w) PROVE Contract!Next
    BY <1>6, RefineWorkerDone, OutcomeType, Zenon DEF WorkerSkipCancelled, Contract!Next
  <1>7. ASSUME NEW w \in Worker, WorkerRun(w) PROVE Contract!Next
    BY <1>7, RefineRun DEF Contract!Next
  <1>8. ASSUME NEW w \in Worker, WorkerFinish(w) PROVE Contract!Next
    <2>1. PICK r \in RunOutcome : sent' = Send(wtask[w], r)
      BY <1>8 DEF WorkerFinish
    <2> QED
      BY <1>8, <2>1, RefineWorkerDone, OutcomeType, Zenon DEF WorkerFinish, Contract!Next
  <1>9. ASSUME ShutdownNow PROVE Contract!Next
    BY <1>9, RefineShutdownNow DEF Contract!Next
  <1>10. ASSUME UNCHANGED vars PROVE ph' = ph
    BY <1>10, PhaseSame DEF vars, Running
  <1> QED
    BY <1>1, <1>2, <1>3, <1>4, <1>5, <1>6, <1>7, <1>8, <1>9, <1>10, ZenonT(30) DEF Next, WorkerStep

\* The pool implements BoundedExecutor: a task is taken on or refused once, an
\* outcome is final, and a pooled body starts only while fewer than
\* max_concurrent run.
THEOREM PoolKeepsContract == Spec => KeepsContract
  <1>1. Init => Contract!Init
    BY DEF Init, Contract!Init, Phase
  <1>2. IInv /\ IInv' /\ [Next]_vars => [Contract!Next]_ph
    BY RefineStep
  <1>3. Spec => [][Contract!Next]_ph
    BY <1>2, PoolInvariant, PTL DEF Spec
  <1> QED
    BY <1>1, <1>3, PTL DEF Spec, KeepsContract, Contract!Spec, ph
=============================================================================
