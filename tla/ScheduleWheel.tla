---------------------------- MODULE ScheduleWheel ----------------------------
(***************************************************************************)
(* The shared scheduler (cfml-vm/src/schedule_wheel.rs): one timer thread  *)
(* over a deadline heap, a pool of reused runner threads, and the run      *)
(* permits of the executor a schedule belongs to (async_kernel.rs,         *)
(* ScheduledPermits).                                                      *)
(*                                                                         *)
(* A step is a critical section of the wheel's mutex, or what a thread     *)
(* does between two of them.  Cancel flags are atomics: they are set with  *)
(* no lock held, so the timer's pass is split where it reads them.         *)
(* The condition variables are modelled by who waits on them: timer_cv by  *)
(* the timer's "parked" state, work_cv by the runners in "wait".           *)
(***************************************************************************)
EXTENDS Integers, Sequences, FiniteSets

CONSTANTS
    Schedule,        \* the schedules armed over the life of the process
    Runner,          \* runner threads; MAX_RUNNERS is their number
    NoTask,          \* "this runner holds no schedule"
    Delay,           \* Delay[s]: initial delay
    Period,          \* Period[s]: period, 0 for a one-shot
    FixedRate,       \* FixedRate[s]: is a periodic schedule fixed-rate?
    Pooled,          \* the schedules armed through an executor
    MaxConcurrent,   \* that executor's size
    Workloads,       \* which schedules are armed together
    Horizon(_),      \* Horizon(w): bound on the clock under workload w
    MaxTime,         \* and under any of them
    SpawnMayFail,    \* may a runner thread fail to start?
    WithShutdown     \* may the executor be shut down or dropped?

MAX_RUNNERS == Cardinality(Runner)

ASSUME WheelAssumption ==
    /\ NoTask \notin Schedule
    /\ IsFiniteSet(Runner)
    /\ Delay \in [Schedule -> Nat]
    /\ Period \in [Schedule -> Nat]
    /\ FixedRate \in [Schedule -> BOOLEAN]
    /\ Pooled \subseteq Schedule
    \* without a delay, a period or a pool the body is spawned directly
    /\ \A s \in Schedule \ Pooled : Period[s] = 0 => Delay[s] > 0
    /\ MaxConcurrent \in Nat \ {0}
    /\ MaxTime \in Nat
    /\ Workloads \subseteq SUBSET Schedule
    /\ \A w \in Workloads : Horizon(w) \in 0 .. MaxTime
    /\ SpawnMayFail \in BOOLEAN
    /\ WithShutdown \in BOOLEAN

Forever == MaxTime + 1      \* timer_cv.wait without a timeout

VARIABLES
    now,                \* Instant::now()
    heap,               \* State.heap, as the set of its (due, id) entries
    tasks,              \* State.tasks: schedules waiting for their deadline
    pending,            \* State.pending: due, no runner yet
    run_at,             \* Task.run_at
    idle_runners,       \* State.idle_runners
    live_runners,       \* State.live_runners
    timer,              \* where the timer thread is in timer_loop
    deadline,           \* the deadline a parked timer waits for
    rpc,                \* where each runner is
    rtask,              \* the schedule a runner has taken
    stage,              \* "new" if it is in the workload, then "registered" with
                        \* its pool, then "armed"
    registered,         \* PoolShared.scheduled_cancels
    scheduled_running,  \* PoolShared.scheduled_running
    cancel,             \* the cancel flags
    wakers,             \* cancels that have set the flag and not called wake()
    sent,               \* results sent on each schedule's channel
    dropped             \* channels closed with nothing sent

wheel == <<heap, tasks, pending, run_at>>
runners == <<idle_runners, live_runners, rpc, rtask>>
pool == <<registered, scheduled_running>>
channel == <<sent, dropped>>
vars == <<now, wheel, runners, timer, deadline, stage, pool, cancel, wakers, channel>>

ThreadResult == {"completed", "terminated"}

Periodic(s) == Period[s] > 0
Held(s) == \E r \in Runner : rtask[r] = s

Init ==
    /\ now = 0
    /\ heap = {} /\ tasks = {} /\ pending = <<>>
    /\ run_at = [s \in Schedule |-> 0]
    /\ idle_runners = 0 /\ live_runners = 0
    /\ timer = "unstarted" /\ deadline = Forever
    /\ rpc = [r \in Runner |-> "none"]
    /\ rtask = [r \in Runner |-> NoTask]
    /\ \E w \in Workloads : stage = [s \in Schedule |-> IF s \in w THEN "new" ELSE "unused"]
    /\ registered = {} /\ scheduled_running = 0
    /\ cancel = [s \in Schedule |-> FALSE]
    /\ wakers = {}
    /\ sent = [s \in Schedule |-> <<>>] /\ dropped = {}

Tick ==
    /\ now < Horizon({s \in Schedule : stage[s] # "unused"})
    /\ now' = now + 1
    /\ UNCHANGED <<wheel, runners, timer, deadline, stage, pool, cancel, wakers, channel>>

\* A parked timer gets up; its deadline is a local of the wait it leaves.
GetUp == timer' = "scan" /\ deadline' = Forever

\* timer_cv.notify_all: only a parked timer is waiting.
NotifyTimer ==
    IF timer = "parked" THEN GetUp ELSE UNCHANGED <<timer, deadline>>

\* The wheel's mutex is held by the timer between its two reads of the flags.
Unlocked == timer # "pick"

-----------------------------------------------------------------------------
(* Arming, cancelling, shutting down *)

\* spawn_scheduled_pooled hands the cancel flag to the executor before it arms
\* the schedule; flags already set are dropped from the list on the way.
RegisterSchedule(s) ==
    /\ stage[s] = "new"
    /\ s \in Pooled
    /\ stage' = [stage EXCEPT ![s] = "registered"]
    /\ registered' = {x \in registered : ~cancel[x]} \cup {s}
    /\ UNCHANGED <<now, wheel, runners, timer, deadline, scheduled_running, cancel, wakers, channel>>

\* schedule(): the first call starts the timer thread, every call notifies it.
Arm(s) ==
    /\ stage[s] = IF s \in Pooled THEN "registered" ELSE "new"
    /\ Unlocked
    /\ stage' = [stage EXCEPT ![s] = "armed"]
    /\ tasks' = tasks \cup {s}
    /\ run_at' = [run_at EXCEPT ![s] = now + Delay[s]]
    /\ heap' = heap \cup {<<now + Delay[s], s>>}
    /\ \/ timer = "unstarted" /\ GetUp
       \/ timer = "unstarted" /\ SpawnMayFail /\ UNCHANGED <<timer, deadline>>
       \/ timer # "unstarted" /\ NotifyTimer
    /\ UNCHANGED <<now, pending, runners, pool, cancel, wakers, channel>>

\* Future.cancel: set the flag, then call wake().  A future that has cached its
\* result refuses; one whose result is still in the channel does not.
CancelFlag(s) ==
    /\ stage[s] = "armed"
    /\ ~cancel[s]
    /\ cancel' = [cancel EXCEPT ![s] = TRUE]
    /\ wakers' = wakers \cup {s}
    /\ UNCHANGED <<now, wheel, runners, timer, deadline, stage, pool, channel>>

WakeNobody(s) ==
    /\ s \in wakers
    /\ wakers' = wakers \ {s}
    /\ UNCHANGED <<now, wheel, runners, timer, deadline, stage, pool, cancel, channel>>

Wake(s) ==
    /\ s \in wakers
    /\ Unlocked
    /\ wakers' = wakers \ {s}
    /\ NotifyTimer
    /\ UNCHANGED <<now, wheel, runners, stage, pool, cancel, channel>>

\* shutdown_all on an executor with nothing queued: shutdown(), shutdownNow()
\* and the drop of an abandoned executor.
ShutdownAll ==
    /\ WithShutdown
    /\ registered # {}
    /\ cancel' = [s \in Schedule |-> cancel[s] \/ s \in registered]
    /\ registered' = {}
    /\ UNCHANGED <<now, wheel, runners, timer, deadline, stage, scheduled_running, wakers, channel>>

-----------------------------------------------------------------------------
(* timer_loop *)

Send(s, r) == [sent EXCEPT ![s] = Append(@, r)]

TimerScanKeeps ==
    /\ timer = "scan"
    /\ timer' = "pick"
    /\ UNCHANGED <<now, wheel, runners, deadline, stage, pool, cancel, wakers, channel>>

\* Retire what was cancelled while the timer was parked.
TimerScan ==
    /\ timer = "scan"
    /\ LET dead == {s \in tasks : cancel[s]} IN
        /\ tasks' = tasks \ dead
        /\ sent' = [s \in Schedule |-> IF s \in dead THEN Append(sent[s], "terminated")
                                       ELSE sent[s]]
    /\ timer' = "pick"
    /\ UNCHANGED <<now, heap, pending, run_at, runners, deadline, stage, pool, cancel, wakers, dropped>>

Live == {h \in heap : h[2] \in tasks}
IsNext(e) == e \in Live /\ \A x \in Live : e[1] <= x[1]

\* Entries whose task has gone are dropped from the top of the heap, down to d.
CleanedTo(d) == Live \cup {h \in heap : h[1] > d}

TimerPark ==
    /\ timer = "pick"
    /\ \A e \in Live : e[1] > now
    /\ \/ Live = {} /\ heap' = {} /\ deadline' = Forever
       \/ \E e \in Live : IsNext(e) /\ heap' = CleanedTo(e[1]) /\ deadline' = e[1]
    /\ timer' = "parked"
    /\ UNCHANGED <<now, tasks, pending, run_at, runners, stage, pool, cancel, wakers, channel>>

\* A flag set since the scan is seen when the task is popped.
TimerDropCancelled(e) ==
    /\ timer = "pick"
    /\ IsNext(e) /\ e[1] <= now /\ cancel[e[2]]
    /\ heap' = CleanedTo(e[1]) \ {e}
    /\ tasks' = tasks \ {e[2]}
    /\ sent' = Send(e[2], "terminated")
    /\ timer' = "scan"
    /\ UNCHANGED <<now, pending, run_at, runners, deadline, stage, pool, cancel, wakers, dropped>>

StartRunnerUncounted ==
    IF idle_runners = 0 /\ live_runners < MAX_RUNNERS
    THEN /\ \E r \in Runner : rpc[r] = "none" /\ rpc' = [rpc EXCEPT ![r] = "loop"]
         /\ UNCHANGED live_runners
    ELSE UNCHANGED <<live_runners, rpc>>

\* A runner is started when none counts as idle.
StartRunner ==
    IF idle_runners = 0 /\ live_runners < MAX_RUNNERS
    THEN \/ /\ \E r \in Runner : rpc[r] = "none" /\ rpc' = [rpc EXCEPT ![r] = "loop"]
            /\ live_runners' = live_runners + 1
         \/ /\ SpawnMayFail
            /\ UNCHANGED <<live_runners, rpc>>
    ELSE UNCHANGED <<live_runners, rpc>>

TimerFireEarly(e) ==
    /\ timer = "pick"
    /\ IsNext(e) /\ ~cancel[e[2]]
    /\ heap' = CleanedTo(e[1]) \ {e}
    /\ tasks' = tasks \ {e[2]}
    /\ pending' = Append(pending, e[2])
    /\ StartRunner
    /\ timer' = "notify"
    /\ UNCHANGED <<now, run_at, idle_runners, rtask, deadline, stage, pool, cancel, wakers, channel>>

TimerFire(e) ==
    /\ timer = "pick"
    /\ IsNext(e) /\ e[1] <= now /\ ~cancel[e[2]]
    /\ heap' = CleanedTo(e[1]) \ {e}
    /\ tasks' = tasks \ {e[2]}
    /\ pending' = Append(pending, e[2])
    /\ StartRunner
    /\ timer' = "notify"
    /\ UNCHANGED <<now, run_at, idle_runners, rtask, deadline, stage, pool, cancel, wakers, channel>>

TimerNotifyNobody ==
    /\ timer = "notify"
    /\ timer' = "scan"
    /\ UNCHANGED <<now, wheel, runners, deadline, stage, pool, cancel, wakers, channel>>

\* work_cv.notify_one, after the lock is dropped; lost when no runner waits.
TimerNotify ==
    /\ timer = "notify"
    /\ timer' = "scan"
    /\ IF \E r \in Runner : rpc[r] = "wait"
       THEN \E r \in Runner : rpc[r] = "wait" /\ rpc' = [rpc EXCEPT ![r] = "woken"]
       ELSE UNCHANGED rpc
    /\ UNCHANGED <<now, wheel, idle_runners, live_runners, rtask, deadline, stage, pool, cancel,
                   wakers, channel>>

\* A condition variable may wake a thread that nobody notified.
TimerSpurious ==
    /\ timer = "parked"
    /\ GetUp
    /\ UNCHANGED <<now, wheel, runners, stage, pool, cancel, wakers, channel>>

\* The deadline passes.
TimerTimeout ==
    /\ timer = "parked"
    /\ deadline <= now
    /\ GetUp
    /\ UNCHANGED <<now, wheel, runners, stage, pool, cancel, wakers, channel>>

-----------------------------------------------------------------------------
(* runner_loop and run_once *)

Take(r) ==
    /\ pending # <<>>
    /\ rtask' = [rtask EXCEPT ![r] = Head(pending)]
    /\ pending' = Tail(pending)
    /\ rpc' = [rpc EXCEPT ![r] = IF Head(pending) \in Pooled THEN "permit" ELSE "body"]

RunnerTake(r) ==
    /\ rpc[r] = "loop"
    /\ Unlocked
    /\ Take(r)
    /\ UNCHANGED <<now, heap, tasks, run_at, idle_runners, live_runners, timer, deadline, stage,
                   pool, cancel, wakers, channel>>

RunnerPark(r) ==
    /\ rpc[r] = "loop"
    /\ Unlocked
    /\ pending = <<>>
    /\ idle_runners' = idle_runners + 1
    /\ rpc' = [rpc EXCEPT ![r] = "wait"]
    /\ UNCHANGED <<now, wheel, live_runners, rtask, timer, deadline, stage, pool, cancel, wakers,
                   channel>>

RunnerWakeTwice(r) ==
    /\ rpc[r] = "woken"
    /\ Unlocked
    /\ \/ Take(r)
       \/ /\ pending = <<>>
          /\ rpc' = [rpc EXCEPT ![r] = "wait"]
          /\ UNCHANGED <<pending, rtask>>
    /\ idle_runners' = idle_runners - 1
    /\ UNCHANGED <<now, heap, tasks, run_at, live_runners, timer, deadline, stage, pool, cancel,
                   wakers, channel>>

\* A woken runner gets the lock back, stops counting as idle, and looks again.
RunnerWake(r) ==
    /\ rpc[r] = "woken"
    /\ Unlocked
    /\ \/ /\ Take(r)
          /\ idle_runners' = idle_runners - 1
       \/ /\ pending = <<>>
          /\ rpc' = [rpc EXCEPT ![r] = "wait"]
          /\ UNCHANGED <<pending, idle_runners, rtask>>
    /\ UNCHANGED <<now, heap, tasks, run_at, live_runners, timer, deadline, stage, pool, cancel,
                   wakers, channel>>

RunnerSpurious(r) ==
    /\ rpc[r] = "wait"
    /\ rpc' = [rpc EXCEPT ![r] = "woken"]
    /\ UNCHANGED <<now, wheel, idle_runners, live_runners, rtask, timer, deadline, stage, pool,
                   cancel, wakers, channel>>

\* ScheduledPermits.acquire: the flag is read only while no permit is free.
AcquirePermit(r) ==
    /\ rpc[r] = "permit"
    /\ scheduled_running < MaxConcurrent
    /\ scheduled_running' = scheduled_running + 1
    /\ rpc' = [rpc EXCEPT ![r] = "body"]
    /\ UNCHANGED <<now, wheel, idle_runners, live_runners, rtask, timer, deadline, stage,
                   registered, cancel, wakers, channel>>

GiveUpPermit(r) ==
    /\ rpc[r] = "permit"
    /\ scheduled_running >= MaxConcurrent
    /\ cancel[rtask[r]]
    /\ sent' = Send(rtask[r], "terminated")
    /\ rpc' = [rpc EXCEPT ![r] = "loop"]
    /\ rtask' = [rtask EXCEPT ![r] = NoTask]
    /\ UNCHANGED <<now, wheel, idle_runners, live_runners, timer, deadline, stage, pool, cancel,
                   wakers, dropped>>

ReleaseNothing(s) == UNCHANGED scheduled_running

Release(s) ==
    scheduled_running' = IF s \in Pooled THEN scheduled_running - 1 ELSE scheduled_running

\* The body of a one-shot ends: its result is the future's.  A body thread that
\* died without one has nothing sent for it: the channel closes empty.
OneShotEnd(r) ==
    /\ rpc[r] = "body"
    /\ ~Periodic(rtask[r])
    /\ \/ \E res \in ThreadResult : sent' = Send(rtask[r], res) /\ UNCHANGED dropped
       \/ dropped' = dropped \cup {rtask[r]} /\ UNCHANGED sent
    /\ Release(rtask[r])
    /\ rpc' = [rpc EXCEPT ![r] = "loop"]
    /\ rtask' = [rtask EXCEPT ![r] = NoTask]
    /\ UNCHANGED <<now, wheel, idle_runners, live_runners, timer, deadline, stage, registered,
                   cancel, wakers>>

PeriodicEndSilent(r) ==
    /\ rpc[r] = "body"
    /\ Periodic(rtask[r])
    /\ Release(rtask[r])
    /\ rpc' = [rpc EXCEPT ![r] = "loop"]
    /\ rtask' = [rtask EXCEPT ![r] = NoTask]
    /\ UNCHANGED <<now, wheel, idle_runners, live_runners, timer, deadline, stage, registered,
                   cancel, wakers, channel>>

\* A periodic body that threw, or whose schedule was cancelled, is the last.
PeriodicEnd(r) ==
    /\ rpc[r] = "body"
    /\ Periodic(rtask[r])
    /\ sent' = Send(rtask[r], "terminated")
    /\ Release(rtask[r])
    /\ rpc' = [rpc EXCEPT ![r] = "loop"]
    /\ rtask' = [rtask EXCEPT ![r] = NoTask]
    /\ UNCHANGED <<now, wheel, idle_runners, live_runners, timer, deadline, stage, registered,
                   cancel, wakers, dropped>>

SkipToNow(at, p) == IF at + p > now THEN at + p ELSE now + p

\* Fixed-rate: the first point of the schedule's phase after now.
SkipMissed(at, p) == IF at + p > now THEN at + p ELSE at + p * ((now - at) \div p + 1)

NextRun(s) == IF FixedRate[s] THEN SkipMissed(run_at[s], Period[s]) ELSE now + Period[s]

PeriodicAgain(r) ==
    /\ rpc[r] = "body"
    /\ Periodic(rtask[r])
    /\ ~cancel[rtask[r]]
    /\ run_at' = [run_at EXCEPT ![rtask[r]] = NextRun(rtask[r])]
    /\ Release(rtask[r])
    /\ rpc' = [rpc EXCEPT ![r] = "rearm"]
    /\ UNCHANGED <<now, heap, tasks, pending, idle_runners, live_runners, rtask, timer, deadline,
                   stage, registered, cancel, wakers, channel>>

RearmUnqueued(r) ==
    /\ rpc[r] = "rearm"
    /\ Unlocked
    /\ tasks' = tasks \cup {rtask[r]}
    /\ rtask' = [rtask EXCEPT ![r] = NoTask]
    /\ rpc' = [rpc EXCEPT ![r] = "renotify"]
    /\ UNCHANGED <<now, heap, pending, run_at, idle_runners, live_runners, timer, deadline, stage,
                   pool, cancel, wakers, channel>>

Rearm(r) ==
    /\ rpc[r] = "rearm"
    /\ Unlocked
    /\ tasks' = tasks \cup {rtask[r]}
    /\ heap' = heap \cup {<<run_at[rtask[r]], rtask[r]>>}
    /\ rtask' = [rtask EXCEPT ![r] = NoTask]
    /\ rpc' = [rpc EXCEPT ![r] = "renotify"]
    /\ UNCHANGED <<now, pending, run_at, idle_runners, live_runners, timer, deadline, stage, pool,
                   cancel, wakers, channel>>

RearmNotifyNobody(r) ==
    /\ rpc[r] = "renotify"
    /\ rpc' = [rpc EXCEPT ![r] = "loop"]
    /\ UNCHANGED <<now, wheel, idle_runners, live_runners, rtask, timer, deadline, stage, pool,
                   cancel, wakers, channel>>

\* timer_cv.notify_all, after the lock is dropped.
RearmNotify(r) ==
    /\ rpc[r] = "renotify"
    /\ NotifyTimer
    /\ rpc' = [rpc EXCEPT ![r] = "loop"]
    /\ UNCHANGED <<now, wheel, idle_runners, live_runners, rtask, stage, pool, cancel,
                   wakers, channel>>

-----------------------------------------------------------------------------
TimerStep ==
    \/ TimerScan
    \/ TimerPark
    \/ \E e \in heap : TimerDropCancelled(e) \/ TimerFire(e)
    \/ TimerNotify
    \/ TimerTimeout

LockStep(r) == RunnerTake(r) \/ RunnerPark(r) \/ RunnerWake(r) \/ Rearm(r)

PermitStep(r) == AcquirePermit(r) \/ GiveUpPermit(r)

BodyEnd(r) == OneShotEnd(r) \/ PeriodicEnd(r) \/ PeriodicAgain(r)

RunnerStep(r) == LockStep(r) \/ PermitStep(r) \/ BodyEnd(r) \/ RearmNotify(r)

Next ==
    \/ Tick
    \/ \E s \in Schedule : RegisterSchedule(s) \/ Arm(s) \/ CancelFlag(s) \/ Wake(s)
    \/ ShutdownAll
    \/ TimerStep
    \/ TimerSpurious
    \/ \E r \in Runner : RunnerStep(r) \/ RunnerSpurious(r)

Spec == Init /\ [][Next]_vars

\* Threads take their steps, bodies end, and the mutex is not withheld for ever
\* from a thread that keeps asking for it.  Nothing is assumed of the clock.
Fairness ==
    /\ WF_vars(TimerStep)
    /\ \A s \in Schedule : SF_vars(Wake(s))
    /\ \A r \in Runner :
        /\ SF_vars(LockStep(r))
        /\ WF_vars(PermitStep(r))
        /\ WF_vars(BodyEnd(r))
        /\ WF_vars(RearmNotify(r))

LiveSpec == Spec /\ Fairness

-----------------------------------------------------------------------------
(* Properties *)

TimerState == {"unstarted", "scan", "pick", "notify", "parked"}
RunnerState == {"none", "loop", "wait", "woken", "permit", "body", "rearm", "renotify"}

\* Types: in particular the counters never go below zero, so the saturating_sub
\* that idle_runners and scheduled_running are decremented with never saturates.
TypeOK ==
    /\ now \in 0 .. MaxTime
    /\ heap \subseteq Nat \X Schedule
    /\ tasks \subseteq Schedule
    /\ pending \in Seq(Schedule)
    /\ run_at \in [Schedule -> Nat]
    /\ idle_runners \in Nat /\ live_runners \in Nat /\ scheduled_running \in Nat
    /\ timer \in TimerState /\ deadline \in Nat
    /\ rpc \in [Runner -> RunnerState]
    /\ rtask \in [Runner -> Schedule \cup {NoTask}]
    /\ stage \in [Schedule -> {"unused", "new", "registered", "armed"}]
    /\ registered \subseteq Pooled
    /\ cancel \in [Schedule -> BOOLEAN]
    /\ wakers \subseteq Schedule
    /\ sent \in [Schedule -> Seq(ThreadResult)]
    /\ dropped \subseteq Schedule

Pending == {pending[i] : i \in 1 .. Len(pending)}
Places(s) == <<s \in tasks, s \in Pending, Held(s), sent[s] # <<>>, s \in dropped>>

\* An armed schedule is in exactly one place: waiting in tasks, due in pending,
\* held by one runner, resolved, once, or dropped.  So a schedule never runs on
\* two runners at a time, and none is lost with its future unresolved, but for
\* the one case where run_once drops it so: a one-shot whose body thread died
\* (timer_loop, runner_loop and run_once pass a schedule on by hand).
OnePlace ==
    /\ \A s \in Schedule :
        Cardinality({i \in 1 .. 5 : Places(s)[i]}) = IF stage[s] = "armed" THEN 1 ELSE 0
    /\ \A s \in Schedule : Len(sent[s]) <= 1
    /\ \A s \in dropped : ~Periodic(s)
    /\ \A i, j \in 1 .. Len(pending) : pending[i] = pending[j] => i = j
    /\ \A q, r \in Runner : rtask[q] = rtask[r] /\ rtask[q] # NoTask => q = r

\* The heap has the current deadline of every waiting schedule, and never two
\* entries for one schedule: stale entries are left behind by cancels only.
HeapCovers ==
    /\ \A s \in tasks : <<run_at[s], s>> \in heap
    /\ \A h, k \in heap : h[2] = k[2] => h = k
    /\ \A h \in heap : h[2] \notin tasks => sent[h[2]] # <<>>

\* idle_runners counts the runners waiting on work_cv or on their way out of
\* it, live_runners the threads started, at most MAX_RUNNERS of them.
RunnersCounted ==
    /\ idle_runners = Cardinality({r \in Runner : rpc[r] \in {"wait", "woken"}})
    /\ live_runners = Cardinality({r \in Runner : rpc[r] # "none"})

\* The bodies of an executor's schedules run at most max_concurrent at a time,
\* and every permit taken is given back however the run ends.
PermitBound ==
    /\ scheduled_running = Cardinality({r \in Runner : rpc[r] = "body" /\ rtask[r] \in Pooled})
    /\ scheduled_running <= MaxConcurrent

\* A schedule is handed to the runners no earlier than its deadline.
NeverEarly ==
    \A s \in Schedule :
        s \in Pending \/ (\E r \in Runner : rtask[r] = s /\ rpc[r] \in {"permit", "body"})
            => run_at[s] <= now

\* While a schedule is pending somebody is going to look: the timer has still to
\* notify, or a runner is out of its wait (or none could be started at all).  A
\* notification is lost only to a runner that looks without it.
PendingIsSeen ==
    pending # <<>> =>
        \/ timer = "notify"
        \/ \E r \in Runner : rpc[r] \notin {"none", "wait"}
        \/ live_runners = 0

\* "A slow body - or one parked on a permit - holds up only its own schedule":
\* while a runner could still be started, or waits, no pending schedule is left
\* with nobody but busy runners to take it (timer_loop).
SlowBodyHoldsUpOnlyItself ==
    pending # <<>> /\ live_runners < MAX_RUNNERS =>
        \/ timer = "notify"
        \/ \E r \in Runner : rpc[r] \notin {"none", "permit", "body"}

\* A parked timer sleeps past no deadline: whoever armed or re-armed an earlier
\* one has notified it, or is about to.
SleepsPastNoDeadline ==
    timer = "parked" =>
        \/ \A s \in tasks : deadline <= run_at[s]
        \/ \E r \in Runner : rpc[r] = "renotify"

\* What wake() is for: a parked timer never leaves a cancelled schedule waiting
\* for its deadline, except between the flag and the wake-up, or between the
\* re-arm of a running schedule and its notification.
CancelNoticed ==
    timer = "parked" /\ wakers = {} /\ (\A r \in Runner : rpc[r] # "renotify")
        => \A s \in tasks : ~cancel[s]

\* A fixed-rate schedule stays on its phase, whatever its bodies take, and its
\* next run is never one that has been missed already.
RatePhase ==
    [][\A s \in Schedule :
        stage[s] = "armed" /\ run_at'[s] # run_at[s] =>
            /\ Periodic(s)
            /\ run_at'[s] > now
            /\ FixedRate[s] => (run_at'[s] - run_at[s]) % Period[s] = 0]_vars

\* A cancelled schedule's future is resolved, without waiting for its deadline
\* (unless it is a one-shot whose body thread has died).
CancelResolves == \A s \in Schedule : s \in wakers ~> sent[s] # <<>> \/ s \in dropped
=============================================================================
