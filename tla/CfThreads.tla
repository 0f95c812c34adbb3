------------------------------ MODULE CfThreads ------------------------------
(***************************************************************************)
(* The `cfthread` tag on real OS threads: one request (the context Root)   *)
(* and the threads it and they start.  A context is a VM: it spawns, joins *)
(* and terminates threads by name, through its own live_threads first and  *)
(* through the request-wide RequestThreadRegistry otherwise.               *)
(*                                                                         *)
(* A thread's end is five steps other threads can see in between: the body *)
(* ends (and its collector log is collected or deferred), the result goes  *)
(* down the channel, CompletionGuard signals the completion handle, the    *)
(* guard updates the registry, and the OS thread is finished.  A panic     *)
(* skips the first two.                                                    *)
(*                                                                         *)
(* A name is a spelling; the registry, live_threads and the cfthread scope *)
(* are keyed by Lower[name].  Metadata is abstracted to the thread whose   *)
(* result it shows (NoThread while it says RUNNING).                       *)
(***************************************************************************)
EXTENDS Naturals, Sequences, FiniteSets, Functions

CONSTANTS
  Thread,      \* thread incarnations, one per `cfthread action="run"`
  Root,        \* the request's own context
  NoThread,
  Name,        \* spellings of thread names
  NoName,      \* cfml_thread_name of the request: None
  Lower,       \* the lowercased spelling of each name
  Limits,      \* values of RUSTCFML_TASKS_LIMIT
  Spawner,     \* the contexts whose CFML code starts threads
  Looping      \* the threads whose body is one endless loop

Context == Thread \cup {Root}
Key == {Lower[n] : n \in Name}

\* Lowercasing is idempotent; the registry can hold at least one thread.
ASSUME ThreadsAssumption ==
  /\ Root \notin Thread /\ NoThread \notin Context /\ NoName \notin Name
  /\ Lower \in [Name -> Name] /\ \A n \in Name : Lower[Lower[n]] = Lower[n]
  /\ Limits \subseteq Nat \ {0}
  /\ Spawner \subseteq Context /\ Looping \subseteq Thread

NoEntry == [thread |-> NoThread, parent |-> NoName, meta |-> NoThread]
Idle == [kind |-> "none", thread |-> NoThread, shown |-> NoThread]

VARIABLES
  entries,      \* RequestThreadRegistry.entries, NoEntry where the key is absent
  order,        \* RequestThreadRegistry.order
  limit,        \* RequestThreadRegistry.limit, also the cap of a cfthread scope
  rootFinished, \* RequestThreadRegistry.root_finished
  pc,           \* where each OS thread is
  name,         \* the thread's cfml_thread_name
  lineage,      \* the contexts a thread descends from, its spawner last (history)
  sent,         \* the result is in the channel
  completion,   \* the completion handle holds a ThreadResult
  cancel,       \* the cooperative-cancel flag is set
  got,          \* threads whose handle holds a joined result
  live,         \* live_threads of each context, by key
  scopeOrder,   \* cfthread_order of each context
  evicted,      \* evicted_thread_joins of each context
  todo,         \* names a running join has still to visit
  wait,         \* what the context is blocked on
  log,          \* the context's collector log: "open", "collected", "deferred", "lost"
  joins         \* DeferredEntry.joins: the threads a deferred log waits for

registry == <<entries, order, limit, rootFinished>>
exits == <<pc, sent, completion>>
local == <<live, scopeOrder, evicted>>
join == <<todo, wait, got>>
gc == <<log, joins>>
vars == <<registry, exits, local, join, name, lineage, cancel, gc>>

\* VecDeque::retain: the elements other than k, in order.
Without(s, k) ==
  LET kept[i \in 0 .. Len(s)] ==
        IF i = 0 THEN <<>>
        ELSE IF s[i] = k THEN kept[i - 1] ELSE Append(kept[i - 1], s[i])
  IN kept[Len(s)]

Registered == {k \in Key : entries[k] # NoEntry}
KeyOf(c) == IF c = Root THEN NoName ELSE Lower[name[c]]
SelfName(c) == IF c = Root THEN NoName ELSE name[c]

\* The context is executing CFML code: not ended and not inside a join.
Executing(c) ==
  /\ IF c = Root THEN ~rootFinished ELSE pc[c] = "running"
  /\ wait[c] = Idle /\ todo[c] = {}

\* is_finished(): the spawn closure has returned and dropped everything.
Finished(t) == pc[t] = "gone"

Init ==
  /\ entries = [k \in Key |-> NoEntry] /\ order = <<>> /\ limit \in Limits
  /\ rootFinished = FALSE
  /\ pc = [t \in Thread |-> "unborn"] /\ name = [t \in Thread |-> NoName]
  /\ lineage = [c \in Context |-> <<>>]
  /\ sent = [t \in Thread |-> FALSE] /\ completion = [t \in Thread |-> FALSE]
  /\ cancel = {} /\ got = {}
  /\ live = [c \in Context |-> [k \in Key |-> NoThread]]
  /\ scopeOrder = [c \in Context |-> <<>>] /\ evicted = [c \in Context |-> {}]
  /\ todo = [c \in Context |-> {}] /\ wait = [c \in Context |-> Idle]
  /\ log = [c \in Context |-> "open"] /\ joins = [c \in Context |-> {}]

------------------------------------------------------------------------------
(* action="run"                                                            *)

\* Mutant: the capacity check is off by one.
RegisterOverflow(t, k, parent) ==
  LET full == Cardinality(Registered) > limit /\ entries[k] = NoEntry
      kept == IF full THEN [entries EXCEPT ![Head(order)] = NoEntry] ELSE entries
  IN /\ rootFinished \/ entries[k] = NoEntry
     /\ entries' = [kept EXCEPT ![k] = [thread |-> t, parent |-> parent, meta |-> NoThread]]
     /\ order' = Append(Without(IF full THEN Tail(order) ELSE order, k), k)

\* Mutant: a name may be registered again while the request runs.
RegisterTwice(t, k, parent) ==
  /\ entries' = [entries EXCEPT ![k] = [thread |-> t, parent |-> parent, meta |-> NoThread]]
  /\ order' = Append(Without(order, k), k)

\* RequestThreadRegistry::register: a name is unique while the request runs;
\* a full registry forgets its oldest entry, and a key registered again moves
\* to the end of the queue.
Register(t, k, parent) ==
  LET full == Cardinality(Registered) >= limit /\ entries[k] = NoEntry
      kept == IF full THEN [entries EXCEPT ![Head(order)] = NoEntry] ELSE entries
  IN /\ rootFinished \/ entries[k] = NoEntry
     /\ entries' = [kept EXCEPT ![k] = [thread |-> t, parent |-> parent, meta |-> NoThread]]
     /\ order' = Append(Without(IF full THEN Tail(order) ELSE order, k), k)

\* Mutant: an evicted running thread is forgotten with its scope entry.
EvictedJoinsForgotten(c, oldest) == evicted[c]

\* The join handle of a thread evicted from the scope is kept while it runs.
EvictedJoins(c, oldest) ==
  {t \in (evicted[c] \cup {live[c][oldest]}) \ {NoThread} : ~Finished(t) /\ t \notin got}

\* store_cfthread_running, then live_threads.insert: the local scope is
\* capped like the registry, and the new handle replaces one of the same key.
StoreRunning(c, t, k) ==
  LET full == k \notin Range(scopeOrder[c]) /\ Len(scopeOrder[c]) >= limit
      oldest == Head(scopeOrder[c])
  IN /\ scopeOrder' = [scopeOrder EXCEPT
                         ![c] = Append(Without(IF full THEN Tail(@) ELSE @, k), k)]
     /\ live' = [live EXCEPT ![c] =
                   [(IF full THEN [@ EXCEPT ![oldest] = NoThread] ELSE @) EXCEPT ![k] = t]]
     /\ evicted' = IF full THEN [evicted EXCEPT ![c] = EvictedJoins(c, oldest)] ELSE evicted

\* __cfthread_run.  The registration precedes the spawn, and the new thread's
\* first visible step follows it, so the whole handler is one step.
Run(c, t, n) ==
  /\ c \in Spawner /\ Executing(c) /\ pc[t] = "unborn"
  /\ Register(t, Lower[n], SelfName(c))
  /\ StoreRunning(c, t, Lower[n])
  /\ pc' = [pc EXCEPT ![t] = "running"]
  /\ name' = [name EXCEPT ![t] = n]
  /\ lineage' = [lineage EXCEPT ![t] = Append(lineage[c], c)]
  /\ UNCHANGED <<limit, rootFinished, sent, completion, join, cancel, gc>>

------------------------------------------------------------------------------
(* The end of a thread                                                     *)

\* The threads a context's end waits for before its log may be collected.
RunningJoins(c) ==
  {t \in ({live[c][k] : k \in Key} \cup evicted[c]) \ {NoThread} : ~Finished(t)}

\* The VM is dropped; its log is collected now, or deferred to the threads
\* that are still running.
DropVM(c) ==
  /\ log' = [log EXCEPT ![c] = IF RunningJoins(c) = {} THEN "collected" ELSE "deferred"]
  /\ live' = [live EXCEPT ![c] = [k \in Key |-> NoThread]]
  /\ joins' = [joins EXCEPT ![c] = RunningJoins(c)]
  /\ evicted' = [evicted EXCEPT ![c] = {}]
  /\ scopeOrder' = [scopeOrder EXCEPT ![c] = <<>>]

\* run_thread_body returns.
BodyEnd(t) ==
  /\ t \in Thread \ Looping /\ Executing(t)
  /\ pc' = [pc EXCEPT ![t] = "ended"]
  /\ DropVM(t)
  /\ UNCHANGED <<registry, sent, completion, join, name, lineage, cancel>>

\* A looping body has done what one iteration does and jumps back.
BackEdge(t) ==
  /\ t \in Looping /\ Executing(t)
  /\ pc' = [pc EXCEPT ![t] = "backedge"]
  /\ UNCHANGED <<registry, sent, completion, local, join, name, lineage, cancel, gc>>

LoopOn(t) ==
  /\ pc' = [pc EXCEPT ![t] = "running"]
  /\ UNCHANGED <<local, gc>>

\* Mutant: the jump polls nothing.
PollNothing(t) ==
  /\ pc[t] = "backedge"
  /\ LoopOn(t)
  /\ UNCHANGED <<registry, sent, completion, join, name, lineage, cancel>>

\* poll_cancel, at every back-edge: once the flag is set the jump is an error
\* that leaves the loop, and with it the body.
PollCancel(t) ==
  /\ pc[t] = "backedge"
  /\ IF t \in cancel THEN pc' = [pc EXCEPT ![t] = "ended"] /\ DropVM(t) ELSE LoopOn(t)
  /\ UNCHANGED <<registry, sent, completion, join, name, lineage, cancel>>

\* tx.send(result).
Send(t) ==
  /\ pc[t] = "ended"
  /\ pc' = [pc EXCEPT ![t] = "sent"]
  /\ sent' = [sent EXCEPT ![t] = TRUE]
  /\ UNCHANGED <<registry, completion, local, join, name, lineage, cancel, gc>>

\* CompletionGuard::drop, first half: the completion handle is set and every
\* waiter notified.
Signal(t) ==
  /\ pc[t] = "sent"
  /\ pc' = [pc EXCEPT ![t] = "signalled"]
  /\ completion' = [completion EXCEPT ![t] = TRUE]
  /\ UNCHANGED <<registry, sent, local, join, name, lineage, cancel, gc>>

\* Mutant: a panic leaves the completion handle empty.
PanicSilent(t) ==
  /\ t \in Thread /\ Executing(t)
  /\ pc' = [pc EXCEPT ![t] = "signalled"]
  /\ log' = [log EXCEPT ![t] = "lost"]
  /\ live' = [live EXCEPT ![t] = [k \in Key |-> NoThread]]
  /\ evicted' = [evicted EXCEPT ![t] = {}]
  /\ scopeOrder' = [scopeOrder EXCEPT ![t] = <<>>]
  /\ UNCHANGED <<registry, sent, completion, join, name, lineage, cancel, joins>>

\* The body panics: the VM and its log are dropped by the unwinding, nothing
\* is sent, and the guard stores a TERMINATED result for the waiters.
Panic(t) ==
  /\ t \in Thread /\ Executing(t)
  /\ pc' = [pc EXCEPT ![t] = "signalled"]
  /\ completion' = [completion EXCEPT ![t] = TRUE]
  /\ log' = [log EXCEPT ![t] = "lost"]
  /\ live' = [live EXCEPT ![t] = [k \in Key |-> NoThread]]
  /\ evicted' = [evicted EXCEPT ![t] = {}]
  /\ scopeOrder' = [scopeOrder EXCEPT ![t] = <<>>]
  /\ UNCHANGED <<registry, sent, join, name, lineage, cancel, joins>>

\* Mutant: after the request, a finished thread removes whatever is
\* registered under its name.
ThreadFinishedByName(t) ==
  LET k == KeyOf(t) IN
  IF rootFinished
    THEN /\ entries' = [entries EXCEPT ![k] = NoEntry]
         /\ order' = Without(order, k)
    ELSE /\ entries' = IF entries[k] = NoEntry THEN entries
                       ELSE [entries EXCEPT ![k].meta = t]
         /\ UNCHANGED order

\* Mutant: after the request, the entry of a finished thread is kept.
ThreadFinishedKept(t) ==
  LET k == KeyOf(t) IN
  /\ entries' = IF entries[k] = NoEntry THEN entries ELSE [entries EXCEPT ![k].meta = t]
  /\ UNCHANGED order

\* RequestThreadRegistry::thread_finished: while the request runs the entry of
\* that name shows the result; afterwards it is removed, if it is this thread's.
ThreadFinished(t) ==
  LET k == KeyOf(t) IN
  IF rootFinished
    THEN IF entries[k].thread = t
           THEN /\ entries' = [entries EXCEPT ![k] = NoEntry]
                /\ order' = Without(order, k)
           ELSE UNCHANGED <<entries, order>>
    ELSE /\ entries' = IF entries[k] = NoEntry THEN entries
                       ELSE [entries EXCEPT ![k].meta = t]
         /\ UNCHANGED order

\* CompletionGuard::drop, second half.
Record(t) ==
  /\ pc[t] = "signalled"
  /\ pc' = [pc EXCEPT ![t] = "recorded"]
  /\ ThreadFinished(t)
  /\ UNCHANGED <<limit, rootFinished, sent, completion, local, join, name, lineage, cancel, gc>>

\* The closure is dropped, its channel sender with it.
Exit(t) ==
  /\ pc[t] = "recorded"
  /\ pc' = [pc EXCEPT ![t] = "gone"]
  /\ UNCHANGED <<registry, sent, completion, local, join, name, lineage, cancel, gc>>

------------------------------------------------------------------------------
(* action="join" and action="terminate"                                    *)

\* Mutant: only the thread itself is left out of a join without a name.
AncestorsSelfOnly(c) == {KeyOf(c)}

\* get_non_ancestor_names walks the parents while it finds their entries, each
\* entry once.  A parent is recorded as it was spelled.
Ancestors(c) ==
  LET parentOf[i \in 0 .. Len(order)] ==
        IF i = 0 THEN KeyOf(c)
        ELSE LET p == parentOf[i - 1]
             IN IF p \in Key /\ entries[p] # NoEntry THEN entries[p].parent ELSE NoName
  IN {parentOf[i] : i \in DOMAIN parentOf} \ {NoName}

\* __cfthread_join with no name: own threads not joined yet, and every
\* registered thread that is not an ancestor.
Outstanding(c) ==
  {k \in Key : live[c][k] # NoThread /\ live[c][k] \notin got}
    \cup (Registered \ Ancestors(c))

Join(c, keys) ==
  /\ Executing(c)
  /\ todo' = [todo EXCEPT ![c] = keys]
  /\ UNCHANGED <<registry, exits, local, wait, got, name, lineage, cancel, gc>>

JoinNamed(c, k) == Join(c, {k})
JoinAll(c) == Join(c, Outstanding(c))

BlockOn(c, kind, t) == [wait EXCEPT ![c] = [kind |-> kind, thread |-> t, shown |-> NoThread]]

\* join_thread: a thread does not wait for itself; a handle of its own is
\* received from once; any other thread is waited for by its completion
\* handle, cloned out of the registry; an unknown name is an error, which
\* abandons the rest of the list.
JoinNext(c) ==
  \E k \in todo[c] :
    /\ wait[c] = Idle
    /\ todo' = [todo EXCEPT ![c] =
                  IF k # KeyOf(c) /\ live[c][k] = NoThread /\ entries[k] = NoEntry
                    THEN {} ELSE @ \ {k}]
    /\ wait' = IF k = KeyOf(c) THEN wait
               ELSE IF live[c][k] # NoThread
                 THEN IF live[c][k] \in got THEN wait ELSE BlockOn(c, "channel", live[c][k])
               ELSE IF entries[k] # NoEntry THEN BlockOn(c, "condvar", entries[k].thread)
               ELSE wait
    /\ UNCHANGED <<registry, exits, local, got, name, lineage, cancel, gc>>

\* The shared timeout budget of a join that has one is spent before the next
\* name.
BudgetSpent(c) ==
  /\ todo[c] # {} /\ wait[c] = Idle
  /\ todo' = [todo EXCEPT ![c] = {}]
  /\ UNCHANGED <<registry, exits, local, wait, got, name, lineage, cancel, gc>>

\* A join with a timeout gives up waiting; the thread keeps running.
JoinTimeout(c) ==
  /\ wait[c].kind \in {"channel", "condvar"}
  /\ wait' = [wait EXCEPT ![c] = Idle]
  /\ UNCHANGED <<registry, exits, local, todo, got, name, lineage, cancel, gc>>

\* recv() returns the result; the OS thread is joined next.
Receive(c) ==
  /\ wait[c].kind = "channel" /\ sent[wait[c].thread]
  /\ wait' = [wait EXCEPT ![c] = [kind |-> "reap", thread |-> wait[c].thread, shown |-> NoThread]]
  /\ UNCHANGED <<registry, exits, local, todo, got, name, lineage, cancel, gc>>

\* Mutant: the result is published without joining the OS thread.
ReapEarly(c) ==
  /\ wait[c].kind = "reap"
  /\ wait' = [wait EXCEPT ![c] =
                [kind |-> "publish", thread |-> wait[c].thread, shown |-> wait[c].thread]]
  /\ UNCHANGED <<registry, exits, local, todo, got, name, lineage, cancel, gc>>

Reap(c) ==
  /\ wait[c].kind = "reap" /\ Finished(wait[c].thread)
  /\ wait' = [wait EXCEPT ![c] =
                [kind |-> "publish", thread |-> wait[c].thread, shown |-> wait[c].thread]]
  /\ UNCHANGED <<registry, exits, local, todo, got, name, lineage, cancel, gc>>

\* The sender is gone without a result: the panicked thread is joined, and
\* what the registry shows under its name is taken for its result.
Disconnected(c) ==
  /\ wait[c].kind = "channel" /\ Finished(wait[c].thread) /\ ~sent[wait[c].thread]
  /\ LET t == wait[c].thread
         shown == IF entries[KeyOf(t)] # NoEntry THEN entries[KeyOf(t)].meta ELSE t
     IN wait' = [wait EXCEPT ![c] = [kind |-> "publish", thread |-> t, shown |-> shown]]
  /\ UNCHANGED <<registry, exits, local, todo, got, name, lineage, cancel, gc>>

\* store_cfthread_result writes the metadata into the local scope and into
\* the registry entry of that name.
Publish(c) ==
  /\ wait[c].kind = "publish"
  /\ LET t == wait[c].thread
         k == KeyOf(t)
     IN /\ got' = got \cup {t}
        /\ entries' = IF entries[k] = NoEntry THEN entries
                      ELSE [entries EXCEPT ![k].meta = wait[c].shown]
  /\ wait' = [wait EXCEPT ![c] = Idle]
  /\ UNCHANGED <<order, limit, rootFinished, exits, local, todo, name, lineage, cancel, gc>>

\* The condvar loop sees a result in the completion handle.
Completed(c) ==
  /\ wait[c].kind = "condvar" /\ completion[wait[c].thread]
  /\ wait' = [wait EXCEPT ![c] = Idle]
  /\ UNCHANGED <<registry, exits, local, todo, got, name, lineage, cancel, gc>>

\* The thread `terminate` addresses: a local handle first.
Target(c, k) == IF live[c][k] # NoThread THEN live[c][k] ELSE entries[k].thread

\* An unknown name is an error.  Only a looping body reads the flag: that of any
\* other thread is not kept.
Terminate(c, k) ==
  /\ Executing(c) /\ Target(c, k) # NoThread
  /\ cancel' = cancel \cup ({Target(c, k)} \cap Looping)
  /\ UNCHANGED <<registry, exits, local, join, name, lineage, gc>>

------------------------------------------------------------------------------
(* The end of the request                                                  *)

FinishRequest ==
  /\ Executing(Root)
  /\ entries' = [k \in Key |-> NoEntry] /\ order' = <<>> /\ rootFinished' = TRUE
  /\ UNCHANGED <<limit, exits, local, join, name, lineage, cancel, gc>>

EndRequest ==
  /\ rootFinished /\ log[Root] = "open"
  /\ DropVM(Root)
  /\ UNCHANGED <<registry, exits, join, name, lineage, cancel>>

\* collect_ready_deferred, at a later request boundary or on the periodic sweep.
CollectReadyDeferred(c) ==
  /\ log[c] = "deferred" /\ \A t \in joins[c] : Finished(t)
  /\ log' = [log EXCEPT ![c] = "collected"]
  /\ joins' = [joins EXCEPT ![c] = {}]
  /\ UNCHANGED <<registry, exits, local, join, name, lineage, cancel>>

ThreadStep(t) ==
  \/ BodyEnd(t) \/ BackEdge(t) \/ PollCancel(t) \/ Panic(t)
  \/ Send(t) \/ Signal(t) \/ Record(t) \/ Exit(t)

JoinStep(c) ==
  \/ JoinNext(c) \/ BudgetSpent(c) \/ JoinTimeout(c)
  \/ Receive(c) \/ Reap(c) \/ Disconnected(c) \/ Publish(c) \/ Completed(c)

Next ==
  \/ \E c \in Context :
       \/ \E t \in Thread, n \in Name : Run(c, t, n)
       \/ \E k \in Key : JoinNamed(c, k) \/ Terminate(c, k)
       \/ JoinAll(c) \/ JoinStep(c) \/ CollectReadyDeferred(c)
  \/ \E t \in Thread : ThreadStep(t)
  \/ FinishRequest \/ EndRequest

Spec == Init /\ [][Next]_vars

\* The operating system runs every thread: one that is ending goes on to its
\* end, a wait whose condition holds returns, and the periodic sweep of the
\* deferred logs comes round.  No body is assumed to end: one that loops does get
\* to its back-edge again and again, whatever its iterations wait for in between
\* (strong fairness), and does there what poll_cancel says.
Fairness ==
  /\ \A t \in Thread :
       /\ WF_vars(Send(t)) /\ WF_vars(Signal(t)) /\ WF_vars(Record(t)) /\ WF_vars(Exit(t))
       /\ SF_vars(BackEdge(t)) /\ WF_vars(PollCancel(t))
  /\ \A c \in Context :
       /\ WF_vars(JoinNext(c)) /\ WF_vars(Receive(c)) /\ WF_vars(Reap(c))
       /\ WF_vars(Disconnected(c)) /\ WF_vars(Publish(c)) /\ WF_vars(Completed(c))
       /\ WF_vars(CollectReadyDeferred(c))

LiveSpec == Spec /\ Fairness

------------------------------------------------------------------------------
(* Properties                                                              *)

TypeOK ==
  /\ entries \in [Key -> [thread : Thread \cup {NoThread}, parent : Name \cup {NoName},
                          meta : Thread \cup {NoThread}]]
  /\ order \in Seq(Key) /\ limit \in Limits /\ rootFinished \in BOOLEAN
  /\ pc \in [Thread -> {"unborn", "running", "backedge", "ended", "sent", "signalled",
                      "recorded", "gone"}]
  /\ name \in [Thread -> Name \cup {NoName}]
  /\ lineage \in [Context -> Seq(Context)]
  /\ sent \in [Thread -> BOOLEAN] /\ completion \in [Thread -> BOOLEAN]
  /\ cancel \subseteq Looping /\ got \subseteq Thread
  /\ live \in [Context -> [Key -> Thread \cup {NoThread}]]
  /\ scopeOrder \in [Context -> Seq(Key)] /\ evicted \in [Context -> SUBSET Thread]
  /\ todo \in [Context -> SUBSET Key]
  /\ wait \in [Context -> [kind : {"none", "channel", "reap", "publish", "condvar"},
                           thread : Thread \cup {NoThread}, shown : Thread \cup {NoThread}]]
  /\ log \in [Context -> {"open", "collected", "deferred", "lost"}]
  /\ joins \in [Context -> SUBSET Thread]

Last(s) == s[Len(s)]

Started == {t \in Thread : pc[t] # "unborn"}
StartedBy(c, t) == lineage[t] # <<>> /\ Last(lineage[t]) = c

\* The registry's eviction queue lists exactly the registered names, each
\* once, and never more than the limit: what register evicts is an entry, and
\* no entry is beyond eviction's reach.
QueueCoversEntries ==
  /\ IsInjective(order) /\ Range(order) = Registered
  /\ Len(order) <= limit

\* The registry is sound: every variable has its type and the queue agrees with
\* the entries (register, thread_finished).
RegistryInv == TypeOK /\ QueueCoversEntries

\* While the request runs and has started no more threads than the limit, the
\* metadata threadData() returns for a thread is that thread's own: RUNNING, or
\* its own result, never the result of an earlier thread of that name
\* (update_from_result and update_metadata look the entry up by name only).
WithinLimit == Cardinality(Started) <= limit
StatusIsOwn ==
  ~rootFinished /\ WithinLimit =>
    \A k \in Registered : entries[k].meta \in {NoThread, entries[k].thread}

\* Once the request has ended nothing keeps a finished thread: every
\* registered thread has yet to pass thread_finished.
KeptOnlyWhileRunning ==
  rootFinished =>
    \A k \in Registered : pc[entries[k].thread] \notin {"unborn", "recorded", "gone"}

\* A join by the thread's own spawner returns only when the OS thread is gone,
\* with every reference it held: from then on its handle does not defer the
\* collector.
JoinedIsGone == \A t \in got : Finished(t)

\* A join without a name never waits for a thread the caller descends from
\* (get_non_ancestor_names): parent and child would wait for each other.
JoinAllSparesAncestors ==
  ~rootFinished =>
    \A c \in Context : Executing(c) =>
      \A k \in Registered : entries[k].thread \in Range(lineage[c]) => k \notin Outstanding(c)

\* A finishing thread leaves every other thread registered, the next thread
\* of its own name included.
FinishLeavesSuccessor ==
  [][\A t \in Thread : pc[t] = "signalled" /\ pc'[t] = "recorded" =>
       \A k \in Key : entries[k].thread # t => entries'[k].thread = entries[k].thread]_vars

\* "Request end has to know they are running before it collects cycles": the
\* request's log is collected only when every thread the request itself
\* started is gone, those evicted from its cfthread scope included.
RequestWaitsForItsThreads ==
  log[Root] = "collected" => \A t \in Thread : StartedBy(Root, t) => Finished(t)

NameTakenAgain(c, t) == \E u \in Thread \ {t} : StartedBy(c, u) /\ KeyOf(u) = KeyOf(t)

\* The same, as far as the code keeps it: left out is a thread whose name the
\* registry forgot at the limit and the request then gave to another thread,
\* for which live_threads.insert drops the handle of the first.
WaitsForNamedThreads ==
  log[Root] = "collected" =>
    \A t \in Thread : StartedBy(Root, t) => Finished(t) \/ NameTakenAgain(Root, t)

\* A join on a thread that is gone returns, also when the thread panicked.
JoinReturns ==
  \A c \in Context, t \in Thread : (Finished(t) /\ wait[c].thread = t) ~> wait[c].thread # t

\* "The body aborts at its next loop back-edge": a thread that was told to
\* terminate while it loops is gone in the end, unless it is waiting in a join.
TerminatedLoopEnds ==
  \A t \in Looping : t \in cancel ~> Finished(t) \/ wait[t] # Idle
==============================================================================
