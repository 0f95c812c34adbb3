--------------------------- MODULE CycleCollector ---------------------------
(***************************************************************************)
(* The cycle collector of serve mode (cycle_gc.rs).  CFML containers are   *)
(* reference counted; cycles are found by trial deletion over a log of     *)
(* weak handles.  A request's log has a young and an old generation; what  *)
(* survives the request is carried into a set shared by all requests, and  *)
(* the log of a request that ends while one of its threads still runs is   *)
(* deferred until the thread has finished.                                 *)
(*                                                                         *)
(* A cell is an Arc: a tracked node (Struct, Array, Query: Plain; the      *)
(* closure scope of a frame: Env; component: Inst), a class blueprint      *)
(* (Carrier), the method table that the blueprint shares with its          *)
(* components (Table), or a function with the scope it captured, which is  *)
(* not a node and is walked from each of its holders (Box; native objects  *)
(* are treated alike).  refs[x] are the cells x holds a reference to;      *)
(* frame, scope and background hold references from outside the heap.      *)
(* When a sweep is due (budgets, doubling, memory pressure, displaced      *)
(* generations) is left open: it may run at any time.                      *)
(***************************************************************************)
EXTENDS Integers, FiniteSets

CONSTANTS
  Plain, Env, Inst, \* tracked nodes
  Carrier,       \* class blueprints
  Table,         \* method tables
  Box,           \* function values
  Heaps,         \* the sets of cells a behaviour may allocate: it uses one
  LogFull(_),    \* live nodes at which a log that was compacted is still full
  MaxRefs(_),    \* bound, for each heap: references held by nodes
  MaxHolders(_), \* bound, for each heap: owners of a function value that is copied
  MaxScope(_)    \* bound, for each heap: references held by persistent scopes

Node == Plain \cup Env \cup Inst
Cell == Node \cup Carrier \cup Table \cup Box

ASSUME CellsAssumption ==
  /\ IsFiniteSet(Cell)
  /\ Plain \cap (Env \cup Inst) = {} /\ Env \cap Inst = {} /\ Carrier \cap (Node \cup Table \cup Box) = {}
  /\ Table \cap (Node \cup Box) = {} /\ Box \cap Node = {}
  /\ Heaps \subseteq SUBSET Cell
  /\ \A h \in Heaps : LogFull(h) \in Nat /\ MaxRefs(h) \in Nat /\ MaxScope(h) \in Nat
                        /\ MaxHolders(h) \in Nat

VARIABLES
  fresh,      \* cells not allocated yet: each is allocated once
  alive,      \* cells whose strong count is not zero
  refs,       \* the references each cell of the heap holds
  frame,      \* references of the running request's VM
  scope,      \* references of the application, session and server scopes
  background, \* references of a thread that outlives its request
  running,    \* is a request running: "no", "yes", "ended" once its VM is dropped
  paused,     \* LOG_PAUSED
  young,      \* ALLOC_LOG
  old,        \* OLD_LOG
  persistent, \* PERSISTENT.entries
  deferred,   \* DEFERRED: the log that waits for a thread (at most one)
  bodyRuns    \* that thread is still running

heap == <<fresh, alive, refs, frame, scope, background>>
logs == <<young, old, persistent, deferred>>
vars == <<heap, logs, running, paused, bodyRuns>>

Heap == DOMAIN refs
Held == frame \cup scope \cup background

\* What is left when every cell without an owner is freed, and what it held
\* with it: what is held from outside, and the largest set of others each of
\* which is held by a cell that is left.
Kept(cells, r, held) ==
  LET outside == cells \cap held
  IN  outside \cup UNION {S \in SUBSET (cells \ held) :
                          \A x \in S : \E y \in outside \cup S : x \in r[y]}

\* The members of S that are reached from some of them by the edges out: what is
\* left without the largest set that neither has one of these nor is entered by
\* an edge from outside it.
Closure(S, from, out) ==
  S \ UNION {D \in SUBSET (S \ from) : \A y \in S \ D : out[y] \cap D = {}}

\* The cells a program can get at.
Reachable == Closure(alive, Held, refs)

\* The heap after the references r, held from outside by held, replace the
\* present ones: reference counting frees what lost its last owner.
Settle(r, held) ==
  /\ alive' = Kept(alive, r, held) /\ fresh' = fresh
  /\ refs' = [x \in Heap |-> IF x \in alive' THEN r[x] ELSE {}]

Tracked == young \cup old \cup persistent \cup deferred

\* Mutant of Logs: entries of freed nodes stay.
DeadEntriesKept(y, o, p, d) ==
  young' = y /\ old' = o /\ persistent' = p /\ deferred' = d

\* The nodes the logs know: a weak handle to a freed one is as good as none
\* (upgrade fails; compact_log and prune_dead_entries drop it).
Logs(y, o, p, d) ==
  /\ young' = y \cap alive' /\ old' = o \cap alive'
  /\ persistent' = p \cap alive' /\ deferred' = d \cap alive'

\* Classes and tables are not values: they are held on the side.
Hidden == Carrier \cup Table
Value == Cell \ (Hidden \cup Env)
RefCount == Cardinality({p \in (Node \cap Heap) \X (Heap \ Hidden) : p[2] \in refs[p[1]]})

\* The number of references to x.
Owners(x) ==
  Cardinality({y \in alive : x \in refs[y]})
    + Cardinality({h \in 1 .. 3 : x \in <<frame, scope, background>>[h]})

Init ==
  /\ fresh \in Heaps /\ alive = {} /\ refs = [x \in fresh |-> {}]
  /\ frame = {} /\ scope = {} /\ background = {}
  /\ running = "no" /\ paused = FALSE /\ bodyRuns = FALSE
  /\ young = {} /\ old = {} /\ persistent = {} /\ deferred = {}

-----------------------------------------------------------------------------
(* The request                                                             *)

\* enable(): a new log.
Begin ==
  /\ running = "no"
  /\ running' = "yes" /\ paused' = FALSE /\ young' = {} /\ old' = {}
  /\ UNCHANGED <<heap, persistent, deferred, bodyRuns>>

\* log_push: the log is full of distinct live nodes even after compaction.
Pause ==
  /\ running = "yes" /\ ~paused /\ Cardinality(young) >= LogFull(Heap)
  /\ paused' = TRUE
  /\ UNCHANGED <<heap, logs, running, bodyRuns>>

\* New cells with the references r, held by the frame as fr says; node n is
\* logged unless logging is paused.
New(cells, r, fr, n) ==
  /\ running = "yes" /\ cells \subseteq fresh
  /\ fresh' = fresh \ cells /\ alive' = alive \cup cells
  /\ refs' = [x \in Heap |-> IF x \in cells THEN r[x] ELSE refs[x]]
  /\ frame' = fr
  /\ young' = IF n \in Node /\ ~paused THEN young \cup {n} ELSE young
  /\ UNCHANGED <<scope, background, old, persistent, deferred, running, paused, bodyRuns>>

\* A container, or the copy of a component's scope, which keeps the table.
NewContainer(n, ts) ==
  /\ n \in Plain
  /\ ts = {} \/ \E i \in frame \cap Inst : ts = refs[i] \cap Table
  /\ New({n}, [x \in {n} |-> ts], frame \cup {n}, n)

\* A component holds its class, the class's table (on both data maps) and the
\* static scope of a class that has one.
NewInstance(i, b, static) ==
  /\ i \in Inst /\ b \in Carrier \cap frame /\ static \subseteq refs[b] \cap Plain
  /\ New({i}, [x \in {i} |-> {b} \cup (refs[b] \cap Table) \cup static], frame \cup {i}, i)

\* A class with its static scope, metadata or super struct, and the table of its
\* methods: the function values found in the component it is made from.
LoadClass(b, m, structs, methods) ==
  /\ b \in Carrier /\ m \in Table
  /\ structs \subseteq frame \cap Plain /\ methods \subseteq frame \cap Box
  /\ New({b, m}, [x \in {b, m} |-> IF x = b THEN structs \cup {m} ELSE methods],
         (frame \ methods) \cup {b}, b)

\* The environment that a frame shares with the closures it defines.
NewEnv(e) == e \in Env /\ New({e}, [x \in {e} |-> {}], frame \cup {e}, e)

\* A closure captures the environment of its frame, which is logged again.
NewClosure(f, e) ==
  /\ f \in Box /\ e \in Env \cap frame
  /\ New({f}, [x \in {f} |-> {e}], frame \cup {f}, e)

\* The program replaces the references of the heap, the frame and the scopes;
\* logged are the nodes it enters into the log.
Mutate(r, fr, sc, logged) ==
  /\ running = "yes"
  /\ frame' = fr /\ scope' = sc
  /\ Settle(r, fr \cup sc \cup background)
  /\ Logs(IF paused THEN young ELSE young \cup logged, old, persistent, deferred)
  /\ UNCHANGED <<background, running, paused, bodyRuns>>

\* A value enters a container.  (A `var` local that is a function enters its own
\* environment as a copy without a captured scope, which holds nothing.)
Store(n, x) ==
  /\ n \in Node \cap frame /\ x \in (frame \cap Value) \ refs[n] /\ RefCount < MaxRefs(Heap)
  /\ x \in Box => Owners(x) < MaxHolders(Heap)
  /\ Mutate([refs EXCEPT ![n] = @ \cup {x}], frame, scope, {})

\* A function value moves from the operand stack into a container, the scope it
\* captured included.
Move(n, x) ==
  /\ n \in Node \cap frame /\ x \in (frame \cap Box) \ refs[n] /\ RefCount < MaxRefs(Heap)
  /\ Mutate([refs EXCEPT ![n] = @ \cup {x}], frame \ {x}, scope, {})

Remove(n, x) ==
  /\ n \in Node \cap frame /\ x \in refs[n] \cap Value
  /\ Mutate([refs EXCEPT ![n] = @ \ {x}], frame, scope, {})

\* What a container of the frame, or its method table, has under a name; the
\* environment of a function that is called; a class in the server's cache.
Load(x) ==
  /\ LET values == frame \ Carrier
         tables == Table \cap UNION {refs[y] : y \in values}
     IN  x \in (scope \cup UNION {refs[y] \ Hidden : y \in values \cup tables}) \ frame
  /\ x \in Box => Owners(x) < MaxHolders(Heap)
  /\ Mutate(refs, frame \cup {x}, scope, {})

Leave(x) ==
  /\ x \in frame
  /\ Mutate(refs, frame \ {x}, scope, {})

\* A value enters a persistent scope, a class the cache of the server.
Persist(x) ==
  /\ x \in (frame \cap (Value \cup Carrier)) \ scope /\ Cardinality(scope) < MaxScope(Heap)
  /\ x \in Box => Owners(x) < MaxHolders(Heap)
  /\ Mutate(refs, frame, scope \cup {x}, {})

\* relog_cycle_nodes enters the nodes reachable from a value, through function
\* values but not through blueprints and method tables.
Relogged(x) == Node \cap Closure(alive \ Hidden, {x}, refs)

\* A value leaves a persistent scope: its graph is entered into the log first, as
\* far as the budget of the walk goes.
Displace(x, walked) ==
  /\ x \in scope \cap Value /\ walked \subseteq Relogged(x)
  /\ Mutate(refs, frame, scope \ {x}, walked)

\* A class leaves the server's cache when its file has changed.
Retire(b) ==
  /\ b \in scope \cap Carrier
  /\ Mutate(refs, frame, scope \ {b}, {})

-----------------------------------------------------------------------------
(* A pass: collect_from_log_carrying over the nodes S of a log             *)

\* The references to x, the pass's own handle included.
strong_count(x) == Owners(x) + 1

\* Mutant of blueprints: classes are not part of the graph.
NoBlueprints(S) == {}

\* The blueprints and the method tables of the nodes of S, each once.
blueprints(S) == {b \in Carrier : \E y \in S : b \in refs[y]}
method_tables(S) == {m \in Table : \E y \in S : m \in refs[y]}

\* What is walked: the nodes and what hangs on them.
Walked(S) == S \cup blueprints(S) \cup method_tables(S)

\* The values w holds; a blueprint's method_values are its table.
Values(w) ==
  refs[w] \cup (IF w \in Carrier THEN UNION {refs[m] : m \in refs[w] \cap Table} ELSE {})

\* Mutant of internal_in: functions are leaves.
FunctionsNotCounted(S, x) == Cardinality({w \in Walked(S) : x \in refs[w]})


\* References to x that are met on the walks, each function value being walked
\* from everything that holds it.
internal_in(S, x) ==
  Cardinality({w \in Walked(S) : x \in refs[w]})
    + Cardinality({p \in Walked(S) \X Box : p[2] \in Values(p[1]) /\ x \in refs[p[2]]})

bp_internal(S, b) == Cardinality({i \in S : b \in refs[i]})

\* The nodes of S that the values of w lead to (classify).
Emits(S, w) ==
  {x \in S : x \in refs[w] \/ \E f \in Values(w) \cap Box : x \in refs[f]}

\* Mutant of Roots: a class that is cached or used elsewhere is no root.
RootsWithoutClasses(S) == {x \in S : strong_count(x) - 1 > internal_in(S, x)}

\* What something outside S holds, and what a class holds that has such an owner.
\* A method table is not asked for its owners.
Roots(S) ==
  {x \in S : strong_count(x) - 1 > internal_in(S, x)}
    \cup UNION {Emits(S, b) : b \in {c \in blueprints(S) : strong_count(c) - 1 > bp_internal(S, c)}}

\* Mutant of Emitted: the mark does not follow functions and classes.
NodesOnly(S, y) == S \cap refs[y]

\* The nodes of S marked from node y: for_each_child_node, the blueprint of an
\* instance, and the method table of an instance or a struct.
Emitted(S, y) == UNION {Emits(S, w) : w \in {y} \cup (refs[y] \cap Hidden)}

\* The nodes marked from the roots.
Live(S) == Closure(S, Roots(S), [y \in S |-> Emitted(S, y)])

\* Mutant of ClearedRefs: instances are not cleared.
InstancesSkipped(D) == [x \in Heap |-> IF x \in D \ Inst THEN {} ELSE refs[x]]

\* clear(): the contents go; class and method table stay until the node is freed.
ClearedRefs(D) == [x \in Heap |-> IF x \in D THEN refs[x] \cap Hidden ELSE refs[x]]

\* The pass over the nodes of a log, which keeps live.
Pass(log, live) == Settle(ClearedRefs(log \ live), Held)

-----------------------------------------------------------------------------
(* When a pass runs                                                        *)

\* collect_incremental: a minor sweep walks the young generation and promotes
\* its survivors; a major one walks both.
Minor ==
  /\ running = "yes" /\ young # {}
  /\ \E live \in {Live(young)} :
       Pass(young, live) /\ Logs({}, old \cup live, persistent, deferred)
  /\ UNCHANGED <<frame, scope, background, running, paused, bodyRuns>>

Major ==
  /\ running = "yes" /\ young # {} /\ old # {}
  /\ \E live \in {Live(young \cup old)} :
       Pass(young \cup old, live) /\ Logs({}, live, persistent, deferred)
  /\ UNCHANGED <<frame, scope, background, running, paused, bodyRuns>>

\* The request ends and its VM is dropped.
EndRequest ==
  /\ running = "yes"
  /\ running' = "ended" /\ frame' = {}
  /\ Settle(refs, scope \cup background) /\ Logs(young, old, persistent, deferred)
  /\ UNCHANGED <<scope, background, paused, bodyRuns>>

\* Mutant of Collect: the survivors of a request are forgotten.
CollectForgets ==
  /\ running = "ended"
  /\ running' = "no"
  /\ Pass(young \cup old, Live(young \cup old)) /\ Logs({}, {}, persistent, deferred)
  /\ UNCHANGED <<frame, scope, background, paused, bodyRuns>>

\* collect(), then carry_survivors.
Collect ==
  /\ running = "ended"
  /\ running' = "no"
  /\ \E live \in {Live(young \cup old)} :
       Pass(young \cup old, live) /\ Logs({}, {}, persistent \cup live, deferred)
  /\ UNCHANGED <<frame, scope, background, paused, bodyRuns>>

\* The request ends while a thread it started still runs and holds a value or
\* an environment of the request: defer_current_log.
EndDeferred(x) ==
  /\ running = "yes" /\ ~bodyRuns /\ deferred = {}
  /\ x \in frame \ Hidden
  /\ running' = "no" /\ bodyRuns' = TRUE
  /\ frame' = {} /\ background' = {x}
  /\ Settle(refs, scope \cup {x}) /\ Logs({}, {}, persistent, young \cup old)
  /\ UNCHANGED <<scope, paused>>

BodyFinished ==
  /\ bodyRuns
  /\ bodyRuns' = FALSE /\ background' = {}
  /\ Settle(refs, frame \cup scope) /\ Logs(young, old, persistent, deferred)
  /\ UNCHANGED <<frame, scope, running, paused>>

\* The survivors of a deferred log are not carried.
CollectReadyDeferred ==
  /\ ~bodyRuns /\ deferred # {}
  /\ Pass(deferred, Live(deferred)) /\ Logs(young, old, persistent, {})
  /\ UNCHANGED <<frame, scope, background, running, paused, bodyRuns>>

\* sweep_entries, at the end of a request, when a body has finished after a
\* displacement, or to shed memory.
PersistentSweep ==
  /\ persistent # {}
  /\ \E live \in {Live(persistent)} :
       Pass(persistent, live) /\ Logs(young, old, live, deferred)
  /\ UNCHANGED <<frame, scope, background, running, paused, bodyRuns>>

Program ==
  \/ \E n \in Plain, ts \in SUBSET Table : NewContainer(n, ts)
  \/ \E i \in Inst, b \in Carrier, static \in SUBSET Plain : NewInstance(i, b, static)
  \/ \E b \in Carrier, m \in Table, structs \in SUBSET Plain, methods \in SUBSET Box :
       LoadClass(b, m, structs, methods)
  \/ \E e \in Env : NewEnv(e) \/ \E f \in Box : NewClosure(f, e)
  \/ \E n \in Node \cap Heap, x \in Heap : Store(n, x) \/ Move(n, x) \/ Remove(n, x)
  \/ \E x \in Heap : Load(x) \/ Leave(x) \/ Persist(x)
  \/ \E x \in Value, walked \in SUBSET Node : Displace(x, walked)
  \/ \E b \in Carrier : Retire(b)

Collector ==
  \/ Pause
  \/ Minor \/ Major \/ Collect \/ CollectReadyDeferred \/ PersistentSweep

Next ==
  \/ Begin \/ EndRequest \/ BodyFinished
  \/ \E x \in Heap : EndDeferred(x)
  \/ Program \/ Collector

Spec == Init /\ [][Next]_vars

-----------------------------------------------------------------------------
(* Properties                                                              *)

\* Cells that are not alive hold nothing and are held by nobody.
TypeOK ==
  /\ Heap \in Heaps /\ fresh \subseteq Heap /\ alive \subseteq Heap \ fresh
  /\ refs \in [Heap -> SUBSET alive]
  /\ \A x \in Heap \ alive : refs[x] = {}
  /\ Held \subseteq alive
  /\ running \in {"no", "yes", "ended"} /\ paused \in BOOLEAN /\ bodyRuns \in BOOLEAN
  /\ Tracked \subseteq Node \cap alive

\* Who holds what: a class holds structs and its table, a table functions, a
\* function the environment it captured; only functions and frames hold
\* environments, and only components hold classes.
HoldsByKind ==
  /\ \A x \in Heap : /\ x \in Carrier => refs[x] \subseteq Plain \cup Table
                     /\ x \in Table => refs[x] \subseteq Box
                     /\ x \in Box => refs[x] \subseteq Env
                     /\ x \in Plain => refs[x] \subseteq Value \cup Table
                     /\ x \in Env => refs[x] \subseteq Value
                     /\ x \in Inst => refs[x] \cap Env = {}
  /\ frame \cap Table = {} /\ scope \cap (Env \cup Table) = {} /\ background \cap Hidden = {}

\* Every living cell has an owner: reference counting freed the others.
Owned == \A x \in alive : x \in Held \/ \E y \in alive : x \in refs[y]

\* The request's log is empty when no request runs.
LogIsTheRequests == running = "no" => young = {} /\ old = {}

\* The inductive invariant of the heap and its logs: with them, nothing that is
\* freed is held or logged, and nothing without an owner is left (Arc counts, the
\* weak handles of cycle_gc.rs).
CollectorInv == TypeOK /\ HoldsByKind /\ Owned /\ LogIsTheRequests

\* The scopes whose references a pass may count more often than they exist: the
\* ones captured by a function that has several owners, or that is a method of a
\* class (its blueprint and its method table are both walked).
CountedTwice ==
  UNION {refs[f] : f \in {g \in Box \cap alive :
                          Owners(g) > 1 \/ \E m \in Table \cap alive : g \in refs[m]}}

\* Whatever part of the living nodes a log happens to know, a pass over it
\* marks live every node the program can still get at: from a frame, a
\* persistent scope or a thread that outlives its request, directly or through
\* nodes, classes and functions inside or outside the log
\* (collect_from_log_carrying, external ownership and mark).
NeverClearsReachable ==
  LET reachable == Reachable
  IN  \A log \in SUBSET (Node \cap alive) : log \cap reachable \subseteq Live(log)


\* Garbage is found and freed: a pass over all living nodes marks nothing else
\* live (no cycle through instances, blueprints, tables and captured scopes is
\* taken for owned from outside), and what a pass over part of the nodes does not
\* mark live is freed by clearing it: no node is left behind emptied, but for a
\* scope that is counted twice.
GarbageIsFreed ==
  /\ Live(Node \cap alive) \subseteq Reachable
  /\ \A log \in SUBSET (Node \cap alive) :
       LET dead == log \ Live(log)
       IN  dead # {} => dead \cap Kept(alive, ClearedRefs(dead), Held) \subseteq CountedTwice

\* A node that is tracked stays tracked until it is freed, through promotion,
\* the end of the request and the sweeps of the cross-request set.  (A log that
\* was deferred is the exception: see CollectReadyDeferred; and a scope that is
\* counted twice may be emptied instead of freed.)
TrackedUntilFreed ==
  [][(Tracked \ (deferred \cup CountedTwice)) \cap alive' \subseteq Tracked']_vars
=============================================================================
