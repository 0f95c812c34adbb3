--------------------------- MODULE ClusterSession ---------------------------
(***************************************************************************)
(* The replicated session store of the cluster backend                     *)
(* (crates/cli/src/session/cluster.rs).  Every node keeps one Automerge     *)
(* document per session and a map of tombstones for the sessions it        *)
(* removed.  A local change is broadcast once, best effort, through a      *)
(* bounded queue; what is lost on the way is repaired by the periodic      *)
(* push/pull exchange of full states.                                      *)
(*                                                                         *)
(* The two maps have a mutex each, and an operation that uses both takes   *)
(* one after the other: what it has still to do is a member of `pending`,  *)
(* and other threads of the node run in between.                           *)
(***************************************************************************)
EXTENDS Integers, Sequences, FiniteSets

CONSTANTS
  Node,           \* the members of the cluster
  Session,        \* (application, session id) keys
  TombstoneTtl,   \* TOMBSTONE_TTL, in ticks of the clock
  QueueCap,       \* OUTBOUND_QUEUE_CAP
  MaxWrites,      \* bound: calls of set
  MaxRemoves,     \* bound: calls of remove and evictions of take_expired
  MaxTicks,       \* bound: ticks of the clock
  MaxCrashes      \* bound: nodes that crash and start again empty

ASSUME ClusterAssumption ==
  /\ IsFiniteSet(Node) /\ Node # {}
  /\ {TombstoneTtl, QueueCap} \subseteq Nat \ {0}
  /\ {MaxWrites, MaxRemoves, MaxTicks, MaxCrashes} \subseteq Nat

VARIABLES
  docs,     \* docs[n][s]: the Automerge changes node n has for s, {} = no doc
  saved,    \* saved[n][s]: the changes up to the document's save cursor
  tombs,    \* tombs[n][s]: age of the tombstone, or NotBuried
  queue,    \* queue[n]: outbound messages, drained by the sender task
  net,      \* messages on their way to a node
  pending,  \* operations of a node between two of their lock acquisitions
  deps,     \* deps[c]: the changes that change c was made on top of
  writes, removes, ticks, crashes

vars == <<docs, saved, tombs, queue, net, pending, deps,
          writes, removes, ticks, crashes>>

Change == 1 .. MaxWrites
NotBuried == -1

(***************************************************************************)
(* Automerge.  A change whose dependencies are missing is queued inside    *)
(* the document and has no effect until they arrive; deps is transitively  *)
(* closed, so one look is enough.  read_session sees the applied changes.  *)
(***************************************************************************)
Applied(doc) == {c \in doc : deps[c] \subseteq doc}

Message == [kind : {"delta"}, s : Session, cs : SUBSET Change]
             \cup [kind : {"tombstone"}, s : Session, cs : {{}}]

Delta(s, cs)  == [kind |-> "delta", s |-> s, cs |-> cs]
Tombstone(s)  == [kind |-> "tombstone", s |-> s, cs |-> {}]

(***************************************************************************)
(* Continuations: "load" is a delta that passed the tombstone check,       *)
(* "bury" a removal whose document is gone and whose tombstone is not yet  *)
(* written (told: it is then broadcast), "evict" a key that take_expired   *)
(* collected, "drop" one that it has read once more and reported.          *)
(***************************************************************************)
Continuation ==
  [op : {"load"}, n : Node, s : Session, cs : SUBSET Change]
    \cup [op : {"bury"}, n : Node, s : Session, told : BOOLEAN]
    \cup [op : {"evict", "drop"}, n : Node, s : Session]

Load(n, s, cs)   == [op |-> "load", n |-> n, s |-> s, cs |-> cs]
Bury(n, s, told) == [op |-> "bury", n |-> n, s |-> s, told |-> told]
Evict(n, s)      == [op |-> "evict", n |-> n, s |-> s]
Drop(n, s)       == [op |-> "drop", n |-> n, s |-> s]

(* One type invariant; the outbound queue never exceeds its capacity. *)
TypeOK ==
  /\ docs \in [Node -> [Session -> SUBSET (1 .. writes)]]
  /\ saved \in [Node -> [Session -> SUBSET (1 .. writes)]]
  /\ tombs \in [Node -> [Session -> NotBuried .. TombstoneTtl]]
  /\ queue \in [Node -> Seq(Message)]
  /\ \A n \in Node : Len(queue[n]) =< QueueCap
  /\ net \subseteq [to : Node, msg : Message]
  /\ pending \subseteq Continuation
  /\ deps \in [Change -> SUBSET Change]
  /\ writes \in 0 .. MaxWrites /\ removes \in 0 .. MaxRemoves
  /\ ticks \in 0 .. MaxTicks /\ crashes \in 0 .. MaxCrashes

Init ==
  /\ docs = [n \in Node |-> [s \in Session |-> {}]]
  /\ saved = [n \in Node |-> [s \in Session |-> {}]]
  /\ tombs = [n \in Node |-> [s \in Session |-> NotBuried]]
  /\ queue = [n \in Node |-> << >>]
  /\ net = {} /\ pending = {}
  /\ deps = [c \in Change |-> {}]
  /\ writes = 0 /\ removes = 0 /\ ticks = 0 /\ crashes = 0

---------------------------------------------------------------------------
(***************************************************************************)
(* try_send: a message that finds the queue full is dropped.               *)
(***************************************************************************)
EnqueueUnbounded(q, m) == Append(q, m)

Enqueue(q, m) == IF Len(q) < QueueCap THEN Append(q, m) ELSE q

(***************************************************************************)
(* set: write the document and broadcast what changed since its save       *)
(* cursor, all under the documents' mutex.  Tombstones are not consulted.  *)
(* rotate is a read of the old id, a set of the new one and a remove of    *)
(* the old one, each on its own: its steps are those of Set and Remove.    *)
(***************************************************************************)
Set(n, s) ==
  LET c   == writes + 1
      old == Applied(docs[n][s])
      new == old \cup {c}
  IN /\ c =< MaxWrites
     /\ writes' = c
     /\ deps' = [deps EXCEPT ![c] = old]
     /\ docs' = [docs EXCEPT ![n][s] = @ \cup {c}]
     /\ saved' = [saved EXCEPT ![n][s] = new]
     /\ queue' = [queue EXCEPT ![n] = Enqueue(@, Delta(s, new \ saved[n][s]))]
     /\ UNCHANGED <<tombs, net, pending, removes, ticks, crashes>>

(* The document goes first; the tombstone, under its own mutex, second. *)
DropDoc(n, s) ==
  /\ docs' = [docs EXCEPT ![n][s] = {}]
  /\ saved' = [saved EXCEPT ![n][s] = {}]

Remove(n, s) ==
  /\ removes < MaxRemoves
  /\ removes' = removes + 1
  /\ DropDoc(n, s)
  /\ pending' = pending \cup {Bury(n, s, TRUE)}
  /\ UNCHANGED <<tombs, queue, net, deps, writes, ticks, crashes>>

(***************************************************************************)
(* take_expired, first part: any readable session may have timed out by    *)
(* the time the reaper looks.  The mutex is then released.                 *)
(***************************************************************************)
CollectExpired(n, s) ==
  /\ removes < MaxRemoves
  /\ Applied(docs[n][s]) # {}
  /\ removes' = removes + 1
  /\ pending' = pending \cup {Evict(n, s)}
  /\ UNCHANGED <<docs, saved, tombs, queue, net, deps, writes, ticks, crashes>>

(* Second part, for every key: whatever is readable under it now is ended. *)
ReadExpired(p) ==
  /\ p.op = "evict"
  /\ pending' = (pending \ {p})
                  \cup (IF Applied(docs[p.n][p.s]) # {} THEN {Drop(p.n, p.s)} ELSE {})
  /\ UNCHANGED <<docs, saved, tombs, queue, net, deps, writes, removes, ticks, crashes>>

(* The mutex was released: what is dropped may be another document, or none. *)
EvictExpired(p) ==
  /\ p.op = "drop"
  /\ DropDoc(p.n, p.s)
  /\ pending' = (pending \ {p}) \cup {Bury(p.n, p.s, TRUE)}
  /\ UNCHANGED <<tombs, queue, net, deps, writes, removes, ticks, crashes>>

(* The tombstone is written; the node that removed the session tells it. *)
WriteTombstone(p) ==
  /\ p.op = "bury"
  /\ tombs' = [tombs EXCEPT ![p.n][p.s] = 0]
  /\ queue' = IF p.told THEN [queue EXCEPT ![p.n] = Enqueue(@, Tombstone(p.s))]
                        ELSE queue
  /\ pending' = pending \ {p}
  /\ UNCHANGED <<docs, saved, net, deps, writes, removes, ticks, crashes>>

---------------------------------------------------------------------------
(***************************************************************************)
(* The sender task: one message at a time to every online peer.  A send    *)
(* that fails is logged and forgotten, so any set of the peers may get it. *)
(***************************************************************************)
Send(n) ==
  /\ queue[n] # << >>
  /\ \E reached \in SUBSET (Node \ {n}) :
       net' = net \cup [to : reached, msg : {Head(queue[n])}]
  /\ queue' = [queue EXCEPT ![n] = Tail(@)]
  /\ UNCHANGED <<docs, saved, tombs, pending, deps,
                 writes, removes, ticks, crashes>>

(* apply_session on a delta: a tombstone discards it, else it is loaded. *)
ReceiveDelta(m) ==
  /\ m.msg.kind = "delta"
  /\ net' = net \ {m}
  /\ pending' = IF tombs[m.to][m.msg.s] # NotBuried
                THEN pending
                ELSE pending \cup {Load(m.to, m.msg.s, m.msg.cs)}
  /\ UNCHANGED <<docs, saved, tombs, queue, deps,
                 writes, removes, ticks, crashes>>

LoadDelta(p) ==
  /\ p.op = "load"
  /\ docs' = [docs EXCEPT ![p.n][p.s] = @ \cup p.cs]
  /\ pending' = pending \ {p}
  /\ UNCHANGED <<saved, tombs, queue, net, deps,
                 writes, removes, ticks, crashes>>

(* apply_session on a tombstone; it is not passed on. *)
ReceiveTombstone(m) ==
  /\ m.msg.kind = "tombstone"
  /\ net' = net \ {m}
  /\ DropDoc(m.to, m.msg.s)
  /\ pending' = pending \cup {Bury(m.to, m.msg.s, FALSE)}
  /\ UNCHANGED <<tombs, queue, deps, writes, removes, ticks, crashes>>

---------------------------------------------------------------------------
(* gc_tombstones, run when a snapshot is taken and at no other time. *)
gc_tombstones(t) ==
  [s \in Session |-> IF t[s] >= TombstoneTtl THEN NotBuried ELSE t[s]]

(* merge_snapshot, its tombstones: an unknown one starts a life of its own. *)
MergedTombs(mine, theirs) ==
  [s \in Session |-> IF mine[s] = NotBuried /\ theirs[s] # NotBuried
                     THEN 0 ELSE mine[s]]

KeepLocalDocs(mine, theirs, buried, told) ==
  [s \in Session |-> IF told[s] # NotBuried THEN {}
                     ELSE IF buried[s] # NotBuried \/ mine[s] # {} THEN mine[s]
                     ELSE theirs[s]]

IgnoreToldTombs(mine, theirs, buried, told) ==
  [s \in Session |-> IF buried[s] # NotBuried THEN mine[s]
                     ELSE mine[s] \cup theirs[s]]

(***************************************************************************)
(* merge_snapshot, its documents: the peer's tombstones (told) remove      *)
(* them, the tombstones now known (buried) keep the peer's documents out.  *)
(***************************************************************************)
MergedDocs(mine, theirs, buried, told) ==
  [s \in Session |-> IF told[s] # NotBuried THEN {}
                     ELSE IF buried[s] # NotBuried THEN mine[s]
                     ELSE mine[s] \cup theirs[s]]

(* What node n is after it merged the snapshot of node m. *)
TombsAfter(n, m) == MergedTombs(gc_tombstones(tombs[n]), gc_tombstones(tombs[m]))
DocsAfter(n, m)  ==
  MergedDocs(docs[n], docs[m], TombsAfter(n, m), gc_tombstones(tombs[m]))

(***************************************************************************)
(* A push/pull: each side takes a snapshot (local_state: collect old       *)
(* tombstones, save every document, which moves its save cursor) and       *)
(* merges the other's (merge_remote_state).                                *)
(***************************************************************************)
Pairs == {{n, m} : n, m \in Node} \ {{n} : n \in Node}

Peer(pair, n) == CHOOSE m \in pair : m # n

PushPull(pair) ==
  LET tombsOf(n) == TombsAfter(n, Peer(pair, n))
      docsOf(n)  == DocsAfter(n, Peer(pair, n))
      cursor(n)  == [s \in Session |->
                       IF docsOf(n)[s] = {} THEN {} ELSE Applied(docs[n][s])]
  IN /\ tombs' = [n \in Node |-> IF n \in pair THEN tombsOf(n) ELSE tombs[n]]
     /\ docs' = [n \in Node |-> IF n \in pair THEN docsOf(n) ELSE docs[n]]
     /\ saved' = [n \in Node |-> IF n \in pair THEN cursor(n) ELSE saved[n]]
     /\ UNCHANGED <<queue, net, pending, deps, writes, removes, ticks, crashes>>

---------------------------------------------------------------------------
(* The clock: every tombstone grows older, up to its time to live. *)
Tick ==
  /\ ticks < MaxTicks
  /\ ticks' = ticks + 1
  /\ tombs' = [n \in Node |-> [s \in Session |->
                 IF tombs[n][s] \in {NotBuried, TombstoneTtl}
                 THEN tombs[n][s] ELSE tombs[n][s] + 1]]
  /\ UNCHANGED <<docs, saved, queue, net, pending, deps,
                 writes, removes, crashes>>

(***************************************************************************)
(* Nothing is on disk: a node that stops loses all it has, and what was on *)
(* its way to it.  While it is down its peers' sends to it fail, as any    *)
(* send may, so stopping and starting again are one step.                  *)
(***************************************************************************)
Restart(n) ==
  /\ crashes < MaxCrashes
  /\ crashes' = crashes + 1
  /\ docs' = [docs EXCEPT ![n] = [s \in Session |-> {}]]
  /\ saved' = [saved EXCEPT ![n] = [s \in Session |-> {}]]
  /\ tombs' = [tombs EXCEPT ![n] = [s \in Session |-> NotBuried]]
  /\ queue' = [queue EXCEPT ![n] = << >>]
  /\ net' = {m \in net : m.to # n}
  /\ pending' = {p \in pending : p.n # n}
  /\ UNCHANGED <<deps, writes, removes, ticks>>

---------------------------------------------------------------------------
Continue ==
  \E p \in pending :
    ReadExpired(p) \/ EvictExpired(p) \/ WriteTombstone(p) \/ LoadDelta(p)

Deliver == \E m \in net : ReceiveDelta(m) \/ ReceiveTombstone(m)

Next ==
  \/ \E n \in Node, s \in Session : Set(n, s) \/ Remove(n, s) \/ CollectExpired(n, s)
  \/ Continue
  \/ Deliver
  \/ \E n \in Node : Send(n) \/ Restart(n)
  \/ \E pair \in Pairs : PushPull(pair)
  \/ Tick

(***************************************************************************)
(* Threads run on, the sender task drains the queue, every pair of nodes   *)
(* exchanges states again and again.  Requests, crashes and the ticks of   *)
(* the clock are nobody's obligation.                                      *)
(***************************************************************************)
Fairness ==
  /\ WF_vars(Continue) /\ WF_vars(Deliver)
  /\ \A n \in Node : WF_vars(Send(n))
  /\ \A pair \in Pairs : WF_vars(PushPull(pair))

Spec == Init /\ [][Next]_vars
FairSpec == Spec /\ Fairness

---------------------------------------------------------------------------
(* A message with changes that were made. *)
Made == {m \in Message : m.cs \subseteq 1 .. writes}

(***************************************************************************)
(* What makes one look at the dependencies enough, and a delta complete:   *)
(* changes travel only after they were made, a change depends on earlier   *)
(* ones and on all that those depend on, and no document's save cursor     *)
(* covers a change that a reader of the document does not see              *)
(* (save_incremental, load_incremental).                                   *)
(***************************************************************************)
ChangesMade ==
  /\ queue \in [Node -> Seq(Made)]
  /\ \A m \in net : m.msg \in Made
  /\ \A p \in pending : p.op = "load" => p.cs \subseteq 1 .. writes

CausesFirst ==
  \A c \in Change :
    /\ deps[c] \subseteq 1 .. c - 1
    /\ c > writes => deps[c] = {}
    /\ \A d \in deps[c] : deps[d] \subseteq deps[c]

CursorBehind ==
  \A n \in Node, s \in Session : saved[n][s] \subseteq Applied(docs[n][s])

ClusterInv == TypeOK /\ ChangesMade /\ CausesFirst /\ CursorBehind

Readable(n, s) == Applied(docs[n][s])

(***************************************************************************)
(* "The cluster is eventually consistent": whatever messages the queue and *)
(* the network lose, and whatever node restarts empty, the push/pull       *)
(* exchange (snapshot, merge_snapshot) brings all nodes to the same        *)
(* applied changes for every session.                                      *)
(***************************************************************************)
EventuallyConsistent ==
  <>[](\A n, m \in Node, s \in Session : Readable(n, s) = Readable(m, s))

(***************************************************************************)
(* A removal (remove, take_expired) wins over every copy and every        *)
(* late delta, even when its broadcast is lost: once a node remembers it,  *)
(* and neither crashes nor the time to live erase that memory (both        *)
(* budgets are spent), the session ends up on no node.                     *)
(***************************************************************************)
RemovalWins ==
  \A s \in Session :
    (/\ crashes = MaxCrashes /\ ticks = MaxTicks
     /\ \E n \in Node : tombs[n][s] \in 0 .. TombstoneTtl - 1)
      ~> [](\A n \in Node : docs[n][s] = {})

(***************************************************************************)
(* cluster.rs on SessionMsg::Tombstone: receivers "remember the id briefly *)
(* so late Deltas are ignored".  While a node holds the tombstone, and     *)
(* still holds it after the step, the session's document comes back there  *)
(* only through a set of that node's own.                                  *)
(***************************************************************************)
LateDeltasIgnored ==
  [][\A n \in Node, s \in Session :
       (/\ docs[n][s] = {} /\ docs'[n][s] # {}
        /\ tombs[n][s] # NotBuried /\ tombs'[n][s] # NotBuried)
         => writes' # writes]_vars
=============================================================================
