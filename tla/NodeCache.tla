----------------------------- MODULE NodeCache -----------------------------
(***************************************************************************)
(* The map from nodes to device tables (pkg/cache/cache.go), one node of   *)
(* it, in every replica of the extender.  The goroutines of a replica (bind *)
(* calls, the worker, calls that look) get the table by GetNodeInfo: they  *)
(* read the node from the informer without a lock, then, under nLock,      *)
(* create the table, replace it or take the stored one, and go on with a   *)
(* pointer to it.                                                          *)
(*                                                                         *)
(* Module Extender has the steps of a bind call and of the worker with a   *)
(* table that never changes; here they are as coarse as the table allows.  *)
(***************************************************************************)
EXTENDS Integers, Sequences, FiniteSets, FiniteSetsExt

CONSTANTS
  Replica,     \* gputopology-schd-extender.yaml: replicas
  Pod, Req,    \* the pods and the number of GPUs each asks for
  Counts,      \* the numbers of GPUs that the node may report
  None,        \* no replica, no pod
  MaxChanges,  \* bound: changes of the reported number
  MaxRestarts  \* bound: restarts of a replica

ASSUME SetAssumption   == /\ Counts \subseteq Nat /\ IsFiniteSet(Counts) /\ Counts # {}
                          /\ None \notin Pod \union Replica
ASSUME ReqAssumption   == Req \in [Pod -> Nat \ {0}]
ASSUME BoundAssumption == MaxChanges \in Nat /\ MaxRestarts \in Nat

Devices(n) == 0 .. n - 1
Dev        == UNION {Devices(n) : n \in Counts}

VARIABLES
  pod, ids,          \* API server: where a pod is, the GPUs in its annotation
  count,             \* per replica: capacity of the node in its informer
  view,              \* per replica: the pods as its informer shows them
  tables,            \* per replica: the NodeInfo objects of the node, the last is stored
  known, todo,       \* per replica: knownPods; deleted pods the worker has yet to remove
  call, worker, look,\* bind calls (one for a pod), workers, prioritize and inspect
  changes, restarts, \* counters of the bounds
  blind              \* history: a replica has been restarted when it saw no GPU
                     \* on the node although pods ran there

cluster == <<pod, ids>>
informer == <<count, view>>
bounds  == <<changes, restarts, blind>>
vars    == <<cluster, informer, tables, known, todo, call, worker, look, bounds>>

NoCall == [pc |-> "idle", at |-> None, read |-> 0, table |-> 0, ids |-> {}]
NoWork == [pc |-> "idle", pod |-> None, read |-> 0, table |-> 0]
NoLook == [pc |-> "idle", read |-> 0]

Running == {p \in Pod : pod[p] = "bound"}
-----------------------------------------------------------------------------
(* The node map.                                                            *)

NewTable(n) == [count |-> n, used |-> {}]
Stored(r)   == tables[r][Len(tables[r])]

\* mutant: a table is replaced whenever the number of GPUs is another one
Outdated_Any(r, n) == Stored(r).count # n

\* mutant: a table is never replaced
Outdated_Never(r, n) == FALSE

\* "if the existing node turn from non gpu to gpu"
Outdated(r, n) == Stored(r).count = 0 /\ n > 0

\* GetNodeInfo under nLock, after it has read the number n
GetNodeInfo(r, n) ==
  IF tables[r] = << >> \/ Outdated(r, n) THEN Append(tables[r], NewTable(n))
                                         ELSE tables[r]

\* mutant: the pods that run already are not entered
Built_Nodes(n, bound) == IF n = 0 THEN << >> ELSE <<NewTable(n)>>

\* SchedulerCache.BuildCache: AddOrUpdatePod of the bound pods, then a table
\* for a node that has GPUs
Built(n, bound) ==
  IF n = 0 /\ bound = {} THEN << >>
  ELSE << [count |-> n, used |-> Devices(n) \intersect UNION {ids[p] : p \in bound}] >>
BuiltKnown(n, bound) == {p \in bound : ids[p] \intersect Devices(n) # {}}
-----------------------------------------------------------------------------
Init ==
  /\ pod = [p \in Pod |-> "new"] /\ ids = [p \in Pod |-> {}]
  /\ count \in [Replica -> Counts]
  /\ view = [r \in Replica |-> pod]
  /\ tables = [r \in Replica |-> Built(count[r], {})]
  /\ known = [r \in Replica |-> {}] /\ todo = [r \in Replica |-> {}]
  /\ call = [p \in Pod |-> NoCall]
  /\ worker = [r \in Replica |-> NoWork]
  /\ look = [r \in Replica |-> NoLook]
  /\ changes = 0 /\ restarts = 0 /\ blind = FALSE

\* users and controllers
DeletePod(p) ==
  /\ pod[p] # "gone"
  /\ pod' = [pod EXCEPT ![p] = "gone"]
  /\ UNCHANGED <<ids, informer, tables, known, todo, call, worker, look, bounds>>

\* the device plugin comes and goes, the informer of r shows it
NodeChange(r, n) ==
  /\ changes < MaxChanges /\ n # count[r]
  /\ changes' = changes + 1
  /\ count' = [count EXCEPT ![r] = n]
  /\ UNCHANGED <<cluster, view, tables, known, todo, call, worker, look, restarts, blind>>

\* the informer of r shows the next change of p; a deletion goes to removePodCache
Deliver(r, p) ==
  /\ view[r][p] # pod[p]
  /\ view' = [view EXCEPT ![r][p] =
                IF @ = "new" /\ ids[p] # {} THEN "bound" ELSE pod[p]]
  /\ todo' = IF view'[r][p] = "gone" /\ ids[p] # {}
             THEN [todo EXCEPT ![r] = @ \union {p}] ELSE todo
  /\ UNCHANGED <<cluster, count, tables, known, call, worker, look, bounds>>
-----------------------------------------------------------------------------
(* The worker of a replica: syncPod.                                        *)

Work == UNCHANGED <<cluster, informer, call, look, bounds>>

\* an unknown running pod comes with every resync, a deleted one once
WorkerTake(r, p) ==
  /\ worker[r].pc = "idle"
  /\ \/ view[r][p] = "bound" /\ p \notin known[r]
     \/ p \in todo[r]
  /\ worker' = [worker EXCEPT ![r] = [pc |-> IF p \in todo[r] THEN "remove" ELSE "add",
                                      pod |-> p, read |-> count[r], table |-> 0]]
  /\ Work /\ UNCHANGED <<tables, known, todo>>

\* GetNodeInfo has returned
Holding(w) == w.pc # "idle" /\ w.table # 0

WorkerTable(r) ==
  /\ worker[r].pc # "idle" /\ worker[r].table = 0
  /\ tables' = [tables EXCEPT ![r] = GetNodeInfo(r, worker[r].read)]
  /\ worker' = [worker EXCEPT ![r].table = Len(tables'[r])]
  /\ Work /\ UNCHANGED <<known, todo>>

Write(r, i, used) == tables' = [tables EXCEPT ![r][i].used = used]

\* mutant: a device is not looked up first
Found_All(table, p) == ids[p]

Found(table, p) == ids[p] \intersect Devices(table.count)

\* NodeInfo.AddOrUpdatePod; rememberPod only when a device was found
WorkerAdd(r) ==
  LET p     == worker[r].pod
      table == tables[r][worker[r].table]
      found == Found(table, p)
  IN  /\ worker[r].pc = "add" /\ Holding(worker[r])
      /\ Write(r, worker[r].table, table.used \union found)
      /\ known' = IF found = {} THEN known ELSE [known EXCEPT ![r] = @ \union {p}]
      /\ worker' = [worker EXCEPT ![r] = NoWork]
      /\ Work /\ UNCHANGED todo

\* NodeInfo.RemovePod, forgetPod, and the entry of removePodCache goes
WorkerRemove(r) ==
  LET p == worker[r].pod IN
  /\ worker[r].pc = "remove" /\ Holding(worker[r])
  /\ Write(r, worker[r].table, tables[r][worker[r].table].used \ ids[p])
  /\ known' = [known EXCEPT ![r] = @ \ {p}]
  /\ todo' = [todo EXCEPT ![r] = @ \ {p}]
  /\ worker' = [worker EXCEPT ![r] = NoWork]
  /\ Work

\* prioritize, or inspect of the node: they may create or replace the table (one
\* that reads the number the stored table has can do neither, and is left out)
LookBegins(r) ==
  /\ look[r].pc = "idle"
  /\ tables[r] # << >> => Stored(r).count # count[r]
  /\ look' = [look EXCEPT ![r] = [pc |-> "table", read |-> count[r]]]
  /\ UNCHANGED <<cluster, informer, tables, known, todo, call, worker, bounds>>

LookTable(r) ==
  /\ look[r].pc = "table"
  /\ tables' = [tables EXCEPT ![r] = GetNodeInfo(r, look[r].read)]
  /\ look' = [look EXCEPT ![r] = NoLook]
  /\ UNCHANGED <<cluster, informer, known, todo, call, worker, bounds>>
-----------------------------------------------------------------------------
(* A bind call.                                                             *)

Quiet == UNCHANGED <<informer, known, todo, worker, look, bounds>>

\* what the scheduler does not count as used: ignoredByScheduler is false
Fits(p) ==
  LET Counted == {q \in Pod : pod[q] = "bound" \/ call[q].pc # "idle"}
  IN  MapThenSumSet(LAMBDA q : Req[q], Counted \union {p}) <= Cardinality(Dev)

BindRequest(r, p) ==
  /\ call[p].pc = "idle" /\ pod[p] = "new" /\ Fits(p)
  /\ call' = [call EXCEPT ![p] = [NoCall EXCEPT !.pc = "table", !.at = r, !.read = count[r]]]
  /\ UNCHANGED <<cluster, tables>> /\ Quiet

BindTable(p) ==
  LET r == call[p].at IN
  /\ call[p].pc = "table"
  /\ tables' = [tables EXCEPT ![r] = GetNodeInfo(r, call[p].read)]
  /\ call' = [call EXCEPT ![p] = [@ EXCEPT !.pc = "lock", !.table = Len(tables'[r])]]
  /\ UNCHANGED cluster /\ Quiet

\* Policy.rwmu of replica r
Locked(r) == \E q \in Pod : call[q].at = r /\ call[q].pc \in {"commit", "mark"}

Possible(p) ==
  LET table == tables[call[p].at][call[p].table]
  IN  {S \in SUBSET (Devices(table.count) \ table.used) : Cardinality(S) = Req[p]}

\* allocateGPUID under Policy.rwmu, with any policy that answers free GPUs
BindChoose(p) ==
  /\ call[p].pc = "lock" /\ ~Locked(call[p].at)
  /\ \/ \E S \in Possible(p) : call' = [call EXCEPT ![p] = [@ EXCEPT !.pc = "commit", !.ids = S]]
     \/ Possible(p) = {} /\ call' = [call EXCEPT ![p] = NoCall]
  /\ UNCHANGED <<cluster, tables>> /\ Quiet

\* the annotation and the binding, which fail when the pod has gone
BindCommit(p) ==
  /\ call[p].pc = "commit" /\ pod[p] = "new"
  /\ pod' = [pod EXCEPT ![p] = "bound"]
  /\ ids' = [ids EXCEPT ![p] = call[p].ids]
  /\ call' = [call EXCEPT ![p].pc = "mark"]
  /\ UNCHANGED tables /\ Quiet

BindFails(p) ==
  /\ call[p].pc = "commit"
  /\ call' = [call EXCEPT ![p] = NoCall]
  /\ UNCHANGED <<cluster, tables>> /\ Quiet

BindMark(p) ==
  LET r == call[p].at
      i == call[p].table
  IN  /\ call[p].pc = "mark"
      /\ Write(r, i, tables[r][i].used \union call[p].ids)
      /\ call' = [call EXCEPT ![p] = NoCall]
      /\ UNCHANGED cluster /\ Quiet
-----------------------------------------------------------------------------
\* the process of r ends and starts again: main, BuildCache
Restart(r, n) ==
  /\ restarts < MaxRestarts
  /\ restarts' = restarts + 1
  /\ count' = [count EXCEPT ![r] = n]
  /\ view' = [view EXCEPT ![r] = pod]
  /\ tables' = [tables EXCEPT ![r] = Built(n, Running)]
  /\ known' = [known EXCEPT ![r] = BuiltKnown(n, Running)]
  /\ todo' = [todo EXCEPT ![r] = {}]
  /\ call' = [p \in Pod |-> IF call[p].at = r THEN NoCall ELSE call[p]]
  /\ worker' = [worker EXCEPT ![r] = NoWork]
  /\ look' = [look EXCEPT ![r] = NoLook]
  /\ blind' = (blind \/ (n = 0 /\ Running # {}))
  /\ UNCHANGED <<cluster, changes>>

Worker(r) == WorkerTable(r) \/ WorkerAdd(r) \/ WorkerRemove(r)
Bind(p)   == BindTable(p) \/ BindChoose(p) \/ BindCommit(p) \/ BindFails(p) \/ BindMark(p)

Next ==
  \/ \E p \in Pod : DeletePod(p) \/ Bind(p)
  \/ \E r \in Replica, p \in Pod : Deliver(r, p) \/ WorkerTake(r, p) \/ BindRequest(r, p)
  \/ \E r \in Replica : Worker(r) \/ LookBegins(r) \/ LookTable(r)
  \/ \E r \in Replica, n \in Counts : NodeChange(r, n) \/ Restart(r, n)

Spec == Init /\ [][Next]_vars

\* goroutines run; resyncs bring every unknown pod again and again
Fairness ==
  /\ \A r \in Replica, p \in Pod : WF_vars(Deliver(r, p)) /\ SF_vars(WorkerTake(r, p))
  /\ \A r \in Replica : WF_vars(Worker(r))
  /\ \A p \in Pod : WF_vars(Bind(p))
FairSpec == Spec /\ Fairness
-----------------------------------------------------------------------------
Tables == [count : Counts, used : SUBSET Dev]

TablesOK ==
  /\ tables \in [Replica -> Seq(Tables)]
  /\ \A r \in Replica : \A i \in 1 .. Len(tables[r]) :
        tables[r][i].used \subseteq Devices(tables[r][i].count)

\* a call knows its replica and what it has read, then its table, then its GPUs
CallOK(p) ==
  LET c == call[p] IN
  /\ c.pc # "idle" => c.at \in Replica /\ c.read \in Counts
  /\ c.pc \in {"lock", "commit", "mark"} => c.table \in 1 .. Len(tables[c.at])
  /\ c.pc \in {"commit", "mark"} =>
        c.ids # {} /\ c.ids \subseteq Devices(tables[c.at][c.table].count)

WorkerOK(r) ==
  worker[r].pc # "idle" => /\ worker[r].pod \in Pod /\ worker[r].read \in Counts
                           /\ worker[r].table \in 0 .. Len(tables[r])

TypeOK ==
  /\ pod \in [Pod -> {"new", "bound", "gone"}]
  /\ ids \in [Pod -> SUBSET Dev]
  /\ count \in [Replica -> Counts]
  /\ view \in [Replica -> [Pod -> {"new", "bound", "gone"}]]
  /\ TablesOK
  /\ known \in [Replica -> SUBSET Pod] /\ todo \in [Replica -> SUBSET Pod]
  /\ call \in [Pod -> [pc : {"idle", "table", "lock", "commit", "mark"},
                       at : Replica \union {None}, read : Counts \union {0},
                       table : Nat, ids : SUBSET Dev]]
  /\ \A p \in Pod : CallOK(p)
  /\ worker \in [Replica -> [pc : {"idle", "add", "remove"}, pod : Pod \union {None},
                             read : Counts \union {0}, table : Nat]]
  /\ \A r \in Replica : WorkerOK(r)
  /\ look \in [Replica -> [pc : {"idle", "table"}, read : Counts \union {0}]]
  /\ \A r \in Replica : look[r].pc = "table" => look[r].read \in Counts
  /\ changes \in 0 .. MaxChanges /\ restarts \in 0 .. MaxRestarts
  /\ blind \in BOOLEAN

(***************************************************************************)
(* GetNodeInfo reads the node before it takes nLock, and the pointer it    *)
(* returns is used after the lock is gone.  Even so a table that has       *)
(* devices is never replaced: a bind call or a worker that holds one holds *)
(* the stored one, so no mark and no release goes to a table nobody reads  *)
(* (cache.go:156-183).                                                     *)
(***************************************************************************)
HoldsStored ==
  \A r \in Replica : \A i \in 1 .. Len(tables[r]) :
    /\ tables[r][i].count > 0
    /\ \/ Holding(worker[r]) /\ worker[r].table = i
       \/ \E p \in Pod : call[p].at = r /\ call[p].table = i
    => i = Len(tables[r])

(***************************************************************************)
(* docs/designs/designs.md:23: "guarantee that the GPU cannot be           *)
(* oversubscribed at the scheduling level".                                *)
(***************************************************************************)
NoOversubscription ==
  \A p, q \in Running : p # q => ids[p] \intersect ids[q] = {}

(***************************************************************************)
(* With one replica no GPU is oversubscribed, whatever number of GPUs the  *)
(* node reports in the course of time, also over restarts at a smaller     *)
(* number, unless it was restarted while the node reported none and pods   *)
(* ran there: that table is replaced by an empty one as soon as the GPUs   *)
(* are back (cache.go:126, cache.go:173).                                  *)
(***************************************************************************)
ExclusiveUnlessBlind == ~blind => NoOversubscription

(***************************************************************************)
(* A pod that runs on, on a node that goes on to report GPUs, becomes known *)
(* to every replica, unless its GPUs are none of the stored table: a table *)
(* without devices is replaced, and a pod that could not be entered comes  *)
(* back with a resync (cache.go:126-135, 173-180).                         *)
(***************************************************************************)
KnownInTheEnd ==
  \A r \in Replica, p \in Pod :
    <>[](pod[p] = "bound" /\ count[r] > 0) =>
      <>[](\/ p \in known[r]
           \/ /\ tables[r] # << >> /\ Stored(r).count > 0
              /\ ids[p] \intersect Devices(Stored(r).count) = {})
=============================================================================
