-------------------------- MODULE NodeCacheProofs --------------------------
(* Proofs about NodeCache.tla.                                              *)
EXTENDS NodeCache, FiniteSetTheorems, SequenceTheorems, TLAPS

-----------------------------------------------------------------------------
(* The tables of a replica: what creating, replacing and writing do.        *)

\* t has the tables of s, with the same devices, and perhaps more tables
Longer(s, t) ==
  /\ Len(s) <= Len(t)
  /\ \A i \in 1 .. Len(s) : t[i].count = s[i].count

LEMMA CountsDevices ==
  ASSUME NEW n \in Counts
  PROVE  n \in Nat /\ Devices(n) \subseteq Dev
  BY SetAssumption DEF Dev

LEMMA NewTableType ==
  ASSUME NEW n \in Counts
  PROVE  NewTable(n) \in Tables /\ NewTable(n).used = {} /\ NewTable(n).count = n
  BY DEF NewTable, Tables

\* GetNodeInfo keeps all tables, and appends one with no device in use when
\* there is none or the stored one has no device
LEMMA GetNodeInfoKeeps ==
  ASSUME TablesOK, NEW r \in Replica, NEW n \in Counts
  PROVE  LET s == tables[r]
             t == GetNodeInfo(r, n)
         IN  /\ t \in Seq(Tables) /\ Len(t) \in Nat \ {0}
             /\ \/ t = s
                \/ /\ Len(t) = Len(s) + 1 /\ t[Len(t)] = NewTable(n)
                   /\ \A i \in 1 .. Len(s) : t[i] = s[i]
                   /\ s = << >> \/ (Stored(r).count = 0 /\ n > 0)
             /\ Longer(s, t)
             /\ \A i \in 1 .. Len(t) : t[i].used \subseteq Devices(t[i].count)
  <1> DEFINE s == tables[r]
             t == GetNodeInfo(r, n)
  <1>1. s \in Seq(Tables) /\ \A i \in 1 .. Len(s) : s[i].used \subseteq Devices(s[i].count)
    BY DEF TablesOK
  <1>2. CASE s = << >> \/ Outdated(r, n)
    <2>1. t = Append(s, NewTable(n))
      BY <1>2 DEF GetNodeInfo
    <2>2. /\ t \in Seq(Tables) /\ Len(t) = Len(s) + 1
          /\ t[Len(t)] = NewTable(n)
          /\ \A i \in 1 .. Len(s) : t[i] = s[i]
      BY <1>1, <2>1, NewTableType, AppendProperties
    <2>3. Len(s) \in Nat
      BY <1>1
    <2>4. \A i \in 1 .. Len(t) : t[i].used \subseteq Devices(t[i].count)
      <3> SUFFICES ASSUME NEW i \in 1 .. Len(t)
                   PROVE  t[i].used \subseteq Devices(t[i].count)
        OBVIOUS
      <3>1. CASE i = Len(t)
        BY <3>1, <2>2, NewTableType
      <3>2. CASE i # Len(t)
        BY <3>2, <2>2, <2>3, <1>1
      <3> QED
        BY <3>1, <3>2
    <2> QED
      BY <1>2, <2>2, <2>3, <2>4 DEF Longer, Outdated
  <1>3. CASE ~(s = << >> \/ Outdated(r, n))
    <2>1. t = s
      BY <1>3 DEF GetNodeInfo
    <2>2. Len(s) \in Nat \ {0}
      BY <1>1, <1>3, EmptySeq
    <2> QED
      BY <1>1, <2>1, <2>2 DEF Longer
  <1> QED
    BY <1>2, <1>3

\* a goroutine that writes to its table changes what is used in that table only
LEMMA WriteKeeps ==
  ASSUME TablesOK, NEW r \in Replica, NEW i \in 1 .. Len(tables[r]),
         NEW used \in SUBSET Devices(tables[r][i].count), Write(r, i, used)
  PROVE  /\ tables' \in [Replica -> Seq(Tables)]
         /\ \A q \in Replica \ {r} : tables'[q] = tables[q]
         /\ Len(tables'[r]) = Len(tables[r])
         /\ Longer(tables[r], tables'[r])
         /\ tables'[r][i].used = used
         /\ \A j \in 1 .. Len(tables[r]) : j # i => tables'[r][j] = tables[r][j]
         /\ TablesOK'
  <1> DEFINE s == tables[r]
             x == [s[i] EXCEPT !.used = used]
             t == [s EXCEPT ![i] = x]
  <1>1. /\ tables \in [Replica -> Seq(Tables)] /\ s \in Seq(Tables)
        /\ \A q \in Replica : \A j \in 1 .. Len(tables[q]) :
              tables[q][j].used \subseteq Devices(tables[q][j].count)
    BY DEF TablesOK
  <1>2. s[i] \in Tables
    BY <1>1, ElementOfSeq
  <1>3. x \in Tables /\ x.used = used /\ x.count = s[i].count
    BY <1>2, CountsDevices DEF Tables
  <1>4. /\ t \in Seq(Tables) /\ Len(t) = Len(s) /\ t[i] = x
        /\ \A j \in 1 .. Len(s) : j # i => t[j] = s[j]
    BY <1>1, <1>3, ExceptSeq
  <1>5. tables' = [tables EXCEPT ![r] = t]
    BY DEF Write
  <1>6. tables'[r] = t /\ tables' \in [Replica -> Seq(Tables)]
        /\ \A q \in Replica \ {r} : tables'[q] = tables[q]
    BY <1>1, <1>4, <1>5
  <1>7. Longer(s, t)
    BY <1>1, <1>3, <1>4 DEF Longer
  <1>8. \A q \in Replica : \A j \in 1 .. Len(tables'[q]) :
           tables'[q][j].used \subseteq Devices(tables'[q][j].count)
    <2> SUFFICES ASSUME NEW q \in Replica, NEW j \in 1 .. Len(tables'[q])
                 PROVE  tables'[q][j].used \subseteq Devices(tables'[q][j].count)
      OBVIOUS
    <2>1. CASE q # r
      BY <2>1, <1>1, <1>6
    <2>2. CASE q = r /\ j # i
      BY <2>2, <1>1, <1>4, <1>6
    <2>3. CASE q = r /\ j = i
      BY <2>3, <1>3, <1>4, <1>6
    <2> QED
      BY <2>1, <2>2, <2>3
  <1> QED
    BY <1>3, <1>4, <1>6, <1>7, <1>8 DEF TablesOK

\* the tables of r are those that GetNodeInfo leaves
LEMMA GetsKeeps ==
  ASSUME TablesOK, NEW r \in Replica, NEW n \in Counts,
         tables' = [tables EXCEPT ![r] = GetNodeInfo(r, n)]
  PROVE  /\ TablesOK'
         /\ \A q \in Replica : Longer(tables[q], tables'[q])
         /\ Len(tables'[r]) \in Nat \ {0}
  <1> DEFINE t == GetNodeInfo(r, n)
  <1>1. /\ t \in Seq(Tables) /\ Len(t) \in Nat \ {0} /\ Longer(tables[r], t)
        /\ \A i \in 1 .. Len(t) : t[i].used \subseteq Devices(t[i].count)
    BY GetNodeInfoKeeps
  <1>2. /\ tables \in [Replica -> Seq(Tables)]
        /\ \A q \in Replica : \A j \in 1 .. Len(tables[q]) :
              tables[q][j].used \subseteq Devices(tables[q][j].count)
    BY DEF TablesOK
  <1> HIDE DEF t
  <1>3. /\ tables' \in [Replica -> Seq(Tables)] /\ tables'[r] = t
        /\ \A q \in Replica \ {r} : tables'[q] = tables[q]
    BY <1>1, <1>2 DEF t
  <1>4. \A q \in Replica : Longer(tables[q], tables'[q])
    <2> SUFFICES ASSUME NEW q \in Replica PROVE Longer(tables[q], tables'[q])
      OBVIOUS
    <2>1. CASE q = r
      BY <2>1, <1>1, <1>3
    <2>2. CASE q # r
      <3>1. Len(tables[q]) \in Nat
        BY <1>2
      <3> QED
        BY <2>2, <1>3, <3>1 DEF Longer
    <2> QED
      BY <2>1, <2>2
  <1>5. TablesOK'
    <2> SUFFICES ASSUME NEW q \in Replica, NEW j \in 1 .. Len(tables'[q])
                 PROVE  tables'[q][j].used \subseteq Devices(tables'[q][j].count)
      BY <1>3 DEF TablesOK
    <2>1. CASE q = r
      BY <2>1, <1>1, <1>3
    <2>2. CASE q # r
      BY <2>2, <1>2, <1>3
    <2> QED
      BY <2>1, <2>2
  <1> QED
    BY <1>1, <1>3, <1>4, <1>5

\* the same of a goroutine that writes
LEMMA WritesKeep ==
  ASSUME TablesOK, NEW r \in Replica, NEW i \in 1 .. Len(tables[r]),
         NEW used \in SUBSET Devices(tables[r][i].count), Write(r, i, used)
  PROVE  TablesOK' /\ \A q \in Replica : Longer(tables[q], tables'[q])
  <1>1. /\ TablesOK' /\ Longer(tables[r], tables'[r])
        /\ \A q \in Replica \ {r} : tables'[q] = tables[q]
    BY WriteKeeps
  <1>2. \A q \in Replica : Len(tables[q]) \in Nat
    BY DEF TablesOK
  <1>3. \A q \in Replica \ {r} : Longer(tables[q], tables'[q])
    BY <1>1, <1>2 DEF Longer
  <1> QED
    BY <1>1, <1>3

LEMMA SameKeeps ==
  ASSUME TablesOK, UNCHANGED tables
  PROVE  TablesOK' /\ \A q \in Replica : Longer(tables[q], tables'[q])
  <1>1. \A q \in Replica : Len(tables[q]) \in Nat
    BY DEF TablesOK
  <1> QED
    BY <1>1 DEF Longer, TablesOK

\* BuildCache makes one table or none
LEMMA BuiltType ==
  ASSUME NEW n \in Counts, NEW bound \in SUBSET Pod, ids \in [Pod -> SUBSET Dev]
  PROVE  LET t == Built(n, bound)
         IN  /\ t \in Seq(Tables) /\ Len(t) \in {0, 1}
             /\ (t = << >> <=> n = 0 /\ bound = {}) /\ (t # << >> <=> Len(t) = 1)
             /\ t # << >> => /\ t[1].count = n
                            /\ t[1].used = Devices(n) \intersect UNION {ids[p] : p \in bound}
             /\ \A i \in 1 .. Len(t) : t[i].used \subseteq Devices(t[i].count)
  <1> DEFINE x == [count |-> n,
                   used |-> Devices(n) \intersect UNION {ids[p] : p \in bound}]
  <1>1. x \in Tables
    BY CountsDevices DEF Tables
  <1> HIDE DEF x
  <1>2. <<x>> \in Seq(Tables) /\ Len(<<x>>) = 1 /\ <<x>>[1] = x /\ <<x>> # << >>
    BY <1>1
  <1>3. Len(<< >>) = 0 /\ << >> \in Seq(Tables)
    OBVIOUS
  <1>4. x.count = n /\ x.used = Devices(n) \intersect UNION {ids[p] : p \in bound}
    BY DEF x
  <1>5. Built(n, bound) = IF n = 0 /\ bound = {} THEN << >> ELSE <<x>>
    BY DEF Built, x
  <1> QED
    BY <1>2, <1>3, <1>4, <1>5
-----------------------------------------------------------------------------
(* Types.                                                                   *)

\* what the calls and the workers hold stays, when the tables only grow
LEMMA HeldStays ==
  ASSUME TypeOK, \A q \in Replica : Longer(tables[q], tables'[q])
  PROVE  /\ \A p \in Pod : call'[p] = call[p] => CallOK(p)'
         /\ \A r \in Replica : worker'[r] = worker[r] => WorkerOK(r)'
  <1>1. \A q \in Replica : Len(tables[q]) \in Nat
    BY DEF TypeOK, TablesOK
  <1>2. ASSUME NEW p \in Pod, call'[p] = call[p]
        PROVE  CallOK(p)'
    <2>1. CallOK(p)
      BY DEF TypeOK
    <2>2. CASE call[p].pc = "idle"
      BY <1>2, <2>2 DEF CallOK
    <2>3. CASE call[p].pc # "idle"
      <3>1. call[p].at \in Replica /\ Longer(tables[call[p].at], tables'[call[p].at])
        BY <2>1, <2>3 DEF CallOK
      <3> QED
        BY <1>1, <1>2, <2>1, <3>1 DEF CallOK, Longer
    <2> QED
      BY <2>2, <2>3
  <1>3. ASSUME NEW r \in Replica, worker'[r] = worker[r]
        PROVE  WorkerOK(r)'
    <2>1. WorkerOK(r)
      BY DEF TypeOK
    <2> QED
      BY <1>1, <1>3, <2>1 DEF WorkerOK, Longer
  <1> QED
    BY <1>2, <1>3

LEMMA InitType == Init => TypeOK
  <1> SUFFICES ASSUME Init PROVE TypeOK
    OBVIOUS
  <1>1. \A r \in Replica : count[r] \in Counts /\ tables[r] = Built(count[r], {})
    BY DEF Init
  <1>2. ids \in [Pod -> SUBSET Dev]
    BY DEF Init
  <1>3. \A r \in Replica : /\ tables[r] \in Seq(Tables)
                          /\ \A i \in 1 .. Len(tables[r]) :
                                tables[r][i].used \subseteq Devices(tables[r][i].count)
    BY <1>1, <1>2, BuiltType
  <1>4. tables = [r \in Replica |-> tables[r]]
    BY DEF Init
  <1>5. TablesOK
    BY <1>3, <1>4 DEF TablesOK
  <1>6. \A p \in Pod : CallOK(p)
    BY DEF Init, CallOK, NoCall
  <1>7. \A r \in Replica : WorkerOK(r)
    BY DEF Init, WorkerOK, NoWork
  <1>8. /\ pod \in [Pod -> {"new", "bound", "gone"}]
        /\ view \in [Replica -> [Pod -> {"new", "bound", "gone"}]]
        /\ count \in [Replica -> Counts]
        /\ known \in [Replica -> SUBSET Pod] /\ todo \in [Replica -> SUBSET Pod]
    BY DEF Init
  <1>9. call \in [Pod -> [pc : {"idle", "table", "lock", "commit", "mark"},
                         at : Replica \union {None}, read : Counts \union {0},
                         table : Nat, ids : SUBSET Dev]]
    BY DEF Init, NoCall
  <1>10. worker \in [Replica -> [pc : {"idle", "add", "remove"}, pod : Pod \union {None},
                                read : Counts \union {0}, table : Nat]]
    BY DEF Init, NoWork
  <1>11. /\ look \in [Replica -> [pc : {"idle", "table"}, read : Counts \union {0}]]
         /\ \A r \in Replica : look[r].pc = "table" => look[r].read \in Counts
    BY DEF Init, NoLook
  <1>12. changes \in 0 .. MaxChanges /\ restarts \in 0 .. MaxRestarts /\ blind \in BOOLEAN
    <2>1. changes = 0 /\ restarts = 0 /\ blind = FALSE
      BY DEF Init
    <2>2. 0 \in 0 .. MaxChanges /\ 0 \in 0 .. MaxRestarts
      BY BoundAssumption
    <2> QED
      BY <2>1, <2>2, Zenon
  <1> QED
    BY <1>2, <1>5, <1>6, <1>7, <1>8, <1>9, <1>10, <1>11, <1>12 DEF TypeOK

LEMMA ClusterType ==
  ASSUME TypeOK,
         \/ \E p \in Pod : DeletePod(p)
         \/ \E r \in Replica, n \in Counts : NodeChange(r, n)
         \/ \E r \in Replica, p \in Pod : Deliver(r, p)
  PROVE  TypeOK'
  <1>1. UNCHANGED <<tables, call, worker, look>>
    BY DEF DeletePod, NodeChange, Deliver
  <1>2. TablesOK' /\ (\A q \in Pod : CallOK(q)') /\ (\A q \in Replica : WorkerOK(q)')
    BY <1>1, SameKeeps, HeldStays DEF TypeOK
  <1>3. ASSUME NEW p \in Pod, DeletePod(p) PROVE TypeOK'
    BY <1>1, <1>2, <1>3 DEF TypeOK, DeletePod, informer, bounds
  <1>4. ASSUME NEW r \in Replica, NEW n \in Counts, NodeChange(r, n) PROVE TypeOK'
    BY <1>1, <1>2, <1>4, BoundAssumption DEF TypeOK, NodeChange, cluster
  <1>5. ASSUME NEW r \in Replica, NEW p \in Pod, Deliver(r, p) PROVE TypeOK'
    <2>1. view' \in [Replica -> [Pod -> {"new", "bound", "gone"}]]
      BY <1>5 DEF TypeOK, Deliver
    <2>2. todo' \in [Replica -> SUBSET Pod]
      BY <1>5 DEF TypeOK, Deliver
    <2> QED
      BY <1>1, <1>2, <1>5, <2>1, <2>2 DEF TypeOK, Deliver, cluster, bounds
  <1> QED
    BY <1>3, <1>4, <1>5

LEMMA WorkerType ==
  ASSUME TypeOK, NEW r \in Replica, (\E p \in Pod : WorkerTake(r, p)) \/ Worker(r)
  PROVE  TypeOK'
  <1>1. TablesOK /\ Len(tables[r]) \in Nat /\ count[r] \in Counts
    BY DEF TypeOK, TablesOK
  <1>2. WorkerOK(r) /\ worker[r].table \in Nat
    BY DEF TypeOK
  <1>3. ASSUME NEW p \in Pod, WorkerTake(r, p) PROVE TypeOK'
    <2>1. TablesOK' /\ (\A q \in Pod : CallOK(q)')
          /\ (\A q \in Replica : worker'[q] = worker[q] => WorkerOK(q)')
      BY <1>1, <1>3, SameKeeps, HeldStays DEF WorkerTake, Work
    <2>2. WorkerOK(r)'
      BY <1>1, <1>3 DEF WorkerTake, WorkerOK, TypeOK
    <2>3. \A q \in Replica : WorkerOK(q)'
      BY <1>3, <2>1, <2>2 DEF WorkerTake, TypeOK
    <2>4. worker' \in [Replica -> [pc : {"idle", "add", "remove"}, pod : Pod \union {None},
                                   read : Counts \union {0}, table : Nat]]
      BY <1>1, <1>3 DEF TypeOK, WorkerTake
    <2> QED
      BY <1>3, <2>1, <2>3, <2>4 DEF TypeOK, WorkerTake, Work, cluster, informer, bounds
  <1>4. CASE WorkerTable(r)
    <2>1. /\ TablesOK' /\ Len(tables'[r]) \in Nat \ {0}
          /\ \A q \in Replica : Longer(tables[q], tables'[q])
      BY <1>1, <1>2, <1>4, GetsKeeps DEF WorkerTable, WorkerOK
    <2>2. (\A q \in Pod : CallOK(q)')
          /\ (\A q \in Replica : worker'[q] = worker[q] => WorkerOK(q)')
      BY <1>4, <2>1, HeldStays DEF WorkerTable, Work
    <2>3. worker' = [worker EXCEPT ![r].table = Len(tables'[r])]
      BY <1>4 DEF WorkerTable
    <2>4. WorkerOK(r)'
      BY <1>2, <2>1, <2>3 DEF WorkerOK, TypeOK
    <2>5. \A q \in Replica : WorkerOK(q)'
      BY <2>2, <2>3, <2>4 DEF TypeOK
    <2>6. worker' \in [Replica -> [pc : {"idle", "add", "remove"}, pod : Pod \union {None},
                                   read : Counts \union {0}, table : Nat]]
      <3> DEFINE W == [pc : {"idle", "add", "remove"}, pod : Pod \union {None},
                       read : Counts \union {0}, table : Nat]
                 n == Len(tables'[r])
      <3>1. worker \in [Replica -> W] /\ n \in Nat
        BY <2>1 DEF TypeOK
      <3>2. [worker[r] EXCEPT !.table = n] \in W
        BY <3>1
      <3>3. worker' = [worker EXCEPT ![r] = [worker[r] EXCEPT !.table = n]]
        BY <2>3, <3>1
      <3> HIDE DEF W
      <3>4. worker' \in [Replica -> W]
        BY <3>1, <3>2, <3>3
      <3> QED
        BY <3>4 DEF W
    <2> QED
      BY <1>4, <2>1, <2>2, <2>5, <2>6
      DEF TypeOK, WorkerTable, Work, cluster, informer, bounds
  <1>5. CASE WorkerAdd(r)
    <2> DEFINE i == worker[r].table
    <2>1. i \in 1 .. Len(tables[r]) /\ worker[r].pod \in Pod
      BY <1>1, <1>2, <1>5 DEF WorkerAdd, Holding, WorkerOK
    <2>2. PICK used \in SUBSET Devices(tables[r][i].count) : Write(r, i, used)
      BY <1>1, <1>5, <2>1 DEF WorkerAdd, TablesOK, Found
    <2>3. TablesOK' /\ \A q \in Replica : Longer(tables[q], tables'[q])
      BY <1>1, <2>1, <2>2, WritesKeep
    <2>4. (\A q \in Pod : CallOK(q)')
          /\ (\A q \in Replica : worker'[q] = worker[q] => WorkerOK(q)')
      BY <1>5, <2>3, HeldStays DEF WorkerAdd, Work
    <2>5. worker' = [worker EXCEPT ![r] = NoWork]
      BY <1>5 DEF WorkerAdd
    <2>6. \A q \in Replica : WorkerOK(q)'
      BY <2>4, <2>5 DEF TypeOK, WorkerOK, NoWork
    <2>7. known' \in [Replica -> SUBSET Pod]
      BY <1>5, <2>1 DEF WorkerAdd, TypeOK
    <2> QED
      BY <1>5, <2>3, <2>4, <2>5, <2>6, <2>7
      DEF TypeOK, WorkerAdd, Work, NoWork, cluster, informer, bounds
  <1>6. CASE WorkerRemove(r)
    <2> DEFINE i == worker[r].table
    <2>1. i \in 1 .. Len(tables[r]) /\ worker[r].pod \in Pod
      BY <1>1, <1>2, <1>6 DEF WorkerRemove, Holding, WorkerOK
    <2>2. PICK used \in SUBSET Devices(tables[r][i].count) : Write(r, i, used)
      BY <1>1, <1>6, <2>1 DEF WorkerRemove, TablesOK
    <2>3. TablesOK' /\ \A q \in Replica : Longer(tables[q], tables'[q])
      BY <1>1, <2>1, <2>2, WritesKeep
    <2>4. (\A q \in Pod : CallOK(q)')
          /\ (\A q \in Replica : worker'[q] = worker[q] => WorkerOK(q)')
      BY <1>6, <2>3, HeldStays DEF WorkerRemove, Work
    <2>5. worker' = [worker EXCEPT ![r] = NoWork]
      BY <1>6 DEF WorkerRemove
    <2>6. \A q \in Replica : WorkerOK(q)'
      BY <2>4, <2>5 DEF TypeOK, WorkerOK, NoWork
    <2>7. known' \in [Replica -> SUBSET Pod] /\ todo' \in [Replica -> SUBSET Pod]
      BY <1>6, <2>1 DEF WorkerRemove, TypeOK
    <2> QED
      BY <1>6, <2>3, <2>4, <2>5, <2>6, <2>7
      DEF TypeOK, WorkerRemove, Work, NoWork, cluster, informer, bounds
  <1> QED
    BY <1>3, <1>4, <1>5, <1>6 DEF Worker

LEMMA LookType ==
  ASSUME TypeOK, NEW r \in Replica, LookBegins(r) \/ LookTable(r)
  PROVE  TypeOK'
  <1>1. UNCHANGED <<call, worker>> /\ count[r] \in Counts
    BY DEF LookBegins, LookTable, TypeOK
  <1>2. TablesOK' /\ \A q \in Replica : Longer(tables[q], tables'[q])
    <2>1. CASE LookBegins(r)
      BY <2>1, SameKeeps DEF LookBegins, TypeOK
    <2>2. CASE LookTable(r)
      BY <2>2, GetsKeeps DEF LookTable, TypeOK
    <2> QED
      BY <2>1, <2>2
  <1>3. (\A q \in Pod : CallOK(q)') /\ (\A q \in Replica : WorkerOK(q)')
    BY <1>1, <1>2, HeldStays
  <1>4. /\ look' \in [Replica -> [pc : {"idle", "table"}, read : Counts \union {0}]]
        /\ \A q \in Replica : look'[q].pc = "table" => look'[q].read \in Counts
    <2>1. CASE LookBegins(r)
      <3>1. look' = [look EXCEPT ![r] = [pc |-> "table", read |-> count[r]]]
        BY <2>1 DEF LookBegins
      <3> QED
        BY <1>1, <3>1 DEF TypeOK
    <2>2. CASE LookTable(r)
      <3>1. look' = [look EXCEPT ![r] = NoLook]
        BY <2>2 DEF LookTable
      <3> QED
        BY <3>1 DEF TypeOK, NoLook
    <2> QED
      BY <2>1, <2>2
  <1> QED
    BY <1>1, <1>2, <1>3, <1>4
    DEF TypeOK, LookBegins, LookTable, cluster, informer, bounds

LEMMA BindType ==
  ASSUME TypeOK, NEW p \in Pod, (\E r \in Replica : BindRequest(r, p)) \/ Bind(p)
  PROVE  TypeOK'
  <1> DEFINE C == [pc : {"idle", "table", "lock", "commit", "mark"},
                   at : Replica \union {None}, read : Counts \union {0},
                   table : Nat, ids : SUBSET Dev]
             a == call[p].at
             i == call[p].table
             Goal == /\ TablesOK' /\ \A q \in Replica : Longer(tables[q], tables'[q])
                     /\ pod' \in [Pod -> {"new", "bound", "gone"}] /\ ids' \in [Pod -> SUBSET Dev]
                     /\ \E c \in C : call' = [call EXCEPT ![p] = c]
                     /\ CallOK(p)'
  <1>1. /\ call \in [Pod -> C] /\ call[p] \in C
        /\ CallOK(p) /\ TablesOK /\ \A q \in Replica : Len(tables[q]) \in Nat
    BY DEF TypeOK, TablesOK
  <1>2. Quiet
    BY DEF BindRequest, Bind, BindTable, BindChoose, BindCommit, BindFails, BindMark
  <1>3. NoCall \in C
    BY DEF NoCall
  \* it is enough that the call of p is again as it should be
  <1>4. ASSUME Goal PROVE TypeOK'
    <2>1. PICK c \in C : call' = [call EXCEPT ![p] = c]
      BY <1>4
    <2>2. /\ \A q \in Pod : call'[q] = call[q] => CallOK(q)'
          /\ \A q \in Replica : WorkerOK(q)'
      BY <1>2, <1>4, HeldStays DEF Quiet
    <2>3. call' \in [Pod -> C] /\ \A q \in Pod : CallOK(q)'
      BY <1>1, <1>4, <2>1, <2>2
    <2> QED
      BY <1>2, <1>4, <2>2, <2>3 DEF TypeOK, Quiet, informer, bounds
  <1>5. ASSUME NEW r \in Replica, BindRequest(r, p) PROVE Goal
    <2>4. count[r] \in Counts
      BY DEF TypeOK
    <2> DEFINE c == [NoCall EXCEPT !.pc = "table", !.at = r, !.read = count[r]]
    <2>1. call' = [call EXCEPT ![p] = c]
      BY <1>5 DEF BindRequest
    <2>3. c \in C /\ c.pc = "table" /\ c.at = r /\ c.read = count[r]
      BY <1>1, <2>4 DEF NoCall
    <2> HIDE DEF c, C
    <2>2. CallOK(p)'
      BY <1>1, <2>1, <2>3, <2>4 DEF CallOK
    <2> QED
      BY <1>1, <1>5, <2>1, <2>2, <2>3, SameKeeps DEF BindRequest, TypeOK, cluster
  <1>6. ASSUME BindTable(p) PROVE Goal
    <2>1. a \in Replica /\ call[p].read \in Counts /\ call[p].pc = "table"
      BY <1>1, <1>6 DEF BindTable, CallOK
    <2>2. /\ TablesOK' /\ Len(tables'[a]) \in Nat \ {0}
          /\ \A q \in Replica : Longer(tables[q], tables'[q])
      BY <1>1, <1>6, <2>1, GetsKeeps DEF BindTable
    <2> DEFINE n == Len(tables'[a])
    <2>3. call' = [call EXCEPT ![p] = [call[p] EXCEPT !.pc = "lock", !.table = n]]
      BY <1>1, <1>6 DEF BindTable
    <2>4. [call[p] EXCEPT !.pc = "lock", !.table = n] \in C
      BY <1>1, <2>2
    <2>5. CallOK(p)'
      BY <1>1, <2>1, <2>2, <2>3 DEF CallOK
    <2> QED
      BY <1>6, <2>2, <2>3, <2>4, <2>5 DEF BindTable, TypeOK, cluster
  <1>7. ASSUME BindChoose(p) PROVE Goal
    <2>1. CASE call' = [call EXCEPT ![p] = NoCall]
      <3>1. CallOK(p)'
        BY <1>1, <2>1 DEF CallOK, NoCall
      <3> QED
        BY <1>3, <1>1, <1>7, <2>1, <3>1, SameKeeps DEF BindChoose, TypeOK, cluster
    <2>2. ASSUME NEW S \in Possible(p),
                 call' = [call EXCEPT ![p] = [@ EXCEPT !.pc = "commit", !.ids = S]]
          PROVE  Goal
      <3>1. /\ a \in Replica /\ i \in 1 .. Len(tables[a]) /\ call[p].read \in Counts
            /\ tables[a][i].count \in Counts
        <4>1. a \in Replica /\ i \in 1 .. Len(tables[a]) /\ call[p].read \in Counts
          BY <1>1, <1>7 DEF BindChoose, CallOK
        <4>2. tables[a] \in Seq(Tables)
          BY <4>1, <1>1 DEF TablesOK
        <4>3. tables[a][i] \in Tables
          BY <4>1, <4>2, ElementOfSeq
        <4> QED
          BY <4>1, <4>3 DEF Tables
      <3>2. S \subseteq Devices(tables[a][i].count) /\ S # {}
        BY FS_EmptySet, ReqAssumption DEF Possible
      <3>3. S \in SUBSET Dev
        BY <3>1, <3>2, CountsDevices
      <3>4. [call[p] EXCEPT !.pc = "commit", !.ids = S] \in C
        BY <1>1, <3>3
      <3>5. call' = [call EXCEPT ![p] = [call[p] EXCEPT !.pc = "commit", !.ids = S]]
        BY <1>1, <2>2
      <3>6. CallOK(p)'
        BY <1>1, <1>7, <3>1, <3>2, <3>5 DEF CallOK, BindChoose
      <3> QED
        BY <1>1, <1>7, <3>4, <3>5, <3>6, SameKeeps DEF BindChoose, TypeOK, cluster
    <2> QED
      BY <1>7, <2>1, <2>2 DEF BindChoose
  <1>8. ASSUME BindCommit(p) PROVE Goal
    <2>1. call' = [call EXCEPT ![p] = [call[p] EXCEPT !.pc = "mark"]]
      BY <1>1, <1>8 DEF BindCommit
    <2>2. [call[p] EXCEPT !.pc = "mark"] \in C
      BY <1>1
    <2>3. CallOK(p)'
      BY <1>1, <1>8, <2>1 DEF CallOK, BindCommit
    <2>4. pod' \in [Pod -> {"new", "bound", "gone"}] /\ ids' \in [Pod -> SUBSET Dev]
      BY <1>1, <1>8 DEF BindCommit, TypeOK
    <2> QED
      BY <1>1, <1>8, <2>1, <2>2, <2>3, <2>4, SameKeeps DEF BindCommit
  <1>9. ASSUME BindFails(p) PROVE Goal
    <2>1. CallOK(p)'
      BY <1>1, <1>9 DEF CallOK, NoCall, BindFails
    <2> QED
      BY <1>1, <1>3, <1>9, <2>1, SameKeeps DEF BindFails, TypeOK, cluster
  <1>10. ASSUME BindMark(p) PROVE Goal
    <2>1. /\ a \in Replica /\ i \in 1 .. Len(tables[a])
          /\ call[p].ids \subseteq Devices(tables[a][i].count)
          /\ tables[a][i].used \subseteq Devices(tables[a][i].count)
      BY <1>1, <1>10 DEF BindMark, CallOK, TablesOK
    <2>2. TablesOK' /\ \A q \in Replica : Longer(tables[q], tables'[q])
      BY <1>1, <1>10, <2>1, WritesKeep DEF BindMark
    <2>3. call' = [call EXCEPT ![p] = NoCall] /\ UNCHANGED <<pod, ids>>
      BY <1>10 DEF BindMark, cluster
    <2>4. CallOK(p)'
      BY <1>1, <2>3 DEF CallOK, NoCall
    <2> QED
      BY <1>3, <2>2, <2>3, <2>4 DEF TypeOK
  <1> QED
    BY <1>4, <1>5, <1>6, <1>7, <1>8, <1>9, <1>10 DEF Bind

LEMMA RestartType ==
  ASSUME TypeOK, NEW r \in Replica, NEW n \in Counts, Restart(r, n)
  PROVE  TypeOK'
  <1> DEFINE t == Built(n, Running)
  <1>1. Running \in SUBSET Pod /\ ids \in [Pod -> SUBSET Dev]
    BY DEF Running, TypeOK
  <1>2. t \in Seq(Tables) /\ \A i \in 1 .. Len(t) : t[i].used \subseteq Devices(t[i].count)
    BY <1>1, BuiltType
  <1>3. tables \in [Replica -> Seq(Tables)] /\ tables' = [tables EXCEPT ![r] = t]
    BY DEF TypeOK, TablesOK, Restart
  <1> HIDE DEF t
  <1>4. /\ tables' \in [Replica -> Seq(Tables)] /\ tables'[r] = t
        /\ \A q \in Replica \ {r} : tables'[q] = tables[q]
    BY <1>2, <1>3
  <1>5. TablesOK'
    BY <1>2, <1>4 DEF TypeOK, TablesOK
  <1>6. \A p \in Pod : CallOK(p)'
    <2> SUFFICES ASSUME NEW p \in Pod PROVE CallOK(p)'
      OBVIOUS
    <2>1. call'[p] = IF call[p].at = r THEN NoCall ELSE call[p]
      BY DEF Restart
    <2>2. CASE call[p].at = r
      BY <2>1, <2>2 DEF CallOK, NoCall
    <2>3. CASE call[p].at # r
      <3>1. CallOK(p) /\ call'[p] = call[p]
        BY <2>1, <2>3 DEF TypeOK
      <3>2. CASE call[p].pc = "idle"
        BY <3>1, <3>2 DEF CallOK
      <3>3. CASE call[p].pc # "idle"
        <4>1. call[p].at \in Replica \ {r}
          BY <2>3, <3>1, <3>3 DEF CallOK
        <4>2. tables'[call[p].at] = tables[call[p].at]
          BY <1>4, <4>1
        <4> QED
          BY <3>1, <4>2 DEF CallOK
      <3> QED
        BY <3>2, <3>3
    <2> QED
      BY <2>2, <2>3
  <1>7. worker' = [worker EXCEPT ![r] = NoWork] /\ look' = [look EXCEPT ![r] = NoLook]
    BY DEF Restart
  <1>8. \A q \in Replica : WorkerOK(q)'
    <2> SUFFICES ASSUME NEW q \in Replica PROVE WorkerOK(q)'
      OBVIOUS
    <2>1. CASE q = r
      BY <1>7, <2>1 DEF TypeOK, WorkerOK, NoWork
    <2>2. CASE q # r
      <3>1. WorkerOK(q) /\ worker'[q] = worker[q] /\ tables'[q] = tables[q]
        BY <1>4, <1>7, <2>2 DEF TypeOK
      <3> QED
        BY <3>1 DEF WorkerOK
    <2> QED
      BY <2>1, <2>2
  <1>9. call' \in [Pod -> [pc : {"idle", "table", "lock", "commit", "mark"},
                          at : Replica \union {None}, read : Counts \union {0},
                          table : Nat, ids : SUBSET Dev]]
    BY DEF Restart, TypeOK, NoCall
  <1>10. worker' \in [Replica -> [pc : {"idle", "add", "remove"}, pod : Pod \union {None},
                                 read : Counts \union {0}, table : Nat]]
    BY <1>7 DEF TypeOK, NoWork
  <1>11. /\ look' \in [Replica -> [pc : {"idle", "table"}, read : Counts \union {0}]]
         /\ \A q \in Replica : look'[q].pc = "table" => look'[q].read \in Counts
    BY <1>7 DEF TypeOK, NoLook
  <1>12. /\ count' \in [Replica -> Counts]
         /\ view' \in [Replica -> [Pod -> {"new", "bound", "gone"}]]
    BY DEF Restart, TypeOK
  <1>13. known' \in [Replica -> SUBSET Pod] /\ todo' \in [Replica -> SUBSET Pod]
    <2>1. BuiltKnown(n, Running) \in SUBSET Pod
      BY <1>1 DEF BuiltKnown
    <2> QED
      BY <2>1 DEF Restart, TypeOK
  <1>14. restarts' \in 0 .. MaxRestarts /\ blind' \in BOOLEAN
    <2>1. restarts' \in 0 .. MaxRestarts
      BY BoundAssumption DEF Restart, TypeOK
    <2>2. blind' \in BOOLEAN
      BY DEF Restart, TypeOK
    <2> QED
      BY <2>1, <2>2
  <1> QED
    BY <1>1, <1>5, <1>6, <1>8, <1>9, <1>10, <1>11, <1>12, <1>13, <1>14
    DEF TypeOK, Restart, cluster

LEMMA NextType ==
  ASSUME TypeOK, [Next]_vars
  PROVE  TypeOK'
  <1>1. ASSUME NEW r \in Replica, NEW n \in Counts, NodeChange(r, n) \/ Restart(r, n)
        PROVE  TypeOK'
    BY <1>1, ClusterType, RestartType
  <1>2. ASSUME NEW r \in Replica, Worker(r) \/ LookBegins(r) \/ LookTable(r)
        PROVE  TypeOK'
    BY <1>2, WorkerType, LookType
  <1>3. ASSUME NEW r \in Replica, NEW p \in Pod,
               Deliver(r, p) \/ WorkerTake(r, p) \/ BindRequest(r, p)
        PROVE  TypeOK'
    BY <1>3, ClusterType, WorkerType, BindType
  <1>4. ASSUME NEW p \in Pod, DeletePod(p) \/ Bind(p)
        PROVE  TypeOK'
    BY <1>4, ClusterType, BindType
  <1>5. CASE UNCHANGED vars
    <2>1. TablesOK' /\ (\A p \in Pod : CallOK(p)') /\ (\A r \in Replica : WorkerOK(r)')
      BY <1>5, SameKeeps, HeldStays DEF TypeOK, vars
    <2> QED
      BY <1>5, <2>1 DEF TypeOK, vars, cluster, informer, bounds
  <1> QED
    BY <1>1, <1>2, <1>3, <1>4, <1>5 DEF Next

(* The variables have their types: a goroutine never holds a table that is  *)
(* not there, and chooses GPUs that its table has.                          *)
THEOREM TypeCorrect == Spec => []TypeOK
  <1> QED
    BY InitType, NextType, PTL DEF Spec
-----------------------------------------------------------------------------
(* A table that has devices is the stored one.                              *)

OnlyLastHasDevices ==
  \A r \in Replica : \A i \in 1 .. Len(tables[r]) :
    tables[r][i].count > 0 => i = Len(tables[r])

\* GetNodeInfo replaces a table without devices only
LEMMA GetsLast ==
  ASSUME TablesOK, OnlyLastHasDevices, NEW r \in Replica, NEW n \in Counts,
         tables' = [tables EXCEPT ![r] = GetNodeInfo(r, n)]
  PROVE  /\ OnlyLastHasDevices'
         /\ tables[r] # << >> /\ Stored(r).count > 0 => tables'[r] = tables[r]
  <1> DEFINE s == tables[r]
             t == GetNodeInfo(r, n)
  <1>1. /\ \/ t = s
           \/ /\ Len(t) = Len(s) + 1 /\ \A i \in 1 .. Len(s) : t[i] = s[i]
              /\ s = << >> \/ s[Len(s)].count = 0
    BY GetNodeInfoKeeps DEF Stored
  <1>2. tables'[r] = t /\ \A q \in Replica \ {r} : tables'[q] = tables[q]
    BY DEF TablesOK
  <1>3. Len(s) \in Nat /\ (s # << >> => Len(s) \in 1 .. Len(s))
    BY EmptySeq DEF TablesOK
  <1>4. \A i \in 1 .. Len(s) : s[i].count > 0 => i = Len(s)
    BY DEF OnlyLastHasDevices
  <1> HIDE DEF t
  <1>5. \A i \in 1 .. Len(t) : t[i].count > 0 => i = Len(t)
    <2>1. CASE t = s
      BY <1>4, <2>1
    <2>2. CASE t # s
      <3> SUFFICES ASSUME NEW i \in 1 .. Len(t), t[i].count > 0, i # Len(t)
                   PROVE  FALSE
        OBVIOUS
      <3>1. i \in 1 .. Len(s) /\ t[i] = s[i] /\ (s = << >> \/ s[Len(s)].count = 0)
        BY <1>1, <1>3, <2>2
      <3>2. s # << >>
        BY <3>1
      <3> QED
        BY <1>4, <3>1, <3>2
    <2> QED
      BY <2>1, <2>2
  <1>6. s # << >> /\ Stored(r).count > 0 => t = s
    BY <1>1 DEF Stored
  <1> QED
    BY <1>2, <1>5, <1>6 DEF OnlyLastHasDevices

LEMMA WritesLast ==
  ASSUME TablesOK, OnlyLastHasDevices, NEW r \in Replica, NEW i \in 1 .. Len(tables[r]),
         NEW used \in SUBSET Devices(tables[r][i].count), Write(r, i, used)
  PROVE  OnlyLastHasDevices'
  <1>1. /\ Len(tables'[r]) = Len(tables[r]) /\ Longer(tables[r], tables'[r])
        /\ \A q \in Replica \ {r} : tables'[q] = tables[q]
    BY WriteKeeps
  <1> QED
    BY <1>1 DEF OnlyLastHasDevices, Longer

\* what a worker and a call write to
LEMMA WorkerWrites ==
  ASSUME TypeOK, NEW r \in Replica, WorkerAdd(r) \/ WorkerRemove(r)
  PROVE  LET i == worker[r].table
         IN  /\ worker[r].pod \in Pod /\ i \in 1 .. Len(tables[r])
             /\ \E used \in SUBSET Devices(tables[r][i].count) :
                  /\ Write(r, i, used)
                  /\ tables[r][i].used \ (IF worker[r].pc = "remove" THEN ids[worker[r].pod] ELSE {})
                       \subseteq used
  <1> DEFINE i == worker[r].table
  <1>1. TablesOK /\ WorkerOK(r) /\ worker[r].table \in Nat /\ Len(tables[r]) \in Nat
    BY DEF TypeOK, TablesOK
  <1>2. i \in 1 .. Len(tables[r]) /\ worker[r].pod \in Pod
    BY <1>1 DEF WorkerAdd, WorkerRemove, Holding, WorkerOK
  <1>3. tables[r][i].used \subseteq Devices(tables[r][i].count)
    BY <1>1, <1>2 DEF TablesOK
  <1> DEFINE p == worker[r].pod
             u == tables[r][i].used
             a == u \union Found(tables[r][i], p)
             b == u \ ids[p]
  <1>4. CASE WorkerAdd(r)
    <2>1. a \in SUBSET Devices(tables[r][i].count) /\ u \subseteq a
      BY <1>3 DEF Found
    <2>2. Write(r, i, a) /\ worker[r].pc = "add"
      BY <1>4 DEF WorkerAdd
    <2> QED
      BY <1>2, <2>1, <2>2
  <1>5. CASE WorkerRemove(r)
    <2>1. b \in SUBSET Devices(tables[r][i].count)
      BY <1>3
    <2>2. Write(r, i, b) /\ worker[r].pc = "remove"
      BY <1>5 DEF WorkerRemove
    <2> QED
      BY <1>2, <2>1, <2>2
  <1> QED
    BY <1>4, <1>5

LEMMA MarkWrites ==
  ASSUME TypeOK, NEW p \in Pod, BindMark(p)
  PROVE  LET r == call[p].at
             i == call[p].table
             used == tables[r][i].used \union call[p].ids
         IN  /\ r \in Replica /\ i \in 1 .. Len(tables[r])
             /\ used \in SUBSET Devices(tables[r][i].count) /\ Write(r, i, used)
  BY DEF TypeOK, TablesOK, CallOK, BindMark

LEMMA NextLast ==
  ASSUME TypeOK, OnlyLastHasDevices, [Next]_vars
  PROVE  OnlyLastHasDevices'
  <1>1. TablesOK
    BY DEF TypeOK
  <1>2. CASE UNCHANGED tables
    BY <1>2 DEF OnlyLastHasDevices
  <1>3. ASSUME NEW r \in Replica, WorkerTable(r) PROVE OnlyLastHasDevices'
    BY <1>1, <1>3, GetsLast DEF WorkerTable, TypeOK, WorkerOK
  <1>4. ASSUME NEW r \in Replica, WorkerAdd(r) \/ WorkerRemove(r) PROVE OnlyLastHasDevices'
    BY <1>1, <1>4, WorkerWrites, WritesLast
  <1>5. ASSUME NEW r \in Replica, LookTable(r) PROVE OnlyLastHasDevices'
    BY <1>1, <1>5, GetsLast DEF LookTable, TypeOK
  <1>6. ASSUME NEW p \in Pod, BindTable(p) PROVE OnlyLastHasDevices'
    BY <1>1, <1>6, GetsLast DEF BindTable, TypeOK, CallOK
  <1>7. ASSUME NEW p \in Pod, BindMark(p) PROVE OnlyLastHasDevices'
    BY <1>1, <1>7, MarkWrites, WritesLast
  <1>8. ASSUME NEW r \in Replica, NEW n \in Counts, Restart(r, n) PROVE OnlyLastHasDevices'
    <2>1. Running \in SUBSET Pod /\ ids \in [Pod -> SUBSET Dev]
      BY DEF Running, TypeOK
    <2>2. Len(Built(n, Running)) \in {0, 1}
      BY <2>1, BuiltType
    <2>3. /\ tables'[r] = Built(n, Running)
          /\ \A q \in Replica \ {r} : tables'[q] = tables[q]
      BY <1>1, <1>8 DEF Restart, TablesOK
    <2> DEFINE m == Len(tables'[r])
    <2>4. m = 0 \/ m = 1
      BY <2>2, <2>3
    <2> HIDE DEF m
    <2>5. \A i \in 1 .. m : i = m
      BY <2>4
    <2> QED
      BY <2>3, <2>5 DEF OnlyLastHasDevices, m
  <1>9. \/ UNCHANGED tables
        \/ \E r \in Replica : WorkerTable(r) \/ WorkerAdd(r) \/ WorkerRemove(r) \/ LookTable(r)
        \/ \E p \in Pod : BindTable(p) \/ BindMark(p)
        \/ \E r \in Replica, n \in Counts : Restart(r, n)
    BY DEF Next, vars, Worker, Bind, DeletePod, NodeChange, Deliver, WorkerTake, LookBegins,
           BindRequest, BindChoose, BindCommit, BindFails
  <1> QED
    BY <1>2, <1>3, <1>4, <1>5, <1>6, <1>7, <1>8, <1>9

LEMMA InitLast == Init => OnlyLastHasDevices
  <1> SUFFICES ASSUME Init, NEW r \in Replica
               PROVE  \A i \in 1 .. Len(tables[r]) : i = Len(tables[r])
    BY DEF OnlyLastHasDevices
  <1> DEFINE m == Len(tables[r])
  <1>1. ids \in [Pod -> SUBSET Dev] /\ count[r] \in Counts /\ tables[r] = Built(count[r], {})
    BY DEF Init
  <1>2. m = 0 \/ m = 1
    BY <1>1, BuiltType
  <1> HIDE DEF m
  <1>3. \A i \in 1 .. m : i = m
    BY <1>2
  <1> QED
    BY <1>3 DEF m

(* Whoever holds a table with devices holds the stored one: what it writes  *)
(* is seen by the next bind call.                                           *)
THEOREM HoldersSeen == Spec => []HoldsStored
  <1>1. OnlyLastHasDevices => HoldsStored
    BY DEF OnlyLastHasDevices, HoldsStored
  <1>2. TypeOK /\ OnlyLastHasDevices /\ [Next]_vars => TypeOK' /\ OnlyLastHasDevices'
    BY NextType, NextLast
  <1> QED
    BY <1>1, <1>2, InitType, InitLast, PTL DEF Spec
-----------------------------------------------------------------------------
(* Exclusive allocation by one replica.                                     *)

\* p has GPUs that the worker has not given back
Held(r, p) == ids[p] # {} /\ ~(view[r][p] = "gone" /\ p \notin todo[r])

\* between the choice of the GPUs and the entry in the table: under Policy.rwmu
InFlight(p) == call[p].pc \in {"commit", "mark"}

PodLife(r, p) ==
  /\ pod[p] = "new" => ids[p] = {}
  /\ pod[p] = "bound" => ids[p] # {}
  /\ view[r][p] = "gone" => pod[p] = "gone"
  /\ p \in todo[r] => view[r][p] = "gone"
  /\ call[p].pc = "mark" => ids[p] = call[p].ids

Life(r) ==
  /\ \A p \in Pod : PodLife(r, p)
  /\ worker[r].pc = "remove" => worker[r].pod \in todo[r]
  /\ \A p, q \in Pod : InFlight(p) /\ InFlight(q) => p = q

\* the stored table has the GPUs of p, as far as it has devices for them
Entered(r, p) ==
  /\ tables[r] # << >> /\ Stored(r).count > 0
  /\ call[p].pc # "mark" => ids[p] \intersect Devices(Stored(r).count) \subseteq Stored(r).used

Apart(r, p) ==
  \A q \in Pod \ {p} : /\ Held(r, q) => ids[p] \intersect ids[q] = {}
                       /\ InFlight(q) => ids[p] \intersect call[q].ids = {}

\* no GPU has two owners, and none that has one can be chosen
Safe(r) == \A p \in Pod : Held(r, p) => Entered(r, p) /\ Apart(r, p)

One(r) == Replica = {r} /\ TypeOK /\ OnlyLastHasDevices /\ Life(r)

LEMMA OneFacts ==
  ASSUME NEW r, One(r)
  PROVE  /\ r \in Replica /\ tables[r] \in Seq(Tables) /\ Len(tables[r]) \in Nat
         /\ \A p \in Pod : call[p].pc # "idle" => call[p].at = r
         /\ \A i \in 1 .. Len(tables[r]) : tables[r][i] \in Tables
         /\ \A i \in 1 .. Len(tables[r]) : tables[r][i].count > 0 => i = Len(tables[r])
  <1>1. r \in Replica /\ tables[r] \in Seq(Tables) /\ Len(tables[r]) \in Nat
    BY DEF One, TypeOK, TablesOK
  <1>2. \A p \in Pod : call[p].pc # "idle" => call[p].at = r
    BY DEF One, TypeOK, CallOK
  <1>3. \A i \in 1 .. Len(tables[r]) : tables[r][i] \in Tables
    BY <1>1, ElementOfSeq
  <1> QED
    BY <1>1, <1>2, <1>3 DEF One, OnlyLastHasDevices

\* the GPUs of a call are devices of the stored table
LEMMA ChosenOfStored ==
  ASSUME NEW r, One(r), NEW p \in Pod, call[p].pc \in {"lock", "commit", "mark"},
         NEW S, S # {}, S \subseteq Devices(tables[r][call[p].table].count)
  PROVE  /\ call[p].at = r /\ call[p].table = Len(tables[r])
         /\ tables[r] # << >> /\ Stored(r).count > 0
  <1>1. call[p].at = r /\ call[p].table \in 1 .. Len(tables[r])
    BY OneFacts DEF One, TypeOK, CallOK
  <1>2. tables[r][call[p].table].count > 0
    <2>1. tables[r][call[p].table].count \in Nat
      BY <1>1, OneFacts, CountsDevices DEF Tables
    <2>2. PICK d : d \in Devices(tables[r][call[p].table].count)
      OBVIOUS
    <2> QED
      BY <2>1, <2>2 DEF Devices
  <1>3. call[p].table = Len(tables[r])
    BY <1>1, <1>2, OneFacts
  <1>4. tables[r] # << >>
    BY <1>1, OneFacts
  <1> QED
    BY <1>1, <1>2, <1>3, <1>4 DEF Stored

(* How a pod lives.                                                         *)

\* nothing that Life speaks of changes for p
LEMMA SamePodLife ==
  ASSUME NEW r, NEW p \in Pod, PodLife(r, p),
         pod'[p] = pod[p], ids'[p] = ids[p], view'[r][p] = view[r][p],
         p \in todo'[r] => p \in todo[r],
         call'[p].pc = "mark" => call[p].pc = "mark" /\ call'[p].ids = call[p].ids
  PROVE  PodLife(r, p)'
  BY DEF PodLife

LEMMA ClusterLife ==
  ASSUME NEW r, One(r),
         \/ \E p \in Pod : DeletePod(p)
         \/ \E p \in Pod : Deliver(r, p)
         \/ \E n \in Counts : NodeChange(r, n)
  PROVE  Life(r)'
  <1>1. UNCHANGED <<ids, worker, call>> /\ r \in Replica
    BY OneFacts DEF DeletePod, Deliver, NodeChange, cluster
  <1>2. /\ \A p, q \in Pod : InFlight(p)' /\ InFlight(q)' => p = q
        /\ worker'[r].pc = "remove" => worker'[r].pod \in todo[r]
    BY <1>1 DEF One, Life, InFlight
  <1>3. ASSUME NEW p \in Pod, DeletePod(p) PROVE Life(r)'
    <2>1. ASSUME NEW q \in Pod PROVE PodLife(r, q)'
      BY <1>1, <1>3 DEF One, Life, PodLife, DeletePod, informer, TypeOK
    <2>2. todo' = todo
      BY <1>3 DEF DeletePod
    <2> QED
      BY <1>2, <2>1, <2>2 DEF Life
  <1>4. ASSUME NEW p \in Pod, Deliver(r, p) PROVE Life(r)'
    <2>1. /\ UNCHANGED pod /\ view \in [Replica -> [Pod -> {"new", "bound", "gone"}]]
          /\ todo \in [Replica -> SUBSET Pod]
      BY <1>4 DEF Deliver, cluster, One, TypeOK
    <2> DEFINE v == IF view[r][p] = "new" /\ ids[p] # {} THEN "bound" ELSE pod[p]
    <2>2. /\ view' = [view EXCEPT ![r][p] = v]
          /\ v = "gone" => pod[p] = "gone"
          /\ todo' = IF view'[r][p] = "gone" /\ ids[p] # {}
                     THEN [todo EXCEPT ![r] = @ \union {p}] ELSE todo
      BY <1>4, <2>1 DEF Deliver
    <2>7. PodLife(r, p) /\ (p \in todo[r] => v = "gone")
      BY DEF One, Life, PodLife
    <2> HIDE DEF v
    <2>3. view'[r][p] = v /\ \A q \in Pod \ {p} : view'[r][q] = view[r][q]
      BY <1>1, <2>1, <2>2
    <2>4. /\ todo[r] \subseteq todo'[r] /\ todo'[r] \subseteq todo[r] \union {p}
          /\ v # "gone" => todo'[r] = todo[r]
      BY <1>1, <2>1, <2>2, <2>3
    <2>5. PodLife(r, p)'
      BY <1>1, <2>1, <2>2, <2>3, <2>4, <2>7 DEF PodLife
    <2>6. ASSUME NEW q \in Pod \ {p} PROVE PodLife(r, q)'
      BY <1>1, <2>1, <2>3, <2>4 DEF One, Life, PodLife
    <2> QED
      BY <1>2, <2>4, <2>5, <2>6 DEF Life
  <1>5. ASSUME NEW n \in Counts, NodeChange(r, n) PROVE Life(r)'
    BY <1>1, <1>2, <1>5 DEF One, Life, PodLife, NodeChange, cluster
  <1> QED
    BY <1>3, <1>4, <1>5

LEMMA WorkerLife ==
  ASSUME NEW r, One(r),
         (\E p \in Pod : WorkerTake(r, p)) \/ Worker(r) \/ LookBegins(r) \/ LookTable(r)
  PROVE  Life(r)'
  <1>1. UNCHANGED <<pod, ids, view, call>> /\ r \in Replica
    BY OneFacts
    DEF WorkerTake, Worker, WorkerTable, WorkerAdd, WorkerRemove, Work, LookBegins, LookTable,
        cluster, informer
  <1>2. \A p, q \in Pod : InFlight(p)' /\ InFlight(q)' => p = q
    BY <1>1 DEF One, Life, InFlight
  <1>3. todo'[r] \subseteq todo[r]
    BY <1>1 DEF WorkerTake, Worker, WorkerTable, WorkerAdd, WorkerRemove, LookBegins, LookTable,
                One, TypeOK
  <1>4. \A p \in Pod : PodLife(r, p)'
    BY <1>1, <1>3 DEF One, Life, PodLife
  <1>5. worker'[r].pc = "remove" => worker'[r].pod \in todo'[r]
    <2>1. ASSUME NEW p \in Pod, WorkerTake(r, p)
          PROVE  worker'[r].pc = "remove" => worker'[r].pod \in todo'[r]
      BY <1>1, <2>1 DEF WorkerTake, One, TypeOK
    <2>2. CASE WorkerTable(r)
      BY <1>1, <2>2 DEF WorkerTable, One, TypeOK, Life
    <2>3. CASE WorkerAdd(r) \/ WorkerRemove(r)
      BY <1>1, <2>3 DEF WorkerAdd, WorkerRemove, NoWork, One, TypeOK
    <2>4. CASE LookBegins(r) \/ LookTable(r)
      BY <2>4 DEF LookBegins, LookTable, One, Life
    <2> QED
      BY <2>1, <2>2, <2>3, <2>4 DEF Worker
  <1> QED
    BY <1>2, <1>4, <1>5 DEF Life

LEMMA BindLife ==
  ASSUME NEW r, One(r), NEW p \in Pod, BindRequest(r, p) \/ Bind(p)
  PROVE  Life(r)'
  <1>1. UNCHANGED <<view, todo, worker>> /\ call[p].ids \in SUBSET Dev
    BY DEF BindRequest, Bind, BindTable, BindChoose, BindCommit, BindFails, BindMark, Quiet,
           informer, One, TypeOK
  <1>2. \A q \in Pod \ {p} : call'[q] = call[q] /\ pod'[q] = pod[q] /\ ids'[q] = ids[q]
    BY DEF BindRequest, Bind, BindTable, BindChoose, BindCommit, BindFails, BindMark,
           cluster, One, TypeOK
  <1>3. \A q \in Pod \ {p} : PodLife(r, q)'
    BY <1>1, <1>2 DEF One, Life, PodLife
  <1>4. PodLife(r, p)
    BY DEF One, Life
  <1>5. CASE BindCommit(p)
    <2>1. /\ pod'[p] = "bound" /\ ids'[p] = call[p].ids /\ call'[p].ids = call[p].ids
          /\ pod[p] = "new" /\ call[p].pc = "commit" /\ call'[p].pc = "mark"
      BY <1>5 DEF BindCommit, One, TypeOK
    <2>2. call[p].ids # {}
      BY <2>1 DEF One, TypeOK, CallOK
    <2>3. PodLife(r, p)'
      BY <1>1, <1>4, <2>1, <2>2 DEF PodLife
    <2>4. \A q \in Pod : InFlight(q)' => InFlight(q)
      BY <1>2, <2>1 DEF InFlight
    <2> QED
      BY <1>1, <1>3, <2>3, <2>4 DEF One, Life
  <1>6. CASE BindChoose(p)
    <2>1. call[p].pc = "lock" /\ call[p].at = r
      BY <1>6, OneFacts DEF BindChoose
    <2>2. \A q \in Pod : ~InFlight(q)
      BY <1>6, <2>1, OneFacts DEF BindChoose, Locked, InFlight
    <2>3. UNCHANGED <<pod, ids>> /\ call'[p].pc # "mark"
      <3>1. CASE call' = [call EXCEPT ![p] = NoCall]
        BY <1>6, <3>1 DEF BindChoose, NoCall, cluster, One, TypeOK
      <3>2. ASSUME NEW S, call' = [call EXCEPT ![p] = [@ EXCEPT !.pc = "commit", !.ids = S]]
            PROVE  call'[p].pc # "mark"
        <4> DEFINE c == [call[p] EXCEPT !.pc = "commit", !.ids = S]
        <4>1. call' = [call EXCEPT ![p] = c]
          BY <3>2
        <4>2. c.pc = "commit"
          BY DEF One, TypeOK
        <4> HIDE DEF c
        <4> QED
          BY <4>1, <4>2 DEF One, TypeOK
      <3> QED
        BY <1>6, <3>1, <3>2 DEF BindChoose, cluster
    <2>4. PodLife(r, p)'
      BY <1>1, <1>4, <2>3, SamePodLife
    <2>5. \A q \in Pod : InFlight(q)' => q = p
      BY <1>2, <2>2 DEF InFlight
    <2> QED
      BY <1>1, <1>3, <2>4, <2>5 DEF One, Life
  <1>7. CASE BindRequest(r, p) \/ BindTable(p) \/ BindFails(p) \/ BindMark(p)
    <2>1. UNCHANGED <<pod, ids>>
      BY <1>7 DEF BindRequest, BindTable, BindFails, BindMark, cluster
    <2>2. call'[p].pc \in {"idle", "table", "lock"}
      <3>1. call \in [Pod -> [pc : {"idle", "table", "lock", "commit", "mark"},
                             at : Replica \union {None}, read : Counts \union {0},
                             table : Nat, ids : SUBSET Dev]]
        BY DEF One, TypeOK
      <3>2. CASE BindRequest(r, p)
        <4> DEFINE c == [NoCall EXCEPT !.pc = "table", !.at = r, !.read = count[r]]
        <4>1. c.pc = "table"
          BY DEF NoCall
        <4>2. call' = [call EXCEPT ![p] = c]
          BY <3>2 DEF BindRequest
        <4> HIDE DEF c
        <4> QED
          BY <3>1, <4>1, <4>2
      <3>3. CASE BindTable(p)
        <4> DEFINE c == [call[p] EXCEPT !.pc = "lock", !.table = Len(tables'[call[p].at])]
        <4>1. c.pc = "lock"
          BY <3>1
        <4>2. call' = [call EXCEPT ![p] = c]
          BY <3>3 DEF BindTable
        <4> HIDE DEF c
        <4> QED
          BY <3>1, <4>1, <4>2
      <3>4. CASE BindFails(p) \/ BindMark(p)
        BY <3>1, <3>4 DEF BindFails, BindMark, NoCall
      <3> QED
        BY <1>7, <3>2, <3>3, <3>4
    <2>3. PodLife(r, p)'
      BY <1>1, <1>4, <2>1, <2>2, SamePodLife
    <2>4. \A q \in Pod : InFlight(q)' => InFlight(q)
      BY <1>2, <2>2 DEF InFlight
    <2> QED
      BY <1>1, <1>3, <2>3, <2>4 DEF One, Life
  <1> QED
    BY <1>5, <1>6, <1>7 DEF Bind

LEMMA RestartLife ==
  ASSUME NEW r, One(r), NEW n \in Counts, Restart(r, n)
  PROVE  /\ Life(r)'
         /\ \A p \in Pod : ~InFlight(p)'
  <1>1. \A p \in Pod : call'[p].pc = "idle"
    BY OneFacts DEF Restart, NoCall
  <1>2. /\ UNCHANGED <<pod, ids>> /\ r \in Replica
        /\ view'[r] = pod /\ todo'[r] = {} /\ worker'[r] = NoWork
    BY OneFacts DEF Restart, cluster, One, TypeOK
  <1>3. \A p \in Pod : PodLife(r, p)'
    BY <1>1, <1>2 DEF One, Life, PodLife
  <1> QED
    BY <1>1, <1>2, <1>3 DEF Life, InFlight, NoWork

(* No GPU has two owners.                                                   *)

\* no pod and no call gets GPUs, and the table keeps those of the pods
LEMMA SafeStep ==
  ASSUME NEW r, Safe(r), UNCHANGED ids,
         \A p \in Pod : Held(r, p)' => Held(r, p) /\ Entered(r, p)',
         \A p \in Pod : InFlight(p)' => InFlight(p) /\ call'[p].ids = call[p].ids
  PROVE  Safe(r)'
  <1> SUFFICES ASSUME NEW p \in Pod, Held(r, p)'
               PROVE  Entered(r, p)' /\ Apart(r, p)'
    BY DEF Safe
  <1>1. Held(r, p) /\ Entered(r, p)' /\ Apart(r, p)
    BY DEF Safe
  <1>2. ASSUME NEW q \in Pod \ {p}
        PROVE  /\ Held(r, q)' => ids'[p] \intersect ids'[q] = {}
               /\ InFlight(q)' => ids'[p] \intersect call'[q].ids = {}
    BY <1>1 DEF Apart
  <1> QED
    BY <1>1, <1>2 DEF Apart

\* a table that has devices stays, and nobody comes to hold GPUs
LEMMA SameSafe ==
  ASSUME NEW r, Safe(r), UNCHANGED ids,
         tables[r] # << >> /\ Stored(r).count > 0 => tables'[r] = tables[r],
         \A p \in Pod : Held(r, p)' => Held(r, p),
         \A p \in Pod : call'[p].pc # "mark" => call[p].pc # "mark",
         \A p \in Pod : InFlight(p)' => InFlight(p) /\ call'[p].ids = call[p].ids
  PROVE  Safe(r)'
  <1>1. ASSUME NEW p \in Pod, Held(r, p)' PROVE Entered(r, p)'
    <2>1. Entered(r, p) /\ tables'[r] = tables[r]
      BY <1>1 DEF Safe, Entered
    <2> QED
      BY <2>1 DEF Entered, Stored
  <1> QED
    BY <1>1, SafeStep

LEMMA ClusterSafe ==
  ASSUME NEW r, One(r), Safe(r),
         \/ \E p \in Pod : DeletePod(p)
         \/ \E p \in Pod : Deliver(r, p)
         \/ \E n \in Counts : NodeChange(r, n)
         \/ \E p \in Pod : WorkerTake(r, p)
         \/ LookBegins(r)
  PROVE  Safe(r)'
  <1>1. UNCHANGED <<ids, tables, call>> /\ r \in Replica
    BY OneFacts DEF DeletePod, Deliver, NodeChange, WorkerTake, Work, LookBegins, cluster
  <1>2. \A p \in Pod : Held(r, p)' => Held(r, p)
    <2>1. CASE UNCHANGED <<view, todo>>
      BY <1>1, <2>1 DEF Held
    <2>2. ASSUME NEW p \in Pod, Deliver(r, p), NEW q \in Pod, Held(r, q)'
          PROVE  Held(r, q)
      <3>1. todo \in [Replica -> SUBSET Pod] /\ PodLife(r, q)
        BY DEF One, TypeOK, Life
      <3>2. p # q => view'[r][q] = view[r][q] /\ (q \in todo'[r] => q \in todo[r])
        BY <1>1, <2>2, <3>1 DEF Deliver, One, TypeOK
      <3>3. CASE p # q
        BY <1>1, <2>2, <3>2, <3>3 DEF Held
      <3>4. CASE p = q
        <4>1. view[r][p] # "gone"
          BY <2>2, <3>1, <3>4 DEF Deliver, PodLife
        <4> QED
          BY <1>1, <2>2, <3>4, <4>1 DEF Held
      <3> QED
        BY <3>3, <3>4
    <2> QED
      BY <2>1, <2>2 DEF DeletePod, NodeChange, WorkerTake, Work, LookBegins, informer
  <1> QED
    BY <1>1, <1>2, SameSafe DEF InFlight

\* a GetNodeInfo of the worker, of a look and of a call
LEMMA GetSafe ==
  ASSUME NEW r, One(r), Safe(r),
         WorkerTable(r) \/ LookTable(r) \/ \E p \in Pod : BindTable(p)
  PROVE  Safe(r)'
  <1>1. UNCHANGED <<ids, view, todo>> /\ r \in Replica
    BY OneFacts DEF WorkerTable, Work, LookTable, BindTable, Quiet, cluster, informer
  <1>2. \A p \in Pod : Held(r, p)' => Held(r, p)
    BY <1>1 DEF Held
  <1>3. /\ TablesOK /\ OnlyLastHasDevices
        /\ call \in [Pod -> [pc : {"idle", "table", "lock", "commit", "mark"},
                             at : Replica \union {None}, read : Counts \union {0},
                             table : Nat, ids : SUBSET Dev]]
    BY DEF One, TypeOK
  <1>4. CASE WorkerTable(r) \/ LookTable(r)
    <2>1. UNCHANGED call
      BY <1>4 DEF WorkerTable, Work, LookTable
    <2>2. \E n \in Counts : tables' = [tables EXCEPT ![r] = GetNodeInfo(r, n)]
      BY <1>1, <1>4 DEF WorkerTable, LookTable, One, TypeOK, WorkerOK
    <2>3. tables[r] # << >> /\ Stored(r).count > 0 => tables'[r] = tables[r]
      BY <1>1, <1>3, <2>2, GetsLast
    <2> QED
      BY <1>1, <1>2, <2>1, <2>3, SameSafe DEF InFlight
  <1>5. ASSUME NEW p \in Pod, BindTable(p) PROVE Safe(r)'
    <2>1. call[p].pc = "table" /\ call[p].at = r /\ call[p].read \in Counts
      BY <1>5, OneFacts DEF BindTable, One, TypeOK, CallOK
    <2>2. tables' = [tables EXCEPT ![r] = GetNodeInfo(r, call[p].read)]
      BY <1>5, <2>1 DEF BindTable
    <2>3. tables[r] # << >> /\ Stored(r).count > 0 => tables'[r] = tables[r]
      BY <1>1, <1>3, <2>1, <2>2, GetsLast
    <2> DEFINE c == [call[p] EXCEPT !.pc = "lock", !.table = Len(tables'[call[p].at])]
    <2>4. c.pc = "lock" /\ call' = [call EXCEPT ![p] = c]
      BY <1>3, <1>5 DEF BindTable
    <2> HIDE DEF c
    <2>5. \A q \in Pod : /\ call'[q].pc # "mark" => call[q].pc # "mark"
                         /\ InFlight(q)' => InFlight(q) /\ call'[q].ids = call[q].ids
      BY <1>3, <2>1, <2>4 DEF InFlight
    <2> QED
      BY <1>1, <1>2, <2>3, <2>5, SameSafe
  <1> QED
    BY <1>4, <1>5

LEMMA EndsSafe ==
  ASSUME NEW r, One(r), Safe(r), NEW p \in Pod, BindRequest(r, p) \/ BindFails(p)
  PROVE  Safe(r)'
  <1>1. UNCHANGED <<ids, view, todo, tables>>
    BY DEF BindRequest, BindFails, Quiet, cluster, informer
  <1>2. call \in [Pod -> [pc : {"idle", "table", "lock", "commit", "mark"},
                         at : Replica \union {None}, read : Counts \union {0},
                         table : Nat, ids : SUBSET Dev]]
    BY DEF One, TypeOK
  <1>3. \A q \in Pod : /\ call'[q].pc # "mark" => call[q].pc # "mark"
                       /\ InFlight(q)' => InFlight(q) /\ call'[q].ids = call[q].ids
    <2>1. CASE BindRequest(r, p)
      <3> DEFINE c == [NoCall EXCEPT !.pc = "table", !.at = r, !.read = count[r]]
      <3>1. c.pc = "table" /\ call' = [call EXCEPT ![p] = c] /\ call[p].pc = "idle"
        BY <2>1 DEF BindRequest, NoCall
      <3> HIDE DEF c
      <3> QED
        BY <1>2, <3>1 DEF InFlight
    <2>2. CASE BindFails(p)
      BY <1>2, <2>2 DEF InFlight, BindFails, NoCall
    <2> QED
      BY <2>1, <2>2
  <1> QED
    BY <1>1, <1>3, SameSafe DEF Held

LEMMA WriteStored ==
  ASSUME NEW r, One(r), tables[r] # << >>, NEW i \in 1 .. Len(tables[r]),
         NEW used \in SUBSET Devices(tables[r][i].count), Write(r, i, used)
  PROVE  /\ tables'[r] # << >> /\ Stored(r)'.count = Stored(r).count
         /\ i = Len(tables[r]) => Stored(r)'.used = used
         /\ i # Len(tables[r]) => Stored(r)'.used = Stored(r).used
  <1>1. TablesOK /\ r \in Replica /\ Len(tables[r]) \in Nat
    BY OneFacts DEF One, TypeOK
  <1>2. /\ Len(tables'[r]) = Len(tables[r]) /\ Longer(tables[r], tables'[r])
        /\ tables'[r][i].used = used
        /\ \A j \in 1 .. Len(tables[r]) : j # i => tables'[r][j] = tables[r][j]
        /\ tables' \in [Replica -> Seq(Tables)]
    BY <1>1, WriteKeeps
  <1>3. Len(tables[r]) \in 1 .. Len(tables[r])
    BY <1>1
  <1>4. tables'[r] # << >>
    BY <1>1, <1>2, <1>3
  <1> QED
    BY <1>2, <1>3, <1>4 DEF Stored, Longer

LEMMA WorkerSafe ==
  ASSUME NEW r, One(r), Safe(r), WorkerAdd(r) \/ WorkerRemove(r)
  PROVE  Safe(r)'
  <1> DEFINE i == worker[r].table
             p == worker[r].pod
             freed == IF worker[r].pc = "remove" THEN ids[p] ELSE {}
  <1>1. UNCHANGED <<ids, view, call>> /\ r \in Replica /\ TypeOK
    BY OneFacts DEF WorkerAdd, WorkerRemove, Work, cluster, informer, One
  <1>2. /\ p \in Pod /\ i \in 1 .. Len(tables[r])
        /\ \E used \in SUBSET Devices(tables[r][i].count) :
              Write(r, i, used) /\ tables[r][i].used \ freed \subseteq used
    BY <1>1, WorkerWrites
  <1>3. PICK used \in SUBSET Devices(tables[r][i].count) :
              Write(r, i, used) /\ tables[r][i].used \ freed \subseteq used
    BY <1>2
  <1>4. worker[r].pc = "remove" => p \in todo[r] /\ view[r][p] = "gone" /\ todo'[r] = todo[r] \ {p}
    BY <1>1, <1>2 DEF One, Life, PodLife, WorkerAdd, WorkerRemove, TypeOK
  <1>5. worker[r].pc # "remove" => UNCHANGED todo
    BY DEF WorkerAdd, WorkerRemove
  <1>6. ASSUME NEW q \in Pod, Held(r, q)' PROVE Held(r, q) /\ ids[q] \intersect freed = {}
    <2>1. CASE worker[r].pc # "remove"
      BY <1>1, <1>5, <1>6, <2>1 DEF Held
    <2>2. CASE worker[r].pc = "remove"
      <3>1. q # p /\ Held(r, q)
        BY <1>1, <1>4, <1>6, <2>2 DEF Held
      <3>2. freed = {} \/ Held(r, p)
        BY <1>4, <2>2 DEF Held
      <3> QED
        BY <1>2, <3>1, <3>2 DEF Safe, Apart
    <2> QED
      BY <2>1, <2>2
  <1> HIDE DEF i, freed
  <1>7. ASSUME NEW q \in Pod, Held(r, q)' PROVE Entered(r, q)'
    <2>1. Held(r, q) /\ ids[q] \intersect freed = {} /\ Entered(r, q)
      BY <1>6, <1>7 DEF Safe
    <2>2. /\ tables'[r] # << >> /\ Stored(r)'.count = Stored(r).count
          /\ i = Len(tables[r]) => Stored(r)'.used = used
          /\ i # Len(tables[r]) => Stored(r)'.used = Stored(r).used
      BY <1>2, <1>3, <2>1, WriteStored DEF Entered
    <2>3. i = Len(tables[r]) => Stored(r).used \ freed \subseteq used
      BY <1>3 DEF Stored
    <2> QED
      BY <1>1, <2>1, <2>2, <2>3 DEF Entered
  <1> QED
    BY <1>1, <1>6, <1>7, SafeStep DEF InFlight

LEMMA MarkSafe ==
  ASSUME NEW r, One(r), Safe(r), NEW p \in Pod, BindMark(p)
  PROVE  Safe(r)'
  <1> DEFINE i == call[p].table
             used == tables[r][i].used \union call[p].ids
  <1>1. UNCHANGED <<ids, view, todo>> /\ r \in Replica /\ TypeOK
    BY OneFacts DEF BindMark, Quiet, cluster, informer, One
  <1>2. call[p].pc = "mark" /\ call[p].at = r /\ ids[p] = call[p].ids
    BY OneFacts DEF BindMark, One, Life, PodLife
  <1>3. /\ i \in 1 .. Len(tables[r]) /\ used \in SUBSET Devices(tables[r][i].count)
        /\ Write(r, i, used)
    BY <1>1, <1>2, MarkWrites
  <1>4. i = Len(tables[r]) /\ tables[r] # << >>
    <2>1. call[p].ids # {} /\ call[p].ids \subseteq Devices(tables[r][i].count)
      BY <1>1, <1>2 DEF TypeOK, CallOK
    <2> QED
      BY <1>2, <2>1, ChosenOfStored
  <1> HIDE DEF used
  <1>5. tables'[r] # << >> /\ Stored(r)'.count = Stored(r).count /\ Stored(r)'.used = used
    BY <1>3, <1>4, WriteStored
  <1>6. Stored(r).used \union ids[p] \subseteq used
    BY <1>2, <1>4 DEF used, Stored
  <1>7. call' = [call EXCEPT ![p] = NoCall]
    BY DEF BindMark
  <1>8. \A q \in Pod \ {p} : call'[q] = call[q]
    BY <1>1, <1>7 DEF TypeOK
  <1>9. call'[p].pc = "idle"
    BY <1>1, <1>7 DEF TypeOK, NoCall
  <1>10. ASSUME NEW q \in Pod, Held(r, q)' PROVE Held(r, q) /\ Entered(r, q)'
    <2>1. Held(r, q) /\ Entered(r, q)
      BY <1>1, <1>10 DEF Held, Safe
    <2> QED
      BY <1>1, <1>5, <1>6, <1>8, <2>1 DEF Entered
  <1> QED
    BY <1>1, <1>8, <1>9, <1>10, SafeStep DEF InFlight

\* the GPUs that a call gets are of no pod
LEMMA ChooseSafe ==
  ASSUME NEW r, One(r), Safe(r), NEW p \in Pod, BindChoose(p)
  PROVE  Safe(r)'
  <1>1. UNCHANGED <<ids, view, todo, tables>> /\ TypeOK
    BY DEF BindChoose, Quiet, cluster, informer, One
  <1>2. call[p].pc = "lock" /\ call[p].at = r
    BY OneFacts DEF BindChoose
  <1>3. \A q \in Pod : ~InFlight(q)
    BY <1>2, OneFacts DEF BindChoose, Locked, InFlight
  <1>4. \A q \in Pod \ {p} : call'[q] = call[q]
    BY <1>1 DEF BindChoose, TypeOK
  <1>5. \A q \in Pod : Held(r, q)' <=> Held(r, q)
    BY <1>1 DEF Held
  <1>6. \A q \in Pod : Held(r, q) => Entered(r, q)'
    BY <1>1, <1>3 DEF Safe, Entered, Stored, InFlight
  <1>7. CASE call' = [call EXCEPT ![p] = NoCall]
    <2>1. call'[p].pc = "idle"
      BY <1>1, <1>7 DEF TypeOK, NoCall
    <2>2. \A q \in Pod : ~InFlight(q)'
      BY <1>3, <1>4, <2>1 DEF InFlight
    <2> QED
      BY <1>1, <1>5, <1>6, <2>2, SafeStep
  <1>8. ASSUME NEW S \in Possible(p),
               call' = [call EXCEPT ![p] = [@ EXCEPT !.pc = "commit", !.ids = S]]
        PROVE  Safe(r)'
    <2> DEFINE c == [call[p] EXCEPT !.pc = "commit", !.ids = S]
               table == tables[r][call[p].table]
    <2>1. call'[p].ids = S
      <3>1. c.ids = S /\ call' = [call EXCEPT ![p] = c]
        BY <1>1, <1>8 DEF TypeOK
      <3> HIDE DEF c
      <3> QED
        BY <1>1, <3>1 DEF TypeOK
    <2>2. S \subseteq Devices(table.count) \ table.used /\ S # {}
      BY <1>2, FS_EmptySet, ReqAssumption DEF Possible
    <2>3. table = Stored(r)
      BY <1>2, <2>2, ChosenOfStored DEF Stored
    <2> HIDE DEF table
    <2>4. \A q \in Pod : Held(r, q) => ids[q] \intersect S = {}
      BY <1>3, <2>2, <2>3 DEF Safe, Entered, InFlight
    <2>5. ASSUME NEW q \in Pod, Held(r, q) PROVE Apart(r, q)'
      <3>1. Apart(r, q)
        BY <2>5 DEF Safe
      <3>2. ASSUME NEW o \in Pod \ {q}
            PROVE  /\ Held(r, o)' => ids'[q] \intersect ids'[o] = {}
                   /\ InFlight(o)' => ids'[q] \intersect call'[o].ids = {}
        <4>1. Held(r, o)' => ids'[q] \intersect ids'[o] = {}
          BY <1>1, <1>5, <3>1 DEF Apart
        <4>2. InFlight(o)' => o = p
          BY <1>3, <1>4 DEF InFlight
        <4> QED
          BY <1>1, <2>1, <2>4, <2>5, <4>1, <4>2
      <3> QED
        BY <3>2 DEF Apart
    <2> QED
      BY <1>5, <1>6, <2>5 DEF Safe
  <1> QED
    BY <1>7, <1>8 DEF BindChoose

\* p comes to hold what its call has chosen
LEMMA CommitSafe ==
  ASSUME NEW r, One(r), Safe(r), NEW p \in Pod, BindCommit(p)
  PROVE  Safe(r)'
  <1> DEFINE S == call[p].ids
  <1>1. UNCHANGED <<view, todo, tables>> /\ TypeOK
    BY DEF BindCommit, Quiet, informer, One
  <1>2. /\ InFlight(p) /\ ids[p] = {}
        /\ \A q \in Pod \ {p} : ~InFlight(q)
    BY DEF BindCommit, InFlight, One, Life, PodLife
  <1>3. tables[r] # << >> /\ Stored(r).count > 0
    <2>1. call[p].pc = "commit" /\ call[p].at = r
      BY OneFacts DEF BindCommit
    <2>2. S # {} /\ S \subseteq Devices(tables[r][call[p].table].count)
      BY <1>1, <2>1 DEF TypeOK, CallOK
    <2> QED
      BY <2>1, <2>2, ChosenOfStored
  <1>4. /\ ids'[p] = S /\ \A q \in Pod \ {p} : ids'[q] = ids[q]
        /\ call'[p].pc = "mark" /\ call'[p].ids = S
        /\ \A q \in Pod \ {p} : call'[q] = call[q]
    BY <1>1 DEF BindCommit, TypeOK
  <1> HIDE DEF S
  <1>5. \A q \in Pod \ {p} : Held(r, q) => ids[q] \intersect S = {}
    BY <1>2 DEF Safe, Apart, S
  <1>6. \A q \in Pod \ {p} : (Held(r, q)' <=> Held(r, q)) /\ ~InFlight(q)'
    BY <1>1, <1>2, <1>4 DEF Held, InFlight
  <1>7. Entered(r, p)' /\ Apart(r, p)'
    BY <1>1, <1>3, <1>4, <1>5, <1>6 DEF Entered, Stored, Apart
  <1>8. ASSUME NEW q \in Pod \ {p}, Held(r, q)' PROVE Entered(r, q)' /\ Apart(r, q)'
    <2>1. Held(r, q) /\ Entered(r, q) /\ Apart(r, q)
      BY <1>6, <1>8 DEF Safe
    <2>2. Entered(r, q)'
      BY <1>1, <1>4, <2>1 DEF Entered, Stored
    <2>3. ASSUME NEW o \in Pod \ {q}
          PROVE  /\ Held(r, o)' => ids'[q] \intersect ids'[o] = {}
                 /\ InFlight(o)' => ids'[q] \intersect call'[o].ids = {}
      <3>1. CASE o = p
        BY <1>4, <1>5, <2>1, <3>1
      <3>2. CASE o # p
        BY <1>4, <1>6, <2>1, <3>2 DEF Apart
      <3> QED
        BY <3>1, <3>2
    <2> QED
      BY <2>2, <2>3 DEF Apart
  <1> QED
    BY <1>7, <1>8 DEF Safe

\* BuildCache enters the pods that run, and only these hold GPUs now
LEMMA RestartSafe ==
  ASSUME NEW r, One(r), Safe(r), NEW n \in Counts, Restart(r, n), ~blind'
  PROVE  Safe(r)'
  <1>1. UNCHANGED <<pod, ids>> /\ r \in Replica /\ TypeOK
    BY OneFacts DEF Restart, cluster, One
  <1>2. view'[r] = pod /\ todo'[r] = {} /\ tables'[r] = Built(n, Running)
    BY <1>1 DEF Restart, TypeOK, TablesOK
  <1>3. n = 0 => Running = {}
    BY DEF Restart
  <1>4. \A p \in Pod : ~InFlight(p)'
    BY RestartLife
  <1>5. ASSUME NEW p \in Pod, Held(r, p)' PROVE p \in Running /\ Held(r, p)
    <2>1. PodLife(r, p) /\ pod[p] \in {"new", "bound", "gone"}
      BY <1>1 DEF One, Life, TypeOK
    <2> QED
      BY <1>1, <1>2, <1>5, <2>1 DEF Held, PodLife, Running
  <1>6. ASSUME NEW p \in Pod, Held(r, p)' PROVE Entered(r, p)'
    <2>1. n > 0 /\ Running # {} /\ p \in Running /\ n \in Nat
      BY <1>3, <1>5, <1>6, CountsDevices
    <2> DEFINE t == Built(n, Running)
               taken == Devices(n) \intersect UNION {ids[q] : q \in Running}
    <2>2. Running \in SUBSET Pod /\ ids \in [Pod -> SUBSET Dev]
      BY <1>1 DEF Running, TypeOK
    <2>3. t # << >> /\ Len(t) = 1 /\ t[1].count = n /\ t[1].used = taken
      BY <2>1, <2>2, BuiltType
    <2>4. ids[p] \intersect Devices(n) \subseteq taken
      BY <2>1
    <2> HIDE DEF t, taken
    <2>5. tables'[r] = t
      BY <1>2 DEF t
    <2> QED
      BY <1>1, <2>1, <2>3, <2>4, <2>5 DEF Entered, Stored
  <1>7. ASSUME NEW p \in Pod, Held(r, p)' PROVE Apart(r, p)'
    <2>1. Apart(r, p)
      BY <1>5, <1>7 DEF Safe
    <2>2. ASSUME NEW q \in Pod \ {p}, Held(r, q)' PROVE ids'[p] \intersect ids'[q] = {}
      BY <1>1, <1>5, <2>1, <2>2 DEF Apart
    <2> QED
      BY <1>4, <2>2 DEF Apart
  <1> QED
    BY <1>6, <1>7 DEF Safe

LEMMA OneNext ==
  ASSUME NEW r, One(r), [Next]_vars
  PROVE  One(r)'
  <1>1. Replica = {r} /\ TypeOK' /\ OnlyLastHasDevices'
    BY NextType, NextLast DEF One
  <1>2. CASE UNCHANGED vars
    BY <1>1, <1>2 DEF vars, cluster, informer, One, Life, PodLife, InFlight
  <1>3. ASSUME NEW p \in Pod, DeletePod(p) \/ Bind(p) PROVE Life(r)'
    BY <1>3, ClusterLife, BindLife
  <1>4. ASSUME NEW p \in Pod, Deliver(r, p) \/ WorkerTake(r, p) \/ BindRequest(r, p)
        PROVE  Life(r)'
    BY <1>4, ClusterLife, WorkerLife, BindLife
  <1>5. ASSUME Worker(r) \/ LookBegins(r) \/ LookTable(r) PROVE Life(r)'
    BY <1>5, WorkerLife
  <1>6. ASSUME NEW n \in Counts, NodeChange(r, n) \/ Restart(r, n) PROVE Life(r)'
    BY <1>6, ClusterLife, RestartLife
  <1>7. CASE Next
    <2>1. Life(r)'
      BY <1>1, <1>3, <1>4, <1>5, <1>6, <1>7 DEF Next
    <2> QED
      BY <1>1, <2>1 DEF One
  <1> QED
    BY <1>2, <1>7

LEMMA SafeNext ==
  ASSUME NEW r, One(r), ~blind => Safe(r), [Next]_vars, ~blind'
  PROVE  Safe(r)'
  <1>1. Safe(r) /\ Replica = {r}
    BY DEF One, Next, vars, bounds, DeletePod, Bind, BindTable, BindChoose, BindCommit, BindFails,
           BindMark, Quiet, Deliver, WorkerTake, Work, BindRequest, Worker, WorkerTable, WorkerAdd,
           WorkerRemove, LookBegins, LookTable, NodeChange, Restart
  <1>2. CASE UNCHANGED vars
    BY <1>1, <1>2 DEF vars, cluster, informer, Safe, Held, Entered, Stored, Apart, InFlight
  <1>3. ASSUME NEW p \in Pod, DeletePod(p) \/ Bind(p) PROVE Safe(r)'
    BY <1>1, <1>3, ClusterSafe, GetSafe, ChooseSafe, CommitSafe, EndsSafe, MarkSafe DEF Bind
  <1>4. ASSUME NEW p \in Pod, Deliver(r, p) \/ WorkerTake(r, p) \/ BindRequest(r, p)
        PROVE  Safe(r)'
    BY <1>1, <1>4, ClusterSafe, EndsSafe
  <1>5. CASE Worker(r) \/ LookBegins(r) \/ LookTable(r)
    BY <1>1, <1>5, GetSafe, WorkerSafe, ClusterSafe DEF Worker
  <1>6. ASSUME NEW n \in Counts, NodeChange(r, n) \/ Restart(r, n) PROVE Safe(r)'
    BY <1>1, <1>6, ClusterSafe, RestartSafe
  <1> QED
    BY <1>1, <1>2, <1>3, <1>4, <1>5, <1>6 DEF Next

(* One replica never gives a GPU to two pods, however many pods, devices,   *)
(* changes of their number and restarts there are, as long as it is not     *)
(* restarted blind.                                                         *)
THEOREM Exclusive ==
  ASSUME NEW CONSTANT r, Replica = {r}
  PROVE  Spec => []ExclusiveUnlessBlind
  <1> DEFINE IInv == One(r) /\ (~blind => Safe(r))
  <1>1. Init => IInv
    <2> SUFFICES ASSUME Init PROVE IInv
      OBVIOUS
    <2>1. TypeOK /\ OnlyLastHasDevices
      BY InitType, InitLast
    <2>2. \A p \in Pod : ids[p] = {} /\ pod[p] = "new" /\ call[p].pc = "idle"
      BY DEF Init, NoCall
    <2>3. view[r] = pod /\ todo[r] = {} /\ worker[r].pc = "idle"
      BY DEF Init, NoWork
    <2>4. Life(r)
      BY <2>2, <2>3 DEF Life, PodLife, InFlight
    <2> QED
      BY <2>1, <2>2, <2>4 DEF One, Safe, Held
  <1>2. IInv /\ [Next]_vars => IInv'
    BY OneNext, SafeNext
  <1>3. IInv => ExclusiveUnlessBlind
    <2> SUFFICES ASSUME IInv, ~blind, NEW p \in Running, NEW q \in Running, p # q
                 PROVE  ids[p] \intersect ids[q] = {}
      BY DEF ExclusiveUnlessBlind, NoOversubscription
    <2>1. Held(r, p) /\ Held(r, q)
      BY DEF One, Life, PodLife, Held, Running
    <2> QED
      BY <2>1 DEF Safe, Apart, Running
  <1> HIDE DEF IInv
  <1> QED
    BY <1>1, <1>2, <1>3, PTL DEF Spec
=============================================================================
