------------------------------ MODULE Policies ------------------------------
(***************************************************************************)
(* One allocation by a policy runner (pkg/policy): the simple, the         *)
(* best-effort and the static runner count the free devices of a node,     *)
(* look at them one by one and choose.  Policy.rwmu keeps other calls out, *)
(* but not the worker, which marks and releases devices meanwhile.         *)
(*                                                                         *)
(* The best-effort runner is modelled with its enumeration: the partitions *)
(* of the free devices into sets of the requested size, in the order of    *)
(* the code, the devices filled up with the padding -1.                    *)
(***************************************************************************)
EXTENDS Integers, FiniteSets, SequencesExt

CONSTANTS
  N,          \* the node has the devices 0 .. N-1
  Setups,     \* [policy, links, groups]: the -policy flag, the GPU_TOPOLOGY
              \* annotation of the node, and its part of static-node.json
  Requests,   \* numbers of GPUs asked for
  Orders,     \* the orders in which Go may go through the device map
  MaxChanges, \* bound: changes the worker makes during the call
  None        \* no device

Dev    == 0 .. N - 1
NoGPU  == -1
Names  == {"simple", "best_effort", "static"}
Abbrs  == {"PSB", "PIX", "PXB", "PHB", "NODE", "SYS",
           "NV1", "NV2", "NV3", "NV4", "NV5", "NV6"}

ASSUME NAssumption     == N \in Nat \ {0} /\ None \notin Dev
ASSUME BoundAssumption == MaxChanges \in Nat /\ Requests \subseteq Int
ASSUME OrderAssumption ==
  \A o \in Orders : o \in Seq(Dev) /\ IsInjective(o) /\ ToSet(o) = Dev
ASSUME SetupAssumption ==
  \A s \in Setups :
    /\ s.policy \in Names
    /\ \A e \in s.links : e.gpus \subseteq Dev /\ Cardinality(e.gpus) = 2
    /\ DOMAIN s.groups \subseteq Nat
    /\ \A n \in DOMAIN s.groups :
         /\ s.groups[n] \in Seq(SUBSET Int)
         /\ \A i \in DOMAIN s.groups[n] : Cardinality(s.groups[n][i]) = n

VARIABLES
  setup,      \* a member of Setups
  isUsed,     \* DeviceInfo.isUsed of each device
  recovering, \* the device NodeInfo.RemovePod has freed, before RecoveryId
  changes,    \* changes of the worker so far
  pc, req,    \* the call
  order,      \* what it has still to look at
  seen,       \* the free devices it has found, in the order it found them
  answer      \* what it answers

vars == <<setup, isUsed, recovering, changes, pc, req, order, seen, answer>>

Free == {d \in Dev : ~isUsed[d]}

Answer(kind, ids, score) == [kind |-> kind, ids |-> ids, score |-> score]

NoAnswer == Answer("none", {}, 0)
Error    == Answer("error", {}, 0)
Panic    == Answer("panic", {}, 0)
-----------------------------------------------------------------------------
(* Links and scores.                                                        *)

\* abbrGpu: the place of an abbreviation in the order of P2PLinkType
LinkType == [PSB |-> 1, PIX |-> 2, PXB |-> 3, PHB |-> 4, NODE |-> 5, SYS |-> 6,
             NV1 |-> 7, NV2 |-> 8, NV3 |-> 9, NV4 |-> 10, NV5 |-> 11, NV6 |-> 12]

LinkOf(abbr) == IF abbr \in DOMAIN LinkType THEN LinkType[abbr] ELSE 0

\* getOriginGpuTopology: the links of a pair, 0 when the annotation has none
Origin(a, b) ==
  IF \E e \in setup.links : e.gpus = {a, b}
  THEN LinkOf((CHOOSE e \in setup.links : e.gpus = {a, b}).abbr)
  ELSE 0

\* the matrix is nil without an annotation that names a pair
NoTopology == setup.links = {}

\* NodeInfo.gpuTopology between free devices: see FreePairsKeepLink of NodeInfo
Topology(a, b) == IF recovering \in {a, b} THEN 0 ELSE Origin(a, b)

\* calculateGPUPairScore: the switch over the link types
LinkScore(l) == IF l <= 6 THEN 10 * l ELSE 100 * (l - 6)

PairScore(a, b) ==
  IF a # b /\ {a, b} \subseteq Free THEN LinkScore(Topology(a, b)) ELSE 0

\* calculateGPUSetScore: the pairs of a set
SetScore(s) ==
  LET Pairs == {ij \in (DOMAIN s) \X (DOMAIN s) : ij[1] < ij[2]}
  IN  SumFunction([ij \in Pairs |-> PairScore(s[ij[1]], s[ij[2]])])

PartitionScore(p) == SumFunction([i \in DOMAIN p |-> SetScore(p[i])])
-----------------------------------------------------------------------------
(* iterateGPUPartitions.                                                    *)

\* iterateGPUSets: the subsequences of length n of s, in lexicographic order of
\* their places: at each level the next place is any after the last one
GPUSets(s, n) ==
  LET Extend(t) == LET last == IF t = << >> THEN 0 ELSE Last(t)
                   IN  [j \in 1 .. Len(s) - last |-> Append(t, last + j)]
      indices[level \in 0 .. n] ==
        IF level = 0 THEN << << >> >>
        ELSE LET prev == indices[level - 1]
             IN  FlattenSeq([i \in DOMAIN prev |-> Extend(prev[i])])
      places == indices[n]
  IN  [i \in DOMAIN places |-> [j \in 1 .. n |-> s[places[i][j]]]]

\* mutant: a full set of padding is added when none is needed
Padding_Always(n, size) == size - (n % size)

\* gpuSetCopyAndAddPadding: how many -1 it adds to n devices
Padding(n, size) == (size - (n % size)) % size

CountPadding(s) == Cardinality({i \in DOMAIN s : s[i] = NoGPU})

\* mutant: the padding is not kept together
Whole_Any(s, padding) == TRUE

\* a set has all of the padding or none of it
Whole(s, padding) == CountPadding(s) \in {0, padding}

\* the elements of s that are not in the set t
Remaining(s, t) ==
  LET remaining[i \in 0 .. Len(s)] ==
        IF i = 0 THEN << >>
        ELSE IF s[i] \in ToSet(t) THEN remaining[i - 1]
        ELSE Append(remaining[i - 1], s[i])
  IN  remaining[Len(s)]

\* the partitions the callback is called with, in that order; what remains is
\* shorter than a set only where the code panics: "Padding should ensure that
\* his never happens"
Iterations(size, padding) ==
  LET iterate[s \in Seq(Int)] ==
        IF Len(s) <= size THEN << <<s>> >>
        ELSE LET sets == GPUSets(Tail(s), size - 1)
                 Set(i) == <<Head(s)>> \o sets[i]
                 With(t) == LET ps == iterate[Remaining(s, t)]
                            IN  [i \in DOMAIN ps |-> <<t>> \o ps[i]]
             IN  FlattenSeq([i \in DOMAIN sets |->
                               IF Whole(Set(i), padding) THEN With(Set(i)) ELSE << >>])
  IN  iterate

GPUPartitions(devices, size) ==
  LET padding == Padding(Len(devices), size)
  IN  IF size > Len(devices) THEN << >>
      ELSE IF size = 1 THEN [i \in DOMAIN devices |-> << <<devices[i]>> >>]
      ELSE Iterations(size, padding)[devices \o [i \in 1 .. padding |-> NoGPU]]

\* where a sequence of scores is highest first
FirstBest(score) ==
  LET top == Max({score[i] : i \in DOMAIN score})
  IN  Min({i \in DOMAIN score : score[i] = top})

Best(s, score) == s[FirstBest(score)]

\* append moves the sets of a partition to an array twice as long when theirs is
\* full, and else writes into the one they are in: so many of the first of k
\* sets have been moved with the partition, and no later one overwrites them
Kept(k) == 1 + Max({0} \union {c \in {2^e : e \in 0 .. k} : c < k})

\* what a saved partition is in the end: the last one written into its array
Overwritten(ps, i) ==
  LET n == Kept(Len(ps[i]))
  IN  ps[Max({j \in DOMAIN ps : SubSeq(ps[j], 1, n) = SubSeq(ps[i], 1, n)})]
-----------------------------------------------------------------------------
(* What the runners answer when they have looked at the devices.            *)

\* simpleRunner.Allocate
SimpleAnswer == Answer("ids", ToSet(seen), 10)

\* mutant: the first set of the best partition, whatever its score
BestSet_First(p) == p[1]

BestSet(p) == Best(p, [i \in DOMAIN p |-> SetScore(p[i])])

InternalError(ps) == \E i \in DOMAIN ps : Len(Last(ps[i])) < req

\* bestRunner.PreAllocate: a nil matrix is indexed, or no partition scores more
\* than 0 and there is no bestPartition[0], or the best set of what bestPartition
\* has become
BestAnswer ==
  LET ps    == GPUPartitions(seen, req)
      score == [i \in DOMAIN ps |-> PartitionScore(ps[i])]
  IN  IF \/ NoTopology /\ req > 1 /\ Cardinality(ToSet(seen) \cap Free) > 1
         \/ InternalError(ps)
         \/ \A i \in DOMAIN ps : score[i] = 0
      THEN Panic
      ELSE LET s == BestSet(Overwritten(ps, FirstBest(score)))
           IN  Answer("ids", ToSet(s), SetScore(s))

\* which groups of a size in static-node.json staticRunner finds free
Fitting(n) ==
  IF n \in DOMAIN setup.groups
  THEN {i \in DOMAIN setup.groups[n] : setup.groups[n][i] \subseteq ToSet(seen)}
  ELSE {}

\* mutant: the loop stops one size too early
Tried_Early == req .. Len(seen) - 1

\* the sizes it tries: the requested one, then larger ones
Tried == req .. Len(seen) + 1

Lowest(g, n) == {d \in g : Cardinality({e \in g : e < d}) < n}

\* staticRunner.PreAllocate: devices[:req] comes with the error "no is invalid
\* gpu" (or panics, when the worker has marked devices since they were counted)
StaticAnswer ==
  LET sizes == {n \in Tried : Fitting(n) # {}}
      size  == Min(sizes)
  IN  IF sizes = {} THEN Error
      ELSE Answer("ids", Lowest(setup.groups[size][Min(Fitting(size))], req),
                  IF req \in sizes THEN 20 ELSE 15)
-----------------------------------------------------------------------------
Init ==
  /\ setup \in Setups /\ req \in Requests
  /\ isUsed \in [Dev -> BOOLEAN]
  /\ recovering \in Free \union {None}
  /\ changes = 0
  /\ pc = "count" /\ order = << >> /\ seen = << >> /\ answer = NoAnswer

Call    == UNCHANGED <<setup, isUsed, recovering, changes, req>>
Finish(a) == pc' = "answered" /\ answer' = a /\ UNCHANGED <<order, seen>> /\ Call

\* mutant: the loop begins at 1
First_Skips == [i \in 1 .. req - 1 |-> i]

\* the devices that simpleRunner looks at
First == [i \in 1 .. req |-> i - 1]

\* GetAvailableGPUs (its loop in one step); the other runners look at all devices
Count ==
  /\ pc = "count"
  /\ IF req <= 0 \/ req > Cardinality(Free) THEN Finish(Error)
     ELSE /\ pc' = "look"
          /\ order' \in IF setup.policy = "simple" THEN {First} ELSE Orders
          /\ UNCHANGED <<seen, answer>> /\ Call

\* mutant: the devices are not asked whether they are used
Look_All ==
  /\ pc = "look" /\ order # << >>
  /\ order' = Tail(order)
  /\ seen' = Append(seen, Head(order))
  /\ UNCHANGED <<pc, answer>> /\ Call

Look ==
  /\ pc = "look" /\ order # << >>
  /\ order' = Tail(order)
  /\ seen' = IF isUsed[Head(order)] THEN seen ELSE Append(seen, Head(order))
  /\ UNCHANGED <<pc, answer>> /\ Call

\* the scores are sums over many reads; the changes of the worker come before
\* or after them
Choose ==
  /\ pc = "look" /\ order = << >>
  /\ \/ setup.policy = "simple"      /\ Finish(SimpleAnswer)
     \/ setup.policy = "best_effort" /\ Finish(BestAnswer)
     \/ setup.policy = "static"      /\ Finish(StaticAnswer)
-----------------------------------------------------------------------------
(* The worker, meanwhile: see NodeInfo for the two halves of RemovePod.     *)

Change == /\ pc # "answered" /\ changes < MaxChanges
          /\ changes' = changes + 1
          /\ UNCHANGED <<setup, pc, req, order, seen, answer>>

\* mutant: a device can be marked before RemovePod is through with it
WorkerMarks_Unlocked(d) ==
  /\ Change
  /\ ~isUsed[d]
  /\ isUsed' = [isUsed EXCEPT ![d] = TRUE]
  /\ UNCHANGED recovering

WorkerMarks(d) ==
  /\ Change
  /\ recovering = None /\ ~isUsed[d]
  /\ isUsed' = [isUsed EXCEPT ![d] = TRUE]
  /\ UNCHANGED recovering

WorkerFrees(d) ==
  /\ Change
  /\ recovering = None /\ isUsed[d]
  /\ isUsed' = [isUsed EXCEPT ![d] = FALSE]
  /\ recovering' = d

WorkerRecovers ==
  /\ Change
  /\ recovering # None
  /\ recovering' = None
  /\ UNCHANGED isUsed

Next == \/ Count \/ Look \/ Choose \/ WorkerRecovers
        \/ \E d \in Dev : WorkerMarks(d) \/ WorkerFrees(d)

Spec == Init /\ [][Next]_vars
-----------------------------------------------------------------------------
TypeOK ==
  /\ setup \in Setups /\ req \in Requests
  /\ isUsed \in [Dev -> BOOLEAN]
  /\ recovering \in Free \union {None}
  /\ changes \in 0 .. MaxChanges
  /\ pc \in {"count", "look", "answered"}
  /\ order \in Seq(Dev) /\ seen \in Seq(Dev)
  /\ answer \in [kind  : {"none", "ids", "error", "panic"},
                 ids   : SUBSET (Dev \union {NoGPU}),
                 score : Nat]

Devices(a)  == a.ids \ {NoGPU}
Allocated   == pc = "answered" /\ answer.kind = "ids"
Undisturbed == changes = 0 /\ recovering = None

\* the partitions of S into sets of n elements, with at most one smaller set
Partitions(S, n) ==
  LET k      == (Cardinality(S) + n - 1) \div n
      Blocks(f) == {{d \in S : f[d] = c} : c \in 1 .. k}
  IN  {P \in {Blocks(f) : f \in [S -> 1 .. k]} :
         \A B \in P : Cardinality(B) \in {n, Cardinality(S) % n} \ {0}}

(***************************************************************************)
(* iterateGPUPartitions, with its padding, its recursion over what remains *)
(* and its filter on the padding of a set (besteffort_policy.go:102-124),  *)
(* calls back with every partition of the devices into sets of the         *)
(* requested size and one smaller rest, and with none of them twice.       *)
(***************************************************************************)
EnumeratesPartitions ==
  setup.policy = "best_effort" /\ pc = "look" /\ order = << >> /\ req \in 2 .. Len(seen) =>
    LET ps     == GPUPartitions(seen, req)
        Blocks(p) == {ToSet(p[i]) \ {NoGPU} : i \in DOMAIN p}
    IN  /\ {Blocks(ps[i]) : i \in DOMAIN ps} = Partitions(ToSet(seen), req)
        /\ Len(ps) = Cardinality(Partitions(ToSet(seen), req))

(***************************************************************************)
(* Each of these partitions shares all the devices out, in full sets of    *)
(* the requested size, none of them in two sets: the padding, of which a   *)
(* set has all or nothing, leaves no rest that is too short, as            *)
(* besteffort_policy.go:90 says: "Padding should ensure that his never     *)
(* happens".                                                               *)
(***************************************************************************)
SharesOutDevices ==
  setup.policy = "best_effort" /\ pc = "look" /\ order = << >> /\ req \in 2 .. Len(seen) =>
    \A p \in ToSet(GPUPartitions(seen, req)) :
      /\ \A i \in DOMAIN p : Len(p[i]) = req /\ Whole(p[i], Padding(Len(seen), req))
      /\ \A i, j \in DOMAIN p : i # j => ToSet(p[i]) \intersect ToSet(p[j]) = {}
      /\ (UNION {ToSet(p[i]) : i \in DOMAIN p}) \ {NoGPU} = ToSet(seen)

\* the links within a set of devices, scored
Links(S) ==
  MapThenSumSet(LAMBDA e : PairScore(Min(e), Max(e)), {e \in SUBSET S : Cardinality(e) = 2})

(***************************************************************************)
(* besteffort_policy.go:51: "Find the highest scoring GPU set in the       *)
(* highest scoring GPU partition".  The devices are such a set of such a   *)
(* partition, and the score is theirs, while the free devices make at most *)
(* six sets.  From seven on, append may overwrite sets of the saved        *)
(* partition (besteffort_policy.go:97): see AnswersLinked.                 *)
(***************************************************************************)
BestOfABestPartition ==
  setup.policy = "best_effort" /\ Allocated /\ Undisturbed
    /\ Cardinality(Free) <= 6 * req =>
    LET Value(P) == MapThenSumSet(Links, P)
        All      == Partitions(Free, req)
    IN  /\ answer.score = Links(Devices(answer))
        /\ \E P \in All : /\ Devices(answer) \in P
                          /\ \A Q \in All : Value(Q) <= Value(P)
                          /\ \A S \in P : Links(S) <= answer.score

(***************************************************************************)
(* besteffort_policy.go:51 again, for any number of sets.  A partition is  *)
(* saved only when it scores more than 0, so one of its sets does, and so  *)
(* does the "highest scoring GPU set" the policy answers with.             *)
(***************************************************************************)
AnswersLinked ==
  setup.policy = "best_effort" /\ Allocated /\ Undisturbed => answer.score > 0

(***************************************************************************)
(* The best-effort policy fails on a node that has enough free devices     *)
(* exactly when no two of them that could be given together are linked: a  *)
(* request for one device, a node without a topology, or unknown links.  It *)
(* never meets the "Internal error" of besteffort_policy.go:92.            *)
(***************************************************************************)
FailsExactlyUnlinked ==
  setup.policy = "best_effort" /\ pc = "answered" /\ Undisturbed
    /\ req \in 1 .. Cardinality(Free) =>
    (answer.kind = "panic" <=> req = 1 \/ \A a, b \in Free : a # b => Origin(a, b) = 0)

(***************************************************************************)
(* An answer of fewer devices than asked for comes only from the simple    *)
(* policy when one of the first devices is used, and from the best-effort  *)
(* policy when the requested size does not divide the free devices, and    *)
(* then it is the padded set: simple_policy.go:32, besteffort_policy.go:86. *)
(* Nobody compares their number with the request, and the pod is bound all *)
(* the same, although docs/designs/designs.md:82 says "If no GPU is found  *)
(* at the binding time, no binding is performed at this time".             *)
(***************************************************************************)
ShortOnlyWhen ==
  Allocated /\ Undisturbed /\ Cardinality(Devices(answer)) < req =>
    \/ setup.policy = "simple" /\ \E d \in 0 .. req - 1 : isUsed[d]
    \/ /\ setup.policy = "best_effort" /\ NoGPU \in answer.ids
       /\ Cardinality(Free) % req = Cardinality(Devices(answer))

(***************************************************************************)
(* The static policy gives devices of one configured group that is free    *)
(* as a whole, of the smallest size that has one, so a larger group is     *)
(* only broken when no smaller one will do; it refuses only when there is  *)
(* none (staticdgx_policy.go:57-98).                                       *)
(***************************************************************************)
StaticTakesSmallestGroup ==
  setup.policy = "static" /\ pc = "answered" /\ Undisturbed
    /\ req \in 1 .. Cardinality(Free) =>
    LET groups == {g \in UNION {ToSet(setup.groups[n]) : n \in DOMAIN setup.groups} :
                     g \subseteq Free /\ Cardinality(g) >= req}
    IN  IF groups = {} THEN answer.kind = "error"
        ELSE /\ Cardinality(answer.ids) = req
             /\ \E g \in groups : /\ answer.ids \subseteq g
                                  /\ \A h \in groups : Cardinality(g) <= Cardinality(h)

(***************************************************************************)
(* Whatever the worker changes during the call, a policy answers no more   *)
(* devices than asked for, and each was free when the call looked at it or *)
(* has been marked by the worker since: this is what the bind call and the *)
(* proofs about it take for granted of a policy (allocate.go:98).          *)
(***************************************************************************)
AnswersWhatWasFree ==
  Allocated => /\ Cardinality(Devices(answer)) <= req
               /\ Cardinality(Devices(answer) \ Free) <= changes
-----------------------------------------------------------------------------
\* the devices a runner looks at
Looked == IF setup.policy = "simple" THEN 0 .. req - 1 ELSE Dev

(***************************************************************************)
(* The scan of the devices, while the worker changes them: no device is    *)
(* looked at twice, the devices found so far were free, except as many as  *)
(* the worker has marked since, and, if it has changed nothing, they and   *)
(* the free ones among those to come are the free devices the runner looks *)
(* at (simple_policy.go:32, besteffort_policy.go:34-39,                    *)
(* staticdgx_policy.go:52-58).                                             *)
(***************************************************************************)
ScanInv ==
  /\ pc = "count" => seen = << >>
  /\ pc = "look" =>
       /\ req \in 1 .. N
       /\ setup.policy = "simple" => Len(seen) + Len(order) <= req
       /\ IsInjective(seen) /\ IsInjective(order) /\ ToSet(seen) \intersect ToSet(order) = {}
       /\ Cardinality(ToSet(seen) \ Free) <= changes
       /\ changes = 0 =>
            ToSet(seen) \union (ToSet(order) \intersect Free) = Looked \intersect Free
=============================================================================
