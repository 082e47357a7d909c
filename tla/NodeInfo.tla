------------------------------ MODULE NodeInfo ------------------------------
(***************************************************************************)
(* The device table and the GPU topology of one node (pkg/types), and the  *)
(* goroutines that change them at once.  AddOrUpdatePod and RemovePod hold *)
(* NodeInfo.rwmu while they go through the ids of a pod, changing first    *)
(* the device and then the topology matrix; Policy.Allocate marks devices  *)
(* without that lock and leaves the matrix to the later AddOrUpdatePod.    *)
(* The policies read both without the lock.                                *)
(***************************************************************************)
EXTENDS Integers

CONSTANTS
  GPU,      \* the devices of the node
  Pod,      \* UIDs of the pods
  Caller,   \* goroutines
  None,     \* no goroutine, no pod, no device
  Link,     \* the topology of the node's annotation: [GPU -> [GPU -> Nat]]
  Ids       \* the sets of device indices an annotation may name

ASSUME NoneAssumption == None \notin Caller \union Pod \union GPU
ASSUME LinkAssumption == Link \in [GPU -> [GPU -> Nat]]
ASSUME IdsAssumption  == Ids \subseteq SUBSET Int

VARIABLES
  podMap,     \* DeviceInfo.podMap of each device
  isUsed,     \* DeviceInfo.isUsed of each device
  topology,   \* NodeInfo.gpuTopology
  rwmu,       \* who holds NodeInfo.rwmu
  call        \* what each goroutine is doing

vars == <<podMap, isUsed, topology, rwmu, call>>

Idle == [pc |-> "idle", pod |-> None, rest |-> {}, dev |-> None]

\* NewNodeInfo
Init ==
  /\ podMap = [g \in GPU |-> {}]
  /\ isUsed = [g \in GPU |-> FALSE]
  /\ topology = Link
  /\ rwmu = None
  /\ call = [c \in Caller |-> Idle]
-----------------------------------------------------------------------------
(* Parts of the handlers.                                                   *)

\* DeviceInfo.AddPod and DeviceInfo.RemovePod
DevAddPod(g, p) ==
  /\ podMap' = [podMap EXCEPT ![g] = @ \union {p}]
  /\ isUsed' = [isUsed EXCEPT ![g] = TRUE]

DevRemovePod(g, p) ==
  /\ podMap' = [podMap EXCEPT ![g] = @ \ {p}]
  /\ isUsed' = [isUsed EXCEPT ![g] = FALSE]

\* Topology.ConsumeId and Topology.RecoveryId: the row and the column of g
ConsumeId(t, g) ==
  [i \in GPU |-> [j \in GPU |-> IF g \in {i, j} THEN 0 ELSE t[i][j]]]

\* mutant: only the row is given back
RecoveryId_Row(t, g) ==
  [i \in GPU |-> [j \in GPU |-> IF i = g THEN Link[i][j] ELSE t[i][j]]]

RecoveryId(t, g) ==
  [i \in GPU |-> [j \in GPU |-> IF g \in {i, j} THEN Link[i][j] ELSE t[i][j]]]

Now(c, r) == call' = [call EXCEPT ![c] = r]

\* mutant: the nil device is not looked for
Found_All(ids) == ids

\* an index the node has no device for is passed over
Found(ids) == ids \intersect GPU
-----------------------------------------------------------------------------
(* AddOrUpdatePod and RemovePod: lock, then for each id the device and the  *)
(* matrix, then unlock.                                                     *)

\* mutant: the lock is not taken
Lock_Shared(c) == rwmu' = c

Lock(c) == rwmu = None /\ rwmu' = c

Begin(c, pc, p, ids) ==
  /\ call[c] = Idle
  /\ Lock(c)
  /\ Now(c, [Idle EXCEPT !.pc = pc, !.pod = p, !.rest = Found(ids)])
  /\ UNCHANGED <<podMap, isUsed, topology>>

AddDevice(c, g) ==
  /\ call[c].pc = "add" /\ g \in call[c].rest
  /\ DevAddPod(g, call[c].pod)
  /\ Now(c, [call[c] EXCEPT !.pc = "consume", !.dev = g, !.rest = @ \ {g}])
  /\ UNCHANGED <<topology, rwmu>>

Consume(c) ==
  /\ call[c].pc = "consume"
  /\ topology' = ConsumeId(topology, call[c].dev)
  /\ Now(c, [call[c] EXCEPT !.pc = "add", !.dev = None])
  /\ UNCHANGED <<podMap, isUsed, rwmu>>

RemoveDevice(c, g) ==
  /\ call[c].pc = "remove" /\ g \in call[c].rest
  /\ DevRemovePod(g, call[c].pod)
  /\ Now(c, [call[c] EXCEPT !.pc = "recover", !.dev = g, !.rest = @ \ {g}])
  /\ UNCHANGED <<topology, rwmu>>

Recover(c) ==
  /\ call[c].pc = "recover"
  /\ topology' = RecoveryId(topology, call[c].dev)
  /\ Now(c, [call[c] EXCEPT !.pc = "remove", !.dev = None])
  /\ UNCHANGED <<podMap, isUsed, rwmu>>

End(c) ==
  /\ call[c].pc \in {"add", "remove"} /\ call[c].rest = {}
  /\ rwmu' = None
  /\ Now(c, Idle)
  /\ UNCHANGED <<podMap, isUsed, topology>>
-----------------------------------------------------------------------------
(* The last part of Policy.Allocate.                                        *)

MarkBegin(c, p, ids) ==
  /\ call[c] = Idle
  /\ Now(c, [Idle EXCEPT !.pc = "mark", !.pod = p, !.rest = Found(ids)])
  /\ UNCHANGED <<podMap, isUsed, topology, rwmu>>

Mark(c, g) ==
  /\ call[c].pc = "mark" /\ g \in call[c].rest
  /\ DevAddPod(g, call[c].pod)
  /\ Now(c, [call[c] EXCEPT !.rest = @ \ {g}])
  /\ UNCHANGED <<topology, rwmu>>

MarkEnd(c) ==
  /\ call[c].pc = "mark" /\ call[c].rest = {}
  /\ Now(c, Idle)
  /\ UNCHANGED <<podMap, isUsed, topology, rwmu>>
-----------------------------------------------------------------------------
Step(c) ==
  \/ \E p \in Pod, ids \in Ids : \/ Begin(c, "add", p, ids)
                                 \/ Begin(c, "remove", p, ids)
                                 \/ MarkBegin(c, p, ids)
  \/ \E g \in GPU : AddDevice(c, g) \/ RemoveDevice(c, g) \/ Mark(c, g)
  \/ Consume(c) \/ Recover(c) \/ End(c) \/ MarkEnd(c)

Next == \E c \in Caller : Step(c)

Spec == Init /\ [][Next]_vars
-----------------------------------------------------------------------------
Call == [pc   : {"idle", "add", "consume", "remove", "recover", "mark"},
         pod  : Pod \union {None},
         rest : SUBSET GPU,
         dev  : GPU \union {None}]

TypeOK ==
  /\ podMap \in [GPU -> SUBSET Pod]
  /\ isUsed \in [GPU -> BOOLEAN]
  /\ topology \in [GPU -> [GPU -> Nat]]
  /\ rwmu \in Caller \union {None}
  /\ call \in [Caller -> Call]

Locked(c) == call[c].pc \in {"add", "consume", "remove", "recover"}

\* the device of c has been freed, its links are not yet back
Recovering(g) == \E c \in Caller : call[c].pc = "recover" /\ call[c].dev = g

(***************************************************************************)
(* What the policies score (config.go:12-62, inspect.go) are the links     *)
(* between free devices: between two free devices the matrix holds the     *)
(* node's own link, however the add, remove and mark loops of several pods *)
(* ran into each other, except for a device between the two halves of      *)
(* RemovePod (nodeinfo.go:96-97).                                          *)
(***************************************************************************)
FreePairsKeepLink ==
  \A i, j \in GPU :
    (\A g \in {i, j} : ~isUsed[g] /\ ~Recovering(g)) => topology[i][j] = Link[i][j]

\* the strengthening that makes FreePairsKeepLink inductive: rwmu is held by
\* who is in a loop, a loop has its pod, and a device whose links are about to go is used
LockHeld       == \A c \in Caller : Locked(c) => rwmu = c
ArgsChosen     == \A c \in Caller :
                    /\ call[c].pc # "idle" => call[c].pod \in Pod
                    /\ call[c].pc \in {"consume", "recover"} => call[c].dev \in GPU
ConsumedIsUsed == \A c \in Caller :
                    call[c].pc = "consume" => isUsed[call[c].dev]

IInv == TypeOK /\ LockHeld /\ ArgsChosen /\ ConsumedIsUsed /\ FreePairsKeepLink
=============================================================================
