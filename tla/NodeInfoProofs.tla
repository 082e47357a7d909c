--------------------------- MODULE NodeInfoProofs ---------------------------
(***************************************************************************)
(* Proofs about NodeInfo.tla: for any devices, topology, pods and number   *)
(* of goroutines, types are kept and free devices keep their links.        *)
(***************************************************************************)
EXTENDS NodeInfo, TLAPS

\* the rows and columns the two matrix operations leave behind
LEMMA ConsumeType ==
  ASSUME NEW t \in [GPU -> [GPU -> Nat]], NEW g \in GPU
  PROVE  ConsumeId(t, g) \in [GPU -> [GPU -> Nat]]
BY DEF ConsumeId

LEMMA RecoveryType ==
  ASSUME NEW t \in [GPU -> [GPU -> Nat]], NEW g \in GPU
  PROVE  RecoveryId(t, g) \in [GPU -> [GPU -> Nat]]
BY LinkAssumption DEF RecoveryId

(* The initial state: nothing is used, the matrix is the node's.            *)
LEMMA InitInv == Init => IInv
<1> SUFFICES ASSUME Init PROVE IInv
  OBVIOUS
<1>1. TypeOK
  BY LinkAssumption DEF Init, TypeOK, Idle, Call
<1>2. \A c \in Caller : call[c].pc = "idle"
  BY DEF Init, Idle
<1>3. LockHeld /\ ArgsChosen /\ ConsumedIsUsed
  BY <1>2 DEF LockHeld, Locked, ArgsChosen, ConsumedIsUsed
<1>4. FreePairsKeepLink
  BY DEF Init, FreePairsKeepLink
<1> QED
  BY <1>1, <1>3, <1>4 DEF IInv

(* Types, whatever the invariant.                                           *)
LEMMA TypeStep == TypeOK /\ ArgsChosen /\ [Next]_vars => TypeOK'
<1> SUFFICES ASSUME TypeOK, ArgsChosen, [Next]_vars PROVE TypeOK'
  OBVIOUS
<1> USE DEF TypeOK
<1>0. CASE UNCHANGED vars
  BY <1>0 DEF vars
<1>1. ASSUME NEW c \in Caller, NEW p \in Pod, NEW ids \in Ids,
             \/ Begin(c, "add", p, ids) \/ Begin(c, "remove", p, ids)
             \/ MarkBegin(c, p, ids)
      PROVE  TypeOK'
  <2>1. \A pc \in {"add", "remove", "mark"} :
          [Idle EXCEPT !.pc = pc, !.pod = p, !.rest = Found(ids)] \in Call
    BY DEF Idle, Call, Found
  <2>2. call' \in [Caller -> Call]
    BY <1>1, <2>1 DEF Begin, MarkBegin, Now
  <2>3. rwmu' \in Caller \union {None}
    BY <1>1 DEF Begin, MarkBegin, Lock
  <2> QED
    BY <1>1, <2>2, <2>3 DEF Begin, MarkBegin
<1>2. ASSUME NEW c \in Caller, NEW g \in GPU, AddDevice(c, g)
      PROVE  TypeOK'
  <2>1. call[c].pod \in Pod
    BY <1>2 DEF AddDevice, ArgsChosen
  <2>2. podMap' \in [GPU -> SUBSET Pod] /\ isUsed' \in [GPU -> BOOLEAN]
    BY <1>2, <2>1 DEF AddDevice, DevAddPod
  <2>3. call' \in [Caller -> Call]
    BY <1>2 DEF AddDevice, Now, Call
  <2> QED
    BY <1>2, <2>2, <2>3 DEF AddDevice
<1>3. ASSUME NEW c \in Caller, NEW g \in GPU, RemoveDevice(c, g)
      PROVE  TypeOK'
  BY <1>3 DEF RemoveDevice, DevRemovePod, Now, Call
<1>4. ASSUME NEW c \in Caller, NEW g \in GPU, Mark(c, g)
      PROVE  TypeOK'
  <2>1. call[c].pod \in Pod
    BY <1>4 DEF Mark, ArgsChosen
  <2>2. podMap' \in [GPU -> SUBSET Pod] /\ isUsed' \in [GPU -> BOOLEAN]
    BY <1>4, <2>1 DEF Mark, DevAddPod
  <2>3. call' \in [Caller -> Call]
    BY <1>4 DEF Mark, Now, Call
  <2> QED
    BY <1>4, <2>2, <2>3 DEF Mark
<1>5. ASSUME NEW c \in Caller, Consume(c)
      PROVE  TypeOK'
  BY <1>5, ConsumeType DEF Consume, Now, Call, ArgsChosen
<1>6. ASSUME NEW c \in Caller, Recover(c)
      PROVE  TypeOK'
  BY <1>6, RecoveryType DEF Recover, Now, Call, ArgsChosen
<1>7. ASSUME NEW c \in Caller, End(c) \/ MarkEnd(c)
      PROVE  TypeOK'
  BY <1>7 DEF End, MarkEnd, Now, Idle, Call
<1> QED
  BY <1>0, <1>1, <1>2, <1>3, <1>4, <1>5, <1>6, <1>7 DEF Next, Step
(* LockHeld: a loop starts by taking rwmu, and only its end gives it back.  *)
LEMMA LockStep ==
  TypeOK /\ LockHeld /\ [Next]_vars => LockHeld'
<1> SUFFICES ASSUME TypeOK, LockHeld, [Next]_vars, NEW d \in Caller, Locked(d)'
             PROVE  rwmu' = d
  BY DEF LockHeld
<1> USE DEF TypeOK, LockHeld, Locked
<1>0. CASE UNCHANGED vars
  BY <1>0 DEF vars
<1>1. ASSUME NEW c \in Caller, NEW p \in Pod, NEW ids \in Ids, NEW pc \in {"add", "remove"},
             Begin(c, pc, p, ids)
      PROVE  rwmu' = d
  <2>1. CASE c = d
    BY <1>1, <2>1 DEF Begin, Lock
  <2>2. CASE c # d
    <3>1. rwmu = d
      BY <1>1, <2>2 DEF Begin, Now
    <3> QED
      BY <1>1, <3>1, NoneAssumption DEF Begin, Lock
  <2> QED
    BY <2>1, <2>2
<1>2. ASSUME NEW c \in Caller, NEW p \in Pod, NEW ids \in Ids, MarkBegin(c, p, ids)
      PROVE  rwmu' = d
  BY <1>2 DEF MarkBegin, Now, Idle
<1>3. ASSUME NEW c \in Caller, NEW g \in GPU, AddDevice(c, g) \/ RemoveDevice(c, g) \/ Mark(c, g)
      PROVE  rwmu' = d
  BY <1>3 DEF AddDevice, RemoveDevice, Mark, Now, Call
<1>4. ASSUME NEW c \in Caller, Consume(c) \/ Recover(c) \/ MarkEnd(c)
      PROVE  rwmu' = d
  BY <1>4 DEF Consume, Recover, MarkEnd, Now, Call, Idle
<1>5. ASSUME NEW c \in Caller, End(c)
      PROVE  rwmu' = d
  <2>1. rwmu = c /\ c # d
    BY <1>5 DEF End, Now, Idle
  <2>2. rwmu = d
    BY <1>5, <2>1 DEF End, Now
  <2> QED
    BY <2>1, <2>2
<1> QED
  BY <1>0, <1>1, <1>2, <1>3, <1>4, <1>5 DEF Next, Step

(* The arguments of a loop: its pod, and the device it is at.              *)
LEMMA ArgsStep == TypeOK /\ ArgsChosen /\ [Next]_vars => ArgsChosen'
<1> SUFFICES ASSUME TypeOK, ArgsChosen, [Next]_vars, NEW d \in Caller
             PROVE  /\ call'[d].pc # "idle" => call'[d].pod \in Pod
                    /\ call'[d].pc \in {"consume", "recover"} => call'[d].dev \in GPU
  BY DEF ArgsChosen
<1> USE DEF TypeOK, ArgsChosen
<1>0. CASE UNCHANGED vars
  BY <1>0 DEF vars
<1>1. ASSUME NEW c \in Caller, NEW p \in Pod, NEW ids \in Ids,
             \/ Begin(c, "add", p, ids) \/ Begin(c, "remove", p, ids)
             \/ MarkBegin(c, p, ids)
      PROVE  /\ call'[d].pc # "idle" => call'[d].pod \in Pod
             /\ call'[d].pc \in {"consume", "recover"} => call'[d].dev \in GPU
  BY <1>1 DEF Begin, MarkBegin, Now, Idle
<1>2. ASSUME NEW c \in Caller, NEW g \in GPU,
             AddDevice(c, g) \/ RemoveDevice(c, g) \/ Mark(c, g)
      PROVE  /\ call'[d].pc # "idle" => call'[d].pod \in Pod
             /\ call'[d].pc \in {"consume", "recover"} => call'[d].dev \in GPU
  <2>1. CASE c = d
    <3>1. call[c].pc # "idle" /\ call'[c].pod = call[c].pod
      BY <1>2 DEF AddDevice, RemoveDevice, Mark, Now, Call
    <3>2. call'[c].pc = "mark" \/ call'[c].dev = g
      <4>1. ASSUME AddDevice(c, g) PROVE call'[c].dev = g
        BY <4>1 DEF AddDevice, Now, Call
      <4>2. ASSUME RemoveDevice(c, g) PROVE call'[c].dev = g
        BY <4>2 DEF RemoveDevice, Now, Call
      <4>3. ASSUME Mark(c, g) PROVE call'[c].pc = "mark"
        BY <4>3 DEF Mark, Now, Call
      <4> QED
        BY <1>2, <4>1, <4>2, <4>3
    <3> QED
      BY <2>1, <3>1, <3>2
  <2>2. CASE c # d
    BY <1>2, <2>2 DEF AddDevice, RemoveDevice, Mark, Now
  <2> QED
    BY <2>1, <2>2
<1>3. ASSUME NEW c \in Caller, Consume(c) \/ Recover(c) \/ End(c) \/ MarkEnd(c)
      PROVE  /\ call'[d].pc # "idle" => call'[d].pod \in Pod
             /\ call'[d].pc \in {"consume", "recover"} => call'[d].dev \in GPU
  <2>1. CASE c = d
    <3>1. ASSUME Consume(c) \/ Recover(c)
          PROVE  /\ call[c].pc # "idle" /\ call'[c].pod = call[c].pod
                 /\ call'[c].pc \in {"add", "remove"}
      BY <3>1 DEF Consume, Recover, Now, Call
    <3>2. ASSUME End(c) \/ MarkEnd(c)
          PROVE  call'[c].pc = "idle"
      BY <3>2 DEF End, MarkEnd, Now, Idle
    <3> QED
      BY <1>3, <2>1, <3>1, <3>2
  <2>2. CASE c # d
    BY <1>3, <2>2 DEF Consume, Recover, End, MarkEnd, Now
  <2> QED
    BY <2>1, <2>2
<1> QED
  BY <1>0, <1>1, <1>2, <1>3 DEF Next, Step

(* A device is used until its links are consumed: only the goroutine that   *)
(* holds rwmu could free it.                                                *)
LEMMA ConsumedStep ==
  TypeOK /\ LockHeld /\ ArgsChosen /\ ConsumedIsUsed /\ [Next]_vars
    => ConsumedIsUsed'
<1> SUFFICES ASSUME TypeOK, LockHeld, ArgsChosen, ConsumedIsUsed, [Next]_vars,
                    NEW d \in Caller, call'[d].pc = "consume"
             PROVE  isUsed'[call'[d].dev]
  BY DEF ConsumedIsUsed
<1> USE DEF TypeOK
<1>0. CASE UNCHANGED vars
  BY <1>0 DEF vars, ConsumedIsUsed
<1>1. ASSUME NEW c \in Caller, NEW p \in Pod, NEW ids \in Ids,
             \/ Begin(c, "add", p, ids) \/ Begin(c, "remove", p, ids)
             \/ MarkBegin(c, p, ids)
      PROVE  isUsed'[call'[d].dev]
  BY <1>1 DEF Begin, MarkBegin, Now, Idle, ConsumedIsUsed
<1>2. ASSUME NEW c \in Caller, NEW g \in GPU, AddDevice(c, g) \/ Mark(c, g)
      PROVE  isUsed'[call'[d].dev]
  <2>1. isUsed' = [isUsed EXCEPT ![g] = TRUE]
    BY <1>2 DEF AddDevice, Mark, DevAddPod
  <2>2. CASE call'[d].dev = g
    BY <2>1, <2>2
  <2>3. CASE call'[d].dev # g
    <3>1. call[d].pc = "consume" /\ call'[d].dev = call[d].dev
      BY <1>2, <2>3 DEF AddDevice, Mark, Now, Call
    <3>2. isUsed[call[d].dev] /\ call[d].dev \in GPU
      BY <3>1 DEF ConsumedIsUsed, ArgsChosen
    <3> QED
      BY <2>1, <3>1, <3>2
  <2> QED
    BY <2>2, <2>3
<1>3. ASSUME NEW c \in Caller, NEW g \in GPU, RemoveDevice(c, g)
      PROVE  isUsed'[call'[d].dev]
  <2>1. c # d /\ call[d].pc = "consume"
    BY <1>3 DEF RemoveDevice, Now, Call
  <2> QED
    BY <1>3, <2>1 DEF RemoveDevice, LockHeld, Locked
<1>4. ASSUME NEW c \in Caller, Consume(c) \/ Recover(c) \/ End(c) \/ MarkEnd(c)
      PROVE  isUsed'[call'[d].dev]
  <2>1. c # d
    <3>1. ASSUME Consume(c) \/ Recover(c)
          PROVE  call'[c].pc \in {"add", "remove"}
      BY <3>1 DEF Consume, Recover, Now, Call
    <3>2. ASSUME End(c) \/ MarkEnd(c)
          PROVE  call'[c].pc = "idle"
      BY <3>2 DEF End, MarkEnd, Now, Idle
    <3> QED
      BY <1>4, <3>1, <3>2
  <2>2. call'[d] = call[d]
    BY <1>4, <2>1 DEF Consume, Recover, End, MarkEnd, Now
  <2> QED
    BY <1>4, <2>2 DEF Consume, Recover, End, MarkEnd, ConsumedIsUsed
<1> QED
  BY <1>0, <1>1, <1>2, <1>3, <1>4 DEF Next, Step

(* The matrix.  A pair that is free after the step either was free before,  *)
(* and the step left its entry alone, or has just been given its links.     *)
LEMMA LinksStep ==
  TypeOK /\ LockHeld /\ ArgsChosen /\ ConsumedIsUsed /\ FreePairsKeepLink /\ [Next]_vars
    => FreePairsKeepLink'
<1> SUFFICES ASSUME TypeOK, LockHeld, ArgsChosen, ConsumedIsUsed, FreePairsKeepLink,
                    [Next]_vars, NEW i \in GPU, NEW j \in GPU,
                    \A g \in {i, j} : ~isUsed'[g] /\ ~Recovering(g)'
             PROVE  topology'[i][j] = Link[i][j]
  BY DEF FreePairsKeepLink
<1> USE DEF TypeOK
<1>a. ASSUME topology' = topology, \A g \in {i, j} : ~isUsed[g] /\ ~Recovering(g)
      PROVE  topology'[i][j] = Link[i][j]
  BY <1>a DEF FreePairsKeepLink
<1>0. CASE UNCHANGED vars
  BY <1>0, <1>a DEF vars, Recovering
<1>1. ASSUME NEW c \in Caller, NEW p \in Pod, NEW ids \in Ids,
             \/ Begin(c, "add", p, ids) \/ Begin(c, "remove", p, ids)
             \/ MarkBegin(c, p, ids)
      PROVE  topology'[i][j] = Link[i][j]
  <2>1. \A g \in {i, j} : ~Recovering(g)
    BY <1>1 DEF Begin, MarkBegin, Now, Idle, Recovering
  <2> QED
    BY <1>1, <1>a, <2>1 DEF Begin, MarkBegin
<1>2. ASSUME NEW c \in Caller, NEW g \in GPU, AddDevice(c, g) \/ Mark(c, g)
      PROVE  topology'[i][j] = Link[i][j]
  <2>1. \A h \in {i, j} : ~Recovering(h)
    BY <1>2 DEF AddDevice, Mark, Now, Call, Recovering
  <2>2. \A h \in {i, j} : ~isUsed[h]
    BY <1>2 DEF AddDevice, Mark, DevAddPod
  <2> QED
    BY <1>2, <1>a, <2>1, <2>2 DEF AddDevice, Mark
<1>3. ASSUME NEW c \in Caller, NEW g \in GPU, RemoveDevice(c, g)
      PROVE  topology'[i][j] = Link[i][j]
  \* the freed device is being recovered: the pair does not contain it
  <2>1. Recovering(g)'
    BY <1>3 DEF RemoveDevice, Now, Call, Recovering
  <2>2. g \notin {i, j}
    BY <2>1
  <2>3. \A h \in {i, j} : ~isUsed[h]
    BY <1>3, <2>2 DEF RemoveDevice, DevRemovePod
  <2>4. \A h \in {i, j} : ~Recovering(h)
    BY <1>3 DEF RemoveDevice, Now, Call, Recovering
  <2> QED
    BY <1>3, <1>a, <2>3, <2>4 DEF RemoveDevice
<1>4. ASSUME NEW c \in Caller, Consume(c)
      PROVE  topology'[i][j] = Link[i][j]
  \* the consumed device is used: the pair does not contain it
  <2>1. /\ call[c].dev \in GPU /\ isUsed[call[c].dev]
        /\ isUsed' = isUsed
    BY <1>4 DEF Consume, ArgsChosen, ConsumedIsUsed
  <2>2. call[c].dev \notin {i, j}
    BY <2>1
  <2>3. \A h \in {i, j} : ~isUsed[h] /\ ~Recovering(h)
    BY <1>4 DEF Consume, Now, Call, Recovering
  <2>4. topology'[i][j] = topology[i][j]
    BY <1>4, <2>2 DEF Consume, ConsumeId
  <2> QED
    BY <2>3, <2>4 DEF FreePairsKeepLink
<1>5. ASSUME NEW c \in Caller, Recover(c)
      PROVE  topology'[i][j] = Link[i][j]
  <2>1. call[c].dev \in GPU
    BY <1>5 DEF Recover, ArgsChosen
  <2>2. CASE call[c].dev \in {i, j}
    BY <1>5, <2>1, <2>2 DEF Recover, RecoveryId
  <2>3. CASE call[c].dev \notin {i, j}
    <3>1. topology'[i][j] = topology[i][j]
      BY <1>5, <2>3 DEF Recover, RecoveryId
    <3>2. \A h \in {i, j} : ~isUsed[h]
      BY <1>5 DEF Recover
    <3>3. \A h \in {i, j} : ~Recovering(h)
      BY <1>5, <2>3 DEF Recover, Now, Call, Recovering
    <3> QED
      BY <3>1, <3>2, <3>3 DEF FreePairsKeepLink
  <2> QED
    BY <2>2, <2>3
<1>6. ASSUME NEW c \in Caller, End(c) \/ MarkEnd(c)
      PROVE  topology'[i][j] = Link[i][j]
  <2>1. \A h \in {i, j} : ~Recovering(h)
    BY <1>6 DEF End, MarkEnd, Now, Idle, Recovering
  <2> QED
    BY <1>6, <1>a, <2>1 DEF End, MarkEnd
<1> QED
  BY <1>0, <1>1, <1>2, <1>3, <1>4, <1>5, <1>6 DEF Next, Step

LEMMA StepInv == IInv /\ [Next]_vars => IInv'
BY TypeStep, LockStep, ArgsStep, ConsumedStep, LinksStep DEF IInv

(***************************************************************************)
(* NodeInfo.rwmu is held by the goroutine that is in a loop, which has the *)
(* pod and the device it is at, and a device stays marked until its links  *)
(* are gone from the matrix, although Policy.Allocate marks devices        *)
(* without the lock (nodeinfo.go:83-130, allocate.go:67-81).               *)
(***************************************************************************)
THEOREM Invariance == Spec => []IInv
BY InitInv, StepInv, PTL DEF Spec

(***************************************************************************)
(* The device table, the matrix and the goroutines of a node keep their    *)
(* types: the loops of nodeinfo.go:83-130 only ever touch devices the node *)
(* has, with the pod they were called for.                                 *)
(***************************************************************************)
THEOREM TypeCorrect == Spec => []TypeOK
<1>1. IInv => TypeOK
  BY DEF IInv
<1> QED
  BY Invariance, <1>1, PTL

(***************************************************************************)
(* Between two free devices the matrix always holds the node's own link,   *)
(* except for a device in the middle of RemovePod: what the policies score *)
(* does not depend on the history of pods.                                 *)
(***************************************************************************)
THEOREM LinksKept == Spec => []FreePairsKeepLink
<1>1. IInv => FreePairsKeepLink
  BY DEF IInv
<1> QED
  BY Invariance, <1>1, PTL
=============================================================================
