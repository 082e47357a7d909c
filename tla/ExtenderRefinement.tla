------------------------- MODULE ExtenderRefinement -------------------------
(***************************************************************************)
(* The extender keeps the ledger of GpuLedger.tla: a bind is a grant, the  *)
(* deletion of a pod its retirement, and nothing else is seen outside.     *)
(***************************************************************************)
EXTENDS ExtenderSafetyProofs

\* what a pod object grants to its pod
Shows(o) == IF Live(o) THEN GPUIDs(o) ELSE {}

-----------------------------------------------------------------------------
(* A call chooses as many devices as its pod asks for.                      *)

LEMMA FitsBind ==
  ASSUME FittingPolicy, TypeOK, Calls, ChosenFits, NEW b \in Binder,
         Bind(b) \/ \E p \in Pod : BindRequest(b, p)
  PROVE  ChosenFits'
  <1>1. CallStep(b) /\ \A c \in Binder : c # b => bind'[c] = bind[c]
    BY BindSteps
  <1> SUFFICES bind'[b].pc \in {"update", "reget", "reupdate", "bind"} =>
                 NoGPU \in bind'[b].ids \/ Cardinality(bind'[b].ids) = Req[bind'[b].pod]
    BY <1>1 DEF ChosenFits
  <1>2. CASE CallChooses(b)
    <2>1. bind[b].held.uid = bind[b].pod /\ bind[b].pod \in Pod
      BY <1>2, CallHolder DEF CallChooses, Calls, CallsApart
    <2>2. Free \in SUBSET GPU
      BY DEF Free
    <2> QED
      BY <1>2, <2>1, <2>2 DEF CallChooses, CallGoesTo, FittingPolicy
  <1>3. CASE CallRereads(b) \/ CallWrites(b)
    BY <1>3 DEF CallRereads, CallWrites, CallGoesTo, CallEnds, IdleBind, ChosenFits
  <1>4. CASE \/ CallFails(b) \/ CallHolds(b) \/ CallLocks(b) \/ CallBinds(b)
             \/ \E p \in Pod : CallStarts(b, p)
             \/ \E g \in GPU : CallMarks(b, g)
    BY <1>4 DEF CallFails, CallHolds, CallLocks, CallBinds, CallStarts, CallMarks,
                CallGoesTo, CallEnds, IdleBind
  <1> QED
    BY <1>1, <1>2, <1>3, <1>4 DEF CallStep

LEMMA FitsStep ==
  ASSUME FittingPolicy, TypeOK, Calls, ChosenFits, [Next]_vars
  PROVE  ChosenFits'
  <1>1. CASE CrashRestart
    BY <1>1 DEF CrashRestart, ChosenFits, IdleBind
  <1>2. CASE UNCHANGED bind
    BY <1>2 DEF ChosenFits
  <1>3. CASE Cluster
    BY <1>2, <1>3 DEF Cluster, CreatePod, FinishPod, DeletePod, NodeFlap
  <1>4. CASE Informer
    BY <1>2, <1>4 DEF Informer, Deliver, Relist, Resync, Apply
  <1>5. CASE Handler
    BY <1>2, <1>5 DEF Handler, HandleAdd, HandleUpdate, HandleRecheck, HandleDelete,
                      HandleStore, Handling
  <1>6. CASE Worker
    BY <1>2, <1>6, WorkerSteps
  <1>7. ASSUME NEW k \in Key, WaitingFires(k)
        PROVE  ChosenFits'
    BY <1>2, <1>7 DEF WaitingFires
  <1>8. CASE UNCHANGED vars
    BY <1>2, <1>8, Unchanged
  <1> QED
    BY <1>1, <1>3, <1>4, <1>5, <1>6, <1>7, <1>8, FitsBind DEF Next
-----------------------------------------------------------------------------
(* What a step of the extender is to the ledger.                            *)

LEMMA LedgerInit == Init => Ledger!Init
  <1> SUFFICES ASSUME Init PROVE Ledger!Init
    OBVIOUS
  <1>1. /\ \A k \in Key : ~api[k].node /\ ~api[k].done
        /\ \A p \in born : p \in Pod /\ api[KeyOf[p]].uid = p
    <2>1. /\ \A k \in Key : api[k] = IF \E p \in First : KeyOf[p] = k
                                    THEN NewPod(CHOOSE p \in First : KeyOf[p] = k)
                                    ELSE NoPod
          /\ born = First
      BY DEF Init
    <2>2. \A p : NewPod(p).uid = p /\ ~NewPod(p).node /\ ~NewPod(p).done
      BY DEF NewPod
    <2>3. \A k \in Key : ~api[k].node /\ ~api[k].done
      BY <2>1, <2>2, NoPodIsFresh
    <2>4. ASSUME NEW p \in First
          PROVE  p \in Pod /\ api[KeyOf[p]].uid = p
      <3>1. p \in Pod /\ KeyOf[p] \in Key
        BY FirstAssumption, KeyOfAssumption
      <3>2. PICK q : q = CHOOSE r \in First : KeyOf[r] = KeyOf[p]
        OBVIOUS
      <3>3. q \in First /\ KeyOf[q] = KeyOf[p]
        BY <3>2
      <3>4. q = p
        BY <3>1, <3>3, FirstAssumption
      <3>5. api[KeyOf[p]] = NewPod(q)
        BY <2>1, <3>1, <3>2
      <3> QED
        BY <2>2, <3>1, <3>4, <3>5
    <2> QED
      BY <2>1, <2>3, <2>4
  <1>2. GrantOf = [p \in Pod |-> {}]
    BY <1>1, KeyOfAssumption DEF GrantOf, Granted, Live
  <1>3. Gone = {}
    BY <1>1, KeyOfAssumption DEF Gone
  <1> QED
    BY <1>2, <1>3 DEF Ledger!Init

LEMMA GrantsAreFunctions ==
  /\ GrantOf = [p \in Pod |-> GrantOf[p]]
  /\ GrantOf' = [p \in Pod |-> GrantOf'[p]]
  BY DEF GrantOf

\* an object replaced under its key
LEMMA GrantStored ==
  ASSUME born \subseteq Pod, NEW k \in Key, \A j \in Key : j # k => api'[j] = api[j]
  PROVE  /\ \A p \in Pod : KeyOf[p] # k => GrantOf'[p] = GrantOf[p]
         /\ \A p \in Pod : KeyOf[p] = k =>
              GrantOf'[p] = IF api'[k].uid = p THEN Shows(api'[k]) ELSE {}
         /\ \A p \in born : KeyOf[p] # k => (p \in Gone' <=> p \in born' /\ p \in Gone)
         /\ \A p \in born' : KeyOf[p] = k => (p \in Gone' <=> api'[k].uid # p \/ api'[k].done)
  <1>1. KeyOf \in [Pod -> Key]
    BY KeyOfAssumption
  <1>2. ASSUME NEW p \in Pod
        PROVE  /\ KeyOf[p] # k => GrantOf'[p] = GrantOf[p]
               /\ KeyOf[p] = k =>
                    GrantOf'[p] = IF api'[k].uid = p THEN Shows(api'[k]) ELSE {}
    BY <1>1, <1>2 DEF GrantOf, Granted, Shows, Live
  <1> QED
    BY <1>1, <1>2 DEF Gone

\* a step that leaves the pods alone
LEMMA GrantsSame ==
  ASSUME UNCHANGED <<api, born>>
  PROVE  UNCHANGED <<GrantOf, Gone>>
  BY DEF GrantOf, Gone, Granted, Live

LEMMA LedgerCluster ==
  ASSUME SafeEnv, TypeOK, Exclusion, Cluster
  PROVE  [Ledger!Next]_<<GrantOf, Gone>>
  <1> USE KeyOfAssumption
  <1>1. ASSUME NEW p \in Pod, CreatePod(p)
        PROVE  UNCHANGED <<GrantOf, Gone>>
    <2> DEFINE k == KeyOf[p]
    <2>1. PICK o : o = NewPod(p)
      OBVIOUS
    <2>2. /\ k \in Key /\ api[k] = NoPod /\ p \notin born /\ born' = born \union {p}
          /\ api'[k] = o /\ \A j \in Key : j # k => api'[j] = api[j]
          /\ o.uid = p /\ ~o.done /\ Shows(o) = {}
          /\ born \subseteq Pod
      BY <1>1, <2>1 DEF TypeOK, CreatePod, Store, NewPod, Shows, Live
    <2>3. \A q \in Pod : KeyOf[q] = k => GrantOf[q] = {} /\ (q \in born => q \in Gone)
      <3>1. \A q \in Pod : api[k].uid # q
        BY <2>2, NoPodIsNoObject, NoneAssumption
      <3> QED
        BY <3>1 DEF GrantOf, Gone
    <2> HIDE DEF k
    <2>4. GrantOf' = GrantOf
      <3>1. \A q \in Pod : GrantOf'[q] = GrantOf[q]
        BY <2>2, <2>3, GrantStored
      <3> QED
        BY <3>1, GrantsAreFunctions
    <2>5. /\ \A q \in born : KeyOf[q] # k => (q \in Gone' <=> q \in Gone)
          /\ \A q \in born' : KeyOf[q] = k => (q \in Gone' <=> q # p)
      BY <2>2, GrantStored
    <2>6. Gone' = Gone
      <3>1. Gone \subseteq born /\ Gone' \subseteq born' /\ born \subseteq Pod
        BY DEF Gone, TypeOK
      <3>2. KeyOf[p] = k
        BY DEF k
      <3> QED
        BY <2>2, <2>3, <2>5, <3>1, <3>2
    <2> QED
      BY <2>4, <2>6
  <1>2. ASSUME NEW k \in Key, DeletePod(k)
        PROVE  Ledger!Next
    <2>1. PICK p, o : p = api[k].uid /\ o = NoPod
      OBVIOUS
    <2>2. /\ api'[k] = o /\ \A j \in Key : j # k => api'[j] = api[j]
          /\ born' = born /\ born \subseteq Pod
      BY <1>2, <2>1 DEF DeletePod, Delete, TypeOK
    <2>3. /\ p \in Pod /\ p \in born /\ KeyOf[p] = k /\ ~api[k].done
      <3>1. api[k] # NoPod /\ api[k] \in Ahead(k)
        BY <1>2 DEF DeletePod, Ahead
      <3> QED
        BY <1>2, <2>1, <3>1 DEF TypeOK, Exclusion, Ends, UnderOwnKey,
           Devices, NothingFinished
    <2>4. o.uid \notin Pod /\ Shows(o) = {}
      BY <2>1, NoPodIsNoObject, NoneAssumption, NoPodIsFresh DEF Shows, Live
    <2>5. p \notin Gone /\ \A q \in Pod : KeyOf[q] = k /\ q # p => GrantOf[q] = {}
      BY <2>1, <2>3 DEF Gone, GrantOf
    <2>6. GrantOf' = [GrantOf EXCEPT ![p] = {}]
      <3>1. \A q \in Pod : IF q = p THEN GrantOf'[q] = {} ELSE GrantOf'[q] = GrantOf[q]
        BY <2>2, <2>3, <2>4, <2>5, GrantStored
      <3> QED
        BY <3>1, GrantsAreFunctions
    <2>7. Gone' = Gone \union {p}
      <3>1. Gone \subseteq born /\ Gone' \subseteq born /\ born \subseteq Pod
        BY <2>2 DEF Gone, TypeOK
      <3>2. /\ \A q \in born : KeyOf[q] # k => (q \in Gone' <=> q \in Gone)
            /\ \A q \in born : KeyOf[q] = k => q \in Gone'
        BY <2>2, <2>4, <3>1, GrantStored
      <3>3. \A q \in born : KeyOf[q] = k /\ q # p => q \in Gone
        BY <2>1 DEF Gone
      <3> QED
        BY <2>3, <3>1, <3>2, <3>3
    <2>8. Ledger!Retire(p)
      BY <2>5, <2>6, <2>7 DEF Ledger!Retire
    <2> QED
      BY <2>3, <2>8 DEF Ledger!Next
  <1>3. \A k \in Key : ~FinishPod(k)
    BY DEF FinishPod, SafeEnv
  <1>4. CASE NodeFlap
    BY <1>4, GrantsSame DEF NodeFlap
  <1> QED
    BY <1>1, <1>2, <1>3, <1>4 DEF Cluster

LEMMA SameCardinality == \A S : Ledger!Cardinality(S) = Cardinality(S)
  BY DEF Ledger!Cardinality, Cardinality

LEMMA LedgerBind ==
  ASSUME SafeEnv, TypeOK, Exclusion, ChosenFits, NEW b \in Binder,
         Bind(b) \/ \E p \in Pod : BindRequest(b, p)
  PROVE  [Ledger!Next]_<<GrantOf, Gone>>
  <1> DEFINE k == TheKey(b)
             p == bind[b].pod
  <1>1. CallStep(b) /\ UNCHANGED born /\ born \subseteq Pod
    BY BindSteps DEF TypeOK
  <1>2. CASE UNCHANGED api
    BY <1>1, <1>2, GrantsSame
  <1>3. bind[b].pc # "idle" => k \in Key /\ p \in Pod /\ KeyOf[p] = k
    BY CallHolder DEF TheKey
  <1>4. ASSUME k \in Key, \A j \in Key : j # k => api'[j] = api[j],
               KeyOf[p] = k, p \in Pod, api[k].uid = p, ~api[k].node,
               api'[k].uid = p, api'[k].done = api[k].done
        PROVE  /\ \A q \in Pod : q # p => GrantOf'[q] = GrantOf[q]
               /\ GrantOf'[p] = Shows(api'[k]) /\ GrantOf[p] = {}
               /\ Gone' = Gone
    <2>1. \A q \in Pod : KeyOf[q] = k /\ q # p => GrantOf[q] = {} /\ GrantOf'[q] = {}
      BY <1>1, <1>4, GrantStored DEF GrantOf
    <2>2. \A q \in Pod : KeyOf[q] # k => GrantOf'[q] = GrantOf[q]
      BY <1>1, <1>4, GrantStored
    <2>3. GrantOf'[p] = Shows(api'[k])
      BY <1>1, <1>4, GrantStored
    <2>4. GrantOf[p] = {}
      BY <1>4 DEF GrantOf, Granted, Live
    <2>5. Gone' = Gone
      <3>1. Gone \subseteq born /\ Gone' \subseteq born
        BY <1>1 DEF Gone
      <3>2. \A q \in born : KeyOf[q] # k => (q \in Gone' <=> q \in Gone)
        BY <1>1, <1>4, GrantStored
      <3>3. \A q \in born : KeyOf[q] = k => (q \in Gone' <=> q \in Gone)
        BY <1>1, <1>4 DEF Gone
      <3> QED
        BY <3>1, <3>2, <3>3
    <2> QED
      BY <2>1, <2>2, <2>3, <2>4, <2>5
  <1>5. CASE CallWrites(b)
    <2>1. /\ k \in Key /\ p \in Pod /\ KeyOf[p] = k
          /\ bind[b].pc \in {"update", "reupdate"} /\ api[k] = bind[b].held
          /\ bind[b].held \in Object /\ bind[b].held.uid = p
      BY <1>3, <1>5, CallHolder DEF CallWrites, Exclusion, Calls, CallsApart
    <2>2. api' = [api EXCEPT ![k] = [bind[b].held EXCEPT !.ids = bind[b].ids]]
      BY <1>5 DEF CallWrites, Store
    <2>3. ~api[k].node
      BY <2>1 DEF Exclusion, Calls, NotYetBound
    <2>4. /\ \A j \in Key : j # k => api'[j] = api[j]
          /\ api'[k].uid = p /\ api'[k].done = api[k].done /\ ~api'[k].node
      BY <2>1, <2>2, <2>3 DEF TypeOK, Object
    <2>5. Shows(api'[k]) = {}
      BY <2>4 DEF Shows, Live
    <2> HIDE DEF k, p
    <2>6. \A q \in Pod : GrantOf'[q] = GrantOf[q]
      BY <1>4, <2>1, <2>3, <2>4, <2>5
    <2>7. Gone' = Gone
      BY <1>4, <2>1, <2>3, <2>4
    <2> QED
      BY <2>6, <2>7, GrantsAreFunctions
  <1>6. CASE CallBinds(b)
    <2>1. /\ k \in Key /\ p \in Pod /\ KeyOf[p] = k
          /\ bind[b].pc = "bind" /\ api[k].uid = p /\ ~api[k].node
          /\ bind[b].ids \in SUBSET (GPU \union {NoGPU})
      BY <1>3, <1>6, CallHolder DEF CallBinds, Exclusion, Calls, CallsApart
    <2>2. api' = [api EXCEPT ![k] = [api[k] EXCEPT !.node = TRUE]]
      BY <1>6 DEF CallBinds, Store
    <2>3. api[k] \in Object /\ api[k].ids = bind[b].ids
      BY <2>1, SlotHolds DEF Exclusion, Calls, NotYetBound, TypeOK
    <2>4. /\ \A j \in Key : j # k => api'[j] = api[j]
          /\ api'[k].uid = p /\ api'[k].done = api[k].done /\ api'[k].node
          /\ api'[k].ids = bind[b].ids
      BY <2>1, <2>2, <2>3 DEF TypeOK, Object
    <2>5. ~api[k].done
      BY <2>1 DEF Exclusion, Devices, NothingFinished, Ahead
    <2>6. Shows(api'[k]) = IF NoGPU \in bind[b].ids THEN {} ELSE bind[b].ids
      BY <2>4, <2>5 DEF Shows, Live, GPUIDs
    <2>7. /\ \A q \in Pod : q # p => GrantOf'[q] = GrantOf[q]
          /\ GrantOf'[p] = Shows(api'[k]) /\ GrantOf[p] = {} /\ Gone' = Gone
      BY <1>4, <2>1, <2>4
    <2>8. CASE NoGPU \in bind[b].ids
      <3>1. \A q \in Pod : GrantOf'[q] = GrantOf[q]
        BY <2>6, <2>7, <2>8
      <3> QED
        BY <2>7, <3>1, GrantsAreFunctions
    <2>9. CASE NoGPU \notin bind[b].ids
      <3> DEFINE S == bind[b].ids
      <3>1. S \in SUBSET GPU /\ Cardinality(S) = Req[p]
        BY <2>1, <2>9 DEF ChosenFits
      <3>2. ASSUME NEW q \in Pod, NEW g \in GrantOf[q], g \in S
            PROVE  FALSE
        <4>1. api[KeyOf[q]].uid = q /\ g \in Granted(KeyOf[q]) /\ KeyOf[q] \in Key
          BY <3>2, KeyOfAssumption DEF GrantOf
        <4>2. Reserved(q, g) /\ g \in GPU
          BY <4>1, GrantedIsReserved
        <4>3. \A h \in S \intersect GPU : \A r \in Pod : ~Reserved(r, h)
          BY <2>1 DEF Exclusion, Devices, ChosenFree
        <4> QED
          BY <3>2, <4>2, <4>3
      <3>3. p \notin Gone
        BY <2>1, <2>5 DEF Gone
      <3>4. GrantOf' = [GrantOf EXCEPT ![p] = S]
        BY <2>1, <2>6, <2>7, <2>9, GrantsAreFunctions
      <3>5. \A q \in Pod : GrantOf[q] \cap S = {}
        BY <3>2
      <3>6. Ledger!Grant(p, S)
        BY <2>7, <3>1, <3>3, <3>4, <3>5, SameCardinality DEF Ledger!Grant
      <3> QED
        BY <2>1, <3>1, <3>6 DEF Ledger!Next
    <2> QED
      BY <2>8, <2>9
  <1> QED
    BY <1>1, <1>2, <1>5, <1>6
    DEF CallStep, CallFails, CallHolds, CallLocks, CallChooses, CallRereads,
        CallStarts, CallMarks, BindMark, Quiet

LEMMA LedgerStep ==
  ASSUME SafeEnv, TypeOK, Exclusion, ChosenFits, [Next]_vars
  PROVE  [Ledger!Next]_<<GrantOf, Gone>>
  <1>1. CASE UNCHANGED <<api, born>>
    BY <1>1, GrantsSame
  <1>2. CASE CrashRestart
    BY <1>1, <1>2 DEF CrashRestart, cluster
  <1>3. CASE Informer
    BY <1>1, <1>3, InformerSteps DEF Exclusion
  <1>4. CASE Handler
    BY <1>1, <1>4 DEF Handler, HandleAdd, HandleUpdate, HandleRecheck, HandleDelete,
                      HandleStore, Handling, cluster
  <1>5. CASE Worker
    BY <1>1, <1>5, WorkerSteps
  <1>6. ASSUME NEW k \in Key, WaitingFires(k)
        PROVE  [Ledger!Next]_<<GrantOf, Gone>>
    BY <1>1, <1>6 DEF WaitingFires, cluster
  <1>7. CASE UNCHANGED vars
    BY <1>1, <1>7, Unchanged
  <1> QED
    BY <1>2, <1>3, <1>4, <1>5, <1>6, <1>7, LedgerCluster, LedgerBind DEF Next

(***************************************************************************)
(* The extender implements the ledger: seen from the API server, a pod is  *)
(* granted, in the one step that binds it and once in its life, as many    *)
(* devices as it asks for, none of which a running pod has, and it keeps   *)
(* exactly these until it is deleted (allocate.go:20-86).                  *)
(***************************************************************************)
THEOREM LedgerIsKept ==
  ASSUME SafeEnv, FittingPolicy
  PROVE  Spec => KeepsLedger
  <1>1. Init => Ledger!Init
    BY LedgerInit
  <1>2. TypeOK /\ Exclusion /\ ChosenFits /\ [Next]_vars => [Ledger!Next]_<<GrantOf, Gone>>
    BY LedgerStep
  <1>3. Spec => []ChosenFits
    <2>1. Init => ChosenFits
      BY DEF Init, ChosenFits, IdleBind
    <2>2. TypeOK /\ Exclusion /\ ChosenFits /\ [Next]_vars => ChosenFits'
      BY FitsStep DEF Exclusion
    <2> QED
      BY <2>1, <2>2, TypeCorrect, ExclusionHolds, PTL DEF Spec
  <1> QED
    BY <1>1, <1>2, <1>3, TypeCorrect, ExclusionHolds, PTL
    DEF Spec, KeepsLedger, Ledger!Spec, Ledger!ledger
=============================================================================
