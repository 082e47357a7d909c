--------------------------- MODULE ExtenderProofs ---------------------------
(* Proofs about Extender.tla.                                               *)
EXTENDS Extender, FiniteSetTheorems, SequenceTheorems, TLAPS

-----------------------------------------------------------------------------
(* What the helpers return.                                                 *)

LEMMA NoPodIsNoObject ==
  /\ NoPod \notin Object
  /\ NoPod.uid = None /\ NoPod.node = FALSE /\ NoPod.ids = {}
  BY NoneAssumption DEF NoPod, NewPod, Object

LEMMA SlotHolds ==
  ASSUME NEW o \in Slot, o # NoPod \/ o.uid \in Pod \/ o.node
  PROVE  o \in Object /\ o.uid \in Pod /\ KeyOf[o.uid] \in Key
  <1>1. o \in Object
    BY NoPodIsNoObject, NoneAssumption DEF Slot
  <1> QED
    BY <1>1, KeyOfAssumption DEF Object

LEMMA GPUIDsType ==
  ASSUME NEW o \in Slot
  PROVE  GPUIDs(o) \in SUBSET GPU
  BY NoPodIsNoObject DEF Slot, Object, GPUIDs

LEMMA SeqType ==
  ASSUME NEW S, NEW s \in Seq(S), NEW e \in S
  PROVE  /\ Append(s, e) \in Seq(S) /\ Append(s, e) # << >>
         /\ s # << >> => Head(s) \in S /\ Tail(s) \in Seq(S)
  BY AppendProperties, HeadTailProperties

LEMMA QueueType ==
  ASSUME NEW q \in QueueOf(Key), NEW k \in Key
  PROVE  /\ QAdd(q, k) \in QueueOf(Key)
         /\ QDone(q, k) \in QueueOf(Key)
         /\ q.queue # << >> => Head(q.queue) \in Key /\ QGet(q) \in QueueOf(Key)
  <1>1. /\ q = [queue |-> q.queue, dirty |-> q.dirty, processing |-> q.processing]
        /\ q.queue \in Seq(Key)
        /\ q.dirty \in SUBSET Key
        /\ q.processing \in SUBSET Key
    BY DEF QueueOf
  <1>2. Append(q.queue, k) \in Seq(Key)
    BY <1>1
  <1>3. QAdd(q, k) \in QueueOf(Key)
    BY <1>1, <1>2 DEF QueueOf, QAdd
  <1>4. QDone(q, k) \in QueueOf(Key)
    BY <1>1, <1>2 DEF QueueOf, QDone
  <1>5. ASSUME q.queue # << >>
        PROVE  Head(q.queue) \in Key /\ QGet(q) \in QueueOf(Key)
    <2>1. Head(q.queue) \in Key /\ Tail(q.queue) \in Seq(Key)
      BY <1>1, <1>5
    <2> QED
      BY <1>1, <2>1 DEF QueueOf, QGet
  <1> QED
    BY <1>3, <1>4, <1>5

LEMMA FirstQueuesType ==
  ASSUME NEW a \in [Key -> Slot]
  PROVE  FirstQueues(a) \subseteq QueueOf(Key)
  <1> DEFINE K == {k \in Key : a[k] # NoPod}
  <1>1. Cardinality(K) \in Nat
    BY KeyAssumption, FS_Subset, FS_CardinalityType
  <1>2. ASSUME NEW q \in SetToSeqs(K)
        PROVE  q \in Seq(Key)
    <2>1. q \in [1 .. Cardinality(K) -> Key]
      BY DEF SetToSeqs
    <2> HIDE DEF K
    <2> QED
      BY <1>1, <2>1, SeqDef
  <1> SUFFICES ASSUME NEW q \in SetToSeqs(K)
               PROVE  [queue |-> q, dirty |-> K, processing |-> {}] \in QueueOf(Key)
    BY DEF FirstQueues
  <1> QED
    BY <1>2 DEF QueueOf

LEMMA BuiltType ==
  ASSUME NEW a \in [Key -> Slot]
  PROVE  /\ BuiltKnown(a) \subseteq Pod
         /\ BuiltPodMap(a) \in [GPU -> SUBSET Pod]
         /\ BuiltUsed(a) \in [GPU -> BOOLEAN]
  <1>1. \A o \in Listed(a) : o \in Slot /\ o.uid \in Pod
    BY SlotHolds DEF Listed
  <1> QED
    BY <1>1 DEF BuiltKnown, BuiltPodMap, BuiltUsed
-----------------------------------------------------------------------------
(* Type correctness: each action in a lemma of its own.                     *)

LEMMA FaultType ==
  ASSUME TypeOK
  PROVE  /\ \A kind : Fault(kind) => faults' \in 0 .. MaxFaults
         /\ NoFault => faults' \in 0 .. MaxFaults
  BY BoundAssumption DEF TypeOK, Fault, NoFault

LEMMA InitType == Init => TypeOK
  <1> SUFFICES ASSUME Init PROVE TypeOK
    OBVIOUS
  <1>1. api \in [Key -> Slot]
    <2>1. ASSUME NEW k \in Key, \E p \in First : KeyOf[p] = k
          PROVE  NewPod(CHOOSE p \in First : KeyOf[p] = k) \in Slot
      BY <2>1, FirstAssumption DEF NewPod, Slot, Object
    <2> QED
      BY <2>1 DEF Init, Slot
  <1>2. queue \in QueueOf(Key)
    BY <1>1, FirstQueuesType DEF Init
  <1>3. notes \in Seq(Notes)
    BY DEF Init
  <1>4. watch \in [Key -> Seq(Changes)]
    BY DEF Init
  <1>5. worker \in WorkerStates /\ bind \in [Binder -> BindStates]
    BY DEF Init, WorkerStates, BindStates
  <1>6. handler \in [pc : {"idle", "recheck", "store"}, need : BOOLEAN]
    BY DEF Init, IdleHandler
  <1>7. faults \in 0 .. MaxFaults
    BY BoundAssumption DEF Init
  <1> QED
    BY <1>1, <1>2, <1>3, <1>4, <1>5, <1>6, <1>7, FirstAssumption
    DEF Init, TypeOK, Slot, IdleHandler

\* what Store and Delete leave of the types
LEMMA StoreType ==
  ASSUME TypeOK, NEW k \in Key,
         \/ \E o \in Object : Store(k, o)
         \/ api[k] # NoPod /\ Delete(k)
  PROVE  /\ api' \in [Key -> Slot]
         /\ watch' \in [Key -> Seq(Changes)]
  <1>1. PICK c \in Changes, s \in Slot : /\ api' = [api EXCEPT ![k] = s]
                                 /\ watch' = [watch EXCEPT ![k] = Append(@, c)]
    <2>1. CASE \E o \in Object : Store(k, o)
      BY <2>1 DEF Store, Change, Changes, Slot
    <2>2. CASE api[k] # NoPod /\ Delete(k)
      <3>1. api[k] \in Object
        BY <2>2, SlotHolds DEF TypeOK
      <3> QED
        BY <2>2, <3>1 DEF Delete, Change, Changes, Slot
    <2> QED
      BY <2>1, <2>2
  <1>2. Append(watch[k], c) \in Seq(Changes)
    BY SeqType DEF TypeOK
  <1> QED
    BY <1>1, <1>2 DEF TypeOK

LEMMA ClusterType ==
  ASSUME TypeOK, Cluster
  PROVE  TypeOK'
  <1>1. ASSUME NEW p \in Pod, CreatePod(p)
        PROVE  TypeOK'
    <2>1. KeyOf[p] \in Key /\ NewPod(p) \in Object
      BY KeyOfAssumption DEF NewPod, Object
    <2> QED
      BY <1>1, <2>1, StoreType DEF CreatePod, TypeOK, control, cache
  <1>2. ASSUME NEW k \in Key, FinishPod(k)
        PROVE  TypeOK'
    <2>1. api[k] \in Object
      BY <1>2, SlotHolds DEF TypeOK, FinishPod, Live
    <2>2. [api[k] EXCEPT !.done = TRUE] \in Object
      BY <2>1 DEF Object
    <2> QED
      BY <1>2, <2>2, StoreType DEF FinishPod, TypeOK, control, cache
  <1>3. ASSUME NEW k \in Key, DeletePod(k)
        PROVE  TypeOK'
    BY <1>3, StoreType DEF DeletePod, TypeOK, control, cache
  <1>4. CASE NodeFlap
    <2>1. nodeOk' \in BOOLEAN
      BY <1>4 DEF NodeFlap
    <2> QED
      BY <1>4, <2>1, FaultType DEF NodeFlap, TypeOK, informer, control, cache
  <1> QED
    BY <1>1, <1>2, <1>3, <1>4 DEF Cluster


\* what Apply does to the types, given a fit object and notification
LEMMA ApplyType ==
  ASSUME TypeOK, NEW k \in Key, NEW o \in Slot, NEW n \in Notes,
         Apply(k, o, n),
         watch' \in [Key -> Seq(Changes)], faults' \in 0 .. MaxFaults
  PROVE  TypeOK'
  <1>1. notes' \in Seq(Notes) /\ notes' # << >>
    BY SeqType DEF Apply, TypeOK
  <1>2. lister' \in [Key -> Slot]
    BY DEF Apply, TypeOK
  <1> QED
    BY <1>1, <1>2 DEF Apply, TypeOK, cluster, control, cache

LEMMA NoteType ==
  ASSUME TypeOK, NEW k \in Key
  PROVE  /\ \A o \in Object : SetNote(k, o) \in Notes
         /\ \A o \in Object : Note("delete", NoPod, o) \in Notes
         /\ \A o \in Object : Note("update", o, o) \in Notes
  BY DEF SetNote, Note, Notes, TypeOK, Slot

LEMMA InformerType ==
  ASSUME TypeOK, Informer
  PROVE  TypeOK'
  <1>1. ASSUME NEW k \in Key, Deliver(k)
        PROVE  TypeOK'
    <2>1. Head(watch[k]) \in Changes /\ Tail(watch[k]) \in Seq(Changes)
      BY <1>1, HeadTailProperties DEF Deliver, TypeOK
    <2>2. watch' \in [Key -> Seq(Changes)]
      BY <1>1, <2>1 DEF Deliver, TypeOK
    <2>3. Head(watch[k]).obj \in Object
      BY <2>1 DEF Changes
    <2>4. faults' \in 0 .. MaxFaults
      BY <1>1, FaultType DEF Deliver
    <2>5. PICK o \in Slot, n \in Notes : Apply(k, o, n)
      BY <1>1, <2>3, NoteType DEF Deliver, Slot
    <2> QED
      BY <2>2, <2>4, <2>5, ApplyType
  <1>2. ASSUME NEW k \in Key, Relist(k)
        PROVE  TypeOK'
    <2>1. watch' \in [Key -> Seq(Changes)]
      BY <1>2 DEF Relist, TypeOK
    <2>2. faults' \in 0 .. MaxFaults
      BY <1>2, FaultType DEF Relist
    <2>3. CASE api[k] # NoPod
      <3>1. api[k] \in Object
        BY <2>3, SlotHolds DEF TypeOK
      <3> QED
        BY <1>2, <2>1, <2>2, <2>3, <3>1, ApplyType, NoteType DEF Relist, Slot
    <2>4. CASE api[k] = NoPod /\ lister[k] # NoPod
      <3>1. lister[k] \in Object
        BY <2>4, SlotHolds DEF TypeOK
      <3> QED
        BY <1>2, <2>1, <2>2, <2>4, <3>1, ApplyType, NoteType DEF Relist, Slot
    <2>5. CASE api[k] = NoPod /\ lister[k] = NoPod
      BY <1>2, <2>1, <2>2, <2>5 DEF Relist, TypeOK, cluster, control, cache
    <2> QED
      BY <2>3, <2>4, <2>5
  <1>3. ASSUME NEW k \in Key, Resync(k)
        PROVE  TypeOK'
    <2>1. lister[k] \in Object
      BY <1>3, SlotHolds DEF Resync, TypeOK
    <2>2. watch' \in [Key -> Seq(Changes)] /\ faults' \in 0 .. MaxFaults
      BY <1>3, FaultType DEF Resync, TypeOK
    <2> QED
      BY <1>3, <2>1, <2>2, ApplyType, NoteType DEF Resync, Slot
  <1> QED
    BY <1>1, <1>2, <1>3 DEF Informer

LEMMA HandlerStates ==
  ASSUME NEW b \in BOOLEAN
  PROVE  /\ [pc |-> "recheck", need |-> b] \in [pc : {"idle", "recheck", "store"}, need : BOOLEAN]
         /\ [pc |-> "store", need |-> FALSE] \in [pc : {"idle", "recheck", "store"}, need : BOOLEAN]
         /\ IdleHandler \in [pc : {"idle", "recheck", "store"}, need : BOOLEAN]
         /\ IdleHandler.pc = "idle"
  BY DEF IdleHandler

LEMMA HandlerType ==
  ASSUME TypeOK, Handler
  PROVE  TypeOK'
  <1>1. notes # << >>
    BY DEF Handler, HandleAdd, HandleUpdate, HandleRecheck, HandleDelete,
           HandleStore, TypeOK
  <1>2. note \in Notes /\ Tail(notes) \in Seq(Notes)
    BY <1>1, HeadTailProperties DEF note, TypeOK
  <1>3. note.new \in Object /\ NoteKey(note) \in Key
    <2>1. note.new \in Object
      BY <1>2 DEF Notes
    <2> QED
      BY <2>1, KeyOfAssumption DEF NoteKey, Object
  <1>4. queue' \in QueueOf(Key)
    BY <1>3, QueueType
    DEF Handler, HandleAdd, HandleUpdate, HandleRecheck, HandleDelete,
        HandleStore, TypeOK
  <1>5. removed' \in [Key -> Slot]
    BY <1>3
    DEF Handler, HandleAdd, HandleUpdate, HandleRecheck, HandleDelete,
        HandleStore, TypeOK, Slot
  <1>6. /\ handler' \in [pc : {"idle", "recheck", "store"}, need : BOOLEAN]
        /\ notes' \in Seq(Notes)
        /\ handler'.pc # "idle" => notes' # << >>
    <2> DEFINE need == note.old.uid \in known /\ note.new.done
    <2>1. \/ handler' = IdleHandler /\ notes' = Tail(notes)
          \/ handler' = [pc |-> "recheck", need |-> need] /\ notes' = notes
          \/ handler' = [pc |-> "store", need |-> FALSE] /\ notes' = notes
      BY DEF Handler, HandleAdd, HandleUpdate, HandleRecheck, HandleDelete,
             HandleStore, Handling
    <2>2. PICK b \in BOOLEAN : b = need
      BY Zenon
    <2> HIDE DEF need
    <2> QED
      BY <1>1, <1>2, <2>1, <2>2, HandlerStates DEF TypeOK
  <1>7. UNCHANGED <<cluster, watch, lister, waiting, worker, cache, bind, mutex, faults>>
    BY DEF Handler, HandleAdd, HandleUpdate, HandleRecheck, HandleDelete,
           HandleStore, Handling
  <1> QED
    BY <1>4, <1>5, <1>6, <1>7 DEF TypeOK, cluster, cache

\* the kinds of states of the worker
LEMMA WorkerKinds ==
  ASSUME NEW w \in WorkerStates
  PROVE  /\ w.pc = "idle" => w = IdleWorker
         /\ w.pc # "idle" => w.key \in Key
         /\ w.pc \in {"sync", "lookup", "done"} =>
              w = [pc |-> w.pc, key |-> w.key, pod |-> NoPod, rest |-> {}, stored |-> FALSE]
         /\ w.pc \in {"add", "remove"} =>
              /\ w \in [pc : {"add", "remove"}, key : Key, pod : Object,
                        rest : SUBSET GPU, stored : BOOLEAN]
              /\ w.pod.uid \in Pod
  <1>1. CASE w = IdleWorker
    BY <1>1 DEF IdleWorker
  <1>2. CASE w \in [pc : {"sync", "lookup", "done"}, key : Key, pod : {NoPod},
                    rest : {{}}, stored : {FALSE}]
    BY <1>2
  <1>3. CASE w \in [pc : {"add", "remove"}, key : Key, pod : Object,
                    rest : SUBSET GPU, stored : BOOLEAN]
    BY <1>3 DEF Object
  <1> QED
    BY <1>1, <1>2, <1>3 DEF WorkerStates

LEMMA WorkerMakes ==
  ASSUME NEW k \in Key, NEW o \in Object, NEW r \in SUBSET GPU, NEW b \in BOOLEAN
  PROVE  /\ \A pc \in {"sync", "lookup", "done"} :
              [pc |-> pc, key |-> k, pod |-> NoPod, rest |-> {}, stored |-> FALSE]
                \in WorkerStates
         /\ \A pc \in {"add", "remove"} :
              [pc |-> pc, key |-> k, pod |-> o, rest |-> r, stored |-> b]
                \in WorkerStates
  BY DEF WorkerStates

\* of the worker's steps, the state of the goroutine
LEMMA WorkerStateType ==
  ASSUME TypeOK, Worker
  PROVE  worker' \in WorkerStates
  <1>1. /\ worker.pc = "idle" => worker = IdleWorker
        /\ worker.pc # "idle" => worker.key \in Key
        /\ worker.pc \in {"sync", "lookup", "done"} =>
             worker = [pc |-> worker.pc, key |-> worker.key, pod |-> NoPod,
                       rest |-> {}, stored |-> FALSE]
        /\ worker.pc \in {"add", "remove"} =>
             worker \in [pc : {"add", "remove"}, key : Key, pod : Object,
                         rest : SUBSET GPU, stored : BOOLEAN]
    BY WorkerKinds DEF TypeOK
  <1>2. ASSUME worker.pc # "idle", Finished
        PROVE  worker' \in WorkerStates
    BY <1>1, <1>2 DEF Finished, Working, IdleWorker, WorkerStates
  <1>3. ASSUME worker.pc \in {"sync", "lookup"},
               NEW o \in Object, NEW b \in BOOLEAN, Removing(o, b)
        PROVE  worker' \in WorkerStates
    <2>1. PICK r \in SUBSET GPU :
            worker' = [worker EXCEPT !.pc = "remove", !.pod = o, !.stored = b, !.rest = r]
      BY <1>3, GPUIDsType DEF Removing, Working, Slot
    <2>2. worker' = [pc |-> "remove", key |-> worker.key, pod |-> o, rest |-> r, stored |-> b]
      BY <1>1, <1>3, <2>1
    <2> QED
      BY <1>1, <1>3, <2>2, WorkerMakes
  <1>5. CASE WorkerGet
    <2>1. Head(queue.queue) \in Key
      BY <1>5, HeadTailProperties DEF WorkerGet, TypeOK, QueueOf
    <2>2. worker = IdleWorker
      BY <1>1, <1>5 DEF WorkerGet
    <2>3. worker' = [IdleWorker EXCEPT !.pc = "sync", !.key = Head(queue.queue)]
      BY <1>5, <2>2 DEF WorkerGet, Working
    <2>4. worker' = [pc |-> "sync", key |-> Head(queue.queue), pod |-> NoPod,
                     rest |-> {}, stored |-> FALSE]
      BY <2>3 DEF IdleWorker
    <2> QED
      BY <2>1, <2>4 DEF WorkerStates
  <1>6. CASE WorkerSync
    <2> DEFINE o == lister[worker.key]
    <2>1. worker.pc = "sync" /\ worker.key \in Key
      BY <1>1, <1>6 DEF WorkerSync
    <2>2. /\ o \in Slot
          /\ worker = [pc |-> "sync", key |-> worker.key, pod |-> NoPod,
                       rest |-> {}, stored |-> FALSE]
      BY <1>1, <2>1 DEF TypeOK
    <2>3. CASE o = NoPod
      <3>1. ~Live(o)
        BY <2>3, NoPodIsNoObject DEF Live
      <3>2. \/ Working([worker EXCEPT !.pc = "lookup"])
            \/ o # NoPod \/ Live(o)
        BY <1>6, Zenon DEF WorkerSync
      <3>3. PICK k \in Key : worker.key = k
        BY <2>1
      <3>4. worker = [pc |-> "sync", key |-> k, pod |-> NoPod,
                      rest |-> {}, stored |-> FALSE]
        BY <2>2, <3>3
      <3>5. worker' = [worker EXCEPT !.pc = "lookup"]
        BY <2>3, <3>1, <3>2 DEF Working
      <3>6. worker' = [pc |-> "lookup", key |-> k, pod |-> NoPod,
                      rest |-> {}, stored |-> FALSE]
        BY <3>4, <3>5
      <3> QED
        BY <3>6, WorkerMakes DEF WorkerStates
    <2>4. CASE o # NoPod
      <3>1. o \in Object
        BY <2>2, <2>4, SlotHolds
      <3>2. \/ Removing(o, FALSE)
            \/ Working([worker EXCEPT !.pc = "add", !.pod = o, !.rest = GPUIDs(o)])
            \/ Finished
        BY <1>6, <2>4 DEF WorkerSync
      <3>3. GPUIDs(o) \in SUBSET GPU
        BY <2>2, GPUIDsType
      <3>4. CASE Working([worker EXCEPT !.pc = "add", !.pod = o, !.rest = GPUIDs(o)])
        <4>1. PICK r \in SUBSET GPU : r = GPUIDs(o)
          BY <3>3
        <4>2. worker' = [worker EXCEPT !.pc = "add", !.pod = o, !.rest = r]
          BY <3>4, <4>1 DEF Working
        <4> HIDE DEF o
        <4>3. PICK k \in Key : worker.key = k
          BY <2>1
        <4>4. worker = [pc |-> "sync", key |-> k, pod |-> NoPod,
                        rest |-> {}, stored |-> FALSE]
          BY <2>2, <4>3
        <4>5. worker' = [pc |-> "add", key |-> k, pod |-> o,
                         rest |-> r, stored |-> FALSE]
          BY <4>2, <4>4
        <4> QED
          BY <3>1, <4>5, WorkerMakes
      <3> QED
        BY <1>2, <1>3, <2>1, <3>1, <3>2, <3>4
    <2> QED
      BY <2>3, <2>4
  <1>7. CASE WorkerLookup
    <2>1. worker.pc = "lookup" /\ worker.key \in Key
      BY <1>1, <1>7 DEF WorkerLookup
    <2> DEFINE o == removed[worker.key]
    <2>2. o # NoPod => o \in Object
      BY <2>1, SlotHolds DEF TypeOK
    <2>3. Finished \/ (o # NoPod /\ Removing(o, TRUE))
      BY <1>7 DEF WorkerLookup
    <2> HIDE DEF o
    <2> QED
      BY <1>2, <1>3, <2>1, <2>2, <2>3
  <1>8. CASE WorkerRemember \/ WorkerForget
    BY <1>2, <1>8 DEF WorkerRemember, WorkerForget
  <1>9. CASE WorkerDone
    BY <1>9 DEF WorkerDone, Working, WorkerStates
  <1>10. ASSUME NEW g \in GPU, WorkerAddDevice(g) \/ WorkerRemoveDevice(g)
         PROVE  worker' \in WorkerStates
    BY <1>1, <1>10 DEF WorkerAddDevice, WorkerRemoveDevice, Working, WorkerStates
  <1> QED
    BY <1>5, <1>6, <1>7, <1>8, <1>9, <1>10 DEF Worker

LEMMA WorkerType ==
  ASSUME TypeOK, Worker
  PROVE  TypeOK'
  <1>1. worker.pc # "idle" => worker.key \in Key
    BY WorkerKinds DEF TypeOK
  <1>2. worker.pc \in {"add", "remove"} => worker.pod.uid \in Pod
    BY WorkerKinds DEF TypeOK
  <1>3. UNCHANGED <<cluster, informer, handler, bind, mutex, faults>>
    BY DEF Worker, WorkerGet, WorkerSync, WorkerLookup, WorkerRemember, WorkerForget,
           WorkerDone, WorkerAddDevice, WorkerRemoveDevice, Removing, Finished, Working
  <1>4. queue' \in QueueOf(Key)
    <2>1. \/ UNCHANGED queue
          \/ queue.queue # << >> /\ queue' = QGet(queue)
          \/ worker.pc # "idle" /\ queue' = QDone(queue, worker.key)
      BY DEF Worker, WorkerGet, WorkerSync, WorkerLookup, WorkerRemember, WorkerForget,
             WorkerDone, WorkerAddDevice, WorkerRemoveDevice, Finished
    <2>2. CASE queue.queue # << >> /\ queue' = QGet(queue)
      <3>1. Head(queue.queue) \in Key
        BY <2>2, HeadTailProperties DEF TypeOK, QueueOf
      <3> QED
        BY <2>2, <3>1, QueueType DEF TypeOK
    <2> QED
      BY <1>1, <2>1, <2>2, QueueType DEF TypeOK
  <1>5. waiting' \subseteq Key
    BY <1>1 DEF Worker, WorkerGet, WorkerSync, WorkerLookup, WorkerRemember,
       WorkerForget, WorkerDone, WorkerAddDevice, WorkerRemoveDevice, TypeOK
  <1>6. removed' \in [Key -> Slot]
    BY DEF Worker, WorkerGet, WorkerSync, WorkerLookup, WorkerRemember,
       WorkerForget, WorkerDone, WorkerAddDevice, WorkerRemoveDevice, TypeOK, Slot
  <1>7. /\ known' \subseteq Pod
        /\ podMap' \in [GPU -> SUBSET Pod] /\ isUsed' \in [GPU -> BOOLEAN]
    <2>1. \/ UNCHANGED cache
          \/ /\ worker.pc \in {"add", "remove"}
             /\ known' \in {known \union {worker.pod.uid}, known \ {worker.pod.uid}}
             /\ UNCHANGED <<podMap, isUsed>>
          \/ /\ worker.pc \in {"add", "remove"} /\ UNCHANGED known
             /\ \E g \in GPU :
                  /\ podMap' \in {[podMap EXCEPT ![g] = @ \union {worker.pod.uid}],
                                  [podMap EXCEPT ![g] = @ \ {worker.pod.uid}]}
                  /\ isUsed' \in {[isUsed EXCEPT ![g] = TRUE],
                                  [isUsed EXCEPT ![g] = FALSE]}
      BY DEF Worker, WorkerGet, WorkerSync, WorkerLookup, WorkerRemember, WorkerForget,
             WorkerDone, WorkerAddDevice, WorkerRemoveDevice, cache
    <2>2. known \subseteq Pod /\ podMap \in [GPU -> SUBSET Pod]
          /\ isUsed \in [GPU -> BOOLEAN]
      BY DEF TypeOK
    <2>3. CASE UNCHANGED cache
      BY <2>2, <2>3 DEF cache
    <2>4. CASE UNCHANGED <<podMap, isUsed>> /\ worker.pc \in {"add", "remove"}
               /\ known' \in {known \union {worker.pod.uid}, known \ {worker.pod.uid}}
      BY <1>2, <2>2, <2>4
    <2>5. ASSUME NEW g \in GPU, worker.pc \in {"add", "remove"}, UNCHANGED known,
                 podMap' \in {[podMap EXCEPT ![g] = @ \union {worker.pod.uid}],
                             [podMap EXCEPT ![g] = @ \ {worker.pod.uid}]},
                 isUsed' \in {[isUsed EXCEPT ![g] = TRUE], [isUsed EXCEPT ![g] = FALSE]}
          PROVE  /\ known' \subseteq Pod
                 /\ podMap' \in [GPU -> SUBSET Pod] /\ isUsed' \in [GPU -> BOOLEAN]
      <3>1. worker.pod.uid \in Pod
        BY <1>2, <2>5
      <3>2. podMap' \in [GPU -> SUBSET Pod]
        BY <2>2, <2>5, <3>1
      <3>3. isUsed' \in [GPU -> BOOLEAN]
        BY <2>2, <2>5
      <3> QED
        BY <2>2, <2>5, <3>2, <3>3
    <2> QED
      BY <2>1, <2>3, <2>4, <2>5
  <1> QED
    BY <1>3, <1>4, <1>5, <1>6, <1>7, WorkerStateType
    DEF TypeOK, cluster, informer

\* the kinds of states of a bind call
LEMMA BindKinds ==
  ASSUME NEW r \in BindStates
  PROVE  /\ r.pc = "idle" => r = IdleBind
         /\ r.pc = "get" =>
              /\ r = [pc |-> "get", pod |-> r.pod, held |-> NoPod, ids |-> {}, rest |-> {}]
              /\ r.pod \in Pod
         /\ r.pc \notin {"idle", "get"} =>
              r \in [pc : {"lock", "choose", "update", "reget", "reupdate", "bind", "mark"},
                     pod : Pod, held : Object, ids : SUBSET (GPU \union {NoGPU}),
                     rest : SUBSET GPU]
  BY DEF BindStates, IdleBind

\* what Binding, Goto and Answer leave of the types
LEMMA BindingType ==
  ASSUME TypeOK, NEW b \in Binder,
         UNCHANGED mutex \/ mutex' = b \/ mutex' = None,
         \/ \E r \in BindStates : Binding(b, r)
         \/ Answer(b)
  PROVE  /\ bind' \in [Binder -> BindStates]
         /\ mutex' \in Binder \union {None}
         /\ UNCHANGED <<born, nodeOk, lister, notes, handler, queue, waiting,
                        removed, worker, known>>
  BY DEF Binding, Answer, TypeOK, BindStates, control

\* a step of a bind call that leaves the cluster and the devices alone
LEMMA QuietType ==
  ASSUME TypeOK, NEW b \in Binder, Quiet, faults' \in 0 .. MaxFaults,
         \/ /\ (UNCHANGED mutex \/ mutex' = b \/ mutex' = None)
            /\ \E r \in BindStates : Binding(b, r)
         \/ Answer(b)
  PROVE  TypeOK'
  <1>1. UNCHANGED mutex \/ mutex' = b \/ mutex' = None
    BY DEF Answer
  <1> QED
    BY <1>1, BindingType DEF TypeOK, Quiet

LEMMA ApiErrorType ==
  ASSUME TypeOK, NEW b \in Binder, ApiError(b)
  PROVE  TypeOK'
  BY QuietType, FaultType DEF ApiError

\* a step of a bind call that changes a pod object
LEMMA StoredType ==
  ASSUME TypeOK, NEW b \in Binder, NEW k \in Key, NEW o \in Object,
         NEW r \in BindStates, faults' \in 0 .. MaxFaults,
         Store(k, o), UNCHANGED <<podMap, isUsed>>,
         (Binding(b, r) /\ UNCHANGED mutex) \/ Answer(b)
  PROVE  TypeOK'
  <1>1. api' \in [Key -> Slot] /\ watch' \in [Key -> Seq(Changes)]
    BY StoreType
  <1>2. UNCHANGED mutex \/ mutex' = b \/ mutex' = None
    BY DEF Answer
  <1> QED
    BY <1>1, <1>2, BindingType DEF TypeOK

LEMMA HeldState ==
  ASSUME NEW p \in Pod, NEW o \in Object, NEW r,
         r = [pc |-> "get", pod |-> p, held |-> NoPod, ids |-> {}, rest |-> {}]
  PROVE  [r EXCEPT !.pc = "lock", !.held = o] \in BindStates
  <1>1. PICK q : q = [r EXCEPT !.pc = "lock", !.held = o]
    OBVIOUS
  <1>2. q = [pc |-> "lock", pod |-> p, held |-> o, ids |-> {}, rest |-> {}]
    BY <1>1
  <1> QED
    BY <1>1, <1>2 DEF BindStates

LEMMA BindType ==
  ASSUME TypeOK, NEW b \in Binder,
         Bind(b) \/ \E p \in Pod : BindRequest(b, p)
  PROVE  TypeOK'
  <1> DEFINE r == bind[b]
  <1>1. /\ r \in BindStates
        /\ NoFault => faults' \in 0 .. MaxFaults
        /\ \A kind : Fault(kind) => faults' \in 0 .. MaxFaults
    BY FaultType DEF TypeOK
  <1>2. r.pc \notin {"idle", "get"} =>
          r \in [pc : {"lock", "choose", "update", "reget", "reupdate", "bind", "mark"},
                 pod : Pod, held : Object, ids : SUBSET (GPU \union {NoGPU}),
                 rest : SUBSET GPU]
    BY <1>1, BindKinds
  <1>3. r.pc # "idle" => r.pod \in Pod /\ TheKey(b) \in Key
    <2>1. r.pc # "idle" => r.pod \in Pod
      BY <1>1, BindKinds
    <2> QED
      BY <2>1, KeyOfAssumption DEF TheKey
  <1>4. ASSUME NEW p \in Pod, BindRequest(b, p)
        PROVE  TypeOK'
    <2>1. [IdleBind EXCEPT !.pc = "get", !.pod = p] \in BindStates
      BY DEF IdleBind, BindStates
    <2> QED
      BY <1>1, <1>4, <2>1, QuietType DEF BindRequest
  <1>5. CASE BindGetPod(b)
    <2>1. r.pc = "get"
      BY <1>5 DEF BindGetPod
    <2>2. CASE Answer(b) /\ Quiet /\ NoFault
      BY <1>1, <2>2, QuietType
    <2>3. CASE ApiError(b)
      BY <2>3, ApiErrorType
    <2>4. CASE /\ r.pod \in {lister[TheKey(b)].uid, api[TheKey(b)].uid}
               /\ Binding(b, [r EXCEPT !.pc = "lock",
                              !.held = IF lister[TheKey(b)].uid = r.pod
                                       THEN lister[TheKey(b)] ELSE api[TheKey(b)]])
               /\ UNCHANGED mutex /\ Quiet /\ NoFault
      <3>1. PICK o \in Object : o = IF lister[TheKey(b)].uid = r.pod
                                    THEN lister[TheKey(b)] ELSE api[TheKey(b)]
        BY <1>3, <2>1, <2>4, SlotHolds DEF TypeOK
      <3>2. PICK p \in Pod : p = r.pod
        BY <1>3, <2>1
      <3>3. r = [pc |-> "get", pod |-> p, held |-> NoPod, ids |-> {}, rest |-> {}]
        BY <1>1, <2>1, <3>2, BindKinds
      <3>4. Binding(b, [r EXCEPT !.pc = "lock", !.held = o])
        BY <2>4, <3>1
      <3>5. [r EXCEPT !.pc = "lock", !.held = o] \in BindStates
        BY <3>3, HeldState
      <3> QED
        BY <1>1, <2>4, <3>4, <3>5, QuietType
    <2> QED
      BY <1>5, <2>2, <2>3, <2>4 DEF BindGetPod
  <1>6. CASE BindCount(b)
    <2>1. r.pc = "lock" /\ Quiet /\ NoFault
      BY <1>6 DEF BindCount
    <2>2. [r EXCEPT !.pc = "choose"] \in BindStates
      BY <1>2, <2>1 DEF BindStates
    <2> QED
      BY <1>1, <1>6, <2>1, <2>2, QuietType DEF BindCount
  <1>7. CASE BindChoose(b)
    <2>1. r.pc = "choose" /\ Quiet /\ NoFault
      BY <1>7 DEF BindChoose
    <2>2. ASSUME NEW s \in Outcomes(Free, Req[r.held.uid])
          PROVE  [r EXCEPT !.pc = "update", !.ids = s] \in BindStates
      <3>1. Free \in SUBSET GPU /\ r.held.uid \in Pod
        BY <1>2, <2>1 DEF Free, Object
      <3>2. s \in SUBSET (Free \union {NoGPU})
        BY <2>2, <3>1, OutcomesAssumption
      <3>3. s \in SUBSET (GPU \union {NoGPU})
        BY <3>1, <3>2
      <3> QED
        BY <1>2, <2>1, <3>3 DEF BindStates
    <2> QED
      BY <1>1, <1>7, <2>1, <2>2, QuietType DEF BindChoose
  <1>8. CASE BindGetAgain(b)
    <2>1. r.pc = "reget"
      BY <1>8 DEF BindGetAgain
    <2>2. api[TheKey(b)] # NoPod =>
            [r EXCEPT !.pc = "reupdate", !.held = api[TheKey(b)]] \in BindStates
      <3>1. api[TheKey(b)] # NoPod => api[TheKey(b)] \in Object
        BY <1>3, <2>1, SlotHolds DEF TypeOK
      <3> QED
        BY <1>2, <2>1, <3>1 DEF BindStates
    <2> QED
      BY <1>1, <1>8, <2>2, QuietType, ApiErrorType DEF BindGetAgain
  <1>9. CASE BindReply(b)
    BY <1>1, <1>9, QuietType DEF BindReply
  <1>10. CASE BindUpdate(b)
    <2> DEFINE o == [r.held EXCEPT !.ids = r.ids]
    <2>1. r.pc \in {"update", "reupdate"}
      BY <1>10 DEF BindUpdate
    <2>2. o \in Object
      BY <1>2, <2>1 DEF Object
    <2>3. CASE ApiError(b)
      BY <2>3, ApiErrorType
    <2>4. CASE Answer(b) /\ Quiet /\ NoFault
      BY <1>1, <2>4, QuietType
    <2>5. CASE Goto(b, "reget") /\ Quiet /\ NoFault
      <3>1. [r EXCEPT !.pc = "reget"] \in BindStates
        BY <1>2, <2>1 DEF BindStates
      <3> QED
        BY <1>1, <2>5, <3>1, QuietType DEF Goto
    <2>6. CASE /\ Store(TheKey(b), o) /\ UNCHANGED <<podMap, isUsed>>
               /\ \/ /\ Binding(b, [r EXCEPT !.pc = "bind", !.held = o])
                     /\ UNCHANGED mutex /\ NoFault
                  \/ Answer(b) /\ Fault("lost")
      <3>1. [r EXCEPT !.pc = "bind", !.held = o] \in BindStates
        BY <1>2, <2>1, <2>2 DEF BindStates
      <3> QED
        BY <1>1, <1>3, <2>1, <2>2, <2>6, <3>1, StoredType
    <2> QED
      BY <1>10, <2>3, <2>4, <2>5, <2>6 DEF BindUpdate
  <1>11. CASE BindBind(b)
    <2> DEFINE o == [api[TheKey(b)] EXCEPT !.node = TRUE]
    <2>1. r.pc = "bind"
      BY <1>11 DEF BindBind
    <2>2. CASE ApiError(b)
      BY <2>2, ApiErrorType
    <2>3. CASE Answer(b) /\ Quiet /\ NoFault
      BY <1>1, <2>3, QuietType
    <2>4. CASE /\ api[TheKey(b)].uid = r.held.uid
               /\ Store(TheKey(b), o) /\ UNCHANGED <<podMap, isUsed>>
               /\ \/ /\ Binding(b, [r EXCEPT !.pc = "mark", !.rest = r.ids \ {NoGPU}])
                     /\ UNCHANGED mutex /\ NoFault
                  \/ Answer(b) /\ Fault("lost")
      <3>1. r.held.uid \in Pod
        BY <1>2, <2>1 DEF Object
      <3>2. o \in Object
        <4>1. api[TheKey(b)] \in Object
          BY <1>3, <2>1, <2>4, <3>1, SlotHolds DEF TypeOK
        <4> QED
          BY <4>1 DEF Object
      <3>3. r.ids \ {NoGPU} \in SUBSET GPU
        BY <1>2, <2>1
      <3>4. [r EXCEPT !.pc = "mark", !.rest = r.ids \ {NoGPU}] \in BindStates
        BY <1>2, <2>1, <3>3 DEF BindStates
      <3> QED
        BY <1>1, <1>3, <2>1, <2>4, <3>2, <3>4, StoredType
    <2> QED
      BY <1>11, <2>2, <2>3, <2>4 DEF BindBind
  <1>12. ASSUME NEW g \in GPU, BindMark(b, g)
         PROVE  TypeOK'
    <2>1. r.pc = "mark"
      BY <1>12 DEF BindMark
    <2>2. [r EXCEPT !.rest = @ \ {g}] \in BindStates
      BY <1>2, <2>1 DEF BindStates
    <2>3. r.held.uid \in Pod
      BY <1>2, <2>1 DEF Object
    <2>4. podMap' \in [GPU -> SUBSET Pod] /\ isUsed' \in [GPU -> BOOLEAN]
      BY <1>12, <2>3 DEF BindMark, TypeOK
    <2> QED
      BY <1>1, <1>12, <2>2, <2>4, BindingType DEF BindMark, TypeOK
  <1> QED
    BY <1>4, <1>5, <1>6, <1>7, <1>8, <1>9, <1>10, <1>11, <1>12 DEF Bind

LEMMA WaitingType ==
  ASSUME TypeOK, NEW k \in Key, WaitingFires(k)
  PROVE  TypeOK'
  <1>1. queue' \in QueueOf(Key) /\ waiting' \subseteq Key
    BY QueueType DEF WaitingFires, TypeOK
  <1> QED
    BY <1>1 DEF WaitingFires, TypeOK, cluster, informer, cache

LEMMA CrashType ==
  ASSUME TypeOK, CrashRestart
  PROVE  TypeOK'
  <1>1. /\ queue' \in QueueOf(Key) /\ known' \subseteq Pod
        /\ podMap' \in [GPU -> SUBSET Pod] /\ isUsed' \in [GPU -> BOOLEAN]
        /\ faults' \in 0 .. MaxFaults
    BY FirstQueuesType, BuiltType, FaultType DEF CrashRestart, TypeOK
  <1>2. handler' \in [pc : {"idle", "recheck", "store"}, need : BOOLEAN]
        /\ handler'.pc = "idle"
    BY HandlerStates DEF CrashRestart
  <1>3. notes' \in Seq(Notes) /\ watch' \in [Key -> Seq(Changes)]
    BY DEF CrashRestart
  <1>4. worker' \in WorkerStates /\ bind' \in [Binder -> BindStates]
    BY DEF CrashRestart, WorkerStates, BindStates
  <1> QED
    BY <1>1, <1>2, <1>3, <1>4 DEF CrashRestart, TypeOK, cluster, Slot

LEMMA Unchanged ==
  ASSUME UNCHANGED vars
  PROVE  /\ UNCHANGED <<api, born, nodeOk, watch, lister, notes, handler, queue>>
         /\ UNCHANGED <<waiting, removed, worker, known, podMap, isUsed>>
         /\ UNCHANGED <<bind, mutex, faults>>
  BY DEF vars, cluster, informer, control, cache

LEMMA NextType ==
  ASSUME TypeOK, [Next]_vars
  PROVE  TypeOK'
  <1>1. CASE UNCHANGED vars
    BY <1>1, Unchanged DEF TypeOK
  <1> QED
    BY <1>1, ClusterType, InformerType, HandlerType, WorkerType, BindType,
       WaitingType, CrashType DEF Next

(***************************************************************************)
(* Every state the extender reaches, whatever the pods, the GPUs, the      *)
(* policy and the faults, is well formed: a bind call past getPod holds a  *)
(* pod object, a worker past WorkerSync a pod and a set of devices of the  *)
(* node, an event handler in the middle of a notification still has it.    *)
(***************************************************************************)
THEOREM TypeCorrect == Spec => []TypeOK
  <1> QED
    BY InitType, NextType, PTL DEF Spec
-----------------------------------------------------------------------------
(* A pod of knownPods occupies a device.                                    *)

\* the devices WorkerAddDevice has done are the pod's already
AddedSoFar ==
  worker.pc = "add" =>
    /\ GPUIDs(worker.pod) # {} /\ worker.rest \subseteq GPUIDs(worker.pod)
    /\ \A g \in GPUIDs(worker.pod) \ worker.rest : worker.pod.uid \in podMap[g]

KnownInv == AddedSoFar /\ KnownHasDevice

\* nothing but the worker takes a pod off a device or touches knownPods
LEMMA OnlyTheWorkerRemoves ==
  ASSUME TypeOK, KnownInv, UNCHANGED <<worker, known>>,
         \A g \in GPU : podMap[g] \subseteq podMap'[g]
  PROVE  KnownInv'
  <1>1. AddedSoFar'
    <2>1. worker.pc = "add" => GPUIDs(worker.pod) \in SUBSET GPU
      BY WorkerKinds, GPUIDsType DEF TypeOK, Slot
    <2> QED
      BY <2>1 DEF KnownInv, AddedSoFar
  <1>2. KnownHasDevice'
    BY DEF KnownInv, KnownHasDevice
  <1> QED
    BY <1>1, <1>2 DEF KnownInv

\* the cache BuildCache makes
LEMMA BuiltKnownHasDevice ==
  ASSUME NEW a \in [Key -> Slot], NEW p \in BuiltKnown(a)
  PROVE  \E g \in GPU : p \in BuiltPodMap(a)[g]
  <1>1. PICK o \in Listed(a) : o.uid = p
    BY DEF BuiltKnown
  <1>2. o \in Slot /\ GPUIDs(o) # {}
    BY DEF Listed
  <1>3. PICK g \in GPU : g \in GPUIDs(o)
    BY <1>2, GPUIDsType
  <1>4. g \in o.ids
    BY <1>3 DEF GPUIDs
  <1> QED
    BY <1>1, <1>3, <1>4 DEF BuiltPodMap

LEMMA KnownWorker ==
  ASSUME TypeOK, KnownInv, Worker
  PROVE  KnownInv'
  <1> USE DEF KnownInv
  <1>1. /\ worker \in WorkerStates
        /\ worker.pc \in {"add", "remove"} => worker.pod.uid \in Pod /\ worker.pod \in Slot
        /\ podMap \in [GPU -> SUBSET Pod]
    BY WorkerKinds DEF TypeOK, Slot
  <1>2. ASSUME Finished, worker.pc # "remove", UNCHANGED <<known, podMap>>
        PROVE  KnownInv'
    BY <1>2 DEF Finished, Working, IdleWorker, AddedSoFar, KnownHasDevice
  <1>3. ASSUME NEW o, NEW b, Removing(o, b), worker.pc # "remove",
               UNCHANGED <<known, podMap>>, worker \in WorkerStates
        PROVE  KnownInv'
    BY <1>3 DEF Removing, Working, AddedSoFar, KnownHasDevice
  <1>4. CASE WorkerGet
    BY <1>1, <1>4 DEF WorkerGet, Working, cache, AddedSoFar, KnownHasDevice
  <1>5. CASE WorkerSync
    <2> DEFINE o == lister[worker.key]
    <2>1. worker.pc = "sync" /\ UNCHANGED <<known, podMap>>
      BY <1>5 DEF WorkerSync, cache
    <2>2. CASE Finished
      BY <1>2, <2>1, <2>2
    <2>3. CASE Removing(o, FALSE)
      BY <1>1, <1>3, <2>1, <2>3
    <2>4. CASE Working([worker EXCEPT !.pc = "lookup"])
      BY <1>1, <2>1, <2>4 DEF Working, AddedSoFar, KnownHasDevice
    <2>5. CASE /\ GPUIDs(o) # {}
               /\ Working([worker EXCEPT !.pc = "add", !.pod = o, !.rest = GPUIDs(o)])
      <3> HIDE DEF o
      <3>1. /\ worker'.pc = "add" /\ worker'.pod = o
            /\ worker'.rest = GPUIDs(o)
        BY <1>1, <2>1, <2>5 DEF Working, WorkerStates, IdleWorker
      <3> QED
        BY <2>1, <2>5, <3>1 DEF AddedSoFar, KnownHasDevice
    <2> QED
      BY <1>5, <2>2, <2>3, <2>4, <2>5 DEF WorkerSync
  <1>6. CASE WorkerLookup
    BY <1>1, <1>2, <1>3, <1>6 DEF WorkerLookup, cache
  <1>7. CASE WorkerRemember
    <2>1. \E g \in GPU : worker.pod.uid \in podMap[g]
      BY <1>1, <1>7, GPUIDsType DEF WorkerRemember, AddedSoFar
    <2> QED
      BY <1>7, <2>1
      DEF WorkerRemember, Finished, Working, IdleWorker, AddedSoFar, KnownHasDevice
  <1>8. CASE WorkerForget
    BY <1>8 DEF WorkerForget, Finished, Working, IdleWorker, AddedSoFar, KnownHasDevice
  <1>9. CASE WorkerDone
    BY <1>9 DEF WorkerDone, Working, IdleWorker, cache, AddedSoFar, KnownHasDevice
  <1>10. ASSUME NEW d \in GPU, WorkerAddDevice(d)
         PROVE  KnownInv'
    <2>1. /\ worker'.pc = "add" /\ worker'.pod = worker.pod /\ worker.pc = "add"
          /\ worker'.rest = worker.rest \ {d} /\ UNCHANGED known
      BY <1>1, <1>10 DEF WorkerAddDevice, Working, WorkerStates, IdleWorker
    <2>2. /\ \A g \in GPU : \A p \in podMap[g] : p \in podMap'[g]
          /\ worker.pod.uid \in podMap'[d]
      BY <1>1, <1>10 DEF WorkerAddDevice
    <2>3. GPUIDs(worker.pod) \in SUBSET GPU
      BY <1>1, <2>1, GPUIDsType
    <2>4. ASSUME NEW g \in GPUIDs(worker.pod) \ worker'.rest
          PROVE  worker.pod.uid \in podMap'[g]
      <3>1. g \in GPU /\ (g = d \/ g \in GPUIDs(worker.pod) \ worker.rest)
        BY <2>1, <2>3
      <3>2. g \in GPUIDs(worker.pod) \ worker.rest => worker.pod.uid \in podMap[g]
        BY <2>1 DEF AddedSoFar
      <3> QED
        BY <2>2, <3>1, <3>2
    <2>5. AddedSoFar'
      BY <2>1, <2>4 DEF AddedSoFar
    <2>6. KnownHasDevice'
      <3>1. \A p \in known : \E g \in GPU : p \in podMap[g]
        BY <2>1 DEF KnownHasDevice
      <3> QED
        BY <2>1, <2>2, <3>1 DEF KnownHasDevice
    <2> QED
      BY <2>5, <2>6
  <1>11. ASSUME NEW d \in GPU, WorkerRemoveDevice(d)
         PROVE  KnownInv'
    <2>1. /\ worker'.pc = "remove" /\ worker'.pod = worker.pod /\ worker.pc = "remove"
          /\ UNCHANGED known
      BY <1>1, <1>11 DEF WorkerRemoveDevice, Working, WorkerStates, IdleWorker
    <2>2. \A g \in GPU : podMap[g] \ {worker.pod.uid} \subseteq podMap'[g]
      BY <1>1, <1>11 DEF WorkerRemoveDevice
    <2> QED
      BY <2>1, <2>2 DEF AddedSoFar, KnownHasDevice
  <1> QED
    BY <1>4, <1>5, <1>6, <1>7, <1>8, <1>9, <1>10, <1>11 DEF Worker

LEMMA KnownStep ==
  ASSUME TypeOK, KnownInv, [Next]_vars
  PROVE  KnownInv'
  <1>1. CASE UNCHANGED vars
    BY <1>1, OnlyTheWorkerRemoves DEF vars, control, cache
  <1>2. CASE Cluster
    BY <1>2, OnlyTheWorkerRemoves
    DEF Cluster, CreatePod, FinishPod, DeletePod, NodeFlap, control, cache
  <1>3. CASE Informer
    BY <1>3, OnlyTheWorkerRemoves
    DEF Informer, Deliver, Relist, Resync, Apply, control, cache
  <1>4. CASE Handler
    BY <1>4, OnlyTheWorkerRemoves
    DEF Handler, HandleAdd, HandleUpdate, HandleRecheck, HandleDelete, HandleStore,
        Handling, cache
  <1>5. CASE Worker
    BY <1>5, KnownWorker
  <1>6. ASSUME NEW k \in Key, WaitingFires(k)
        PROVE  KnownInv'
    BY <1>6, OnlyTheWorkerRemoves DEF WaitingFires, cache
  <1>7. ASSUME NEW b \in Binder, Bind(b) \/ \E p \in Pod : BindRequest(b, p)
        PROVE  KnownInv'
    <2>1. UNCHANGED <<worker, known>>
      BY <1>7
      DEF Bind, BindRequest, BindGetPod, BindCount, BindChoose, BindUpdate,
          BindGetAgain, BindBind, BindReply, BindMark, ApiError, Answer, Goto,
          Binding, control
    <2>2. \/ UNCHANGED podMap
          \/ \E g \in GPU : BindMark(b, g)
      BY <1>7
      DEF Bind, BindRequest, BindGetPod, BindCount, BindChoose, BindUpdate,
          BindGetAgain, BindBind, BindReply, ApiError, Quiet
    <2>3. \A g \in GPU : podMap[g] \subseteq podMap'[g]
      <3>1. ASSUME NEW d \in GPU, BindMark(b, d), NEW g \in GPU
            PROVE  podMap[g] \subseteq podMap'[g]
        <4>1. podMap' = [podMap EXCEPT ![d] = @ \union {bind[b].held.uid}]
          BY <3>1 DEF BindMark
        <4>2. podMap \in [GPU -> SUBSET Pod]
          BY DEF TypeOK
        <4> QED
          BY <4>1, <4>2
      <3> QED
        BY <2>2, <3>1
    <2> QED
      BY <2>1, <2>3, OnlyTheWorkerRemoves
  <1>8. CASE CrashRestart
    BY <1>8, BuiltKnownHasDevice
    DEF CrashRestart, IdleWorker, TypeOK, KnownInv, AddedSoFar, KnownHasDevice
  <1> QED
    BY <1>1, <1>2, <1>3, <1>4, <1>5, <1>6, <1>7, <1>8 DEF Next

(***************************************************************************)
(* A pod of knownPods is in the podMap of some device, unless the worker   *)
(* is just removing it (cache.go:75-115, nodeinfo.go:41-89): in whatever   *)
(* order the events of pods of one name, bind calls and restarts come, the *)
(* extender never takes the cache's word for a pod that occupies nothing.  *)
(***************************************************************************)
THEOREM KnownOccupies == Spec => []KnownHasDevice
  <1>1. Init => KnownInv
    BY DEF Init, IdleWorker, KnownInv, AddedSoFar, KnownHasDevice
  <1>2. KnownInv => KnownHasDevice
    BY DEF KnownInv
  <1> QED
    BY <1>1, <1>2, KnownStep, TypeCorrect, PTL DEF Spec

=============================================================================
