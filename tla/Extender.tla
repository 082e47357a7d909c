------------------------------ MODULE Extender ------------------------------
(***************************************************************************)
(* One replica of the GPU scheduler extender and the cluster around it, on *)
(* one GPU node: the pod objects at the API server, the shared informer    *)
(* with its event handlers, the pod queue and its one worker, the          *)
(* scheduler cache (knownPods and the device table of the node), and the   *)
(* HTTP bind calls of the scheduler, which run Policy.Allocate.            *)
(*                                                                         *)
(* Each action is one piece of code between two places where another       *)
(* goroutine can be seen or can see it: a lock, a read or write of shared  *)
(* data, an API call.                                                      *)
(***************************************************************************)
EXTENDS Integers, FiniteSets, SequencesExt, WorkQueue

CONSTANTS
  Pod,            \* pod UIDs
  Key,            \* namespace/name keys
  KeyOf,          \* the key a pod is created under: [Pod -> Key]
  First,          \* the pods that exist, unbound, when the extender starts
  GPU,            \* device indices of the node, 0 .. N-1
  Req,            \* GPUs a pod asks for: [Pod -> Nat \ {0}]
  Outcomes(_, _), \* the sets of ids the policy may return, given the free
                  \* devices and a request; {} when it answers an error
  Binder,         \* concurrent bind calls
  None,           \* no pod, no key, no binder
  Env,            \* what the environment may do, see EnvKinds
  MaxNotes,       \* bound: notifications not yet handled
  MaxFaults       \* bound: faults of the kinds in Env

(***************************************************************************)
(* linger: a finished (or terminating) pod stays at the API server; bare:  *)
(* a conflict carries exactly OptimisticLockErrorMsg.  The others are      *)
(* faults, of which MaxFaults may happen.  crash: the extender dies and    *)
(* starts again; relist: the watch breaks and the informer lists again;    *)
(* node: the node object disappears for a while; apierr: an API call     *)
(* fails without effect; lost: the reply of an API call that took effect   *)
(* is lost; retry: the scheduler binds a pod again (its call timed out, or *)
(* its view of the pod is old).                                            *)
(***************************************************************************)
EnvKinds == {"linger", "bare", "crash", "relist", "node", "apierr", "lost", "retry"}

NoGPU == -1   \* the padding entry of the best-effort policy

ASSUME KeyAssumption    == IsFiniteSet(Key)
ASSUME KeyOfAssumption  == KeyOf \in [Pod -> Key]
ASSUME ReqAssumption    == Req \in [Pod -> Nat \ {0}]
ASSUME NoneAssumption   == None \notin Pod \union Key \union Binder
ASSUME FirstAssumption  == /\ First \subseteq Pod
                           /\ \A p, q \in First : KeyOf[p] = KeyOf[q] => p = q
ASSUME EnvAssumption    == Env \subseteq EnvKinds
ASSUME BoundAssumption  == MaxNotes \in Nat \ {0} /\ MaxFaults \in Nat
ASSUME GPUAssumption    == IsFiniteSet(GPU) /\ GPU \subseteq Nat
ASSUME OutcomesAssumption ==
  \A free \in SUBSET GPU, p \in Pod :
    Outcomes(free, Req[p]) \subseteq SUBSET (free \union {NoGPU})

VARIABLES
  api,      \* the pod object the API server holds under each key
  born,     \* pods that have been created: a UID is never used again
  nodeOk,   \* the node object exists (and the node lister finds it)
  watch,    \* per key, the changes the informer has not applied yet
  lister,   \* the informer's store, read through podLister
  notes,    \* notifications the event handlers have not handled yet
  handler,  \* where the event handler is in the notification at the head
  queue,    \* podQueue
  waiting,  \* keys AddRateLimited will add to podQueue after a delay
  removed,  \* removePodCache
  known,    \* UIDs in knownPods
  podMap,   \* DeviceInfo.podMap of each device
  isUsed,   \* DeviceInfo.isUsed of each device
  worker,   \* the goroutine of runWorker
  bind,     \* the goroutines of the bind route
  mutex,    \* who holds Policy.rwmu
  faults    \* faults so far

cluster  == <<api, born, nodeOk>>
informer == <<watch, lister, notes>>
control  == <<handler, queue, waiting, removed, worker>>
cache    == <<known, podMap, isUsed>>
vars     == <<cluster, informer, control, cache, bind, mutex, faults>>
-----------------------------------------------------------------------------
(* Pod objects.  `ids` is the GPU index annotation, `node` says that        *)
(* spec.nodeName is set, `done` is IsCompletePod.                           *)

Object == [uid  : Pod,
           ids  : SUBSET (GPU \union {NoGPU}),
           node : BOOLEAN,
           done : BOOLEAN]

NewPod(p) == [uid |-> p, ids |-> {}, node |-> FALSE, done |-> FALSE]
NoPod     == NewPod(None)

\* an entry of a map from keys to pods
Slot == Object \union {NoPod}

\* mutant: an entry that is no number is kept
GPUIDs_Unparsed(o) == o.ids

\* GetGPUIDFromAnnotation: one entry that is no number spoils the whole list
GPUIDs(o) == IF NoGPU \in o.ids THEN {} ELSE o.ids

Live(o) == o.node /\ ~o.done

Change(kind, o)     == [kind |-> kind, obj |-> o]
Note(type, old, new) == [type |-> type, old |-> old, new |-> new]
NoteKey(n)          == KeyOf[n.new.uid]

IdleHandler == [pc |-> "idle", need |-> FALSE]
IdleWorker  == [pc |-> "idle", key |-> None, pod |-> NoPod, rest |-> {},
                stored |-> FALSE]
IdleBind    == [pc |-> "idle", pod |-> None, held |-> NoPod, ids |-> {},
                rest |-> {}]

(***************************************************************************)
(* The scheduler cache BuildCache makes when the pods are `a`: the bound   *)
(* pods that carry an annotation are entered, finished or not.             *)
(***************************************************************************)
Listed(a) == {a[k] : k \in {c \in Key : a[c].node /\ GPUIDs(a[c]) # {}}}

\* mutant: a restart without BuildCache
BuiltPodMap_Empty(a) == [g \in GPU |-> {}]

BuiltKnown(a)  == {o.uid : o \in Listed(a)}
BuiltPodMap(a) == [g \in GPU |-> {o.uid : o \in {l \in Listed(a) : g \in l.ids}}]
BuiltUsed(a)   == [g \in GPU |-> BuiltPodMap(a)[g] # {}]

\* the add notifications of the first list queue every key, in any order
FirstQueues(a) ==
  LET K == {k \in Key : a[k] # NoPod}
  IN  {[queue |-> q, dirty |-> K, processing |-> {}] : q \in SetToSeqs(K)}

Init ==
  /\ api = [k \in Key |->
              IF \E p \in First : KeyOf[p] = k
              THEN NewPod(CHOOSE p \in First : KeyOf[p] = k) ELSE NoPod]
  /\ born = First
  /\ nodeOk = TRUE
  /\ watch = [k \in Key |-> << >>]
  /\ lister = api
  /\ notes = << >>
  /\ handler = IdleHandler
  /\ queue \in FirstQueues(api)
  /\ waiting = {}
  /\ removed = [k \in Key |-> NoPod]
  /\ worker = IdleWorker
  /\ known = {}
  /\ podMap = [g \in GPU |-> {}]
  /\ isUsed = [g \in GPU |-> FALSE]
  /\ bind = [b \in Binder |-> IdleBind]
  /\ mutex = None
  /\ faults = 0

Fault(kind) == kind \in Env /\ faults < MaxFaults /\ faults' = faults + 1
NoFault     == UNCHANGED faults
-----------------------------------------------------------------------------
(* The cluster: users, the kubelet and the API server.                      *)

\* the API server stores o under k, or removes the object, and reports it
Store(k, o)  == /\ api' = [api EXCEPT ![k] = o]
                /\ watch' = [watch EXCEPT ![k] = Append(@, Change("set", o))]
Delete(k)    == /\ api' = [api EXCEPT ![k] = NoPod]
                /\ watch' = [watch EXCEPT ![k] = Append(@, Change("del", api[k]))]

CreatePod(p) ==
  /\ p \notin born
  /\ api[KeyOf[p]] = NoPod
  /\ born' = born \union {p}
  /\ Store(KeyOf[p], NewPod(p))
  /\ UNCHANGED <<nodeOk, lister, notes, control, cache, bind, mutex, faults>>

FinishPod(k) ==
  /\ "linger" \in Env
  /\ Live(api[k])
  /\ Store(k, [api[k] EXCEPT !.done = TRUE])
  /\ UNCHANGED <<born, nodeOk, lister, notes, control, cache, bind, mutex, faults>>

DeletePod(k) ==
  /\ api[k] # NoPod
  /\ Delete(k)
  /\ UNCHANGED <<born, nodeOk, lister, notes, control, cache, bind, mutex, faults>>

NodeFlap ==
  /\ \/ nodeOk /\ Fault("node")
     \/ ~nodeOk /\ NoFault
  /\ nodeOk' = ~nodeOk
  /\ UNCHANGED <<api, born, informer, control, cache, bind, mutex>>
-----------------------------------------------------------------------------
(* The shared informer: HandleDeltas updates the store, then queues a       *)
(* notification for the handlers.                                           *)

Room == Len(notes) < MaxNotes

Apply(k, o, n) ==
  /\ lister' = [lister EXCEPT ![k] = o]
  /\ notes' = Append(notes, n)
  /\ UNCHANGED <<cluster, control, cache, bind, mutex>>

SetNote(k, o) == IF lister[k] = NoPod THEN Note("add", NoPod, o)
                                      ELSE Note("update", lister[k], o)

Deliver(k) ==
  /\ watch[k] # << >> /\ Room
  /\ watch' = [watch EXCEPT ![k] = Tail(@)]
  /\ LET c == Head(watch[k])
     IN  IF c.kind = "set" THEN Apply(k, c.obj, SetNote(k, c.obj))
         ELSE Apply(k, NoPod, Note("delete", NoPod, c.obj))
  /\ NoFault

\* a new list replaces what the broken watch would have told; of a pod that
\* is gone the informer only has its own, maybe old, last copy
Relist(k) ==
  /\ Fault("relist")
  /\ watch[k] # << >> /\ Room
  /\ watch' = [watch EXCEPT ![k] = << >>]
  /\ IF api[k] # NoPod THEN Apply(k, api[k], SetNote(k, api[k]))
     ELSE IF lister[k] # NoPod
          THEN Apply(k, NoPod, Note("delete", NoPod, lister[k]))
          ELSE UNCHANGED <<lister, notes, cluster, control, cache, bind, mutex>>

\* every 30 s each object of the store is reported again
Resync(k) ==
  /\ lister[k] # NoPod /\ Room
  /\ \A i \in DOMAIN notes : NoteKey(notes[i]) # k
  /\ Apply(k, lister[k], Note("update", lister[k], lister[k]))
  /\ UNCHANGED watch /\ NoFault
-----------------------------------------------------------------------------
(* The event handlers: one goroutine, one notification at a time.           *)

note == Head(notes)

Handling(h, rest) ==
  /\ handler' = h
  /\ notes' = rest
  /\ UNCHANGED <<cluster, watch, lister, waiting, worker, cache, bind, mutex, faults>>

HandleAdd ==
  /\ notes # << >> /\ note.type = "add"
  /\ queue' = QAdd(queue, NoteKey(note))
  /\ UNCHANGED removed
  /\ Handling(IdleHandler, Tail(notes))

\* updatePodInCache asks KnownPod twice, of the UID of the OLD object
HandleUpdate ==
  /\ notes # << >> /\ note.type = "update" /\ handler.pc = "idle"
  /\ UNCHANGED <<queue, removed>>
  /\ Handling([pc |-> "recheck", need |-> note.old.uid \in known /\ note.new.done],
              notes)

\* mutant: only unknown pods are queued
HandleRecheck_Unknown ==
  /\ handler.pc = "recheck"
  /\ queue' = IF note.old.uid \notin known THEN QAdd(queue, NoteKey(note)) ELSE queue
  /\ UNCHANGED removed
  /\ Handling(IdleHandler, Tail(notes))

\* mutant: only completed pods are queued
HandleRecheck_Known ==
  /\ handler.pc = "recheck"
  /\ queue' = IF handler.need THEN QAdd(queue, NoteKey(note)) ELSE queue
  /\ UNCHANGED removed
  /\ Handling(IdleHandler, Tail(notes))

HandleRecheck ==
  /\ handler.pc = "recheck"
  /\ queue' = IF handler.need \/ note.old.uid \notin known
              THEN QAdd(queue, NoteKey(note)) ELSE queue
  /\ UNCHANGED removed
  /\ Handling(IdleHandler, Tail(notes))

HandleDelete ==
  /\ notes # << >> /\ note.type = "delete" /\ handler.pc = "idle"
  /\ queue' = QAdd(queue, NoteKey(note))
  /\ UNCHANGED removed
  /\ Handling([pc |-> "store", need |-> FALSE], notes)

HandleStore ==
  /\ handler.pc = "store"
  /\ removed' = [removed EXCEPT ![NoteKey(note)] = note.new]
  /\ UNCHANGED queue
  /\ Handling(IdleHandler, Tail(notes))
-----------------------------------------------------------------------------
(* The worker: processNextWorkItem and syncPod.                             *)

Working(w) ==
  /\ worker' = w
  /\ UNCHANGED <<cluster, informer, handler, bind, mutex, faults>>

\* syncPod returns; the deferred podQueue.Done is still to come
Finished ==
  /\ Working([IdleWorker EXCEPT !.pc = "done", !.key = worker.key])
  /\ UNCHANGED queue

WorkerGet ==
  /\ worker.pc = "idle" /\ queue.queue # << >>
  /\ queue' = QGet(queue)
  /\ Working([worker EXCEPT !.pc = "sync", !.key = Head(queue.queue)])
  /\ UNCHANGED <<waiting, removed, cache>>

\* SchedulerCache.RemovePod finds the device table of the node the pod is on;
\* when the pod has no node, or the node is gone, there is nothing to release
Removing(o, stored) ==
  Working([worker EXCEPT !.pc = "remove", !.pod = o, !.stored = stored,
                         !.rest = IF o.node /\ nodeOk THEN GPUIDs(o) ELSE {}])

WorkerSync ==
  /\ worker.pc = "sync"
  /\ LET o == lister[worker.key]
     IN  \/ /\ o = NoPod
            /\ Working([worker EXCEPT !.pc = "lookup"])
            /\ UNCHANGED <<queue, waiting>>
         \/ /\ o # NoPod /\ o.done
            /\ Removing(o, FALSE)
            /\ UNCHANGED <<queue, waiting>>
         \/ /\ Live(o) /\ nodeOk /\ GPUIDs(o) # {}
            /\ Working([worker EXCEPT !.pc = "add", !.pod = o, !.rest = GPUIDs(o)])
            /\ UNCHANGED <<queue, waiting>>
         \/ /\ Live(o) /\ ~nodeOk     \* GetNodeInfo fails: AddRateLimited
            /\ waiting' = waiting \union {worker.key}
            /\ Finished
         \/ /\ o # NoPod /\ ~o.done /\ (~o.node \/ (nodeOk /\ GPUIDs(o) = {}))
            /\ UNCHANGED waiting
            /\ Finished
  /\ UNCHANGED <<removed, cache>>

WorkerLookup ==
  /\ worker.pc = "lookup"
  /\ IF removed[worker.key] = NoPod
     THEN Finished
     ELSE UNCHANGED queue /\ Removing(removed[worker.key], TRUE)
  /\ UNCHANGED <<waiting, removed, cache>>

WorkerAddDevice(g) ==
  /\ worker.pc = "add" /\ g \in worker.rest
  /\ podMap' = [podMap EXCEPT ![g] = @ \union {worker.pod.uid}]
  /\ isUsed' = [isUsed EXCEPT ![g] = TRUE]
  /\ Working([worker EXCEPT !.rest = @ \ {g}])
  /\ UNCHANGED <<queue, waiting, removed, known>>

WorkerRemember ==
  /\ worker.pc = "add" /\ worker.rest = {}
  /\ known' = known \union {worker.pod.uid}
  /\ Finished
  /\ UNCHANGED <<waiting, removed, podMap, isUsed>>

\* mutant: the flag is cleared, the pod stays in podMap
WorkerRemoveDevice_Stays(g) ==
  /\ worker.pc = "remove" /\ g \in worker.rest
  /\ isUsed' = [isUsed EXCEPT ![g] = FALSE]
  /\ Working([worker EXCEPT !.rest = @ \ {g}])
  /\ UNCHANGED <<queue, waiting, removed, known, podMap>>

WorkerRemoveDevice(g) ==
  /\ worker.pc = "remove" /\ g \in worker.rest
  /\ podMap' = [podMap EXCEPT ![g] = @ \ {worker.pod.uid}]
  /\ isUsed' = [isUsed EXCEPT ![g] = FALSE]
  /\ Working([worker EXCEPT !.rest = @ \ {g}])
  /\ UNCHANGED <<queue, waiting, removed, known>>

\* mutant: the entry of removePodCache is not deleted
WorkerForget_Keeps ==
  /\ worker.pc = "remove" /\ worker.rest = {}
  /\ known' = known \ {worker.pod.uid}
  /\ Finished
  /\ UNCHANGED <<waiting, removed, podMap, isUsed>>

\* mutant: forgetPod is left out
WorkerForget_Knows ==
  /\ worker.pc = "remove" /\ worker.rest = {}
  /\ removed' = IF worker.stored THEN [removed EXCEPT ![worker.key] = NoPod]
                                 ELSE removed
  /\ Finished
  /\ UNCHANGED <<waiting, cache>>

WorkerForget ==
  /\ worker.pc = "remove" /\ worker.rest = {}
  /\ known' = known \ {worker.pod.uid}
  /\ removed' = IF worker.stored THEN [removed EXCEPT ![worker.key] = NoPod]
                                 ELSE removed
  /\ Finished
  /\ UNCHANGED <<waiting, podMap, isUsed>>

WorkerDone ==
  /\ worker.pc = "done"
  /\ queue' = QDone(queue, worker.key)
  /\ Working(IdleWorker)
  /\ UNCHANGED <<waiting, removed, cache>>

\* mutant: what has waited is not queued
WaitingFires_Lost(k) ==
  /\ k \in waiting
  /\ waiting' = waiting \ {k}
  /\ UNCHANGED <<queue, cluster, informer, handler, removed, worker, cache, bind, mutex, faults>>

\* the delay of AddRateLimited is over
WaitingFires(k) ==
  /\ k \in waiting
  /\ waiting' = waiting \ {k}
  /\ queue' = QAdd(queue, k)
  /\ UNCHANGED <<cluster, informer, handler, removed, worker, cache, bind, mutex, faults>>
-----------------------------------------------------------------------------
(* A bind call: NewGPUShareBind and Policy.Allocate.                        *)

Binding(b, r) ==
  /\ bind' = [bind EXCEPT ![b] = r]
  /\ UNCHANGED <<born, nodeOk, lister, notes, control, known>>

Quiet == UNCHANGED <<api, watch, podMap, isUsed>>

Goto(b, pc) == Binding(b, [bind[b] EXCEPT !.pc = pc]) /\ UNCHANGED mutex

\* mutant: an error path that returns without Unlock
Answer_Locked(b) == UNCHANGED mutex /\ Binding(b, IdleBind)

\* the call answers; Policy.rwmu, if held, is released by the deferred Unlock
Answer(b) ==
  /\ mutex' = IF mutex = b THEN None ELSE mutex
  /\ Binding(b, IdleBind)

TheKey(b) == KeyOf[bind[b].pod]

\* an API call fails: nothing has changed and the call answers the error
ApiError(b) == Fault("apierr") /\ Answer(b) /\ Quiet

\* the scheduler asks for a pod that is not bound
BindRequest(b, p) ==
  /\ bind[b] = IdleBind
  /\ Binding(b, [IdleBind EXCEPT !.pc = "get", !.pod = p])
  /\ \/ /\ api[KeyOf[p]].uid = p /\ ~api[KeyOf[p]].node
        /\ \A c \in Binder : bind[c].pod # p
        /\ NoFault
     \/ p \in born /\ Fault("retry")
  /\ UNCHANGED mutex /\ Quiet

\* getPod: the informer's copy, or the API server's when that one is missing
\* or of another UID; then GetNodeInfo
BindGetPod(b) ==
  /\ bind[b].pc = "get"
  /\ LET p == bind[b].pod
         l == lister[TheKey(b)]
         a == api[TheKey(b)]
     IN  \/ /\ nodeOk /\ p \in {l.uid, a.uid}
            /\ Binding(b, [bind[b] EXCEPT !.pc = "lock",
                                          !.held = IF l.uid = p THEN l ELSE a])
            /\ UNCHANGED mutex /\ Quiet /\ NoFault
         \/ /\ ~nodeOk \/ p \notin {l.uid, a.uid}
            /\ Answer(b) /\ Quiet /\ NoFault
         \/ l.uid # p /\ ApiError(b)

\* mutant: the devices are not asked whether they are used
Free_All == GPU

Free == {g \in GPU : ~isUsed[g]}

\* mutant: Allocate does not take Policy.rwmu
Unlocked_Always == TRUE

\* Policy.rwmu can be locked
Unlocked == mutex = None

\* Allocate takes Policy.rwmu; allocateGPUID counts the free devices
BindCount(b) ==
  /\ bind[b].pc = "lock" /\ Unlocked
  /\ IF Cardinality(Free) >= Req[bind[b].held.uid]
     THEN /\ mutex' = b
          /\ Binding(b, [bind[b] EXCEPT !.pc = "choose"])
     ELSE Answer(b)
  /\ Quiet /\ NoFault

\* the runner of the policy looks at the devices again; it may fail, or panic,
\* which net/http recovers after the deferred Unlock: see Policies
BindChoose(b) ==
  /\ bind[b].pc = "choose"
  /\ \/ \E s \in Outcomes(Free, Req[bind[b].held.uid]) :
           Binding(b, [bind[b] EXCEPT !.pc = "update", !.ids = s]) /\ UNCHANGED mutex
     \/ Answer(b)
  /\ Quiet /\ NoFault

\* Update carries the resource version of the held copy: the API server takes
\* it only while that copy is the current one.  A conflict is retried, once,
\* only when its text is OptimisticLockErrorMsg
BindUpdate(b) ==
  /\ bind[b].pc \in {"update", "reupdate"}
  /\ LET k       == TheKey(b)
         o       == [bind[b].held EXCEPT !.ids = bind[b].ids]
         current == api[k] = bind[b].held
         again   == bind[b].pc = "update" /\ "bare" \in Env
     IN  \/ /\ current
            /\ Store(k, o)
            /\ \/ /\ Binding(b, [bind[b] EXCEPT !.pc = "bind", !.held = o])
                  /\ UNCHANGED mutex /\ NoFault
               \/ Answer(b) /\ Fault("lost")
            /\ UNCHANGED <<podMap, isUsed>>
         \/ ~current /\ again /\ Goto(b, "reget") /\ Quiet /\ NoFault
         \/ ~current /\ ~again /\ Answer(b) /\ Quiet /\ NoFault
         \/ ApiError(b)

\* the pod that is read again may be another one of the same name
BindGetAgain(b) ==
  /\ bind[b].pc = "reget"
  /\ LET a == api[TheKey(b)]
     IN  \/ /\ a # NoPod
            /\ Binding(b, [bind[b] EXCEPT !.pc = "reupdate", !.held = a])
            /\ UNCHANGED mutex /\ Quiet /\ NoFault
         \/ a = NoPod /\ Answer(b) /\ Quiet /\ NoFault
         \/ ApiError(b)

\* the API server binds a pod of that UID that has no node yet
BindBind(b) ==
  /\ bind[b].pc = "bind"
  /\ LET k        == TheKey(b)
         bindable == api[k].uid = bind[b].held.uid /\ ~api[k].node
     IN  \/ /\ bindable
            /\ Store(k, [api[k] EXCEPT !.node = TRUE])
            /\ \/ /\ Binding(b, [bind[b] EXCEPT !.pc = "mark",
                                                !.rest = bind[b].ids \ {NoGPU}])
                  /\ UNCHANGED mutex /\ NoFault
               \/ Answer(b) /\ Fault("lost")
            /\ UNCHANGED <<podMap, isUsed>>
         \/ ~bindable /\ Answer(b) /\ Quiet /\ NoFault
         \/ ApiError(b)

\* mutant: Allocate leaves the marking to the informer and the worker
BindMark_Later(b, g) ==
  /\ bind[b].pc = "mark" /\ g \in bind[b].rest
  /\ Binding(b, [bind[b] EXCEPT !.rest = @ \ {g}])
  /\ Quiet /\ UNCHANGED mutex /\ NoFault

\* dev.AddPod of each chosen device
BindMark(b, g) ==
  /\ bind[b].pc = "mark" /\ g \in bind[b].rest
  /\ podMap' = [podMap EXCEPT ![g] = @ \union {bind[b].held.uid}]
  /\ isUsed' = [isUsed EXCEPT ![g] = TRUE]
  /\ Binding(b, [bind[b] EXCEPT !.rest = @ \ {g}])
  /\ UNCHANGED <<api, watch, mutex>> /\ NoFault

BindReply(b) ==
  /\ bind[b].pc = "mark" /\ bind[b].rest = {}
  /\ Answer(b)
  /\ Quiet /\ NoFault
-----------------------------------------------------------------------------
(***************************************************************************)
(* The process dies and starts again: it lists the pods, waits for the     *)
(* sync, builds the cache and only then serves.  While the node of a bound *)
(* pod is missing BuildCache fails and the program exits again.            *)
(***************************************************************************)
CrashRestart ==
  /\ Fault("crash")
  /\ nodeOk \/ Listed(api) = {}
  /\ lister' = api
  /\ watch' = [k \in Key |-> << >>]
  /\ notes' = << >>
  /\ handler' = IdleHandler
  /\ queue' \in FirstQueues(api)
  /\ waiting' = {}
  /\ removed' = [k \in Key |-> NoPod]
  /\ worker' = IdleWorker
  /\ known' = BuiltKnown(api)
  /\ podMap' = BuiltPodMap(api)
  /\ isUsed' = BuiltUsed(api)
  /\ bind' = [b \in Binder |-> IdleBind]
  /\ mutex' = None
  /\ UNCHANGED cluster

Cluster ==
  \/ \E p \in Pod : CreatePod(p)
  \/ \E k \in Key : FinishPod(k) \/ DeletePod(k)
  \/ NodeFlap

Informer == \E k \in Key : Deliver(k) \/ Relist(k) \/ Resync(k)

Handler == HandleAdd \/ HandleUpdate \/ HandleRecheck \/ HandleDelete \/ HandleStore

Worker ==
  \/ WorkerGet \/ WorkerSync \/ WorkerLookup \/ WorkerRemember \/ WorkerForget
  \/ WorkerDone
  \/ \E g \in GPU : WorkerAddDevice(g) \/ WorkerRemoveDevice(g)

Bind(b) ==
  \/ BindGetPod(b) \/ BindCount(b) \/ BindChoose(b) \/ BindUpdate(b)
  \/ BindGetAgain(b) \/ BindBind(b) \/ BindReply(b)
  \/ \E g \in GPU : BindMark(b, g)

Next ==
  \/ Cluster
  \/ Informer
  \/ Handler
  \/ Worker
  \/ \E k \in Key : WaitingFires(k)
  \/ \E b \in Binder : Bind(b) \/ \E p \in Pod : BindRequest(b, p)
  \/ CrashRestart

Spec == Init /\ [][Next]_vars

(***************************************************************************)
(* Fairness.  The goroutines of the informer, the handler and the worker   *)
(* and each call run when they can; the resync ticker comes back every 30  *)
(* s, so a resync is only asked to happen when it is possible again and    *)
(* again; a sync.RWMutex hands itself to a waiting writer in turn, so a    *)
(* call that finds the lock free again and again gets it.  Nothing is      *)
(* asked of users, the kubelet, the scheduler or of faults.                *)
(***************************************************************************)
Fairness ==
  /\ \A k \in Key : /\ SF_vars(Deliver(k))
                    /\ SF_vars(Resync(k))
                    /\ WF_vars(WaitingFires(k))
  /\ WF_vars(Handler)
  /\ WF_vars(Worker)
  /\ \A b \in Binder : WF_vars(Bind(b)) /\ SF_vars(BindCount(b))

FairSpec == Spec /\ Fairness
-----------------------------------------------------------------------------
WorkerStates ==
  {IdleWorker} \union
  [pc : {"sync", "lookup", "done"}, key : Key, pod : {NoPod}, rest : {{}},
   stored : {FALSE}] \union
  [pc : {"add", "remove"}, key : Key, pod : Object, rest : SUBSET GPU,
   stored : BOOLEAN]

BindStates ==
  {IdleBind} \union
  [pc : {"get"}, pod : Pod, held : {NoPod}, ids : {{}}, rest : {{}}] \union
  [pc : {"lock", "choose", "update", "reget", "reupdate", "bind", "mark"},
   pod : Pod, held : Object, ids : SUBSET (GPU \union {NoGPU}), rest : SUBSET GPU]

Changes == [kind : {"set", "del"}, obj : Object]
Notes   == [type : {"add", "update", "delete"}, old : Slot, new : Object]

TypeOK ==
  /\ api \in [Key -> Slot] /\ lister \in [Key -> Slot] /\ removed \in [Key -> Slot]
  /\ born \subseteq Pod /\ known \subseteq Pod /\ waiting \subseteq Key
  /\ nodeOk \in BOOLEAN
  /\ watch \in [Key -> Seq(Changes)]
  /\ notes \in Seq(Notes)
  /\ handler \in [pc : {"idle", "recheck", "store"}, need : BOOLEAN]
  /\ handler.pc # "idle" => notes # << >>
  /\ queue \in QueueOf(Key)
  /\ podMap \in [GPU -> SUBSET Pod] /\ isUsed \in [GPU -> BOOLEAN]
  /\ worker \in WorkerStates
  /\ bind \in [Binder -> BindStates]
  /\ mutex \in Binder \union {None}
  /\ faults \in 0 .. MaxFaults

\* the devices the running pod of a key was told to use
Granted(k) == IF Live(api[k]) THEN GPUIDs(api[k]) ELSE {}

\* p has device g, or the bind call that holds Policy.rwmu is about to mark it
Reserved(p, g) ==
  \/ isUsed[g] /\ p \in podMap[g]
  \/ \E b \in Binder : /\ bind[b].pc = "mark" /\ mutex = b
                       /\ bind[b].held.uid = p /\ g \in bind[b].rest

(***************************************************************************)
(* docs/designs/designs.md:23: the extender guarantees "that the GPU       *)
(* cannot be oversubscribed at the scheduling level".  No device is in the *)
(* annotations of two running pods.                                        *)
(***************************************************************************)
NoOversubscription ==
  \A k, j \in Key : k # j => Granted(k) \cap Granted(j) = {}

(***************************************************************************)
(* Why there is no oversubscription: a device of a running pod is marked   *)
(* in the device table, by that pod, or is about to be by the bind call    *)
(* that still holds Policy.rwmu (allocate.go:67-81).                       *)
(***************************************************************************)
RunningIsMarked == \A k \in Key : \A g \in Granted(k) : Reserved(api[k].uid, g)

(***************************************************************************)
(* DeviceInfo.RemovePod clears isUsed whatever else podMap holds           *)
(* (deviceinfo.go:53-54): the flag still says whether podMap is empty,     *)
(* because a device never has two pods.                                    *)
(***************************************************************************)
FlagMatchesPods == \A g \in GPU : isUsed[g] <=> podMap[g] # {}

(***************************************************************************)
(* A device is only freed when no running pod was told to use it: the      *)
(* release of an ended pod comes once, and before its device can be given  *)
(* to another.                                                             *)
(***************************************************************************)
ReleasesOnlyEnded ==
  [][\A g \in GPU : isUsed[g] /\ ~isUsed'[g] => \A k \in Key : g \notin Granted(k)]_vars

(***************************************************************************)
(* A pod in knownPods occupies a device, unless the worker is just         *)
(* removing it: knownPods, which alone decides whether the end of a pod is *)
(* looked at (controller.go:272), never forgets to release by knowing a    *)
(* pod too long.                                                           *)
(***************************************************************************)
KnownHasDevice ==
  \A p \in known : \/ \E g \in GPU : p \in podMap[g]
                   \/ worker.pc = "remove" /\ worker.pod.uid = p

\* nothing is on its way from the API server to the cache
Settled ==
  /\ \A k \in Key : watch[k] = << >>
  /\ notes = << >> /\ handler.pc = "idle"
  /\ queue.queue = << >> /\ waiting = {} /\ worker.pc = "idle"

(***************************************************************************)
(* No notification is lost between the informer, the handlers, the queue   *)
(* and the worker: once all is handled every running pod with a readable   *)
(* annotation is in knownPods.                                             *)
(***************************************************************************)
RunningIsKnown ==
  Settled => \A k \in Key : Granted(k) # {} => api[k].uid \in known

(***************************************************************************)
(* cache.go:27: a pod is removed from knownPods "when complete and         *)
(* deleted".  Once all is handled, knownPods has no deleted pod.           *)
(***************************************************************************)
DeletedIsForgotten ==
  Settled => \A p \in known : \E k \in Key : api[k].uid = p

\* the devices each pod holds as the API server has it, and the pods that have ended
GrantOf == [p \in Pod |-> IF api[KeyOf[p]].uid = p THEN Granted(KeyOf[p]) ELSE {}]
Gone    == {p \in born : api[KeyOf[p]].uid # p \/ api[KeyOf[p]].done}

\* the extender keeps the ledger of GpuLedger.tla: a pod is granted its
\* devices when it is bound and gives them up when it ends
Ledger == INSTANCE GpuLedger WITH granted <- GrantOf, retired <- Gone
KeepsLedger == Ledger!Spec

\* every bind call is answered: Policy.rwmu is never left locked
BindIsAnswered == \A b \in Binder : bind[b].pc # "idle" ~> bind[b].pc = "idle"

(***************************************************************************)
(* The devices of a pod that has finished and stays at the API server are  *)
(* given back for good, although an event may come while KnownPod is asked *)
(* twice (controller.go:272-276) and a bind call may still mark a device   *)
(* after the worker has released it.  That is, where its annotation names  *)
(* all that is marked for it: others stay marked, after a repeated bind    *)
(* request (allocate.go:25) or a padded answer, which cannot be read.      *)
(***************************************************************************)
FinishedIsReleased ==
  \A p \in Pod :
    <>[](LET o == api[KeyOf[p]]
         IN  o.uid = p /\ o.done /\ {g \in GPU : p \in podMap[g]} \subseteq GPUIDs(o))
      => <>[](p \notin known /\ \A g \in GPU : p \notin podMap[g])

(***************************************************************************)
(* A pod that keeps running with its annotation is known in the end, so    *)
(* that its completion will be noticed: whatever crashed or failed, and    *)
(* although events that come while KnownPod is asked twice may be ignored: *)
(* a resync asks again (controller.go:272-276).                            *)
(***************************************************************************)
RunningBecomesKnown ==
  \A p \in Pod :
    <>[](api[KeyOf[p]].uid = p /\ Granted(KeyOf[p]) # {}) => <>[](p \in known)
=============================================================================
