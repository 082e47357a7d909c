# GPU scheduler extender: TLA+ verification

The extender serves the Kubernetes scheduler for pods that ask for whole GPUs
(`aliyun.com/gpu`). It scores nodes (*prioritize*), and on *bind* it chooses
devices of the node, writes their indices into an annotation of the pod, binds
the pod and marks the devices in its own table. An informer, a work queue and a
worker keep that table in step with the pods of the cluster; after a restart the
table is rebuilt from the annotations. The one promise that matters is in
`docs/designs/designs.md:23`: *GPUs cannot be oversubscribed*.

This directory holds TLA+ modules translated from the code, TLC runs on small
instances and TLAPS proofs for all instances.

    tlc -workers 2 -config MCExtender_two_gpus.cfg MCExtender.tla
    tlapm ExtenderSafetyProofs.tla

## 1. The system

### Components, their state and operations

| component | code | state | operations |
|---|---|---|---|
| controller | `pkg/gpushare/controller.go` | `podQueue`, `removePodCache` (a plain map) | handlers add / update / delete, `processNextWorkItem`, `syncPod` |
| scheduler cache | `pkg/cache/cache.go` | `nodes`, `knownPods` (lock `nLock`) | `BuildCache`, `AddOrUpdatePod`, `RemovePod`, `KnownPod`, `GetNodeInfo`, `ListNodeInfo` |
| node and devices | `pkg/types/{nodeinfo,deviceinfo,topology}.go` | per device `podMap`, `isUsed`; the matrix `gpuTopology`; `rwmu` | `AddOrUpdatePod`, `RemovePod`, `AddPod`, `ConsumeId`, `RecoveryId`, counts |
| bind | `pkg/scheduler/gputopology-bind.go`, `pkg/policy/allocate.go` | `Policy.rwmu`, what a call has read so far | `getPod`, `Allocate`, `allocateGPUID` |
| policies | `pkg/policy/{simple,besteffort,staticdgx}_policy.go`, `config.go` | none | which free devices to take; scores |
| prioritize, inspect, routes | `pkg/scheduler`, `pkg/routes` | none | HTTP in and out |
| start and stop | `cmd/main.go`, `pkg/utils/signals` | `stopCh` | informer sync, `BuildCache`, worker, HTTP server |
| informer, work queue (vendored) | `vendor/k8s.io/client-go` | store, pending notifications, `queue` / `dirty` / `processing` | deltas, relist, resync; `Add`, `Get`, `Done`, `AddRateLimited` |
| API server, scheduler, kubelet, users | external | pod and node objects | create, finish, delete, update with a resource version, bind with a UID |

### How they meet

* The **bind goroutines** (one per HTTP request) read the informer's store or the
  API server, then under `Policy.rwmu` count free devices, ask the policy, make
  up to four API calls and mark the devices, one after the other.
* The **informer** applies a change to its store and then notifies; a single
  **handler goroutine** runs the three handlers, one notification at a time.
* The handlers put keys into the work queue; the **worker** reads the store (or
  `removePodCache`, if the pod is gone) and enters or releases devices. It does not
  take `Policy.rwmu`; it and `Allocate` meet only in the devices' own locks.
* `main` waits for the informer, builds the cache, starts the worker, then serves.
  `main.go:149-153` always yields one worker.

### What is hard

* four kinds of goroutines write the same devices with no common lock;
* handlers decide on `knownPods` while the worker changes it; `KnownPod` is
  asked twice in one decision (`controller.go:272-276`);
* the store, the notifications, the queue and the table each lag behind the API
  server by a different amount;
* a pod is released by key, by UID or by an old copy of its object, and a key may
  come to mean another pod;
* the process dies between the annotation, the binding and the mark; an API call
  fails, or works and its reply is lost; the scheduler asks again;
* a node's device plugin comes and goes: the number of GPUs that it reports changes,
  and tables are replaced while others hold them;
* the deployment runs three replicas, each with a table of its own;
* the best-effort policy enumerates partitions recursively, with padding, over devices
  that the worker changes meanwhile;
* the watch breaks, and a relist shows a replaced pod as an *update* and a vanished
  one through its last known copy; the node object comes and goes.

PROJECT.json lists each of these as a hazard, at its line, with the properties
that would notice it going wrong.

### What makes each component correct

* **bind**: a device is granted to one running pod at a time (`NoOversubscription`);
  a granted device is marked, or about to be by the call that holds the lock
  (`RunningIsMarked`); every call is answered (`BindIsAnswered`).
* **worker and cache**: only devices of ended pods are freed (`ReleasesOnlyEnded`);
  a known pod occupies something (`KnownHasDevice`); what is finished is given back
  for good (`FinishedIsReleased`, where the annotation names what is marked); what is deleted is forgotten
  (`DeletedIsForgotten`, violated).
* **handlers, informer, queue**: no change of a pod is lost on the way
  (`RunningIsKnown`, `RunningBecomesKnown`).
* **devices and matrix**: the flag agrees with the pods of the device
  (`FlagMatchesPods`); free devices keep their links (`FreePairsKeepLink`).
* **node map**: who writes to a table with devices writes to the stored one
  (`HoldsStored`); exclusive whatever the node reports (`ExclusiveUnlessBlind`, broken by
  a second replica: `NoOversubscription`); a running pod becomes known, also when the
  GPUs were away for a time (`KnownInTheEnd`).
* **policies**: the enumeration is complete and without repetition
  (`EnumeratesPartitions`), its result is a best one (`BestOfABestPartition`, up to six
  sets; from seven on not even one with a link: `AnswersLinked`, violated), a configured group is not broken up needlessly (`StaticTakesSmallestGroup`), failures and
  short answers come only when they must (`FailsExactlyUnlinked`, `ShortOnlyWhen`),
  each partition shares all devices out in full sets (`SharesOutDevices`), and nothing
  is answered that was never free (`AnswersWhatWasFree`, from `ScanInv`).
* **the whole**: a ledger with atomic grant and retire (`KeepsLedger`).

## 2. Modules

| module | models | role |
|---|---|---|
| `WorkQueue` | `util/workqueue/queue.go` | operators on `[queue, dirty, processing]` |
| `Extender` | one replica and its cluster, one node | the composed system |
| `GpuLedger` | the promise of `designs.md` | abstract specification that `Extender` implements |
| `NodeInfo` | `pkg/types`, at the grain of one device or matrix write | component of its own |
| `NodeCache` | `pkg/cache`: the node map, changing nodes, several replicas | `Extender`'s bind and worker, coarser, with tables that are replaced |
| `Policies` | `pkg/policy`: the three runners and the scores | one allocation, against a changing device table |
| `ExtenderInvariants` | why `Extender` is right | its inductive invariants and the hypotheses they need |
| `MCExtender`, `MCNodeInfo`, `MCNodeCache`, `MCPolicies` | | instances for TLC |
| `ExtenderProofs` | `Extender` | theorems: types, known pods |
| `ExtenderSafetyProofs` | `Extender` | theorems: exclusion |
| `ExtenderRefinement` | `Extender` and `GpuLedger` | theorem: the refinement |
| `ExtenderKnownProofs` | `Extender` and `WorkQueue` | theorems: no notification is lost |
| `NodeInfoProofs`, `NodeCacheProofs`, `PoliciesProofs` | the module of that name | theorems |
| `PartitionsProofs` | `Policies` | theorems: the partitions are all there are, the answer is the best |

How they fit: `Extender` has every step of a call, the worker and the controller, with
one device table and any policy; `NodeInfo` looks inside one table; `NodeCache`
replaces tables and multiplies replicas; `Policies` shows what an answer of a policy may
be. What `Extender` assumes of a policy (`Outcomes`: free devices, perhaps fewer than
asked for, perhaps padded, or a failure) is what `AnswersWhatWasFree`, `ShortOnlyWhen`
and `FailsExactlyUnlinked` say of the three.

### `Extender`

Every action is the code between two places where another goroutine can be seen
or can see it.

| variable | code |
|---|---|
| `api`, `born`, `nodeOk` | pod objects by key, UIDs used so far, the node object |
| `watch` | per key, what the reflector and DeltaFIFO still hold |
| `lister`, `notes` | the informer's store; `processorListener.pendingNotifications` |
| `handler` | between the two halves of `updatePodInCache` or of `deletePodFromCache` |
| `queue`, `waiting`, `removed` | `podQueue`, its delayed adds, `removePodCache` |
| `worker` | where `syncPod` is: `sync`, `lookup`, `add`, `remove`, `done` |
| `known`, `podMap`, `isUsed` | `knownPods`, the device table |
| `bind` | each call: `get`, `lock`, `choose`, `update`, `reget`, `reupdate`, `bind`, `mark` |
| `mutex` | `Policy.rwmu` |

A pod object has a UID, the indices in its annotation, whether it has a node, and
whether `IsCompletePod` holds (succeeded, failed, or being deleted).

Choices that need a word:

* *Resource versions.* An `Update` succeeds when the held copy equals the current
  object. A node and an end are never taken back and a UID is never used again, so
  an object can only return to an earlier value when its annotation is changed and
  changed back while a call holds the old copy. That takes three calls for one pod,
  which the scheduler makes only under `retry`; the runs with `retry` have at
  most two calls.
* *API calls* and their reply are one step, except under the fault `lost`, in
  which the effect happens and the call answers an error.
* *`Policy.rwmu`* is taken in the same step as the first count of the free
  devices: nothing happens between the two that others could see. The deferred
  `Unlock` is part of `Answer`, which every return uses. A panic inside the HTTP
  goroutine is recovered by `net/http` after the deferred unlock, which is an
  answer like the error returns.
* *`NodeInfo.rwmu`* is left out of `Extender`: only the one worker takes it for
  writing, and `Allocate` does not hold it while it scans the devices. Module
  `NodeInfo` has it.
* *The scan of the devices* is one step, each mark and each release of one device
  is one step. `forgetPod` and the deletion from `removePodCache` follow each other
  with nothing to be seen in between but the map entry, and are one step.
* *`Done`* of the queue is deferred and is a step of its own: a key may be added
  between the end of `syncPod` and `Done`.
* *Start.* `Init` is the state after the first sync, when no pod is bound yet: every
  key has been queued, in any order. `CrashRestart` is the same with the pods
  as they are, after `BuildCache`. While the node of a bound pod is missing
  `BuildCache` fails and the program exits again, so the restart waits.
* *Resync* reports an object again only when no notification of its key is pending;
  repeated equal updates in a row change nothing for the handler.
* *The policy* is the constant `Outcomes`: for a set of free devices and a request,
  the sets it may answer, which lets the proofs speak about every policy. It may also
  fail or panic at any time.
* *`Env`* chooses what the surroundings do (`EnvKinds`); without `linger` a pod
  disappears from the API server the moment it ends.

### `NodeInfo`

Goroutines call `AddOrUpdatePod`, `RemovePod` (with `rwmu`) and the mark loop of
`Allocate` (without it), with any pod and any annotation, also one that names a device
the node does not have. Device and matrix are changed in separate steps.

### `GpuLedger`

A pod is granted as many devices as it asks for, once in its life, disjoint from all
other grants, in one step; it keeps them until it ends. `Extender!KeepsLedger` maps
`granted` to the annotations of the running pods and `retired` to the pods that are
finished or gone; the binding is the step that grants.

### `NodeCache`

One node and all replicas. A table is a record of its number of devices and the devices
in use; `tables[r]` is the sequence of the tables replica `r` has made, of which the last
is in the map, because older ones may still be held. `GetNodeInfo` is two steps: the
read of the informer's node (with the request, or when the worker takes the key) and the
part under `nLock`. `count[r]` is what the informer of `r` shows, on its own for every
replica.

* A bind call is: request, table, choice under `Policy.rwmu` of its replica, commit
  (annotation and binding), mark. Lost replies, conflicts and repeated requests are
  `Extender`'s. A pod gets one call at a time, from one replica.
* `Fits` is the scheduler's own count of `aliyun.com/gpu` (the policy configuration has
  `ignoredByScheduler: false`): it does not send more pods to a node than the node ever has
  GPUs.
* `todo` holds deleted pods until the worker has removed them: `delete_race` is
  `Extender`'s.
* A prioritize or inspect call that reads the number the stored table has can change
  nothing and is left out.
* A table with GPUs is replaced only by `Restart`. A node that shrinks, or grows from
  some to more, keeps its table: so says `GetNodeInfo`, and `ExclusiveUnlessBlind` is checked
  with it.
* `blind` remembers a restart at which the node reported no GPU although pods ran there.
  Then `BuildCache` makes a table of no devices, enters nobody, and the first
  `GetNodeInfo` after the GPUs are back replaces it by an empty one: the next bind
  call can be given a device of a running pod, before a resync has entered it. Without the
  condition `ExclusiveUnlessBlind` is violated in just this way.

### `Policies`

One call of a runner: `Count` (the free devices are enough), one `Look` per device, then
`Choose`. Between any two of them the worker may mark or free a device, in the two
halves of `RemovePod` that `NodeInfo` has.

* `GPUSets`, `Remaining`, `Iterations` and `GPUPartitions` are the enumeration of
  `besteffort_policy.go` as recursive functions, and `Best` the two loops over its
  results: the order of the candidates is the code's, so ties fall the same way. The
  answer is a set, as its order has no effect later.
* A panic is an answer of its own kind: `net/http` recovers it and the deferred unlock has
  run.
* The count (`GetAvailableGPUs`) is one step, and the scores are computed at one
  moment: a change before or after is covered, one in the middle of the sums is not.
* Go's order of a map of at most eight entries is a rotation; more devices would need
  more orders (`Orders` is a constant).
* `append(accum, ...)` lets candidates share an array. It is of 1, 2, 4, 8, ... sets, and a
  new one is made when it is full. So a partition of `k` sets has its first `c + 1` sets,
  where `c` is the largest power of two below `k`, in an array that only partitions with
  the same first `c + 1` sets write to (`Kept`), and the rest is what the last of these has
  written when the best set is looked for (`Overwritten`). When partitions are compared,
  each is scored before the next is made. Up to six sets nothing is lost: the sets that are
  kept leave at most one choice for the last. From seven sets on (14 GPUs asked for in
  pairs) the saved best partition is no longer the one that was scored.

## 3. Runs

Bounds: `MaxNotes` is the number of unhandled notifications (1: the informer may run
one ahead of the handler; each of the key queues behind it is unbounded), `MaxFaults`
the number of faults, `MaxChanges` and `MaxRestarts` what they say. Two pods and one or two
devices are enough for a conflict over a device; three pods for a device that passes
from one to a second while a third waits; two pods under one key for a name that is used
again. A table that is replaced needs one change from 0 GPUs, one call that holds the
old table and one pod that gets a device of the new one. Six devices give partitions
of three pairs, of two triples, and with sets of four and five a padded rest; with one
marked, five devices give a padded rest for two and three. Fourteen devices in pairs
make the seven sets from which on `append` overwrites what matters; that run begins with
all of them free (`SpecFree`), with one linked pair and one order of the device map.
A node that comes back is no fault of its own, so with one fault it can go and come back.
One bind call in `liveness` makes several requests, one after the other; concurrent calls are
in `two_gpus` and `faults`. Three GPUs there let a padded answer, a full one and a second
choice for a repeated request occur.

All configurations of `MCExtender`, `MCPolicies` and `MCNodeCache` switch the deadlock check off: pods are
finitely many, a call ends when it is answered, and when all have ended the system
may rightly stop. `MCNodeInfo` checks for deadlock.

| run | instance | shows |
|---|---|---|
| `two_gpus` | 2 pods (1 and 2 GPUs), 2 GPUs, 2 bind calls, no fault | allocation is exclusive, marked, and refines the ledger; `Exclusion`, the invariant that explains it |
| `faults` | 2 pods, 1 GPU, 2 bind calls; crash, relist, node, API error, 1 of them | exclusive, marked and a ledger all the same; no notification lost, by `Notified` |
| `name_reuse` | 3 pods on 2 names, 1 GPU, 1 relist | a device is freed only when its pod has ended |
| `liveness` | 1 pod that wants 2 of 3 GPUs, 1 bind call, answers that may be padded; linger, crash, relist, API error, lost reply, repeated bind | types, a known pod has a device, the three liveness properties |
| `node_info` | 3 GPUs, 2 pods, 2 goroutines | the inductive invariant of `NodeInfo` |
| `policies` | 6 GPUs, 6 setups of policy, links and groups, all requests, 1 change | what the three policies answer, and when they do not; `ScanInv`, the invariant of the scan |
| `node_cache` | 1 replica, 2 pods, 0 to 2 GPUs, 1 change, 1 restart | the node map; running pods become known |
| `finished_pod_stays` | 3 pods on 2 names, 1 GPU, linger | **violated**: oversubscription |
| `lost_reply` | 2 pods, 1 GPU, one lost reply | **violated**: oversubscription |
| `delete_race` | 2 pods, 1 GPU, no fault | **violated**: a deleted pod stays known |
| `many_sets` | 14 free GPUs in pairs, one link, undisturbed | **violated**: the answer is a pair without a link |
| `replicas` | 2 pods, 2 GPUs, 2 replicas | **violated**: oversubscription |

### What the runs say together

The promise holds in spite of crashes, broken watches, missing nodes, changing nodes and
failing API calls, because what the table forgets (a device still marked for a pod that is
gone) only ever errs on the safe side, and what it must not forget (a device of a running
pod) is written before `Policy.rwmu` is released. It breaks in these ways:

1. A **finished pod that stays** at the API server (`finished_pod_stays`). The second
   test of `updatePodInCache` is `len(...) >= 0`, so every resync of the finished,
   forgotten pod queues it, `syncPod` removes it again, and `DeviceInfo.RemovePod`
   clears `isUsed` although another pod has the device by now.
2. A **binding whose reply is lost** (`lost_reply`). The devices are not marked and the
   next call may choose them before the informer has brought the news.
3. A **repeated bind request** for a pod that runs (`lost_reply` with two GPUs and
   `Env = {"retry"}` shows it in a few seconds). `Allocate` never looks whether the pod has
   a node: it writes newly chosen devices over the annotation, then the binding fails, so
   they are not marked, and the next call gives them to another pod. The device the pod had
   first stays marked for good: when the pod ends, the worker releases what the annotation
   says. A padded answer leaves devices marked in the same way, as the worker cannot
   read it. So `FinishedIsReleased` is about pods whose annotation names all that is marked
   for them; `liveness` shows that it holds for these, and types and `knownPods` survive.
4. **Two replicas** (`replicas`), as `config/gputopology-schd-extender.yaml:69` deploys
   them: each has its own table and its own lock.
5. A **restart while the node reports no GPU** (`blind`, above).

The policies add (`policies`, `many_sets`):

* The simple policy looks at the first devices of the node only. The best-effort policy
  answers a padded set when it scores best. Nobody compares the answer with the request, so
  in both cases (`ShortOnlyWhen`) the pod is bound with fewer GPUs than it asked for, or
  none, although `designs.md:82` says "If no GPU is found at the binding time, no binding
  is performed at this time".
* The best-effort policy panics for every request of one GPU, on every node without
  a topology annotation, and whenever no two free devices have a known link
  (`FailsExactlyUnlinked`): the best partition starts as an empty list that only a
  score above 0 replaces. Apart from that its enumeration is right.
* From seven sets on its choice is not (`many_sets`): of 14 free GPUs with a link between
  10 and 11 only, asked for in pairs, it answers 0 and 1, because later candidates
  have overwritten `{10, 11}` in the saved partition.
* The static policy is right within its configuration: "choose a random schem"
  (`staticdgx_policy.go:97`) returns devices together with an error, so `Allocate` fails.

Further disagreements between code and comments, seen while modelling and described
here only: a pod replaced by one of its name while the watch was broken comes as an update
from the old pod to the new one, the handler asks for the UID of the old, and the new
pod is not queued until the next resync (`controller.go:269`; `RunningIsKnown` fails with two
pods on one name and one relist), while the devices of the
old pod stay marked; the text of a conflict is compared with a text that the API machinery
never produces alone, so the retry never runs (`allocate.go:28`).

### Fairness

`FairSpec` assumes: `Deliver` strongly, since it is the model's bound `MaxNotes`, not
the code, that takes its turn away; `Resync` strongly, as a ticker returns every 30 s;
the handler, the worker, the delayed queue and each bind call weakly, since these are
goroutines that are scheduled when they can run; `BindCount` strongly, because a
`sync.RWMutex` is handed to its waiters in turn. Nothing is assumed of users, the
scheduler, the kubelet or of faults.

`NodeCache!FairSpec`: the informer, the worker once it has a key, and the calls weakly; taking
a key strongly, as the queue is first in, first out and a resync brings every unknown
running pod again every 30 s.

After a signal (`main.go:90`, `stopCh`) the informers and the worker stop and the HTTP server
goes on. The safety runs use the specifications without fairness, in which informer
and worker may stop at any point while calls go on: so `NoOversubscription` and
`KeepsLedger` hold for the time after a signal too.

## 4. Proofs

`ExtenderProofs` is about `Extender` for **every** set of pods, names, devices and
bind calls, every policy that answers free devices (with or without padding), every
environment. It uses the named assumptions of the module: keys and devices are
finite sets, devices are natural numbers (so the padding `-1` is none of them),
`None` is no pod, key or binder.

* `TypeCorrect`: `Spec => []TypeOK`. `TypeOK` says more than types: it ties the
  fields of `worker`, `bind` and `handler` to where they are (a call past `getPod`
  holds a pod object, a handler in the middle of a notification still has it), which
  makes it inductive by itself. One lemma per group of actions (`ClusterType`,
  `InformerType`, `HandlerType`, `WorkerType`, `BindType`, `CrashType`, ...).
* `KnownOccupies`: `Spec => []KnownHasDevice`. Not inductive: `rememberPod` adds a
  pod after the loop over its devices has ended. `AddedSoFar` says what that loop has
  done so far: there is at least one id, the remaining ones are among them, and the
  pod is in `podMap` of all others. Only the worker takes a pod off a device
  (`OnlyTheWorkerRemoves`), and only of the pod it is removing; `BuildCache` enters a
  pod with the devices of its annotation (`BuiltKnownHasDevice`).

Three modules prove the promises of `Extender` from the invariants of `ExtenderInvariants`,
which the runs `two_gpus` (`Exclusion`) and `faults` (`Notified`) check first. They need
hypotheses on the constants that the code does not fulfil everywhere; each has a behaviour that shows why:

| hypothesis | says | without it |
|---|---|---|
| `SafeEnv` | no ended pod stays at the API server, no binding reply is lost, no binding is asked for twice | runs `finished_pod_stays`, `lost_reply`, and item 3 above |
| `SafeEnv`, second part | if the conflict retry of `Allocate` runs, names are not used again | `allocate.go:31-37` reads the pod by name and compares no UID: devices chosen for a deleted pod are written to its namesake, which another call is binding (TLC finds it with three pods on two names, two GPUs, two calls) |
| `FittingPolicy` | an answer has as many devices as asked for, or the padding | the simple policy may answer fewer (`ShortOnlyWhen`): the ledger would grant fewer |
| `NamesTellPods` | if the watch may break, names are not used again | the handler asks for the UID of the old pod (`controller.go:269`) and does not queue the new one: `RunningIsKnown` is violated with two pods on one name and one relist |

Crashes at any point, broken watches, missing nodes and failing API calls need no
hypothesis, and a pod may be created under a used name wherever the table does not
forbid it.

`ExtenderSafetyProofs` (with `SafeEnv`):

* `ExclusionHolds`: `Spec => []Exclusion`. None of the promises is inductive: the worker
  acts on copies of pods, from the watch, from notifications, from `removePodCache`,
  long after the pod has changed. `Exclusion` has three parts, each proved for every action.
  `Ends`: copies lie under their own key, a deletion is the last the watch shows of a
  pod, and a pod whose deletion waits for the handlers, is in `removePodCache` or is
  being removed is nowhere before that (so its release happens once). `Calls`:
  a call between count and answer holds `Policy.rwmu`, calls are about different
  pods, and a pod has no node until its own call binds it. `Devices`: any device that
  some copy may make the worker mark or release is *reserved* for that pod (in `podMap`
  for it, or about to be by the call that has bound it), each device is reserved for one
  pod at a time, and the devices a call has chosen for none.
* `MarkedWhileRunning`, `NeverOversubscribed`, `FlagsAgree`: `RunningIsMarked`,
  `NoOversubscription` and `FlagMatchesPods` follow from it.
* `OnlyEndedAreReleased`: `Spec => ReleasesOnlyEnded`, an action property: the step of the
  worker that frees a device frees it of the pod that it was reserved for, which has
  ended (`Handled`), so no other running pod was told to use it.

`ExtenderRefinement` (with `SafeEnv` and `FittingPolicy`):

* `LedgerIsKept`: `Spec => KeepsLedger`. `granted` is read off the annotations of the
  running pods and `retired` off the pods that were born and are gone, so each step is
  compared at the API server: the step in which a call binds is `Grant` (the chosen
  devices are reserved for no pod, hence in no grant; they are as many as asked for by
  `ChosenFits`), the deletion of a pod is `Retire`, and every other step of
  the cluster, informer, handlers, worker, calls and crash is a stutter (an update of
  an annotation happens only before the binding: `NotYetBound`).

`ExtenderKnownProofs`:

* `NotifiedHolds` (with `NamesTellPods`): `Spec => []Notified`. `RunningIsKnown` speaks of
  states in which nothing is left to do; its invariant follows a change on its way. The
  watch ends with the state of the API server (`NewestLast`) and one pod replaces another
  only through a deletion (`DeletedBetween`); a dirty key is in the queue or with the
  worker (`Queued`); a pod that has finished stays finished, so the worker forgets
  only those (`DoneForGood`); and a running pod is known or `Coming`: in the watch,
  in a notification, queued, delayed, or in the worker's hands. The hard steps are the
  handler's second `KnownPod`, which may see the pod forgotten meanwhile, and `Done`,
  which must hand a key out again that was added meanwhile.
* `KnownWhenSettled`: `Spec => []RunningIsKnown` follows. `Ends` needs no hypothesis here, so
  this holds also where pods stay, replies are lost and bindings are repeated.

`NodeInfoProofs` is about `NodeInfo` for every number of goroutines and devices, every
matrix of links and every annotation.

* `Invariance`: `Spec => []IInv`, the inductive invariant, which the run `node_info` checks first.
* `LinksKept`: `Spec => []FreePairsKeepLink` follows. A goroutine in a loop holds `rwmu`
  (`LockHeld`), and between `AddPod` and `ConsumeId` the device is in use
  (`ConsumedIsUsed`): without it the row could be cleared under a free device.
* `TypeCorrect`: `Spec => []TypeOK`.

`NodeCacheProofs` is about `NodeCache` for every set of replicas and pods, all requests,
every finite set of numbers of GPUs, and any bounds.

* `TypeCorrect`: `Spec => []TypeOK`. `TypeOK` also says that a holder's index is one of an
  existing table and that a call's GPUs are devices of its table; so a lemma says of
  `GetNodeInfo` and of a write that tables get more but never other devices (`Longer`),
  and another that what is held then stays (`HeldStays`).
* `HoldersSeen`: `Spec => []HoldsStored`, from `OnlyLastHasDevices`: a table is replaced
  only when it has no device, so no older one has any.
* `Exclusive`: with one replica, `Spec => []ExclusiveUnlessBlind`. The invariant has three
  parts. `Life`: a new pod has no GPU, a bound one has some, what the informer shows as gone
  is gone, the worker removes only what was deleted, one call at a time is between choice
  and mark. `OnlyLastHasDevices`: that call holds the stored table. `Safe`: a pod whose GPUs
  have not been given back by the worker (`Held`, not just `Running`: the device of a
  deleted pod is still taken) has them in the stored table unless its own call is
  about to mark them, and shares none with another such pod or with the call under way.
  The removal is where `Held` is needed: a release takes devices out of the table that
  no other holder can have. `~blind` is needed for `Restart` only (`RestartSafe`).

`PoliciesProofs` is about `Policies` for every number of devices, topology, configuration,
request, order of the device map and number of changes by the worker. Its assumptions are
those of `Policies`: the orders are permutations of the devices, a link joins two devices,
a group of `static-node.json` has the size it is listed under.

* `ScanHolds` and `TypeCorrect`: `Spec => []ScanInv` and `Spec => []TypeOK`. The inductive
  invariant is `TypeOK /\ ScanInv`: no device is looked at twice, what was found was free but
  for as many devices as the worker has marked since, and if it has changed nothing, then
  what was found is all that is free. One lemma per action (`CountKeeps`, `LookKeeps`,
  `ChangeKeeps`), and one per runner for `Choose` (`SimpleSound`, `BestSound`,
  `StaticSound`). That `bestRunner` answers a set of devices and padding with a score in
  `Nat`, or panics, is the hard part of `TypeOK` (below).
* `AnswersFree`: `Spec => []AnswersWhatWasFree`, what `Extender` assumes of a policy.
* `ShortAnswers`: `Spec => []ShortOnlyWhen`. A set that lacks devices has padding, hence all
  of it, and `size - padding` is the number of free devices modulo `size` (`PaddingFills`,
  `SetsFromCount`).
* `StaticTakesSmallest`: `Spec => []StaticTakesSmallestGroup`. The loop over larger sizes
  ends at `Len(devices) + 1`, and no larger group can be free.
* `PartitionsShareOut`: `Spec => []SharesOutDevices`, and with it that the internal error of
  `besteffort_policy.go:92` never comes, for every number of devices and every size. What
  `iterate` is called with is always `Divisible`: its length is a multiple of the size, no
  device is in it twice, and it has all of the padding or none. A set that has all
  or none of the padding leaves a sequence that is `Divisible` again (`SetsLeaveSets`);
  it would not if the filter were missing (the mutant `Whole_Any`). So each call returns
  partitions of what it was given (`IterationsPartition`, `GPUPartitionsAre`).

`PartitionsProofs` goes on with the best-effort runner, under the same assumptions.
`EnumerationComplete`, `Spec => []EnumeratesPartitions`, says that every partition of the
free devices is called back with, and once.

* The padding comes last in what `iterate` is called with (`Trailing`, `Ready`), so the
  first element is a device. The sets that hold it are numbered by the places of their
  other members, each number once (`SetNumbers`, `SetsAt`).
* A set the filter lets through is determined by its devices (`PlacesOfSet`), and each set
  of a partition, filled up with the padding if it is the smaller one, is such a set
  (`PlacesOfBlock`).
* By induction on the length, the calls tell apart all ways of sharing out the devices
  (`Sharing`): each is a branch of some call (`CallCompletes`), no two branches give the
  same (`CallTells`), and together they are what `Iterations` has (`IterationsAre`).
* That these are the partitions into sets of the size and one smaller rest is a matter of
  counting (`UnionCount`, `SmallSets`, `SetsCount`, `PartitionsAre`).

`BestAnswered`, `Spec => []BestOfABestPartition`, says that the answer is a best set of a
best one of these partitions, when the free devices make at most six sets of the request
(without this it is false of the code: run `many_sets`). `FailuresUnlinked`, `Spec => []FailsExactlyUnlinked`, when
there is none.

* The code adds up the links of a set by pairs of places, padding included, the properties
  by sets of two devices. A sum does not depend on the order it is taken in (`FoldAdds`,
  `SumAdds`), so a bijection keeps it (`SumMoved`), even one that leaves out what adds 0 (`SumMatch`):
  the score of a set is that of its links (`SetScored`), the score of a partition that of
  its blocks (`PartitionScored`).
* The saved partition survives `append`: at most six sets keep all but one (`KeptIs`), all
  sets together fill up the devices and the padding (`SetsFill`), so partitions that share
  all but the last set share that too (`LastSet`), and what is in the array in the
  end is the same partition (`SavedIsKept`).
* A best element is taken twice (`BestPicks`, `BestChosen`), first among all partitions
  (`EnumerationComplete`): the answer is the best where it is given (`BestIsBest`), and
  remains so while the node is undisturbed, for scores depend on nothing else
  (`SameLinks`).
* A sum of naturals is 0 only if all of them are (`SumZero`). Any two free devices are in
  some partition together (`ShareTogether`, by induction on the number of sets), which is
  called back with (`CalledTogether`): a link anywhere makes some partition score
  (`NothingLinked`). A request for one device has nothing to score (`OneUnlinked`).

These proofs need induction over data. The library's induction theorems take an operator
as a parameter, which the provers cannot instantiate; the first section of the module
states the same facts about *sets*: `Smallest` (a set of naturals has a least member, from
the well-foundedness of `<`), `Induction` (a set of naturals that has every number whose
predecessors it has is `Nat`), and `Recursion` (a recursive function over arguments with a
measure exists and is unfolded by its definition). Everything about `GPUSets`,
`Remaining`, `Iterations`, `FlattenSeq` and `SumFunction` rests on these.

Only model-checked: the liveness properties, as TLAPS does not reason about fairness.

## 5. Not modelled, and the plan

Left out for good: how the topology annotation is split (`_`-separated keys) and printed,
HTTP decoding, the inspect command line, logging, Kubernetes resource arithmetic (the
request is a constant), the indexer and the ring buffer of the informer, what the
scheduler makes of the scores (`policy.go:66`: they exceed its maximum of 10; the tables of
`topology.go:14` and `nvml` number the PCIe links in opposite orders), the loop of prioritize
over several nodes, and the unused `NodeInfo.Assume`.

Two accesses to `removePodCache` or `cache.nodes` at once may make Go abort the process; the
model makes each access atomic, and an abort is a crash, which `CrashRestart` and `Restart`
allow anywhere.

Every safety and action property of the runs has a theorem. Next, in this order:

1. The safety part of the liveness arguments: an invariant that the worker, a call or a
   queued key always has a step to take, so that only fairness is left to TLC.
2. `NodeCache` as an implementation of `GpuLedger`, one ledger for the stored table, for as
   long as no replica has restarted blind.
