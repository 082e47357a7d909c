------------------------- MODULE ExtenderInvariants -------------------------
(***************************************************************************)
(* Why the extender gives a device to one running pod at a time, and why   *)
(* nothing that happens to a pod is missed: the inductive invariants       *)
(* Exclusion, behind NoOversubscription, RunningIsMarked, FlagMatchesPods, *)
(* ReleasesOnlyEnded and KeepsLedger, and Notified, behind RunningIsKnown, *)
(* with the hypotheses they need.  ExtenderSafetyProofs,                   *)
(* ExtenderRefinement and ExtenderKnownProofs prove them; the runs         *)
(* two_gpus and faults check them first.                                   *)
(***************************************************************************)
EXTENDS Extender

(***************************************************************************)
(* Where the promise is kept.  Pods do not stay at the API server when     *)
(* they have ended, no reply is lost and no binding asked for twice: the   *)
(* runs finished_pod_stays and lost_reply say why not, and a binding asked *)
(* for twice ends like a lost reply.  And when a conflict makes Allocate   *)
(* read the pod again, that pod is the same one: names are not used again  *)
(* (allocate.go:31-37 does not compare UIDs).                              *)
(***************************************************************************)
SafeEnv ==
  /\ Env \intersect {"linger", "lost", "retry"} = {}
  /\ "bare" \in Env => \A p, q \in Pod : KeyOf[p] = KeyOf[q] => p = q

(***************************************************************************)
(* Policies whose answers have as many devices as asked for, or hold the   *)
(* padding of the best-effort policy, which makes the annotation           *)
(* unreadable.  The simple policy may answer fewer (Policies.tla).         *)
(***************************************************************************)
FittingPolicy ==
  \A free \in SUBSET GPU, p \in Pod : \A s \in Outcomes(free, Req[p]) :
    NoGPU \in s \/ Cardinality(s) = Req[p]

-----------------------------------------------------------------------------
(* Ends are reported once.                                                  *)

\* what the API server has under k and what the informer has or will have of it
Ahead(k) == {api[k], lister[k]} \union {watch[k][i].obj : i \in DOMAIN watch[k]}

\* the deletions that the handlers have not handled
Deletions == {i \in DOMAIN notes : notes[i].type = "delete"}

\* p has ended, and the informer knows it
Past(p) == p \in born /\ \A o \in Ahead(KeyOf[p]) : o.uid # p

\* and the handlers have stored it
Handled(p) == Past(p) /\ \A i \in Deletions : notes[i].new.uid # p

\* every copy of a pod is kept under its own key
UnderOwnKey ==
  /\ \A k \in Key : \A o \in Ahead(k) :
       o # NoPod => o.uid \in born /\ KeyOf[o.uid] = k
  /\ \A k \in Key :
       removed[k] # NoPod => removed[k].uid \in born /\ KeyOf[removed[k].uid] = k
  /\ worker.pc \in {"add", "remove"} => KeyOf[worker.pod.uid] = worker.key

\* after the deletion of a pod the watch does not show it again
DeletedLast ==
  \A k \in Key : \A i \in DOMAIN watch[k] : watch[k][i].kind = "del" =>
    /\ watch[k][i].obj.uid # api[k].uid
    /\ \A j \in DOMAIN watch[k] : i < j => watch[k][j].obj.uid # watch[k][i].obj.uid

\* a pod whose deletion waits for the handlers, is in removePodCache or is being
\* removed is nowhere before that
EndedOnce ==
  /\ \A i \in Deletions : Past(notes[i].new.uid)
  /\ \A i, j \in Deletions : notes[i].new.uid = notes[j].new.uid => i = j
  /\ \A k \in Key : removed[k] # NoPod => Handled(removed[k].uid)
  /\ worker.pc = "remove" /\ worker.stored => Handled(worker.pod.uid)

\* a handler half through a notification is half through one of its kind
HandlerInPlace ==
  /\ handler.pc = "recheck" => note.type = "update"
  /\ handler.pc = "store" => note.type = "delete"

Ends == UnderOwnKey /\ DeletedLast /\ EndedOnce /\ HandlerInPlace
-----------------------------------------------------------------------------
(* Bind calls.                                                              *)

\* a call that has counted and not answered holds Policy.rwmu
LockIsHeld ==
  \A b \in Binder : bind[b].pc \notin {"idle", "get", "lock"} => mutex = b

\* calls are about different pods, and hold a copy of the pod they are about
CallsApart ==
  /\ \A b, c \in Binder : bind[b].pc # "idle" /\ bind[b].pod = bind[c].pod => b = c
  /\ \A b \in Binder : bind[b].pc # "idle" => bind[b].pod \in born
  /\ \A b \in Binder : bind[b].pc \notin {"idle", "get"} => bind[b].held.uid = bind[b].pod
  /\ \A b \in Binder : bind[b].pc = "reget" => "bare" \in Env

\* until the API server binds it the pod of a call has no node; then it has the
\* devices that the call has written
NotYetBound ==
  \A b \in Binder :
    bind[b].pc \notin {"idle", "mark"} /\ api[TheKey(b)].uid = bind[b].pod =>
      /\ ~api[TheKey(b)].node
      /\ bind[b].pc = "bind" => api[TheKey(b)].ids = bind[b].ids

\* a call has chosen as many devices as its pod asks for, or a padded set
ChosenFits ==
  \A b \in Binder : bind[b].pc \in {"update", "reget", "reupdate", "bind"} =>
    NoGPU \in bind[b].ids \/ Cardinality(bind[b].ids) = Req[bind[b].pod]

Calls == LockIsHeld /\ CallsApart /\ NotYetBound
-----------------------------------------------------------------------------
(* Devices.                                                                 *)

\* pods do not stay at the API server when they have ended
NothingFinished ==
  /\ \A k \in Key : \A o \in Ahead(k) : ~o.done
  /\ worker.pc = "remove" => worker.stored

\* the copies of pods from which the worker may yet mark or release devices;
\* what it finds in removePodCache it deletes there when it is through with it
Copies ==
  (UNION {Ahead(k) : k \in Key})
    \union {notes[i].new : i \in Deletions}
    \union {removed[k] : k \in {c \in Key : ~(worker.pc = "remove" /\ worker.key = c)}}

\* whoever may make the worker mark or release a device has it
CopiesReserved ==
  /\ \A o \in Copies : o.node => \A g \in GPUIDs(o) : Reserved(o.uid, g)
  /\ worker.pc \in {"add", "remove"} =>
       \A g \in worker.rest : Reserved(worker.pod.uid, g)

\* a device is reserved for one pod at a time, ended or not
OneOwner ==
  \A g \in GPU : \A p, q \in Pod : Reserved(p, g) /\ Reserved(q, g) => p = q

\* until it is bound nobody has the devices chosen for a pod
ChosenFree ==
  \A b \in Binder : bind[b].pc \in {"update", "reget", "reupdate", "bind"} =>
    \A g \in bind[b].ids \intersect GPU : \A p \in Pod : ~Reserved(p, g)

Devices == NothingFinished /\ CopiesReserved /\ OneOwner /\ ChosenFree /\ FlagMatchesPods

(***************************************************************************)
(* The allocation as a whole: the end of a pod reaches the worker once, at *)
(* most one bind call is between the look at the devices and their marking *)
(* (Policy.rwmu, allocate.go:20-86), and every copy of a pod from which    *)
(* the worker may still mark or release a device (controller.go:166-238,   *)
(* nodeinfo.go:83-130) is a copy of the pod that has the device.           *)
(***************************************************************************)
Exclusion == Ends /\ Calls /\ Devices
-----------------------------------------------------------------------------
(* Nothing that happens to a pod is missed.                                 *)

(***************************************************************************)
(* A broken watch may hide that a pod was deleted and another one made     *)
(* under its name: the handlers are then told of an update, whose old      *)
(* object is a pod they know, and leave the new pod to the next resync     *)
(* (controller.go:256-281).                                                *)
(***************************************************************************)
NamesTellPods ==
  "relist" \in Env => \A p, q \in Pod : KeyOf[p] = KeyOf[q] => p = q

\* what the informer has after the change c, and before change i of k
After(c) == IF c.kind = "set" THEN c.obj ELSE NoPod
Before(k, i) == IF i = 1 THEN lister[k] ELSE After(watch[k][i - 1])

\* the watch ends with what the API server has
NewestLast ==
  \A k \in Key : IF watch[k] = << >> THEN lister[k] = api[k]
                 ELSE After(watch[k][Len(watch[k])]) = api[k]

\* one pod takes the place of another only by a deletion
DeletedBetween ==
  /\ \A k \in Key : \A i \in DOMAIN watch[k] :
       watch[k][i].kind = "set" => Before(k, i).uid \in {None, watch[k][i].obj.uid}
  /\ \A i \in DOMAIN notes :
       notes[i].type = "update" => notes[i].old.uid = notes[i].new.uid

\* a key that needs processing is in podQueue or with the worker
Queued ==
  /\ \A k \in queue.dirty :
       k \in queue.processing \/ \E i \in DOMAIN queue.queue : queue.queue[i] = k
  /\ \A k \in queue.processing : worker.pc # "idle" /\ worker.key = k

\* a pod that has finished never runs again
DoneForGood ==
  /\ \A k \in Key : \A o \in Ahead(k) : o.done /\ o.uid = api[k].uid => api[k].done
  /\ worker.pc = "remove" =>
       /\ worker.pod.uid \in born
       /\ api[KeyOf[worker.pod.uid]].uid = worker.pod.uid =>
            api[KeyOf[worker.pod.uid]].done

\* the pod of k will be looked at: its last change is still to be told, to be queued, or
\* to be processed
Coming(k) ==
  \/ watch[k] # << >>
  \/ \E i \in DOMAIN notes : notes[i].type # "delete" /\ notes[i].new.uid = api[k].uid
  \/ k \in queue.dirty \union waiting
  \/ /\ worker.key = k
     /\ worker.pc = "sync" \/ (worker.pc = "add" /\ worker.pod.uid = api[k].uid)

KnownOrComing == \A k \in Key : Granted(k) # {} => api[k].uid \in known \/ Coming(k)

(***************************************************************************)
(* The path of a change as a whole: the informer catches up with the API   *)
(* server, a key that is dirty is handed out again, the worker never       *)
(* forgets a pod that runs, and a running pod that is not in knownPods     *)
(* waits in the watch, a notification, podQueue, its delay, or is in the   *)
(* worker's hands (controller.go:166-345), also across a restart.          *)
(***************************************************************************)
Notified ==
  NewestLast /\ DeletedBetween /\ Queued /\ DoneForGood /\ KnownOrComing
=============================================================================
